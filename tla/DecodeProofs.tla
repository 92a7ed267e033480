---------------------------- MODULE DecodeProofs ----------------------------
(***************************************************************************)
(* The three readings of an instruction word agree, for every word and     *)
(* every run: the constraints of the decode table accept a row over the    *)
(* bits of a word as one instruction exactly when the VM decodes the word  *)
(* to it, the rows that are built are such rows, and what they offer on    *)
(* the decode buses is what the instructions ask for.                      *)
(***************************************************************************)
EXTENDS DecodeTables, DataLemmas

(***************************************************************************)
(* Slices of a word.                                                       *)
(***************************************************************************)
\* A word is its bits.
IsWord(w) == w \in [0 .. 31 -> {0, 1}]

\* A slice depends on its bits only.
LEMMA SameBits ==
  ASSUME NEW v, NEW w, NEW i, NEW j, NEW n, \A k \in 0 .. n - 1 : v[i + k] = w[j + k]
  PROVE  Bits(v, i, n) = Bits(w, j, n)
<1>1. [k \in 0 .. n - 1 |-> v[i + k]] = [k \in 0 .. n - 1 |-> w[j + k]]
  OBVIOUS
<1> QED
  BY <1>1 DEF Bits

\* A slice of n bits is a number below 2 ^ n.
LEMMA BitsRange ==
  ASSUME NEW w, IsWord(w), NEW lo \in Nat, NEW n \in Nat, lo + n <= 32
  PROVE  Bits(w, lo, n) \in Nat /\ Bits(w, lo, n) < 2 ^ n
<1>1. PICK a : a = [k \in 0 .. n - 1 |-> w[lo + k]]
  OBVIOUS
<1>2. BitsBelow(a, n)
  <2>1. \A k \in 0 .. n - 1 : lo + k \in 0 .. 31
    OBVIOUS
  <2> QED
    BY <1>1, <2>1 DEF BitsBelow, IsWord
<1> QED
  BY <1>1, <1>2, BitsBound DEF Bits

\* u is the upper part, from m on, of n more digits of a.
IsUpper(u, a, m, n) ==
  /\ \A i \in 0 .. m + n - 1 : a[i] \in Int
  /\ \A i \in 0 .. n - 1 : u[i] = a[m + i]

\* The upper part of the digits of a number is a number by itself.
LEMMA UpperDigits ==
  ASSUME NEW m \in Nat, NEW n \in Nat, NEW a, NEW u, IsUpper(u, a, m, n)
  PROVE  Digits(a, 2, m + n)[m] = Digits(u, 2, n)[0]
<1> USE DEF IsUpper
<1>1. PICK d : d = Digits(a, 2, m + n)
  OBVIOUS
<1>2. PICK e : e = Digits(u, 2, n)
  OBVIOUS
<1>3. /\ d[m + n] = 0 /\ \A i \in 0 .. m + n - 1 : d[i] = a[i] + 2 * d[i + 1]
  <2>1. m + n \in Nat
    OBVIOUS
  <2> QED
    BY <1>1, <2>1, DigitsStep
<1>4. e[n] = 0 /\ \A i \in 0 .. n - 1 : e[i] = u[i] + 2 * e[i + 1]
  <2>1. \A i \in 0 .. n - 1 : u[i] \in Int
    <3>1. ASSUME NEW i \in 0 .. n - 1
          PROVE  u[i] \in Int
      <4>1. m + i \in 0 .. m + n - 1
        OBVIOUS
      <4>2. u[i] = a[m + i]
        OBVIOUS
      <4> QED
        BY <4>1, <4>2
    <3> QED
      BY <3>1
  <2>2. 2 \in Int
    OBVIOUS
  <2>3. /\ Digits(u, 2, n)[n] = 0
        /\ \A i \in 0 .. n - 1 : Digits(u, 2, n)[i] = u[i] + 2 * Digits(u, 2, n)[i + 1]
    BY <2>1, <2>2, DigitsStep
  <2> QED
    BY <1>2, <2>3
<1> DEFINE S == {i \in 0 .. n : d[m + i] = e[i]}
<1>5. n \in S
  BY <1>3, <1>4
<1>6. ASSUME NEW i \in 0 .. n - 1, i + 1 \in S
      PROVE  i \in S
  <2>1. d[m + i] = a[m + i] + 2 * d[m + (i + 1)]
    <3>1. m + i \in 0 .. m + n - 1 /\ (m + i) + 1 = m + (i + 1)
      OBVIOUS
    <3> QED
      BY <1>3, <3>1
  <2>2. d[m + (i + 1)] = e[i + 1] /\ u[i] = a[m + i] /\ e[i] = u[i] + 2 * e[i + 1]
    BY <1>4, <1>6
  <2> QED
    BY <2>1, <2>2
<1>7. \A i \in 0 .. n : i \in S
  <2> HIDE DEF S
  <2> QED
    BY <1>5, <1>6, InductionDown
<1>8. d[m + 0] = e[0] /\ m + 0 = m
  BY <1>7
<1> QED
  BY <1>1, <1>2, <1>8

\* The lower part, and what the upper one adds to it.
LEMMA LowerDigits ==
  ASSUME NEW m \in Nat, NEW n \in Nat, NEW a, NEW v,
         \A i \in 0 .. m + n - 1 : a[i] \in Int, \A i \in 0 .. m - 1 : v[i] = a[i]
  PROVE  Digits(a, 2, m + n)[0] = Digits(v, 2, m)[0] + 2 ^ m * Digits(a, 2, m + n)[m]
<1>1. PICK d : d = Digits(a, 2, m + n)
  OBVIOUS
<1>2. PICK e : e = Digits(v, 2, m)
  OBVIOUS
<1>3. /\ d \in [0 .. m + n -> Int]
      /\ \A i \in 0 .. m - 1 : d[i] = a[i] + 2 * d[i + 1]
  <2>1. m + n \in Nat /\ 0 .. m - 1 \subseteq 0 .. m + n - 1
    OBVIOUS
  <2> QED
    BY <1>1, <2>1, DigitsStep
<1>4. /\ e \in [0 .. m -> Int] /\ e[m] = 0
      /\ \A i \in 0 .. m - 1 : e[i] = a[i] + 2 * e[i + 1] /\ a[i] \in Int
  <2>1. \A i \in 0 .. m - 1 : v[i] \in Int /\ a[i] \in Int
    <3>1. 0 .. m - 1 \subseteq 0 .. m + n - 1
      OBVIOUS
    <3> QED
      BY <3>1
  <2>2. 2 \in Int
    OBVIOUS
  <2>3. /\ Digits(v, 2, m) \in [0 .. m -> Int] /\ Digits(v, 2, m)[m] = 0
        /\ \A i \in 0 .. m - 1 : Digits(v, 2, m)[i] = v[i] + 2 * Digits(v, 2, m)[i + 1]
    BY <2>1, <2>2, DigitsStep
  <2> QED
    BY <1>2, <2>1, <2>3
<1>5. PICK x \in Int : x = d[m]
  <2>1. m \in 0 .. m + n
    OBVIOUS
  <2> QED
    BY <1>3, <2>1
<1> DEFINE S == {i \in 0 .. m : d[i] = e[i] + 2 ^ (m - i) * x}
<1>6. m \in S
  <2>1. m - m = 0
    OBVIOUS
  <2> QED
    BY <1>4, <1>5, <2>1, PowerZero
<1>7. ASSUME NEW i \in 0 .. m - 1, i + 1 \in S
      PROVE  i \in S
  <2>1. PICK p \in Nat : p = 2 ^ (m - (i + 1)) /\ 2 ^ (m - i) = 2 * p
    <3>1. m - (i + 1) \in Nat /\ m - i = (m - (i + 1)) + 1
      OBVIOUS
    <3> QED
      BY <3>1, TwoPowers
  <2>2. PICK y \in Int : y = p * x
    OBVIOUS
  <2>3. (2 * p) * x = 2 * y
    BY <2>2
  <2>4. d[i + 1] = e[i + 1] + y /\ e[i + 1] \in Int
    BY <1>4, <1>7, <2>1, <2>2
  <2>5. d[i] = a[i] + 2 * d[i + 1] /\ e[i] = a[i] + 2 * e[i + 1] /\ a[i] \in Int
    BY <1>3, <1>4
  <2>6. d[i] = e[i] + 2 * y
    BY <2>4, <2>5
  <2> QED
    BY <2>1, <2>3, <2>6
<1>8. 0 \in S
  <2>1. \A i \in 0 .. m : i \in S
    <3> HIDE DEF S
    <3> QED
      BY <1>6, <1>7, InductionDown
  <2>2. 0 \in 0 .. m
    OBVIOUS
  <2> QED
    BY <2>1, <2>2
<1>9. d[0] = e[0] + 2 ^ m * x
  <2>1. m - 0 = m
    OBVIOUS
  <2> QED
    BY <1>8, <2>1
<1> QED
  BY <1>1, <1>2, <1>5, <1>9

\* The l bits of w from lo on, all numbers, are m and n more from hi on.
SplitAt(w, lo, l, m, n, hi) ==
  /\ lo \in Nat /\ m \in Nat /\ n \in Nat
  /\ l = m + n /\ hi = lo + m
  /\ \A k \in 0 .. l - 1 : w[lo + k] \in Int

\* A slice is its lower part and its upper one.
LEMMA SplitBits ==
  ASSUME NEW w, NEW lo, NEW l, NEW m, NEW n, NEW hi, SplitAt(w, lo, l, m, n, hi)
  PROVE  Bits(w, lo, l) = Bits(w, lo, m) + 2 ^ m * Bits(w, hi, n)
<1>0. /\ lo \in Nat /\ m \in Nat /\ n \in Nat
      /\ l = m + n /\ hi = lo + m
      /\ \A k \in 0 .. m + n - 1 : w[lo + k] \in Int
  BY DEF SplitAt
<1>1. PICK a : a = [k \in 0 .. m + n - 1 |-> w[lo + k]]
  OBVIOUS
<1>2. PICK u : u = [k \in 0 .. n - 1 |-> w[(lo + m) + k]]
  OBVIOUS
<1>3. PICK v : v = [k \in 0 .. m - 1 |-> w[lo + k]]
  OBVIOUS
<1>4. \A i \in 0 .. m + n - 1 : a[i] \in Int
  BY <1>0, <1>1
<1>5. \A i \in 0 .. m - 1 : v[i] = a[i]
  <2>1. 0 .. m - 1 \subseteq 0 .. m + n - 1
    BY <1>0
  <2> QED
    BY <1>1, <1>3, <2>1
<1>6. \A i \in 0 .. n - 1 : u[i] = a[m + i]
  <2>1. \A i \in 0 .. n - 1 : m + i \in 0 .. m + n - 1 /\ lo + (m + i) = (lo + m) + i
    BY <1>0
  <2> QED
    BY <1>1, <1>2, <2>1
<1>7. Digits(a, 2, m + n)[m] = Digits(u, 2, n)[0]
  <2>1. IsUpper(u, a, m, n)
    BY <1>4, <1>6 DEF IsUpper
  <2> QED
    BY <1>0, <2>1, UpperDigits
<1>8. Digits(a, 2, m + n)[0] = Digits(v, 2, m)[0] + 2 ^ m * Digits(a, 2, m + n)[m]
  BY <1>0, <1>4, <1>5, LowerDigits
<1>9. /\ Bits(w, lo, m + n) = Digits(a, 2, m + n)[0]
      /\ Bits(w, lo, m) = Digits(v, 2, m)[0]
      /\ Bits(w, lo + m, n) = Digits(u, 2, n)[0]
  BY <1>0, <1>1, <1>2, <1>3 DEF Bits
<1> QED
  BY <1>0, <1>7, <1>8, <1>9

(***************************************************************************)
(* The codes of the instructions.                                          *)
(***************************************************************************)
\* The instructions by their numbers.
LEMMA IdsAre ==
  /\ Len(Ids) = 23 /\ DOMAIN Ids = 1 .. 23
  /\ \A j, k \in 1 .. 23 : Ids[j] = Ids[k] => j = k
  /\ Ops = {"AddI", "XorI", "OriI", "AndiI", "Add", "Sub", "Xor", "Or", "And", "Sll", "Srl", "Sra",
            "SlliI", "SrliI", "SraiI", "Slt", "Sltu", "SltiI", "SltiuI", "Lui", "Auipc", "Jal", "Jalr"}
<1>1. Len(Ids) = 23 /\ DOMAIN Ids = 1 .. 23
  BY DEF Ids
<1>2. \A j, k \in 1 .. 23 : Ids[j] = Ids[k] => j = k
  BY DEF Ids
<1>3. Ops = {"AddI", "XorI", "OriI", "AndiI", "Add", "Sub", "Xor", "Or", "And", "Sll", "Srl", "Sra",
            "SlliI", "SrliI", "SraiI", "Slt", "Sltu", "SltiI", "SltiuI", "Lui", "Auipc", "Jal", "Jalr"}
  BY <1>1 DEF Ops, Ids
<1> QED
  BY <1>1, <1>2, <1>3

\* What the constraints ask of opcode, funct3 and funct7 of an instruction.
AirCode(tested, op) ==
  /\ tested[1] = AirOpcode(op)
  /\ op \in DOMAIN AirFunct3 => tested[2] = AirFunct3[op]
  /\ op \in DOMAIN AirFunct7 => tested[3] = AirFunct7[op]

\* The VM, the builder and the constraints have the same codes.
LEMMA CodesAgree ==
  ASSUME NEW op \in Ops, NEW x \in Nat, NEW y \in Nat, NEW z \in Nat
  PROVE  /\ RowCodes[op] = VmCodes[op]
         /\ Meets(<<x, y, z>>, VmCodes[op]) <=> AirCode(<<x, y, z>>, op)
<1>1. RowCodes[op] = VmCodes[op]
  BY IdsAre DEF RowCodes, VmCodes
<1>2. Meets(<<x, y, z>>, VmCodes[op]) <=> AirCode(<<x, y, z>>, op)
  <2>1. /\ DOMAIN AirFunct3 = Ops \ {"Lui", "Auipc", "Jal"}
        /\ DOMAIN AirFunct7 = RTypes \cup ShiftImms
        /\ RTypes \cup ShiftImms \subseteq Ops \ {"Lui", "Auipc", "Jal"}
    BY IdsAre DEF AirFunct3, AirFunct7, RTypes, ShiftImms
  <2>2. CASE op \in {"Lui", "Auipc", "Jal"}
    <3>1. VmCodes[op] = <<AirOpcode(op)>>
      BY <2>2 DEF VmCodes, AirOpcode, ITypes, ShiftImms, RTypes
    <3> QED
      BY <2>1, <2>2, <3>1 DEF Meets, AirCode
  <2>3. CASE op \in RTypes \cup ShiftImms
    <3>1. VmCodes[op] = <<AirOpcode(op), AirFunct3[op], AirFunct7[op]>>
      BY <2>3 DEF VmCodes, AirOpcode, AirFunct3, AirFunct7, ITypes, ShiftImms, RTypes
    <3> QED
      BY <2>1, <2>3, <3>1 DEF Meets, AirCode
  <2>4. CASE op \notin {"Lui", "Auipc", "Jal"} /\ op \notin RTypes \cup ShiftImms
    <3>1. VmCodes[op] = <<AirOpcode(op), AirFunct3[op]>>
      BY <2>4, IdsAre DEF VmCodes, AirOpcode, AirFunct3, ITypes, ShiftImms, RTypes
    <3> QED
      BY <2>1, <2>4, <3>1 DEF Meets, AirCode
  <2> QED
    BY <2>2, <2>3, <2>4
<1> QED
  BY <1>1, <1>2

\* No word meets two codes.
LEMMA OneCode ==
  ASSUME NEW o \in Ops, NEW op \in Ops, NEW x \in Nat, NEW y \in Nat, NEW z \in Nat,
         AirCode(<<x, y, z>>, o), AirCode(<<x, y, z>>, op)
  PROVE  o = op
  BY IdsAre DEF AirCode, AirOpcode, AirFunct3, AirFunct7, ITypes, ShiftImms, RTypes

(***************************************************************************)
(* The rows of the table.                                                  *)
(***************************************************************************)
\* The flags of one instruction.
OneHot(op) == [o \in Ops |-> IF o = op THEN 1 ELSE 0]

\* The sum of the flags, weighted, is the weight of that instruction.
LEMMA WeightedOne ==
  ASSUME NEW row, NEW op \in Ops, row.instr_type = OneHot(op), NEW weight \in [Ops -> Int]
  PROVE  Weighted(row, weight) = weight[op]
<1>1. PICK t \in 0 .. 22 : Ids[t + 1] = op
  <2>1. PICK k \in 1 .. 23 : Ids[k] = op
    BY IdsAre DEF Ops
  <2>2. k - 1 \in 0 .. 22 /\ (k - 1) + 1 = k
    OBVIOUS
  <2> QED
    BY <2>1, <2>2
<1>2. PICK a : a = [k \in 0 .. 22 |-> Is(row, Ids[k + 1]) * weight[Ids[k + 1]]]
  OBVIOUS
<1>3. PICK x \in Int : x = weight[op]
  OBVIOUS
<1>4. \A k \in 0 .. 22 : a[k] = IF k = t THEN x ELSE 0
  <2>1. ASSUME NEW k \in 0 .. 22
        PROVE  a[k] = IF k = t THEN x ELSE 0
    <3>1. k + 1 \in 1 .. 23 /\ t + 1 \in 1 .. 23 /\ (k + 1 = t + 1 <=> k = t)
      OBVIOUS
    <3>2. Ids[k + 1] \in Ops /\ (Ids[k + 1] = op <=> k = t)
      BY <1>1, <3>1, IdsAre DEF Ops
    <3>3. Is(row, Ids[k + 1]) = IF k = t THEN 1 ELSE 0
      BY <3>2 DEF Is, OneHot
    <3>4. PICK y \in Int : y = weight[Ids[k + 1]]
      BY <3>2
    <3>5. a[k] = (IF k = t THEN 1 ELSE 0) * y
      BY <1>2, <3>3, <3>4
    <3>6. k = t => y = x
      BY <1>3, <3>2, <3>4
    <3> QED
      BY <3>5, <3>6
  <2> QED
    BY <2>1
<1>5. PICK d : d = Digits(a, 1, 23)
  OBVIOUS
<1>6. /\ d \in [0 .. 23 -> Int] /\ d[23] = 0
      /\ \A i \in 0 .. 22 : d[i] = a[i] + d[i + 1]
  <2>1. PICK n \in Nat, b \in Int : n = 23 /\ b = 1
    OBVIOUS
  <2>2. \A i \in 0 .. n - 1 : a[i] \in Int
    BY <1>3, <1>4, <2>1
  <2>3. /\ Digits(a, b, n) \in [0 .. n -> Int]
        /\ Digits(a, b, n)[n] = 0
        /\ \A i \in 0 .. n - 1 : Digits(a, b, n)[i] = a[i] + b * Digits(a, b, n)[i + 1]
    BY ONLY <2>2, n \in Nat, b \in Int, DigitsStep
  <2>4. d = Digits(a, b, n)
    BY <1>5, <2>1
  <2>5. \A i \in 0 .. n - 1 : d[i] = a[i] + b * d[i + 1] /\ d[i + 1] \in Int
    BY <2>3, <2>4
  <2> QED
    BY <2>1, <2>3, <2>4, <2>5
<1> DEFINE S == {i \in 0 .. 23 : d[i] = IF i <= t THEN x ELSE 0}
<1>7. 23 \in S
  BY <1>6
<1>8. ASSUME NEW i \in 0 .. 23 - 1, i + 1 \in S
      PROVE  i \in S
  <2>1. d[i] = a[i] + d[i + 1] /\ a[i] = IF i = t THEN x ELSE 0
    BY <1>4, <1>6
  <2> QED
    BY <1>8, <2>1
<1>9. 0 \in S
  <2>1. \A i \in 0 .. 23 : i \in S
    <3> HIDE DEF S
    <3>1. PICK n \in Nat : n = 23
      OBVIOUS
    <3>2. ASSUME NEW i \in 0 .. n - 1, i + 1 \in S
          PROVE  i \in S
      <4>1. i \in 0 .. 23 - 1
        BY <3>1
      <4> QED
        BY <1>8, <3>2, <4>1
    <3>3. n \in S
      BY <1>7, <3>1
    <3>4. \A i \in 0 .. n : i \in S
      BY ONLY <3>2, <3>3, n \in Nat, InductionDown
    <3> QED
      BY <3>1, <3>4
  <2>2. 0 \in 0 .. 23
    OBVIOUS
  <2> HIDE DEF S
  <2> QED
    BY <2>1, <2>2
<1>10. Weighted(row, weight) = d[0]
  <2>1. 23 - 1 = 22
    OBVIOUS
  <2> QED
    BY <1>2, <1>5, <2>1, IdsAre DEF Weighted
<1> QED
  BY <1>3, <1>9, <1>10

\* Which flags are counted.
LEMMA CountOne ==
  ASSUME NEW row, NEW op \in Ops, row.instr_type = OneHot(op), NEW ops
  PROVE  Count(row, ops) = IF op \in ops THEN 1 ELSE 0
<1>1. PICK weight : weight = [o \in Ops |-> IF o \in ops THEN 1 ELSE 0]
  OBVIOUS
<1>2. weight \in [Ops -> Int]
  BY <1>1
<1>3. Weighted(row, weight) = weight[op]
  BY <1>2, WeightedOne
<1> QED
  BY <1>1, <1>3 DEF Count

\* The number of an instruction.
LEMMA IdIsNumber ==
  ASSUME NEW op \in Ops
  PROVE  InstructionId(op) \in Int
<1>1. \E k \in DOMAIN Ids : Ids[k] = op
  BY DEF Ops
<1>2. PICK k \in Int : k = CHOOSE j \in DOMAIN Ids : Ids[j] = op
  <2>1. (CHOOSE j \in DOMAIN Ids : Ids[j] = op) \in DOMAIN Ids
    BY <1>1
  <2>2. DOMAIN Ids = 1 .. 23
    BY IdsAre
  <2> QED
    BY <2>1, <2>2
<1>3. InstructionId(op) = k - 1
  BY <1>2 DEF InstructionId
<1> QED
  BY <1>3

\* The bits of w as the table keeps them.
HasBits(row, w) == row.decompositions = [i \in 0 .. 3 |-> [j \in 0 .. 7 |-> w[8 * i + j]]]

\* Bit p of the word in the row.
LEMMA BitInRow ==
  ASSUME NEW row, NEW w, HasBits(row, w), NEW p \in 0 .. 31
  PROVE  row.decompositions[p \div 8][p % 8] = w[p]
<1>1. PICK i \in 0 .. 3, j \in 0 .. 7 : i = p \div 8 /\ j = p % 8 /\ 8 * i + j = p
  OBVIOUS
<1> QED
  BY <1>1 DEF HasBits

\* A slice of the row is the slice of the word.
LEMMA FieldOfWord ==
  ASSUME NEW row, NEW w, HasBits(row, w), NEW lo \in Nat, NEW n \in Nat, lo + n <= 32
  PROVE  Field(row, lo, n) = Bits(w, lo, n)
<1>1. PICK v : v = [k \in 1 .. n |-> row.decompositions[(lo + k - 1) \div 8][(lo + k - 1) % 8]]
  OBVIOUS
<1>2. ASSUME NEW k \in 0 .. n - 1
      PROVE  v[1 + k] = w[lo + k]
  <2>1. 1 + k \in 1 .. n /\ lo + (1 + k) - 1 = lo + k /\ lo + k \in 0 .. 31
    OBVIOUS
  <2>2. PICK p \in 0 .. 31 : p = lo + k /\ p = lo + (1 + k) - 1
    BY <2>1
  <2>3. v[1 + k] = row.decompositions[p \div 8][p % 8]
    BY <1>1, <2>1, <2>2
  <2> QED
    BY <2>2, <2>3, BitInRow
<1>3. Bits(v, 1, n) = Bits(w, lo, n)
  BY <1>2, SameBits
<1>4. /\ DOMAIN Span(lo, n) = 1 .. n /\ Len(Span(lo, n)) = n
      /\ \A k \in 1 .. n : Span(lo, n)[k] = lo + k - 1
  BY DEF Span
<1>5. Field(row, lo, n) = Bits(v, 1, n)
  <2>1. [k \in DOMAIN Span(lo, n) |->
           row.decompositions[Span(lo, n)[k] \div 8][Span(lo, n)[k] % 8]] = v
    BY <1>1, <1>4
  <2> QED
    BY <1>4, <2>1 DEF Field, pack_bits
<1> QED
  BY <1>3, <1>5

\* A row over the bits of w that claims to be instruction op.
RowOf(row, w, op) ==
  /\ HasBits(row, w)
  /\ row.instruction = [i \in 0 .. 3 |-> Bits(w, 8 * i, 8)]
  /\ row.rd = Bits(w, 7, 5) /\ row.rs1 = Bits(w, 15, 5)
  /\ row.imm = Bits(w, 20, 12) /\ row.rs2 = Bits(w, 20, 5)
  /\ row.imm_low8 = IF op \in UTypes \cup {"Jal"} THEN Bits(w, 12, 8) ELSE 0
  /\ row.instr_type = OneHot(op) /\ row.instr_type_packed = InstructionId(op)

\* The parts of the word that are tested are numbers.
LEMMA TestedParts ==
  ASSUME NEW w, IsWord(w)
  PROVE  /\ Bits(w, 0, 7) \in Nat /\ Bits(w, 12, 3) \in Nat /\ Bits(w, 25, 7) \in Nat
         /\ Tested(w) = <<Bits(w, 0, 7), Bits(w, 12, 3), Bits(w, 25, 7)>>
<1>1. \A lo, n \in Nat : lo + n <= 32 => Bits(w, lo, n) \in Nat
  BY BitsRange
<1> QED
  BY <1>1 DEF Tested

\* Such a row is accepted exactly when the VM decodes w to op.
LEMMA RowAccepted ==
  ASSUME NEW row, NEW w, IsWord(w), NEW op \in Ops, RowOf(row, w, op)
  PROVE  Accepts(row) <=> Meets(Tested(w), VmCodes[op])
<1>1. \A lo, n \in Nat : lo + n <= 32 => Field(row, lo, n) = Bits(w, lo, n)
  BY FieldOfWord DEF RowOf
<1>2. row.instr_type = OneHot(op)
  BY DEF RowOf
<1>3. OneInstruction(row)
  <2>1. \A o \in Ops : Is(row, o) \in {0, 1}
    BY <1>2 DEF Is, OneHot
  <2>2. Count(row, Ops) = 1
    BY <1>2, CountOne
  <2>3. \A i \in 0 .. 3 : \A j \in 0 .. 7 : row.decompositions[i][j] \in {0, 1}
    <3>1. ASSUME NEW i \in 0 .. 3, NEW j \in 0 .. 7
          PROVE  row.decompositions[i][j] \in {0, 1}
      <4>1. row.decompositions[i][j] = w[8 * i + j] /\ 8 * i + j \in 0 .. 31
        BY DEF RowOf, HasBits
      <4> QED
        BY <4>1 DEF IsWord
    <3> QED
      BY <3>1
  <2>4. \A i \in 0 .. 3 : row.instruction[i] = Field(row, 8 * i, 8)
    <3>1. ASSUME NEW i \in 0 .. 3
          PROVE  row.instruction[i] = Field(row, 8 * i, 8)
      <4>1. PICK lo \in Nat : lo = 8 * i /\ lo + 8 <= 32
        OBVIOUS
      <4>2. row.instruction[i] = Bits(w, lo, 8)
        BY <4>1 DEF RowOf
      <4> QED
        BY <1>1, <4>1, <4>2
    <3> QED
      BY <3>1
  <2> QED
    BY <2>1, <2>2, <2>3, <2>4 DEF OneInstruction
<1>4. CodesMatch(row) <=> Meets(Tested(w), VmCodes[op])
  <2>1. PICK x, y, z \in Nat : x = Bits(w, 0, 7) /\ y = Bits(w, 12, 3) /\ z = Bits(w, 25, 7)
    BY TestedParts
  <2>2. Field(row, 0, 7) = x /\ Field(row, 12, 3) = y /\ Field(row, 25, 7) = z
    BY <1>1, <2>1
  <2>3. Tested(w) = <<x, y, z>>
    BY <2>1, TestedParts
  <2>4. \A o \in Ops : Is(row, o) = 1 <=> o = op
    BY <1>2 DEF Is, OneHot
  <2>5. CodesMatch(row) <=> AirCode(<<x, y, z>>, op)
    BY <2>2, <2>4 DEF CodesMatch, AirCode
  <2> QED
    BY <2>3, <2>5, CodesAgree
<1>5. FieldsMatch(row)
  <2>1. Count(row, UTypes \cup {"Jal"}) = IF op \in UTypes \cup {"Jal"} THEN 1 ELSE 0
    BY <1>2, CountOne
  <2>2. PICK x \in Nat : x = Bits(w, 12, 8)
    BY BitsRange
  <2>3. /\ Field(row, 12, 8) = x
        /\ row.imm_low8 = IF op \in UTypes \cup {"Jal"} THEN x ELSE 0
    BY <1>1, <2>2 DEF RowOf
  <2>4. /\ Count(row, UTypes \cup {"Jal"}) * (row.imm_low8 - Field(row, 12, 8)) = 0
        /\ row.imm_low8 * (1 - Count(row, UTypes \cup {"Jal"})) = 0
    <3>1. CASE op \in UTypes \cup {"Jal"}
      <4>1. Count(row, UTypes \cup {"Jal"}) = 1 /\ row.imm_low8 = x /\ Field(row, 12, 8) = x
        BY <2>1, <2>3, <3>1
      <4> QED
        BY <4>1
    <3>2. CASE op \notin UTypes \cup {"Jal"}
      <4>1. Count(row, UTypes \cup {"Jal"}) = 0 /\ row.imm_low8 = 0 /\ Field(row, 12, 8) = x
        BY <2>1, <2>3, <3>2
      <4> QED
        BY <4>1
    <3> QED
      BY <3>1, <3>2
  <2>5. /\ row.rd = Field(row, 7, 5) /\ row.rs1 = Field(row, 15, 5)
        /\ row.imm = Field(row, 20, 12) /\ row.rs2 = Field(row, 20, 5)
    BY <1>1 DEF RowOf
  <2>6. row.instr_type_packed = Weighted(row, [o \in Ops |-> InstructionId(o)])
    <3>1. PICK weight : weight = [o \in Ops |-> InstructionId(o)]
      OBVIOUS
    <3>2. weight \in [Ops -> Int]
      BY <3>1, IdIsNumber
    <3>3. Weighted(row, weight) = weight[op]
      BY <1>2, <3>2, WeightedOne
    <3> QED
      BY <3>1, <3>3 DEF RowOf
  <2> QED
    BY <2>4, <2>5, <2>6 DEF FieldsMatch
<1> QED
  BY <1>3, <1>4, <1>5 DEF Accepts

\* The VM decodes a word to one instruction at most.
LEMMA MeetsOne ==
  ASSUME NEW w, IsWord(w), NEW o \in Ops, NEW op \in Ops,
         Meets(Tested(w), VmCodes[o]), Meets(Tested(w), VmCodes[op])
  PROVE  o = op
<1>1. PICK x, y, z \in Nat : Tested(w) = <<x, y, z>>
  BY TestedParts
<1>2. AirCode(<<x, y, z>>, o) /\ AirCode(<<x, y, z>>, op)
  BY <1>1, CodesAgree
<1> QED
  BY <1>2, OneCode

\* What the VM decodes a word to.
LEMMA DecodedOp ==
  ASSUME NEW w, IsWord(w), NEW op \in Ops, Meets(Tested(w), VmCodes[op])
  PROVE  /\ (CHOOSE o \in Ops : Meets(Tested(w), VmCodes[o])) = op
         /\ decode_instruction(w).op = op
<1>1. (CHOOSE o \in Ops : Meets(Tested(w), VmCodes[o])) = op
  BY MeetsOne
<1>2. decode_instruction(w).op = op
  BY <1>1, IdsAre DEF decode_instruction, ITypes, ShiftImms, RTypes, UTypes
<1> QED
  BY <1>1, <1>2

\* The row that is built for a word that the VM decodes claims what it is.
LEMMA BuiltRow ==
  ASSUME NEW pc, NEW w, IsWord(w), NEW op \in Ops, Meets(Tested(w), VmCodes[op])
  PROVE  /\ RowOf(fill_row(pc, w), w, op)
         /\ RowOf([fill_row(pc, w) EXCEPT !.mult = 0], w, op)
<1>1. \A o \in Ops : Meets(Tested(w), RowCodes[o]) <=> o = op
  <2>1. PICK x, y, z \in Nat : Tested(w) = <<x, y, z>>
    BY TestedParts
  <2>2. \A o \in Ops : RowCodes[o] = VmCodes[o]
    BY <2>1, CodesAgree
  <2> QED
    BY <2>2, MeetsOne
<1>2. Flags(w) = OneHot(op)
  BY <1>1 DEF Flags, OneHot
<1>3. ImmLow8(w) = IF op \in UTypes \cup {"Jal"} THEN Bits(w, 12, 8) ELSE 0
  <2>1. UTypes \cup {"Jal"} \subseteq Ops
    BY IdsAre DEF UTypes
  <2>2. (\E o \in UTypes \cup {"Jal"} : Flags(w)[o] = 1) <=> op \in UTypes \cup {"Jal"}
    BY <1>2, <2>1 DEF OneHot
  <2> QED
    BY <2>2 DEF ImmLow8
<1>4. Packed(w) = InstructionId(op)
  <2>1. \A o \in Ops : Flags(w)[o] = 1 <=> o = op
    BY <1>2 DEF OneHot
  <2>2. (CHOOSE o \in Ops : Flags(w)[o] = 1) = op
    BY <2>1
  <2> QED
    BY <2>1, <2>2 DEF Packed
<1> QED
  BY <1>2, <1>3, <1>4 DEF fill_row, RowOf, HasBits

\* So does the row of DecodeForced.
LEMMA ClaimedRow ==
  ASSUME NEW w, NEW op \in Ops
  PROVE  RowOf(Claimed(w, op), w, op)
BY DEF Claimed, fill_row, RowOf, HasBits, OneHot

(***************************************************************************)
(* The inductive invariant.                                                *)
(***************************************************************************)
\* The steps of words that decode.
DecodedSteps ==
  {[pc |-> f[1], instruction_word |-> f[2], instruction |-> decode_instruction(f[2])] :
     f \in {f \in Fetches : Decodes(f[2])}}

\* The steps are those of words the VM decodes, the others are those on which
\* it panicked, and the table is that of the steps.
DecodeInv ==
  /\ trace \in Seq(DecodedSteps)
  /\ \A w \in unsupported : IsWord(w) /\ ~Decodes(w)
  /\ decode # <<>> => trace # <<>> /\ decode = build_trace

\* It holds in every run.
LEMMA DecodeSound == DecodeSpec => []DecodeInv
<1>1. DecodeInit => DecodeInv
  BY DEF DecodeInit, DecodeInv
<1>2. DecodeInv /\ [DecodeNext]_decodeVars => DecodeInv'
  <2> SUFFICES ASSUME DecodeInv, [DecodeNext]_decodeVars PROVE DecodeInv'
    OBVIOUS
  <2>0. Available \subseteq Fetches /\ \A f \in Fetches : IsWord(f[2])
    BY DecodeAssumption DEF Available, IsWord
  <2>1. CASE Execute
    <3>1. PICK f \in Fetches :
            /\ Decodes(f[2])
            /\ trace' = Append(trace, [pc |-> f[1], instruction_word |-> f[2],
                                       instruction |-> decode_instruction(f[2])])
      BY <2>0, <2>1 DEF Execute
    <3>2. [pc |-> f[1], instruction_word |-> f[2],
           instruction |-> decode_instruction(f[2])] \in DecodedSteps
      BY <3>1 DEF DecodedSteps
    <3>3. trace' \in Seq(DecodedSteps)
      <4> HIDE DEF DecodedSteps
      <4>1. PICK s \in DecodedSteps : trace' = Append(trace, s)
        BY <3>1, <3>2
      <4> QED
        BY <4>1 DEF DecodeInv
    <3>4. decode' = <<>> /\ unsupported' = unsupported
      BY <2>1 DEF Execute, Executing
    <3> QED
      BY <3>3, <3>4 DEF DecodeInv
  <2>2. CASE Panic
    BY <2>0, <2>2 DEF Panic, Executing, DecodeInv
  <2>3. CASE GenerateTraces
    <3>1. trace' = trace /\ unsupported' = unsupported /\ trace # <<>> /\ decode' = build_trace
      BY <2>3 DEF GenerateTraces
    <3>2. build_trace' = build_trace
      BY <3>1 DEF build_trace
    <3> QED
      BY <3>1, <3>2 DEF DecodeInv
  <2>4. CASE UNCHANGED decodeVars
    <3>1. trace' = trace /\ unsupported' = unsupported /\ decode' = decode
      BY <2>4 DEF decodeVars
    <3>2. build_trace' = build_trace
      BY <3>1 DEF build_trace
    <3> QED
      BY <3>1, <3>2 DEF DecodeInv
  <2> QED
    BY <2>1, <2>2, <2>3, <2>4 DEF DecodeNext
<1> QED
  BY <1>1, <1>2, PTL DEF DecodeSpec

\* A step of the trace.
LEMMA StepsDecode ==
  ASSUME DecodeInv, NEW i \in 1 .. Len(trace)
  PROVE  /\ trace[i].pc \in Nat /\ IsWord(trace[i].instruction_word)
         /\ trace[i].instruction = decode_instruction(trace[i].instruction_word)
         /\ \E op \in Ops : Meets(Tested(trace[i].instruction_word), VmCodes[op])
<1>1. trace[i] \in DecodedSteps
  BY DEF DecodeInv
<1>2. PICK f \in Fetches : /\ Decodes(f[2])
                           /\ trace[i] = [pc |-> f[1], instruction_word |-> f[2],
                                          instruction |-> decode_instruction(f[2])]
  BY <1>1 DEF DecodedSteps
<1>3. f[1] \in Nat /\ IsWord(f[2])
  BY DecodeAssumption DEF IsWord
<1> QED
  BY <1>2, <1>3 DEF Decodes

\* The rows of the table.
LEMMA TableRows ==
  ASSUME DecodeInv, decode # <<>>
  PROVE  /\ Len(trace) \in Nat /\ Len(trace) >= 1
         /\ NumRows(Len(trace)) \in Nat /\ NumRows(Len(trace)) >= Len(trace)
         /\ DOMAIN decode = 1 .. NumRows(Len(trace))
         /\ \A i \in 1 .. Len(trace) : decode[i] = fill_row(trace[i].pc, trace[i].instruction_word)
         /\ \A i \in Len(trace) + 1 .. NumRows(Len(trace)) :
              decode[i] = [fill_row(0, trace[1].instruction_word) EXCEPT !.mult = 0]
<1>1. Len(trace) \in Nat /\ trace # <<>> /\ decode = build_trace
  BY DEF DecodeInv
<1>2. Len(trace) >= 1
  BY <1>1 DEF DecodeInv
<1>3. NumRows(Len(trace)) \in Nat /\ NumRows(Len(trace)) >= Len(trace)
  BY <1>1, NumRowsFit
<1>4. \A i \in 1 .. NumRows(Len(trace)) :
        decode[i] = IF i <= Len(trace) THEN fill_row(trace[i].pc, trace[i].instruction_word)
                    ELSE [fill_row(0, trace[1].instruction_word) EXCEPT !.mult = 0]
  BY <1>1 DEF build_trace
<1>5. DOMAIN decode = 1 .. NumRows(Len(trace))
  BY <1>1 DEF build_trace
<1> QED
  BY <1>1, <1>2, <1>3, <1>4, <1>5

(***************************************************************************)
(* The theorems.                                                           *)
(***************************************************************************)
\* Every row of the table satisfies the AIR, padding included, whatever words
\* a run executes: builder and constraints read an instruction in them as the
\* VM does.
THEOREM DecodeTableAccepted == DecodeSpec => []DecodeRowsAccepted
<1>1. DecodeInv => DecodeRowsAccepted
  <2> SUFFICES ASSUME DecodeInv, NEW i \in DOMAIN decode PROVE Accepts(decode[i])
    BY DEF DecodeRowsAccepted
  <2>0. PICK n \in Nat, m \in Nat : n = Len(trace) /\ m = NumRows(Len(trace))
    BY NumRowsFit DEF DecodeInv
  <2>1. decode # <<>>
    OBVIOUS
  <2>2. CASE i \in 1 .. n
    <3>1. decode[i] = fill_row(trace[i].pc, trace[i].instruction_word)
      BY <2>0, <2>1, <2>2, TableRows
    <3>2. PICK w : w = trace[i].instruction_word /\ IsWord(w)
      BY <2>0, <2>2, StepsDecode
    <3>3. PICK op \in Ops : Meets(Tested(w), VmCodes[op])
      BY <2>0, <2>2, <3>2, StepsDecode
    <3>4. RowOf(decode[i], w, op)
      <4>1. PICK pc : decode[i] = fill_row(pc, w)
        BY <3>1, <3>2
      <4>2. RowOf(fill_row(pc, w), w, op)
        BY <3>2, <3>3, BuiltRow
      <4> QED
        BY <4>1, <4>2
    <3> QED
      BY <3>2, <3>3, <3>4, RowAccepted
  <2>3. CASE i \in n + 1 .. m
    <3>1. decode[i] = [fill_row(0, trace[1].instruction_word) EXCEPT !.mult = 0]
      BY <2>0, <2>1, <2>3, TableRows
    <3>2. 1 \in 1 .. Len(trace)
      BY <2>1, TableRows
    <3>3. PICK w : w = trace[1].instruction_word /\ IsWord(w)
      BY <3>2, StepsDecode
    <3>4. PICK op \in Ops : Meets(Tested(w), VmCodes[op])
      BY <3>2, <3>3, StepsDecode
    <3>5. RowOf(decode[i], w, op)
      BY <3>1, <3>3, <3>4, BuiltRow
    <3> QED
      BY <3>3, <3>4, <3>5, RowAccepted
  <2>4. i \in 1 .. n \/ i \in n + 1 .. m
    <3>1. i \in 1 .. m
      BY <2>0, <2>1, TableRows
    <3> QED
      BY <3>1
  <2> QED
    BY <2>2, <2>3, <2>4
<1> QED
  BY <1>1, DecodeSound, PTL

\* The constraints leave no choice: over the bits of a word that was executed
\* they accept the instruction the VM decodes and no other, over those of a
\* word on which it panics none.
THEOREM DecodeTableForced == DecodeSpec => []DecodeForced
<1>1. DecodeInv => DecodeForced
  <2> SUFFICES ASSUME DecodeInv PROVE DecodeForced
    OBVIOUS
  <2>1. ASSUME trace # <<>>, NEW op \in Ops
        PROVE  Accepts(Claimed(trace[Len(trace)].instruction_word, op))
                 <=> op = trace[Len(trace)].instruction.op
    <3>1. Len(trace) \in 1 .. Len(trace)
      BY <2>1 DEF DecodeInv
    <3>2. PICK w : w = trace[Len(trace)].instruction_word /\ IsWord(w)
      BY <3>1, StepsDecode
    <3>3. PICK o \in Ops : Meets(Tested(w), VmCodes[o])
      BY <3>1, <3>2, StepsDecode
    <3>4. trace[Len(trace)].instruction.op = o
      BY <3>1, <3>2, <3>3, StepsDecode, DecodedOp
    <3>5. Accepts(Claimed(w, op)) <=> Meets(Tested(w), VmCodes[op])
      BY <3>2, ClaimedRow, RowAccepted
    <3> QED
      BY <3>2, <3>3, <3>4, <3>5, MeetsOne
  <2>2. ASSUME NEW w \in unsupported, NEW op \in Ops
        PROVE  ~Accepts(Claimed(w, op))
    <3>1. IsWord(w) /\ ~Meets(Tested(w), VmCodes[op])
      BY DEF DecodeInv, Decodes
    <3>2. Accepts(Claimed(w, op)) <=> Meets(Tested(w), VmCodes[op])
      BY <3>1, ClaimedRow, RowAccepted
    <3> QED
      BY <3>1, <3>2
  <2> QED
    BY <2>1, <2>2 DEF DecodeForced
<1> QED
  BY <1>1, DecodeSound, PTL

(***************************************************************************)
(* The buses.                                                              *)
(***************************************************************************)
\* The powers of two in the formats.
LEMMA Powers ==
  /\ 2 ^ 5 = 32 /\ 2 ^ 8 = 256 /\ 2 ^ 10 = 1024 /\ 2 ^ 11 = 2048 /\ 2 ^ 12 = 4096
  /\ 2 ^ 20 = 1048576 /\ 2 ^ 21 = 2097152 /\ 2 ^ 1 = 2
<1>1. \A k \in Nat : 2 ^ (k + 1) = 2 * 2 ^ k
  BY TwoPowers
<1>2. 2 ^ 1 = 2 /\ 2 ^ 2 = 4 /\ 2 ^ 3 = 8
  <2>1. 2 ^ (0 + 1) = 2 * 2 ^ 0 /\ 2 ^ (1 + 1) = 2 * 2 ^ 1 /\ 2 ^ (2 + 1) = 2 * 2 ^ 2
    BY <1>1
  <2> QED
    BY <2>1, PowerZero
<1>3. \A a, b \in Nat : 2 ^ (a + b) = 2 ^ a * 2 ^ b
  BY PowersMultiply
<1>4. 2 ^ 5 = 32 /\ 2 ^ 8 = 256
  <2>1. 2 ^ (2 + 3) = 2 ^ 2 * 2 ^ 3 /\ 2 ^ (3 + 5) = 2 ^ 3 * 2 ^ 5
    BY <1>3
  <2> QED
    BY <1>2, <2>1
<1>5. 2 ^ 10 = 1024 /\ 2 ^ 11 = 2048 /\ 2 ^ 12 = 4096
  <2>1. 2 ^ (2 + 8) = 2 ^ 2 * 2 ^ 8 /\ 2 ^ (3 + 8) = 2 ^ 3 * 2 ^ 8
        /\ 2 ^ (11 + 1) = 2 * 2 ^ 11
    BY <1>1, <1>3
  <2> QED
    BY <1>2, <1>4, <2>1
<1>6. 2 ^ 20 = 1048576 /\ 2 ^ 21 = 2097152
  <2>1. 2 ^ (10 + 10) = 2 ^ 10 * 2 ^ 10 /\ 2 ^ (20 + 1) = 2 * 2 ^ 20
    BY <1>1, <1>3
  <2> QED
    BY <1>5, <2>1
<1> QED
  BY <1>2, <1>4, <1>5, <1>6

\* Flattening three sequences.
LEMMA FlattenThree ==
  ASSUME NEW S, NEW ss \in Seq(Seq(S)), Len(ss) = 3
  PROVE  FlattenSeq(ss) = (ss[1] \o ss[2]) \o ss[3]
<1>1. PICK pre : pre = [k \in 0 .. 3 |-> FlattenSeq(Prefix(ss, k))]
  OBVIOUS
<1>2. pre[0] = <<>> /\ pre[3] = FlattenSeq(ss) /\ \A k \in 0 .. 2 : pre[k + 1] = pre[k] \o ss[k + 1]
  <2>1. PICK n \in Nat : n = Len(ss) /\ n = 3
    OBVIOUS
  <2>2. /\ FlattenSeq(Prefix(ss, 0)) = <<>>
        /\ FlattenSeq(Prefix(ss, n)) = FlattenSeq(ss)
        /\ \A k \in 0 .. n - 1 : FlattenSeq(Prefix(ss, k + 1)) = FlattenSeq(Prefix(ss, k)) \o ss[k + 1]
    BY <2>1, FlattenPrefix
  <2>3. \A k \in 0 .. n : pre[k] = FlattenSeq(Prefix(ss, k))
    BY <1>1, <2>1
  <2>4. pre[0] = <<>> /\ pre[n] = FlattenSeq(ss)
    BY <2>1, <2>2, <2>3
  <2>5. ASSUME NEW k \in 0 .. n - 1
        PROVE  pre[k + 1] = pre[k] \o ss[k + 1]
    <3>1. k \in 0 .. n /\ k + 1 \in 0 .. n
      OBVIOUS
    <3>2. pre[k] = FlattenSeq(Prefix(ss, k)) /\ pre[k + 1] = FlattenSeq(Prefix(ss, k + 1))
      BY <2>3, <3>1
    <3> QED
      BY <2>2, <3>2
  <2>6. \A k \in 0 .. 2 : k \in 0 .. n - 1
    BY <2>1
  <2> QED
    BY <2>1, <2>4, <2>5, <2>6
<1>3. <<>> \o ss[1] = ss[1]
  <2>1. PICK Q : Q = Seq(S)
    OBVIOUS
  <2>2. ss[1] \in Q
    BY <2>1
  <2> QED
    BY <2>1, <2>2
<1>4. pre[1] = pre[0] \o ss[1] /\ pre[2] = pre[1] \o ss[2] /\ pre[3] = pre[2] \o ss[3]
  <2>1. 0 \in 0 .. 2 /\ 0 + 1 = 1 /\ 1 \in 0 .. 2 /\ 1 + 1 = 2 /\ 2 \in 0 .. 2 /\ 2 + 1 = 3
    OBVIOUS
  <2>2. \A j \in 0 .. 2 : \A k : k = j + 1 => pre[k] = pre[j] \o ss[k]
    BY <1>2
  <2> QED
    BY <2>1, <2>2
<1> QED
  BY <1>2, <1>3, <1>4

\* What a row offers, by the bus.
LEMMA Offered ==
  ASSUME NEW row, NEW w, IsWord(w), NEW op \in Ops, RowOf(row, w, op), row.mult \in {0, 1}
  PROVE  Receives(row) =
           IF row.mult = 0 THEN <<>>
           ELSE IF op \in UTypes
                THEN << <<"decode_u", InstructionId(op), row.rd, row.imm, row.imm_low8>> >>
           ELSE IF op = "Jal"
                THEN << <<"decode_j", InstructionId(op), row.rd, ImmJalForm(row), row.imm_low8>> >>
           ELSE << <<"decode", row.pc, InstructionId(op), row.rd, row.rs1,
                     IF op \in ITypes THEN row.imm ELSE row.rs2>> >>
<1>1. row.instr_type = OneHot(op) /\ row.instr_type_packed = InstructionId(op)
  BY DEF RowOf
<1>2. /\ Count(row, UTypes) = IF op \in UTypes THEN 1 ELSE 0
      /\ Count(row, {"Jal"}) = IF op = "Jal" THEN 1 ELSE 0
      /\ Count(row, ITypes) = IF op \in ITypes THEN 1 ELSE 0
      /\ Count(row, RTypes \cup ShiftImms) = IF op \in RTypes \cup ShiftImms THEN 1 ELSE 0
  <2>1. \A ops : Count(row, ops) = IF op \in ops THEN 1 ELSE 0
    BY <1>1, CountOne
  <2>2. op \in {"Jal"} <=> op = "Jal"
    OBVIOUS
  <2> QED
    BY <2>1, <2>2
<1>3. row.imm \in Nat /\ row.rs2 \in Nat
  <2>1. Bits(w, 20, 12) \in Nat /\ Bits(w, 20, 5) \in Nat
    BY BitsRange
  <2> QED
    BY <2>1 DEF RowOf
<1>4. /\ op \in UTypes => op # "Jal" /\ op \notin ITypes /\ op \notin RTypes \cup ShiftImms
      /\ op = "Jal" => op \notin ITypes /\ op \notin RTypes \cup ShiftImms
      /\ op \in ITypes => op \notin RTypes \cup ShiftImms
      /\ op \notin UTypes /\ op # "Jal" /\ op \notin ITypes => op \in RTypes \cup ShiftImms
  BY IdsAre DEF UTypes, ITypes, RTypes, ShiftImms
<1>5. PICK u, j, i, r \in {0, 1} :
        /\ u = Count(row, UTypes) /\ j = Count(row, {"Jal"})
        /\ i = Count(row, ITypes) /\ r = Count(row, RTypes \cup ShiftImms)
  BY <1>2
<1>6. PICK field4 : field4 = (i + u) * row.imm + r * row.rs2
  OBVIOUS
<1>7. PICK x, y, z : /\ x = <<"decode", row.pc, row.instr_type_packed, row.rd, row.rs1, field4>>
                     /\ y = <<"decode_u", row.instr_type_packed, row.rd, row.imm, row.imm_low8>>
                     /\ z = <<"decode_j", row.instr_type_packed, row.rd, ImmJalForm(row), row.imm_low8>>
  OBVIOUS
<1>12. PICK ox, oy, oz :
         /\ ox = IF row.mult * (1 - u - j) # 0 THEN <<x>> ELSE <<>>
         /\ oy = IF row.mult * u # 0 THEN <<y>> ELSE <<>>
         /\ oz = IF row.mult * j # 0 THEN <<z>> ELSE <<>>
  OBVIOUS
<1> DEFINE ss == <<ox, oy, oz>>
<1>8. Receives(row) = FlattenSeq(ss)
  <2> DEFINE offers == << <<row.mult * (1 - u - j), x>>, <<row.mult * u, y>>, <<row.mult * j, z>> >>
  <2>1. Receives(row) =
          FlattenSeq([k \in DOMAIN offers |-> IF offers[k][1] # 0 THEN <<offers[k][2]>> ELSE <<>>])
    BY <1>5, <1>6, <1>7 DEF Receives
  <2>2. [k \in DOMAIN offers |-> IF offers[k][1] # 0 THEN <<offers[k][2]>> ELSE <<>>] = ss
    BY <1>12
  <2> QED
    BY <2>1, <2>2
<1>9. FlattenSeq(ss) = (ox \o oy) \o oz
  <2>1. PICK S : S = {x, y, z}
    OBVIOUS
  <2>2. ox \in Seq(S) /\ oy \in Seq(S) /\ oz \in Seq(S)
    <3>1. <<>> \in Seq(S) /\ <<x>> \in Seq(S) /\ <<y>> \in Seq(S) /\ <<z>> \in Seq(S)
      BY <2>1
    <3> QED
      BY <1>12, <3>1
  <2> QED
    <3>1. PICK Q : Q = Seq(S)
      OBVIOUS
    <3>2. PICK tt : tt = <<ox, oy, oz>>
      OBVIOUS
    <3>3. tt \in Seq(Q) /\ Len(tt) = 3 /\ tt[1] = ox /\ tt[2] = oy /\ tt[3] = oz
      BY <2>2, <3>1, <3>2
    <3>4. FlattenSeq(tt) = (tt[1] \o tt[2]) \o tt[3]
      BY <3>1, <3>3, FlattenThree
    <3> QED
      BY <3>2, <3>3, <3>4
<1>13. \A e : /\ (<<>> \o <<>>) \o <<>> = <<>> /\ (<<e>> \o <<>>) \o <<>> = <<e>>
              /\ (<<>> \o <<e>>) \o <<>> = <<e>> /\ (<<>> \o <<>>) \o <<e>> = <<e>>
  OBVIOUS
<1>10. CASE row.mult = 0
  <2>1. row.mult * (1 - u - j) = 0 /\ row.mult * u = 0 /\ row.mult * j = 0
    BY <1>10
  <2> QED
    <3>1. ox = <<>> /\ oy = <<>> /\ oz = <<>>
      BY <1>12, <2>1
    <3> QED
      BY <1>8, <1>9, <1>10, <1>13, <3>1
<1>11. CASE row.mult = 1
  <2>1. row.mult * (1 - u - j) = 1 - u - j /\ row.mult * u = u /\ row.mult * j = j
    BY <1>11
  <2>2. CASE op \in UTypes
    <3>1. u = 1 /\ j = 0 /\ 1 - u - j = 0
      BY <1>2, <1>4, <1>5, <2>2
    <3>2. Receives(row) = <<y>>
      <4>1. ox = <<>> /\ oy = <<y>> /\ oz = <<>>
        BY <1>12, <2>1, <3>1
      <4> QED
        BY <1>8, <1>9, <1>13, <4>1
    <3> QED
      BY <1>1, <1>7, <1>11, <2>2, <3>2
  <2>3. CASE op = "Jal"
    <3>1. u = 0 /\ j = 1 /\ 1 - u - j = 0
      BY <1>2, <1>4, <1>5, <2>3
    <3>2. Receives(row) = <<z>>
      <4>1. ox = <<>> /\ oy = <<>> /\ oz = <<z>>
        BY <1>12, <2>1, <3>1
      <4> QED
        BY <1>8, <1>9, <1>13, <4>1
    <3> QED
      BY <1>1, <1>4, <1>7, <1>11, <2>3, <3>2
  <2>4. CASE op \notin UTypes /\ op # "Jal"
    <3>1. u = 0 /\ j = 0 /\ 1 - u - j = 1
      BY <1>2, <1>5, <2>4
    <3>2. Receives(row) = <<x>>
      <4>1. ox = <<x>> /\ oy = <<>> /\ oz = <<>>
        BY <1>12, <2>1, <3>1
      <4> QED
        BY <1>8, <1>9, <1>13, <4>1
    <3>3. field4 = IF op \in ITypes THEN row.imm ELSE row.rs2
      <4>1. CASE op \in ITypes
        <5>1. i = 1 /\ r = 0
          BY <1>2, <1>4, <1>5, <4>1
        <5> QED
          BY <1>3, <1>6, <3>1, <4>1, <5>1
      <4>2. CASE op \notin ITypes
        <5>1. i = 0 /\ r = 1
          BY <1>2, <1>4, <1>5, <2>4, <4>2
        <5> QED
          BY <1>3, <1>6, <3>1, <4>2, <5>1
      <4> QED
        BY <4>1, <4>2
    <3> QED
      BY <1>1, <1>7, <1>11, <2>4, <3>2, <3>3
  <2> QED
    BY <2>2, <2>3, <2>4
<1> QED
  BY <1>10, <1>11

\* One bit as a slice.
LEMMA OneBit ==
  ASSUME NEW w, NEW i \in Nat, w[i] \in Int
  PROVE  Bits(w, i, 1) = w[i]
<1>1. PICK a : a = [k \in 0 .. 0 |-> w[i + k]]
  OBVIOUS
<1>2. PICK n \in Nat : n = 1
  OBVIOUS
<1>3. a[0] = w[i]
  BY <1>1
<1>4. Digits(a, 2, n)[n] = 0 /\ \A j \in 0 .. n - 1 : Digits(a, 2, n)[j] = a[j] + 2 * Digits(a, 2, n)[j + 1]
  <2>1. \A j \in 0 .. n - 1 : a[j] \in Int
    BY <1>2, <1>3
  <2> QED
    BY <2>1, DigitsStep
<1>5. Digits(a, 2, n)[0] = a[0]
  <2>1. 0 \in 0 .. n - 1 /\ 0 + 1 = n
    BY <1>2
  <2>2. Digits(a, 2, n)[0] = a[0] + 2 * 0
    BY <1>4, <2>1
  <2> QED
    BY <1>3, <2>2
<1> QED
  BY <1>1, <1>2, <1>3, <1>5 DEF Bits

\* ps is two sequences put together.
Joined(S, ps, s, m, t, n) ==
  s \in Seq(S) /\ m = Len(s) /\ t \in Seq(S) /\ n = Len(t) /\ ps = s \o t

\* Its elements.
LEMMA JoinedAt ==
  ASSUME NEW S, NEW ps, NEW s, NEW m, NEW t, NEW n, Joined(S, ps, s, m, t, n)
  PROVE  /\ DOMAIN ps = 1 .. m + n /\ Len(ps) = m + n
         /\ \A k \in 1 .. m : ps[k] = s[k]
         /\ \A k \in 1 .. n : ps[m + k] = t[k]
<1>0. s \in Seq(S) /\ m = Len(s) /\ t \in Seq(S) /\ n = Len(t) /\ ps = s \o t /\ m \in Nat /\ n \in Nat
  BY DEF Joined
<1>1. /\ s \o t \in Seq(S) /\ Len(s \o t) = m + n
      /\ \A i \in 1 .. m + n : (s \o t)[i] = IF i <= m THEN s[i] ELSE t[i - m]
  BY <1>0, ConcatProperties
<1>2. PICK c : c = s \o t
  OBVIOUS
<1>3. DOMAIN c = 1 .. m + n
  BY <1>1, <1>2
<1>4. /\ \A k \in 1 .. m : k \in 1 .. m + n
      /\ \A k \in 1 .. n : m + k \in 1 .. m + n /\ ~(m + k <= m) /\ (m + k) - m = k
  BY <1>0
<1>5. \A i \in 1 .. m + n : c[i] = IF i <= m THEN s[i] ELSE t[i - m]
  BY <1>1, <1>2
<1>6. ps = c /\ Len(c) = m + n
  BY <1>0, <1>1, <1>2
<1> QED
  BY ONLY <1>3, <1>4, <1>5, <1>6

\* The immediate of Jal, as the constraints put it together.
LEMMA JumpForm ==
  ASSUME NEW row, NEW w, IsWord(w), HasBits(row, w)
  PROVE  ImmJalForm(row) = Bits(w, 21, 10) + 1024 * w[20] + 2048 * w[31]
<1>1. PICK ps : ps = Span(21, 10) \o <<20, 31>>
  OBVIOUS
<1>2. /\ DOMAIN ps = 1 .. 12 /\ Len(ps) = 12
      /\ \A k \in 1 .. 10 : ps[k] = 20 + k
      /\ ps[11] = 20 /\ ps[12] = 31
  <2>1. PICK sp : sp = Span(21, 10)
    OBVIOUS
  <2>2. sp \in Seq(Int) /\ Len(sp) = 10 /\ \A k \in 1 .. 10 : sp[k] = 20 + k
    BY <2>1 DEF Span
  <2>3. PICK tl : tl = <<20, 31>>
    OBVIOUS
  <2>4. tl \in Seq(Int) /\ Len(tl) = 2 /\ tl[1] = 20 /\ tl[2] = 31
    BY <2>3
  <2>5. PICK m, n \in Nat : m = 10 /\ n = 2
    OBVIOUS
  <2>6. /\ DOMAIN ps = 1 .. m + n /\ Len(ps) = m + n
        /\ \A k \in 1 .. m : ps[k] = sp[k]
        /\ \A k \in 1 .. n : ps[m + k] = tl[k]
    <3>1. PICK S : S = Int
      OBVIOUS
    <3>2. Joined(S, ps, sp, m, tl, n)
      BY <1>1, <2>1, <2>2, <2>3, <2>4, <2>5, <3>1 DEF Joined
    <3> QED
      BY ONLY <3>2, JoinedAt
  <2>7. DOMAIN ps = 1 .. 12 /\ Len(ps) = 12 /\ \A k \in 1 .. 10 : ps[k] = sp[k]
    BY <2>5, <2>6
  <2>8. ps[11] = tl[1] /\ ps[12] = tl[2]
    <3>1. 1 \in 1 .. n /\ 2 \in 1 .. n /\ m + 1 = 11 /\ m + 2 = 12
      BY <2>5
    <3> QED
      BY <2>6, <3>1
  <2> QED
    BY <2>2, <2>4, <2>7, <2>8
<1>3. PICK v : v = [k \in DOMAIN ps |-> row.decompositions[ps[k] \div 8][ps[k] % 8]]
  OBVIOUS
<1>4. ASSUME NEW k \in 1 .. 12
      PROVE  v[k] = w[ps[k]] /\ v[k] \in Int
  <2>1. PICK p \in 0 .. 31 : p = ps[k]
    BY <1>2
  <2>2. v[k] = row.decompositions[p \div 8][p % 8]
    BY <1>2, <1>3, <2>1
  <2>3. v[k] = w[p]
    BY <2>2, BitInRow
  <2> QED
    BY <2>1, <2>3 DEF IsWord
<1>5. ImmJalForm(row) = Bits(v, 1, 12)
  <2>1. ImmJalForm(row) = pack_bits(row, ps)
    BY <1>1 DEF ImmJalForm
  <2> QED
    BY <1>2, <1>3, <2>1 DEF pack_bits
<1>6. Bits(v, 1, 12) = Bits(v, 1, 10) + 1024 * Bits(v, 11, 2)
  <2>1. PICK lo, m, n, l, hi \in Nat : lo = 1 /\ m = 10 /\ n = 2 /\ l = 12 /\ hi = 11
    OBVIOUS
  <2>2. SplitAt(v, lo, l, m, n, hi)
    BY <1>4, <2>1 DEF SplitAt
  <2>3. Bits(v, lo, l) = Bits(v, lo, m) + 2 ^ m * Bits(v, hi, n)
    BY <2>2, SplitBits
  <2> QED
    BY <2>1, <2>3, Powers
<1>7. Bits(v, 11, 2) = Bits(v, 11, 1) + 2 * Bits(v, 12, 1)
  <2>1. PICK lo, m, n, l, hi \in Nat : lo = 11 /\ m = 1 /\ n = 1 /\ l = 2 /\ hi = 12
    OBVIOUS
  <2>2. SplitAt(v, lo, l, m, n, hi)
    BY <1>4, <2>1 DEF SplitAt
  <2>3. Bits(v, lo, l) = Bits(v, lo, m) + 2 ^ m * Bits(v, hi, n)
    BY <2>2, SplitBits
  <2> QED
    BY <2>1, <2>3, Powers
<1>8. Bits(v, 11, 1) = w[20] /\ Bits(v, 12, 1) = w[31]
  <2>1. v[11] = w[20] /\ v[11] \in Int /\ v[12] = w[31] /\ v[12] \in Int
    BY <1>2, <1>4
  <2> QED
    BY <2>1, OneBit
<1>9. Bits(v, 1, 10) = Bits(w, 21, 10)
  <2>1. \A k \in 0 .. 9 : v[1 + k] = w[21 + k]
    BY <1>2, <1>4
  <2>2. PICK n : n = 10
    OBVIOUS
  <2>3. \A k \in 0 .. n - 1 : v[1 + k] = w[21 + k]
    BY <2>1, <2>2
  <2>4. Bits(v, 1, n) = Bits(w, 21, n)
    BY <2>3, SameBits
  <2> QED
    BY <2>2, <2>4
<1>10. w[20] \in Int /\ w[31] \in Int
  BY DEF IsWord
<1>11. Bits(w, 21, 10) \in Int
  BY BitsRange
<1>12. Bits(v, 1, 12) = Bits(w, 21, 10) + 1024 * (w[20] + 2 * w[31])
  BY <1>6, <1>7, <1>8, <1>9
<1> QED
  BY <1>5, <1>10, <1>11, <1>12

\* The offset of Jal whose parts are a, b, c and its sign s.
JumpOffset(imm, a, b, c, s) ==
  /\ a \in 0 .. 1023 /\ b \in {0, 1} /\ c \in 0 .. 255 /\ s \in {0, 1}
  /\ imm = (a * 2 + b * 2048 + c * 4096 + s * 1048576) - s * 2097152

\* It is taken apart by the columns of its row.
LEMMA JumpParts ==
  ASSUME NEW imm, NEW a, NEW b, NEW c, NEW s, JumpOffset(imm, a, b, c, s)
  PROVE  /\ JalImmHigh12(imm) = a + 1024 * b + 2048 * s
         /\ JalImmLo8(imm) = c
<1>0. /\ a \in 0 .. 1023 /\ b \in {0, 1} /\ c \in 0 .. 255 /\ s \in {0, 1}
      /\ imm = (a * 2 + b * 2048 + c * 4096 + s * 1048576) - s * 2097152
  BY DEF JumpOffset
<1>1. PICK u \in Nat : u = a * 2 + b * 2048 + c * 4096 + s * 1048576 /\ u < 2097152
  BY <1>0
<1>2. imm \in Int /\ imm % 2097152 = u
  <2>1. imm = u - s * 2097152
    BY <1>0, <1>1
  <2> QED
    BY <1>0, <1>1, <2>1
<1>3. (u \div 2) % 1024 = a
  <2>1. u \div 2 = a + 1024 * (b + 2 * c + 512 * s)
    BY <1>0, <1>1
  <2> QED
    BY <1>0, <2>1
<1>4. (u \div 2048) % 2 = b
  <2>1. u \div 2048 = b + 2 * (c + 256 * s)
    BY <1>0, <1>1
  <2> QED
    BY <1>0, <2>1
<1>5. u \div 1048576 = s
  BY <1>0, <1>1
<1>6. (u \div 4096) % 256 = c
  <2>1. u \div 4096 = c + 256 * s
    BY <1>0, <1>1
  <2> QED
    BY <1>0, <2>1
<1>7. JalImmHigh12(imm) = ((u \div 2) % 1024) + ((u \div 2048) % 2) * 1024 + (u \div 1048576) * 2048
  <2>1. JalImmHigh12(imm) =
          ((u \div 2) % 2 ^ 10) + ((u \div 2 ^ 11) % 2) * 2 ^ 10 + (u \div 2 ^ 20) * 2 ^ 11
    <3>1. imm % 2 ^ 21 = u
      BY <1>2, Powers
    <3> QED
      BY <3>1, Zenon DEF JalImmHigh12
  <2> QED
    BY <2>1, Powers
<1>8. JalImmLo8(imm) = (u \div 4096) % 256
  BY <1>2, Powers DEF JalImmLo8
<1> QED
  BY <1>3, <1>4, <1>5, <1>6, <1>7, <1>8

\* The ranges of the slices of an immediate.
LEMMA SlicesAre ==
  ASSUME NEW w, IsWord(w)
  PROVE  /\ Bits(w, 20, 12) \in 0 .. 4095 /\ Bits(w, 20, 5) \in 0 .. 31 /\ Bits(w, 12, 8) \in 0 .. 255
         /\ Bits(w, 21, 10) \in 0 .. 1023
<1>1. ASSUME NEW lo \in Nat, NEW n \in Nat, NEW p \in Nat, lo + n <= 32, p = 2 ^ n
      PROVE  Bits(w, lo, n) \in 0 .. p - 1
  <2>1. Bits(w, lo, n) \in Nat /\ Bits(w, lo, n) < p
    <3>1. Bits(w, lo, n) \in Nat /\ Bits(w, lo, n) < 2 ^ n
      BY <1>1, BitsRange
    <3> QED
      BY <1>1, <3>1, Zenon
  <2> QED
    BY <2>1
<1>2. Bits(w, 20, 12) \in 0 .. 4095
  <2>1. PICK lo, n, p \in Nat : lo = 20 /\ n = 12 /\ p = 4096
    OBVIOUS
  <2>2. p = 2 ^ n
    BY <2>1, Powers
  <2>3. lo + n <= 32
    BY <2>1
  <2>4. Bits(w, lo, n) \in 0 .. p - 1
    BY <1>1, <2>2, <2>3
  <2> QED
    BY <2>1, <2>4
<1>3. Bits(w, 20, 5) \in 0 .. 31
  <2>1. PICK lo, n, p \in Nat : lo = 20 /\ n = 5 /\ p = 32
    OBVIOUS
  <2>2. p = 2 ^ n
    BY <2>1, Powers
  <2>3. lo + n <= 32
    BY <2>1
  <2>4. Bits(w, lo, n) \in 0 .. p - 1
    BY <1>1, <2>2, <2>3
  <2> QED
    BY <2>1, <2>4
<1>4. Bits(w, 12, 8) \in 0 .. 255
  <2>1. PICK lo, n, p \in Nat : lo = 12 /\ n = 8 /\ p = 256
    OBVIOUS
  <2>2. p = 2 ^ n
    BY <2>1, Powers
  <2>3. lo + n <= 32
    BY <2>1
  <2>4. Bits(w, lo, n) \in 0 .. p - 1
    BY <1>1, <2>2, <2>3
  <2> QED
    BY <2>1, <2>4
<1>5. Bits(w, 21, 10) \in 0 .. 1023
  <2>1. PICK lo, n, p \in Nat : lo = 21 /\ n = 10 /\ p = 1024
    OBVIOUS
  <2>2. p = 2 ^ n
    BY <2>1, Powers
  <2>3. lo + n <= 32
    BY <2>1
  <2>4. Bits(w, lo, n) \in 0 .. p - 1
    BY <1>1, <2>2, <2>3
  <2> QED
    BY <2>1, <2>4
<1> QED
  BY <1>2, <1>3, <1>4, <1>5

\* The step of a word.
StepOf(pc, w) == [pc |-> pc, instruction_word |-> w, instruction |-> decode_instruction(w)]

\* What the row of a word offers is what the instruction it decodes to asks for.
LEMMA OfferAsked ==
  ASSUME NEW pc, NEW w, IsWord(w), NEW op \in Ops, Meets(Tested(w), VmCodes[op])
  PROVE  Receives(fill_row(pc, w)) = <<InstructionSends(StepOf(pc, w))>>
<1>1. PICK row : row = fill_row(pc, w)
  OBVIOUS
<1>2. RowOf(row, w, op) /\ HasBits(row, w) /\ row.pc = pc /\ row.mult = 1
  BY <1>1, BuiltRow DEF RowOf, fill_row
<1>3. /\ row.rd = Bits(w, 7, 5) /\ row.rs1 = Bits(w, 15, 5)
      /\ row.imm = Bits(w, 20, 12) /\ row.rs2 = Bits(w, 20, 5)
      /\ op \in UTypes \cup {"Jal"} => row.imm_low8 = Bits(w, 12, 8)
  BY <1>2 DEF RowOf
<1>4. PICK i : i = decode_instruction(w)
  OBVIOUS
<1>5. (CHOOSE o \in Ops : Meets(Tested(w), VmCodes[o])) = op /\ i.op = op
  BY <1>4, DecodedOp
<1>6. /\ op \in UTypes => op # "Jal" /\ op \notin ITypes /\ op \notin RTypes /\ op \notin ShiftImms
      /\ op = "Jal" => op \notin ITypes /\ op \notin RTypes /\ op \notin ShiftImms
      /\ op \in ITypes => op \notin RTypes /\ op \notin ShiftImms
      /\ op \in RTypes => op \notin ShiftImms
      /\ op \notin UTypes /\ op # "Jal" /\ op \notin ITypes => op \in RTypes \/ op \in ShiftImms
  BY IdsAre DEF UTypes, ITypes, RTypes, ShiftImms
<1>7. /\ Bits(w, 20, 12) \in 0 .. 4095 /\ Bits(w, 20, 5) \in 0 .. 31 /\ Bits(w, 12, 8) \in 0 .. 255
      /\ Bits(w, 21, 10) \in 0 .. 1023
  BY ONLY IsWord(w), SlicesAre
<1>8. w[20] \in {0, 1} /\ w[31] \in {0, 1}
  BY DEF IsWord
<1>9. PICK s : s = StepOf(pc, w)
  OBVIOUS
<1>10. s.pc = pc /\ s.instruction = i
  BY <1>4, <1>9 DEF StepOf
<1>11. PICK id : id = InstructionId(op)
  OBVIOUS
<1>12. CASE op \in RTypes
  <2>1. i = [op |-> op, rd |-> row.rd, rs1 |-> row.rs1, rs2 |-> row.rs2]
    BY <1>3, <1>4, <1>5, <1>6, <1>12 DEF decode_instruction
  <2>2. InstructionSends(s) = <<"decode", pc, id, row.rd, row.rs1, row.rs2>>
    BY <1>10, <1>11, <1>12, <1>6, <2>1 DEF InstructionSends
  <2>3. Receives(row) = << <<"decode", pc, id, row.rd, row.rs1, row.rs2>> >>
    BY <1>2, <1>6, <1>11, <1>12, Offered
  <2> QED
    BY <1>1, <1>9, <2>2, <2>3
<1>13. CASE op \in ITypes
  <2>1. i = [op |-> op, rd |-> row.rd, rs1 |-> row.rs1, imm |-> SignedBits(w, 20, 12)]
    BY <1>3, <1>4, <1>5, <1>6, <1>13 DEF decode_instruction
  <2>2. InstructionSends(s) = <<"decode", pc, id, row.rd, row.rs1, SignedBits(w, 20, 12) % 2 ^ 12>>
    BY <1>10, <1>11, <1>13, <1>6, <2>1 DEF InstructionSends
  <2>3. SignedBits(w, 20, 12) % 2 ^ 12 = row.imm
    <3>1. SignedBits(w, 20, 12) = row.imm - w[31] * 4096
      <4>1. 20 + 12 - 1 = 31
        OBVIOUS
      <4> QED
        BY <1>3, <4>1, Powers DEF SignedBits
    <3>2. \A x \in 0 .. 4095 : \A b \in {0, 1} : (x - b * 4096) % 4096 = x
      OBVIOUS
    <3>3. (row.imm - w[31] * 4096) % 4096 = row.imm
      BY <1>3, <1>7, <1>8, <3>2
    <3> QED
      BY <3>1, <3>3, Powers
  <2>4. Receives(row) = << <<"decode", pc, id, row.rd, row.rs1, row.imm>> >>
    BY <1>2, <1>6, <1>11, <1>13, Offered
  <2> QED
    BY <1>1, <1>9, <2>2, <2>3, <2>4
<1>14. CASE op \in ShiftImms
  <2>1. i = [op |-> op, rd |-> row.rd, rs1 |-> row.rs1, imm |-> row.rs2]
    BY <1>3, <1>4, <1>5, <1>6, <1>14 DEF decode_instruction
  <2>2. InstructionSends(s) = <<"decode", pc, id, row.rd, row.rs1, row.rs2 % 2 ^ 5>>
    BY <1>10, <1>11, <1>14, <1>6, <2>1 DEF InstructionSends
  <2>3. row.rs2 % 2 ^ 5 = row.rs2
    <3>1. \A x \in 0 .. 31 : x % 32 = x
      OBVIOUS
    <3>2. row.rs2 % 32 = row.rs2
      BY <1>3, <1>7, <3>1
    <3> QED
      BY <3>2, Powers
  <2>4. Receives(row) = << <<"decode", pc, id, row.rd, row.rs1, row.rs2>> >>
    BY <1>2, <1>6, <1>11, <1>14, Offered
  <2> QED
    BY <1>1, <1>9, <2>2, <2>3, <2>4
<1>15. CASE op \in UTypes
  <2>1. i = [op |-> op, rd |-> row.rd, imm |-> Bits(w, 12, 20)]
    BY <1>3, <1>4, <1>5, <1>6, <1>15 DEF decode_instruction
  <2>2. InstructionSends(s) =
          <<"decode_u", id, row.rd, (Bits(w, 12, 20) \div 2 ^ 8) % 2 ^ 12, Bits(w, 12, 20) % 2 ^ 8>>
    BY <1>10, <1>11, <1>15, <1>6, <2>1 DEF InstructionSends
  <2>3. Bits(w, 12, 20) = Bits(w, 12, 8) + 256 * Bits(w, 20, 12)
    <3>1. PICK lo, l, m, n, hi \in Nat : lo = 12 /\ l = 20 /\ m = 8 /\ n = 12 /\ hi = 20
      OBVIOUS
    <3>2. SplitAt(w, lo, l, m, n, hi)
      BY <3>1 DEF SplitAt, IsWord
    <3>3. Bits(w, lo, l) = Bits(w, lo, m) + 2 ^ m * Bits(w, hi, n)
      BY <3>2, SplitBits
    <3> QED
      BY <3>1, <3>3, Powers
  <2>4. (Bits(w, 12, 20) \div 2 ^ 8) % 2 ^ 12 = row.imm /\ Bits(w, 12, 20) % 2 ^ 8 = row.imm_low8
    <3>1. PICK x \in 0 .. 255 : x = Bits(w, 12, 8)
      BY <1>7
    <3>2. PICK y \in 0 .. 4095 : y = Bits(w, 20, 12)
      BY <1>7
    <3>3. ((x + 256 * y) \div 256) % 4096 = y /\ (x + 256 * y) % 256 = x
      OBVIOUS
    <3> QED
      BY <1>3, <1>15, <2>3, <3>1, <3>2, <3>3, Powers
  <2>5. Receives(row) = << <<"decode_u", id, row.rd, row.imm, row.imm_low8>> >>
    BY <1>2, <1>11, <1>15, Offered
  <2> QED
    BY <1>1, <1>9, <2>2, <2>4, <2>5
<1>16. CASE op = "Jal"
  <2>1. i = [op |-> op, rd |-> row.rd, imm |-> JumpImm(w)]
    BY <1>3, <1>4, <1>5, <1>6, <1>16 DEF decode_instruction
  <2>2. InstructionSends(s) = <<"decode_j", id, row.rd, JalImmHigh12(JumpImm(w)), JalImmLo8(JumpImm(w))>>
    BY <1>10, <1>11, <1>16, <1>6, <2>1 DEF InstructionSends
  <2>3. JumpImm(w) = (Bits(w, 21, 10) * 2 + w[20] * 2048 + Bits(w, 12, 8) * 4096 + w[31] * 1048576)
                     - w[31] * 2097152
    BY Powers DEF JumpImm
  <2>4. /\ JalImmHigh12(JumpImm(w)) = Bits(w, 21, 10) + 1024 * w[20] + 2048 * w[31]
        /\ JalImmLo8(JumpImm(w)) = Bits(w, 12, 8)
    <3>1. PICK a, b, c, t : a = Bits(w, 21, 10) /\ b = w[20] /\ c = Bits(w, 12, 8) /\ t = w[31]
      OBVIOUS
    <3>2. a \in 0 .. 1023 /\ b \in {0, 1} /\ c \in 0 .. 255 /\ t \in {0, 1}
      BY <1>7, <1>8, <3>1
    <3>3. JumpOffset(JumpImm(w), a, b, c, t)
      BY <2>3, <3>1, <3>2 DEF JumpOffset
    <3>4. /\ JalImmHigh12(JumpImm(w)) = a + 1024 * b + 2048 * t
          /\ JalImmLo8(JumpImm(w)) = c
      BY <3>3, JumpParts
    <3> QED
      BY <3>1, <3>4
  <2>5. Receives(row) = << <<"decode_j", id, row.rd, ImmJalForm(row), row.imm_low8>> >>
    BY <1>2, <1>6, <1>11, <1>16, Offered
  <2>6. ImmJalForm(row) = Bits(w, 21, 10) + 1024 * w[20] + 2048 * w[31]
    BY <1>2, JumpForm
  <2> QED
    BY <1>1, <1>3, <1>9, <1>16, <2>2, <2>4, <2>5, <2>6
<1> QED
  BY <1>6, <1>12, <1>13, <1>14, <1>15, <1>16

\* Padding offers nothing.
LEMMA PaddingOffer ==
  ASSUME NEW pc, NEW w, IsWord(w), NEW op \in Ops, Meets(Tested(w), VmCodes[op])
  PROVE  Receives([fill_row(pc, w) EXCEPT !.mult = 0]) = <<>>
<1>1. PICK row : row = [fill_row(pc, w) EXCEPT !.mult = 0]
  OBVIOUS
<1>2. RowOf(row, w, op) /\ row.mult = 0
  BY <1>1, BuiltRow DEF fill_row
<1> QED
  BY <1>1, <1>2, Offered

\* For every mix of instructions, each tuple the rows of the instruction AIRs
\* ask for on the decode buses is offered by the decode table as often.
THEOREM DecodeBuses == DecodeSpec => []DecodeBusesBalanced
<1>1. DecodeInv => DecodeBusesBalanced
  <2> SUFFICES ASSUME DecodeInv, decode # <<>>
               PROVE  ToBag([i \in DOMAIN trace |-> InstructionSends(trace[i])])
                        = ToBag(FlattenSeq([i \in DOMAIN decode |-> Receives(decode[i])]))
    BY DEF DecodeBusesBalanced
  <2>1. PICK n \in Nat, m \in Nat : n = Len(trace) /\ m = NumRows(Len(trace))
    BY NumRowsFit DEF DecodeInv
  <2>2. /\ n >= 1 /\ m >= n /\ DOMAIN decode = 1 .. m /\ DOMAIN trace = 1 .. n
        /\ \A i \in 1 .. n : decode[i] = fill_row(trace[i].pc, trace[i].instruction_word)
        /\ \A i \in n + 1 .. m : decode[i] = [fill_row(0, trace[1].instruction_word) EXCEPT !.mult = 0]
    <3>1. DOMAIN trace = 1 .. n
      BY <2>1 DEF DecodeInv
    <3> QED
      BY <2>1, <3>1, TableRows
  <2>3. ASSUME NEW i \in 1 .. n
        PROVE  /\ IsWord(trace[i].instruction_word)
               /\ \E op \in Ops : Meets(Tested(trace[i].instruction_word), VmCodes[op])
               /\ Receives(decode[i]) = <<InstructionSends(trace[i])>>
    <3>1. i \in 1 .. Len(trace)
      BY <2>1
    <3>2. /\ IsWord(trace[i].instruction_word)
          /\ trace[i].instruction = decode_instruction(trace[i].instruction_word)
      BY <3>1, StepsDecode
    <3>3. PICK op \in Ops : Meets(Tested(trace[i].instruction_word), VmCodes[op])
      BY <3>1, StepsDecode
    <3>4. PICK pc, w : pc = trace[i].pc /\ w = trace[i].instruction_word
      OBVIOUS
    <3>5. Receives(decode[i]) = <<InstructionSends(StepOf(pc, w))>>
      BY <2>2, <3>2, <3>3, <3>4, OfferAsked
    <3>6. InstructionSends(StepOf(pc, w)) = InstructionSends(trace[i])
      BY <3>2, <3>4 DEF InstructionSends, StepOf
    <3> QED
      BY <3>2, <3>3, <3>5, <3>6
  <2>4. ASSUME NEW i \in n + 1 .. m
        PROVE  Receives(decode[i]) = <<>>
    <3>1. 1 \in 1 .. n
      BY <2>2
    <3>2. PICK op \in Ops : Meets(Tested(trace[1].instruction_word), VmCodes[op])
      BY <2>3, <3>1
    <3>3. IsWord(trace[1].instruction_word)
      BY <2>3, <3>1
    <3> QED
      BY <2>2, <3>2, <3>3, PaddingOffer
  <2>5. PICK u : u = [i \in 1 .. m |-> InstructionSends(trace[i])]
    OBVIOUS
  <2>6. PICK G : G = 1 .. n
    OBVIOUS
  <2>7. PICK ss : ss = [i \in DOMAIN decode |-> Receives(decode[i])]
    OBVIOUS
  <2>8. PICK S : u \in [1 .. m -> S]
    <3>1. u \in [1 .. m -> {u[i] : i \in 1 .. m}]
      BY <2>5
    <3> QED
      BY <3>1
  <2>9. Selects(ss, m, u, G)
    <3>1. \A i \in 1 .. m : Receives(decode[i]) = IF i \in G THEN <<u[i]>> ELSE <<>>
      <4>1. SUFFICES ASSUME NEW i \in 1 .. m
                     PROVE  Receives(decode[i]) = IF i \in G THEN <<u[i]>> ELSE <<>>
        OBVIOUS
      <4>2. CASE i \in 1 .. n
        BY <2>3, <2>5, <2>6, <4>2
      <4>3. CASE i \in n + 1 .. m
        <5>1. i \notin G
          BY <2>6, <4>3
        <5> QED
          BY <2>4, <4>3, <5>1
      <4> QED
        BY <4>2, <4>3
    <3> QED
      BY <2>2, <2>7, <3>1 DEF Selects
  <2>10. PICK es : es = FlattenSeq(ss)
    OBVIOUS
  <2>11. G \in SUBSET (1 .. m)
    BY <2>2, <2>6
  <2>12. es \in Seq(S) /\ \E p \in Bijection(G, 1 .. Len(es)) : \A i \in G : es[p[i]] = u[i]
    <3>1. /\ FlattenSeq(ss) \in Seq(S)
          /\ \E p \in Bijection(G, 1 .. Len(FlattenSeq(ss))) : \A i \in G : FlattenSeq(ss)[p[i]] = u[i]
      BY ONLY <2>8, <2>9, <2>11, m \in Nat, FlattenSelected
    <3> QED
      BY <2>10, <3>1, Zenon
  <2>13. PICK asked : asked = [i \in DOMAIN trace |-> InstructionSends(trace[i])]
    OBVIOUS
  <2>14. DOMAIN asked = G /\ \A i \in G : asked[i] = u[i]
    <3>1. G \subseteq 1 .. m
      BY <2>11
    <3> QED
      BY <2>2, <2>5, <2>6, <2>13, <3>1
  <2>15. DOMAIN es = 1 .. Len(es)
    BY <2>12
  <2>16. IsFiniteSet(G)
    <3>1. 1 \in Int /\ n \in Int
      OBVIOUS
    <3> QED
      BY <2>6, <3>1, FS_Interval
  <2>17. PICK p \in Bijection(DOMAIN asked, DOMAIN es) : \A i \in DOMAIN asked : es[p[i]] = asked[i]
    BY <2>12, <2>14, <2>15
  <2>18. ToBag(asked) = ToBag(es)
    BY <2>14, <2>16, <2>17, SameBag
  <2> QED
    BY <2>7, <2>10, <2>13, <2>18
<1> QED
  BY <1>1, DecodeSound, PTL

=============================================================================
