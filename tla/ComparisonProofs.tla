-------------------------- MODULE ComparisonProofs --------------------------
(***************************************************************************)
(* Proofs about the comparison tables, for every prime field, every width  *)
(* of limbs and timestamps that fits it, and every log:                    *)
(*   - the rows of the address table satisfy their AIR, and those of the   *)
(*     timestamp table exactly when the timestamps have TsBits bits;       *)
(*   - whoever fills in a row, an accepted one tells the truth about its   *)
(*     operands;                                                           *)
(*   - which memory tables the AIR of the memory accepts, and when it      *)
(*     finds in the comparison tables what it asks of them;                *)
(*   - what the address table asks of the pairs of bytes is what the       *)
(*     prover counted.                                                     *)
(* They rest on the value of the digits of a number (Digits, by induction  *)
(* downwards), on inverses in a prime field, on the sorted log and on      *)
(* bijections between the rows of one table and those of the next.         *)
(***************************************************************************)
EXTENDS ComparisonTables, MemoryProofs

(***************************************************************************)
(* The bits of a number.                                                   *)
(***************************************************************************)
\* The bits of x are those of its remainder.
LEMMA BitsOfValue ==
  ASSUME NEW n \in Nat, NEW x \in Nat
  PROVE  /\ BitsBelow(BitsOf(x, n), n) /\ DOMAIN BitsOf(x, n) = 0 .. n - 1
         /\ x = ValueOf(BitsOf(x, n), n) + 2 ^ n * (x \div 2 ^ n)
<1>1. PICK a : a = BitsOf(x, n)
  OBVIOUS
<1>2. \A i \in Nat : 2 ^ i \in Nat \ {0} /\ 2 ^ (i + 1) = 2 * 2 ^ i
  <2>1. \A i \in Nat : i < 2 ^ i
    BY TwoPowerExceeds
  <2> QED
    BY <2>1, TwoPowers
<1>3. \A i \in Nat : x \div 2 ^ i \in Nat
  BY <1>2
<1>4. \A i \in 0 .. n - 1 : a[i] = (x \div 2 ^ i) % 2
  BY <1>1 DEF BitsOf, Bit
<1>5. BitsBelow(a, n) /\ DOMAIN a = 0 .. n - 1
  <2>1. ASSUME NEW i \in 0 .. n - 1
        PROVE  a[i] \in {0, 1}
    <3>1. PICK y \in Nat : y = x \div 2 ^ i
      BY <1>3
    <3>2. y % 2 \in {0, 1}
      OBVIOUS
    <3> QED
      BY <1>4, <3>1, <3>2
  <2> QED
    BY <1>1, <2>1 DEF BitsBelow, BitsOf
<1>6. PICK d : d = Digits(a, 2, n)
  OBVIOUS
<1>7. /\ d \in [0 .. n -> Int] /\ d[n] = 0
      /\ \A i \in 0 .. n - 1 : d[i] = a[i] + 2 * d[i + 1]
  <2>1. \A i \in 0 .. n - 1 : a[i] \in Int
    BY <1>5 DEF BitsBelow
  <2> QED
    BY <1>6, <2>1, DigitsStep
<1>8. PICK q \in Nat : q = x \div 2 ^ n
  BY <1>3
<1> DEFINE S == {i \in 0 .. n : x \div 2 ^ i = d[i] + 2 ^ (n - i) * q}
<1>9. n \in S
  BY <1>7, <1>8, PowerZero
<1>10. ASSUME NEW i \in 0 .. n - 1, i + 1 \in S
       PROVE  i \in S
  <2>1. PICK p \in Nat : p = 2 ^ (n - (i + 1)) /\ 2 ^ (n - i) = 2 * p
    <3>1. n - (i + 1) \in Nat /\ n - i = (n - (i + 1)) + 1
      OBVIOUS
    <3> QED
      BY <1>2, <3>1
  <2>2. PICK y \in Nat : y = x \div 2 ^ i
    BY <1>3
  <2>3. x \div 2 ^ (i + 1) = y \div 2
    <3>1. PICK w \in Nat \ {0} : w = 2 ^ i /\ 2 ^ (i + 1) = 2 * w
      BY <1>2
    <3> QED
      BY <2>2, <3>1, HalfQuotient
  <2>4. PICK h \in Nat : h = y \div 2
    OBVIOUS
  <2>5. PICK e \in {0, 1} : e = y % 2
    OBVIOUS
  <2>6. y = 2 * h + e
    BY <2>4, <2>5
  <2>7. PICK c \in Int : c = d[i + 1]
    BY <1>7
  <2>8. d[i] = e + 2 * c
    <3>1. a[i] = e
      BY <1>4, <2>2, <2>5
    <3> QED
      BY <1>7, <2>7, <3>1
  <2>9. h = c + p * q
    BY <1>10, <2>1, <2>3, <2>4, <2>7
  <2>10. y = d[i] + (2 * p) * q
    <3>1. PICK z \in Nat : z = p * q
      OBVIOUS
    <3>2. (2 * p) * q = 2 * z
      BY <3>1
    <3> QED
      BY <2>6, <2>8, <2>9, <3>1, <3>2
  <2> QED
    BY <2>1, <2>2, <2>10
<1>11. 0 \in S
  <2>1. \A i \in 0 .. n : i \in S
    <3> HIDE DEF S
    <3> QED
      BY <1>9, <1>10, InductionDown
  <2>2. 0 \in 0 .. n
    OBVIOUS
  <2> HIDE DEF S
  <2> QED
    BY <2>1, <2>2
<1>12. x = d[0] + 2 ^ n * q
  <2>1. x \div 2 ^ 0 = x
    BY PowerZero
  <2>2. n - 0 = n /\ x \div 2 ^ 0 = d[0] + 2 ^ (n - 0) * q
    BY <1>11
  <2> QED
    BY <2>1, <2>2
<1> QED
  BY <1>1, <1>5, <1>6, <1>8, <1>12 DEF ValueOf

(***************************************************************************)
(* The field, and the gadget that tells whether a number is 0 in it.       *)
(***************************************************************************)
\* The constants, one fact at a time.
LEMMA Constants ==
  /\ P \in Nat \ {0, 1} /\ IsPrime(P)
  /\ TsBits \in Nat /\ NumLimbs \in Nat \ {0} /\ LimbBits \in Nat \ {0}
  /\ Base \in Nat \ {0, 1} /\ Base < P
  /\ 2 ^ TsBits \in Nat \ {0} /\ 2 ^ (TsBits + 1) = 2 * 2 ^ TsBits /\ 2 ^ (TsBits + 1) < P
  /\ 2 ^ (LimbBits * NumLimbs) \in Nat /\ 2 ^ (TsBits + 1) <= 2 ^ (LimbBits * NumLimbs)
  /\ MaxTime \in Nat /\ MaxTime <= P * 2 ^ TsBits
<1>1. P \in Nat \ {0, 1} /\ IsPrime(P)
  BY FieldAssumption DEF IsPrime
<1>2. /\ TsBits \in Nat /\ 2 ^ (TsBits + 1) < P /\ Base < P /\ TsBits < LimbBits * NumLimbs
      /\ MaxTime \in Nat /\ MaxTime <= P * 2 ^ TsBits
      /\ NumLimbs \in Nat \ {0} /\ LimbBits \in Nat \ {0}
  BY FieldAssumption, LimbsAssumption
<1>3. Base \in Nat \ {0, 1}
  <2>1. LimbBits < 2 ^ LimbBits /\ 2 ^ LimbBits \in Nat
    BY <1>2, TwoPowers, TwoPowerExceeds
  <2> QED
    BY <1>2, <2>1 DEF Base
<1>4. 2 ^ TsBits \in Nat \ {0} /\ 2 ^ (TsBits + 1) = 2 * 2 ^ TsBits
  BY <1>2, TwoPowers, TwoPowerExceeds
<1>5. PICK w \in Nat : w = LimbBits * NumLimbs
  BY <1>2
<1>6. PICK c \in Nat : w = (TsBits + 1) + c
  <2>1. w - (TsBits + 1) \in Nat /\ w = (TsBits + 1) + (w - (TsBits + 1))
    BY <1>2, <1>5
  <2> QED
    BY <2>1
<1>7. PICK t \in Nat : t = TsBits + 1
  BY <1>2
<1>8. 2 ^ (t + c) = 2 ^ t * 2 ^ c /\ 2 ^ t \in Nat /\ 2 ^ c \in Nat \ {0} /\ 2 ^ w \in Nat
  BY PowersMultiply, TwoPowers, TwoPowerExceeds
<1>9. 2 ^ (TsBits + 1) <= 2 ^ w
  <2>1. PICK u \in Nat : u = 2 ^ t
    BY <1>8
  <2>2. PICK v \in Nat \ {0} : v = 2 ^ c
    BY <1>8
  <2>3. u <= u * v
    OBVIOUS
  <2>4. 2 ^ w = u * v
    BY <1>6, <1>7, <1>8, <2>1, <2>2
  <2> QED
    BY <1>7, <2>1, <2>3, <2>4
<1> QED
  BY <1>1, <1>2, <1>3, <1>4, <1>5, <1>8, <1>9

\* The inverse the builder takes satisfies the gadget, also for a difference
\* it has reduced.
LEMMA InverseAccepted ==
  ASSUME NEW d \in Int, NEW r \in Int, r = 0 <=> d = 0, -P < d, d < P, r % P = d % P
  PROVE  /\ NegInverse(r) \in Field
         /\ IsZero(d, NegInverse(r), IF d = 0 THEN 1 ELSE 0)
<1>p. P \in Nat \ {0, 1} /\ IsPrime(P)
  BY Constants
<1>1. CASE d = 0
  <2>1. NegInverse(r) = 0
    BY <1>1 DEF NegInverse
  <2>2. 0 % P = 0
    BY <1>p
  <2> QED
    BY <1>1, <1>p, <2>1, <2>2 DEF IsZero, Field
<1>2. CASE d # 0
  <2>1. PICK c \in Int, m \in 0 .. P - 1 : d = P * c + m /\ m = d % P
    BY <1>p, Remainder
  <2>2. PICK b \in Int : r = P * b + m
    <3>1. PICK b \in Int, k \in 0 .. P - 1 : r = P * b + k /\ k = r % P
      BY <1>p, Remainder
    <3> QED
      BY <2>1, <3>1
  <2>3. m # 0
    <3>1. ASSUME m = 0 PROVE FALSE
      <4>1. d = P * c /\ c # 0
        <5>1. P * c \in Int /\ P * 0 = 0
          BY <1>p
        <5>2. d = P * c
          <6>1. d = P * c + m
            BY <2>1, Zenon
          <6>2. PICK e \in Int : e = P * c
            BY <5>1
          <6> QED
            BY <3>1, <6>1, <6>2
        <5> QED
          BY <1>2, <5>1, <5>2
      <4>2. CASE c >= 1
        <5>1. P * c >= P
          BY <1>p, <4>2
        <5> QED
          BY <1>p, <4>1, <5>1
      <4>3. CASE c <= -1
        <5>1. PICK e \in Nat \ {0} : e = -c
          BY <4>3
        <5>2. P * e >= P /\ P * c = -(P * e)
          BY <1>p, <5>1
        <5> QED
          BY <4>1, <5>2, <1>p
      <4> QED
        BY <4>1, <4>2, <4>3
    <3> QED
      BY <3>1
  <2>4. PICK z0 \in Field : (z0 * m + 1) % P = 0
    <3>1. m \in 1 .. P - 1
      BY <2>3, <1>p
    <3> QED
      BY <1>p, <3>1, InverseExists DEF Field
  <2>5. (z0 * r + 1) % P = 0
    <3>1. PICK k \in Int : z0 * m + 1 = P * k
      BY <1>p, <2>4, Multiple DEF Field
    <3>2. z0 * r + 1 = P * (k + z0 * b)
      <4>1. z0 * (P * b + m) = P * (z0 * b) + z0 * m
        BY <1>p DEF Field
      <4>2. P * (k + z0 * b) = P * k + P * (z0 * b)
        BY <1>p DEF Field
      <4> QED
        BY <2>2, <3>1, <4>1, <4>2, <1>p DEF Field
    <3>3. z0 * r + 1 \in Int /\ k + z0 * b \in Int
      BY DEF Field
    <3> QED
      BY <1>p, <3>2, <3>3, Multiple
  <2>6. PICK z \in Field : z = NegInverse(r) /\ (z * r + 1) % P = 0
    <3>1. r # 0
      BY <1>2
    <3>2. \E y \in Field : (y * r + 1) % P = 0
      BY <2>5
    <3>3. NegInverse(r) = CHOOSE y \in Field : (y * r + 1) % P = 0
      BY <3>1 DEF NegInverse
    <3> QED
      BY <3>2, <3>3
  <2>7. (z * d + 1) % P = 0
    <3>0. z * r + 1 \in Int
      BY DEF Field
    <3>1. PICK k \in Int : z * r + 1 = P * k
      BY <1>p, <2>6, <3>0, Multiple
    <3>2. z * d + 1 = P * (k + z * (c - b))
      <4>1. z * d = z * r + P * (z * (c - b))
        <5>1. d = r + P * (c - b)
          BY <2>1, <2>2, <1>p
        <5>2. z * (r + P * (c - b)) = z * r + P * (z * (c - b))
          BY <1>p DEF Field
        <5> QED
          BY <5>1, <5>2
      <4>2. P * (k + z * (c - b)) = P * k + P * (z * (c - b))
        BY <1>p DEF Field
      <4>3. z * r \in Int /\ P * (z * (c - b)) \in Int
        BY <1>p DEF Field
      <4> QED
        BY <3>1, <4>1, <4>2, <4>3, <1>p
    <3>3. z * d + 1 \in Int /\ k + z * (c - b) \in Int
      BY DEF Field
    <3> QED
      BY <1>p, <3>2, <3>3, Multiple
  <2>8. z * d + 1 - 0 = z * d + 1 /\ d * 0 = 0 /\ 0 % P = 0
    BY <1>p DEF Field
  <2> QED
    BY <1>2, <2>6, <2>7, <2>8 DEF IsZero
<1> QED
  BY <1>1, <1>2

\* The flag of an accepted gadget says whether the difference is 0.
LEMMA IsZeroForced ==
  ASSUME NEW d \in Int, -P < d, d < P, NEW z \in Int, NEW e \in Field, IsZero(d, z, e)
  PROVE  e = 1 <=> d = 0
<1>p. P \in Nat \ {0, 1}
  BY Constants
<1>1. ASSUME d = 0 PROVE e = 1
  <2>1. z * d + 1 - e = 1 - e
    BY <1>1 DEF Field
  <2>2. (1 - e) % P = 0
    BY <2>1 DEF IsZero
  <2> QED
    BY <1>p, <2>2 DEF Field
<1>2. ASSUME e = 1 PROVE d = 0
  <2>1. d * e = d
    BY <1>2
  <2>2. d % P = 0
    BY <2>1 DEF IsZero
  <2> QED
    BY <1>p, <2>2
<1> QED
  BY <1>1, <1>2

(***************************************************************************)
(* The rows of timestamp_less_than.rs.                                     *)
(***************************************************************************)
\* row compares x and y, as TimestampRow fills it in; nothing of its mult.
Compares(row, x, y) ==
  /\ row.x = x % P /\ row.y = y % P
  /\ row.x_bits = BitsOf(x, TsBits) /\ row.y_bits = BitsOf(y, TsBits)
  /\ row.v_bits = BitsOf(U32(x + 2 ^ TsBits - y), TsBits + 1)
  /\ row.diff_inv = NegInverse((x - y) % P)
  /\ row.is_equal = IF x = y THEN 1 ELSE 0

\* The builder's rows, of entries and of padding, are such rows.
LEMMA TimestampRowCompares ==
  ASSUME NEW x, NEW y
  PROVE  /\ Compares(TimestampRow(<<x, y>>), x, y)
         /\ Compares([TimestampRow(<<x, y>>) EXCEPT !.mult = 0], x, y)
<1>1. PICK row : row = TimestampRow(<<x, y>>)
  OBVIOUS
<1>2. row = [x |-> x % P, y |-> y % P, x_bits |-> BitsOf(x, TsBits), y_bits |-> BitsOf(y, TsBits),
             v_bits   |-> BitsOf(U32(x + 2 ^ TsBits - y), TsBits + 1),
             diff_inv |-> NegInverse((x - y) % P), is_equal |-> IF x = y THEN 1 ELSE 0, mult |-> 1]
  BY <1>1 DEF TimestampRow
<1>3. Compares(row, x, y) /\ Compares([row EXCEPT !.mult = 0], x, y)
  BY <1>2 DEF Compares
<1> QED
  BY <1>1, <1>3

\* The bits of x sum up to x in the field exactly when x has TsBits bits.
LEMMA BitsFit ==
  ASSUME NEW x \in Nat, x < P * 2 ^ TsBits
  PROVE  /\ (((x % P) - ValueOf(BitsOf(x, TsBits), TsBits)) % P = 0) <=> x < 2 ^ TsBits
         /\ x < 2 ^ TsBits => x % P = x
<1>1. PICK t \in Nat \ {0} : t = 2 ^ TsBits
  BY Constants
<1>2. P \in Nat \ {0, 1} /\ IsPrime(P) /\ 2 * t < P /\ TsBits \in Nat
  BY <1>1, Constants
<1>3. PICK v \in Nat : v = ValueOf(BitsOf(x, TsBits), TsBits) /\ v < t /\ x = v + t * (x \div t)
  <2>1. BitsBelow(BitsOf(x, TsBits), TsBits)
        /\ x = ValueOf(BitsOf(x, TsBits), TsBits) + 2 ^ TsBits * (x \div 2 ^ TsBits)
    BY <1>2, BitsOfValue
  <2>2. ValueOf(BitsOf(x, TsBits), TsBits) \in Nat /\ ValueOf(BitsOf(x, TsBits), TsBits) < 2 ^ TsBits
    BY <1>2, <2>1, BitsBound DEF ValueOf
  <2> QED
    BY <1>1, <2>1, <2>2
<1>4. PICK q \in Nat : q = x \div t /\ x = v + t * q
  BY <1>3
<1>5. q < P
  <2>1. x < P * t
    BY <1>1
  <2>2. ASSUME q >= P PROVE FALSE
    <3>1. t * q >= t * P
      BY <1>2, <2>2
    <3> QED
      BY <1>2, <1>4, <2>1, <3>1
  <2> QED
    BY <1>2, <2>2
<1>6. PICK c \in Int, m \in 0 .. P - 1 : x = P * c + m /\ m = x % P
  <2>1. P \in Nat \ {0} /\ x \in Int
    BY <1>2
  <2> QED
    BY <2>1, Remainder
<1>7. CASE q = 0
  <2>1. x = v
    BY <1>4, <1>7
  <2>2. x < t /\ x % P = x
    <3>1. v < t
      BY <1>3
    <3>2. v \in 0 .. P - 1 /\ P \in Nat \ {0, 1}
      BY <1>2, <3>1
    <3>3. v % P = v
      BY <3>2
    <3> QED
      BY <2>1, <3>1, <3>3
  <2>3. (x - x) % P = 0
    BY <1>2
  <2> QED
    BY <1>1, <1>3, <2>1, <2>2, <2>3
<1>8. CASE q # 0
  <2>1. x >= t
    <3>1. t * q >= t
      BY <1>8
    <3> QED
      BY <1>4, <3>1
  <2>2. ASSUME (m - v) % P = 0 PROVE FALSE
    <3>1. PICK k \in Int : m - v = P * k
      BY <1>2, <2>2, Multiple
    <3>2. t * q = P * (c + k)
      <4>1. P * (c + k) = P * c + P * k /\ P * c \in Int /\ P * k \in Int /\ P \in Nat
        BY <1>2
      <4>2. PICK z \in Nat : z = t * q
        OBVIOUS
      <4>3. x = v + z
        BY <1>4, <4>2
      <4> QED
        BY <1>6, <3>1, <4>1, <4>2, <4>3
    <3>3. t * q = q * t /\ q * t \in Int /\ c + k \in Int
      OBVIOUS
    <3>4. (q * t) % P = 0
      <4>1. q * t = P * (c + k)
        BY <3>2, <3>3
      <4> QED
        BY <1>2, <3>3, <4>1, Multiple
    <3>5. q \in 1 .. P - 1 /\ t \in 1 .. P - 1
      BY <1>2, <1>5, <1>8
    <3> QED
      BY <1>2, <3>4, <3>5, NoZeroDivisors
  <2> QED
    BY <1>1, <1>3, <1>6, <2>1, <2>2
<1> QED
  BY <1>7, <1>8

\* A row the builder makes is accepted exactly when its timestamps fit.
LEMMA TimestampDecides ==
  ASSUME NEW x \in Nat, x < P * 2 ^ TsBits, NEW y \in Nat, y < P * 2 ^ TsBits,
         NEW row, Compares(row, x, y)
  PROVE  TimestampAccepts(row) <=> x < 2 ^ TsBits /\ y < 2 ^ TsBits
<1>1. PICK t \in Nat \ {0} : t = 2 ^ TsBits
  BY Constants
<1>2. /\ P \in Nat \ {0, 1} /\ 2 * t < P /\ TsBits \in Nat /\ 2 ^ (TsBits + 1) = 2 * t
      /\ 2 ^ (LimbBits * NumLimbs) \in Nat /\ 2 * t <= 2 ^ (LimbBits * NumLimbs)
  BY <1>1, Constants
<1>3. /\ ((row.x - ValueOf(row.x_bits, TsBits)) % P = 0) <=> x < t
      /\ ((row.y - ValueOf(row.y_bits, TsBits)) % P = 0) <=> y < t
      /\ x < t => row.x = x
      /\ y < t => row.y = y
  BY <1>1, BitsFit DEF Compares
<1>4. ASSUME TimestampAccepts(row) PROVE x < t /\ y < t
  BY <1>3, <1>4 DEF TimestampAccepts
<1>5. ASSUME x < t, y < t PROVE TimestampAccepts(row)
  <2>1. row.x = x /\ row.y = y
    BY <1>3, <1>5
  <2>2. PICK v \in Nat : v = x + t - y /\ v < 2 * t
    BY <1>5
  <2>3. U32(x + 2 ^ TsBits - y) = v
    BY <1>1, <1>2, <2>2 DEF U32
  <2>4. row.v_bits = BitsOf(v, TsBits + 1)
    BY <2>3 DEF Compares
  <2>5. /\ BitsBelow(BitsOf(v, TsBits + 1), TsBits + 1)
        /\ DOMAIN BitsOf(v, TsBits + 1) = 0 .. (TsBits + 1) - 1
        /\ v = ValueOf(BitsOf(v, TsBits + 1), TsBits + 1) + (2 * t) * (v \div (2 * t))
    <3>1. PICK n \in Nat : n = TsBits + 1
      BY <1>2
    <3>2. /\ BitsBelow(BitsOf(v, n), n) /\ DOMAIN BitsOf(v, n) = 0 .. n - 1
          /\ v = ValueOf(BitsOf(v, n), n) + 2 ^ n * (v \div 2 ^ n)
      BY BitsOfValue
    <3> QED
      BY <1>2, <3>1, <3>2
  <2>6. v = ValueOf(row.v_bits, TsBits + 1)
    <3>1. v \div (2 * t) = 0
      BY <2>2
    <3>2. ValueOf(BitsOf(v, TsBits + 1), TsBits + 1) \in Nat
      BY <1>2, <2>5, BitsBound DEF ValueOf
    <3>3. (2 * t) * 0 = 0
      OBVIOUS
    <3> QED
      BY <2>4, <2>5, <3>1, <3>2, <3>3
  <2>7. \A i \in DOMAIN row.v_bits : Boolean(row.v_bits[i])
    BY <2>4, <2>5 DEF BitsBelow, Boolean
  <2>8. \A i \in DOMAIN row.x_bits : Boolean(row.x_bits[i]) /\ Boolean(row.y_bits[i])
    <3>1. /\ BitsBelow(BitsOf(x, TsBits), TsBits) /\ DOMAIN BitsOf(x, TsBits) = 0 .. TsBits - 1
          /\ BitsBelow(BitsOf(y, TsBits), TsBits)
      BY <1>2, BitsOfValue
    <3>2. row.x_bits = BitsOf(x, TsBits) /\ row.y_bits = BitsOf(y, TsBits)
      BY DEF Compares
    <3> QED
      BY <3>1, <3>2 DEF BitsBelow, Boolean
  <2>9. (row.x + 2 ^ TsBits - row.y - ValueOf(row.v_bits, TsBits + 1)) % P = 0
    <3>1. x + t - y - v = 0 /\ 0 % P = 0
      BY <1>2, <2>2
    <3> QED
      BY <1>1, <2>1, <2>6, <3>1
  <2>10. IsZero(row.x - row.y, row.diff_inv, row.is_equal)
    <3>1. PICK d \in Int : d = x - y /\ -P < d /\ d < P
      BY <1>2, <1>5
    <3>2. PICK r \in Int : r = d % P /\ (r = 0 <=> d = 0) /\ r % P = d % P
      BY <1>2, <3>1
    <3>3. IsZero(d, NegInverse(r), IF d = 0 THEN 1 ELSE 0)
      BY <3>1, <3>2, InverseAccepted
    <3>4. row.diff_inv = NegInverse(r) /\ row.is_equal = IF d = 0 THEN 1 ELSE 0
      BY <3>1, <3>2 DEF Compares
    <3> QED
      BY <2>1, <3>1, <3>3, <3>4
  <2> QED
    BY <1>3, <1>5, <2>7, <2>8, <2>9, <2>10 DEF TimestampAccepts
<1> QED
  BY <1>1, <1>4, <1>5

\* What a row has to say that is accepted, whoever made it.
LEMMA TimestampForced ==
  ASSUME NEW row, row.x \in Field, row.y \in Field, row.diff_inv \in Field, row.is_equal \in Field,
         BitsBelow(row.x_bits, TsBits), BitsBelow(row.y_bits, TsBits),
         BitsBelow(row.v_bits, TsBits + 1), TimestampAccepts(row)
  PROVE  /\ row.is_equal = 1 <=> row.x = row.y
         /\ row.v_bits[TsBits] = 0 <=> row.x < row.y
<1>1. PICK t \in Nat \ {0} : t = 2 ^ TsBits
  BY Constants
<1>2. P \in Nat \ {0, 1} /\ 2 * t < P /\ TsBits \in Nat /\ 2 ^ (TsBits + 1) = 2 * t
  BY <1>1, Constants
<1>3. PICK x \in Field, y \in Field : x = row.x /\ y = row.y
  OBVIOUS
<1>4. x < t
  <2>1. PICK v \in Nat : v = ValueOf(row.x_bits, TsBits) /\ v < t
    BY <1>1, <1>2, BitsBound DEF ValueOf
  <2>2. (x - v) % P = 0
    BY <1>3, <2>1 DEF TimestampAccepts
  <2>3. -P < x - v /\ x - v < P
    BY <1>2, <2>1 DEF Field
  <2> QED
    BY <1>2, <2>1, <2>2, <2>3 DEF Field
<1>5. y < t
  <2>1. PICK v \in Nat : v = ValueOf(row.y_bits, TsBits) /\ v < t
    BY <1>1, <1>2, BitsBound DEF ValueOf
  <2>2. (y - v) % P = 0
    BY <1>3, <2>1 DEF TimestampAccepts
  <2>3. -P < y - v /\ y - v < P
    BY <1>2, <2>1 DEF Field
  <2> QED
    BY <1>2, <2>1, <2>2, <2>3 DEF Field
<1>6. PICK v \in Nat : v = ValueOf(row.v_bits, TsBits + 1) /\ v < 2 * t
  BY <1>2, BitsBound DEF ValueOf
<1>7. v = x + t - y
  <2>1. (x + t - y - v) % P = 0
    BY <1>1, <1>3, <1>6 DEF TimestampAccepts
  <2>2. -P < x + t - y - v /\ x + t - y - v < P
    BY <1>2, <1>4, <1>5, <1>6 DEF Field
  <2> QED
    BY <1>2, <1>6, <2>1, <2>2 DEF Field
<1>8. v < t <=> row.v_bits[TsBits] = 0
  BY <1>1, <1>2, <1>6, TopBit DEF ValueOf
<1>9. row.is_equal = 1 <=> x - y = 0
  <2>1. IsZero(x - y, row.diff_inv, row.is_equal)
    BY <1>3 DEF TimestampAccepts
  <2>2. x - y \in Int /\ -P < x - y /\ x - y < P
    BY <1>2 DEF Field
  <2>3. row.diff_inv \in Int
    BY DEF Field
  <2> QED
    BY <2>1, <2>2, <2>3, IsZeroForced
<1>10. x - y = 0 <=> x = y
  BY DEF Field
<1> QED
  BY <1>3, <1>7, <1>8, <1>9, <1>10 DEF Field

(***************************************************************************)
(* The rows of u32_less_than_lookup.rs.                                    *)
(***************************************************************************)
\* x is a word: its limbs are below Base.
IsWord(x) == x \in [Limb -> 0 .. Base - 1]

\* A number is taken apart into a word.
LEMMA LimbsOfIsWord ==
  ASSUME NEW w \in Nat
  PROVE  IsWord(LimbsOf(w))
<1>1. ASSUME NEW i \in Limb
      PROVE  (w \div 2 ^ (LimbBits * i)) % Base \in 0 .. Base - 1
  <2>1. PICK e \in Nat : e = LimbBits * i
    BY Constants DEF Limb
  <2>2. PICK p \in Nat \ {0} : p = 2 ^ e
    <3>1. 2 ^ e \in Nat /\ e < 2 ^ e
      BY TwoPowers, TwoPowerExceeds
    <3> QED
      BY <3>1
  <2>3. PICK q \in Nat : q = w \div p
    BY <2>2
  <2>4. PICK b \in Nat \ {0} : b = Base
    BY Constants
  <2>5. q % b \in 0 .. b - 1
    BY <2>4
  <2> QED
    BY <2>1, <2>2, <2>3, <2>4, <2>5
<1> QED
  BY <1>1 DEF LimbsOf, IsWord

\* row asks for x <= y, as U32Row fills it in; nothing of its mult.
Orders(row, x, y) ==
  /\ row.x = x /\ row.y = y
  /\ row.inverses  = [i \in Limb |-> NegInverse(y[i] - x[i])]
  /\ row.is_equals = [i \in Limb |-> IF x[i] = y[i] THEN 1 ELSE 0]
  /\ row.mult_lts  = MultLts(x, y)
  /\ row.is_equal  = IF x = y THEN 1 ELSE 0

\* The builder's rows, of entries and of padding, are such rows.
LEMMA U32RowOrders ==
  ASSUME NEW a, NEW b
  PROVE  /\ Orders(U32Row(<<a, b>>), LimbsOf(a), LimbsOf(b))
         /\ Orders([U32Row(<<a, b>>) EXCEPT !.mult = 0], LimbsOf(a), LimbsOf(b))
<1>1. PICK x : x = LimbsOf(a)
  OBVIOUS
<1>2. PICK y : y = LimbsOf(b)
  OBVIOUS
<1>3. PICK row : row = U32Row(<<a, b>>)
  OBVIOUS
<1>4. row = [x |-> x, y |-> y,
             inverses  |-> [i \in Limb |-> NegInverse(y[i] - x[i])],
             is_equals |-> [i \in Limb |-> IF x[i] = y[i] THEN 1 ELSE 0],
             mult_lts  |-> MultLts(x, y),
             is_equal  |-> IF x = y THEN 1 ELSE 0, mult |-> 1]
  BY <1>1, <1>2, <1>3 DEF U32Row
<1>5. Orders(row, x, y) /\ Orders([row EXCEPT !.mult = 0], x, y)
  BY <1>4 DEF Orders
<1> QED
  BY <1>1, <1>2, <1>3, <1>5

\* MultLts marks the most significant limb that differs, and only it; above
\* it the sum of the marks is 0 and from it down 1.
LEMMA MultLtsMarks ==
  ASSUME NEW x, IsWord(x), NEW y, IsWord(y)
  PROVE  LET m == MultLts(x, y)
             d == Digits(m, 1, NumLimbs)
         IN  \/ /\ x = y
                /\ \A i \in Limb : m[i] = 0
                /\ \A i \in 0 .. NumLimbs : d[i] = 0
             \/ \E t \in Limb :
                  /\ x # y /\ x[t] # y[t]
                  /\ \A i \in Limb : m[i] = IF i = t THEN 1 ELSE 0
                  /\ \A i \in Limb : i > t => x[i] = y[i]
                  /\ \A i \in 0 .. NumLimbs : d[i] = IF i <= t THEN 1 ELSE 0
<1> DEFINE diff == {i \in Limb : x[i] # y[i]}
<1>0. PICK n \in Nat \ {0} : n = NumLimbs /\ Limb = 0 .. n - 1
  BY Constants DEF Limb
<1>1. PICK m : m = MultLts(x, y)
  OBVIOUS
<1>2. \A i \in Limb : m[i] = IF i \in diff /\ \A j \in diff : j <= i THEN 1 ELSE 0
  BY <1>1 DEF MultLts
<1>3. \A i \in 0 .. n - 1 : m[i] \in Int
  BY <1>0, <1>2
<1>4. PICK d : d = Digits(m, 1, n)
  OBVIOUS
<1>5. d \in [0 .. n -> Int] /\ d[n] = 0 /\ \A i \in 0 .. n - 1 : d[i] = m[i] + d[i + 1]
  <2>1. d \in [0 .. n -> Int] /\ d[n] = 0 /\ \A i \in 0 .. n - 1 : d[i] = m[i] + 1 * d[i + 1]
    BY <1>3, <1>4, DigitsStep
  <2> QED
    BY <2>1
<1>6. CASE diff = {}
  <2>1. x = y
    BY <1>6 DEF IsWord
  <2>2. \A i \in Limb : m[i] = 0
    BY <1>2, <1>6
  <2> DEFINE S == {i \in 0 .. n : d[i] = 0}
  <2>3. n \in S
    BY <1>5
  <2>4. ASSUME NEW i \in 0 .. n - 1, i + 1 \in S PROVE i \in S
    BY <1>0, <1>5, <2>2, <2>4
  <2>5. \A i \in 0 .. n : i \in S
    <3> HIDE DEF S
    <3> QED
      BY <2>3, <2>4, InductionDown
  <2> QED
    BY <1>0, <1>1, <1>4, <2>1, <2>2, <2>5
<1>7. CASE diff # {}
  <2>1. PICK t \in diff : \A j \in diff : j <= t
    <3> DEFINE T == {n - i : i \in diff}
    <3>1. T \in SUBSET Nat /\ T # {}
      BY <1>0, <1>7
    <3>2. PICK k \in T : \A l \in T : k <= l
      <4> HIDE DEF T
      <4> QED
        BY <3>1, LeastNatural
    <3>3. PICK t \in diff : k = n - t
      OBVIOUS
    <3>4. ASSUME NEW j \in diff PROVE j <= t
      <4>1. n - t <= n - j
        BY <3>2, <3>3
      <4> QED
        BY <1>0, <4>1
    <3> QED
      BY <3>4
  <2>2. t \in 0 .. n - 1 /\ t \in Limb /\ x[t] # y[t] /\ x # y
    BY <1>0
  <2>3. \A i \in Limb : i > t => x[i] = y[i]
    BY <1>0, <2>1, <2>2
  <2>4. \A i \in Limb : m[i] = IF i = t THEN 1 ELSE 0
    <3>1. ASSUME NEW i \in Limb, i # t PROVE ~(i \in diff /\ \A j \in diff : j <= i)
      <4>1. ASSUME i \in diff, \A j \in diff : j <= i PROVE FALSE
        <5>1. i <= t /\ t <= i /\ i \in 0 .. n - 1
          BY <1>0, <2>1, <4>1
        <5> QED
          BY <2>2, <3>1, <5>1
      <4> QED
        BY <4>1
    <3> HIDE DEF diff
    <3> QED
      BY <1>2, <2>1, <3>1
  <2> DEFINE S == {i \in 0 .. n : d[i] = IF i <= t THEN 1 ELSE 0}
  <2>5. n \in S
    BY <1>5, <2>2
  <2>6. ASSUME NEW i \in 0 .. n - 1, i + 1 \in S PROVE i \in S
    <3>1. d[i] = m[i] + d[i + 1] /\ d[i + 1] = IF i + 1 <= t THEN 1 ELSE 0
      BY <1>5, <2>6
    <3>2. m[i] = IF i = t THEN 1 ELSE 0
      BY <1>0, <2>4
    <3> QED
      BY <2>2, <3>1, <3>2
  <2>7. \A i \in 0 .. n : i \in S
    <3> HIDE DEF S
    <3> QED
      BY <2>5, <2>6, InductionDown
  <2> HIDE DEF diff
  <2>8. \A i \in 0 .. NumLimbs : d[i] = IF i <= t THEN 1 ELSE 0
    BY <1>0, <2>7
  <2> QED
    BY <1>0, <1>1, <1>4, <2>2, <2>3, <2>4, <2>8
<1> QED
  BY <1>6, <1>7

\* Every row the builder makes is accepted.
LEMMA U32Decides ==
  ASSUME NEW x, IsWord(x), NEW y, IsWord(y), NEW row, Orders(row, x, y)
  PROVE  U32Accepts(row)
<1>0. PICK n \in Nat \ {0} : n = NumLimbs /\ Limb = 0 .. n - 1
  BY Constants DEF Limb
<1>1. PICK m : m = MultLts(x, y)
  OBVIOUS
<1>2. PICK d : d = Digits(m, 1, NumLimbs)
  OBVIOUS
<1>3. \/ /\ x = y
         /\ \A i \in Limb : m[i] = 0
         /\ \A i \in 0 .. n : d[i] = 0
      \/ \E t \in Limb :
           /\ x # y /\ x[t] # y[t]
           /\ \A i \in Limb : m[i] = IF i = t THEN 1 ELSE 0
           /\ \A i \in Limb : i > t => x[i] = y[i]
           /\ \A i \in 0 .. n : d[i] = IF i <= t THEN 1 ELSE 0
  BY <1>0, <1>1, <1>2, MultLtsMarks
<1>4. row.mult_lts = m /\ row.is_equal = IF x = y THEN 1 ELSE 0
  BY <1>1 DEF Orders
<1>5. \A i \in Limb : /\ SumAbove(row.mult_lts, i) = d[i + 1]
                      /\ row.is_equals[i] = IF x[i] = y[i] THEN 1 ELSE 0
  BY <1>2, <1>4 DEF SumAbove, Orders
<1>6. SumAbove(row.mult_lts, -1) = d[0]
  BY <1>2, <1>4 DEF SumAbove
<1>7. ASSUME NEW i \in Limb
      PROVE  IsZero(row.y[i] - row.x[i], row.inverses[i], row.is_equals[i])
  <2>1. PICK e \in Int : e = y[i] - x[i] /\ -P < e /\ e < P /\ (e = 0 <=> x[i] = y[i])
    <3>1. x[i] \in 0 .. Base - 1 /\ y[i] \in 0 .. Base - 1
      BY DEF IsWord
    <3> QED
      BY <3>1, Constants
  <2>2. IsZero(e, NegInverse(e), IF e = 0 THEN 1 ELSE 0)
    BY <2>1, InverseAccepted
  <2>3. row.inverses[i] = NegInverse(e) /\ row.y[i] - row.x[i] = e
    BY <2>1 DEF Orders
  <2>4. row.is_equals[i] = IF e = 0 THEN 1 ELSE 0
    BY <1>5, <2>1
  <2> QED
    BY <2>2, <2>3, <2>4
<1>8. ASSUME NEW i \in Limb
      PROVE  /\ Boolean(m[i])
             /\ d[i + 1] * m[i] = 0
             /\ (1 - d[i + 1]) * (m[i] - (1 - row.is_equals[i])) = 0
  <2>1. i \in 0 .. n - 1 /\ i + 1 \in 0 .. n
    BY <1>0
  <2>2. CASE x = y /\ (\A j \in Limb : m[j] = 0) /\ \A j \in 0 .. n : d[j] = 0
    <3>1. m[i] = 0 /\ d[i + 1] = 0 /\ row.is_equals[i] = 1
      BY <1>5, <2>1, <2>2
    <3> QED
      BY <3>1 DEF Boolean
  <2>3. ASSUME NEW t \in Limb,
               /\ x[t] # y[t]
               /\ \A j \in Limb : m[j] = IF j = t THEN 1 ELSE 0
               /\ \A j \in Limb : j > t => x[j] = y[j]
               /\ \A j \in 0 .. n : d[j] = IF j <= t THEN 1 ELSE 0
        PROVE  /\ Boolean(m[i])
               /\ d[i + 1] * m[i] = 0
               /\ (1 - d[i + 1]) * (m[i] - (1 - row.is_equals[i])) = 0
    <3>0. t \in 0 .. n - 1
      BY <1>0
    <3>1. CASE i < t
      <4>1. m[i] = 0 /\ d[i + 1] = 1 /\ row.is_equals[i] \in {0, 1}
        BY <1>5, <2>1, <2>3, <3>0, <3>1
      <4> QED
        BY <4>1 DEF Boolean
    <3>2. CASE i = t
      <4>1. m[i] = 1 /\ d[i + 1] = 0 /\ row.is_equals[i] = 0
        BY <1>5, <2>1, <2>3, <3>0, <3>2
      <4> QED
        BY <4>1 DEF Boolean
    <3>3. CASE i > t
      <4>1. m[i] = 0 /\ d[i + 1] = 0 /\ row.is_equals[i] = 1
        BY <1>5, <2>1, <2>3, <3>0, <3>3
      <4> QED
        BY <4>1 DEF Boolean
    <3> QED
      BY <2>1, <3>0, <3>1, <3>2, <3>3
  <2> QED
    BY <1>3, <2>2, <2>3
<1>9. Boolean(d[0]) /\ row.is_equal = 1 - d[0]
  <2>1. 0 \in 0 .. n /\ \A t \in Limb : 0 <= t
    BY <1>0
  <2>2. (x = y /\ d[0] = 0) \/ (x # y /\ d[0] = 1)
    BY <1>3, <2>1
  <2> QED
    BY <1>4, <2>2 DEF Boolean
<1> QED
  BY <1>4, <1>5, <1>6, <1>7, <1>8, <1>9, Zenon DEF U32Accepts

\* The pairs of the table of bytes are ascending.
LEMMA BytePairsAscend ==
  ASSUME NEW p \in ToSet(BytePairs)
  PROVE  p[1] < p[2]
<1>0. PICK b \in Nat \ {0, 1} : b = Base
  BY Constants
<1> DEFINE S  == {q \in (0 .. b - 1) \X (0 .. b - 1) : q[1] < q[2]}
           ss == [n \in 1 .. b |-> [m \in 1 .. n - 1 |-> <<m - 1, n - 1>>]]
<1>1. ASSUME NEW n \in 1 .. b
      PROVE  [m \in 1 .. n - 1 |-> <<m - 1, n - 1>>] \in Seq(S)
  <2>1. \A m \in 1 .. n - 1 : <<m - 1, n - 1>> \in S
    OBVIOUS
  <2> HIDE DEF S
  <2> QED
    BY <2>1
<1>2. PICK Q : Q = Seq(S)
  OBVIOUS
<1>3. ss \in Seq(Q)
  <2> HIDE DEF S
  <2>1. \A n \in 1 .. b : [m \in 1 .. n - 1 |-> <<m - 1, n - 1>>] \in Q
    BY <1>1, <1>2
  <2> QED
    BY <2>1
<1>4. FlattenSeq(ss) \in Seq(S)
  <2>1. FlattenSeq(Prefix(ss, Len(ss))) = FlattenSeq(ss) /\ Len(ss) \in 0 .. Len(ss)
        /\ \A k \in 0 .. Len(ss) : FlattenSeq(Prefix(ss, k)) \in Seq(S)
    <3> HIDE DEF S, ss
    <3>1. ss \in Seq(Seq(S))
      BY <1>2, <1>3
    <3> QED
      BY <3>1, FlattenPrefix
  <2> QED
    BY <2>1
<1>5. BytePairs \in Seq(S)
  BY <1>0, <1>4 DEF BytePairs
<1>6. p \in S
  <2> HIDE DEF S
  <2>1. PICK i \in DOMAIN BytePairs : p = BytePairs[i]
    BY DEF ToSet
  <2> QED
    BY <1>5, <2>1
<1> QED
  BY <1>6

\* The most significant limb that differs decides.
LEMMA LimbDecides ==
  ASSUME NEW x, IsWord(x), NEW y, IsWord(y), NEW t \in Limb, x[t] < y[t],
         \A i \in Limb : i > t => x[i] = y[i]
  PROVE  ValueOfLimbs(x) < ValueOfLimbs(y)
<1>0. PICK n \in Nat \ {0} : n = NumLimbs /\ Limb = 0 .. n - 1
  BY Constants DEF Limb
<1>b. PICK b \in Nat \ {0, 1} : b = Base
  BY Constants
<1>1. \A i \in 0 .. n - 1 : x[i] \in 0 .. b - 1 /\ y[i] \in 0 .. b - 1
  BY <1>0, <1>b DEF IsWord
<1>2. PICK c : c = Digits(x, b, n)
  OBVIOUS
<1>3. PICK d : d = Digits(y, b, n)
  OBVIOUS
<1>i. n \in Nat /\ b \in Int /\ (\A i \in 0 .. n - 1 : x[i] \in Int) /\ \A i \in 0 .. n - 1 : y[i] \in Int
  BY <1>1
<1>4. c \in [0 .. n -> Int] /\ c[n] = 0 /\ \A i \in 0 .. n - 1 : c[i] = x[i] + b * c[i + 1]
  BY <1>2, <1>i, DigitsStep
<1>5. d \in [0 .. n -> Int] /\ d[n] = 0 /\ \A i \in 0 .. n - 1 : d[i] = y[i] + b * d[i + 1]
  BY <1>3, <1>i, DigitsStep
<1> DEFINE S == {i \in 0 .. n : IF i <= t THEN c[i] < d[i] ELSE c[i] = d[i]}
<1>6. n \in S
  BY <1>0, <1>4, <1>5
<1>7. ASSUME NEW i \in 0 .. n - 1, i + 1 \in S PROVE i \in S
  <2>1. PICK u \in Int : u = c[i + 1]
    BY <1>4
  <2>2. PICK v \in Int : v = d[i + 1]
    BY <1>5
  <2>3. c[i] = x[i] + b * u /\ d[i] = y[i] + b * v
    BY <1>4, <1>5, <2>1, <2>2
  <2>4. t \in 0 .. n - 1
    BY <1>0
  <2>5. IF i + 1 <= t THEN u < v ELSE u = v
    BY <1>7, <2>1, <2>2
  <2>6. CASE i < t
    <3>1. u + 1 <= v
      BY <2>4, <2>5, <2>6
    <3>2. b * u + b <= b * v
      BY <3>1
    <3>3. b * u \in Int /\ b * v \in Int
      OBVIOUS
    <3> QED
      BY <1>1, <2>3, <2>4, <2>6, <3>2, <3>3
  <2>7. CASE i = t
    <3>1. u = v
      BY <2>4, <2>5, <2>7
    <3>2. c[i] < d[i]
      <4>1. PICK w \in Int : w = b * u
        OBVIOUS
      <4> QED
        BY <1>1, <2>3, <2>7, <3>1, <4>1
    <3> QED
      BY <2>7, <3>2
  <2>8. CASE i > t
    <3>1. u = v /\ x[i] = y[i]
      BY <1>0, <2>4, <2>5, <2>8
    <3> QED
      BY <2>3, <2>4, <2>8, <3>1
  <2> QED
    BY <2>4, <2>6, <2>7, <2>8
<1>8. 0 \in S
  <2>1. \A i \in 0 .. n : i \in S
    <3> HIDE DEF S
    <3> QED
      BY <1>6, <1>7, InductionDown
  <2>2. 0 \in 0 .. n
    OBVIOUS
  <2> HIDE DEF S
  <2> QED
    BY <2>1, <2>2
<1>9. 0 <= t
  BY <1>0
<1> QED
  BY <1>0, <1>b, <1>2, <1>3, <1>8, <1>9 DEF ValueOfLimbs

\* A limb that is marked is sent.
LEMMA MarkedIsSent ==
  ASSUME NEW row, NEW t \in Limb, row.mult_lts[t] = 1
  PROVE  \E k \in DOMAIN U32Sends(row) : U32Sends(row)[k] = <<row.x[t], row.y[t]>>
<1>0. PICK n \in Nat \ {0} : n = NumLimbs /\ Limb = 0 .. n - 1
  BY Constants DEF Limb
<1> DEFINE u  == [k \in 1 .. n |-> <<row.x[k - 1], row.y[k - 1]>>]
           S  == {u[k] : k \in 1 .. n}
           G  == {k \in 1 .. n : row.mult_lts[k - 1] = 1}
           ss == [k \in 1 .. n |-> IF k \in G THEN <<u[k]>> ELSE <<>>]
<1>1. U32Sends(row) = FlattenSeq(ss)
  <2>1. ss = [k \in 1 .. NumLimbs |->
                IF row.mult_lts[k - 1] = 1 THEN << <<row.x[k - 1], row.y[k - 1]>> >> ELSE <<>>]
    BY <1>0
  <2> HIDE DEF ss
  <2> QED
    BY <2>1 DEF U32Sends
<1>2. u \in [1 .. n -> S] /\ G \in SUBSET (1 .. n) /\ Selects(ss, n, u, G)
  <2>1. u \in [1 .. n -> S]
    OBVIOUS
  <2>2. Selects(ss, n, u, G)
    BY DEF Selects
  <2> QED
    BY <2>1, <2>2
<1>3. t + 1 \in G /\ u[t + 1] = <<row.x[t], row.y[t]>>
  <2>1. t + 1 \in 1 .. n /\ (t + 1) - 1 = t
    BY <1>0
  <2> QED
    BY <2>1
<1> HIDE DEF u, G, S, ss
<1>4. /\ FlattenSeq(ss) \in Seq(S)
      /\ \E p \in Bijection(G, 1 .. Len(FlattenSeq(ss))) : \A i \in G : FlattenSeq(ss)[p[i]] = u[i]
  <2>1. n \in Nat /\ u \in [1 .. n -> S] /\ G \in SUBSET (1 .. n) /\ Selects(ss, n, u, G)
    BY <1>2
  <2> QED
    BY ONLY <2>1, FlattenSelected
<1>5. PICK p \in Bijection(G, 1 .. Len(FlattenSeq(ss))) : \A i \in G : FlattenSeq(ss)[p[i]] = u[i]
  BY <1>4
<1>6. p[t + 1] \in 1 .. Len(FlattenSeq(ss))
  BY <1>3, <1>5 DEF Bijection, Injection
<1>7. p[t + 1] \in DOMAIN FlattenSeq(ss)
  BY <1>4, <1>6
<1> QED
  BY <1>1, <1>3, <1>5, <1>7

\* What a row has to say that is accepted, whoever made it.
LEMMA U32Forced ==
  ASSUME NEW row, IsWord(row.x), IsWord(row.y), row.inverses \in [Limb -> Field],
         row.is_equals \in [Limb -> Field], row.mult_lts \in [Limb -> {0, 1}],
         U32Accepts(row), \A k \in DOMAIN U32Sends(row) : U32Sends(row)[k] \in ToSet(BytePairs)
  PROVE  /\ ValueOfLimbs(row.x) <= ValueOfLimbs(row.y)
         /\ row.is_equal = 1 <=> row.x = row.y
<1>0. PICK n \in Nat \ {0} : n = NumLimbs /\ Limb = 0 .. n - 1
  BY Constants DEF Limb
<1>1. PICK x : x = row.x /\ IsWord(x)
  OBVIOUS
<1>2. PICK y : y = row.y /\ IsWord(y)
  OBVIOUS
<1>3. PICK m : m = row.mult_lts /\ m \in [Limb -> {0, 1}]
  OBVIOUS
<1>4. PICK e : e = row.is_equals /\ e \in [Limb -> Field]
  OBVIOUS
<1>5. PICK d : d = Digits(m, 1, n)
  OBVIOUS
<1>6. d \in [0 .. n -> Int] /\ d[n] = 0 /\ \A i \in 0 .. n - 1 : d[i] = m[i] + d[i + 1]
  <2>1. \A i \in 0 .. n - 1 : m[i] \in Int
    BY <1>0, <1>3
  <2>2. d \in [0 .. n -> Int] /\ d[n] = 0 /\ \A i \in 0 .. n - 1 : d[i] = m[i] + 1 * d[i + 1]
    BY <1>5, <2>1, DigitsStep
  <2> QED
    BY <2>2
<1>7. ASSUME NEW i \in Limb
      PROVE  /\ e[i] = 1 <=> x[i] = y[i]
             /\ d[i + 1] * m[i] = 0
             /\ (1 - d[i + 1]) * (m[i] - (1 - e[i])) = 0
  <2>1. SumAbove(row.mult_lts, i) = d[i + 1]
    BY <1>0, <1>3, <1>5 DEF SumAbove
  <2>2. /\ IsZero(y[i] - x[i], row.inverses[i], e[i])
        /\ d[i + 1] * m[i] = 0
        /\ (1 - d[i + 1]) * (m[i] - (1 - e[i])) = 0
    BY <1>1, <1>2, <1>3, <1>4, <2>1 DEF U32Accepts
  <2>3. PICK a \in Int : a = y[i] - x[i] /\ -P < a /\ a < P /\ (a = 0 <=> x[i] = y[i])
    <3>1. x[i] \in 0 .. Base - 1 /\ y[i] \in 0 .. Base - 1
      BY <1>1, <1>2 DEF IsWord
    <3> QED
      BY <3>1, Constants
  <2>4. e[i] = 1 <=> a = 0
    <3>1. row.inverses[i] \in Int /\ e[i] \in Field
      BY <1>4 DEF Field
    <3> QED
      BY <2>2, <2>3, <3>1, IsZeroForced
  <2> QED
    BY <2>2, <2>3, <2>4
<1>8. Boolean(d[0]) /\ row.is_equal = 1 - d[0]
  <2>1. SumAbove(row.mult_lts, -1) = d[0]
    BY <1>0, <1>3, <1>5 DEF SumAbove
  <2> QED
    BY <2>1, Zenon DEF U32Accepts
<1>9. \A k \in 0 .. n : \A j \in 0 .. k : d[k] <= d[j]
  <2> DEFINE K == {k \in 0 .. n : \A j \in 0 .. k : d[k] <= d[j]}
  <2>1. 0 \in K
    BY <1>6
  <2>2. ASSUME NEW k \in 0 .. n - 1, k \in K PROVE k + 1 \in K
    <3>1. m[k] \in {0, 1} /\ d[k] = m[k] + d[k + 1] /\ d[k] \in Int /\ d[k + 1] \in Int
      BY <1>0, <1>3, <1>6
    <3>2. ASSUME NEW j \in 0 .. k + 1 PROVE d[k + 1] <= d[j]
      <4>1. d[j] \in Int /\ (j = k + 1 \/ d[k] <= d[j])
        BY <1>6, <2>2
      <4> QED
        BY <3>1, <4>1
    <3> QED
      BY <3>2
  <2>3. 0 .. n \subseteq K
    <3> HIDE DEF K
    <3> QED
      BY <2>1, <2>2, InductionTo
  <2> QED
    BY <2>3
<1>10. \A i \in 0 .. n : d[i] >= 0
  <2> DEFINE S == {i \in 0 .. n : d[i] >= 0}
  <2>1. n \in S
    BY <1>6
  <2>2. ASSUME NEW i \in 0 .. n - 1, i + 1 \in S PROVE i \in S
    <3>1. m[i] \in {0, 1} /\ d[i] = m[i] + d[i + 1] /\ d[i + 1] \in Int /\ d[i + 1] >= 0
      BY <1>0, <1>3, <1>6, <2>2
    <3> QED
      BY <3>1
  <2>3. \A i \in 0 .. n : i \in S
    <3> HIDE DEF S
    <3> QED
      BY <2>1, <2>2, InductionDown
  <2> QED
    BY <2>3
<1>11. ASSUME NEW i \in Limb, d[i + 1] = 0, m[i] = 0
       PROVE  x[i] = y[i]
  <2>1. e[i] \in Int
    BY <1>4 DEF Field
  <2> QED
    BY <1>7, <1>11, <2>1
<1>12. CASE d[0] = 0
  <2>1. \A i \in 0 .. n : d[i] = 0
    <3>1. ASSUME NEW i \in 0 .. n PROVE d[i] = 0
      <4>1. d[i] <= d[0] /\ d[i] >= 0 /\ d[i] \in Int
        BY <1>6, <1>9, <1>10
      <4> QED
        BY <1>12, <4>1
    <3> QED
      BY <3>1
  <2>2. ASSUME NEW i \in Limb PROVE x[i] = y[i]
    <3>1. d[i] = 0 /\ d[i + 1] = 0 /\ d[i] = m[i] + d[i + 1] /\ m[i] \in {0, 1}
      BY <1>0, <1>3, <1>6, <2>1
    <3> QED
      BY <1>11, <3>1
  <2>3. x = y
    BY <1>1, <1>2, <2>2 DEF IsWord
  <2>4. ValueOfLimbs(x) \in Int
    <3>1. PICK b \in Int : b = Base
      BY Constants
    <3>2. \A i \in 0 .. n - 1 : x[i] \in Int
      BY <1>0, <1>1 DEF IsWord
    <3>3. Digits(x, b, n) \in [0 .. n -> Int]
      BY <3>1, <3>2, DigitsStep
    <3> QED
      BY <1>0, <3>1, <3>3 DEF ValueOfLimbs
  <2> QED
    BY <1>1, <1>2, <1>8, <1>12, <2>3, <2>4
<1>13. CASE d[0] = 1
  <2>1. PICK t \in Limb : m[t] = 1
    <3>1. ASSUME \A i \in Limb : m[i] # 1 PROVE FALSE
      <4> DEFINE S == {i \in 0 .. n : d[i] = 0}
      <4>1. n \in S
        BY <1>6
      <4>2. ASSUME NEW i \in 0 .. n - 1, i + 1 \in S PROVE i \in S
        <5>1. m[i] \in {0, 1} /\ m[i] # 1 /\ d[i] = m[i] + d[i + 1] /\ d[i + 1] = 0
          BY <1>0, <1>3, <1>6, <3>1, <4>2
        <5> QED
          BY <5>1
      <4>3. \A i \in 0 .. n : i \in S
        <5> HIDE DEF S
        <5> QED
          BY <4>1, <4>2, InductionDown
      <4>4. d[0] = 0
        BY <4>3
      <4> QED
        BY <1>13, <4>4
    <3> QED
      BY <3>1
  <2>2. t \in 0 .. n - 1 /\ d[t + 1] = 0
    <3>1. t \in 0 .. n - 1 /\ d[t + 1] \in Int /\ d[t + 1] * m[t] = 0
      BY <1>0, <1>6, <1>7
    <3> QED
      BY <2>1, <3>1
  <2>3. x[t] # y[t]
    <3>1. e[t] \in Int /\ (1 - 0) * (1 - (1 - e[t])) = 0
      BY <1>4, <1>7, <2>1, <2>2 DEF Field
    <3>2. e[t] = 0
      BY <3>1
    <3> QED
      BY <1>7, <3>2
  <2>4. ASSUME NEW i \in Limb, i > t PROVE x[i] = y[i]
    <3>1. i \in 0 .. n - 1 /\ t + 1 \in 0 .. i /\ t + 1 \in 0 .. i + 1
      BY <1>0, <2>2, <2>4
    <3>2. d[i] <= d[t + 1] /\ d[i + 1] <= d[t + 1]
      BY <1>9, <3>1
    <3>3. d[i] = 0 /\ d[i + 1] = 0
      <4>1. d[i] \in Int /\ d[i + 1] \in Int /\ d[i] >= 0 /\ d[i + 1] >= 0
        BY <1>6, <1>10, <3>1
      <4> QED
        BY <2>2, <3>2, <4>1
    <3>4. m[i] = 0
      <4>1. d[i] = m[i] + d[i + 1] /\ m[i] \in {0, 1}
        BY <1>3, <1>6, <3>1
      <4> QED
        BY <3>3, <4>1
    <3> QED
      BY <1>11, <3>3, <3>4
  <2>5. x[t] < y[t]
    <3>1. PICK k \in DOMAIN U32Sends(row) : U32Sends(row)[k] = <<x[t], y[t]>>
      BY <1>1, <1>2, <1>3, <2>1, MarkedIsSent
    <3>2. <<x[t], y[t]>> \in ToSet(BytePairs)
      BY <3>1
    <3> QED
      BY <3>2, BytePairsAscend
  <2>6. ValueOfLimbs(x) < ValueOfLimbs(y)
    BY <1>1, <1>2, <2>4, <2>5, LimbDecides
  <2>7. ValueOfLimbs(x) \in Int /\ ValueOfLimbs(y) \in Int
    <3>1. PICK b \in Int : b = Base
      BY Constants
    <3>2. \A i \in 0 .. n - 1 : x[i] \in Int /\ y[i] \in Int
      BY <1>0, <1>1, <1>2 DEF IsWord
    <3>3. Digits(x, b, n) \in [0 .. n -> Int] /\ Digits(y, b, n) \in [0 .. n -> Int]
      BY <3>1, <3>2, DigitsStep
    <3> QED
      BY <1>0, <3>1, <3>3 DEF ValueOfLimbs
  <2> QED
    BY <1>1, <1>2, <1>8, <1>13, <2>3, <2>6, <2>7
<1> QED
  BY <1>8, <1>12, <1>13 DEF Boolean

(***************************************************************************)
(* The sorted log.                                                         *)
(***************************************************************************)
\* A log of both spaces: operations on numbered addresses, in the order of
\* their timestamps.
IsTypedLog(ops, S) ==
  /\ ops \in Seq(S)
  /\ \A o \in S : o.memory_type \in {Register, Ram} /\ o.address \in Nat /\ o.timestamp \in Nat
  /\ \A j, k \in 1 .. Len(ops) : j < k => ops[j].timestamp < ops[k].timestamp

\* The order of the table.
ByTypedCell(ops, j, k) ==
  \/ ops[j].memory_type < ops[k].memory_type
  \/ /\ ops[j].memory_type = ops[k].memory_type
     /\ ByCell(ops, j, k)

\* Place i of the table is given to ops[at[i]].
TypedSorts(ops, at) ==
  /\ at \in Bijection(1 .. Len(ops), 1 .. Len(ops))
  /\ TypedSorted(ops) = [i \in 1 .. Len(ops) |-> ops[at[i]]]
  /\ \A i, j \in 1 .. Len(ops) : i < j <=> ByTypedCell(ops, at[i], at[j])

\* Sorting is a permutation: by space, by address and, within an address, in
\* the order of the log.
LEMMA TypedSortedSorts ==
  ASSUME NEW S, NEW ops, IsTypedLog(ops, S)
  PROVE  \E at : TypedSorts(ops, at)
<1> DEFINE n == Len(ops)
           Less(o, p) == \/ o.memory_type < p.memory_type
                         \/ o.memory_type = p.memory_type
                              /\ \/ o.address < p.address
                                 \/ o.address = p.address /\ o.timestamp < p.timestamp
           Before(j, k) == Less(ops[j], ops[k]) \/ (~Less(ops[k], ops[j]) /\ j < k)
           rank == [k \in DOMAIN ops |-> 1 + Cardinality({j \in DOMAIN ops : Before(j, k)})]
           R == {p \in (1 .. n) \X (1 .. n) : ByTypedCell(ops, p[1], p[2])}
<1>1. /\ n \in Nat /\ DOMAIN ops = 1 .. n
      /\ \A k \in 1 .. n : /\ ops[k].memory_type \in {0, 1}
                            /\ ops[k].address \in Nat /\ ops[k].timestamp \in Nat
      /\ \A j, k \in 1 .. n : j < k => ops[j].timestamp < ops[k].timestamp
  BY DEF IsTypedLog, Register, Ram
<1>2. ASSUME NEW j \in 1 .. n, NEW k \in 1 .. n
      PROVE  Before(j, k) <=> ByTypedCell(ops, j, k)
  <2>0. /\ ops[j].memory_type \in Int /\ ops[j].address \in Int /\ ops[j].timestamp \in Int
        /\ ops[k].memory_type \in Int /\ ops[k].address \in Int /\ ops[k].timestamp \in Int
    BY <1>1
  <2>1. PICK tj \in Int, aj \in Int, sj \in Int :
          tj = ops[j].memory_type /\ aj = ops[j].address /\ sj = ops[j].timestamp
    BY <2>0
  <2>2. PICK tk \in Int, ak \in Int, sk \in Int :
          tk = ops[k].memory_type /\ ak = ops[k].address /\ sk = ops[k].timestamp
    BY <2>0
  <2>3. (j < k => sj < sk) /\ (k < j => sk < sj) /\ (j = k => tj = tk /\ aj = ak /\ sj = sk)
    BY <1>1, <2>1, <2>2
  <2>4. Before(j, k) <=>
          \/ tj < tk \/ (tj = tk /\ (aj < ak \/ (aj = ak /\ sj < sk)))
          \/ j < k /\ ~(tk < tj \/ (tk = tj /\ (ak < aj \/ (ak = aj /\ sk < sj))))
    BY <2>1, <2>2
  <2>5. ByTypedCell(ops, j, k) <=> tj < tk \/ (tj = tk /\ (aj < ak \/ (aj = ak /\ j < k)))
    BY <2>1, <2>2 DEF ByTypedCell, ByCell
  <2>6. j \in Int /\ k \in Int
    OBVIOUS
  <2> HIDE DEF Before
  <2> QED
    BY <2>3, <2>4, <2>5, <2>6
<1>3. \A j, k \in 1 .. n : <<j, k>> \in R <=> ByTypedCell(ops, j, k)
  OBVIOUS
<1>4. TypedSorted(ops) = [i \in DOMAIN ops |-> ops[CHOOSE k \in DOMAIN ops : rank[k] = i]]
  BY DEF TypedSorted, StableSort, Rank
<1> HIDE DEF Before, R
<1>5. rank = RankIn(R, n)
  <2>1. \A k \in 1 .. n : {j \in DOMAIN ops : Before(j, k)} = {j \in 1 .. n : <<j, k>> \in R}
    BY <1>1, <1>2, <1>3
  <2> QED
    BY <1>1, <2>1 DEF RankIn
<1> HIDE DEF rank
<1>6. StrictlyOrders(R, n)
  <2>1. ASSUME NEW i \in 1 .. n PROVE <<i, i>> \notin R
    <3>1. ops[i].memory_type \in Int /\ ops[i].address \in Int /\ i \in Int
      BY <1>1
    <3>2. ~ByTypedCell(ops, i, i)
      BY <3>1 DEF ByTypedCell, ByCell
    <3> QED
      BY <1>3, <3>2
  <2>2. \A i, j \in 1 .. n : i # j => <<i, j>> \in R \/ <<j, i>> \in R
    BY <1>1, <1>3 DEF ByTypedCell, ByCell
  <2>3. ASSUME NEW i \in 1 .. n, NEW j \in 1 .. n, NEW k \in 1 .. n, <<i, j>> \in R, <<j, k>> \in R
        PROVE  <<i, k>> \in R
    <3>1. /\ ops[i].memory_type \in {0, 1} /\ ops[i].address \in Nat
          /\ ops[j].memory_type \in {0, 1} /\ ops[j].address \in Nat
          /\ ops[k].memory_type \in {0, 1} /\ ops[k].address \in Nat
      BY <1>1
    <3>2. ByTypedCell(ops, i, j) /\ ByTypedCell(ops, j, k)
      BY <1>3, <2>3
    <3>3. ByTypedCell(ops, i, k)
      <4>1. PICK ti \in Int, ai \in Int : ti = ops[i].memory_type /\ ai = ops[i].address
        BY <3>1
      <4>2. PICK tj \in Int, aj \in Int : tj = ops[j].memory_type /\ aj = ops[j].address
        BY <3>1
      <4>3. PICK tk \in Int, ak \in Int : tk = ops[k].memory_type /\ ak = ops[k].address
        BY <3>1
      <4>4. /\ ti < tj \/ (ti = tj /\ (ai < aj \/ (ai = aj /\ i < j)))
            /\ tj < tk \/ (tj = tk /\ (aj < ak \/ (aj = ak /\ j < k)))
        BY <3>2, <4>1, <4>2, <4>3 DEF ByTypedCell, ByCell
      <4>5. ti < tk \/ (ti = tk /\ (ai < ak \/ (ai = ak /\ i < k)))
        BY <4>4
      <4> QED
        BY <4>1, <4>3, <4>5 DEF ByTypedCell, ByCell
    <3> QED
      BY <1>3, <3>3
  <2> QED
    BY <2>1, <2>2, <2>3 DEF StrictlyOrders
<1>7. /\ rank \in [1 .. n -> 1 .. n]
      /\ \A i, j \in 1 .. n : <<i, j>> \in R <=> rank[i] < rank[j]
      /\ \A m \in 1 .. n : \E k \in 1 .. n : rank[k] = m
  <2>1. n \in Nat
    BY <1>1
  <2> HIDE DEF n
  <2> QED
    BY <2>1, <1>5, <1>6, Ranks
<1>8. \A i, j \in 1 .. n : rank[i] = rank[j] => i = j
  BY <1>6, <1>7 DEF StrictlyOrders
<1> DEFINE at == [i \in 1 .. n |-> CHOOSE k \in 1 .. n : rank[k] = i]
<1>9. \A i \in 1 .. n : at[i] \in 1 .. n /\ rank[at[i]] = i
  BY <1>7
<1>10. \A k \in 1 .. n : at[rank[k]] = k
  BY <1>7, <1>8, <1>9
<1>11. TypedSorted(ops) = [i \in 1 .. n |-> ops[at[i]]]
  BY <1>1, <1>4
<1>12. at \in [1 .. n -> 1 .. n]
  BY <1>9
<1> HIDE DEF at
<1>13. at \in Bijection(1 .. n, 1 .. n)
  <2>1. \A i, j \in 1 .. n : at[i] = at[j] => i = j
    BY <1>9
  <2>2. \A k \in 1 .. n : \E i \in 1 .. n : at[i] = k
    BY <1>7, <1>10
  <2> HIDE DEF n
  <2> QED
    BY <1>12, <2>1, <2>2 DEF Bijection, Injection, Surjection, IsInjective
<1>14. \A i, j \in 1 .. n : i < j <=> ByTypedCell(ops, at[i], at[j])
  <2> SUFFICES ASSUME NEW i \in 1 .. n, NEW j \in 1 .. n
               PROVE  i < j <=> ByTypedCell(ops, at[i], at[j])
    OBVIOUS
  <2>1. at[i] \in 1 .. n /\ at[j] \in 1 .. n /\ rank[at[i]] = i /\ rank[at[j]] = j
    BY <1>9
  <2>2. <<at[i], at[j]>> \in R <=> rank[at[i]] < rank[at[j]]
    BY <1>7, <2>1
  <2> QED
    BY <1>3, <2>1, <2>2
<1>15. TypedSorts(ops, at)
  BY <1>11, <1>13, <1>14 DEF TypedSorts
<1> QED
  BY <1>15

(***************************************************************************)
(* The entries of the comparison tables are pairs of numbers of the log.   *)
(***************************************************************************)
\* Neighbours are operations of the log.
LEMMA TypedNeighboursOfLog ==
  ASSUME NEW S, NEW ops, IsTypedLog(ops, S), ops # <<>>
  PROVE  TypedNeighbours(ops) \in Seq(S \X S)
<1>0. PICK n \in Nat \ {0} : n = Len(ops)
  BY DEF IsTypedLog
<1>1. PICK at : TypedSorts(ops, at)
  BY TypedSortedSorts
<1>2. PICK s : s = TypedSorted(ops)
  OBVIOUS
<1>3. \A i \in 1 .. n : s[i] \in S
  <2>1. s = [i \in 1 .. n |-> ops[at[i]]] /\ at \in [1 .. n -> 1 .. n]
    BY <1>0, <1>1, <1>2 DEF TypedSorts, Bijection, Injection
  <2>2. \A i \in 1 .. n : ops[i] \in S
    BY <1>0 DEF IsTypedLog
  <2> QED
    BY <2>1, <2>2
<1> DEFINE ss == [i \in 1 .. n - 1 |->
                    IF s[i].memory_type = s[i + 1].memory_type THEN << <<s[i], s[i + 1]>> >> ELSE <<>>]
<1>4. PICK T : T = S \X S
  OBVIOUS
<1>5. ss \in Seq(Seq(T))
  <2>1. PICK Q : Q = Seq(T)
    OBVIOUS
  <2>2. ASSUME NEW i \in 1 .. n - 1
        PROVE  (IF s[i].memory_type = s[i + 1].memory_type THEN << <<s[i], s[i + 1]>> >> ELSE <<>>) \in Q
    <3>1. <<s[i], s[i + 1]>> \in T
      BY <1>3, <1>4
    <3>2. << <<s[i], s[i + 1]>> >> \in Q /\ <<>> \in Q
      BY <2>1, <3>1
    <3> QED
      BY <3>2
  <2>3. ss \in Seq(Q)
    <3>1. PICK k \in Nat : k = n - 1
      OBVIOUS
    <3>2. ss \in [1 .. k -> Q]
      BY <2>2, <3>1
    <3> HIDE DEF ss
    <3> QED
      BY <3>1, <3>2
  <2> QED
    BY <2>1, <2>3
<1>6. FlattenSeq(ss) \in Seq(T)
  <2> HIDE DEF ss
  <2>1. Len(ss) \in 0 .. Len(ss)
    BY <1>5
  <2> QED
    BY <1>5, <2>1, FlattenPrefix
<1>7. TypedNeighbours(ops) = FlattenSeq(ss)
  BY <1>0, <1>2 DEF TypedNeighbours
<1> QED
  BY <1>4, <1>6, <1>7

\* Addresses are numbers.
LEMMA AddressEntries ==
  ASSUME NEW S, NEW ops, IsTypedLog(ops, S), ops # <<>>
  PROVE  TypedAddressLtEntries(ops) \in Seq(Nat \X Nat)
<1>1. PICK ns : ns = TypedNeighbours(ops) /\ ns \in Seq(S \X S)
  BY TypedNeighboursOfLog
<1>2. \A k \in 1 .. Len(ns) : ns[k][1].address \in Nat /\ ns[k][2].address \in Nat
  BY <1>1 DEF IsTypedLog
<1>3. TypedAddressLtEntries(ops) = [k \in 1 .. Len(ns) |-> <<ns[k][1].address, ns[k][2].address>>]
  BY <1>1 DEF TypedAddressLtEntries
<1>4. Len(ns) \in Nat
  BY <1>1
<1> QED
  BY <1>2, <1>3, <1>4

\* Timestamps are below the clock.
LEMMA TimestampEntries ==
  ASSUME NEW S, NEW ops, IsTypedLog(ops, S), ops # <<>>,
         NEW bound \in Nat, \A o \in S : o.timestamp < bound
  PROVE  TypedTimestampLtEntries(ops) \in Seq((0 .. bound - 1) \X (0 .. bound - 1))
<1>1. PICK ns : ns = TypedNeighbours(ops) /\ ns \in Seq(S \X S)
  BY TypedNeighboursOfLog
<1>2. PICK T : T = (0 .. bound - 1) \X (0 .. bound - 1)
  OBVIOUS
<1> DEFINE ss == [k \in 1 .. Len(ns) |->
                    IF ns[k][1].address = ns[k][2].address
                    THEN << <<ns[k][1].timestamp, ns[k][2].timestamp>> >> ELSE <<>>]
<1>3. ss \in Seq(Seq(T))
  <2>1. PICK Q : Q = Seq(T)
    OBVIOUS
  <2>2. ASSUME NEW k \in 1 .. Len(ns)
        PROVE  (IF ns[k][1].address = ns[k][2].address
                THEN << <<ns[k][1].timestamp, ns[k][2].timestamp>> >> ELSE <<>>) \in Q
    <3>1. ns[k][1].timestamp \in 0 .. bound - 1 /\ ns[k][2].timestamp \in 0 .. bound - 1
      <4>1. ns[k][1] \in S /\ ns[k][2] \in S
        BY <1>1
      <4>2. \A o \in S : o.timestamp \in 0 .. bound - 1
        BY DEF IsTypedLog
      <4> QED
        BY <4>1, <4>2
    <3>2. <<ns[k][1].timestamp, ns[k][2].timestamp>> \in T
      BY <1>2, <3>1
    <3>3. << <<ns[k][1].timestamp, ns[k][2].timestamp>> >> \in Q /\ <<>> \in Q
      BY <2>1, <3>2
    <3> QED
      BY <3>3
  <2>3. ss \in Seq(Q)
    BY <1>1, <2>2
  <2> QED
    BY <2>1, <2>3
<1>4. FlattenSeq(ss) \in Seq(T)
  <2> HIDE DEF ss
  <2>1. Len(ss) \in 0 .. Len(ss)
    BY <1>3
  <2> QED
    BY <1>3, <2>1, FlattenPrefix
<1>5. TypedTimestampLtEntries(ops) = FlattenSeq(ss)
  <2>1. DOMAIN ns = 1 .. Len(ns)
    BY <1>1
  <2> QED
    BY <1>1, <2>1 DEF TypedTimestampLtEntries
<1> QED
  BY <1>2, <1>4, <1>5

(***************************************************************************)
(* What the cells hold.                                                    *)
(***************************************************************************)
\* The greatest element of a bounded set of numbers.
LEMMA MaxIs ==
  ASSUME NEW b \in Nat, NEW T \in SUBSET (0 .. b), T # {}
  PROVE  Max(T) \in T /\ \A x \in T : x <= Max(T)
<1> DEFINE D == {b - x : x \in T}
<1>0. \A x \in T : x \in 0 .. b
  OBVIOUS
<1>1. D \in SUBSET Nat /\ D # {}
  <2>1. \A x \in T : b - x \in Nat
    BY <1>0
  <2>2. PICK x \in T : TRUE
    OBVIOUS
  <2>3. b - x \in D
    OBVIOUS
  <2> QED
    BY <2>1, <2>3
<1>2. PICK m \in D : \A k \in D : m <= k
  BY <1>1, LeastNatural
<1>3. PICK x \in T : m = b - x
  OBVIOUS
<1>4. \A y \in T : x >= y
  <2> SUFFICES ASSUME NEW y \in T PROVE x >= y
    OBVIOUS
  <2>1. b - y \in D
    OBVIOUS
  <2>2. b - x <= b - y /\ x \in 0 .. b /\ y \in 0 .. b
    BY <1>2, <1>3, <2>1
  <2> QED
    BY <2>2
<1>5. Max(T) \in T /\ \A y \in T : Max(T) >= y
  <2>1. \E x0 \in T : \A y \in T : x0 >= y
    BY <1>4
  <2> QED
    BY <2>1, Zenon DEF Max
<1>6. ASSUME NEW y \in T PROVE y <= Max(T)
  <2>1. PICK z \in T : z = Max(T)
    BY <1>5
  <2>2. z >= y /\ z \in 0 .. b /\ y \in 0 .. b
    BY <1>0, <1>5, <2>1
  <2> QED
    BY <2>1, <2>2
<1> QED
  BY <1>5, <1>6

\* The least.
LEMMA MinIs ==
  ASSUME NEW T \in SUBSET Nat, T # {}
  PROVE  Min(T) \in T /\ \A x \in T : Min(T) <= x
<1>1. \E m \in T : \A k \in T : m =< k
  BY LeastNatural
<1> QED
  BY <1>1, Zenon DEF Min

\* Operations j and k are on the same cell.
SameCell(ops, j, k) ==
  ops[j].memory_type = ops[k].memory_type /\ ops[j].address = ops[k].address

\* A cell holds 0 first, then what was last left there.
IsTypedHistory(ops) ==
  /\ \A k \in 1 .. Len(ops) :
       (\A j \in 1 .. Len(ops) : SameCell(ops, j, k) => ~(j < k)) => ops[k].old_value = 0
  /\ \A j, k \in 1 .. Len(ops) :
       /\ j < k /\ SameCell(ops, j, k)
       /\ \A l \in 1 .. Len(ops) : SameCell(ops, l, k) => ~(j < l /\ l < k)
       => ops[k].old_value = ops[j].new_value

\* An operation that finds what its cell holds continues the history.
LEMMA HistoryKept ==
  ASSUME NEW S, log \in Seq(S), IsTypedHistory(log),
         NEW op, op.old_value = Held(<<op.memory_type, op.address>>),
         NEW longer, longer = Append(log, op)
  PROVE  IsTypedHistory(longer)
<1>1. PICK n \in Nat : n = Len(log) /\ DOMAIN log = 1 .. n
  OBVIOUS
<1>2. /\ Len(longer) = n + 1 /\ longer[n + 1] = op
      /\ \A k \in 1 .. n : longer[k] = log[k]
  BY <1>1
<1> DEFINE on == {k \in 1 .. n : SameCell(longer, k, n + 1)}
<1>3. op.old_value = IF on = {} THEN 0 ELSE longer[Max(on)].new_value
  <2>1. {k \in DOMAIN log : <<log[k].memory_type, log[k].address>> = <<op.memory_type, op.address>>} = on
    BY <1>1, <1>2 DEF SameCell
  <2>2. on # {} => Max(on) \in 1 .. n
    <3>1. on \in SUBSET (0 .. n)
      OBVIOUS
    <3>2. on # {} => Max(on) \in on
      <4> HIDE DEF on
      <4> QED
        BY <3>1, MaxIs
    <3> QED
      BY <3>2
  <2> HIDE DEF on
  <2>3. Held(<<op.memory_type, op.address>>) = IF on = {} THEN 0 ELSE log[Max(on)].new_value
    BY <2>1 DEF Held
  <2> QED
    BY <1>2, <2>2, <2>3
<1>4. \A j, k \in 1 .. n : SameCell(longer, j, k) <=> SameCell(log, j, k)
  BY <1>2 DEF SameCell
<1>5. ASSUME NEW k \in 1 .. n + 1, \A j \in 1 .. n + 1 : SameCell(longer, j, k) => ~(j < k)
      PROVE  longer[k].old_value = 0
  <2>1. CASE k = n + 1
    <3>1. on = {}
      BY <1>5, <2>1
    <3> HIDE DEF on
    <3> QED
      BY <1>2, <1>3, <2>1, <3>1
  <2>2. CASE k # n + 1
    <3>1. k \in 1 .. n /\ \A j \in 1 .. n : SameCell(log, j, k) => ~(j < k)
      BY <1>4, <1>5, <2>2
    <3> QED
      BY <1>1, <1>2, <3>1 DEF IsTypedHistory
  <2> QED
    BY <2>1, <2>2
<1>6. ASSUME NEW j \in 1 .. n + 1, NEW k \in 1 .. n + 1, j < k, SameCell(longer, j, k),
             \A l \in 1 .. n + 1 : SameCell(longer, l, k) => ~(j < l /\ l < k)
      PROVE  longer[k].old_value = longer[j].new_value
  <2>0. j \in 1 .. n
    BY <1>6
  <2>1. CASE k = n + 1
    <3>1. j \in on /\ on \in SUBSET (0 .. n)
      BY <1>6, <2>0, <2>1
    <3>2. Max(on) \in on /\ j <= Max(on)
      <4> HIDE DEF on
      <4> QED
        BY <3>1, MaxIs
    <3>3. PICK m \in 1 .. n : m = Max(on) /\ SameCell(longer, m, n + 1)
      BY <3>2
    <3>4. m = j
      BY <1>6, <2>0, <2>1, <3>2, <3>3
    <3> HIDE DEF on
    <3> QED
      BY <1>2, <1>3, <2>1, <3>1, <3>3, <3>4
  <2>2. CASE k # n + 1
    <3>1. k \in 1 .. n /\ SameCell(log, j, k) /\ \A l \in 1 .. n : SameCell(log, l, k) => ~(j < l /\ l < k)
      BY <1>4, <1>6, <2>0, <2>2
    <3> QED
      BY <1>1, <1>2, <1>6, <2>0, <3>1 DEF IsTypedHistory
  <2> QED
    BY <2>1, <2>2
<1> QED
  BY <1>2, <1>5, <1>6 DEF IsTypedHistory

(***************************************************************************)
(* The inductive invariant.                                                *)
(***************************************************************************)
\* The log is in the order of its timestamps, all of them past.
LogInOrder == \E S : IsTypedLog(log, S) /\ \A o \in S : o.timestamp < clock

\* An operation finds what its cell holds, and its address is a u32.
LogOfCells ==
  IsTypedHistory(log) /\ \A k \in 1 .. Len(log) : log[k].address <= 2 ^ (LimbBits * NumLimbs) - 1

\* The tables are those of the log, which has not changed since.
TablesOfLog ==
  Built => /\ log # <<>>
           /\ tables = [memory       |-> TypedTable(log),
                        u32_lt       |-> U32Table(TypedAddressLtEntries(log)),
                        timestamp_lt |-> TimestampTable(TypedTimestampLtEntries(log)),
                        bytes_lt     |-> BytesLtMults(log)]

ComparisonInv == clock \in 0 .. MaxTime /\ LogInOrder /\ LogOfCells /\ TablesOfLog

\* It holds in every run.
LEMMA ComparisonSound == ComparisonSpec => []ComparisonInv
<1>0. MaxTime \in Nat
  BY FieldAssumption
<1>1. ComparisonInit => ComparisonInv
  <2> SUFFICES ASSUME ComparisonInit PROVE ComparisonInv
    OBVIOUS
  <2>1. log = <<>> /\ clock = 0 /\ ~Built
    BY DEF ComparisonInit, Built
  <2>2. IsTypedLog(log, {})
    BY <2>1 DEF IsTypedLog
  <2>3. LogInOrder
    BY <2>2 DEF LogInOrder
  <2>4. LogOfCells
    <3>1. Len(log) = 0
      BY <2>1
    <3> QED
      BY <3>1 DEF LogOfCells, IsTypedHistory
  <2> QED
    BY <1>0, <2>1, <2>3, <2>4 DEF ComparisonInv, TablesOfLog
<1>2. ComparisonInv /\ [ComparisonNext]_comparisonVars => ComparisonInv'
  <2> SUFFICES ASSUME ComparisonInv, [ComparisonNext]_comparisonVars PROVE ComparisonInv'
    OBVIOUS
  <2>0. clock \in 0 .. MaxTime /\ LogInOrder /\ LogOfCells /\ TablesOfLog
    BY DEF ComparisonInv
  <2>1. PICK S : IsTypedLog(log, S) /\ \A o \in S : o.timestamp < clock
    BY <2>0 DEF LogInOrder
  <2>2. CASE LogOperation
    <3>1. /\ stage = "running" /\ clock < MaxTime /\ clock' = clock + 1
          /\ stage' = stage /\ tables' = tables
      BY <2>2 DEF LogOperation
    <3>2. PICK c \in Cells, new \in Values :
            log' = Append(log, [memory_type |-> c[1], address |-> c[2], timestamp |-> clock,
                                old_value |-> Held(c), new_value |-> new])
      BY <2>2 DEF LogOperation
    <3>3. PICK op : op = [memory_type |-> c[1], address |-> c[2], timestamp |-> clock,
                          old_value |-> Held(c), new_value |-> new]
      OBVIOUS
    <3>4. /\ op.memory_type \in {Register, Ram} /\ op.address \in Nat /\ op.timestamp = clock
      <4>1. c[1] \in {Register, Ram} /\ c[2] \in 0 .. 2 ^ (LimbBits * NumLimbs) - 1
        BY FieldAssumption
      <4>2. c[2] \in Nat
        BY <4>1, Constants
      <4> QED
        BY <3>3, <4>1, <4>2
    <3>5. log' = Append(log, op)
      BY <3>2, <3>3
    <3>6. /\ log \in Seq(S)
          /\ \A o \in S : o.memory_type \in {Register, Ram} /\ o.address \in Nat /\ o.timestamp \in Nat
          /\ \A j, k \in 1 .. Len(log) : j < k => log[j].timestamp < log[k].timestamp
      BY <2>1 DEF IsTypedLog
    <3>7. IsTypedLog(log', S \cup {op})
      <4>1. log \in Seq(S \cup {op}) /\ op \in S \cup {op}
        BY <3>6
      <4>2. log' \in Seq(S \cup {op})
        BY <3>5, <4>1
      <4>3. /\ Len(log') = Len(log) + 1 /\ log'[Len(log) + 1] = op
            /\ \A k \in 1 .. Len(log) : log'[k] = log[k] /\ log[k] \in S
        BY <3>5, <3>6
      <4>4. ASSUME NEW j \in 1 .. Len(log'), NEW k \in 1 .. Len(log'), j < k
            PROVE  log'[j].timestamp < log'[k].timestamp
        <5>1. Len(log) \in Nat /\ j \in 1 .. Len(log)
          BY <3>6, <4>3, <4>4
        <5>2. log'[j] = log[j] /\ log[j].timestamp < clock
          BY <2>1, <4>3, <5>1
        <5>3. CASE k = Len(log) + 1
          BY <3>4, <4>3, <5>2, <5>3
        <5>4. CASE k # Len(log) + 1
          <6>1. k \in 1 .. Len(log)
            BY <4>3, <5>1, <5>4
          <6> QED
            BY <3>6, <4>3, <4>4, <5>1, <6>1
        <5> QED
          BY <5>3, <5>4
      <4>5. clock \in Nat
        BY <1>0, <2>0
      <4> QED
        BY <3>4, <3>6, <4>2, <4>4, <4>5 DEF IsTypedLog
    <3>8. \A o \in S \cup {op} : o.timestamp < clock'
      <4>1. ASSUME NEW o \in S PROVE o.timestamp < clock'
        <5>1. o.timestamp \in Nat /\ o.timestamp < clock /\ clock \in Nat
          BY <1>0, <2>0, <2>1, <3>6
        <5> QED
          BY <3>1, <5>1
      <4>2. op.timestamp < clock'
        BY <1>0, <2>0, <3>1, <3>4
      <4> QED
        BY <4>1, <4>2
    <3>9. LogInOrder'
      BY <3>7, <3>8 DEF LogInOrder
    <3>10. LogOfCells'
      <4>1. c = <<op.memory_type, op.address>> /\ op.old_value = Held(c)
            /\ op.address <= 2 ^ (LimbBits * NumLimbs) - 1
        <5>1. c \in {Register, Ram} \X (0 .. 2 ^ (LimbBits * NumLimbs) - 1)
          BY FieldAssumption
        <5>2. c = <<c[1], c[2]>> /\ c[2] \in 0 .. 2 ^ (LimbBits * NumLimbs) - 1
          BY <5>1
        <5> QED
          BY <3>3, <5>2
      <4>2. IsTypedHistory(log')
        BY <2>0, <3>5, <3>6, <4>1, HistoryKept DEF LogOfCells
      <4>3. ASSUME NEW k \in 1 .. Len(log')
            PROVE  log'[k].address <= 2 ^ (LimbBits * NumLimbs) - 1
        <5>1. /\ Len(log) \in Nat /\ Len(log') = Len(log) + 1 /\ log'[Len(log) + 1] = op
              /\ \A j \in 1 .. Len(log) : log'[j] = log[j]
          BY <3>5, <3>6
        <5>2. CASE k = Len(log) + 1
          BY <4>1, <5>1, <5>2
        <5>3. CASE k # Len(log) + 1
          <6>1. k \in 1 .. Len(log)
            BY <5>1, <5>3
          <6> QED
            BY <2>0, <5>1, <6>1 DEF LogOfCells
        <5> QED
          BY <5>2, <5>3
      <4> QED
        BY <4>2, <4>3 DEF LogOfCells
    <3>11. TablesOfLog'
      BY <3>1 DEF TablesOfLog, Built
    <3> QED
      BY <1>0, <2>0, <3>1, <3>9, <3>10, <3>11 DEF ComparisonInv
  <2>3. CASE LogNothing
    <3>1. /\ stage = "running" /\ clock < MaxTime /\ clock' = clock + 1
          /\ stage' = stage /\ log' = log
      BY <2>3 DEF LogNothing
    <3>2. \A o \in S : o.timestamp < clock'
      <4>1. ASSUME NEW o \in S PROVE o.timestamp < clock'
        <5>1. o.timestamp \in Nat /\ o.timestamp < clock /\ clock \in Nat
          BY <1>0, <2>0, <2>1 DEF IsTypedLog
        <5> QED
          BY <3>1, <5>1
      <4> QED
        BY <4>1
    <3>3. IsTypedLog(log', S)
      BY <2>1, <3>1
    <3>4. LogInOrder'
      BY <3>2, <3>3 DEF LogInOrder
    <3>5. LogOfCells'
      BY <2>0, <3>1 DEF LogOfCells
    <3>6. TablesOfLog'
      BY <3>1 DEF TablesOfLog, Built
    <3> QED
      BY <1>0, <2>0, <3>1, <3>4, <3>5, <3>6 DEF ComparisonInv
  <2>4. CASE BuildTraces
    <3>1. /\ log # <<>> /\ log' = log /\ clock' = clock
          /\ tables' = [memory       |-> TypedTable(log),
                        u32_lt       |-> U32Table(TypedAddressLtEntries(log)),
                        timestamp_lt |-> TimestampTable(TypedTimestampLtEntries(log)),
                        bytes_lt     |-> BytesLtMults(log)]
      BY <2>4 DEF BuildTraces
    <3>2. LogInOrder'
      BY <2>0, <3>1 DEF LogInOrder
    <3>3. log' # <<>> /\ tables' = [memory       |-> TypedTable(log'),
                        u32_lt       |-> U32Table(TypedAddressLtEntries(log')),
                        timestamp_lt |-> TimestampTable(TypedTimestampLtEntries(log')),
                        bytes_lt     |-> BytesLtMults(log')]
      BY <3>1
    <3>4. TablesOfLog'
      BY <3>3, Zenon DEF TablesOfLog
    <3>5. LogOfCells'
      BY <2>0, <3>1 DEF LogOfCells
    <3> QED
      BY <2>0, <3>1, <3>2, <3>4, <3>5 DEF ComparisonInv
  <2>5. CASE RefuseTimestamp
    <3>1. stage' = "refused" /\ log' = log /\ clock' = clock
      BY <2>5 DEF RefuseTimestamp
    <3>2. LogInOrder'
      BY <2>0, <3>1 DEF LogInOrder
    <3>3. TablesOfLog'
      BY <3>1 DEF TablesOfLog, Built
    <3>4. LogOfCells'
      BY <2>0, <3>1 DEF LogOfCells
    <3> QED
      BY <2>0, <3>1, <3>2, <3>3, <3>4 DEF ComparisonInv
  <2>6. CASE UNCHANGED comparisonVars
    <3>1. log' = log /\ clock' = clock /\ stage' = stage /\ tables' = tables
      BY <2>6 DEF comparisonVars
    <3>2. LogInOrder'
      BY <2>0, <3>1 DEF LogInOrder
    <3>3. TablesOfLog'
      BY <2>0, <3>1, Zenon DEF TablesOfLog, Built
    <3>4. LogOfCells'
      BY <2>0, <3>1 DEF LogOfCells
    <3> QED
      BY <2>0, <3>1, <3>2, <3>3, <3>4 DEF ComparisonInv
  <2> QED
    BY <2>2, <2>3, <2>4, <2>5, <2>6 DEF ComparisonNext
<1> QED
  BY <1>1, <1>2, PTL DEF ComparisonSpec

(***************************************************************************)
(* The rows of the tables.                                                 *)
(***************************************************************************)
\* Row k of the address table compares an entry; the padding rows 0 and 0.
LEMMA U32TableRows ==
  ASSUME ComparisonInv, Built, NEW k \in DOMAIN tables.u32_lt
  PROVE  \E a \in Nat, b \in Nat : Orders(tables.u32_lt[k], LimbsOf(a), LimbsOf(b))
<1>1. PICK S : IsTypedLog(log, S)
  BY DEF ComparisonInv, LogInOrder
<1>2. log # <<>> /\ tables.u32_lt = U32Table(TypedAddressLtEntries(log))
  BY DEF ComparisonInv, TablesOfLog
<1>3. PICK es : es = TypedAddressLtEntries(log) /\ es \in Seq(Nat \X Nat)
  BY <1>1, <1>2, AddressEntries
<1>4. NumRows(Len(es)) \in Nat
  BY <1>3, NumRowsFit
<1>5. k \in 1 .. NumRows(Len(es))
      /\ tables.u32_lt[k] = IF k <= Len(es) THEN U32Row(es[k]) ELSE U32Padding
  BY <1>2, <1>3 DEF U32Table
<1>6. CASE k <= Len(es)
  <2>1. k \in 1 .. Len(es)
    BY <1>3, <1>4, <1>5, <1>6
  <2>2. PICK a \in Nat, b \in Nat : es[k] = <<a, b>>
    <3>1. es[k] \in Nat \X Nat
      BY <1>3, <2>1
    <3> QED
      BY <3>1
  <2> QED
    BY <1>5, <1>6, <2>2, U32RowOrders
<1>7. CASE ~(k <= Len(es))
  <2>1. tables.u32_lt[k] = [U32Row(<<0, 0>>) EXCEPT !.mult = 0]
    BY <1>5, <1>7 DEF U32Padding
  <2>2. Orders([U32Row(<<0, 0>>) EXCEPT !.mult = 0], LimbsOf(0), LimbsOf(0))
    BY U32RowOrders
  <2> QED
    BY <2>1, <2>2
<1> QED
  BY <1>6, <1>7

\* Row k of the timestamp table compares an entry; the padding rows 0 and 0.
LEMMA TimestampTableRows ==
  ASSUME ComparisonInv, Built, NEW k \in DOMAIN tables.timestamp_lt
  PROVE  LET es == TypedTimestampLtEntries(log)
         IN  \E x \in Nat, y \in Nat :
               /\ x < P * 2 ^ TsBits /\ y < P * 2 ^ TsBits
               /\ Compares(tables.timestamp_lt[k], x, y)
               /\ IF k <= Len(es) THEN es[k] = <<x, y>> ELSE x = 0 /\ y = 0
<1>0. PICK bound \in Nat : bound = clock /\ bound <= MaxTime
  BY FieldAssumption DEF ComparisonInv
<1>1. PICK S : IsTypedLog(log, S) /\ \A o \in S : o.timestamp < bound
  BY <1>0 DEF ComparisonInv, LogInOrder
<1>2. log # <<>> /\ tables.timestamp_lt = TimestampTable(TypedTimestampLtEntries(log))
  BY DEF ComparisonInv, TablesOfLog
<1>3. PICK es : es = TypedTimestampLtEntries(log) /\ es \in Seq((0 .. bound - 1) \X (0 .. bound - 1))
  BY <1>1, <1>2, TimestampEntries
<1>4. NumRows(Len(es)) \in Nat
  BY <1>3, NumRowsFit
<1>5. k \in 1 .. NumRows(Len(es))
      /\ tables.timestamp_lt[k] = IF k <= Len(es) THEN TimestampRow(es[k]) ELSE TimestampPadding
  BY <1>2, <1>3 DEF TimestampTable
<1>6. PICK top \in Nat \ {0} : top = P * 2 ^ TsBits /\ bound <= top
  <2>1. P \in Nat \ {0, 1} /\ 2 ^ TsBits \in Nat \ {0} /\ MaxTime \in Nat /\ MaxTime <= P * 2 ^ TsBits
    BY Constants
  <2>2. PICK t \in Nat \ {0} : t = 2 ^ TsBits
    BY <2>1
  <2>3. P * t \in Nat \ {0}
    BY <2>1
  <2> QED
    BY <1>0, <2>1, <2>2, <2>3
<1>7. CASE k <= Len(es)
  <2>1. k \in 1 .. Len(es)
    BY <1>3, <1>4, <1>5, <1>7
  <2>2. PICK x \in 0 .. bound - 1, y \in 0 .. bound - 1 : es[k] = <<x, y>>
    <3>1. es[k] \in (0 .. bound - 1) \X (0 .. bound - 1)
      BY <1>3, <2>1
    <3> QED
      BY <3>1
  <2>3. x \in Nat /\ y \in Nat /\ x < top /\ y < top
    BY <1>6
  <2>4. Compares(tables.timestamp_lt[k], x, y)
    BY <1>5, <1>7, <2>2, TimestampRowCompares
  <2> QED
    BY <1>3, <1>6, <1>7, <2>2, <2>3, <2>4
<1>8. CASE ~(k <= Len(es))
  <2>1. tables.timestamp_lt[k] = [TimestampRow(<<0, 0>>) EXCEPT !.mult = 0]
    BY <1>5, <1>8 DEF TimestampPadding
  <2>2. Compares(tables.timestamp_lt[k], 0, 0)
    BY <2>1, TimestampRowCompares
  <2> QED
    BY <1>3, <1>6, <1>8, <2>2
<1> QED
  BY <1>7, <1>8

\* Whatever the log, each row of the address table satisfies its AIR.
THEOREM ComparisonU32RowsAccepted == ComparisonSpec => []U32RowsAccepted
<1>1. ComparisonInv => U32RowsAccepted
  <2> SUFFICES ASSUME ComparisonInv, Built, NEW k \in DOMAIN tables.u32_lt
               PROVE  U32Accepts(tables.u32_lt[k])
    BY DEF U32RowsAccepted
  <2>1. PICK a \in Nat, b \in Nat : Orders(tables.u32_lt[k], LimbsOf(a), LimbsOf(b))
    BY U32TableRows
  <2> QED
    BY <2>1, LimbsOfIsWord, U32Decides
<1> QED
  BY <1>1, ComparisonSound, PTL

\* Whatever the log, a row of the timestamp table is accepted exactly when its
\* timestamps fit.
THEOREM ComparisonTimestampRowsAccepted == ComparisonSpec => []TimestampRowsAccepted
<1>1. ComparisonInv => TimestampRowsAccepted
  <2> SUFFICES ASSUME ComparisonInv, Built, NEW k \in DOMAIN tables.timestamp_lt
               PROVE  LET es == TypedTimestampLtEntries(log)
                      IN  TimestampAccepts(tables.timestamp_lt[k]) <=> (k <= Len(es) => Fits(es[k]))
    BY DEF TimestampRowsAccepted
  <2>1. PICK es : es = TypedTimestampLtEntries(log)
    OBVIOUS
  <2>2. PICK x \in Nat, y \in Nat :
          /\ x < P * 2 ^ TsBits /\ y < P * 2 ^ TsBits
          /\ Compares(tables.timestamp_lt[k], x, y)
          /\ IF k <= Len(es) THEN es[k] = <<x, y>> ELSE x = 0 /\ y = 0
    BY <2>1, TimestampTableRows
  <2>3. TimestampAccepts(tables.timestamp_lt[k]) <=> x < 2 ^ TsBits /\ y < 2 ^ TsBits
    BY <2>2, TimestampDecides
  <2>4. CASE k <= Len(es)
    BY <2>1, <2>2, <2>3, <2>4 DEF Fits
  <2>5. CASE ~(k <= Len(es))
    <3>1. 0 < 2 ^ TsBits
      BY Constants
    <3> QED
      BY <2>1, <2>2, <2>3, <2>5, <3>1
  <2> QED
    BY <2>4, <2>5
<1> QED
  BY <1>1, ComparisonSound, PTL

\* The other rows for the operands of an address row are words and field
\* elements.
LEMMA U32AlteredTypes ==
  ASSUME NEW row, IsWord(row.x), IsWord(row.y),
         DOMAIN row = {"x", "y", "inverses", "is_equals", "mult_lts", "is_equal", "mult"},
         NEW r \in U32Altered(row)
  PROVE  /\ IsWord(r.x) /\ IsWord(r.y) /\ r.inverses \in [Limb -> Field]
         /\ r.is_equals \in [Limb -> Field] /\ r.mult_lts \in [Limb -> {0, 1}]
<1>1. PICK p \in {<<row.x, row.y>>, <<row.y, row.x>>}, inv \in [Limb -> Field], m \in [Limb -> {0, 1}] :
        r = U32With(row, p, inv, m)
  BY DEF U32Altered
<1>2. r.x = p[1] /\ r.y = p[2] /\ r.inverses = inv /\ r.mult_lts = m
  BY <1>1 DEF U32With
<1>3. r.is_equals = [i \in Limb |-> (inv[i] * (p[2][i] - p[1][i]) + 1) % P]
  BY <1>1 DEF U32With
<1>4. IsWord(r.x) /\ IsWord(r.y)
  BY <1>1, <1>2
<1>5. ASSUME NEW i \in Limb
      PROVE  (inv[i] * (p[2][i] - p[1][i]) + 1) % P \in Field
  <2>1. PICK u \in Int, v \in Int : u = r.x[i] /\ v = r.y[i]
    BY <1>4, Constants DEF IsWord
  <2>2. inv[i] \in Int /\ P \in Nat \ {0, 1}
    BY Constants DEF Field
  <2>3. PICK w \in Int : w = inv[i] * (v - u) + 1
    BY <2>1, <2>2
  <2>4. w % P \in 0 .. P - 1
    BY <2>2
  <2> QED
    BY <1>2, <2>1, <2>3, <2>4 DEF Field
<1> QED
  BY <1>2, <1>3, <1>4, <1>5

\* So are those of a timestamp row.
LEMMA TimestampAlteredTypes ==
  ASSUME NEW row, NEW x \in Nat, NEW y \in Nat, Compares(row, x, y),
         DOMAIN row = {"x", "y", "x_bits", "y_bits", "v_bits", "diff_inv", "is_equal", "mult"},
         NEW r \in TimestampAltered(row)
  PROVE  /\ r.x \in Field /\ r.y \in Field /\ r.diff_inv \in Field /\ r.is_equal \in Field
         /\ BitsBelow(r.x_bits, TsBits) /\ BitsBelow(r.y_bits, TsBits)
         /\ BitsBelow(r.v_bits, TsBits + 1)
<1>0. P \in Nat \ {0, 1} /\ TsBits \in Nat
  BY Constants
<1> DEFINE X == [v |-> row.x, bits |-> row.x_bits]
           Y == [v |-> row.y, bits |-> row.y_bits]
<1>1. PICK p \in {<<X, Y>>, <<Y, X>>}, inv \in Field, v \in [0 .. TsBits -> {0, 1}] :
        r = TimestampWith(row, p, inv, v)
  BY DEF TimestampAltered
<1>2. /\ r.x = p[1].v /\ r.y = p[2].v /\ r.x_bits = p[1].bits /\ r.y_bits = p[2].bits
      /\ r.diff_inv = inv /\ r.v_bits = v
      /\ r.is_equal = (inv * (p[1].v - p[2].v) + 1) % P
  BY <1>1 DEF TimestampWith
<1>3. row.x \in Field /\ row.y \in Field
  <2>1. x % P \in 0 .. P - 1 /\ y % P \in 0 .. P - 1
    BY <1>0
  <2> QED
    BY <2>1 DEF Compares, Field
<1>4. BitsBelow(row.x_bits, TsBits) /\ BitsBelow(row.y_bits, TsBits)
  BY <1>0, BitsOfValue DEF Compares
<1>5. /\ r.x \in Field /\ r.y \in Field
      /\ BitsBelow(r.x_bits, TsBits) /\ BitsBelow(r.y_bits, TsBits)
  BY <1>1, <1>2, <1>3, <1>4
<1>6. r.is_equal \in Field
  <2>1. PICK w \in Int : w = inv * (r.x - r.y) + 1
    BY <1>5 DEF Field
  <2>2. w % P \in 0 .. P - 1
    BY <1>0
  <2> QED
    BY <1>2, <2>1, <2>2 DEF Field
<1>7. BitsBelow(r.v_bits, TsBits + 1)
  BY <1>0, <1>2 DEF BitsBelow
<1> QED
  BY <1>2, <1>5, <1>6, <1>7

\* Whoever makes the rows, an accepted one is about a true comparison.
THEOREM ComparisonTablesForced == ComparisonSpec => []ComparisonForced
<1>1. ComparisonInv => ComparisonForced
  <2> SUFFICES ASSUME ComparisonInv, Built PROVE ComparisonForced
    BY DEF ComparisonForced
  <2>1. ASSUME NEW row \in ToSet(tables.u32_lt), NEW r \in U32Altered(row), U32Accepts(r),
               \A n \in DOMAIN U32Sends(r) : U32Sends(r)[n] \in ToSet(BytePairs)
        PROVE  /\ ValueOfLimbs(r.x) <= ValueOfLimbs(r.y)
               /\ r.is_equal = 1 <=> r.x = r.y
    <3>1. PICK k \in DOMAIN tables.u32_lt : row = tables.u32_lt[k]
      BY DEF ToSet
    <3>2. IsWord(row.x) /\ IsWord(row.y)
      <4>1. PICK a \in Nat, b \in Nat : Orders(row, LimbsOf(a), LimbsOf(b))
        BY <3>1, U32TableRows
      <4> QED
        BY <4>1, LimbsOfIsWord DEF Orders
    <3>3. DOMAIN row = {"x", "y", "inverses", "is_equals", "mult_lts", "is_equal", "mult"}
      <4>1. PICK es : es = TypedAddressLtEntries(log) /\ tables.u32_lt = U32Table(es)
        BY DEF ComparisonInv, TablesOfLog
      <4>2. row = U32Row(es[k]) \/ row = [U32Row(<<0, 0>>) EXCEPT !.mult = 0]
        BY <3>1, <4>1 DEF U32Table, U32Padding
      <4> QED
        BY <4>2 DEF U32Row
    <3>4. /\ IsWord(r.x) /\ IsWord(r.y) /\ r.inverses \in [Limb -> Field]
          /\ r.is_equals \in [Limb -> Field] /\ r.mult_lts \in [Limb -> {0, 1}]
      BY <3>2, <3>3, U32AlteredTypes
    <3> QED
      BY <2>1, <3>4, U32Forced
  <2>2. ASSUME NEW row \in ToSet(tables.timestamp_lt), NEW r \in TimestampAltered(row),
               TimestampAccepts(r)
        PROVE  /\ r.is_equal = 1 <=> r.x = r.y
               /\ r.v_bits[TsBits] = 0 <=> r.x < r.y
    <3>1. PICK k \in DOMAIN tables.timestamp_lt : row = tables.timestamp_lt[k]
      BY DEF ToSet
    <3>2. PICK x \in Nat, y \in Nat : Compares(row, x, y)
      BY <3>1, TimestampTableRows
    <3>3. DOMAIN row = {"x", "y", "x_bits", "y_bits", "v_bits", "diff_inv", "is_equal", "mult"}
      <4>1. PICK es : es = TypedTimestampLtEntries(log) /\ tables.timestamp_lt = TimestampTable(es)
        BY DEF ComparisonInv, TablesOfLog
      <4>2. row = TimestampRow(es[k]) \/ row = [TimestampRow(<<0, 0>>) EXCEPT !.mult = 0]
        BY <3>1, <4>1 DEF TimestampTable, TimestampPadding
      <4> QED
        BY <4>2 DEF TimestampRow
    <3>4. /\ r.x \in Field /\ r.y \in Field /\ r.diff_inv \in Field /\ r.is_equal \in Field
          /\ BitsBelow(r.x_bits, TsBits) /\ BitsBelow(r.y_bits, TsBits)
          /\ BitsBelow(r.v_bits, TsBits + 1)
      BY <3>2, <3>3, TimestampAlteredTypes
    <3> QED
      BY <2>2, <3>4, TimestampForced
  <2> QED
    BY <2>1, <2>2, Zenon DEF ComparisonForced
<1> QED
  BY <1>1, ComparisonSound, PTL

(***************************************************************************)
(* The tables the AIR of the memory accepts.                               *)
(***************************************************************************)
\* The row of every operation, the padding rows and the flags.
LEMMA TypedTableRows ==
  ASSUME NEW S, NEW ops, IsTypedLog(ops, S), NEW at, TypedSorts(ops, at)
  PROVE  LET n == Len(ops)
             N == NumRows(n)
             t == TypedTable(ops)
         IN  /\ n \in Nat /\ N \in Nat /\ N >= n /\ N >= 1
             /\ Len(t) = N /\ DOMAIN t = 1 .. N
             /\ \A i \in 1 .. n :
                  /\ at[i] \in 1 .. n
                  /\ ~t[i].is_padding
                  /\ t[i].memory_type = ops[at[i]].memory_type
                  /\ t[i].address = ops[at[i]].address
                  /\ t[i].timestamp = ops[at[i]].timestamp
                  /\ t[i].read = ops[at[i]].old_value
                  /\ t[i].write = ops[at[i]].new_value
             /\ \A i \in n + 1 .. N :
                  /\ t[i].is_padding /\ t[i].memory_type = 0 /\ t[i].address = 0
                  /\ t[i].read = 0 /\ t[i].write = 0
             /\ \A i \in 1 .. N - 1 :
                  /\ t[i].is_memory_type_equal = (t[i].memory_type = t[i + 1].memory_type)
                  /\ t[i].is_address_equal = (t[i].address = t[i + 1].address)
                  /\ t[i].is_timestamp_equal = (t[i].timestamp = t[i + 1].timestamp)
<1> DEFINE n == Len(ops)
           N == NumRows(n)
           rows == TypedRows(ops)
           t == TypedTable(ops)
           Plain(r) == <<r.is_padding, r.memory_type, r.address, r.timestamp, r.read, r.write>>
<1>1. n \in Nat /\ N \in Nat /\ N >= n /\ N >= 1
  BY NumRowsFit DEF IsTypedLog
<1>2. rows = [i \in 1 .. N |->
                IF i <= n THEN RealRow(TypedSorted(ops)[i]) ++ [memory_type |-> TypedSorted(ops)[i].memory_type]
                          ELSE PaddingRow ++ [memory_type |-> Register]]
  BY DEF TypedRows
<1>3. DOMAIN rows = 1 .. N /\ Len(rows) = N
  BY <1>1, <1>2
<1> HIDE DEF rows
<1>4. ASSUME NEW i \in 1 .. N - 1
      PROVE  /\ t[i].is_memory_type_equal = (rows[i].memory_type = rows[i + 1].memory_type)
             /\ t[i].is_address_equal = (rows[i].address = rows[i + 1].address)
             /\ t[i].is_timestamp_equal = (rows[i].timestamp = rows[i + 1].timestamp)
  <2>1. i \in 1 .. N /\ i < N /\ i < Len(rows)
    BY <1>1, <1>3
  <2>2. t[i] = [is_memory_type_equal |-> i < Len(rows) /\ rows[i].memory_type = rows[i + 1].memory_type,
                is_address_equal     |-> i < Len(rows) /\ rows[i].address = rows[i + 1].address,
                is_timestamp_equal   |-> i < Len(rows) /\ rows[i].timestamp = rows[i + 1].timestamp] ++ rows[i]
    BY <1>3, <2>1 DEF TypedTable, rows
  <2>3. PICK c : c = rows[i + 1]
    OBVIOUS
  <2>4. PICK r : r = rows[i]
    OBVIOUS
  <2> HIDE DEF t
  <2> QED
    BY <2>1, <2>2, <2>3, <2>4 DEF ++
<1>5. ASSUME NEW i \in 1 .. N
      PROVE  {"is_padding", "memory_type", "address", "timestamp", "read", "write"} \subseteq DOMAIN rows[i]
  <2>1. PICK o : o = TypedSorted(ops)[i]
    OBVIOUS
  <2>2. rows[i] = RealRow(o) ++ [memory_type |-> o.memory_type]
        \/ rows[i] = PaddingRow ++ [memory_type |-> Register]
    BY <1>2, <2>1
  <2> QED
    BY <2>2 DEF ++, RealRow, PaddingRow
<1>6. ASSUME NEW i \in 1 .. N
      PROVE  Plain(t[i]) = Plain(rows[i])
  <2>1. PICK a, b, c : t[i] = [is_memory_type_equal |-> a, is_address_equal |-> b, is_timestamp_equal |-> c] ++ rows[i]
    BY <1>3 DEF TypedTable, rows
  <2>2. PICK r : r = rows[i]
    OBVIOUS
  <2>3. {"is_padding", "memory_type", "address", "timestamp", "read", "write"} \subseteq DOMAIN r
    BY <1>5, <2>2
  <2> HIDE DEF t
  <2> QED
    BY <2>1, <2>2, <2>3 DEF ++
<1>7. ASSUME NEW i \in 1 .. n
      PROVE  /\ at[i] \in 1 .. n /\ i \in 1 .. N
             /\ ~rows[i].is_padding
             /\ rows[i].memory_type = ops[at[i]].memory_type
             /\ rows[i].address = ops[at[i]].address
             /\ rows[i].timestamp = ops[at[i]].timestamp
             /\ rows[i].read = ops[at[i]].old_value
             /\ rows[i].write = ops[at[i]].new_value
  <2>1. at[i] \in 1 .. n /\ TypedSorted(ops)[i] = ops[at[i]]
    BY DEF TypedSorts, Bijection, Injection
  <2>2. i \in 1 .. N /\ i <= n
    BY <1>1
  <2>3. PICK o : o = ops[at[i]]
    OBVIOUS
  <2>4. rows[i] = RealRow(o) ++ [memory_type |-> o.memory_type]
    BY <1>2, <2>1, <2>2, <2>3
  <2> QED
    BY <2>1, <2>2, <2>3, <2>4 DEF ++, RealRow
<1>8. ASSUME NEW i \in n + 1 .. N
      PROVE  /\ rows[i].is_padding /\ rows[i].memory_type = 0 /\ rows[i].address = 0
             /\ rows[i].read = 0 /\ rows[i].write = 0
  <2>1. rows[i] = PaddingRow ++ [memory_type |-> Register]
    BY <1>1, <1>2
  <2> QED
    BY <2>1 DEF ++, PaddingRow, Register
<1>9. Len(t) = N /\ DOMAIN t = 1 .. N
  BY <1>1, <1>3 DEF TypedTable, rows
<1>10. ASSUME NEW i \in 1 .. N
       PROVE  /\ t[i].is_padding = rows[i].is_padding /\ t[i].memory_type = rows[i].memory_type
              /\ t[i].address = rows[i].address /\ t[i].timestamp = rows[i].timestamp
              /\ t[i].read = rows[i].read /\ t[i].write = rows[i].write
  <2> HIDE DEF t
  <2> QED
    BY <1>6
<1> HIDE DEF t, N, rows
<1>11. \A i \in 1 .. N - 1 : i \in 1 .. N /\ i + 1 \in 1 .. N
  BY <1>1
<1>12. \A i \in n + 1 .. N : i \in 1 .. N
  BY <1>1
<1>13. ASSUME NEW i \in 1 .. N - 1
       PROVE  /\ t[i].is_memory_type_equal = (t[i].memory_type = t[i + 1].memory_type)
              /\ t[i].is_address_equal = (t[i].address = t[i + 1].address)
              /\ t[i].is_timestamp_equal = (t[i].timestamp = t[i + 1].timestamp)
  BY <1>4, <1>10, <1>11
<1>14. ASSUME NEW i \in 1 .. n
       PROVE  /\ at[i] \in 1 .. n
              /\ ~t[i].is_padding
              /\ t[i].memory_type = ops[at[i]].memory_type
              /\ t[i].address = ops[at[i]].address
              /\ t[i].timestamp = ops[at[i]].timestamp
              /\ t[i].read = ops[at[i]].old_value
              /\ t[i].write = ops[at[i]].new_value
  BY <1>7, <1>10
<1>15. ASSUME NEW i \in n + 1 .. N
       PROVE  /\ t[i].is_padding /\ t[i].memory_type = 0 /\ t[i].address = 0
              /\ t[i].read = 0 /\ t[i].write = 0
  BY <1>8, <1>10, <1>12
<1> QED
  BY <1>1, <1>9, <1>13, <1>14, <1>15 DEF t, N

\* Place i of the table has the last register, place i + 1 the first cell of
\* RAM, and they have the same address.
Crosses(ops, at, i) ==
  /\ ops[at[i]].memory_type # ops[at[i + 1]].memory_type
  /\ ops[at[i]].address = ops[at[i + 1]].address

\* The AIR accepts the table of a history exactly if no value is carried over
\* from the registers to RAM, and none from the last operation to the padding,
\* which may only follow a register.
LEMMA TypedHistoryAccepted ==
  ASSUME NEW S, NEW ops, IsTypedLog(ops, S), ops # <<>>, IsTypedHistory(ops),
         NEW at, TypedSorts(ops, at)
  PROVE  LET n == Len(ops)
         IN  TypedAccepts(TypedTable(ops)) <=>
               /\ \A i \in 1 .. n - 1 : Crosses(ops, at, i) => ops[at[i]].new_value = 0
               /\ NumRows(n) > n => /\ ops[at[n]].memory_type = Register
                                    /\ ops[at[n]].address = 0 => ops[at[n]].new_value = 0
<1> DEFINE n == Len(ops)
           N == NumRows(n)
           t == TypedTable(ops)
<1>1. /\ n \in Nat /\ N \in Nat /\ N >= n /\ N >= 1
      /\ Len(t) = N /\ DOMAIN t = 1 .. N
      /\ \A i \in n + 1 .. N :
           /\ t[i].is_padding /\ t[i].memory_type = 0 /\ t[i].address = 0
           /\ t[i].read = 0 /\ t[i].write = 0
      /\ \A i \in 1 .. N - 1 :
           /\ t[i].is_memory_type_equal = (t[i].memory_type = t[i + 1].memory_type)
           /\ t[i].is_address_equal = (t[i].address = t[i + 1].address)
  BY TypedTableRows
<1>f. \A i \in 1 .. N - 1 :
        /\ t[i].is_memory_type_equal <=> t[i].memory_type = t[i + 1].memory_type
        /\ t[i].is_address_equal <=> t[i].address = t[i + 1].address
  <2> HIDE DEF t, N, n
  <2> SUFFICES ASSUME NEW i \in 1 .. N - 1
               PROVE  /\ t[i].is_memory_type_equal <=> t[i].memory_type = t[i + 1].memory_type
                      /\ t[i].is_address_equal <=> t[i].address = t[i + 1].address
    OBVIOUS
  <2>1. /\ t[i].is_memory_type_equal = (t[i].memory_type = t[i + 1].memory_type)
        /\ t[i].is_address_equal = (t[i].address = t[i + 1].address)
    BY <1>1
  <2> QED
    BY <2>1, Zenon
<1>2. \A i \in 1 .. n :
        /\ at[i] \in 1 .. n
        /\ ~t[i].is_padding
        /\ t[i].memory_type = ops[at[i]].memory_type
        /\ t[i].address = ops[at[i]].address
        /\ t[i].read = ops[at[i]].old_value
        /\ t[i].write = ops[at[i]].new_value
  BY TypedTableRows
<1>3. /\ \A i, j \in 1 .. n : i < j <=> ByTypedCell(ops, at[i], at[j])
      /\ \A k \in 1 .. n : \E i \in 1 .. n : at[i] = k
  BY DEF TypedSorts, Bijection, Surjection
<1>4. n >= 1 /\ \A k \in 1 .. n : ops[k].memory_type \in {0, 1} /\ ops[k].address \in Nat
  <2>1. n # 0
    BY EmptySeq DEF IsTypedLog
  <2> QED
    BY <1>1, <2>1 DEF IsTypedLog, Register, Ram
<1>h. /\ \A k \in 1 .. n :
           (\A j \in 1 .. n : SameCell(ops, j, k) => ~(j < k)) => ops[k].old_value = 0
      /\ \A j, k \in 1 .. n :
           /\ j < k /\ SameCell(ops, j, k)
           /\ \A l \in 1 .. n : SameCell(ops, l, k) => ~(j < l /\ l < k)
           => ops[k].old_value = ops[j].new_value
  BY DEF IsTypedHistory
<1> HIDE DEF t, N, n
<1>5. PaddingIsLast(t)
  <2> SUFFICES ASSUME NEW i \in 1 .. N - 1, t[i].is_padding PROVE t[i + 1].is_padding
    BY <1>1 DEF PaddingIsLast, Transitions
  <2>1. i \notin 1 .. n
    BY <1>2
  <2>2. i + 1 \in n + 1 .. N
    BY <1>1, <2>1
  <2> QED
    BY <1>1, <2>2
\* The order of places, and of equal cells.
<1>o. ASSUME NEW i \in 1 .. n, NEW l \in 1 .. n, SameCell(ops, l, at[i]), l < at[i]
      PROVE  \E m \in 1 .. i - 1 : at[m] = l
  <2>1. PICK m \in 1 .. n : at[m] = l
    BY <1>3
  <2>2. ByTypedCell(ops, at[m], at[i])
    BY <1>o, <2>1 DEF ByTypedCell, ByCell, SameCell
  <2>3. m < i
    BY <1>3, <2>2
  <2> QED
    BY <2>1, <2>3
\* What follows another cell, or nothing, reads 0.
<1>6. ASSUME NEW i \in 1 .. n, i = 1 \/ ~SameCell(ops, at[i - 1], at[i])
      PROVE  t[i].read = 0
  <2>1. ASSUME NEW l \in 1 .. n, SameCell(ops, l, at[i]), l < at[i]
        PROVE  FALSE
    <3>1. PICK m \in 1 .. i - 1 : at[m] = l
      BY <1>o, <2>1
    <3>2. i - 1 \in 1 .. n /\ m \in 1 .. n /\ i # 1
      BY <1>1, <3>1
    <3>3. m # i - 1
      BY <1>6, <2>1, <3>1, <3>2
    <3>4. m < i - 1 /\ i - 1 < i
      BY <3>1, <3>2, <3>3
    <3>5. ByTypedCell(ops, at[m], at[i - 1]) /\ ByTypedCell(ops, at[i - 1], at[i])
      BY <1>3, <3>2, <3>4
    <3>6. at[m] \in 1 .. n /\ at[i - 1] \in 1 .. n /\ at[i] \in 1 .. n
      BY <1>2, <3>2
    <3>7. ~SameCell(ops, at[i - 1], at[i]) /\ SameCell(ops, at[m], at[i])
      BY <1>6, <2>1, <3>1, <3>2
    <3>8. PICK j \in 1 .. n, k \in 1 .. n, h \in 1 .. n : j = at[m] /\ k = at[i - 1] /\ h = at[i]
      BY <3>6
    <3>9. ByTypedCell(ops, j, k) /\ ByTypedCell(ops, k, h) /\ ~SameCell(ops, k, h) /\ SameCell(ops, j, h)
      BY <3>5, <3>7, <3>8
    <3> QED
      BY <1>4, <3>9 DEF ByTypedCell, ByCell, SameCell
  <2>2. at[i] \in 1 .. n
    BY <1>2
  <2>3. ops[at[i]].old_value = 0
    BY <1>h, <2>1, <2>2
  <2> QED
    BY <1>2, <2>3
\* What follows the same cell reads what is left there.
<1>7. ASSUME NEW i \in 1 .. n - 1, SameCell(ops, at[i], at[i + 1])
      PROVE  t[i + 1].read = t[i].write
  <2>1. i \in 1 .. n /\ i + 1 \in 1 .. n /\ i < i + 1
    BY <1>1
  <2>2. at[i] \in 1 .. n /\ at[i + 1] \in 1 .. n
    BY <1>2, <2>1
  <2>3. at[i] < at[i + 1]
    <3>1. ByTypedCell(ops, at[i], at[i + 1])
      BY <1>3, <2>1
    <3> QED
      BY <1>4, <1>7, <2>2, <3>1 DEF ByTypedCell, ByCell, SameCell
  <2>4. ASSUME NEW l \in 1 .. n, SameCell(ops, l, at[i + 1]), at[i] < l, l < at[i + 1]
        PROVE  FALSE
    <3>1. PICK m \in 1 .. n : at[m] = l
      BY <1>3
    <3>2. ByTypedCell(ops, at[i], at[m]) /\ ByTypedCell(ops, at[m], at[i + 1])
      BY <1>7, <2>4, <3>1 DEF ByTypedCell, ByCell, SameCell
    <3>3. i < m /\ m < i + 1
      BY <1>3, <2>1, <3>2
    <3> QED
      BY <3>3
  <2>5. ops[at[i + 1]].old_value = ops[at[i]].new_value
    BY <1>h, <1>7, <2>2, <2>3, <2>4
  <2> QED
    BY <1>2, <2>1, <2>5
<1>8. FreshReadsZero(t)
  <2>1. t[1].read = 0
    <3>1. 1 \in 1 .. n
      BY <1>1, <1>4
    <3> QED
      BY <1>6, <3>1
  <2>2. ASSUME NEW i \in 1 .. N - 1, ~t[i].is_address_equal
        PROVE  t[i + 1].read = 0
    <3>1. CASE i + 1 > n
      <4>1. i + 1 \in n + 1 .. N
        BY <1>1, <3>1
      <4> QED
        BY <1>1, <4>1
    <3>2. CASE i + 1 <= n
      <4>1. i \in 1 .. n /\ i + 1 \in 1 .. n /\ (i + 1) - 1 = i
        BY <1>1, <3>2
      <4>2. ~SameCell(ops, at[i], at[i + 1])
        BY <1>1, <1>2, <1>f, <2>2, <4>1 DEF SameCell
      <4>3. PICK j \in 1 .. n : j = i + 1 /\ j - 1 = i
        BY <4>1
      <4>4. t[j].read = 0
        BY <1>6, <4>2, <4>3
      <4> QED
        BY <4>3, <4>4
    <3> QED
      BY <1>1, <3>1, <3>2
  <2> QED
    BY <1>1, <2>1, <2>2 DEF FreshReadsZero, Transitions
<1>9. TypeFlagHolds(t)
  <2> SUFFICES ASSUME NEW i \in 1 .. N - 1
               PROVE  IF t[i].is_memory_type_equal THEN t[i + 1].memory_type = t[i].memory_type
                      ELSE t[i].memory_type + t[i + 1].memory_type \in {1, 2}
    BY <1>1 DEF TypeFlagHolds, Transitions
  <2>1. \A j \in 1 .. N : t[j].memory_type \in {0, 1}
    <3>1. \A j \in 1 .. N : j \in 1 .. n \/ j \in n + 1 .. N
      BY <1>1
    <3> QED
      BY <1>1, <1>2, <1>4, <3>1
  <2>2. t[i].memory_type \in {0, 1} /\ t[i + 1].memory_type \in {0, 1}
    BY <1>1, <2>1
  <2> QED
    BY <1>f, <2>2
\* Only the padding may break the order of the types.
<1>10. RegistersFirst(t) <=> (N > n => ops[at[n]].memory_type = Register)
  <2>1. RegistersFirst(t) <=> \A i \in 1 .. N - 1 : t[i].memory_type = 1 => t[i + 1].memory_type = 1
    BY <1>1 DEF RegistersFirst, Transitions, Ram
  <2>2. ASSUME NEW i \in 1 .. N - 1, i # n
        PROVE  t[i].memory_type = 1 => t[i + 1].memory_type = 1
    <3>1. CASE i > n
      <4>1. i \in n + 1 .. N
        BY <1>1, <3>1
      <4> QED
        BY <1>1, <4>1
    <3>2. CASE i < n
      <4>1. i \in 1 .. n /\ i + 1 \in 1 .. n /\ i < i + 1
        BY <1>1, <3>2
      <4>2. ByTypedCell(ops, at[i], at[i + 1])
        BY <1>3, <4>1
      <4>3. at[i] \in 1 .. n /\ at[i + 1] \in 1 .. n
        BY <1>2, <4>1
      <4> QED
        BY <1>2, <1>4, <4>1, <4>2, <4>3 DEF ByTypedCell
    <3> QED
      BY <1>1, <2>2, <3>1, <3>2
  <2>3. n \in 1 .. n /\ at[n] \in 1 .. n /\ t[n].memory_type = ops[at[n]].memory_type
        /\ ops[at[n]].memory_type \in {0, 1}
    BY <1>1, <1>2, <1>4
  <2>4. CASE N > n
    <3>1. n \in 1 .. N - 1 /\ n + 1 \in n + 1 .. N
      BY <1>1, <1>4, <2>4
    <3>2. t[n + 1].memory_type = 0
      BY <1>1, <3>1
    <3> QED
      BY <2>1, <2>2, <2>3, <2>4, <3>1, <3>2 DEF Register
  <2>5. CASE N = n
    <3>1. \A i \in 1 .. N - 1 : i # n
      BY <1>1, <2>5
    <3> QED
      BY <1>1, <2>1, <2>2, <2>5, <3>1
  <2> QED
    BY <1>1, <2>4, <2>5
\* Reads follow writes where cells are equal; elsewhere the address may be.
<1>11. ASSUME NEW i \in 1 .. n - 1
       PROVE  (t[i].is_address_equal => t[i + 1].read = t[i].write)
                <=> (Crosses(ops, at, i) => ops[at[i]].new_value = 0)
  <2>1. i \in 1 .. n /\ i + 1 \in 1 .. n /\ (i + 1) - 1 = i /\ i \in 1 .. N - 1
    BY <1>1
  <2>2. t[i].is_address_equal <=> ops[at[i]].address = ops[at[i + 1]].address
    BY <1>2, <1>f, <2>1
  <2>3. CASE SameCell(ops, at[i], at[i + 1])
    BY <1>7, <2>2, <2>3 DEF Crosses, SameCell
  <2>4. CASE ~SameCell(ops, at[i], at[i + 1])
    <3>1. PICK j \in 1 .. n : j = i + 1 /\ j - 1 = i
      BY <2>1
    <3>2. t[j].read = 0
      BY <1>6, <2>4, <3>1
    <3>3. t[i].write = ops[at[i]].new_value
      BY <1>2, <2>1
    <3> QED
      BY <2>2, <2>4, <3>1, <3>2, <3>3 DEF Crosses, SameCell
  <2> QED
    BY <2>3, <2>4
<1>12. ASSUME N > n
       PROVE  (t[n].is_address_equal => t[n + 1].read = t[n].write)
                <=> (ops[at[n]].address = 0 => ops[at[n]].new_value = 0)
  <2>1. n \in 1 .. N - 1 /\ n + 1 \in n + 1 .. N /\ n \in 1 .. n
    BY <1>1, <1>4, <1>12
  <2>2. t[n].is_address_equal <=> ops[at[n]].address = 0
    BY <1>1, <1>2, <1>f, <2>1
  <2>3. t[n + 1].read = 0 /\ t[n].write = ops[at[n]].new_value
    BY <1>1, <1>2, <2>1
  <2> QED
    BY <2>2, <2>3
<1>13. ReadsFollowWrites(t) <=>
         /\ \A i \in 1 .. n - 1 : Crosses(ops, at, i) => ops[at[i]].new_value = 0
         /\ N > n => (ops[at[n]].address = 0 => ops[at[n]].new_value = 0)
  <2> DEFINE Follows(i) == t[i].is_address_equal => t[i + 1].read = t[i].write
  <2>1. ReadsFollowWrites(t) <=> \A i \in 1 .. N - 1 : Follows(i)
    BY <1>1 DEF ReadsFollowWrites, Transitions
  <2>2. ASSUME NEW i \in 1 .. N - 1, i > n
        PROVE  Follows(i)
    <3>1. i \in n + 1 .. N /\ i + 1 \in n + 1 .. N
      BY <1>1, <2>2
    <3> QED
      BY <1>1, <3>1
  <2>3. \A i \in 1 .. n - 1 : Follows(i) <=> (Crosses(ops, at, i) => ops[at[i]].new_value = 0)
    BY <1>11
  <2>4. N > n => (Follows(n) <=> (ops[at[n]].address = 0 => ops[at[n]].new_value = 0))
    BY <1>12
  <2> HIDE DEF Follows
  <2>5. (\A i \in 1 .. N - 1 : Follows(i)) <=> (\A i \in 1 .. n - 1 : Follows(i)) /\ (N > n => Follows(n))
    <3>1. \A i \in 1 .. n - 1 : i \in 1 .. N - 1
      BY <1>1
    <3>2. N > n => n \in 1 .. N - 1
      BY <1>1, <1>4
    <3>3. \A i \in 1 .. N - 1 : i \in 1 .. n - 1 \/ (i = n /\ N > n) \/ i > n
      BY <1>1
    <3> QED
      BY <2>2, <3>1, <3>2, <3>3
  <2> QED
    BY <2>1, <2>3, <2>4, <2>5
<1> QED
  BY <1>5, <1>8, <1>9, <1>10, <1>13 DEF TypedAccepts, AirAccepts, t, n, N

\* The greatest element is the one that bounds the others.
LEMMA MaxUnique ==
  ASSUME NEW b \in Nat, NEW T \in SUBSET (0 .. b), NEW m \in T, \A x \in T : x <= m
  PROVE  Max(T) = m
<1>1. Max(T) \in T /\ \A x \in T : x <= Max(T)
  BY MaxIs
<1>2. PICK M \in 0 .. b : M = Max(T) /\ m <= M /\ M <= m
  BY <1>1
<1> QED
  BY <1>2

LEMMA MinUnique ==
  ASSUME NEW T \in SUBSET Nat, NEW m \in T, \A x \in T : m <= x
  PROVE  Min(T) = m
<1>1. Min(T) \in T /\ \A x \in T : Min(T) <= x
  BY MinIs
<1>2. PICK M \in Nat : M = Min(T) /\ m <= M /\ M <= m
  BY <1>1
<1> QED
  BY <1>2

\* The operation at the end of the registers in the sorted log is the last one
\* on the last register.
LEMMA LastRegisterIs ==
  ASSUME NEW S, IsTypedLog(log, S), NEW at, TypedSorts(log, at),
         NEW b \in Nat, \A k \in 1 .. Len(log) : log[k].address <= b,
         NEW i \in 1 .. Len(log), log[at[i]].memory_type = Register,
         i = Len(log) \/ log[at[i + 1]].memory_type = Ram
  PROVE  HasType(Register) /\ LastRegister = log[at[i]].address /\ LastRegisterOp = log[at[i]]
<1>1. PICK n \in Nat : n = Len(log) /\ DOMAIN log = 1 .. n
  BY DEF IsTypedLog
<1>2. \A k \in 1 .. n : log[k].memory_type \in {0, 1} /\ log[k].address \in 0 .. b
  BY <1>1 DEF IsTypedLog, Register, Ram
<1>3. /\ \A j, k \in 1 .. n : j < k <=> ByTypedCell(log, at[j], at[k])
      /\ \A j \in 1 .. n : at[j] \in 1 .. n
      /\ \A k \in 1 .. n : \E j \in 1 .. n : at[j] = k
  BY <1>1 DEF TypedSorts, Bijection, Injection, Surjection
<1>4. PICK last \in 1 .. n : last = at[i]
  BY <1>1, <1>3
<1>5. ASSUME NEW k \in 1 .. n, log[k].memory_type = 0, k # last
      PROVE  ByTypedCell(log, k, last)
  <2>1. PICK m \in 1 .. n : at[m] = k
    BY <1>3
  <2>2. ASSUME m > i PROVE FALSE
    <3>1. i + 1 \in 1 .. n /\ log[at[i + 1]].memory_type = 1
      BY <1>1, <2>2 DEF Ram
    <3>2. m = i + 1 \/ i + 1 < m
      BY <1>1, <2>2
    <3>3. i + 1 < m => ByTypedCell(log, at[i + 1], k)
      BY <1>3, <2>1, <3>1
    <3> QED
      BY <1>5, <2>1, <3>1, <3>2, <3>3 DEF ByTypedCell
  <2>3. m < i
    BY <1>1, <1>4, <1>5, <2>1, <2>2
  <2> QED
    BY <1>1, <1>3, <1>4, <2>1, <2>3
<1>6. last \in OfType(Register)
  BY <1>1, <1>4 DEF OfType
<1>7. \A k \in OfType(Register) : k \in 1 .. n /\ log[k].memory_type = 0
  BY <1>1 DEF OfType, Register
<1>8. LastRegister = log[last].address
  <2>1. PICK A : A = Addresses(Register)
    OBVIOUS
  <2>2. log[last].address \in A
    BY <1>6, <2>1 DEF Addresses
  <2>3. ASSUME NEW x \in A PROVE x \in 0 .. b /\ x <= log[last].address
    <3>1. PICK k \in OfType(Register) : x = log[k].address
      BY <2>1 DEF Addresses
    <3>2. k \in 1 .. n /\ log[k].memory_type = 0
      BY <1>7
    <3>3. k = last \/ ByTypedCell(log, k, last)
      BY <1>5, <3>2
    <3>4. x \in 0 .. b
      BY <1>2, <3>1, <3>2
    <3>5. log[k].address <= log[last].address
      <4>0. log[k].address \in 0 .. b /\ log[last].address \in 0 .. b
        BY <1>2, <3>2
      <4>1. PICK u \in 0 .. b, v \in 0 .. b : u = log[k].address /\ v = log[last].address
        BY <4>0, Zenon
      <4>2. CASE k = last
        BY <4>1, <4>2
      <4>3. CASE ByTypedCell(log, k, last)
        <5>1. log[k].memory_type = 0 /\ log[last].memory_type = 0
          BY <1>6, <1>7, <3>2
        <5>2. ByCell(log, k, last)
          BY <4>3, <5>1 DEF ByTypedCell
        <5>3. u < v \/ u = v
          BY <4>1, <5>2 DEF ByCell
        <5> QED
          BY <4>1, <5>3
      <4> QED
        BY <3>3, <4>2, <4>3
    <3> QED
      BY <3>1, <3>4, <3>5
  <2>4. A \in SUBSET (0 .. b)
    BY <2>3
  <2> QED
    BY <2>1, <2>2, <2>3, <2>4, MaxUnique DEF LastRegister
<1>9. LastRegisterOp = log[last]
  <2>1. PICK T : T = {k \in OfType(Register) : log[k].address = LastRegister}
    OBVIOUS
  <2>2. last \in T
    BY <1>6, <1>8, <2>1
  <2>3. ASSUME NEW k \in T PROVE k \in 0 .. n /\ k <= last
    <3>1. k \in 1 .. n /\ log[k].memory_type = 0 /\ log[k].address = log[last].address
      BY <1>7, <1>8, <2>1
    <3>2. k = last \/ ByTypedCell(log, k, last)
      BY <1>5, <3>1
    <3>3. k <= last
      <4>1. CASE k = last
        BY <4>1
      <4>2. CASE ByTypedCell(log, k, last)
        <5>1. log[k].memory_type = 0 /\ log[last].memory_type = 0
          BY <1>6, <1>7, <3>1
        <5>2. ByCell(log, k, last)
          BY <4>2, <5>1 DEF ByTypedCell
        <5>0. log[k].address \in 0 .. b
          BY <1>2, <3>1
        <5>3. PICK u \in 0 .. b : u = log[k].address /\ u = log[last].address
          BY <3>1, <5>0, Zenon
        <5>4. k < last
          BY <5>2, <5>3 DEF ByCell
        <5> QED
          BY <3>1, <5>4
      <4> QED
        BY <3>2, <4>1, <4>2
    <3> QED
      BY <3>1, <3>3
  <2>4. T \in SUBSET (0 .. n)
    BY <2>3
  <2>5. Max(T) = last
    BY <2>2, <2>3, <2>4, MaxUnique
  <2> QED
    BY <2>1, <2>5 DEF LastRegisterOp
<1> QED
  BY <1>4, <1>6, <1>8, <1>9 DEF HasType

\* The operation at the start of RAM in the sorted log is on the first cell.
LEMMA FirstRamIs ==
  ASSUME NEW S, IsTypedLog(log, S), NEW at, TypedSorts(log, at),
         NEW i \in 1 .. Len(log) - 1, log[at[i]].memory_type = Register,
         log[at[i + 1]].memory_type = Ram
  PROVE  HasType(Ram) /\ Min(Addresses(Ram)) = log[at[i + 1]].address
<1>1. PICK n \in Nat : n = Len(log) /\ DOMAIN log = 1 .. n
  BY DEF IsTypedLog
<1>2. \A k \in 1 .. n : log[k].memory_type \in {0, 1} /\ log[k].address \in Nat
  BY <1>1 DEF IsTypedLog, Register, Ram
<1>3. /\ \A j, k \in 1 .. n : j < k <=> ByTypedCell(log, at[j], at[k])
      /\ \A j \in 1 .. n : at[j] \in 1 .. n
      /\ \A k \in 1 .. n : \E j \in 1 .. n : at[j] = k
  BY <1>1 DEF TypedSorts, Bijection, Injection, Surjection
<1>4. i \in 1 .. n /\ i + 1 \in 1 .. n
  BY <1>1
<1>5. PICK first \in 1 .. n : first = at[i + 1] /\ log[first].memory_type = 1
  BY <1>3, <1>4 DEF Ram
<1>6. ASSUME NEW k \in 1 .. n, log[k].memory_type = 1
      PROVE  log[first].address <= log[k].address
  <2>1. PICK m \in 1 .. n : at[m] = k
    BY <1>3
  <2>2. ASSUME m < i + 1 PROVE FALSE
    <3>1. m = i \/ m < i
      BY <1>4, <2>2
    <3>2. m < i => ByTypedCell(log, k, at[i])
      BY <1>3, <1>4, <2>1
    <3> QED
      BY <1>6, <2>1, <3>1, <3>2 DEF ByTypedCell, Register
  <2>3. m = i + 1 \/ i + 1 < m
    BY <1>4, <2>2
  <2>4. k = first \/ ByTypedCell(log, first, k)
    BY <1>3, <1>4, <1>5, <2>1, <2>3
  <2>5. log[first].address \in Nat /\ log[k].address \in Nat
    BY <1>2
  <2>6. k = first \/ log[first].address < log[k].address \/ log[first].address = log[k].address
    BY <1>5, <1>6, <2>4 DEF ByTypedCell, ByCell
  <2> QED
    BY <2>5, <2>6
<1>7. first \in OfType(Ram)
  BY <1>1, <1>5 DEF OfType, Ram
<1>8. \A k \in OfType(Ram) : k \in 1 .. n /\ log[k].memory_type = 1
  BY <1>1 DEF OfType, Ram
<1>9. Min(Addresses(Ram)) = log[first].address
  <2>1. PICK A : A = Addresses(Ram)
    OBVIOUS
  <2>2. log[first].address \in A
    BY <1>7, <2>1 DEF Addresses
  <2>3. ASSUME NEW x \in A PROVE x \in Nat /\ log[first].address <= x
    <3>1. PICK k \in OfType(Ram) : x = log[k].address
      BY <2>1 DEF Addresses
    <3> QED
      BY <1>2, <1>6, <1>8, <3>1
  <2>4. A \in SUBSET Nat
    BY <2>3
  <2> QED
    BY <2>1, <2>2, <2>3, <2>4, MinUnique
<1> QED
  BY <1>5, <1>7, <1>9 DEF HasType

\* Meeting says it: some place of the table has the last register, and the
\* next the first cell of RAM, with the same address.
LEMMA MeetingCrosses ==
  ASSUME NEW S, IsTypedLog(log, S), log # <<>>,
         NEW b \in Nat, \A k \in 1 .. Len(log) : log[k].address <= b,
         NEW at, TypedSorts(log, at)
  PROVE  /\ HasType(Ram) <=> log[at[Len(log)]].memory_type = Ram
         /\ \A i \in 1 .. Len(log) - 1 : Crosses(log, at, i) => Meeting /\ LastRegisterOp = log[at[i]]
         /\ Meeting => \E i \in 1 .. Len(log) - 1 : Crosses(log, at, i) /\ LastRegisterOp = log[at[i]]
<1>1. PICK n \in Nat : n = Len(log) /\ n >= 1 /\ DOMAIN log = 1 .. n
  <2>1. log \in Seq(S)
    BY DEF IsTypedLog
  <2>2. Len(log) # 0
    BY <2>1, EmptySeq
  <2>3. PICK m \in Nat : m = Len(log) /\ DOMAIN log = 1 .. m
    BY <2>1
  <2> QED
    BY <2>2, <2>3
<1>2. /\ \A i \in 1 .. n : at[i] \in 1 .. n
      /\ \A i, j \in 1 .. n : i < j <=> ByTypedCell(log, at[i], at[j])
      /\ \A k \in 1 .. n : \E i \in 1 .. n : at[i] = k
  BY <1>1 DEF TypedSorts, Bijection, Injection, Surjection
<1>3. \A k \in 1 .. n : log[k].memory_type \in {0, 1}
  BY <1>1 DEF IsTypedLog, Register, Ram
<1>4. HasType(Ram) <=> log[at[n]].memory_type = Ram
  <2>1. n \in 1 .. n /\ at[n] \in 1 .. n
    BY <1>1, <1>2
  <2>2. ASSUME NEW k \in 1 .. n, log[k].memory_type = 1
        PROVE  log[at[n]].memory_type = 1
    <3>1. PICK m \in 1 .. n : at[m] = k
      BY <1>2
    <3>2. m = n \/ m < n
      OBVIOUS
    <3>3. m = n \/ ByTypedCell(log, k, at[n])
      BY <1>2, <2>1, <3>1, <3>2
    <3> QED
      BY <1>3, <2>1, <2>2, <3>1, <3>3 DEF ByTypedCell
  <2> QED
    BY <1>1, <2>1, <2>2 DEF HasType, OfType, Ram
<1>5. ASSUME NEW i \in 1 .. n - 1, Crosses(log, at, i)
      PROVE  Meeting /\ LastRegisterOp = log[at[i]]
  <2>1. i \in 1 .. n /\ i + 1 \in 1 .. n /\ i < i + 1 /\ at[i] \in 1 .. n /\ at[i + 1] \in 1 .. n
    <3>1. i \in 1 .. n /\ i + 1 \in 1 .. n /\ i < i + 1
      OBVIOUS
    <3> QED
      BY <1>2, <3>1
  <2>2. ByTypedCell(log, at[i], at[i + 1])
    BY <1>2, <2>1
  <2>3. log[at[i]].memory_type = Register /\ log[at[i + 1]].memory_type = Ram
        /\ log[at[i]].address = log[at[i + 1]].address
    BY <1>3, <1>5, <2>1, <2>2 DEF Crosses, ByTypedCell, Register, Ram
  <2>4. HasType(Register) /\ LastRegister = log[at[i]].address /\ LastRegisterOp = log[at[i]]
    BY <1>1, <2>1, <2>3, LastRegisterIs
  <2>5. HasType(Ram) /\ Min(Addresses(Ram)) = log[at[i + 1]].address
    BY <1>1, <2>3, FirstRamIs
  <2> QED
    BY <2>3, <2>4, <2>5 DEF Meeting
<1>6. ASSUME Meeting
      PROVE  \E i \in 1 .. n - 1 : Crosses(log, at, i) /\ LastRegisterOp = log[at[i]]
  <2>0. log[at[n]].memory_type # Register
    BY <1>4, <1>6 DEF Meeting, Register, Ram
  <2>1. HasType(Register) /\ LastRegister = Min(Addresses(Ram))
    BY <1>6 DEF Meeting
  <2>2. PICK k \in 1 .. n : log[k].memory_type = 0
    BY <1>1, <2>1 DEF HasType, OfType, Register
  <2> DEFINE R == {m \in 1 .. n : log[at[m]].memory_type = 0}
  <2>3. R \in SUBSET (0 .. n) /\ R # {}
    <3>1. PICK j \in 1 .. n : at[j] = k
      BY <1>2
    <3>2. j \in R
      BY <2>2, <3>1
    <3> QED
      BY <3>2
  <2>4. PICK i \in R : \A m \in R : m <= i
    <3> HIDE DEF R
    <3> QED
      BY <2>3, MaxIs
  <2>5. i \in 1 .. n - 1 /\ i + 1 \in 1 .. n /\ i \in 1 .. n
    BY <1>1, <2>0 DEF Register
  <2>6. i + 1 \notin R
    BY <2>4, <2>5
  <2>7. log[at[i]].memory_type = Register /\ log[at[i + 1]].memory_type = Ram
    BY <1>2, <1>3, <2>5, <2>6 DEF Register, Ram
  <2> HIDE DEF R
  <2>8. LastRegister = log[at[i]].address /\ LastRegisterOp = log[at[i]]
    BY <1>1, <2>5, <2>7, LastRegisterIs
  <2>9. Min(Addresses(Ram)) = log[at[i + 1]].address
    BY <1>1, <2>5, <2>7, FirstRamIs
  <2>10. Crosses(log, at, i)
    BY <2>1, <2>7, <2>8, <2>9 DEF Crosses, Register, Ram
  <2> QED
    BY <2>5, <2>8, <2>10
<1> QED
  BY <1>1, <1>4, <1>5, <1>6

\* The AIR of the memory accepts the table of a log exactly if no value
\* reaches a cell it was not left in.
THEOREM ComparisonTypedAccepted == ComparisonSpec => []TypedAccepted
<1>1. ComparisonInv => TypedAccepted
  <2> SUFFICES ASSUME ComparisonInv, Built
               PROVE  TypedAccepts(tables.memory) <=>
                        IF HasType(Ram) THEN ~HasPadding /\ (Meeting => LastRegisterOp.new_value = 0)
                        ELSE HasPadding /\ LastRegister = 0 => LastRegisterOp.new_value = 0
    BY DEF TypedAccepted
  <2>1. PICK S : IsTypedLog(log, S)
    BY DEF ComparisonInv, LogInOrder
  <2>2. log # <<>> /\ tables.memory = TypedTable(log)
    BY DEF ComparisonInv, TablesOfLog
  <2>3. /\ IsTypedHistory(log) /\ 2 ^ (LimbBits * NumLimbs) - 1 \in Nat
        /\ \A k \in 1 .. Len(log) : log[k].address <= 2 ^ (LimbBits * NumLimbs) - 1
    <3>1. 2 ^ (LimbBits * NumLimbs) \in Nat /\ 2 ^ (LimbBits * NumLimbs) >= 1
      <4>1. 2 ^ (TsBits + 1) <= 2 ^ (LimbBits * NumLimbs) /\ 2 ^ (LimbBits * NumLimbs) \in Nat
            /\ 2 ^ (TsBits + 1) = 2 * 2 ^ TsBits /\ 2 ^ TsBits \in Nat \ {0}
        BY Constants
      <4> QED
        BY <4>1
    <3>2. \A w \in Nat : w >= 1 => w - 1 \in Nat
      OBVIOUS
    <3>3. IsTypedHistory(log) /\ \A k \in 1 .. Len(log) : log[k].address <= 2 ^ (LimbBits * NumLimbs) - 1
      BY DEF ComparisonInv, LogOfCells
    <3> QED
      BY <3>1, <3>2, <3>3
  <2>4. PICK b \in Nat : \A k \in 1 .. Len(log) : log[k].address <= b
    BY <2>3, Zenon
  <2>5. PICK at : TypedSorts(log, at)
    BY <2>1, TypedSortedSorts
  <2>6. PICK n \in Nat : n = Len(log) /\ n >= 1 /\ DOMAIN log = 1 .. n
    <3>1. log \in Seq(S)
      BY <2>1 DEF IsTypedLog
    <3>2. Len(log) # 0
      BY <2>2, <3>1, EmptySeq
    <3>3. PICK m \in Nat : m = Len(log) /\ DOMAIN log = 1 .. m
      BY <3>1
    <3> QED
      BY <3>2, <3>3
  <2>7. /\ \A i \in 1 .. n : at[i] \in 1 .. n
        /\ \A i, j \in 1 .. n : i < j <=> ByTypedCell(log, at[i], at[j])
        /\ \A k \in 1 .. n : \E i \in 1 .. n : at[i] = k
    BY <2>5, <2>6 DEF TypedSorts, Bijection, Injection, Surjection
  <2>8. \A k \in 1 .. n : log[k].memory_type \in {0, 1}
    BY <2>1, <2>6 DEF IsTypedLog, Register, Ram
  <2>9. HasPadding <=> NumRows(n) > n
    BY <2>6 DEF HasPadding
  <2>10. TypedAccepts(tables.memory) <=>
           /\ \A i \in 1 .. n - 1 : Crosses(log, at, i) => log[at[i]].new_value = 0
           /\ HasPadding => /\ log[at[n]].memory_type = Register
                            /\ log[at[n]].address = 0 => log[at[n]].new_value = 0
    BY <2>1, <2>2, <2>3, <2>5, <2>6, <2>9, TypedHistoryAccepted
  <2>11. HasType(Ram) <=> log[at[n]].memory_type = Ram
    BY <2>1, <2>2, <2>4, <2>5, <2>6, MeetingCrosses
  <2>12. CASE ~HasType(Ram)
    <3>1. n \in 1 .. n /\ log[at[n]].memory_type = Register
      <4>1. n \in 1 .. n
        BY <2>6
      <4>2. at[n] \in 1 .. n /\ log[at[n]].memory_type # Ram
        BY <2>7, <2>11, <2>12, <4>1
      <4>3. log[at[n]].memory_type \in {0, 1}
        BY <2>8, <4>2
      <4> QED
        BY <4>1, <4>2, <4>3 DEF Register, Ram
    <3>2. LastRegister = log[at[n]].address /\ LastRegisterOp = log[at[n]]
      BY <2>1, <2>4, <2>5, <2>6, <3>1, LastRegisterIs
    <3>3. ASSUME NEW i \in 1 .. n - 1 PROVE ~Crosses(log, at, i)
      <4>1. at[i] \in 1 .. n /\ at[i + 1] \in 1 .. n
        BY <2>6, <2>7
      <4>2. \A k \in 1 .. n : log[k].memory_type # Ram
        BY <2>6, <2>12 DEF HasType, OfType
      <4> QED
        BY <2>8, <4>1, <4>2 DEF Crosses, Ram
    <3> QED
      BY <2>10, <2>12, <3>1, <3>2, <3>3
  <2>13. CASE HasType(Ram)
    <3>1. log[at[n]].memory_type # Register
      BY <2>11, <2>13 DEF Register, Ram
    <3>4. (\A i \in 1 .. n - 1 : Crosses(log, at, i) => log[at[i]].new_value = 0)
            <=> (Meeting => LastRegisterOp.new_value = 0)
      BY <2>1, <2>2, <2>4, <2>5, <2>6, MeetingCrosses
    <3> QED
      BY <2>10, <2>13, <3>1, <3>4
  <2> QED
    BY <2>12, <2>13
<1> QED
  BY <1>1, ComparisonSound, PTL

(***************************************************************************)
(* The lookups of the memory table.                                        *)
(***************************************************************************)
\* The limbs of a u32 put it together again.
LEMMA LimbsValue ==
  ASSUME NEW w \in Nat, w < 2 ^ (LimbBits * NumLimbs)
  PROVE  ValueOfLimbs(LimbsOf(w)) = w
<1>0. PICK n \in Nat \ {0} : n = NumLimbs /\ Limb = 0 .. n - 1
  BY Constants DEF Limb
<1>b. PICK b \in Nat \ {0, 1} : b = Base /\ b = 2 ^ LimbBits
  BY Constants DEF Base
<1>1. PICK x : x = LimbsOf(w) /\ \A i \in 0 .. n - 1 : x[i] \in 0 .. b - 1
  BY <1>0, <1>b, LimbsOfIsWord DEF IsWord
<1>2. PICK c : c = Digits(x, b, n)
  OBVIOUS
<1>3. c \in [0 .. n -> Int] /\ c[n] = 0 /\ \A i \in 0 .. n - 1 : c[i] = x[i] + b * c[i + 1]
  <2>1. n \in Nat /\ b \in Int /\ \A i \in 0 .. n - 1 : x[i] \in Int
    BY <1>1
  <2> QED
    BY <1>2, <2>1, DigitsStep
\* The weight of a limb.
<1> DEFINE W(i) == 2 ^ (LimbBits * i)
<1>4. \A i \in Nat : LimbBits * i \in Nat /\ W(i) \in Nat \ {0} /\ W(i + 1) = W(i) * b
  <2> SUFFICES ASSUME NEW i \in Nat
               PROVE  LimbBits * i \in Nat /\ W(i) \in Nat \ {0} /\ W(i + 1) = W(i) * b
    OBVIOUS
  <2>1. PICK L \in Nat : L = LimbBits
    BY Constants
  <2>2. PICK e \in Nat : e = L * i /\ L * (i + 1) = e + L
    OBVIOUS
  <2>3. 2 ^ (e + L) = 2 ^ e * 2 ^ L /\ 2 ^ e \in Nat /\ e < 2 ^ e
    BY PowersMultiply, TwoPowers, TwoPowerExceeds
  <2> QED
    BY <1>b, <2>1, <2>2, <2>3
<1> DEFINE S == {i \in 0 .. n : w \div W(i) = c[i]}
<1>5. n \in S
  <2>1. PICK m \in Nat \ {0} : m = W(n) /\ w < m
    BY <1>0, <1>4
  <2>2. w \div m = 0
    BY <2>1
  <2> QED
    BY <1>3, <2>1, <2>2
<1>6. ASSUME NEW i \in 0 .. n - 1, i + 1 \in S PROVE i \in S
  <2>1. PICK m \in Nat \ {0} : m = W(i) /\ W(i + 1) = m * b
    BY <1>4
  <2>2. PICK q \in Nat : q = w \div m
    BY <2>1
  <2>3. q \div b = w \div (m * b)
    BY <2>2, QuotientOfQuotient
  <2>4. q = b * (q \div b) + (q % b)
    BY ONLY b \in Nat \ {0, 1}, q \in Nat, Division
  <2>5. q = b * c[i + 1] + (q % b)
    <3>1. w \div W(i + 1) = c[i + 1]
      BY <1>6
    <3>2. q \div b = c[i + 1]
      BY <2>1, <2>3, <3>1
    <3> QED
      BY <2>4, <3>2
  <2>6. x[i] = q % b
    BY <1>0, <1>1, <1>b, <2>1, <2>2 DEF LimbsOf
  <2>7. c[i] = q
    <3>1. PICK a : a = b * c[i + 1] /\ a \in Int /\ q % b \in Int
      <4>1. c[i + 1] \in Int /\ q % b \in Int
        BY <1>3
      <4> QED
        BY <4>1
    <3>2. c[i] = x[i] + a
      BY <1>3, <3>1
    <3> QED
      BY <2>5, <2>6, <3>1, <3>2
  <2> QED
    BY <2>1, <2>2, <2>7
<1>7. 0 \in S
  <2>1. \A i \in 0 .. n : i \in S
    <3> HIDE DEF S
    <3> QED
      BY <1>5, <1>6, InductionDown
  <2>2. 0 \in 0 .. n
    OBVIOUS
  <2> HIDE DEF S
  <2> QED
    BY <2>1, <2>2
<1>8. w \div W(0) = w
  <2>1. LimbBits * 0 = 0
    BY Constants
  <2>2. W(0) = 1
    BY <2>1, PowerZero
  <2>3. w \div 1 = w
    OBVIOUS
  <2> QED
    BY <2>2, <2>3
<1>9. c[0] = w
  BY <1>7, <1>8
<1> QED
  BY <1>0, <1>b, <1>1, <1>2, <1>9 DEF ValueOfLimbs

\* The places of neighbours of the same type, and of the same cell.
SameTypes(ops, at) ==
  {i \in 1 .. Len(ops) - 1 : ops[at[i]].memory_type = ops[at[i + 1]].memory_type}

SameCells(ops, at) == {i \in SameTypes(ops, at) : ops[at[i]].address = ops[at[i + 1]].address}

\* p puts the neighbours of the same type where the prover has them.
PlacesNeighbours(p, ops, at) ==
  /\ p \in Bijection(SameTypes(ops, at), 1 .. Len(TypedNeighbours(ops)))
  /\ \A i \in SameTypes(ops, at) : TypedNeighbours(ops)[p[i]] = <<ops[at[i]], ops[at[i + 1]]>>

\* The neighbours the prover takes are those of the same type.
LEMMA NeighbourPlaces ==
  ASSUME NEW S, NEW ops, IsTypedLog(ops, S), ops # <<>>, NEW at, TypedSorts(ops, at)
  PROVE  \E p : PlacesNeighbours(p, ops, at)
<1>0. PICK n \in Nat : n = Len(ops) /\ n >= 1
  <2>1. ops \in Seq(S)
    BY DEF IsTypedLog
  <2>2. Len(ops) # 0 /\ Len(ops) \in Nat
    BY <2>1, EmptySeq
  <2> QED
    BY <2>2
<1>1. PICK m \in Nat : m = n - 1
  BY <1>0
<1>2. PICK s : s = TypedSorted(ops)
  OBVIOUS
<1>3. \A i \in 1 .. n : at[i] \in 1 .. n /\ s[i] = ops[at[i]] /\ s[i] \in S
  <2>1. \A i \in 1 .. n : at[i] \in 1 .. n /\ s[i] = ops[at[i]]
    BY <1>0, <1>2 DEF TypedSorts, Bijection, Injection
  <2>2. \A i \in 1 .. n : ops[i] \in S
    BY <1>0 DEF IsTypedLog
  <2> QED
    BY <2>1, <2>2
<1>4. \A i \in 1 .. m : i \in 1 .. n /\ i + 1 \in 1 .. n
  BY <1>1
<1>5. PICK G : G = SameTypes(ops, at)
  OBVIOUS
<1>6. G \in SUBSET (1 .. m) /\ \A i \in 1 .. m : i \in G <=> s[i].memory_type = s[i + 1].memory_type
  BY <1>0, <1>1, <1>3, <1>4, <1>5 DEF SameTypes
<1> DEFINE u == [i \in 1 .. m |-> <<s[i], s[i + 1]>>]
<1>7. PICK T : T = S \X S
  OBVIOUS
<1>8. u \in [1 .. m -> T]
  BY <1>3, <1>4, <1>7
<1>9. PICK ss : ss = [i \in 1 .. m |-> IF i \in G THEN <<u[i]>> ELSE <<>>]
  OBVIOUS
<1>10. TypedNeighbours(ops) = FlattenSeq(ss)
  <2>1. ss = [i \in 1 .. Len(ops) - 1 |->
                IF s[i].memory_type = s[i + 1].memory_type THEN << <<s[i], s[i + 1]>> >> ELSE <<>>]
    BY <1>0, <1>1, <1>6, <1>9
  <2> QED
    BY <1>2, <2>1 DEF TypedNeighbours
<1>11. Selects(ss, m, u, G)
  BY <1>9 DEF Selects
<1> HIDE DEF u
<1>12. /\ FlattenSeq(ss) \in Seq(T)
       /\ \E p \in Bijection(G, 1 .. Len(FlattenSeq(ss))) : \A i \in G : FlattenSeq(ss)[p[i]] = u[i]
  <2>1. m \in Nat /\ u \in [1 .. m -> T] /\ G \in SUBSET (1 .. m) /\ Selects(ss, m, u, G)
    BY <1>6, <1>8, <1>11
  <2> QED
    BY ONLY <2>1, FlattenSelected
<1>14. PICK p \in Bijection(G, 1 .. Len(FlattenSeq(ss))) : \A i \in G : FlattenSeq(ss)[p[i]] = u[i]
  BY <1>12
<1>13. \A i \in G : FlattenSeq(ss)[p[i]] = <<ops[at[i]], ops[at[i + 1]]>>
  <2> SUFFICES ASSUME NEW i \in G PROVE FlattenSeq(ss)[p[i]] = <<ops[at[i]], ops[at[i + 1]]>>
    OBVIOUS
  <2>1. i \in 1 .. m /\ FlattenSeq(ss)[p[i]] = u[i]
    BY <1>6, <1>14
  <2>2. u[i] = <<s[i], s[i + 1]>>
    BY <2>1 DEF u
  <2> QED
    BY <1>3, <1>4, <2>1, <2>2
<1>15. PlacesNeighbours(p, ops, at)
  BY <1>5, <1>10, <1>13, <1>14 DEF PlacesNeighbours
<1> QED
  BY <1>15

\* Neighbours are positions of the log.
LEMMA SameTypesPlaces ==
  ASSUME NEW S, NEW ops, IsTypedLog(ops, S), ops # <<>>, NEW at, TypedSorts(ops, at),
         NEW i \in 1 .. Len(ops) - 1
  PROVE  /\ i \in 1 .. Len(ops) /\ i + 1 \in 1 .. Len(ops)
         /\ at[i] \in 1 .. Len(ops) /\ at[i + 1] \in 1 .. Len(ops)
         /\ ops[at[i]] \in S /\ ops[at[i + 1]] \in S
<1>1. PICK n \in Nat : n = Len(ops)
  BY DEF IsTypedLog
<1>2. i \in 1 .. n /\ i + 1 \in 1 .. n
  BY <1>1
<1>3. at[i] \in 1 .. n /\ at[i + 1] \in 1 .. n
  BY <1>1, <1>2 DEF TypedSorts, Bijection, Injection
<1> QED
  BY <1>1, <1>2, <1>3 DEF IsTypedLog

\* What is received from a table of addresses.
U32Received(rows) ==
  Received(rows, LAMBDA r : <<ValueOfLimbs(r.x), ValueOfLimbs(r.y), r.is_equal = 1>>)

\* The entries, each with its flag of equality.
Flagged(es) == [k \in 1 .. Len(es) |-> <<es[k][1], es[k][2], es[k][1] = es[k][2]>>]

EntryAt(es, k, x, y) == k \in 1 .. Len(es) /\ es[k] = <<x, y>>

LEMMA FlaggedIs ==
  ASSUME NEW es, NEW k, NEW x, NEW y, EntryAt(es, k, x, y)
  PROVE  Flagged(es)[k] = <<x, y, x = y>>
<1>1. es[k][1] = x /\ es[k][2] = y
  BY DEF EntryAt
<1>2. Flagged(es)[k] = <<es[k][1], es[k][2], es[k][1] = es[k][2]>>
  BY DEF Flagged, EntryAt
<1> QED
  BY <1>1, <1>2, Zenon

\* The rows of the address table that are received are those of its entries.
LEMMA U32ReceivedAre ==
  ASSUME NEW es, es \in Seq(Nat \X Nat),
         \A k \in 1 .. Len(es) : \A j \in {1, 2} : es[k][j] < 2 ^ (LimbBits * NumLimbs)
  PROVE  U32Received(U32Table(es)) = ToBag(Flagged(es))
<1> DEFINE Tuple(r) == <<ValueOfLimbs(r.x), ValueOfLimbs(r.y), r.is_equal = 1>>
           b == Flagged(es)
<1>0. PICK n \in Nat : n = Len(es)
  OBVIOUS
<1>1. PICK N \in Nat : N = NumRows(n) /\ N >= n
  BY NumRowsFit
<1>2. PICK rows : rows = U32Table(es)
  OBVIOUS
<1>3. rows = [k \in 1 .. N |-> IF k <= n THEN U32Row(es[k]) ELSE U32Padding]
  BY <1>0, <1>1, <1>2 DEF U32Table
<1>4. \A k \in 1 .. n : k \in 1 .. N /\ rows[k] = U32Row(es[k])
  BY <1>1, <1>3
<1>5. \A k \in n + 1 .. N : rows[k] = U32Padding
  BY <1>3
<1>6. U32Padding.mult = 0
  BY DEF U32Padding, U32Row
<1>7. ASSUME NEW k \in 1 .. n
      PROVE  rows[k].mult = 1 /\ Tuple(rows[k]) = b[k]
  <2>1. PICK x \in Nat, y \in Nat : es[k] = <<x, y>>
    <3>1. es[k] \in Nat \X Nat
      BY <1>0
    <3> QED
      BY ONLY <3>1, PairIs
  <2>2. x < 2 ^ (LimbBits * NumLimbs) /\ y < 2 ^ (LimbBits * NumLimbs)
    BY <1>0, <2>1
  <2>3. ValueOfLimbs(LimbsOf(x)) = x /\ ValueOfLimbs(LimbsOf(y)) = y
    BY <2>2, LimbsValue
  <2>4. rows[k].x = LimbsOf(x) /\ rows[k].y = LimbsOf(y) /\ rows[k].mult = 1
        /\ rows[k].is_equal = IF LimbsOf(x) = LimbsOf(y) THEN 1 ELSE 0
    <3>1. es[k][1] = x /\ es[k][2] = y
      BY <2>1
    <3>2. PICK lx, ly : lx = LimbsOf(x) /\ ly = LimbsOf(y)
      OBVIOUS
    <3>3. PICK inv, eq, m :
            U32Row(es[k]) = [x |-> lx, y |-> ly, inverses |-> inv, is_equals |-> eq, mult_lts |-> m,
                             is_equal |-> IF lx = ly THEN 1 ELSE 0, mult |-> 1]
      BY <3>1, <3>2 DEF U32Row
    <3>4. rows[k] = U32Row(es[k])
      BY <1>4
    <3> QED
      BY <3>2, <3>3, <3>4
  <2>5. LimbsOf(x) = LimbsOf(y) <=> x = y
    BY <2>3
  <2>6. (rows[k].is_equal = 1) = (x = y)
    BY <2>4, <2>5
  <2>7. Tuple(rows[k]) = <<x, y, x = y>>
    BY <2>3, <2>4, <2>6
  <2>8. b[k] = <<x, y, x = y>>
    <3>1. EntryAt(es, k, x, y)
      BY <1>0, <2>1 DEF EntryAt
    <3> QED
      BY <3>1, FlaggedIs
  <2> QED
    BY <2>4, <2>7, <2>8
<1>8. {k \in DOMAIN rows : rows[k].mult = 1} = 1 .. n
  <2>1. DOMAIN rows = 1 .. N
    BY <1>3
  <2>2. ASSUME NEW k \in 1 .. N, rows[k].mult = 1
        PROVE  k \in 1 .. n
    <3>1. k \in 1 .. n \/ k \in n + 1 .. N
      BY <1>1
    <3> QED
      BY <1>5, <1>6, <2>2, <3>1
  <2> QED
    BY <1>4, <1>7, <2>1, <2>2
<1> HIDE DEF b
<1>9. [k \in {k \in DOMAIN rows : rows[k].mult = 1} |-> Tuple(rows[k])] = b
  <2>1. [k \in {k \in DOMAIN rows : rows[k].mult = 1} |-> Tuple(rows[k])] = [k \in 1 .. n |-> Tuple(rows[k])]
    BY <1>8
  <2>2. b = [k \in 1 .. n |-> b[k]]
    BY <1>0 DEF b, Flagged
  <2>3. \A k \in 1 .. n : Tuple(rows[k]) = b[k]
    BY <1>7
  <2> HIDE DEF Tuple
  <2>4. [k \in 1 .. n |-> Tuple(rows[k])] = [k \in 1 .. n |-> b[k]]
    BY <2>3
  <2> QED
    BY <2>1, <2>2, <2>4
<1> QED
  BY <1>2, <1>9 DEF U32Received, Received, b

\* Whatever the memory table of a log asks of the address table is in it.
LEMMA AddressBusBalanced ==
  ASSUME NEW S, NEW ops, IsTypedLog(ops, S), ops # <<>>,
         \A k \in 1 .. Len(ops) : ops[k].address < 2 ^ (LimbBits * NumLimbs)
  PROVE  TypedAddressLtSent(TypedTable(ops)) =
           U32Received(U32Table(TypedAddressLtEntries(ops)))
<1>1. PICK at : TypedSorts(ops, at)
  BY TypedSortedSorts
<1>2. PICK ns : ns = TypedNeighbours(ops) /\ ns \in Seq(S \X S)
  BY TypedNeighboursOfLog
<1>3. PICK es : es = TypedAddressLtEntries(ops) /\ es \in Seq(Nat \X Nat)
  BY AddressEntries
<1>4. Len(es) = Len(ns) /\ \A k \in 1 .. Len(ns) : es[k] = <<ns[k][1].address, ns[k][2].address>>
  <2>1. es = [k \in 1 .. Len(ns) |-> <<ns[k][1].address, ns[k][2].address>>]
    BY <1>2, <1>3 DEF TypedAddressLtEntries
  <2>2. Len(ns) \in Nat
    BY <1>2
  <2> QED
    BY <2>1, <2>2
<1>5. PICK G : G = SameTypes(ops, at)
  OBVIOUS
<1>n. PICK p : PlacesNeighbours(p, ops, at)
  BY <1>1, NeighbourPlaces
<1>6. p \in Bijection(G, 1 .. Len(ns)) /\ \A i \in G : ns[p[i]] = <<ops[at[i]], ops[at[i + 1]]>>
  BY <1>2, <1>5, <1>n DEF PlacesNeighbours
<1>7. p \in [G -> 1 .. Len(ns)] /\ \A k \in 1 .. Len(ns) : \E i \in G : p[i] = k
  BY <1>6 DEF Bijection, Injection, Surjection
<1>8. \A i \in G : i \in 1 .. Len(ops) - 1 /\ ops[at[i]].memory_type = ops[at[i + 1]].memory_type
  BY <1>5 DEF SameTypes
<1>9. \A i \in G : es[p[i]] = <<ops[at[i]].address, ops[at[i + 1]].address>>
  BY <1>4, <1>6, <1>7
<1>10. U32Received(U32Table(es)) = ToBag(Flagged(es))
  <2>1. ASSUME NEW k \in 1 .. Len(es), NEW j \in {1, 2}
        PROVE  es[k][j] < 2 ^ (LimbBits * NumLimbs)
    <3>1. PICK i \in G : p[i] = k
      BY <1>4, <1>7
    <3>2. at[i] \in 1 .. Len(ops) /\ at[i + 1] \in 1 .. Len(ops)
      BY <1>1, <1>8, SameTypesPlaces
    <3>3. es[k][j] = ops[at[i]].address \/ es[k][j] = ops[at[i + 1]].address
      BY <1>9, <3>1
    <3> QED
      BY <3>2, <3>3
  <2> QED
    BY <1>3, <2>1, U32ReceivedAre
<1> DEFINE t == TypedTable(ops)
           Row(i) == <<t[i].address, t[i + 1].address, t[i].is_address_equal>>
           b == Flagged(es)
<1>11. TypedAddressLtSent(t) = ToBag([i \in {i \in Transitions(t) : ~t[i + 1].is_padding /\ t[i].is_memory_type_equal} |-> Row(i)])
  BY DEF TypedAddressLtSent, Sent
<1> DEFINE n == Len(ops)
           N == NumRows(n)
<1>12. /\ n \in Nat /\ N \in Nat /\ N >= n /\ N >= 1 /\ Len(t) = N
       /\ \A i \in 1 .. n :
            /\ ~t[i].is_padding /\ t[i].memory_type = ops[at[i]].memory_type
            /\ t[i].address = ops[at[i]].address
       /\ \A i \in n + 1 .. N : t[i].is_padding
       /\ \A i \in 1 .. N - 1 :
            /\ t[i].is_memory_type_equal = (t[i].memory_type = t[i + 1].memory_type)
            /\ t[i].is_address_equal = (t[i].address = t[i + 1].address)
  BY <1>1, TypedTableRows
<1> HIDE DEF t, n, N
<1>13. ASSUME NEW i \in 1 .. n - 1
       PROVE  /\ i \in 1 .. N - 1 /\ i \in 1 .. n /\ i + 1 \in 1 .. n
              /\ t[i].is_memory_type_equal <=> ops[at[i]].memory_type = ops[at[i + 1]].memory_type
              /\ Row(i) = <<ops[at[i]].address, ops[at[i + 1]].address,
                            ops[at[i]].address = ops[at[i + 1]].address>>
  <2>1. i \in 1 .. N - 1 /\ i \in 1 .. n /\ i + 1 \in 1 .. n
    BY <1>12
  <2>2. t[i].is_memory_type_equal = (ops[at[i]].memory_type = ops[at[i + 1]].memory_type)
    BY <1>12, <2>1
  <2>3. t[i].is_address_equal = (ops[at[i]].address = ops[at[i + 1]].address)
    BY <1>12, <2>1
  <2>4. t[i].address = ops[at[i]].address /\ t[i + 1].address = ops[at[i + 1]].address
    BY <1>12, <2>1
  <2> QED
    BY <2>1, <2>2, <2>3, <2>4, Zenon
<1>14. {i \in Transitions(t) : ~t[i + 1].is_padding /\ t[i].is_memory_type_equal} = G
  <2>1. Transitions(t) = 1 .. N - 1
    BY <1>12 DEF Transitions
  <2>2. ASSUME NEW i \in 1 .. N - 1, ~t[i + 1].is_padding, t[i].is_memory_type_equal
        PROVE  i \in G
    <3>1. i + 1 \in 1 .. n
      <4>1. i + 1 \in 1 .. n \/ i + 1 \in n + 1 .. N
        BY <1>12
      <4> QED
        BY <1>12, <2>2, <4>1
    <3>2. i \in 1 .. n - 1
      BY <1>12, <3>1
    <3> QED
      BY <1>5, <1>13, <2>2, <3>2 DEF SameTypes, n
  <2>3. ASSUME NEW i \in G
        PROVE  i \in 1 .. N - 1 /\ ~t[i + 1].is_padding /\ t[i].is_memory_type_equal
    <3>1. i \in 1 .. n - 1 /\ ops[at[i]].memory_type = ops[at[i + 1]].memory_type
      BY <1>8 DEF n
    <3> QED
      BY <1>12, <1>13, <3>1
  <2> QED
    BY <2>1, <2>2, <2>3
<1> DEFINE a == [i \in G |-> Row(i)]
<1>15. \A i \in G : b[p[i]] = a[i]
  <2> SUFFICES ASSUME NEW i \in G PROVE b[p[i]] = a[i]
    OBVIOUS
  <2>1. a[i] = <<ops[at[i]].address, ops[at[i + 1]].address, ops[at[i]].address = ops[at[i + 1]].address>>
    BY <1>8, <1>13 DEF n
  <2>2. PICK k \in 1 .. Len(es) : k = p[i]
    BY <1>4, <1>7
  <2>4. es[k] = <<ops[at[i]].address, ops[at[i + 1]].address>>
    BY <1>9, <2>2
  <2>5. b[k] = <<ops[at[i]].address, ops[at[i + 1]].address, ops[at[i]].address = ops[at[i + 1]].address>>
    <3>1. EntryAt(es, k, ops[at[i]].address, ops[at[i + 1]].address)
      BY <2>4 DEF EntryAt
    <3> QED
      BY <3>1, FlaggedIs
  <2> QED
    BY <2>1, <2>2, <2>5, Zenon
<1>16. DOMAIN a = G /\ DOMAIN b = 1 .. Len(ns) /\ IsFiniteSet(G)
  <2>1. IsFiniteSet(1 .. n - 1)
    <3>1. n - 1 \in Int
      BY <1>12
    <3> QED
      BY <3>1, FS_Interval
  <2>2. G \subseteq 1 .. n - 1
    BY <1>8 DEF n
  <2>3. IsFiniteSet(G)
    BY <2>1, <2>2, FS_Subset
  <2>4. DOMAIN b = 1 .. Len(ns)
    BY <1>4 DEF Flagged
  <2> QED
    BY <2>3, <2>4
<1>17. TypedAddressLtSent(t) = ToBag(a)
  BY <1>11, <1>14
<1> HIDE DEF a, b
<1>18. ToBag(a) = ToBag(b)
  BY <1>6, <1>15, <1>16, SameBag
<1> QED
  BY <1>3, <1>10, <1>17, <1>18 DEF t, b

\* q puts the neighbours of the same cell where the prover has them.
PlacesTimestamps(q, ops, at) ==
  /\ q \in Bijection(SameCells(ops, at), 1 .. Len(TypedTimestampLtEntries(ops)))
  /\ \A i \in SameCells(ops, at) :
       TypedTimestampLtEntries(ops)[q[i]] = <<ops[at[i]].timestamp, ops[at[i + 1]].timestamp>>

\* The timestamps the prover takes are those of neighbours of the same cell.
LEMMA TimestampPlaces ==
  ASSUME NEW S, NEW ops, IsTypedLog(ops, S), ops # <<>>, NEW at, TypedSorts(ops, at)
  PROVE  \E q : PlacesTimestamps(q, ops, at)
<1>1. PICK ns : ns = TypedNeighbours(ops) /\ ns \in Seq(S \X S)
  BY TypedNeighboursOfLog
<1>2. PICK m \in Nat : m = Len(ns) /\ DOMAIN ns = 1 .. m
  BY <1>1
<1>3. PICK p : PlacesNeighbours(p, ops, at)
  BY NeighbourPlaces
<1>4. PICK G : G = SameTypes(ops, at)
  OBVIOUS
<1>5. /\ p \in Bijection(G, 1 .. m)
      /\ \A i \in G : ns[p[i]] = <<ops[at[i]], ops[at[i + 1]]>>
  BY <1>1, <1>2, <1>3, <1>4 DEF PlacesNeighbours
<1> DEFINE u == [k \in 1 .. m |-> <<ns[k][1].timestamp, ns[k][2].timestamp>>]
           T == {u[k] : k \in 1 .. m}
           H == {k \in 1 .. m : ns[k][1].address = ns[k][2].address}
           ss == [k \in 1 .. m |-> IF k \in H THEN <<u[k]>> ELSE <<>>]
<1>6. TypedTimestampLtEntries(ops) = FlattenSeq(ss)
  <2>1. ss = [k \in DOMAIN ns |->
                IF ns[k][1].address = ns[k][2].address
                THEN << <<ns[k][1].timestamp, ns[k][2].timestamp>> >> ELSE <<>>]
    BY <1>2
  <2> HIDE DEF ss
  <2> QED
    BY <1>1, <2>1 DEF TypedTimestampLtEntries
<1>7. u \in [1 .. m -> T] /\ H \in SUBSET (1 .. m) /\ Selects(ss, m, u, H)
  <2>1. u \in [1 .. m -> T]
    OBVIOUS
  <2>2. Selects(ss, m, u, H)
    BY DEF Selects
  <2> QED
    BY <2>1, <2>2
<1>8. \A k \in 1 .. m : u[k] = <<ns[k][1].timestamp, ns[k][2].timestamp>>
  OBVIOUS
<1>9. \A k \in 1 .. m : k \in H <=> ns[k][1].address = ns[k][2].address
  OBVIOUS
<1> HIDE DEF u, T, H, ss
<1>10. /\ FlattenSeq(ss) \in Seq(T)
       /\ \E r \in Bijection(H, 1 .. Len(FlattenSeq(ss))) : \A k \in H : FlattenSeq(ss)[r[k]] = u[k]
  <2>1. m \in Nat /\ u \in [1 .. m -> T] /\ H \in SUBSET (1 .. m) /\ Selects(ss, m, u, H)
    BY <1>7
  <2> QED
    BY ONLY <2>1, FlattenSelected
<1>11. PICK r \in Bijection(H, 1 .. Len(FlattenSeq(ss))) : \A k \in H : FlattenSeq(ss)[r[k]] = u[k]
  BY <1>10
<1>12. PICK C : C = SameCells(ops, at)
  OBVIOUS
<1>13. PICK J : J = 1 .. Len(FlattenSeq(ss))
  OBVIOUS
<1>14. /\ p \in [G -> 1 .. m]
       /\ \A i, j \in G : p[i] = p[j] => i = j
       /\ \A k \in 1 .. m : \E i \in G : p[i] = k
  BY <1>5 DEF Bijection, Injection, Surjection, IsInjective
<1>15. /\ r \in [H -> J]
       /\ \A i, j \in H : r[i] = r[j] => i = j
       /\ \A k \in J : \E i \in H : r[i] = k
  BY <1>11, <1>13 DEF Bijection, Injection, Surjection, IsInjective
<1>16. C \subseteq G /\ \A i \in G : i \in C <=> p[i] \in H
  <2>1. \A i \in G : i \in C <=> ops[at[i]].address = ops[at[i + 1]].address
    BY <1>4, <1>12 DEF SameCells
  <2>2. ASSUME NEW i \in G
        PROVE  p[i] \in H <=> ops[at[i]].address = ops[at[i + 1]].address
    <3>1. p[i] \in 1 .. m
      BY <1>14
    <3>2. ns[p[i]] = <<ops[at[i]], ops[at[i + 1]]>>
      BY <1>5
    <3> QED
      BY <1>9, <3>1, <3>2
  <2>3. C \subseteq G
    BY <1>4, <1>12 DEF SameCells
  <2> QED
    BY <2>1, <2>2, <2>3
<1> DEFINE q == [i \in C |-> r[p[i]]]
<1>17. q \in [C -> J]
  BY <1>15, <1>16
<1>18. \A i, j \in C : q[i] = q[j] => i = j
  BY <1>14, <1>15, <1>16
<1>19. \A k \in J : \E i \in C : q[i] = k
  <2> SUFFICES ASSUME NEW k \in J PROVE \E i \in C : q[i] = k
    OBVIOUS
  <2>1. PICK h \in H : r[h] = k
    BY <1>15
  <2>2. PICK i \in G : p[i] = h
    BY <1>7, <1>14, <2>1
  <2> QED
    BY <1>16, <2>1, <2>2
<1>20. \A i \in C : FlattenSeq(ss)[q[i]] = <<ops[at[i]].timestamp, ops[at[i + 1]].timestamp>>
  <2> SUFFICES ASSUME NEW i \in C
               PROVE  FlattenSeq(ss)[q[i]] = <<ops[at[i]].timestamp, ops[at[i + 1]].timestamp>>
    OBVIOUS
  <2>1. p[i] \in H /\ p[i] \in 1 .. m /\ i \in G
    BY <1>14, <1>16
  <2>2. FlattenSeq(ss)[q[i]] = u[p[i]]
    BY <1>11, <2>1
  <2>3. ns[p[i]] = <<ops[at[i]], ops[at[i + 1]]>>
    BY <1>5, <2>1
  <2>4. u[p[i]] = <<ns[p[i]][1].timestamp, ns[p[i]][2].timestamp>>
    BY <1>8, <2>1
  <2> QED
    BY <2>2, <2>3, <2>4
<1> HIDE DEF q
<1>21. q \in Bijection(C, J)
  BY <1>17, <1>18, <1>19 DEF Bijection, Injection, Surjection, IsInjective
<1>22. PlacesTimestamps(q, ops, at)
  BY <1>6, <1>12, <1>13, <1>20, <1>21 DEF PlacesTimestamps
<1> QED
  BY <1>22

\* A number below the divisor is its own remainder.
LEMMA SmallRemainder ==
  ASSUME NEW d \in Nat \ {0}, NEW v \in 0 .. d - 1
  PROVE  v % d = v
<1>1. v \in Int /\ v = d * 0 + v
  OBVIOUS
<1> QED
  BY <1>1, DivisionUnique

\* What is received from a table of timestamps.
TimestampReceived(rows) == Received(rows, LAMBDA r : <<r.x, r.y, r.is_equal = 1>>)

\* The rows of the timestamp table that are received are those of its entries.
LEMMA TimestampReceivedAre ==
  ASSUME NEW es, es \in Seq(Nat \X Nat), \A k \in 1 .. Len(es) : Fits(es[k])
  PROVE  TimestampReceived(TimestampTable(es)) = ToBag(Flagged(es))
<1> DEFINE Tuple(r) == <<r.x, r.y, r.is_equal = 1>>
           b == Flagged(es)
<1>0. PICK n \in Nat : n = Len(es)
  OBVIOUS
<1>1. PICK N \in Nat : N = NumRows(n) /\ N >= n
  BY NumRowsFit
<1>2. PICK rows : rows = TimestampTable(es)
  OBVIOUS
<1>3. rows = [k \in 1 .. N |-> IF k <= n THEN TimestampRow(es[k]) ELSE TimestampPadding]
  BY <1>0, <1>1, <1>2 DEF TimestampTable
<1>4. \A k \in 1 .. n : k \in 1 .. N /\ rows[k] = TimestampRow(es[k])
  BY <1>1, <1>3
<1>5. \A k \in n + 1 .. N : rows[k] = TimestampPadding
  BY <1>3
<1>6. TimestampPadding.mult = 0
  BY DEF TimestampPadding, TimestampRow
<1>7. ASSUME NEW k \in 1 .. n
      PROVE  rows[k].mult = 1 /\ Tuple(rows[k]) = b[k]
  <2>1. PICK x \in Nat, y \in Nat : es[k] = <<x, y>>
    <3>1. es[k] \in Nat \X Nat
      BY <1>0
    <3> QED
      BY ONLY <3>1, PairIs
  <2>2. es[k][1] = x /\ es[k][2] = y
    BY <2>1
  <2>3. x < P /\ y < P /\ P \in Nat
    <3>1. x < 2 ^ TsBits /\ y < 2 ^ TsBits
      BY <1>0, <2>2 DEF Fits
    <3>2. 2 ^ TsBits \in Nat /\ 2 ^ (TsBits + 1) = 2 * 2 ^ TsBits /\ 2 ^ (TsBits + 1) < P /\ P \in Nat
      BY Constants
    <3> QED
      BY <3>1, <3>2
  <2>4. x % P = x /\ y % P = y
    <3>1. PICK d \in Nat \ {0} : d = P
      BY <2>3
    <3>2. x \in 0 .. d - 1 /\ y \in 0 .. d - 1
      BY <2>3, <3>1
    <3> QED
      BY <3>1, <3>2, SmallRemainder
  <2>5. rows[k].x = x /\ rows[k].y = y /\ rows[k].mult = 1 /\ rows[k].is_equal = IF x = y THEN 1 ELSE 0
    <3>1. PICK xb, yb, vb, inv :
            TimestampRow(es[k]) = [x |-> x % P, y |-> y % P, x_bits |-> xb, y_bits |-> yb, v_bits |-> vb,
                                   diff_inv |-> inv, is_equal |-> IF x = y THEN 1 ELSE 0, mult |-> 1]
      BY <2>2 DEF TimestampRow
    <3>2. rows[k] = TimestampRow(es[k])
      BY <1>4
    <3> QED
      BY <2>4, <3>1, <3>2
  <2>6. (rows[k].is_equal = 1) = (x = y)
    BY <2>5
  <2>7. Tuple(rows[k]) = <<x, y, x = y>>
    BY <2>5, <2>6
  <2>8. b[k] = <<x, y, x = y>>
    <3>1. EntryAt(es, k, x, y)
      BY <1>0, <2>1 DEF EntryAt
    <3> QED
      BY <3>1, FlaggedIs
  <2> QED
    BY <2>5, <2>7, <2>8
<1>8. {k \in DOMAIN rows : rows[k].mult = 1} = 1 .. n
  <2>1. DOMAIN rows = 1 .. N
    BY <1>3
  <2>2. ASSUME NEW k \in 1 .. N, rows[k].mult = 1
        PROVE  k \in 1 .. n
    <3>1. k \in 1 .. n \/ k \in n + 1 .. N
      BY <1>1
    <3> QED
      BY <1>5, <1>6, <2>2, <3>1
  <2> QED
    BY <1>4, <1>7, <2>1, <2>2
<1> HIDE DEF b
<1>9. [k \in {k \in DOMAIN rows : rows[k].mult = 1} |-> Tuple(rows[k])] = b
  <2>1. [k \in {k \in DOMAIN rows : rows[k].mult = 1} |-> Tuple(rows[k])] = [k \in 1 .. n |-> Tuple(rows[k])]
    BY <1>8
  <2>2. b = [k \in 1 .. n |-> b[k]]
    BY <1>0 DEF b, Flagged
  <2>3. \A k \in 1 .. n : Tuple(rows[k]) = b[k]
    BY <1>7
  <2> HIDE DEF Tuple
  <2>4. [k \in 1 .. n |-> Tuple(rows[k])] = [k \in 1 .. n |-> b[k]]
    BY <2>3
  <2> QED
    BY <2>1, <2>2, <2>4
<1> QED
  BY <1>2, <1>9 DEF TimestampReceived, Received, b

\* What the memory table asks of the timestamp table, by place.
LEMMA TimestampSent ==
  ASSUME NEW S, NEW ops, IsTypedLog(ops, S), ops # <<>>, NEW at, TypedSorts(ops, at)
  PROVE  TimestampLtSent(TypedTable(ops)) =
           ToBag([i \in {i \in 1 .. Len(ops) - 1 : ops[at[i]].address = ops[at[i + 1]].address} |->
                    <<ops[at[i]].timestamp, ops[at[i + 1]].timestamp,
                      ops[at[i]].timestamp = ops[at[i + 1]].timestamp>>])
<1> DEFINE t == TypedTable(ops)
           n == Len(ops)
           N == NumRows(n)
           Row(i) == <<t[i].timestamp, t[i + 1].timestamp, t[i].is_timestamp_equal>>
           Tuple(i) == <<ops[at[i]].timestamp, ops[at[i + 1]].timestamp,
                         ops[at[i]].timestamp = ops[at[i + 1]].timestamp>>
           D == {i \in 1 .. n - 1 : ops[at[i]].address = ops[at[i + 1]].address}
<1>11. TimestampLtSent(t) = ToBag([i \in {i \in Transitions(t) : ~t[i + 1].is_padding /\ t[i].is_address_equal} |-> Row(i)])
  BY DEF TimestampLtSent, Sent
<1>12. /\ n \in Nat /\ N \in Nat /\ N >= n /\ N >= 1 /\ Len(t) = N
       /\ \A i \in 1 .. n :
            /\ ~t[i].is_padding /\ t[i].timestamp = ops[at[i]].timestamp
            /\ t[i].address = ops[at[i]].address
       /\ \A i \in n + 1 .. N : t[i].is_padding
       /\ \A i \in 1 .. N - 1 :
            /\ t[i].is_timestamp_equal = (t[i].timestamp = t[i + 1].timestamp)
            /\ t[i].is_address_equal = (t[i].address = t[i + 1].address)
  BY TypedTableRows
<1> HIDE DEF t, n, N
<1>13. ASSUME NEW i \in 1 .. n - 1
       PROVE  /\ i \in 1 .. N - 1 /\ i \in 1 .. n /\ i + 1 \in 1 .. n
              /\ t[i].is_address_equal <=> ops[at[i]].address = ops[at[i + 1]].address
              /\ Row(i) = Tuple(i)
  <2>1. i \in 1 .. N - 1 /\ i \in 1 .. n /\ i + 1 \in 1 .. n
    BY <1>12
  <2>2. t[i].is_address_equal = (ops[at[i]].address = ops[at[i + 1]].address)
    BY <1>12, <2>1
  <2>3. t[i].is_timestamp_equal = (ops[at[i]].timestamp = ops[at[i + 1]].timestamp)
    BY <1>12, <2>1
  <2>4. t[i].timestamp = ops[at[i]].timestamp /\ t[i + 1].timestamp = ops[at[i + 1]].timestamp
    BY <1>12, <2>1
  <2> QED
    BY <2>1, <2>2, <2>3, <2>4, Zenon
<1>14. {i \in Transitions(t) : ~t[i + 1].is_padding /\ t[i].is_address_equal} = D
  <2>1. Transitions(t) = 1 .. N - 1
    BY <1>12 DEF Transitions
  <2>2. ASSUME NEW i \in 1 .. N - 1, ~t[i + 1].is_padding, t[i].is_address_equal
        PROVE  i \in D
    <3>1. i + 1 \in 1 .. n
      <4>1. i + 1 \in 1 .. n \/ i + 1 \in n + 1 .. N
        BY <1>12
      <4> QED
        BY <1>12, <2>2, <4>1
    <3>2. i \in 1 .. n - 1
      BY <1>12, <3>1
    <3> QED
      BY <1>13, <2>2, <3>2
  <2>3. ASSUME NEW i \in D
        PROVE  i \in 1 .. N - 1 /\ ~t[i + 1].is_padding /\ t[i].is_address_equal
    BY <1>12, <1>13
  <2> QED
    BY <2>1, <2>2, <2>3
<1>15. [i \in D |-> Row(i)] = [i \in D |-> Tuple(i)]
  <2>1. \A i \in D : Row(i) = Tuple(i)
    BY <1>13
  <2> HIDE DEF Row, Tuple, D
  <2> QED
    BY <2>1
<1> QED
  BY <1>11, <1>14, <1>15 DEF t, n

\* Timestamps are numbers.
LEMMA TimestampEntriesNat ==
  ASSUME NEW S, NEW ops, IsTypedLog(ops, S), ops # <<>>, NEW at, TypedSorts(ops, at)
  PROVE  TypedTimestampLtEntries(ops) \in Seq(Nat \X Nat)
<1>1. PICK n \in Nat : n = Len(ops) /\ n >= 1
  <2>1. ops \in Seq(S)
    BY DEF IsTypedLog
  <2>2. Len(ops) # 0 /\ Len(ops) \in Nat
    BY <2>1, EmptySeq
  <2> QED
    BY <2>2
<1>2. PICK last \in Nat : last = ops[n].timestamp
  BY <1>1 DEF IsTypedLog
<1> DEFINE R == {ops[k] : k \in 1 .. n}
<1>3. \A k \in 1 .. n : ops[k].timestamp \in Nat /\ ops[k].timestamp < last + 1
  <2> SUFFICES ASSUME NEW k \in 1 .. n PROVE ops[k].timestamp \in Nat /\ ops[k].timestamp < last + 1
    OBVIOUS
  <2>1. ops[k].timestamp \in Nat
    BY <1>1 DEF IsTypedLog
  <2>2. k = n \/ k < n
    OBVIOUS
  <2>3. k < n => ops[k].timestamp < ops[n].timestamp
    BY <1>1 DEF IsTypedLog
  <2> QED
    BY <1>2, <2>1, <2>2, <2>3
<1>4. IsTypedLog(ops, R) /\ \A o \in R : o.timestamp < last + 1
  <2>1. ops \in Seq(R)
    <3>1. ops \in [1 .. n -> R]
      BY <1>1 DEF IsTypedLog
    <3> HIDE DEF R
    <3> QED
      BY <3>1
  <2>2. \A o \in R : o \in S
    BY <1>1 DEF IsTypedLog
  <2> QED
    BY <1>3, <2>1, <2>2 DEF IsTypedLog
<1> HIDE DEF R
<1>5. PICK bound \in Nat : bound = last + 1
  BY <1>2
<1>6. TypedTimestampLtEntries(ops) \in Seq((0 .. bound - 1) \X (0 .. bound - 1))
  BY <1>4, <1>5, TimestampEntries
<1> QED
  BY <1>6

\* Whatever it asks is in the timestamp table, and nothing else is, exactly if
\* no register meets a RAM cell.
LEMMA TimestampBusBalanced ==
  ASSUME NEW S, NEW ops, IsTypedLog(ops, S), ops # <<>>, NEW at, TypedSorts(ops, at),
         \A k \in DOMAIN TypedTimestampLtEntries(ops) : Fits(TypedTimestampLtEntries(ops)[k])
  PROVE  TimestampLtSent(TypedTable(ops)) = TimestampReceived(TimestampTable(TypedTimestampLtEntries(ops)))
           <=> ~ \E i \in 1 .. Len(ops) - 1 : Crosses(ops, at, i)
<1>1. PICK q : PlacesTimestamps(q, ops, at)
  BY TimestampPlaces
<1>2. PICK es : es = TypedTimestampLtEntries(ops) /\ es \in Seq(Nat \X Nat)
  BY TimestampEntriesNat
<1>3. PICK m \in Nat : m = Len(es) /\ DOMAIN es = 1 .. m
  BY <1>2
<1>4. PICK C : C = SameCells(ops, at)
  OBVIOUS
<1>5. /\ q \in Bijection(C, 1 .. m)
      /\ \A i \in C : es[q[i]] = <<ops[at[i]].timestamp, ops[at[i + 1]].timestamp>>
  BY <1>1, <1>2, <1>3, <1>4 DEF PlacesTimestamps
<1>6. TimestampReceived(TimestampTable(es)) = ToBag(Flagged(es))
  <2>1. \A k \in 1 .. Len(es) : Fits(es[k])
    BY <1>2, <1>3
  <2> QED
    BY <1>2, <2>1, TimestampReceivedAre
<1> DEFINE n == Len(ops)
           b == Flagged(es)
           Tuple(i) == <<ops[at[i]].timestamp, ops[at[i + 1]].timestamp,
                         ops[at[i]].timestamp = ops[at[i + 1]].timestamp>>
           D == {i \in 1 .. n - 1 : ops[at[i]].address = ops[at[i + 1]].address}
           a == [i \in D |-> Tuple(i)]
<1>7. TimestampLtSent(TypedTable(ops)) = ToBag(a)
  BY TimestampSent
<1>8. n \in Nat
  BY DEF IsTypedLog
<1>9. \A i \in 1 .. n - 1 :
        /\ i \in C <=> i \in D /\ ops[at[i]].memory_type = ops[at[i + 1]].memory_type
        /\ Crosses(ops, at, i) <=> i \in D /\ ~(ops[at[i]].memory_type = ops[at[i + 1]].memory_type)
  BY <1>4 DEF SameCells, SameTypes, Crosses
<1>10. C \subseteq D /\ D \subseteq 1 .. n - 1
  BY <1>4 DEF SameCells, SameTypes
<1>11. DOMAIN a = D /\ \A i \in D : a[i] = Tuple(i)
  OBVIOUS
<1>12. DOMAIN b = 1 .. m
  BY <1>3 DEF Flagged
<1>13. q \in [C -> 1 .. m] /\ \A k \in 1 .. m : \E i \in C : q[i] = k
  BY <1>5 DEF Bijection, Injection, Surjection
<1>14. \A i \in C : b[q[i]] = Tuple(i)
  <2> SUFFICES ASSUME NEW i \in C PROVE b[q[i]] = Tuple(i)
    OBVIOUS
  <2>1. q[i] \in 1 .. Len(es)
    BY <1>3, <1>13
  <2>2. EntryAt(es, q[i], ops[at[i]].timestamp, ops[at[i + 1]].timestamp)
    BY <1>5, <2>1 DEF EntryAt
  <2> QED
    BY <2>2, FlaggedIs
<1> HIDE DEF n, b, D, a
<1>15. CASE ~ \E i \in 1 .. n - 1 : Crosses(ops, at, i)
  <2>1. C = D
    BY <1>9, <1>10, <1>15
  <2>2. IsFiniteSet(D)
    <3>1. n - 1 \in Int
      BY <1>8
    <3>2. IsFiniteSet(1 .. n - 1)
      BY <3>1, FS_Interval
    <3> QED
      BY <1>10, <3>2, FS_Subset
  <2>3. \A i \in D : b[q[i]] = a[i]
    BY <1>11, <1>14, <2>1
  <2>4. q \in Bijection(DOMAIN a, DOMAIN b)
    BY <1>5, <1>11, <1>12, <2>1
  <2>5. ToBag(a) = ToBag(b)
    BY <1>11, <2>2, <2>3, <2>4, SameBag
  <2> QED
    BY <1>2, <1>6, <1>7, <1>15, <2>5 DEF b, n
<1>16. CASE \E i \in 1 .. n - 1 : Crosses(ops, at, i)
  <2>1. PICK i \in 1 .. n - 1 : Crosses(ops, at, i)
    BY <1>16
  <2>2. i \in D /\ i \notin C
    BY <1>9, <2>1
  <2>3. SUFFICES ASSUME ToBag(a) = ToBag(b) PROVE FALSE
    BY <1>2, <1>6, <1>7, <1>16 DEF b, n
  <2>4. DOMAIN ToBag(a) = Range(a) /\ DOMAIN ToBag(b) = Range(b)
    BY DEF ToBag
  <2>5. PICK k \in DOMAIN b : b[k] = a[i]
    <3>1. a[i] \in Range(a)
      BY <1>11, <2>2 DEF Range
    <3>2. a[i] \in Range(b)
      BY <2>3, <2>4, <3>1
    <3> QED
      BY <3>2 DEF Range
  <2>6. PICK j \in C : q[j] = k
    BY <1>12, <1>13, <2>5
  <2>7. Tuple(j) = Tuple(i)
    BY <1>11, <1>14, <2>2, <2>5, <2>6
  <2>8. ops[at[j]].timestamp = ops[at[i]].timestamp
    BY <2>7
  <2>9. /\ i \in 1 .. n /\ j \in 1 .. n /\ at[i] \in 1 .. n /\ at[j] \in 1 .. n
    <3>1. i \in 1 .. n - 1 /\ j \in 1 .. n - 1
      BY <1>10, <2>1
    <3> QED
      BY <3>1, SameTypesPlaces DEF n
  <2>10. \A k1, k2 \in 1 .. n : k1 < k2 => ops[k1].timestamp < ops[k2].timestamp
    BY DEF IsTypedLog, n
  <2>11. \A k1 \in 1 .. n : ops[k1].timestamp \in Nat
    BY DEF IsTypedLog, n
  <2>12. at[i] = at[j]
    <3>1. PICK k1 \in 1 .. n, k2 \in 1 .. n : k1 = at[i] /\ k2 = at[j]
      BY <2>9
    <3>2. ops[k1].timestamp = ops[k2].timestamp
      BY <2>8, <3>1
    <3>3. PICK s1 \in Nat, s2 \in Nat : s1 = ops[k1].timestamp /\ s2 = ops[k2].timestamp
      BY <2>11
    <3>4. (k1 < k2 => s1 < s2) /\ (k2 < k1 => s2 < s1) /\ s1 = s2
      BY <2>10, <3>2, <3>3
    <3>5. k1 = k2
      BY <1>8, <3>4
    <3> QED
      BY <3>1, <3>5
  <2>13. i = j
    BY <2>9, <2>12 DEF TypedSorts, Bijection, Injection, IsInjective, n
  <2> QED
    BY <2>2, <2>6, <2>13
<1> QED
  BY <1>15, <1>16 DEF n

\* Whatever the log, the tables hold what the memory table asks of them, and
\* that alone, except for the timestamps of a register that meets a RAM cell.
THEOREM ComparisonBusesAreBalanced == ComparisonSpec => []ComparisonBusesBalanced
<1>1. ComparisonInv => ComparisonBusesBalanced
  <2> SUFFICES ASSUME ComparisonInv, Built
               PROVE  /\ TypedAddressLtSent(tables.memory) = U32Received(tables.u32_lt)
                      /\ (\A k \in DOMAIN TypedTimestampLtEntries(log) : Fits(TypedTimestampLtEntries(log)[k])) =>
                           (TimestampLtSent(tables.memory) = TimestampReceived(tables.timestamp_lt) <=> ~Meeting)
    BY DEF ComparisonBusesBalanced, U32Received, TimestampReceived, Received
  <2>1. PICK S : IsTypedLog(log, S)
    BY DEF ComparisonInv, LogInOrder
  <2>2. /\ log # <<>> /\ tables.memory = TypedTable(log)
        /\ tables.u32_lt = U32Table(TypedAddressLtEntries(log))
        /\ tables.timestamp_lt = TimestampTable(TypedTimestampLtEntries(log))
    BY DEF ComparisonInv, TablesOfLog
  <2>3. PICK w \in Nat \ {0} : w = 2 ^ (LimbBits * NumLimbs)
    <3>1. 2 ^ (TsBits + 1) <= 2 ^ (LimbBits * NumLimbs) /\ 2 ^ (LimbBits * NumLimbs) \in Nat
          /\ 2 ^ (TsBits + 1) = 2 * 2 ^ TsBits /\ 2 ^ TsBits \in Nat \ {0}
      BY Constants
    <3> QED
      BY <3>1
  <2>4. \A k \in 1 .. Len(log) : log[k].address \in Nat /\ log[k].address <= w - 1
    BY <2>1, <2>3 DEF ComparisonInv, LogOfCells, IsTypedLog
  <2>5. \A k \in 1 .. Len(log) : log[k].address < w
    BY <2>4
  <2>6. TypedAddressLtSent(tables.memory) = U32Received(tables.u32_lt)
    <3>1. \A k \in 1 .. Len(log) : log[k].address < 2 ^ (LimbBits * NumLimbs)
      BY <2>3, <2>5
    <3> QED
      BY <2>1, <2>2, <3>1, AddressBusBalanced
  <2>7. PICK at : TypedSorts(log, at)
    BY <2>1, TypedSortedSorts
  <2>8. Meeting <=> \E i \in 1 .. Len(log) - 1 : Crosses(log, at, i)
    <3>1. PICK b \in Nat : \A k \in 1 .. Len(log) : log[k].address <= b
      <4>1. w - 1 \in Nat
        OBVIOUS
      <4> QED
        BY <2>4, <4>1
    <3> QED
      BY <2>1, <2>2, <2>7, <3>1, MeetingCrosses
  <2>9. ASSUME \A k \in DOMAIN TypedTimestampLtEntries(log) : Fits(TypedTimestampLtEntries(log)[k])
        PROVE  TimestampLtSent(tables.memory) = TimestampReceived(tables.timestamp_lt) <=> ~Meeting
    BY <2>1, <2>2, <2>7, <2>8, <2>9, TimestampBusBalanced
  <2> QED
    BY <2>6, <2>9
<1> QED
  BY <1>1, ComparisonSound, PTL

(***************************************************************************)
(* The pairs of bytes and how often each is asked for.                     *)
(***************************************************************************)
\* The number of pairs below a byte.
Triangle(n) == (n * (n - 1)) \div 2

LEMMA TriangleStep ==
  ASSUME NEW n \in Nat
  PROVE  Triangle(0) = 0 /\ Triangle(n + 1) = Triangle(n) + n
<1>1. PICK v \in Int : v = n * (n - 1)
  OBVIOUS
<1>2. (n + 1) * ((n + 1) - 1) = 2 * n + v
  BY <1>1
<1>3. (2 * n + v) \div 2 = n + (v \div 2)
  <2>1. 2 \in Nat \ {0} /\ n \in Int
    OBVIOUS
  <2> QED
    BY <2>1, AddMultiple
<1>4. v \div 2 \in Int
  OBVIOUS
<1>5. Triangle(n + 1) = Triangle(n) + n
  BY <1>1, <1>2, <1>3, <1>4 DEF Triangle
<1>6. 0 * (0 - 1) = 0 /\ 0 \div 2 = 0
  OBVIOUS
<1>7. Triangle(0) = 0
  BY <1>6 DEF Triangle
<1> QED
  BY <1>5, <1>7

\* Every pair x < y of bytes is in the table, at its row.
LEMMA PairRowIs ==
  ASSUME NEW y \in 0 .. Base - 1, NEW x \in 0 .. y - 1
  PROVE  /\ PairRow(x, y) \in 0 .. Len(BytePairs) - 1
         /\ BytePairs[PairRow(x, y) + 1] = <<x, y>>
<1>0. PICK b \in Nat \ {0, 1} : b = Base
  BY Constants
<1> DEFINE S  == (0 .. b - 1) \X (0 .. b - 1)
           Block(n) == [m \in 1 .. n - 1 |-> <<m - 1, n - 1>>]
           ss == [n \in 1 .. b |-> Block(n)]
           pre(k) == FlattenSeq(Prefix(ss, k))
           At(k, u, v) == /\ PairRow(u, v) \in 0 .. Len(pre(k)) - 1
                          /\ pre(k)[PairRow(u, v) + 1] = <<u, v>>
           K == {k \in 0 .. b : /\ Len(pre(k)) = Triangle(k)
                                /\ \A v \in 0 .. k - 1 : \A u \in 0 .. v - 1 : At(k, u, v)}
<1>1. \A n \in 1 .. b : Block(n) \in Seq(S)
  <2> SUFFICES ASSUME NEW n \in 1 .. b PROVE Block(n) \in Seq(S)
    OBVIOUS
  <2>1. \A m \in 1 .. n - 1 : <<m - 1, n - 1>> \in S
    OBVIOUS
  <2> HIDE DEF S
  <2> QED
    BY <2>1
<1>2. ss \in Seq(Seq(S)) /\ Len(ss) = b /\ \A n \in 1 .. b : ss[n] = Block(n)
  <2>1. PICK Q : Q = Seq(S)
    OBVIOUS
  <2>2. \A n \in 1 .. b : Block(n) \in Q
    BY <1>1, <2>1
  <2> HIDE DEF S, Block
  <2>3. ss \in Seq(Q) /\ Len(ss) = b
    BY <2>2
  <2> QED
    BY <2>1, <2>3
<1>3. \A n \in 1 .. b : Len(Block(n)) = n - 1 /\ \A m \in 1 .. n - 1 : Block(n)[m] = <<m - 1, n - 1>>
  OBVIOUS
<1> HIDE DEF S, Block, ss
<1>4. /\ pre(0) = <<>> /\ pre(b) = FlattenSeq(ss)
      /\ \A k \in 0 .. b : pre(k) \in Seq(S)
      /\ \A k \in 0 .. b - 1 : pre(k + 1) = pre(k) \o ss[k + 1]
  BY <1>2, FlattenPrefix
<1> HIDE DEF pre
<1>5. 0 \in K
  <2>1. Len(pre(0)) = Triangle(0)
    BY <1>4, TriangleStep
  <2> QED
    BY <1>0, <2>1
<1>6. ASSUME NEW k \in 0 .. b - 1, k \in K
      PROVE  k + 1 \in K
  <2>0. k \in Nat /\ k + 1 \in 1 .. b /\ k + 1 \in 0 .. b /\ k \in 0 .. b
    BY <1>0
  <2>1. PICK f \in Seq(S) : f = pre(k)
    BY <1>4, <2>0
  <2>2. PICK g \in Seq(S) : g = Block(k + 1)
    BY <1>1, <2>0
  <2>3. PICK h : h = pre(k + 1)
    OBVIOUS
  <2>4. h = f \o g
    BY <1>2, <1>4, <2>0, <2>1, <2>2, <2>3
  <2>5. PICK l \in Nat : l = Len(f) /\ l = Triangle(k)
    BY <1>6, <2>1
  <2>6. Len(g) = k /\ \A m \in 1 .. k : g[m] = <<m - 1, k>>
    <3>1. Len(Block(k + 1)) = (k + 1) - 1
          /\ \A m \in 1 .. (k + 1) - 1 : Block(k + 1)[m] = <<m - 1, (k + 1) - 1>>
      BY <1>3, <2>0
    <3>2. (k + 1) - 1 = k
      BY <2>0
    <3> QED
      BY <2>2, <3>1, <3>2
  <2>7. Len(h) = l + k /\ (\A i \in 1 .. l : h[i] = f[i]) /\ \A m \in 1 .. k : h[l + m] = g[m]
    <3>1. /\ Len(f \o g) = Len(f) + Len(g)
          /\ \A i \in 1 .. Len(f) + Len(g) : (f \o g)[i] = IF i <= Len(f) THEN f[i] ELSE g[i - Len(f)]
      BY ConcatProperties
    <3>2. Len(h) = l + k /\ \A i \in 1 .. l + k : h[i] = IF i <= l THEN f[i] ELSE g[i - l]
      BY <2>4, <2>5, <2>6, <3>1
    <3>3. \A i \in 1 .. l : i \in 1 .. l + k /\ i <= l
      BY <2>0
    <3>4. \A m \in 1 .. k : l + m \in 1 .. l + k /\ ~(l + m <= l) /\ (l + m) - l = m
      BY <2>0
    <3> QED
      BY <3>2, <3>3, <3>4
  <2>8. Triangle(k + 1) = l + k
    BY <2>0, <2>5, TriangleStep
  <2>9. ASSUME NEW v \in 0 .. k, NEW u \in 0 .. v - 1
        PROVE  PairRow(u, v) \in 0 .. l + k - 1 /\ h[PairRow(u, v) + 1] = <<u, v>>
    <3>1. CASE v < k
      <4>1. v \in 0 .. k - 1
        BY <2>0, <3>1
      <4>2. PICK r : r = PairRow(u, v)
        OBVIOUS
      <4>3. r \in 0 .. l - 1 /\ f[r + 1] = <<u, v>>
        BY <1>6, <2>1, <2>5, <4>1, <4>2
      <4>4. r \in 0 .. l + k - 1 /\ r + 1 \in 1 .. l
        BY <2>0, <4>3
      <4> QED
        BY <2>7, <4>2, <4>3, <4>4
    <3>2. CASE v = k
      <4>1. PairRow(u, v) = l + u
        BY <2>5, <3>2 DEF PairRow, Triangle
      <4>2. u + 1 \in 1 .. k /\ (l + u) + 1 = l + (u + 1) /\ (u + 1) - 1 = u /\ l + u \in 0 .. l + k - 1
        BY <2>0, <3>2
      <4>3. h[l + (u + 1)] = <<u, k>>
        BY <2>6, <2>7, <4>2
      <4> QED
        BY <3>2, <4>1, <4>2, <4>3
    <3>3. v < k \/ v = k
      BY <2>0
    <3> QED
      BY <3>1, <3>2, <3>3
  <2>10. \A v \in 0 .. (k + 1) - 1 : \A u \in 0 .. v - 1 : At(k + 1, u, v)
    <3>1. (k + 1) - 1 = k
      BY <2>0
    <3>2. ASSUME NEW v \in 0 .. k, NEW u \in 0 .. v - 1
          PROVE  At(k + 1, u, v)
      <4>1. PairRow(u, v) \in 0 .. Len(h) - 1 /\ h[PairRow(u, v) + 1] = <<u, v>>
        BY <2>7, <2>9
      <4> QED
        BY <2>3, <4>1
    <3> QED
      BY <3>1, <3>2
  <2> QED
    BY <2>0, <2>3, <2>7, <2>8, <2>10
<1>7. b \in K
  <2>1. 0 .. b \subseteq K
    <3> HIDE DEF K
    <3> QED
      BY <1>5, <1>6, InductionTo
  <2>2. b \in 0 .. b
    BY <1>0
  <2> QED
    BY <2>1, <2>2
<1>8. At(b, x, y)
  BY <1>0, <1>7
<1>9. BytePairs = FlattenSeq(ss)
  BY <1>0 DEF BytePairs, ss, Block
<1> QED
  BY <1>4, <1>8, <1>9

\* Selecting nothing, and selecting one.
LEMMA SelectFew ==
  ASSUME NEW ss, NEW n, NEW u, NEW G, NEW S, SelectsFrom(ss, n, u, G, S)
  PROVE  /\ G = {} => FlattenSeq(ss) = <<>>
         /\ \A t : G = {t} => FlattenSeq(ss) = <<u[t]>>
<1>1. FlattenSeq(ss) \in Seq(S)
      /\ \E p \in Bijection(G, 1 .. Len(FlattenSeq(ss))) : \A i \in G : FlattenSeq(ss)[p[i]] = u[i]
  BY Selected
<1>2. PICK f \in Seq(S) : f = FlattenSeq(ss)
  BY <1>1
<1>3. PICK p \in Bijection(G, 1 .. Len(f)) : \A i \in G : f[p[i]] = u[i]
  BY <1>1, <1>2
<1>4. PICK l \in Nat : l = Len(f) /\ f = [k \in 1 .. l |-> f[k]]
  BY <1>2
<1>5. p \in [G -> 1 .. l] /\ \A k \in 1 .. l : \E i \in G : p[i] = k
  BY <1>3, <1>4 DEF Bijection, Injection, Surjection
<1>6. ASSUME G = {}
      PROVE  f = <<>>
  <2>1. 1 .. l = {}
    BY <1>5, <1>6
  <2>2. l = 0
    <3>1. l >= 1 => 1 \in 1 .. l
      BY <1>4
    <3> QED
      BY <1>4, <2>1, <3>1
  <2> QED
    BY <1>2, <1>4, <2>2, EmptySeq
<1>7. ASSUME NEW t, G = {t}
      PROVE  f = <<u[t]>>
  <2>1. t \in G /\ p[t] \in 1 .. l
    BY <1>5, <1>7
  <2>2. \A k \in 1 .. l : k = p[t]
    BY <1>5, <1>7
  <2>3. 1 \in 1 .. l /\ l \in 1 .. l
    BY <1>4, <2>1
  <2>4. p[t] = 1 /\ l = 1
    BY <2>2, <2>3
  <2>5. f[1] = u[t]
    BY <1>3, <2>1, <2>4
  <2>6. Len(f) = 1
    BY <1>4, <2>4
  <2>7. f = <<f[1]>>
    BY <2>6
  <2> QED
    BY <2>5, <2>7
<1> QED
  BY <1>2, <1>6, <1>7

\* What a row sends, by its marks.
LEMMA MarkedSends ==
  ASSUME NEW row
  PROVE  /\ (\A i \in Limb : row.mult_lts[i] = 0) => U32Sends(row) = <<>>
         /\ \A t \in Limb : (\A i \in Limb : row.mult_lts[i] = IF i = t THEN 1 ELSE 0)
                               => U32Sends(row) = << <<row.x[t], row.y[t]>> >>
<1>0. PICK n \in Nat \ {0} : n = NumLimbs /\ Limb = 0 .. n - 1
  BY Constants DEF Limb
<1> DEFINE u  == [k \in 1 .. n |-> <<row.x[k - 1], row.y[k - 1]>>]
           S  == {u[k] : k \in 1 .. n}
           G  == {k \in 1 .. n : row.mult_lts[k - 1] = 1}
           ss == [k \in 1 .. n |-> IF k \in G THEN <<u[k]>> ELSE <<>>]
<1>1. U32Sends(row) = FlattenSeq(ss)
  <2>1. ss = [k \in 1 .. NumLimbs |->
                IF row.mult_lts[k - 1] = 1 THEN << <<row.x[k - 1], row.y[k - 1]>> >> ELSE <<>>]
    BY <1>0
  <2> HIDE DEF ss
  <2> QED
    BY <2>1 DEF U32Sends
<1>2. SelectsFrom(ss, n, u, G, S)
  <2>1. u \in [1 .. n -> S]
    OBVIOUS
  <2>2. Selects(ss, n, u, G)
    BY DEF Selects
  <2> QED
    BY <2>1, <2>2 DEF SelectsFrom
<1>3. \A k \in 1 .. n : k - 1 \in Limb
  BY <1>0
<1>4. \A t \in Limb : t + 1 \in 1 .. n /\ (t + 1) - 1 = t
  BY <1>0
<1>5. ASSUME \A i \in Limb : row.mult_lts[i] = 0
      PROVE  G = {}
  BY <1>3, <1>5
<1>6. ASSUME NEW t \in Limb, \A i \in Limb : row.mult_lts[i] = IF i = t THEN 1 ELSE 0
      PROVE  G = {t + 1} /\ u[t + 1] = <<row.x[t], row.y[t]>>
  <2>1. t + 1 \in G
    BY <1>4, <1>6
  <2>2. ASSUME NEW k \in G PROVE k = t + 1
    <3>1. k \in 1 .. n /\ k - 1 \in Limb /\ row.mult_lts[k - 1] = 1
      BY <1>3
    <3>2. k - 1 = t
      BY <1>6, <3>1
    <3> QED
      BY <1>0, <3>1, <3>2
  <2>3. u[t + 1] = <<row.x[t], row.y[t]>>
    BY <1>4
  <2> QED
    BY <2>1, <2>2, <2>3
<1> HIDE DEF u, G, S, ss
<1>7. /\ G = {} => FlattenSeq(ss) = <<>>
      /\ \A t : G = {t} => FlattenSeq(ss) = <<u[t]>>
  BY <1>2, SelectFew
<1>8. ASSUME NEW t \in Limb, \A i \in Limb : row.mult_lts[i] = IF i = t THEN 1 ELSE 0
      PROVE  U32Sends(row) = << <<row.x[t], row.y[t]>> >>
  <2>1. G = {t + 1} /\ u[t + 1] = <<row.x[t], row.y[t]>>
    BY <1>6, <1>8
  <2> QED
    BY <1>1, <1>7, <2>1
<1> QED
  BY <1>1, <1>5, <1>7, <1>8

\* The limbs that decide, of two words.
Deciding(x, y) ==
  LET at == CHOOSE i \in Limb : x[i] # y[i] /\ \A j \in Limb : j > i => x[j] = y[j]
  IN  IF x[at] < y[at] THEN <<x[at], y[at]>> ELSE <<y[at], x[at]>>

\* The row of two addresses in order sends the limbs that decide, if any.
LEMMA DecidingSent ==
  ASSUME NEW a \in Nat, NEW b \in Nat, a <= b, b < 2 ^ (LimbBits * NumLimbs),
         NEW row, Orders(row, LimbsOf(a), LimbsOf(b))
  PROVE  /\ a = b => U32Sends(row) = <<>>
         /\ a # b => /\ U32Sends(row) = <<DecidingPair(<<a, b>>)>>
                     /\ DecidingPair(<<a, b>>)[2] \in 0 .. Base - 1
                     /\ DecidingPair(<<a, b>>)[1] \in 0 .. DecidingPair(<<a, b>>)[2] - 1
<1>1. PICK x : x = LimbsOf(a)
  OBVIOUS
<1>2. PICK y : y = LimbsOf(b)
  OBVIOUS
<1>3. IsWord(x) /\ IsWord(y)
  BY <1>1, <1>2, LimbsOfIsWord
<1>4. row.x = x /\ row.y = y /\ row.mult_lts = MultLts(x, y)
  BY <1>1, <1>2 DEF Orders
<1>5. ValueOfLimbs(x) = a /\ ValueOfLimbs(y) = b
  <2>1. PICK w \in Nat : w = 2 ^ (LimbBits * NumLimbs)
    BY Constants
  <2>2. a < w /\ b < w
    BY <2>1
  <2> QED
    BY <1>1, <1>2, <2>1, <2>2, LimbsValue
<1>6. x = y <=> a = b
  BY <1>1, <1>2, <1>5
<1>7. \/ x = y /\ \A i \in Limb : row.mult_lts[i] = 0
      \/ \E t \in Limb :
           /\ x # y /\ x[t] # y[t]
           /\ \A i \in Limb : row.mult_lts[i] = IF i = t THEN 1 ELSE 0
           /\ \A i \in Limb : i > t => x[i] = y[i]
  BY <1>3, <1>4, MultLtsMarks
<1>8. ASSUME a = b
      PROVE  U32Sends(row) = <<>>
  <2>1. \A i \in Limb : row.mult_lts[i] = 0
    BY <1>6, <1>7, <1>8
  <2> QED
    BY <2>1, MarkedSends
<1>9. ASSUME a # b
      PROVE  \E l, h : /\ U32Sends(row) = << <<l, h>> >> /\ DecidingPair(<<a, b>>) = <<l, h>>
                       /\ h \in 0 .. Base - 1 /\ l \in 0 .. h - 1
  <2>1. PICK t \in Limb :
          /\ x[t] # y[t]
          /\ \A i \in Limb : row.mult_lts[i] = IF i = t THEN 1 ELSE 0
          /\ \A i \in Limb : i > t => x[i] = y[i]
    BY <1>6, <1>7, <1>9
  <2>2. PICK n \in Nat \ {0} : n = NumLimbs /\ Limb = 0 .. n - 1
    BY Constants DEF Limb
  <2>3. PICK c \in Nat \ {0, 1} : c = Base
    BY Constants
  <2>4. PICK l \in 0 .. c - 1, h \in 0 .. c - 1 : l = x[t] /\ h = y[t]
    BY <1>3, <2>3 DEF IsWord
  <2>5. l < h
    <3>1. ASSUME h < l PROVE FALSE
      <4>1. y[t] < x[t] /\ \A i \in Limb : i > t => y[i] = x[i]
        BY <2>1, <2>4, <3>1
      <4>2. ValueOfLimbs(y) < ValueOfLimbs(x)
        BY <1>3, <4>1, LimbDecides
      <4> QED
        BY <1>5, <4>2
    <3> QED
      BY <2>1, <2>3, <2>4, <3>1
  <2>6. (CHOOSE i \in Limb : x[i] # y[i] /\ \A j \in Limb : j > i => x[j] = y[j]) = t
    <3>1. ASSUME NEW i \in Limb, x[i] # y[i], \A j \in Limb : j > i => x[j] = y[j]
          PROVE  i = t
      BY <2>1, <2>2, <3>1
    <3> QED
      BY <2>1, <3>1
  <2>7. DecidingPair(<<a, b>>) = IF x[t] < y[t] THEN <<x[t], y[t]>> ELSE <<y[t], x[t]>>
    <3>1. PICK e : e = <<a, b>>
      OBVIOUS
    <3>2. LimbsOf(e[1]) = x /\ LimbsOf(e[2]) = y
      BY <1>1, <1>2, <3>1
    <3>3. DecidingPair(e) = Deciding(LimbsOf(e[1]), LimbsOf(e[2]))
      BY DEF DecidingPair, Deciding
    <3>4. DecidingPair(e) = Deciding(x, y)
      BY <3>2, <3>3
    <3> QED
      BY <2>6, <3>1, <3>4 DEF Deciding
  <2>8. DecidingPair(<<a, b>>) = <<l, h>>
    BY <2>4, <2>5, <2>7
  <2>9. U32Sends(row) = << <<x[t], y[t]>> >>
    BY <1>4, <2>1, MarkedSends
  <2> QED
    BY <2>3, <2>4, <2>5, <2>8, <2>9
<1>10. ASSUME a # b
       PROVE  /\ U32Sends(row) = <<DecidingPair(<<a, b>>)>>
              /\ DecidingPair(<<a, b>>)[2] \in 0 .. Base - 1
              /\ DecidingPair(<<a, b>>)[1] \in 0 .. DecidingPair(<<a, b>>)[2] - 1
  <2>1. PICK l, h : /\ U32Sends(row) = << <<l, h>> >> /\ DecidingPair(<<a, b>>) = <<l, h>>
                    /\ h \in 0 .. Base - 1 /\ l \in 0 .. h - 1
    BY <1>9, <1>10
  <2>2. DecidingPair(<<a, b>>)[1] = l /\ DecidingPair(<<a, b>>)[2] = h
    BY <2>1
  <2> QED
    BY <2>1, <2>2
<1> QED
  BY <1>8, <1>10

\* The addresses of an entry are in order.
LEMMA EntriesInOrder ==
  ASSUME NEW S, NEW ops, IsTypedLog(ops, S), ops # <<>>,
         \A k \in 1 .. Len(ops) : ops[k].address < 2 ^ (LimbBits * NumLimbs),
         NEW k \in 1 .. Len(TypedAddressLtEntries(ops))
  PROVE  \E a, b \in Nat : /\ TypedAddressLtEntries(ops)[k] = <<a, b>>
                           /\ a <= b /\ b < 2 ^ (LimbBits * NumLimbs)
<1>1. PICK at : TypedSorts(ops, at)
  BY TypedSortedSorts
<1>2. PICK ns : ns = TypedNeighbours(ops) /\ ns \in Seq(S \X S)
  BY TypedNeighboursOfLog
<1>3. PICK es : es = TypedAddressLtEntries(ops)
  OBVIOUS
<1>4. k \in 1 .. Len(ns) /\ es[k] = <<ns[k][1].address, ns[k][2].address>>
  <2>1. es = [j \in 1 .. Len(ns) |-> <<ns[j][1].address, ns[j][2].address>>]
    BY <1>2, <1>3 DEF TypedAddressLtEntries
  <2>2. Len(ns) \in Nat
    BY <1>2
  <2>3. Len(es) = Len(ns)
    BY <2>1, <2>2
  <2> QED
    BY <1>3, <2>1, <2>3
<1>5. PICK p : PlacesNeighbours(p, ops, at)
  BY <1>1, NeighbourPlaces
<1>6. PICK i \in SameTypes(ops, at) : ns[k] = <<ops[at[i]], ops[at[i + 1]]>>
  BY <1>2, <1>4, <1>5 DEF PlacesNeighbours, Bijection, Surjection
<1>7. i \in 1 .. Len(ops) - 1 /\ ops[at[i]].memory_type = ops[at[i + 1]].memory_type
  BY DEF SameTypes
<1>8. /\ i \in 1 .. Len(ops) /\ i + 1 \in 1 .. Len(ops)
      /\ at[i] \in 1 .. Len(ops) /\ at[i + 1] \in 1 .. Len(ops)
      /\ ops[at[i]] \in S /\ ops[at[i + 1]] \in S
  BY <1>1, <1>7, SameTypesPlaces
<1>9. ByTypedCell(ops, at[i], at[i + 1])
  <2>1. i < i + 1
    BY <1>7
  <2> QED
    BY <1>1, <1>8, <2>1 DEF TypedSorts
<1>10. PICK a \in Nat, b \in Nat : a = ops[at[i]].address /\ b = ops[at[i + 1]].address
  BY <1>8 DEF IsTypedLog
<1>11. ops[at[i]].memory_type \in {0, 1} /\ ops[at[i + 1]].memory_type \in {0, 1}
  BY <1>8 DEF IsTypedLog, Register, Ram
<1>12. a <= b
  <2>1. PICK u \in Nat : u = ops[at[i]].memory_type /\ u = ops[at[i + 1]].memory_type
    BY <1>7, <1>11
  <2>2. ~(ops[at[i]].memory_type < ops[at[i + 1]].memory_type)
    <3>1. ~(u < u)
      OBVIOUS
    <3> QED
      BY <2>1, <3>1
  <2>3. ByCell(ops, at[i], at[i + 1])
    BY <1>9, <2>2 DEF ByTypedCell
  <2>4. ops[at[i]].address < ops[at[i + 1]].address \/ ops[at[i]].address = ops[at[i + 1]].address
    BY <2>3 DEF ByCell
  <2> QED
    BY <1>10, <2>4
<1>13. es[k] = <<a, b>>
  BY <1>4, <1>6, <1>10
<1>14. b < 2 ^ (LimbBits * NumLimbs)
  BY <1>8, <1>10
<1> QED
  BY <1>3, <1>12, <1>13, <1>14

\* Entries of addresses, the smaller first.
InOrder(es) ==
  /\ es \in Seq(Nat \X Nat)
  /\ \A k \in 1 .. Len(es) : \E a, b \in Nat : /\ es[k] = <<a, b>>
                                               /\ a <= b /\ b < 2 ^ (LimbBits * NumLimbs)

\* The entries of two different addresses.
Unequal(es) == {k \in DOMAIN es : es[k][1] # es[k][2]}

\* What the rows of a table send.
AllSent(rows) == FlattenSeq([k \in DOMAIN rows |-> U32Sends(rows[k])])

\* p puts the deciding limbs of each entry where the table sends them.
PlacesDeciding(p, es, flat) ==
  /\ p \in Bijection(Unequal(es), DOMAIN flat)
  /\ \A k \in Unequal(es) : flat[p[k]] = DecidingPair(es[k])

\* The deciding limbs of an entry are bytes in order.
LEMMA DecidingIs ==
  ASSUME NEW es, InOrder(es), NEW k \in Unequal(es)
  PROVE  LET d == DecidingPair(es[k])
         IN  d[2] \in 0 .. Base - 1 /\ d[1] \in 0 .. d[2] - 1 /\ d = <<d[1], d[2]>>
<1>1. k \in 1 .. Len(es) /\ es[k][1] # es[k][2]
  BY DEF Unequal, InOrder
<1>2. PICK a \in Nat, b \in Nat : es[k] = <<a, b>> /\ a <= b /\ b < 2 ^ (LimbBits * NumLimbs)
  BY <1>1 DEF InOrder
<1>3. a # b
  BY <1>1, <1>2
<1>4. Orders(U32Row(<<a, b>>), LimbsOf(a), LimbsOf(b))
  BY U32RowOrders
<1>5. PICK d : d = DecidingPair(es[k])
  OBVIOUS
<1>6. d[2] \in 0 .. Base - 1 /\ d[1] \in 0 .. d[2] - 1
  BY <1>2, <1>3, <1>4, <1>5, DecidingSent
<1>7. d = <<d[1], d[2]>>
  <2>1. PICK e : e = es[k]
    OBVIOUS
  <2>2. PICK l, h : DecidingPair(e) = <<l, h>>
    BY DEF DecidingPair
  <2> QED
    BY <1>5, <2>1, <2>2
<1> QED
  BY <1>5, <1>6, <1>7

\* The address table sends the deciding limbs of the entries of two different
\* addresses.
LEMMA DecidingPlaces ==
  ASSUME NEW es, InOrder(es)
  PROVE  \E p : PlacesDeciding(p, es, AllSent(U32Table(es)))
<1>1. PICK n \in Nat : n = Len(es) /\ DOMAIN es = 1 .. n
  BY DEF InOrder
<1>2. PICK N \in Nat : N = NumRows(n) /\ N >= n
  BY <1>1, NumRowsFit
<1>3. PICK rows : rows = U32Table(es)
  OBVIOUS
<1>4. rows = [k \in 1 .. N |-> IF k <= n THEN U32Row(es[k]) ELSE U32Padding]
  BY <1>1, <1>2, <1>3 DEF U32Table
<1>5. PICK G : G = Unequal(es)
  OBVIOUS
<1>6. G \in SUBSET (1 .. N) /\ \A k \in 1 .. n : k \in G <=> es[k][1] # es[k][2]
  <2>1. 1 .. n \subseteq 1 .. N
    BY <1>2
  <2> QED
    BY <1>1, <1>5, <2>1 DEF Unequal
<1> DEFINE u == [k \in 1 .. N |-> IF k \in G THEN DecidingPair(es[k]) ELSE <<0, 0>>]
           S == {u[k] : k \in 1 .. N}
           ss == [k \in 1 .. N |-> IF k \in G THEN <<u[k]>> ELSE <<>>]
<1>7. ASSUME NEW k \in 1 .. N
      PROVE  U32Sends(rows[k]) = ss[k]
  <2>1. CASE k <= n
    <3>1. k \in 1 .. n /\ rows[k] = U32Row(es[k])
      BY <1>4, <2>1
    <3>2. PICK a \in Nat, b \in Nat : es[k] = <<a, b>> /\ a <= b /\ b < 2 ^ (LimbBits * NumLimbs)
      BY <1>1, <3>1 DEF InOrder
    <3>3. Orders(U32Row(<<a, b>>), LimbsOf(a), LimbsOf(b))
      BY U32RowOrders
    <3>4. /\ a = b => U32Sends(U32Row(<<a, b>>)) = <<>>
          /\ a # b => U32Sends(U32Row(<<a, b>>)) = <<DecidingPair(<<a, b>>)>>
      BY <3>2, <3>3, DecidingSent
    <3>5. rows[k] = U32Row(<<a, b>>) /\ (k \in G <=> a # b)
      BY <1>6, <3>1, <3>2
    <3>6. k \in G => u[k] = DecidingPair(<<a, b>>)
      BY <3>2
    <3>7. ss[k] = IF k \in G THEN <<u[k]>> ELSE <<>>
      OBVIOUS
    <3> HIDE DEF u, ss
    <3> QED
      BY <3>4, <3>5, <3>6, <3>7
  <2>2. CASE ~(k <= n)
    <3>1. rows[k] = [U32Row(<<0, 0>>) EXCEPT !.mult = 0] /\ k \notin G
      BY <1>1, <1>4, <1>5, <2>2 DEF U32Padding, Unequal
    <3>2. Orders([U32Row(<<0, 0>>) EXCEPT !.mult = 0], LimbsOf(0), LimbsOf(0))
      BY U32RowOrders
    <3>3. 0 < 2 ^ (LimbBits * NumLimbs)
      <4>1. PICK w \in Nat : w = 2 ^ (LimbBits * NumLimbs) /\ 2 ^ (TsBits + 1) <= w
        BY Constants
      <4>2. PICK v \in Nat \ {0} : 2 ^ (TsBits + 1) = 2 * v
        BY Constants
      <4> QED
        BY <4>1, <4>2
    <3>4. PICK z : z = [U32Row(<<0, 0>>) EXCEPT !.mult = 0]
      OBVIOUS
    <3>5. U32Sends(z) = <<>>
      <4>1. 0 \in Nat /\ 0 <= 0 /\ 0 < 2 ^ (LimbBits * NumLimbs) /\ Orders(z, LimbsOf(0), LimbsOf(0))
        BY <3>2, <3>3, <3>4
      <4> QED
        BY <4>1, DecidingSent
    <3> QED
      BY <3>1, <3>4, <3>5
  <2> QED
    BY <2>1, <2>2
<1>8. AllSent(rows) = FlattenSeq(ss)
  <2>1. [k \in DOMAIN rows |-> U32Sends(rows[k])] = [k \in 1 .. N |-> U32Sends(rows[k])]
    BY <1>4
  <2>2. ss = [k \in 1 .. N |-> ss[k]]
    OBVIOUS
  <2> HIDE DEF ss
  <2>3. [k \in 1 .. N |-> U32Sends(rows[k])] = [k \in 1 .. N |-> ss[k]]
    BY <1>7
  <2> QED
    BY <2>1, <2>2, <2>3 DEF AllSent
<1>9. N \in Nat /\ u \in [1 .. N -> S] /\ G \in SUBSET (1 .. N) /\ Selects(ss, N, u, G)
  <2>1. u \in [1 .. N -> S]
    OBVIOUS
  <2>2. Selects(ss, N, u, G)
    BY DEF Selects
  <2> QED
    BY <1>6, <2>1, <2>2
<1>10. \A k \in G : u[k] = DecidingPair(es[k])
  BY <1>6
<1> HIDE DEF u, S, ss
<1>11. /\ FlattenSeq(ss) \in Seq(S)
       /\ \E p \in Bijection(G, 1 .. Len(FlattenSeq(ss))) : \A k \in G : FlattenSeq(ss)[p[k]] = u[k]
  BY ONLY <1>9, FlattenSelected
<1>12. PICK p \in Bijection(G, 1 .. Len(FlattenSeq(ss))) : \A k \in G : FlattenSeq(ss)[p[k]] = u[k]
  BY <1>11
<1>13. DOMAIN FlattenSeq(ss) = 1 .. Len(FlattenSeq(ss))
  BY <1>11
<1>14. PlacesDeciding(p, es, FlattenSeq(ss))
  BY <1>5, <1>10, <1>12, <1>13 DEF PlacesDeciding
<1> QED
  BY <1>3, <1>8, <1>14

\* The pairs a count of the rows is positive for, with that count.
Counted(mults) ==
  LET used == {row \in DOMAIN mults : mults[row] > 0}
  IN  [t \in {BytePairs[row + 1] : row \in used} |->
         mults[CHOOSE row \in used : BytePairs[row + 1] = t]]

\* The addresses of a run are u32.
LEMMA AddressesFit ==
  ASSUME ComparisonInv, NEW S, IsTypedLog(log, S)
  PROVE  \A k \in 1 .. Len(log) : log[k].address < 2 ^ (LimbBits * NumLimbs)
<1>1. PICK w \in Nat : w = 2 ^ (LimbBits * NumLimbs)
  BY Constants
<1>2. ASSUME NEW k \in 1 .. Len(log)
      PROVE  log[k].address < w
  <2>1. PICK a \in Nat : a = log[k].address
    BY DEF IsTypedLog
  <2>2. a <= w - 1
    BY <1>1, <2>1 DEF ComparisonInv, LogOfCells
  <2> QED
    BY <2>1, <2>2
<1> QED
  BY <1>1, <1>2

\* What the prover counts is how often each pair decides.
LEMMA PairsCounted ==
  ASSUME NEW es, InOrder(es), es = TypedAddressLtEntries(log)
  PROVE  Counted(BytesLtMults(log)) = ToBag([k \in Unequal(es) |-> DecidingPair(es[k])])
<1> DEFINE s == [k \in Unequal(es) |-> DecidingPair(es[k])]
<1>1. PICK U : U = Unequal(es) /\ IsFiniteSet(U)
  <2>1. PICK n \in Nat : DOMAIN es = 1 .. n
    BY DEF InOrder
  <2>2. IsFiniteSet(1 .. n)
    <3>1. n \in Int
      OBVIOUS
    <3> QED
      BY <3>1, FS_Interval
  <2>3. Unequal(es) \subseteq 1 .. n
    BY <2>1 DEF Unequal
  <2> QED
    BY <2>2, <2>3, FS_Subset
<1>2. DOMAIN s = U /\ \A k \in U : s[k] = DecidingPair(es[k])
  BY <1>1
<1> HIDE DEF s
<1> DEFINE R(k) == PairRow(s[k][1], s[k][2])
<1>3. PICK L : L = Len(BytePairs)
  OBVIOUS
<1>4. ASSUME NEW k \in U
      PROVE  R(k) \in 0 .. L - 1 /\ BytePairs[R(k) + 1] = s[k]
  <2>1. PICK d : d = s[k]
    OBVIOUS
  <2>2. d[2] \in 0 .. Base - 1 /\ d[1] \in 0 .. d[2] - 1 /\ d = <<d[1], d[2]>>
    BY <1>1, <1>2, <2>1, DecidingIs
  <2> QED
    BY <1>3, <2>1, <2>2, PairRowIs
<1>5. PICK bl : bl = BytesLtMults(log)
  OBVIOUS
<1> DEFINE With(row) == {k \in U : R(k) = row}
<1>6. DOMAIN bl = 0 .. L - 1 /\ \A row \in 0 .. L - 1 : bl[row] = Cardinality(With(row))
  <2>1. ASSUME NEW row \in 0 .. L - 1
        PROVE  {k \in Unequal(es) : PairRow(DecidingPair(es[k])[1], DecidingPair(es[k])[2]) = row} = With(row)
    BY <1>1, <1>2
  <2>2. bl = [row \in 0 .. L - 1 |->
                Cardinality({k \in Unequal(es) :
                               PairRow(DecidingPair(es[k])[1], DecidingPair(es[k])[2]) = row})]
    BY <1>3, <1>5 DEF BytesLtMults, Unequal
  <2> HIDE DEF With
  <2> QED
    BY <2>1, <2>2
<1>7. \A row : IsFiniteSet(With(row)) /\ (Cardinality(With(row)) > 0 <=> With(row) # {})
  <2> SUFFICES ASSUME NEW row
               PROVE  IsFiniteSet(With(row)) /\ (Cardinality(With(row)) > 0 <=> With(row) # {})
    OBVIOUS
  <2>1. IsFiniteSet(With(row))
    BY <1>1, FS_Subset
  <2> HIDE DEF With
  <2>2. Cardinality(With(row)) \in Nat /\ (Cardinality(With(row)) = 0 <=> With(row) = {})
    BY <2>1, FS_CardinalityType, FS_EmptySet
  <2> QED
    BY <2>1, <2>2
<1>8. PICK used : used = {row \in DOMAIN bl : bl[row] > 0}
  OBVIOUS
<1>9. \A row : row \in used <=> \E k \in U : R(k) = row
  <2> SUFFICES ASSUME NEW row PROVE row \in used <=> \E k \in U : R(k) = row
    OBVIOUS
  <2>1. With(row) # {} <=> \E k \in U : R(k) = row
    OBVIOUS
  <2> HIDE DEF With
  <2>2. row \in used <=> row \in 0 .. L - 1 /\ With(row) # {}
    BY <1>6, <1>7, <1>8
  <2>3. (\E k \in U : R(k) = row) => row \in 0 .. L - 1
    BY <1>4
  <2> HIDE DEF R
  <2> QED
    BY <2>1, <2>2, <2>3
<1>10. {BytePairs[row + 1] : row \in used} = Range(s)
  <2>1. ASSUME NEW row \in used
        PROVE  BytePairs[row + 1] \in Range(s)
    <3>1. PICK k \in U : R(k) = row
      BY <1>9
    <3>2. BytePairs[row + 1] = s[k]
      BY <1>4, <3>1
    <3> QED
      BY <1>2, <3>2 DEF Range
  <2>2. ASSUME NEW k \in U
        PROVE  \E row \in used : BytePairs[row + 1] = s[k]
    BY <1>4, <1>9
  <2> HIDE DEF R
  <2> QED
    BY <1>2, <2>1, <2>2 DEF Range
<1>11. ASSUME NEW t \in Range(s)
       PROVE  bl[CHOOSE row \in used : BytePairs[row + 1] = t] = Cardinality({k \in DOMAIN s : s[k] = t})
  <2>1. PICK r : r = CHOOSE row \in used : BytePairs[row + 1] = t
    OBVIOUS
  <2>2. \E row \in used : BytePairs[row + 1] = t
    BY <1>10
  <2>3. r \in used /\ BytePairs[r + 1] = t
    BY <2>1, <2>2
  <2>4. PICK j \in U : R(j) = r
    BY <1>9, <2>3
  <2>5. s[j] = t
    BY <1>4, <2>3, <2>4
  <2>6. r = PairRow(t[1], t[2])
    BY <2>4, <2>5
  <2>7. \A k \in U : R(k) = r <=> s[k] = t
    <3> SUFFICES ASSUME NEW k \in U PROVE R(k) = r <=> s[k] = t
      OBVIOUS
    <3>1. R(k) = r => s[k] = t
      BY <1>4, <2>3
    <3>2. s[k] = t => R(k) = r
      BY <2>6
    <3> QED
      BY <3>1, <3>2
  <2>8. With(r) = {k \in DOMAIN s : s[k] = t}
    BY <1>2, <2>7
  <2>9. r \in 0 .. L - 1
    BY <1>4, <2>4
  <2> HIDE DEF With
  <2>10. bl[r] = Cardinality(With(r))
    BY <1>6, <2>9
  <2> QED
    BY <2>1, <2>8, <2>10
<1> HIDE DEF R, With
<1>12. Counted(bl) = [t \in Range(s) |-> bl[CHOOSE row \in used : BytePairs[row + 1] = t]]
  BY <1>8, <1>10 DEF Counted
<1>13. ToBag(s) = [t \in Range(s) |-> Cardinality({k \in DOMAIN s : s[k] = t})]
  BY DEF ToBag
<1>14. [t \in Range(s) |-> bl[CHOOSE row \in used : BytePairs[row + 1] = t]]
         = [t \in Range(s) |-> Cardinality({k \in DOMAIN s : s[k] = t})]
  BY <1>11
<1> QED
  BY <1>5, <1>12, <1>13, <1>14 DEF s

\* Whatever the log, the pairs of bytes the address table asks for are the
\* ones the prover counted, each as often as it counted it.
THEOREM ComparisonBytesBalanced == ComparisonSpec => []BytesLtBalanced
<1>1. ComparisonInv => BytesLtBalanced
  <2> SUFFICES ASSUME ComparisonInv, Built
               PROVE  ToBag(AllSent(tables.u32_lt)) = Counted(tables.bytes_lt)
    BY DEF BytesLtBalanced, AllSent, Counted
  <2>1. PICK S : IsTypedLog(log, S)
    BY DEF ComparisonInv, LogInOrder
  <2>2. PICK es : es = TypedAddressLtEntries(log)
    OBVIOUS
  <2>3. log # <<>> /\ tables.u32_lt = U32Table(es) /\ tables.bytes_lt = BytesLtMults(log)
    BY <2>2 DEF ComparisonInv, TablesOfLog
  <2>4. \A k \in 1 .. Len(log) : log[k].address < 2 ^ (LimbBits * NumLimbs)
    BY <2>1, AddressesFit
  <2>5. InOrder(es)
    <3>1. es \in Seq(Nat \X Nat)
      BY <2>1, <2>2, <2>3, AddressEntries
    <3>2. ASSUME NEW k \in 1 .. Len(es)
          PROVE  \E a, b \in Nat : es[k] = <<a, b>> /\ a <= b /\ b < 2 ^ (LimbBits * NumLimbs)
      BY <2>1, <2>2, <2>3, <2>4, EntriesInOrder
    <3> QED
      BY <3>1, <3>2 DEF InOrder
  <2>6. PICK flat : flat = AllSent(tables.u32_lt)
    OBVIOUS
  <2>7. PICK p : PlacesDeciding(p, es, flat)
    BY <2>3, <2>5, <2>6, DecidingPlaces
  <2> DEFINE s == [k \in Unequal(es) |-> DecidingPair(es[k])]
  <2>8. /\ p \in Bijection(Unequal(es), DOMAIN flat) /\ DOMAIN s = Unequal(es)
        /\ \A k \in Unequal(es) : flat[p[k]] = s[k]
    BY <2>7 DEF PlacesDeciding
  <2>9. IsFiniteSet(Unequal(es))
    <3>1. PICK n \in Nat : DOMAIN es = 1 .. n
      BY <2>5 DEF InOrder
    <3>2. IsFiniteSet(1 .. n)
      <4>1. n \in Int
        OBVIOUS
      <4> QED
        BY <4>1, FS_Interval
    <3>3. Unequal(es) \subseteq 1 .. n
      BY <3>1 DEF Unequal
    <3> QED
      BY <3>2, <3>3, FS_Subset
  <2>10. ToBag(s) = Counted(BytesLtMults(log))
    BY <2>2, <2>5, PairsCounted
  <2> HIDE DEF s
  <2>11. ToBag(s) = ToBag(flat)
    BY <2>8, <2>9, SameBag
  <2> QED
    BY <2>3, <2>6, <2>10, <2>11
<1> QED
  BY <1>1, ComparisonSound, PTL

=============================================================================
