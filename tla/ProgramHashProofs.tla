-------------------------- MODULE ProgramHashProofs -------------------------
(***************************************************************************)
(* The commitment to the program, for every program, every rate of the     *)
(* sponge and every permutation: the tables that are built satisfy their   *)
(* AIRs, with the digest and the length the host computes on its own.      *)
(***************************************************************************)
EXTENDS ProgramHash, DataLemmas

(***************************************************************************)
(* The constants, and the tables of a run.                                 *)
(***************************************************************************)
\* What the assumptions give.
LEMMA Constants ==
  /\ P \in Nat \ {0} /\ BytesPerRow \in Nat \ {0} /\ BytesPerRow < P
  /\ Base \in Nat \ {0, 1} /\ LimbBits \in Nat \ {0} /\ NumLimbs \in Nat \ {0}
  /\ Top \in Nat /\ Top = NumLimbs - 1
  /\ RateElems \in Nat \ {0} /\ BytesPerRateElem \in Nat \ {0} /\ Width \in Nat
  /\ DigestLen \in Nat
<1>1. P \in Nat /\ BytesPerRateElem \in Nat \ {0} /\ RateElems \in Nat \ {0} /\ BytesPerRow < P
      /\ Width \in Nat /\ DigestLen \in Nat
  BY HashAssumption
<1>2. BytesPerRow \in Nat \ {0}
  BY <1>1 DEF BytesPerRow
<1>3. LimbBits \in Nat \ {0} /\ NumLimbs \in Nat \ {0}
  BY LimbsAssumption
<1>4. Base \in Nat \ {0, 1}
  <2>1. 2 ^ LimbBits \in Nat /\ LimbBits < 2 ^ LimbBits
    BY <1>3, TwoPowers, TwoPowerExceeds
  <2> QED
    BY <1>3, <2>1 DEF Base
<1> QED
  BY <1>1, <1>2, <1>3, <1>4 DEF Top

\* A program is a function to the bytes.
LEMMA ProgramBytes ==
  ASSUME NEW p \in Programs
  PROVE  Length(p) \in Nat /\ p \in [0 .. Length(p) - 1 -> 0 .. Base - 1]
<1>1. IsFiniteSet(DOMAIN p) /\ p \in [0 .. Cardinality(DOMAIN p) - 1 -> 0 .. Base - 1]
  BY HashAssumption
<1>2. Cardinality(DOMAIN p) \in Nat
  BY <1>1, FS_CardinalityType
<1> QED
  BY <1>1, <1>2 DEF Length

\* The steps of a run fetch inside the program, and the tables are those of
\* the run.
HashInv ==
  /\ program \in Programs
  /\ pcs \in Seq(Nat)
  /\ \A k \in 1 .. Len(pcs) : pcs[k] + 3 < Length(program)
  /\ tables # <<>> => pcs # <<>> /\ tables = TablesOfRun

LEMMA HashSound == HashSpec => []HashInv
<1>1. HashInit => HashInv
  BY DEF HashInit, HashInv
<1>2. HashInv /\ [HashNext]_hashVars => HashInv'
  <2> SUFFICES ASSUME HashInv, [HashNext]_hashVars
               PROVE  HashInv'
    OBVIOUS
  <2> USE DEF HashInv
  <2>1. CASE ExecuteStep
    <3>1. PICK pc \in Nat : pc + 3 < Length(program) /\ pcs' = Append(pcs, pc)
      <4>1. PICK pc \in IF pcs = <<>> THEN {0} ELSE DOMAIN program :
              pc + 3 < Length(program) /\ pcs' = Append(pcs, pc)
        BY <2>1 DEF ExecuteStep
      <4>2. DOMAIN program \subseteq Nat
        BY ProgramBytes
      <4> QED
        BY <4>1, <4>2
    <3>2. program' = program /\ tables' = <<>>
      BY <2>1 DEF ExecuteStep
    <3>3. pcs' \in Seq(Nat) /\ \A k \in 1 .. Len(pcs') : pcs'[k] + 3 < Length(program)
      BY <3>1
    <3> QED
      BY <3>2, <3>3 DEF Length
  <2>2. CASE BuildTables
    <3>1. pcs # <<>> /\ program' = program /\ pcs' = pcs /\ tables' = TablesOfRun
      BY <2>2 DEF BuildTables
    <3>2. TablesOfRun' = TablesOfRun
      BY <3>1 DEF TablesOfRun
    <3> QED
      BY <3>1, <3>2 DEF Length
  <2>3. CASE UNCHANGED hashVars
    <3>1. program' = program /\ pcs' = pcs /\ tables' = tables
      BY <2>3 DEF hashVars
    <3>2. TablesOfRun' = TablesOfRun
      BY <3>1 DEF TablesOfRun
    <3> QED
      BY <3>1, <3>2 DEF Length
  <2> QED
    BY <2>1, <2>2, <2>3 DEF HashNext
<1> QED
  BY <1>1, <1>2, PTL DEF HashSpec

\* A program that runs has an instruction.
LEMMA RunsLength ==
  ASSUME HashInv, Built
  PROVE  Length(program) \in Nat /\ Length(program) >= 4
<1>1. pcs \in Seq(Nat) /\ pcs # <<>> /\ \A k \in 1 .. Len(pcs) : pcs[k] + 3 < Length(program)
  BY DEF HashInv, Built
<1>2. 1 \in 1 .. Len(pcs) /\ pcs[1] \in Nat
  BY <1>1
<1>3. Length(program) \in Nat
  BY ProgramBytes DEF HashInv
<1> QED
  BY <1>1, <1>2, <1>3

(***************************************************************************)
(* Arithmetic.                                                             *)
(***************************************************************************)
\* A sum modulo P does not see whether its first term was reduced.
LEMMA ModAdd ==
  ASSUME NEW x \in Int, NEW y \in Int
  PROVE  ((x % P) + y) % P = (x + y) % P
<1>1. PICK p \in Nat \ {0} : p = P
  BY Constants
<1>2. PICK c \in Int, m \in 0 .. p - 1 : x = p * c + m /\ m = x % p
  BY Remainder
<1>3. PICK d \in Int, k \in 0 .. p - 1 : m + y = p * d + k /\ k = (m + y) % p
  <2>1. m + y \in Int
    OBVIOUS
  <2> QED
    BY <2>1, Remainder
<1>4. x + y = p * (c + d) + k /\ c + d \in Int
  <2>1. PICK u \in Int : u = p * c
    OBVIOUS
  <2>2. PICK v \in Int : v = p * d
    OBVIOUS
  <2>3. p * (c + d) = u + v
    BY <2>1, <2>2
  <2>4. x = u + m /\ m + y = v + k
    BY <1>2, <1>3, <2>1, <2>2
  <2> QED
    BY ONLY <2>3, <2>4, x \in Int, y \in Int, u \in Int, v \in Int, m \in Int, k \in Int, c \in Int, d \in Int
<1>5. PICK e \in Int, l \in 0 .. p - 1 : x + y = p * e + l /\ l = (x + y) % p
  <2>1. x + y \in Int
    OBVIOUS
  <2> QED
    BY <2>1, Remainder
<1>6. k = l
  <2>1. PICK f \in Int : f = c + d - e
    BY <1>4
  <2>2. p * f = l - k
    BY <1>4, <1>5, <2>1
  <2>3. f = 0
    <3>1. ASSUME f >= 1 PROVE p * f >= p
      BY <3>1
    <3>2. ASSUME f <= -1 PROVE p * f <= -p
      BY <3>2
    <3> QED
      BY <2>2, <3>1, <3>2
  <2> QED
    BY <2>2, <2>3
<1> QED
  BY <1>1, <1>2, <1>3, <1>5, <1>6

\* A number below P is its remainder.
LEMMA ModSmall ==
  ASSUME NEW x \in 0 .. P - 1
  PROVE  x % P = x
  BY Constants

\* The smaller of two numbers.
LEMMA MinOfTwo ==
  ASSUME NEW a \in Int, NEW b \in Int
  PROVE  Min({a, b}) = IF a <= b THEN a ELSE b
<1>1. PICK T : T = {a, b}
  OBVIOUS
<1>2. PICK m \in T : \A k \in T : m <= k
  BY <1>1
<1>3. Min(T) = CHOOSE x \in T : \A y \in T : x <= y
  BY DEF Min
<1>4. Min(T) \in T /\ \A y \in T : Min(T) <= y
  BY <1>2, <1>3
<1> QED
  BY <1>1, <1>4

\* The first of the W places from s on that lie below n.
LEMMA CountBelow ==
  ASSUME NEW n \in Nat, NEW s \in Nat, NEW W \in Nat \ {0}
  PROVE  Cardinality({i \in 0 .. W - 1 : s + i < n})
           = IF n <= s THEN 0 ELSE IF n <= s + W THEN n - s ELSE W
<1>1. PICK k \in 0 .. W : k = IF n <= s THEN 0 ELSE IF n <= s + W THEN n - s ELSE W
  OBVIOUS
<1>2. {i \in 0 .. W - 1 : s + i < n} = 0 .. k - 1
  BY <1>1
<1>3. Cardinality(0 .. k - 1) = k
  <2>1. 0 \in Int /\ k - 1 \in Int
    BY <1>1
  <2>2. Cardinality(0 .. k - 1) = IF 0 > k - 1 THEN 0 ELSE (k - 1) - 0 + 1
    BY <2>1, FS_Interval
  <2> QED
    BY <1>1, <2>2
<1> QED
  BY <1>1, <1>2, <1>3

\* A row is real exactly when its first byte lies in the program.
LEMMA RealRows ==
  ASSUME NEW p \in Programs, NEW r \in Nat
  PROVE  /\ NumRealRows(p) \in Nat
         /\ r < NumRealRows(p) <=> r * BytesPerRow < Length(p)
<1>1. PICK W \in Nat \ {0} : W = BytesPerRow
  BY Constants
<1>2. PICK n \in Nat : n = Length(p)
  BY ProgramBytes
<1>3. PICK q : q = NumRealRows(p)
  OBVIOUS
<1>4. q = (n + W - 1) \div W
  BY <1>1, <1>2, <1>3 DEF NumRealRows, DivCeil
<1>5. q \in Nat /\ W * q <= n + W - 1 /\ n + W - 1 < W * q + W
  BY <1>4
<1>6. ASSUME r < q PROVE W * r < n
  <2>1. PICK d \in Nat : q = r + 1 + d
    <3>1. q - r - 1 \in Nat /\ q = r + 1 + (q - r - 1)
      BY <1>5, <1>6
    <3> QED
      BY <3>1
  <2>2. W * q = W * r + W + W * d /\ W * d \in Nat
    BY <2>1
  <2> QED
    BY <1>5, <2>2
<1>7. ASSUME ~(r < q) PROVE ~(W * r < n)
  <2>1. PICK d \in Nat : r = q + d
    <3>1. r - q \in Nat /\ r = q + (r - q)
      BY <1>5, <1>7
    <3> QED
      BY <3>1
  <2>2. W * r = W * q + W * d /\ W * d \in Nat
    BY <1>5, <2>1
  <2> QED
    BY <1>5, <2>2
<1>8. r * W = W * r
  OBVIOUS
<1> QED
  BY <1>1, <1>2, <1>3, <1>5, <1>6, <1>7, <1>8

(***************************************************************************)
(* The states of the sponge.                                               *)
(***************************************************************************)
\* s follows the recursion of TraceStates, and h the one of HostStates.
TraceStatesOf(s, p) ==
  s = [row \in 0 .. NumRealRows(p) |->
         IF row = NumRealRows(p) THEN Zero ELSE Permute(Absorb(p, row, s[row + 1]))]
HostStatesOf(h, p) ==
  h = [n \in 0 .. NumRealRows(p) |->
         IF n = 0 THEN Zero ELSE Permute(Absorb(p, NumRealRows(p) - n, h[n - 1]))]

\* What TraceStates computes.
LEMMA TraceStatesStep ==
  ASSUME NEW p \in Programs
  PROVE  TraceStatesOf(TraceStates(p), p)
<1>1. PICK n \in Nat : n = NumRealRows(p)
  <2>1. 0 \in Nat
    OBVIOUS
  <2> QED
    BY <2>1, RealRows
<1> DEFINE From(k, f) == /\ f = [i \in n - k .. n |-> f[i]] /\ f[n] = Zero
                         /\ \A i \in n - k .. n - 1 : f[i] = Permute(Absorb(p, i, f[i + 1]))
           K == {k \in 0 .. n : \E f : From(k, f)}
<1>2. 0 \in K
  <2> DEFINE f == [i \in n .. n |-> Zero]
  <2>1. From(0, f)
    OBVIOUS
  <2> HIDE DEF From
  <2> QED
    BY <2>1
<1>3. ASSUME NEW k \in 0 .. n - 1, k \in K
      PROVE  k + 1 \in K
  <2>1. PICK f : From(k, f)
    BY <1>3
  <2>2. PICK m \in 0 .. n - 1 : m = n - (k + 1)
    OBVIOUS
  <2>3. n - k = m + 1
    BY <2>2
  <2> DEFINE g == [i \in m .. n |-> IF i = m THEN Permute(Absorb(p, m, f[m + 1])) ELSE f[i]]
  <2>4. \A i \in m .. n : i # m => i \in m + 1 .. n
    BY <2>2
  <2>5. /\ g = [i \in m .. n |-> g[i]] /\ g[n] = Zero
        /\ \A i \in m .. n - 1 : g[i] = Permute(Absorb(p, i, g[i + 1]))
    <3>1. /\ f[n] = Zero
          /\ \A i \in m + 1 .. n - 1 : f[i] = Permute(Absorb(p, i, f[i + 1]))
      BY <2>1, <2>3
    <3>2. g = [i \in m .. n |-> g[i]] /\ g[n] = Zero
      BY <2>2, <3>1
    <3>3. ASSUME NEW i \in m .. n - 1
          PROVE  g[i] = Permute(Absorb(p, i, g[i + 1]))
      <4>1. i + 1 \in m .. n /\ i + 1 # m /\ i \in m .. n
        BY <2>2
      <4>2. g[i + 1] = f[i + 1]
        BY <4>1
      <4>3. CASE i = m
        BY <4>1, <4>2, <4>3
      <4>4. CASE i # m
        <5>1. i \in m + 1 .. n - 1
          BY <2>2, <4>4
        <5>2. g[i] = f[i]
          BY <4>1, <4>4
        <5> QED
          BY <3>1, <4>2, <5>1, <5>2
      <4> QED
        BY <4>3, <4>4
    <3> QED
      BY <3>2, <3>3
  <2>6. From(k + 1, g)
    <3> HIDE DEF g
    <3> QED
      BY <2>2, <2>5
  <2>7. \E h : From(k + 1, h)
    <3> HIDE DEF g, From
    <3> QED
      BY <2>6
  <2>8. k + 1 \in 0 .. n
    OBVIOUS
  <2> HIDE DEF From
  <2> QED
    BY <2>7, <2>8
<1>4. n \in K
  <2> HIDE DEF K
  <2>1. 0 .. n \subseteq K
    BY <1>2, <1>3, InductionTo
  <2> QED
    BY <2>1
<1>5. PICK f : From(n, f)
  BY <1>4
<1>6. f = [i \in 0 .. n |-> IF i = n THEN Zero ELSE Permute(Absorb(p, i, f[i + 1]))]
  <2>1. n - n = 0
    OBVIOUS
  <2>2. f = [i \in 0 .. n |-> f[i]]
    BY <1>5, <2>1
  <2>3. f[n] = Zero /\ \A i \in 0 .. n - 1 : f[i] = Permute(Absorb(p, i, f[i + 1]))
    BY <1>5, <2>1
  <2>4. \A i \in 0 .. n : i # n => i \in 0 .. n - 1
    OBVIOUS
  <2>5. \A i \in 0 .. n : f[i] = IF i = n THEN Zero ELSE Permute(Absorb(p, i, f[i + 1]))
    BY ONLY <2>3, <2>4
  <2> QED
    BY ONLY <2>2, <2>5
<1>7. TraceStatesOf(f, p)
  BY <1>1, <1>6 DEF TraceStatesOf
<1>8. TraceStates(p) = CHOOSE s : TraceStatesOf(s, p)
  BY Zenon DEF TraceStates, TraceStatesOf
<1> QED
  BY <1>7, <1>8

\* What HostStates computes.
LEMMA HostStatesStep ==
  ASSUME NEW p \in Programs
  PROVE  HostStatesOf(HostStates(p), p)
<1>1. PICK n \in Nat : n = NumRealRows(p)
  <2>1. 0 \in Nat
    OBVIOUS
  <2> QED
    BY <2>1, RealRows
<1> DEFINE Upto(k, f) == /\ f = [i \in 0 .. k |-> f[i]] /\ f[0] = Zero
                         /\ \A i \in 1 .. k : f[i] = Permute(Absorb(p, n - i, f[i - 1]))
           K == {k \in 0 .. n : \E f : Upto(k, f)}
<1>2. 0 \in K
  <2> DEFINE f == [i \in 0 .. 0 |-> Zero]
  <2>1. Upto(0, f)
    OBVIOUS
  <2> HIDE DEF Upto
  <2> QED
    BY <2>1
<1>3. ASSUME NEW k \in 0 .. n - 1, k \in K
      PROVE  k + 1 \in K
  <2>1. PICK f : Upto(k, f)
    BY <1>3
  <2> DEFINE g == [i \in 0 .. k + 1 |->
                     IF i = k + 1 THEN Permute(Absorb(p, n - (k + 1), f[k])) ELSE f[i]]
  <2>2. /\ g = [i \in 0 .. k + 1 |-> g[i]] /\ g[0] = Zero
        /\ \A i \in 1 .. k + 1 : g[i] = Permute(Absorb(p, n - i, g[i - 1]))
    <3>1. /\ f[0] = Zero
          /\ \A i \in 1 .. k : f[i] = Permute(Absorb(p, n - i, f[i - 1]))
      BY <2>1
    <3>2. g = [i \in 0 .. k + 1 |-> g[i]] /\ g[0] = Zero
      BY <3>1
    <3>3. ASSUME NEW i \in 1 .. k + 1
          PROVE  g[i] = Permute(Absorb(p, n - i, g[i - 1]))
      <4>1. i - 1 \in 0 .. k + 1 /\ i - 1 # k + 1 /\ i \in 0 .. k + 1
        OBVIOUS
      <4>2. g[i - 1] = f[i - 1]
        BY <4>1
      <4>3. CASE i = k + 1
        <5>1. i - 1 = k /\ g[i] = Permute(Absorb(p, n - (k + 1), f[k]))
          BY <4>1, <4>3
        <5> QED
          BY <4>2, <4>3, <5>1
      <4>4. CASE i # k + 1
        <5>1. i \in 1 .. k
          BY <4>4
        <5>2. g[i] = f[i]
          BY <4>1, <4>4
        <5> QED
          BY <3>1, <4>2, <5>1, <5>2
      <4> QED
        BY <4>3, <4>4
    <3> QED
      BY <3>2, <3>3
  <2>3. \E h : Upto(k + 1, h)
    <3> HIDE DEF g
    <3> QED
      BY <2>2
  <2>4. k + 1 \in 0 .. n
    OBVIOUS
  <2> HIDE DEF Upto
  <2> QED
    BY <2>3, <2>4
<1>4. n \in K
  <2> HIDE DEF K
  <2>1. 0 .. n \subseteq K
    BY <1>2, <1>3, InductionTo
  <2> QED
    BY <2>1
<1>5. PICK f : Upto(n, f)
  BY <1>4
<1>6. f = [i \in 0 .. n |-> IF i = 0 THEN Zero ELSE Permute(Absorb(p, n - i, f[i - 1]))]
  <2>1. \A i \in 0 .. n : f[i] = IF i = 0 THEN Zero ELSE Permute(Absorb(p, n - i, f[i - 1]))
    BY <1>5
  <2> QED
    BY <1>5, <2>1
<1>7. HostStatesOf(f, p)
  BY <1>1, <1>6 DEF HostStatesOf
<1>8. HostStates(p) = CHOOSE h : HostStatesOf(h, p)
  BY Zenon DEF HostStates, HostStatesOf
<1> QED
  BY <1>7, <1>8

\* The host ends in the state of the first row.
LEMMA SameDigest ==
  ASSUME NEW p \in Programs
  PROVE  HostStates(p)[NumRealRows(p)] = TraceStates(p)[0]
<1>1. PICK n \in Nat : n = NumRealRows(p)
  <2>1. 0 \in Nat
    OBVIOUS
  <2> QED
    BY <2>1, RealRows
<1>2. PICK s : s = TraceStates(p)
  OBVIOUS
<1>3. PICK h : h = HostStates(p)
  OBVIOUS
<1>4. s[n] = Zero /\ \A i \in 0 .. n - 1 : s[i] = Permute(Absorb(p, i, s[i + 1]))
  <2>1. s = [i \in 0 .. n |-> IF i = n THEN Zero ELSE Permute(Absorb(p, i, s[i + 1]))]
    BY <1>1, <1>2, TraceStatesStep DEF TraceStatesOf
  <2> QED
    BY <2>1
<1>5. h[0] = Zero /\ \A i \in 1 .. n : h[i] = Permute(Absorb(p, n - i, h[i - 1]))
  <2>1. h = [i \in 0 .. n |-> IF i = 0 THEN Zero ELSE Permute(Absorb(p, n - i, h[i - 1]))]
    BY <1>1, <1>3, HostStatesStep DEF HostStatesOf
  <2> QED
    BY <2>1
<1> DEFINE K == {k \in 0 .. n : h[k] = s[n - k]}
<1>6. 0 \in K
  BY <1>4, <1>5
<1>7. ASSUME NEW k \in 0 .. n - 1, k \in K
      PROVE  k + 1 \in K
  <2>1. PICK m \in 0 .. n - 1 : m = n - (k + 1)
    OBVIOUS
  <2>2. m + 1 = n - k /\ (k + 1) - 1 = k /\ k + 1 \in 1 .. n
    BY <2>1
  <2>3. s[m] = Permute(Absorb(p, m, s[m + 1]))
    BY <1>4
  <2>4. h[k + 1] = Permute(Absorb(p, m, h[k]))
    BY <1>5, <2>1, <2>2
  <2>5. h[k] = s[m + 1]
    BY <1>7, <2>2
  <2> QED
    BY <2>1, <2>2, <2>3, <2>4, <2>5
<1>8. n \in K
  <2> HIDE DEF K
  <2>1. 0 .. n \subseteq K
    BY <1>6, <1>7, InductionTo
  <2> QED
    BY <2>1
<1>9. n - n = 0
  OBVIOUS
<1> QED
  BY <1>1, <1>2, <1>3, <1>8, <1>9

(***************************************************************************)
(* The rows of the sponge.                                                 *)
(***************************************************************************)
\* c is the row of the sponge whose W bytes start at x in the n bytes of p,
\* with in and out for the states around the permutation.
SpongeRow(c, p, n, x, W, in, out) ==
  /\ c.base_addr = x % P
  /\ c.bytes = [i \in 0 .. W - 1 |-> IF x + i < n THEN p[x + i] ELSE 0]
  /\ c.is_active = [i \in 0 .. W - 1 |-> IF x + i < n THEN 1 ELSE 0]
  /\ c.flag = IF x < n THEN 1 ELSE 0
  /\ c.cum_active = Min({n, x + W}) % P
  /\ c.perm_in = IF x < n THEN in ELSE Zero
  /\ c.perm_out = IF x < n THEN out ELSE Zero
  /\ c.state = IF x < n THEN out ELSE Zero

\* What is in it of the bytes.
ChunkRow(c, p, n, x, W) ==
  /\ c.base_addr = x % P
  /\ c.flag = IF x < n THEN 1 ELSE 0
  /\ \A i \in 0 .. W - 1 : /\ c.is_active[i] = IF x + i < n THEN 1 ELSE 0
                           /\ c.bytes[i] = IF x + i < n THEN p[x + i] ELSE 0

LEMMA SpongeIsChunk ==
  ASSUME NEW c, NEW p, NEW n, NEW x, NEW W, NEW in, NEW out, SpongeRow(c, p, n, x, W, in, out)
  PROVE  ChunkRow(c, p, n, x, W)
BY DEF SpongeRow, ChunkRow

\* The numbers of bytes, of real rows and of rows.
SpongeSizes(n, real, height) ==
  /\ n \in Nat /\ real \in Nat /\ height \in Nat /\ height > real
  /\ \A r \in Nat : r < real <=> r * BytesPerRow < n

LEMMA SpongeSized ==
  ASSUME NEW p \in Programs
  PROVE  SpongeSizes(Length(p), NumRealRows(p), NumHashRows(p))
<1>1. PICK real : real = NumRealRows(p)
  OBVIOUS
<1>2. real \in Nat /\ \A r \in Nat : r < real <=> r * BytesPerRow < Length(p)
  BY <1>1, RealRows
<1>3. NumHashRows(p) \in Nat /\ NumHashRows(p) > real
  <2>1. real + 1 \in Nat
    BY <1>2
  <2>2. NumRows(real + 1) \in Nat /\ NumRows(real + 1) >= real + 1
    BY <2>1, NumRowsFit
  <2> QED
    BY <1>1, <1>2, <2>2 DEF NumHashRows
<1>4. Length(p) \in Nat
  BY ProgramBytes
<1> QED
  BY <1>1, <1>2, <1>3, <1>4 DEF SpongeSizes

\* The columns of the rows of the table.
LEMMA SpongeRows ==
  ASSUME NEW p \in Programs, NEW height, height = NumHashRows(p)
  PROVE  /\ DOMAIN HashTable(p) = 0 .. height - 1
         /\ Cardinality(DOMAIN HashTable(p)) = height /\ LastRow(HashTable(p)) = height - 1
         /\ \A r \in 0 .. height - 1 :
              SpongeRow(HashTable(p)[r], p, Length(p), r * BytesPerRow, BytesPerRow,
                        Absorb(p, r, TraceStates(p)[r + 1]), TraceStates(p)[r])
<1>1. PICK t, n, real, W, s : /\ n = Length(p) /\ real = NumRealRows(p) /\ W = BytesPerRow
                              /\ s = TraceStates(p) /\ t = HashTable(p)
  OBVIOUS
<1>2. /\ n \in Nat /\ real \in Nat /\ height \in Nat /\ height > real
      /\ \A r \in Nat : r < real <=> r * W < n
  BY <1>1, SpongeSized DEF SpongeSizes
<1>3. W \in Nat \ {0}
  BY <1>1, Constants
<1>4. t = [r \in 0 .. height - 1 |->
             [base_addr  |-> (r * W + 0) % P,
              bytes      |-> [i \in 0 .. W - 1 |-> IF r * W + i < n THEN p[r * W + i] ELSE 0],
              is_active  |-> [i \in 0 .. W - 1 |-> IF r * W + i < n THEN 1 ELSE 0],
              flag       |-> IF r < real THEN 1 ELSE 0,
              cum_active |-> Min({n, (r + 1) * W + 0}) % P,
              perm_in    |-> IF r < real THEN Absorb(p, r, s[r + 1]) ELSE Zero,
              perm_out   |-> IF r < real THEN s[r] ELSE Zero,
              state      |-> IF r < real THEN s[r] ELSE Zero]]
  BY <1>1, Zenon DEF HashTable, InRow
<1>5. DOMAIN t = 0 .. height - 1
  BY <1>4
<1>6. Cardinality(0 .. height - 1) = height
  <2>1. 0 \in Int /\ height - 1 \in Int
    BY <1>2
  <2>2. Cardinality(0 .. height - 1) = IF 0 > height - 1 THEN 0 ELSE (height - 1) - 0 + 1
    BY <2>1, FS_Interval
  <2> QED
    BY <1>2, <2>2
<1>7. LastRow(t) = height - 1
  BY <1>5, <1>6 DEF LastRow
<1>8. ASSUME NEW r \in 0 .. height - 1
      PROVE  SpongeRow(t[r], p, n, r * W, W, Absorb(p, r, s[r + 1]), s[r])
  <2>1. r * W + 0 = r * W /\ (r + 1) * W + 0 = r * W + W
    <3>1. PICK a \in Int : a = r * W
      BY <1>3
    <3>2. (r + 1) * W = a + W
      BY <1>3, <3>1
    <3> QED
      BY <1>3, <3>1, <3>2
  <2>2. r < real <=> r * W < n
    BY <1>2
  <2> QED
    BY <1>4, <2>1, <2>2, Zenon DEF SpongeRow
<1> QED
  BY <1>1, <1>5, <1>6, <1>7, <1>8

\* The selectors and bytes of a row satisfy what is asked of a row alone.
LEMMA SpongeChunk ==
  ASSUME NEW c, NEW p, NEW n \in Nat, NEW x \in Nat, NEW in, NEW out,
         SpongeRow(c, p, n, x, BytesPerRow, in, out)
  PROVE  ChunkAccepts(c) /\ StateAccepts(c)
<1>1. PICK W \in Nat \ {0} : W = BytesPerRow
  BY Constants
<1>2. c.flag = IF x < n THEN 1 ELSE 0
  BY DEF SpongeRow
<1>3. \A i \in 0 .. W - 1 : /\ c.is_active[i] = IF x + i < n THEN 1 ELSE 0
                            /\ c.bytes[i] = IF x + i < n THEN p[x + i] ELSE 0
  BY <1>1 DEF SpongeRow
<1>4. ChunkAccepts(c)
  <2>1. 0 \in 0 .. W - 1 /\ x + 0 = x
    BY <1>1
  <2>2. c.is_active[0] = c.flag
    BY <1>2, <1>3, <2>1
  <2>3. ASSUME NEW i \in 0 .. W - 1
        PROVE  /\ c.is_active[i] \in {0, 1}
               /\ i # 0 /\ c.is_active[i] = 1 => c.is_active[i - 1] = 1
               /\ c.is_active[i] = 1 => c.flag = 1
               /\ c.is_active[i] = 0 => c.bytes[i] = 0
    <3>1. c.is_active[i] = IF x + i < n THEN 1 ELSE 0
      BY <1>3
    <3>2. c.bytes[i] = IF x + i < n THEN p[x + i] ELSE 0
      BY <1>3
    <3>3. ASSUME i # 0 PROVE c.is_active[i - 1] = IF x + (i - 1) < n THEN 1 ELSE 0
      <4>1. i - 1 \in 0 .. W - 1
        BY <3>3
      <4> QED
        BY <1>3, <4>1
    <3> QED
      BY <1>2, <3>1, <3>2, <3>3
  <2>4. InRow = 0 .. W - 1
    BY <1>1 DEF InRow
  <2> QED
    BY <1>2, <2>2, <2>3, <2>4 DEF ChunkAccepts, Boolean
<1>5. StateAccepts(c)
  BY DEF StateAccepts, SpongeRow
<1> QED
  BY <1>4, <1>5

\* The number of bytes a row absorbs.
LEMMA SpongeActive ==
  ASSUME NEW c, NEW p, NEW n \in Nat, NEW x \in Nat, NEW W, W = BytesPerRow,
         ChunkRow(c, p, n, x, W)
  PROVE  SumActive(c) = IF n <= x THEN 0 ELSE IF n <= x + W THEN n - x ELSE W
<1>1. W \in Nat \ {0}
  BY Constants
<1>2. {i \in InRow : c.is_active[i] = 1} = {i \in 0 .. W - 1 : x + i < n}
  <2>1. \A i \in 0 .. W - 1 : c.is_active[i] = IF x + i < n THEN 1 ELSE 0
    BY DEF ChunkRow
  <2>2. InRow = 0 .. W - 1
    BY DEF InRow
  <2> QED
    BY <2>1, <2>2
<1>3. Cardinality({i \in 0 .. W - 1 : x + i < n})
        = IF n <= x THEN 0 ELSE IF n <= x + W THEN n - x ELSE W
  BY <1>1, CountBelow
<1> QED
  BY <1>2, <1>3 DEF SumActive

\* The packed lanes of a row are those that were absorbed.
LEMMA SpongePacked ==
  ASSUME NEW c, NEW p, NEW n \in Nat, n = Length(p), NEW x \in Nat,
         ChunkRow(c, p, n, x, BytesPerRow), NEW g \in Rate
  PROVE  Packed(c, g) = pack_lane(p, x + g * BytesPerRateElem)
<1>1. PICK W \in Nat \ {0} : W = BytesPerRow
  BY Constants
<1>2. PICK b \in Nat \ {0} : b = BytesPerRateElem
  BY Constants
<1>3. PICK e \in Nat \ {0} : e = RateElems
  BY Constants
<1>4. W = b * e
  BY <1>1, <1>2, <1>3 DEF BytesPerRow
<1>5. g \in 0 .. e - 1
  BY <1>3 DEF Rate
<1>6. PICK y \in Nat : y = b * g
  BY <1>2, <1>5
<1>7. y + b <= W
  <2>1. PICK d \in Nat : e = g + 1 + d
    <3>1. e - (g + 1) \in Nat /\ e = g + 1 + (e - (g + 1))
      BY <1>5
    <3> QED
      BY <3>1
  <2>2. b * e = y + b + b * d /\ b * d \in Nat
    BY <1>5, <1>6, <2>1
  <2> QED
    BY <1>4, <2>2
<1>8. ASSUME NEW k \in 0 .. b - 1
      PROVE  c.bytes[y + k] = IF (x + y) + k < n THEN p[(x + y) + k] ELSE 0
  <2>1. \A i \in 0 .. W - 1 : c.bytes[i] = IF x + i < n THEN p[x + i] ELSE 0
    BY <1>1 DEF ChunkRow
  <2>2. y + k \in 0 .. W - 1 /\ x + (y + k) = (x + y) + k
    BY ONLY <1>7, y \in Nat, b \in Nat, k \in 0 .. b - 1, x \in Nat, W \in Nat
  <2> QED
    BY <2>1, <2>2
<1>9. [k \in 0 .. b - 1 |-> c.bytes[y + k]]
        = [k \in 0 .. b - 1 |-> IF (x + y) + k < n THEN p[(x + y) + k] ELSE 0]
  BY <1>8
<1>10. x + g * BytesPerRateElem = x + y
  <2>1. g * b = y
    BY <1>5, <1>6
  <2> QED
    BY <1>2, <2>1
<1>11. Packed(c, g) = Digits([k \in 0 .. b - 1 |-> c.bytes[y + k]], Base, b)[0]
  BY <1>2, <1>6, Zenon DEF Packed
<1>12. pack_lane(p, x + y)
         = Digits([k \in 0 .. b - 1 |-> IF (x + y) + k < n THEN p[(x + y) + k] ELSE 0], Base, b)[0]
  BY <1>2, Zenon DEF pack_lane
<1> QED
  BY <1>9, <1>10, <1>11, <1>12, Zenon

\* A row and the next one satisfy what is asked of both.
LEMMA SpongeSteps ==
  ASSUME NEW c, NEW d, NEW p, NEW n \in Nat, NEW x \in Nat, NEW W, W = BytesPerRow,
         NEW in, NEW out, NEW in2, NEW out2,
         SpongeRow(c, p, n, x, W, in, out), SpongeRow(d, p, n, x + W, W, in2, out2)
  PROVE  ChunksAccept(c, d)
<1>1. W \in Nat \ {0}
  BY Constants
<1>2. d.flag = 1 => c.flag = 1
  BY <1>1 DEF SpongeRow
<1>3. c.flag = 1 /\ d.flag = 1 => c.is_active[BytesPerRow - 1] = 1
  <2>1. d.flag = IF x + W < n THEN 1 ELSE 0
    BY DEF SpongeRow
  <2>2. c.is_active = [i \in 0 .. W - 1 |-> IF x + i < n THEN 1 ELSE 0]
    BY DEF SpongeRow
  <2>3. ASSUME x + W < n PROVE c.is_active[W - 1] = 1
    <3>1. W - 1 \in 0 .. W - 1 /\ x + (W - 1) < n
      BY <1>1, <2>3
    <3> QED
      BY <2>2, <3>1
  <2> QED
    BY <2>1, <2>3
<1>4. d.base_addr = (c.base_addr + BytesPerRow) % P
  <2>1. ((x % P) + W) % P = (x + W) % P
    BY <1>1, ModAdd
  <2> QED
    BY <2>1, Zenon DEF SpongeRow
<1>5. d.cum_active = (c.cum_active + SumActive(d)) % P
  <2>1. PICK a \in Nat : a = SumActive(d)
                      /\ a = IF n <= x + W THEN 0 ELSE IF n <= x + W + W THEN n - (x + W) ELSE W
    <3>1. x + W \in Nat
      BY <1>1
    <3>3. ChunkRow(d, p, n, x + W, W)
      BY SpongeIsChunk
    <3>2. SumActive(d) = IF n <= x + W THEN 0 ELSE IF n <= x + W + W THEN n - (x + W) ELSE W
      BY <3>1, <3>3, SpongeActive
    <3> QED
      BY <1>1, <3>2
  <2>2. Min({n, x + W}) = IF n <= x + W THEN n ELSE x + W
    BY <1>1, MinOfTwo
  <2>3. Min({n, x + W + W}) = IF n <= x + W + W THEN n ELSE x + W + W
    BY <1>1, MinOfTwo
  <2>4. PICK b \in Nat : b = Min({n, x + W}) /\ b + a = Min({n, x + W + W})
    BY <1>1, <2>1, <2>2, <2>3
  <2>5. ((b % P) + a) % P = (b + a) % P
    BY ModAdd
  <2>6. d.cum_active = (b + a) % P
    BY <2>4 DEF SpongeRow
  <2>7. c.cum_active = b % P
    BY <2>4 DEF SpongeRow
  <2> QED
    BY <2>1, <2>5, <2>6, <2>7, Zenon
<1> QED
  BY <1>2, <1>3, <1>4, <1>5 DEF ChunksAccept

\* What a real row absorbs into the state of the next one.
LEMMA SpongeAbsorbs ==
  ASSUME NEW p \in Programs, NEW height, height = NumHashRows(p), NEW r \in 0 .. height - 1
  PROVE  AbsorptionAccepts(HashTable(p)[r], HashTable(p)[(r + 1) % height])
<1>1. PICK t, n, real, W, s : /\ n = Length(p) /\ real = NumRealRows(p) /\ W = BytesPerRow
                              /\ s = TraceStates(p) /\ t = HashTable(p)
  OBVIOUS
<1>2. /\ n \in Nat /\ real \in Nat /\ height \in Nat /\ height > real
      /\ \A q \in Nat : q < real <=> q * W < n
  BY <1>1, SpongeSized DEF SpongeSizes
<1>3. \A q \in 0 .. height - 1 : SpongeRow(t[q], p, n, q * W, W, Absorb(p, q, s[q + 1]), s[q])
  BY <1>1, SpongeRows
<1>4. SUFFICES ASSUME t[r].flag = 1 PROVE AbsorptionAccepts(t[r], t[(r + 1) % height])
  BY <1>1 DEF AbsorptionAccepts
<1>5. PICK x \in Nat : x = r * W
  <2>1. W \in Nat
    BY <1>1, Constants
  <2> QED
    BY <1>2, <2>1
<1>6. SpongeRow(t[r], p, n, x, W, Absorb(p, r, s[r + 1]), s[r])
  BY <1>3, <1>5
<1>7. x < n /\ r < real
  <2>1. x < n
    BY <1>4, <1>6 DEF SpongeRow
  <2>2. r \in Nat /\ (r < real <=> r * W < n)
    BY <1>2
  <2> QED
    BY <1>5, <2>1, <2>2
<1>8. (r + 1) % height = r + 1 /\ r + 1 \in 0 .. height - 1
  <2>1. r + 1 \in 0 .. height - 1
    BY <1>2, <1>7
  <2> QED
    BY <1>2, <2>1
<1>9. t[r + 1].state = s[r + 1]
  <2>1. SpongeRow(t[r + 1], p, n, (r + 1) * W, W, Absorb(p, r + 1, s[r + 1 + 1]), s[r + 1])
    BY <1>3, <1>8
  <2>2. t[r + 1].state = IF (r + 1) * W < n THEN s[r + 1] ELSE Zero
    BY <2>1 DEF SpongeRow
  <2>3. r + 1 \in Nat /\ (r + 1 < real <=> (r + 1) * W < n)
    <3>1. r + 1 \in Nat
      OBVIOUS
    <3> QED
      BY <1>2, <3>1
  <2>4. s[real] = Zero
    <3>1. s = [row \in 0 .. real |-> IF row = real THEN Zero ELSE Permute(Absorb(p, row, s[row + 1]))]
      BY <1>1, TraceStatesStep DEF TraceStatesOf
    <3>2. real \in 0 .. real
      BY <1>2
    <3> QED
      BY <3>1, <3>2
  <2>5. ~(r + 1 < real) => r + 1 = real
    BY <1>2, <1>7
  <2> QED
    BY <2>2, <2>3, <2>4, <2>5
<1>10. \A g \in Rate : Packed(t[r], g) = pack_lane(p, x + g * BytesPerRateElem)
  <2>1. ChunkRow(t[r], p, n, x, BytesPerRow)
    BY <1>1, <1>6, SpongeIsChunk
  <2> QED
    BY <1>1, <1>2, <2>1, SpongePacked
<1>11. Absorb(p, r, s[r + 1])
         = [g \in Lane |-> IF g \in Rate THEN (s[r + 1][g] + Packed(t[r], g)) % P ELSE s[r + 1][g]]
  <2>1. Absorb(p, r, s[r + 1])
          = [g \in Lane |-> IF g \in Rate
                            THEN (s[r + 1][g] + pack_lane(p, x + g * BytesPerRateElem)) % P
                            ELSE s[r + 1][g]]
    BY <1>1, <1>5, Zenon DEF Absorb
  <2> QED
    BY ONLY <1>10, <2>1
<1>12. t[r].perm_in = Absorb(p, r, s[r + 1])
  BY <1>6, <1>7 DEF SpongeRow
<1> QED
  BY <1>8, <1>9, <1>11, <1>12 DEF AbsorptionAccepts

\* The rows of the sponge satisfy their AIR with the digest and the length the
\* host computes on its own, for every program of at least one byte.
LEMMA SpongeAccepted ==
  ASSUME NEW p \in Programs, Length(p) >= 1
  PROVE  HashAccepts(HashTable(p), compute_program_digest(p))
<1>1. PICK t, n, real, height, W, s :
        /\ n = Length(p) /\ real = NumRealRows(p) /\ W = BytesPerRow
        /\ s = TraceStates(p) /\ t = HashTable(p) /\ height = NumHashRows(p)
  OBVIOUS
<1>2. /\ n \in Nat /\ real \in Nat /\ height \in Nat /\ height > real /\ n >= 1
      /\ \A q \in Nat : q < real <=> q * W < n
  BY <1>1, SpongeSized DEF SpongeSizes
<1>3. /\ DOMAIN t = 0 .. height - 1 /\ Cardinality(DOMAIN t) = height /\ LastRow(t) = height - 1
      /\ \A q \in 0 .. height - 1 : SpongeRow(t[q], p, n, q * W, W, Absorb(p, q, s[q + 1]), s[q])
  BY <1>1, SpongeRows
<1>4. W \in Nat \ {0} /\ W < P /\ P \in Nat
  BY <1>1, Constants
<1>5. height - 1 \in 0 .. height - 1 /\ 0 \in 0 .. height - 1
  BY <1>2
<1>6. PICK y \in Nat : y = (height - 1) * W /\ ~(y < n)
  <2>1. height - 1 \in Nat /\ ~(height - 1 < real)
    BY <1>2
  <2>2. ~((height - 1) * W < n)
    BY <1>2, <2>1
  <2> QED
    BY <1>4, <2>1, <2>2
<1>7. SpongeRow(t[height - 1], p, n, y, W, Absorb(p, height - 1, s[height - 1 + 1]), s[height - 1])
  BY <1>3, <1>5, <1>6
<1>8. SpongeRow(t[0], p, n, 0, W, Absorb(p, 0, s[0 + 1]), s[0])
  <2>1. 0 * W = 0
    BY <1>4
  <2> QED
    BY <1>3, <1>5, <2>1
<1>9. t[height - 1].flag = 0
  BY <1>6, <1>7 DEF SpongeRow
<1>10. ASSUME NEW r \in 0 .. height - 1, r # height - 1
       PROVE  ChunksAccept(t[r], t[r + 1])
  <2>1. r + 1 \in 0 .. height - 1
    BY <1>2, <1>10
  <2>2. PICK x \in Nat : x = r * W
    BY <1>4
  <2>3. (r + 1) * W = x + W
    BY <1>4, <2>2
  <2>4. SpongeRow(t[r], p, n, x, W, Absorb(p, r, s[r + 1]), s[r])
    BY <1>3, <2>2
  <2>5. SpongeRow(t[r + 1], p, n, x + W, W, Absorb(p, r + 1, s[r + 1 + 1]), s[r + 1])
    BY <1>3, <2>1, <2>3
  <2> QED
    BY <1>1, <1>2, <2>4, <2>5, SpongeSteps
<1>11. t[0].base_addr = 0
  <2>1. 0 \in 0 .. P - 1
    BY <1>4
  <2>2. 0 % P = 0
    BY <2>1, ModSmall
  <2> QED
    BY <1>8, <2>2 DEF SpongeRow
<1>12. t[0].cum_active = SumActive(t[0])
  <2>5. ChunkRow(t[0], p, n, 0, W)
    BY <1>8, SpongeIsChunk
  <2>1. SumActive(t[0]) = IF n <= 0 THEN 0 ELSE IF n <= 0 + W THEN n - 0 ELSE W
    BY <1>1, <1>2, <2>5, SpongeActive
  <2>2. Min({n, 0 + W}) = IF n <= 0 + W THEN n ELSE 0 + W
    <3>1. 0 + W \in Int
      BY <1>4
    <3> QED
      BY <1>2, <3>1, MinOfTwo
  <2>3. PICK a \in 0 .. P - 1 : a = Min({n, 0 + W}) /\ a = SumActive(t[0])
    BY <1>2, <1>4, <2>1, <2>2
  <2>4. a % P = a
    BY ModSmall
  <2> QED
    BY <1>8, <2>3, <2>4 DEF SpongeRow
<1>13. ASSUME NEW r \in 0 .. height - 1
       PROVE  ChunkAccepts(t[r]) /\ StateAccepts(t[r])
  <2>1. PICK x \in Nat : x = r * W
    BY <1>4
  <2>2. SpongeRow(t[r], p, n, x, W, Absorb(p, r, s[r + 1]), s[r])
    BY <1>3, <2>1
  <2> QED
    BY <1>1, <1>2, <2>2, SpongeChunk
<1>14. \A r \in 0 .. height - 1 : AbsorptionAccepts(t[r], t[(r + 1) % height])
  BY <1>1, SpongeAbsorbs
<1>15. Digest(t[0].state) = compute_program_digest(p).digest
  <2>1. t[0].state = s[0]
    BY <1>2, <1>8 DEF SpongeRow
  <2>2. compute_program_digest(p).digest = Digest(HostStates(p)[NumRealRows(p)])
    BY DEF compute_program_digest
  <2> QED
    BY <1>1, <2>1, <2>2, SameDigest, Zenon
<1>16. t[height - 1].cum_active = compute_program_digest(p).length
  <2>1. Min({n, y + W}) = n
    <3>1. y + W \in Int
      BY <1>4
    <3>2. Min({n, y + W}) = IF n <= y + W THEN n ELSE y + W
      BY <1>2, <3>1, MinOfTwo
    <3> QED
      BY <1>2, <1>4, <1>6, <3>2
  <2>2. compute_program_digest(p).length = n % P
    BY <1>1 DEF compute_program_digest
  <2> QED
    BY <1>7, <2>1, <2>2 DEF SpongeRow
<1>17. HashAccepts(t, compute_program_digest(p))
  BY <1>3, <1>9, <1>10, <1>11, <1>12, <1>13, <1>14, <1>15, <1>16, Zenon DEF HashAccepts
<1> QED
  BY <1>1, <1>17

\* The rows of the sponge satisfy their AIR with the public values the host
\* computes on its own, whatever the length is modulo the rate.
THEOREM HashTableAccepted == HashSpec => []HashAccepted
<1>1. HashInv => HashAccepted
  <2> SUFFICES ASSUME HashInv, Built
               PROVE  HashAccepts(tables.hash, tables.public_values)
    BY DEF HashAccepted
  <2>1. tables.hash = HashTable(program) /\ tables.public_values = compute_program_digest(program)
    BY DEF HashInv, Built, TablesOfRun
  <2>2. program \in Programs /\ Length(program) >= 1
    <3>1. Length(program) \in Nat /\ Length(program) >= 4
      BY RunsLength
    <3> QED
      BY <3>1 DEF HashInv
  <2> QED
    BY <2>1, <2>2, SpongeAccepted
<1> QED
  BY <1>1, HashSound, PTL

(***************************************************************************)
(* The byte ROM.                                                           *)
(***************************************************************************)
\* What is left of a above its first i limbs.
Above(a, i) == a \div 2 ^ (LimbBits * i)

\* Limb i of a.
LimbAt(a, i) == Above(a, i) % Base

\* The weights of the limbs.
LEMMA Weights ==
  ASSUME NEW i \in Nat
  PROVE  /\ 2 ^ (LimbBits * i) \in Nat \ {0}
         /\ 2 ^ (LimbBits * (i + 1)) = 2 ^ (LimbBits * i) * Base
<1>1. PICK b \in Nat \ {0} : b = LimbBits
  BY Constants
<1>2. PICK e \in Nat : e = b * i
  BY <1>1
<1>3. b * (i + 1) = e + b
  BY <1>1, <1>2
<1>4. 2 ^ e \in Nat /\ e < 2 ^ e
  BY TwoPowers, TwoPowerExceeds
<1>5. 2 ^ (e + b) = 2 ^ e * 2 ^ b
  BY PowersMultiply
<1> QED
  BY <1>1, <1>2, <1>3, <1>4, <1>5 DEF Base

\* A limb is the remainder of what is left above the limbs below it.
LEMMA AboveStep ==
  ASSUME NEW a \in Nat, NEW i \in Nat
  PROVE  /\ Above(a, i) \in Nat /\ Above(a, 0) = a
         /\ LimbAt(a, i) \in 0 .. Base - 1
         /\ Above(a, i) = Base * Above(a, i + 1) + LimbAt(a, i)
<1>1. PICK m \in Nat \ {0} : m = 2 ^ (LimbBits * i)
  BY Weights
<1>2. PICK b \in Nat \ {0} : b = Base
  BY Constants
<1>3. PICK x \in Nat : x = a \div m
  OBVIOUS
<1>4. Above(a, i) = x
  BY <1>1, <1>3 DEF Above
<1>5. Above(a, i + 1) = x \div b
  <2>1. Above(a, i + 1) = a \div (m * b)
    BY <1>1, <1>2, Weights DEF Above
  <2> QED
    <3>1. a \in Int
      OBVIOUS
    <3>2. (a \div m) \div b = a \div (m * b)
      BY ONLY <3>1, m \in Nat \ {0}, b \in Nat \ {0}, QuotientOfQuotient
    <3> QED
      BY <1>3, <2>1, <3>2
<1>6. x = b * (x \div b) + (x % b) /\ x % b \in 0 .. b - 1
  BY ONLY x \in Nat, b \in Nat \ {0}
<1>7. Above(a, 0) = a
  <2>1. LimbBits * 0 = 0
    BY Constants
  <2>2. a \div 1 = a
    OBVIOUS
  <2> QED
    BY <2>1, <2>2, PowerZero DEF Above
<1> QED
  BY <1>2, <1>4, <1>5, <1>6, <1>7 DEF LimbAt

\* What is left above the first limbs of the next number is more by one or
\* not at all.
Carry(a, i) == Above(a + 1, i) - Above(a, i)

\* Adding one to a, limb i takes the carry of the limbs below it and leaves its
\* own.
LEMMA CarryStep ==
  ASSUME NEW a \in Nat, NEW i \in Nat, Carry(a, i) \in {0, 1}
  PROVE  /\ Carry(a, i + 1) \in {0, 1}
         /\ Carry(a, i + 1) = (LimbAt(a, i) + Carry(a, i)) \div Base
         /\ LimbAt(a + 1, i) + Carry(a, i + 1) * Base = LimbAt(a, i) + Carry(a, i)
<1>1. PICK b \in Nat \ {0, 1} : b = Base
  BY Constants
<1>2. i + 1 \in Nat /\ a + 1 \in Nat
  OBVIOUS
<1>3. PICK x \in Nat, x1 \in Nat, l \in 0 .. b - 1 :
        x = Above(a, i) /\ x1 = Above(a, i + 1) /\ l = LimbAt(a, i) /\ x = b * x1 + l
  <2>1. Above(a, i) \in Nat /\ LimbAt(a, i) \in 0 .. b - 1
        /\ Above(a, i) = b * Above(a, i + 1) + LimbAt(a, i)
    BY <1>1, <1>2, AboveStep
  <2>2. Above(a, i + 1) \in Nat
    BY <1>2, AboveStep
  <2> QED
    BY <2>1, <2>2
<1>4. PICK y \in Nat, y1 \in Nat, k \in 0 .. b - 1 :
        y = Above(a + 1, i) /\ y1 = Above(a + 1, i + 1) /\ k = LimbAt(a + 1, i) /\ y = b * y1 + k
  <2>1. Above(a + 1, i) \in Nat /\ LimbAt(a + 1, i) \in 0 .. b - 1
        /\ Above(a + 1, i) = b * Above(a + 1, i + 1) + LimbAt(a + 1, i)
    BY <1>1, <1>2, AboveStep
  <2>2. Above(a + 1, i + 1) \in Nat
    BY <1>2, AboveStep
  <2> QED
    BY <2>1, <2>2
<1>5. PICK c \in {0, 1} : c = Carry(a, i) /\ y = x + c
  <2>1. Carry(a, i) = y - x
    BY <1>3, <1>4 DEF Carry
  <2> QED
    BY <2>1
<1>6. PICK d \in Int : d = Carry(a, i + 1) /\ d = y1 - x1
  BY <1>3, <1>4 DEF Carry
<1>7. k + b * d = l + c
  <2>1. b * d = b * y1 - b * x1 /\ b * y1 \in Int /\ b * x1 \in Int
    <3>1. d = y1 - x1
      BY <1>6
    <3> QED
      BY ONLY <3>1, b \in Nat, x1 \in Nat, y1 \in Nat
  <2>2. PICK u \in Int, v \in Int : u = b * y1 /\ v = b * x1
    BY <2>1
  <2>3. b * d = u - v /\ x = v + l /\ y = u + k
    BY <1>3, <1>4, <2>1, <2>2
  <2> QED
    BY ONLY <1>5, <2>3, x \in Nat, y \in Nat, u \in Int, v \in Int, k \in 0 .. b - 1, l \in 0 .. b - 1,
       c \in {0, 1}
<1>8. d \in {0, 1}
  <2>1. ASSUME d >= 2 PROVE b * d >= b + b
    BY <2>1
  <2>2. ASSUME d <= -1 PROVE b * d <= -b
    BY <2>2
  <2>3. k + b * d = l + c /\ l <= b - 1 /\ c <= 1 /\ k <= b - 1 /\ k >= 0 /\ l >= 0 /\ c >= 0
    BY <1>7
  <2> QED
    BY <2>1, <2>2, <2>3
<1>9. d = (l + c) \div b
  <2>1. CASE d = 0
    <3>1. l + c \in 0 .. b - 1
      BY <1>7, <2>1
    <3> QED
      BY <2>1, <3>1
  <2>2. CASE d = 1
    <3>1. l + c = b + k
      BY <1>7, <2>2
    <3>2. l + c \in Nat /\ b * 1 <= l + c /\ l + c < b * 1 + b
      BY <3>1
    <3>3. (l + c) \div b = 1
      BY <3>2
    <3> QED
      BY <2>2, <3>3
  <2> QED
    BY <1>8, <2>1, <2>2
<1>10. k + d * b = l + c
  BY <1>7
<1> QED
  BY <1>1, <1>3, <1>4, <1>5, <1>6, <1>8, <1>9, <1>10

\* Every carry is 0 or 1, and the first one is the one that is added.
LEMMA Carries ==
  ASSUME NEW a \in Nat
  PROVE  Carry(a, 0) = 1 /\ \A i \in 0 .. NumLimbs : Carry(a, i) \in {0, 1}
<1>1. PICK n \in Nat : n = NumLimbs
  BY Constants
<1>2. Carry(a, 0) = 1
  <2>1. a + 1 \in Nat /\ 0 \in Nat
    OBVIOUS
  <2>2. Above(a, 0) = a /\ Above(a + 1, 0) = a + 1
    BY <2>1, AboveStep
  <2> QED
    BY <2>2 DEF Carry
<1> DEFINE K == {i \in 0 .. n : Carry(a, i) \in {0, 1}}
<1>3. 0 \in K
  BY <1>2
<1>4. ASSUME NEW i \in 0 .. n - 1, i \in K
      PROVE  i + 1 \in K
  <2>1. Carry(a, i) \in {0, 1} /\ i \in Nat
    BY <1>4
  <2>2. Carry(a, i + 1) \in {0, 1}
    BY <2>1, CarryStep
  <2>3. i + 1 \in 0 .. n
    OBVIOUS
  <2> QED
    BY <2>2, <2>3
<1>5. 0 .. n \subseteq K
  <2> HIDE DEF K
  <2> QED
    BY <1>3, <1>4, InductionTo
<1> QED
  BY <1>1, <1>2, <1>5

\* c follows the recursion of IncCarries.
IncCarriesOf(c, a) ==
  c = [i \in Limb |-> (LimbsOf(a)[i] + (IF i = 0 THEN 1 ELSE c[i - 1])) \div Base]

\* The carries the builder computes are those of the addition.
LEMMA IncCarriesAre ==
  ASSUME NEW a \in Nat, NEW i \in Limb
  PROVE  IncCarries(a)[i] = Carry(a, i + 1) /\ LimbsOf(a)[i] = LimbAt(a, i)
<1>1. PICK n \in Nat \ {0} : n = NumLimbs
  BY Constants
<1>2. Limb = 0 .. n - 1
  BY <1>1 DEF Limb
<1>3. LimbsOf(a) = [j \in 0 .. n - 1 |-> LimbAt(a, j)]
  BY <1>2 DEF LimbsOf, LimbAt, Above
<1>4. Carry(a, 0) = 1 /\ \A j \in 0 .. n : Carry(a, j) \in {0, 1}
  BY <1>1, Carries
<1>5. \A j \in 0 .. n - 1 : Carry(a, j + 1) = (LimbAt(a, j) + Carry(a, j)) \div Base
  <2> SUFFICES ASSUME NEW j \in 0 .. n - 1
               PROVE  Carry(a, j + 1) = (LimbAt(a, j) + Carry(a, j)) \div Base
    OBVIOUS
  <2>1. j \in Nat /\ Carry(a, j) \in {0, 1}
    BY <1>4
  <2> QED
    BY <2>1, CarryStep
<1> DEFINE f == [j \in 0 .. n - 1 |-> Carry(a, j + 1)]
<1>6. \A j \in 0 .. n - 1 : (IF j = 0 THEN 1 ELSE f[j - 1]) = Carry(a, j)
  <2> SUFFICES ASSUME NEW j \in 0 .. n - 1, j # 0
               PROVE  f[j - 1] = Carry(a, j)
    BY <1>4
  <2>1. j - 1 \in 0 .. n - 1 /\ (j - 1) + 1 = j
    OBVIOUS
  <2> QED
    BY <2>1
<1>7. f = [j \in 0 .. n - 1 |-> (LimbsOf(a)[j] + (IF j = 0 THEN 1 ELSE f[j - 1])) \div Base]
  <2> SUFFICES ASSUME NEW j \in 0 .. n - 1
               PROVE  f[j] = (LimbsOf(a)[j] + (IF j = 0 THEN 1 ELSE f[j - 1])) \div Base
    OBVIOUS
  <2>1. f[j] = Carry(a, j + 1) /\ LimbsOf(a)[j] = LimbAt(a, j)
    BY <1>3
  <2> HIDE DEF f
  <2> QED
    BY <1>5, <1>6, <2>1
<1>8. IncCarriesOf(f, a)
  <2> HIDE DEF f
  <2> QED
    BY <1>2, <1>7 DEF IncCarriesOf
<1>9. IncCarries(a) = CHOOSE c : IncCarriesOf(c, a)
  BY Zenon DEF IncCarries, IncCarriesOf
<1>10. PICK c : c = IncCarries(a) /\ IncCarriesOf(c, a)
  <2> HIDE DEF f
  <2> QED
    BY <1>8, <1>9
<1>11. c = [j \in 0 .. n - 1 |-> (LimbsOf(a)[j] + (IF j = 0 THEN 1 ELSE c[j - 1])) \div Base]
  BY <1>2, <1>10 DEF IncCarriesOf
<1> HIDE DEF f
<1> DEFINE K == {k \in 0 .. n - 1 : c[k] = Carry(a, k + 1)}
<1>12. 0 \in K
  <2>1. 0 \in 0 .. n - 1
    OBVIOUS
  <2>2. c[0] = (LimbAt(a, 0) + Carry(a, 0)) \div Base
    BY <1>3, <1>4, <1>11, <2>1
  <2>3. Carry(a, 0 + 1) = (LimbAt(a, 0) + Carry(a, 0)) \div Base
    BY <1>5, <2>1
  <2> QED
    BY <2>1, <2>2, <2>3
<1>13. ASSUME NEW k \in 0 .. (n - 1) - 1, k \in K
       PROVE  k + 1 \in K
  <2>1. k + 1 \in 0 .. n - 1 /\ k + 1 # 0 /\ (k + 1) - 1 = k
    OBVIOUS
  <2>2. c[k + 1] = (LimbAt(a, k + 1) + c[k]) \div Base
    BY <1>3, <1>11, <2>1
  <2>3. c[k + 1] = Carry(a, (k + 1) + 1)
    BY <1>5, <1>13, <2>1, <2>2
  <2> QED
    BY <2>1, <2>3
<1>14. 0 .. n - 1 \subseteq K
  <2>1. n - 1 \in Nat
    OBVIOUS
  <2> HIDE DEF K
  <2> QED
    BY <1>12, <1>13, <2>1, InductionTo
<1> QED
  BY <1>2, <1>3, <1>10, <1>14

\* The rows of consecutive addresses satisfy the increment.
LEMMA AddressIncrements ==
  ASSUME NEW a \in Nat
  PROVE  U32Inc(LimbsOf(a), LimbsOf(a + 1), IncCarries(a))
<1> SUFFICES ASSUME NEW i \in Limb
             PROVE  /\ IncCarries(a)[i] \in {0, 1}
                    /\ LimbsOf(a + 1)[i] + IncCarries(a)[i] * Base
                         = LimbsOf(a)[i] + CarryIn(IncCarries(a), i, 1)
  BY DEF U32Inc, Boolean
<1>1. i \in Nat /\ i \in 0 .. NumLimbs /\ a + 1 \in Nat
  BY Constants DEF Limb
<1>2. Carry(a, 0) = 1 /\ Carry(a, i) \in {0, 1}
  BY <1>1, Carries
<1>3. /\ Carry(a, i + 1) \in {0, 1}
      /\ LimbAt(a + 1, i) + Carry(a, i + 1) * Base = LimbAt(a, i) + Carry(a, i)
  BY <1>1, <1>2, CarryStep
<1>4. CarryIn(IncCarries(a), i, 1) = Carry(a, i)
  <2>1. CASE i = 0
    BY <1>2, <2>1 DEF CarryIn
  <2>2. CASE i # 0
    <3>1. PICK j \in Limb : j = i - 1 /\ j + 1 = i
      <4>1. i - 1 \in Limb /\ (i - 1) + 1 = i
        BY <2>2, Constants DEF Limb
      <4> QED
        BY <4>1
    <3>2. IncCarries(a)[j] = Carry(a, j + 1)
      BY IncCarriesAre
    <3> QED
      BY <2>2, <3>1, <3>2 DEF CarryIn
  <2> QED
    BY <2>1, <2>2
<1>5. IncCarries(a)[i] = Carry(a, i + 1) /\ LimbsOf(a)[i] = LimbAt(a, i)
      /\ LimbsOf(a + 1)[i] = LimbAt(a + 1, i)
  BY <1>1, IncCarriesAre
<1> QED
  BY <1>3, <1>4, <1>5

\* An address leaves its top limb and the carry out of it free exactly when it
\* is below the weight of the top limb.
LEMMA TopFree ==
  ASSUME NEW a \in Nat, NEW h, h = 2 ^ (LimbBits * Top)
  PROVE  /\ a < h => LimbsOf(a)[Top] = 0 /\ IncCarries(a)[Top] = 0
         /\ a = h => LimbsOf(a)[Top] # 0
<1>1. Top \in Limb /\ Top \in Nat
  BY Constants DEF Limb
<1>2. h \in Nat \ {0} /\ 2 ^ (LimbBits * (Top + 1)) = h * Base
  BY <1>1, Weights
<1>3. PICK b \in Nat \ {0, 1} : b = Base
  BY Constants
<1>4. LimbsOf(a)[Top] = (a \div h) % b
  BY <1>1, <1>3 DEF LimbsOf
<1>5. ASSUME a < h
      PROVE  LimbsOf(a)[Top] = 0 /\ IncCarries(a)[Top] = 0
  <2>1. a \div h = 0
    BY <1>2, <1>5
  <2>2. 0 % b = 0
    OBVIOUS
  <2>3. PICK m \in Nat : m = h * b /\ h < m
    <3>1. h * b \in Nat /\ h * b >= h * 2
      BY <1>2
    <3> QED
      BY <1>2, <3>1
  <2>4. a \div m = 0 /\ (a + 1) \div m = 0
    <3>1. a \in 0 .. m - 1 /\ a + 1 \in 0 .. m - 1
      BY <1>2, <1>5, <2>3
    <3> QED
      BY <3>1
  <2>5. Carry(a, Top + 1) = 0
    BY <1>2, <1>3, <2>3, <2>4 DEF Carry, Above
  <2> QED
    BY <1>1, <1>4, <2>1, <2>2, <2>5, IncCarriesAre
<1>6. ASSUME a = h
      PROVE  LimbsOf(a)[Top] # 0
  <2>1. a \div h = 1
    BY <1>2, <1>6
  <2>2. 1 % b = 1
    OBVIOUS
  <2> QED
    BY <1>4, <2>1, <2>2
<1> QED
  BY <1>5, <1>6

\* The fetches of a row are a number, and none of a row past the program: a
\* step fetches inside the program, the padding fetches its first four bytes.
LEMMA RomCounts ==
  ASSUME HashInv, Built, NEW padding \in Nat, NEW a \in 0 .. NumRows(Length(program)) - 1
  PROVE  /\ RomMults(program, pcs, padding)[a] \in Nat
         /\ a >= Length(program) => RomMults(program, pcs, padding)[a] = 0
<1>1. PICK n \in Nat : n = Length(program) /\ n >= 4
  BY RunsLength
<1>2. pcs \in Seq(Nat) /\ \A k \in 1 .. Len(pcs) : pcs[k] + 3 < n
  BY <1>1 DEF HashInv
<1> DEFINE F == {k \in DOMAIN pcs : a \in pcs[k] .. pcs[k] + 3}
<1>3. RomMults(program, pcs, padding)[a] = Cardinality(F) + IF a < 4 THEN padding ELSE 0
  BY DEF RomMults
<1>4. DOMAIN pcs = 1 .. Len(pcs) /\ Len(pcs) \in Nat
  BY <1>2
<1>5. IsFiniteSet(F) /\ Cardinality(F) \in Nat
  <2>1. IsFiniteSet(1 .. Len(pcs))
    BY <1>4, FS_Interval
  <2>2. F \in SUBSET (1 .. Len(pcs))
    BY <1>4
  <2> HIDE DEF F
  <2> QED
    BY <2>1, <2>2, FS_Subset, FS_CardinalityType
<1>6. a >= n => F = {}
  <2> SUFFICES ASSUME a >= n, NEW k \in 1 .. Len(pcs), a \in pcs[k] .. pcs[k] + 3
               PROVE  FALSE
    BY <1>4
  <2>1. pcs[k] \in Nat /\ pcs[k] + 3 < n
    BY <1>2
  <2> QED
    BY <1>1, <2>1
<1>7. a \in Nat
  <2>1. NumRows(n) \in Nat
    BY NumRowsFit
  <2> QED
    BY <1>1, <2>1
<1> HIDE DEF F
<1>8. ASSUME a >= n PROVE Cardinality(F) = 0 /\ ~(a < 4)
  BY <1>1, <1>6, <1>7, <1>8, FS_EmptySet
<1> QED
  BY <1>1, <1>3, <1>5, <1>7, <1>8

\* The rows of the ROM.
LEMMA RomRows ==
  ASSUME HashInv, Built, NEW height, height = NumRows(Length(program)), NEW a \in 0 .. height - 1
  PROVE  /\ tables.rom[a].address = LimbsOf(a) /\ tables.rom[a].inc_carries = IncCarries(a)
         /\ tables.rom[a].is_real = IF a < Length(program) THEN 1 ELSE 0
         /\ tables.rom[a].mult * (1 - tables.rom[a].is_real) = 0
<1>1. PICK padding \in Nat : padding = NumRows(Len(pcs)) - Len(pcs)
  <2>1. Len(pcs) \in Nat
    BY DEF HashInv
  <2>2. NumRows(Len(pcs)) \in Nat /\ NumRows(Len(pcs)) >= Len(pcs)
    BY <2>1, NumRowsFit
  <2>3. NumRows(Len(pcs)) - Len(pcs) \in Nat
    BY <2>1, <2>2
  <2> QED
    BY <2>3
<1>2. PICK m : m = RomMults(program, pcs, padding)
  OBVIOUS
<1>3. tables.rom = RomTable(program, m)
  BY <1>1, <1>2 DEF HashInv, Built, TablesOfRun
<1>4. DOMAIN m = 0 .. height - 1
  BY <1>2 DEF RomMults
<1>5. tables.rom[a] =
        [address |-> LimbsOf(a), value |-> IF a < Length(program) THEN program[a] ELSE 0,
         mult |-> m[a], inc_carries |-> IncCarries(a),
         is_real |-> IF a < Length(program) THEN 1 ELSE 0]
  BY <1>3, <1>4, Zenon DEF RomTable
<1>6. m[a] \in Nat /\ (a >= Length(program) => m[a] = 0)
  BY <1>1, <1>2, RomCounts
<1>7. m[a] * (1 - IF a < Length(program) THEN 1 ELSE 0) = 0
  <2>1. Length(program) \in Nat
    BY RunsLength
  <2>2. a \in Nat
    BY <2>1, NumRowsFit
  <2>3. CASE a < Length(program)
    <3>1. m[a] * 0 = 0 /\ 1 - 1 = 0
      BY <1>6
    <3> QED
      BY <2>3, <3>1
  <2>4. CASE ~(a < Length(program))
    <3>1. m[a] = 0 /\ 1 - 0 = 1 /\ 0 * 1 = 0
      BY <1>6, <2>1, <2>2, <2>4
    <3> QED
      BY <2>4, <3>1
  <2> QED
    BY <2>3, <2>4
<1> QED
  BY <1>5, <1>7

\* The ROM satisfies its AIR whatever the program and the jumps, in so far as
\* its addresses leave the top limb free (a program of at most 16 MiB).
THEOREM RomTableAccepted == HashSpec => []RomAccepted
<1>1. HashInv => RomAccepted
  <2> SUFFICES ASSUME HashInv, Built
               PROVE  RomAccepts(tables.rom) <=> NumRows(Length(program)) <= 2 ^ (LimbBits * Top)
    BY DEF RomAccepted
  <2>1. PICK n \in Nat : n = Length(program) /\ n >= 4
    BY RunsLength
  <2>2. PICK height \in Nat : height = NumRows(n) /\ height >= 1
    BY NumRowsFit
  <2>3. PICK h \in Nat \ {0} : h = 2 ^ (LimbBits * Top)
    BY Constants, Weights
  <2>4. PICK t : t = tables.rom
    OBVIOUS
  <2>5. \A a \in 0 .. height - 1 :
          /\ t[a].address = LimbsOf(a) /\ t[a].inc_carries = IncCarries(a)
          /\ t[a].is_real = IF a < n THEN 1 ELSE 0
          /\ t[a].mult * (1 - t[a].is_real) = 0
    BY <2>1, <2>2, <2>4, RomRows
  <2>6. DOMAIN t = 0 .. height - 1
    BY <2>1, <2>2, <2>4 DEF HashInv, Built, TablesOfRun, RomTable, RomMults
  <2>7. Cardinality(DOMAIN t) - 1 = height - 1
    <3>1. 0 \in Int /\ height - 1 \in Int
      OBVIOUS
    <3>2. Cardinality(0 .. height - 1) = IF 0 > height - 1 THEN 0 ELSE (height - 1) - 0 + 1
      BY <3>1, FS_Interval
    <3> QED
      BY <2>2, <2>6, <3>2
  <2>8. ASSUME height <= h
        PROVE  RomAccepts(t)
    <3>1. \A i \in Limb : t[0].address[i] = 0
      <4> SUFFICES ASSUME NEW i \in Limb
                   PROVE  LimbsOf(0)[i] = 0
        <5>1. 0 \in 0 .. height - 1
          BY <2>2
        <5> QED
          BY <2>5, <5>1
      <4>1. i \in Nat
        BY Constants DEF Limb
      <4>2. PICK m \in Nat \ {0} : m = 2 ^ (LimbBits * i)
        BY <4>1, Weights
      <4>3. PICK b \in Nat \ {0} : b = Base
        BY Constants
      <4>4. LimbsOf(0)[i] = (0 \div m) % b
        BY <4>2, <4>3 DEF LimbsOf
      <4>5. 0 \div m = 0 /\ 0 % b = 0
        OBVIOUS
      <4> QED
        BY <4>4, <4>5
    <3>2. ASSUME NEW a \in 0 .. height - 1
          PROVE  /\ t[a].inc_carries[Top] = 0 /\ t[a].address[Top] = 0
                 /\ Boolean(t[a].is_real)
                 /\ t[a].mult * (1 - t[a].is_real) = 0
      <4>1. a \in Nat /\ a < h
        BY <2>8
      <4>2. LimbsOf(a)[Top] = 0 /\ IncCarries(a)[Top] = 0
        BY <2>3, <4>1, TopFree
      <4> QED
        BY <2>5, <4>2 DEF Boolean
    <3>3. ASSUME NEW a \in 0 .. height - 1, a # height - 1
          PROVE  /\ U32Inc(t[a].address, t[a + 1].address, t[a].inc_carries)
                 /\ t[a].is_real = 0 => t[a + 1].is_real = 0
      <4>1. a + 1 \in 0 .. height - 1 /\ a \in Nat
        BY <3>3
      <4>2. U32Inc(LimbsOf(a), LimbsOf(a + 1), IncCarries(a))
        BY <4>1, AddressIncrements
      <4>3. /\ t[a].address = LimbsOf(a) /\ t[a].inc_carries = IncCarries(a)
            /\ t[a].is_real = IF a < n THEN 1 ELSE 0
        BY <2>5
      <4>4. /\ t[a + 1].address = LimbsOf(a + 1)
            /\ t[a + 1].is_real = IF a + 1 < n THEN 1 ELSE 0
        BY <2>5, <4>1
      <4>5. t[a].is_real = 0 => t[a + 1].is_real = 0
        BY <4>1, <4>3, <4>4
      <4> QED
        BY <4>2, <4>3, <4>4, <4>5
    <3> QED
      BY <2>6, <2>7, <3>1, <3>2, <3>3, Zenon DEF RomAccepts
  <2>9. ASSUME RomAccepts(t), ~(height <= h)
        PROVE  FALSE
    <3>1. h \in 0 .. height - 1 /\ h \in Nat
      BY <2>9
    <3>2. t[h].address[Top] = 0
      BY <2>6, <2>9, <3>1 DEF RomAccepts
    <3>3. LimbsOf(h)[Top] # 0
      BY <2>3, <3>1, TopFree
    <3> QED
      BY <2>5, <3>1, <3>2, <3>3
  <2> QED
    BY <2>1, <2>2, <2>3, <2>4, <2>8, <2>9
<1> QED
  BY <1>1, HashSound, PTL

(***************************************************************************)
(* The buses.                                                              *)
(***************************************************************************)
\* The n bytes of p with their addresses, in order.
Image(p, n) == [i \in 1 .. n |-> <<(i - 1) % P, p[i - 1]>>]

\* How many of the n bytes are in the row of W that starts at x.
RowBytes(n, x, W) == IF n <= x THEN 0 ELSE IF n <= x + W THEN n - x ELSE W

\* The bytes a row sends are those from its start on, at most W of them.
LEMMA RowImageIs ==
  ASSUME NEW c, NEW p, NEW n \in Nat, NEW x \in Nat, NEW W, W = BytesPerRow,
         ChunkRow(c, p, n, x, W), NEW m, m = RowBytes(n, x, W)
  PROVE  RowImage(c) = [i \in 1 .. m |-> Image(p, n)[x + i]]
<1>1. W \in Nat \ {0} /\ P \in Nat \ {0}
  BY Constants
<1>0. m = IF n <= x THEN 0 ELSE IF n <= x + W THEN n - x ELSE W
  BY DEF RowBytes
<1>2. m \in 0 .. W /\ (m > 0 => x + m <= n)
  BY <1>0, <1>1
<1>3. PICK v : v = [i \in 1 .. m |-> Image(p, n)[x + i]]
  OBVIOUS
<1>4. PICK S : S = {Image(p, n)[i] : i \in 1 .. n}
  OBVIOUS
<1>5. v \in [1 .. m -> S]
  <2>1. \A i \in 1 .. m : x + i \in 1 .. n
    BY <1>2
  <2> QED
    BY <1>3, <1>4, <2>1
<1>6. ASSUME NEW k \in 1 .. W
      PROVE  (IF c.is_active[k - 1] = 1
              THEN << <<(c.base_addr + k - 1) % P, c.bytes[k - 1]>> >> ELSE <<>>)
               = IF k <= m THEN <<v[k]>> ELSE <<>>
  <2>1. PICK j \in 0 .. W - 1 : j = k - 1
    BY <1>1
  <2>2. /\ c.is_active[j] = IF x + j < n THEN 1 ELSE 0
        /\ c.bytes[j] = IF x + j < n THEN p[x + j] ELSE 0
    BY DEF ChunkRow
  <2>3. x + j < n <=> k <= m
    BY <1>0, <1>1, <2>1
  <2>4. ASSUME k <= m
        PROVE  <<(c.base_addr + k - 1) % P, c.bytes[j]>> = v[k]
    <3>1. v[k] = <<((x + k) - 1) % P, p[(x + k) - 1]>>
      <4>1. k \in 1 .. m /\ x + k \in 1 .. n
        BY <1>2, <2>4
      <4> QED
        BY <1>3, <4>1 DEF Image
    <3>2. (x + k) - 1 = x + j
      BY <2>1
    <3>3. (c.base_addr + k - 1) % P = (x + j) % P
      <4>1. c.base_addr = x % P
        BY DEF ChunkRow
      <4>2. PICK y \in Nat : y = x % P
        BY <1>1
      <4>3. y + k - 1 = y + j
        BY <2>1
      <4>4. ((x % P) + j) % P = (x + j) % P
        BY ModAdd
      <4> QED
        BY <4>1, <4>2, <4>3, <4>4
    <3> QED
      BY <2>2, <2>3, <2>4, <3>1, <3>2, <3>3
  <2>5. CASE k <= m
    <3>1. c.is_active[k - 1] = 1
      BY <2>1, <2>2, <2>3, <2>5
    <3>2. <<(c.base_addr + k - 1) % P, c.bytes[k - 1]>> = v[k]
      BY <2>1, <2>4, <2>5
    <3> QED
      BY <2>5, <3>1, <3>2, Zenon
  <2>6. CASE ~(k <= m)
    <3>1. c.is_active[k - 1] # 1
      BY <2>1, <2>2, <2>3, <2>6
    <3> QED
      BY <2>6, <3>1, Zenon
  <2> QED
    BY <2>5, <2>6
<1>7. PICK ss : ss = [k \in 1 .. W |-> IF c.is_active[k - 1] = 1
                       THEN << <<(c.base_addr + k - 1) % P, c.bytes[k - 1]>> >> ELSE <<>>]
  OBVIOUS
<1>8. ss = [k \in 1 .. W |-> IF k <= m THEN <<v[k]>> ELSE <<>>]
  BY <1>6, <1>7
<1>9. Firsts(S, ss, v, m, W)
  BY <1>1, <1>2, <1>5, <1>8 DEF Firsts
<1>10. FlattenSeq(ss) = v
  BY <1>9, FlattenFirsts
<1>11. RowImage(c) = FlattenSeq(ss)
  BY <1>7, Zenon DEF RowImage
<1> QED
  BY <1>3, <1>10, <1>11

\* The rows of t absorb the n bytes of p in order.
ChunkRows(t, p, n, height, W) ==
  /\ n \in Nat /\ height \in Nat \ {0} /\ W = BytesPerRow /\ ~((height - 1) * W < n)
  /\ DOMAIN t = 0 .. height - 1
  /\ \A q \in 0 .. height - 1 : ChunkRow(t[q], p, n, q * W, W)

\* They send them in order.
LEMMA ChunksSend ==
  ASSUME NEW t, NEW p, NEW n, NEW height, NEW W, ChunkRows(t, p, n, height, W)
  PROVE  ImageSends(t) = Image(p, n)
<1>2. n \in Nat /\ height \in Nat \ {0} /\ W = BytesPerRow /\ ~((height - 1) * W < n)
  BY DEF ChunkRows
<1>3. \A q \in 0 .. height - 1 : ChunkRow(t[q], p, n, q * W, W)
  BY DEF ChunkRows
<1>1. Cardinality(DOMAIN t) = height
  <2>1. 0 \in Int /\ height - 1 \in Int
    BY <1>2
  <2>2. Cardinality(0 .. height - 1) = IF 0 > height - 1 THEN 0 ELSE (height - 1) - 0 + 1
    BY <2>1, FS_Interval
  <2> QED
    BY <1>2, <2>2 DEF ChunkRows
<1>4. W \in Nat \ {0} /\ P \in Nat \ {0}
  BY <1>2, Constants
<1>5. PICK v : v = Image(p, n)
  OBVIOUS
<1>6. PICK S : S = {v[i] : i \in 1 .. n}
  OBVIOUS
<1>7. v \in [1 .. n -> S]
  BY <1>5, <1>6 DEF Image
<1>8. PICK ss : ss = [k \in 1 .. height |-> RowImage(t[k - 1])]
  OBVIOUS
<1>9. ASSUME NEW j \in 0 .. height - 1
      PROVE  /\ ss[j + 1] \in Seq(S)
             /\ ss[j + 1] = [i \in 1 .. InBlocks(n, j + 1, W) - InBlocks(n, j, W) |-> v[j * W + i]]
  <2>1. PICK x \in Nat : x = j * W /\ (j + 1) * W = x + W
    <3>1. j * W \in Nat /\ (j + 1) * W = j * W + W
      BY <1>4
    <3> QED
      BY <3>1
  <2>2. PICK m \in Nat : m = RowBytes(n, x, W) /\ (m > 0 => x + m <= n)
    BY <1>2, <1>4 DEF RowBytes
  <2>3. m = InBlocks(n, j + 1, W) - InBlocks(n, j, W)
    <3>1. InBlocks(n, j + 1, W) = (IF n <= x + W THEN n ELSE x + W)
          /\ InBlocks(n, j, W) = (IF n <= x THEN n ELSE x)
      BY <2>1 DEF InBlocks
    <3> QED
      BY <1>2, <1>4, <2>2, <3>1 DEF RowBytes
  <2>4. RowImage(t[j]) = [i \in 1 .. m |-> v[x + i]]
    <3>1. PICK c : c = t[j]
      OBVIOUS
    <3>2. ChunkRow(c, p, n, x, W)
      BY <1>3, <2>1, <3>1
    <3>3. n \in Nat /\ W = BytesPerRow /\ m = RowBytes(n, x, W)
      BY <1>2, <2>2
    <3>4. RowImage(c) = [i \in 1 .. m |-> Image(p, n)[x + i]]
      BY ONLY <3>2, <3>3, x \in Nat, RowImageIs
    <3> QED
      BY <1>5, <3>1, <3>4
  <2>5. ss[j + 1] = RowImage(t[j])
    <3>1. j + 1 \in 1 .. height /\ (j + 1) - 1 = j
      BY <1>2
    <3> QED
      BY <1>8, <3>1
  <2>6. ss[j + 1] \in Seq(S)
    <3>1. \A i \in 1 .. m : v[x + i] \in S
      <4>1. \A i \in 1 .. m : x + i \in 1 .. n
        <5>1. n \in Nat
          BY <1>2
        <5> QED
          BY <2>2, <5>1
      <4> QED
        BY <1>7, <4>1
    <3>2. ss[j + 1] \in [1 .. m -> S]
      BY <2>4, <2>5, <3>1
    <3> QED
      BY <3>2
  <2> QED
    BY <2>1, <2>3, <2>4, <2>5, <2>6
<1>10. ss \in Seq(Seq(S)) /\ Len(ss) = height
  <2>1. PICK Q : Q = Seq(S)
    OBVIOUS
  <2>2. \A k \in 1 .. height : ss[k] \in Q
    <3> SUFFICES ASSUME NEW k \in 1 .. height PROVE ss[k] \in Q
      OBVIOUS
    <3>1. PICK j \in 0 .. height - 1 : j + 1 = k
      <4>1. k - 1 \in 0 .. height - 1 /\ (k - 1) + 1 = k
        BY <1>2
      <4> QED
        BY <4>1
    <3> QED
      BY <1>9, <2>1, <3>1
  <2>3. ss \in [1 .. height -> Q]
    BY <1>8, <2>2
  <2>4. ss \in Seq(Q) /\ Len(ss) = height
    BY <1>2, <2>3
  <2> QED
    BY <2>1, <2>4
<1>11. Cuts(S, ss, v, n, W)
  BY <1>2, <1>4, <1>7, <1>9, <1>10 DEF Cuts
<1>12. FlattenSeq(ss) = [i \in 1 .. InBlocks(n, height, W) |-> v[i]]
  BY <1>10, <1>11, FlattenCut
<1>13. InBlocks(n, height, W) = n
  <2>1. PICK h \in Nat : h = height - 1 /\ height = h + 1
    BY <1>2
  <2>2. PICK y \in Nat : y = h * W /\ height * W = y + W
    <3>1. h * W \in Nat /\ (h + 1) * W = h * W + W
      BY <1>4
    <3> QED
      BY <2>1, <3>1
  <2>3. ~(y < n)
    BY <1>2, <2>1, <2>2
  <2> QED
    BY <1>2, <1>4, <2>2, <2>3 DEF InBlocks
<1>14. ImageSends(t) = FlattenSeq(ss)
  BY <1>1, <1>8, Zenon DEF ImageSends
<1>15. v = [i \in 1 .. n |-> v[i]]
  BY <1>7
<1> QED
  BY <1>5, <1>12, <1>13, <1>14, <1>15, Zenon

\* The sponge of a program does.
LEMMA SpongeChunks ==
  ASSUME NEW p \in Programs
  PROVE  ChunkRows(HashTable(p), p, Length(p), NumHashRows(p), BytesPerRow)
<1>1. PICK t, n, real, height, W, s :
        /\ n = Length(p) /\ real = NumRealRows(p) /\ W = BytesPerRow
        /\ s = TraceStates(p) /\ t = HashTable(p) /\ height = NumHashRows(p)
  OBVIOUS
<1>2. /\ n \in Nat /\ real \in Nat /\ height \in Nat /\ height > real
      /\ \A q \in Nat : q < real <=> q * W < n
  BY <1>1, SpongeSized DEF SpongeSizes
<1>3. /\ DOMAIN t = 0 .. height - 1
      /\ \A q \in 0 .. height - 1 : SpongeRow(t[q], p, n, q * W, W, Absorb(p, q, s[q + 1]), s[q])
  BY <1>1, SpongeRows
<1>4. \A q \in 0 .. height - 1 : ChunkRow(t[q], p, n, q * W, W)
  BY <1>3, SpongeIsChunk
<1>5. ~((height - 1) * W < n)
  <2>1. height - 1 \in Nat /\ ~(height - 1 < real)
    BY <1>2
  <2> QED
    BY <1>2, <2>1
<1>6. ChunkRows(t, p, n, height, W)
  <2>1. height \in Nat \ {0} /\ W = BytesPerRow
    BY <1>1, <1>2
  <2> QED
    BY <1>2, <1>3, <1>4, <1>5, <2>1 DEF ChunkRows
<1> QED
  BY <1>1, <1>6

\* The digits of the limbs of a number are the number.
LEMMA LimbsCombine ==
  ASSUME NEW a \in Nat, a < P, a < 2 ^ (LimbBits * NumLimbs)
  PROVE  AddrCombined(LimbsOf(a)) = a
<1>1. PICK n \in Nat \ {0} : n = NumLimbs
  BY Constants
<1>2. PICK b \in Nat \ {0, 1} : b = Base
  BY Constants
<1>3. PICK x : x = LimbsOf(a)
  OBVIOUS
<1>4. \A i \in 0 .. n - 1 : x[i] = LimbAt(a, i)
  BY <1>1, <1>3 DEF LimbsOf, LimbAt, Above, Limb
<1>5. \A i \in 0 .. n : /\ Above(a, i) \in Nat /\ LimbAt(a, i) \in 0 .. b - 1
                        /\ Above(a, i) = b * Above(a, i + 1) + LimbAt(a, i)
  <2> SUFFICES ASSUME NEW i \in Nat
               PROVE  /\ Above(a, i) \in Nat /\ LimbAt(a, i) \in 0 .. b - 1
                      /\ Above(a, i) = b * Above(a, i + 1) + LimbAt(a, i)
    OBVIOUS
  <2> QED
    BY <1>2, AboveStep
<1>6. PICK d : d = Digits(x, b, n)
  OBVIOUS
<1>7. d[n] = 0 /\ \A i \in 0 .. n - 1 : d[i] = x[i] + b * d[i + 1]
  <2>1. \A i \in 0 .. n - 1 : x[i] \in Int
    BY <1>4, <1>5
  <2>2. n \in Nat /\ b \in Int
    OBVIOUS
  <2> QED
    BY ONLY <1>6, <2>1, <2>2, DigitsStep
<1>8. Above(a, n) = 0
  <2>1. PICK m \in Nat \ {0} : m = 2 ^ (LimbBits * n)
    BY Weights
  <2>2. a \in 0 .. m - 1
    BY <1>1, <2>1
  <2>3. a \div m = 0
    BY <2>2
  <2> QED
    BY <2>1, <2>3 DEF Above
<1> DEFINE K == {i \in 0 .. n : d[i] = Above(a, i)}
<1>9. n \in K
  BY <1>7, <1>8
<1>10. ASSUME NEW i \in 0 .. n - 1, i + 1 \in K
       PROVE  i \in K
  <2>1. PICK y \in Nat, l \in Nat : y = Above(a, i + 1) /\ l = LimbAt(a, i)
    <3>1. i + 1 \in 0 .. n /\ i \in 0 .. n
      OBVIOUS
    <3>2. Above(a, i + 1) \in Nat /\ LimbAt(a, i) \in Nat
      BY <1>5, <3>1
    <3> QED
      BY <3>2
  <2>2. d[i] = l + b * y
    BY <1>4, <1>7, <1>10, <2>1
  <2>3. Above(a, i) = b * y + l /\ i \in 0 .. n
    BY <1>5, <2>1
  <2> QED
    BY <2>2, <2>3
<1>11. \A i \in 0 .. n : i \in K
  <2> HIDE DEF K
  <2> QED
    BY <1>9, <1>10, InductionDown
<1>12. d[0] = a
  <2>1. 0 \in Nat /\ 0 \in 0 .. n
    OBVIOUS
  <2>2. Above(a, 0) = a
    BY <2>1, AboveStep
  <2> QED
    BY <1>11, <2>1, <2>2
<1>13. a % P = a
  <2>1. a \in 0 .. P - 1
    BY Constants
  <2> QED
    BY <2>1, ModSmall
<1> QED
  BY <1>1, <1>2, <1>3, <1>6, <1>12, <1>13 DEF AddrCombined

\* The ROM holds the bytes of the program with their addresses.
LEMMA RomImageIs ==
  ASSUME HashInv, Built, Length(program) <= P, Length(program) <= 2 ^ (LimbBits * NumLimbs)
  PROVE  RomImage(tables.rom) = {<<a, program[a]>> : a \in 0 .. Length(program) - 1}
<1>1. PICK n \in Nat : n = Length(program) /\ n >= 4
  BY RunsLength
<1>2. PICK height \in Nat : height = NumRows(n) /\ height >= n
  BY NumRowsFit
<1>3. PICK t : t = tables.rom
  OBVIOUS
<1>4. PICK mults : t = RomTable(program, mults) /\ DOMAIN mults = 0 .. height - 1
  BY <1>1, <1>2, <1>3 DEF HashInv, Built, TablesOfRun, RomMults
<1>5. DOMAIN t = 0 .. height - 1
  BY <1>4 DEF RomTable
<1>6. \A a \in 0 .. height - 1 : /\ t[a].address = LimbsOf(a)
                                 /\ t[a].is_real = IF a < n THEN 1 ELSE 0
                                 /\ t[a].value = IF a < n THEN program[a] ELSE 0
  BY <1>1, <1>4 DEF RomTable
<1>7. {r \in DOMAIN t : t[r].is_real = 1} = 0 .. n - 1
  BY <1>2, <1>5, <1>6
<1>8. P \in Nat /\ 2 ^ (LimbBits * NumLimbs) \in Nat
  BY Constants, Weights
<1>9. ASSUME NEW a \in 0 .. n - 1
      PROVE  <<AddrCombined(t[a].address), t[a].value>> = <<a, program[a]>>
  <2>1. a \in Nat /\ a < n /\ a \in 0 .. height - 1
    BY <1>2
  <2>2. a < P /\ a < 2 ^ (LimbBits * NumLimbs)
    BY <1>1, <1>8, <2>1
  <2>3. AddrCombined(LimbsOf(a)) = a
    BY <2>1, <2>2, LimbsCombine
  <2> QED
    BY <1>6, <2>1, <2>3
<1>10. RomImage(t) = {<<AddrCombined(t[a].address), t[a].value>> : a \in 0 .. n - 1}
  BY <1>7 DEF RomImage
<1>11. RomImage(t) = {<<a, program[a]>> : a \in 0 .. n - 1}
  BY <1>9, <1>10
<1> QED
  BY <1>1, <1>3, <1>11

\* Every address is sent once.
LEMMA ImageBag ==
  ASSUME NEW p \in Programs, Length(p) <= P
  PROVE  ToBag(Image(p, Length(p))) = SetToBag({<<a, p[a]>> : a \in 0 .. Length(p) - 1})
<1>1. PICK n \in Nat : n = Length(p)
  BY ProgramBytes
<1>2. PICK v : v = Image(p, n)
  OBVIOUS
<1>3. v = [i \in 1 .. n |-> <<i - 1, p[i - 1]>>]
  <2>1. \A i \in 1 .. n : (i - 1) % P = i - 1
    <3> SUFFICES ASSUME NEW i \in 1 .. n PROVE (i - 1) % P = i - 1
      OBVIOUS
    <3>1. i - 1 \in 0 .. P - 1
      BY <1>1, Constants
    <3> QED
      BY <3>1, ModSmall
  <2> QED
    BY <1>2, <2>1 DEF Image
<1>4. PICK S : S = {<<a, p[a]>> : a \in 0 .. n - 1}
  OBVIOUS
<1>5. \A i \in 1 .. n : i - 1 \in 0 .. n - 1
  OBVIOUS
<1>6. \A a \in 0 .. n - 1 : a + 1 \in 1 .. n /\ (a + 1) - 1 = a /\ v[a + 1] = <<a, p[a]>>
  BY <1>3
<1>7. Range(v) = S
  <2>1. Range(v) = {v[i] : i \in 1 .. n}
    BY <1>3 DEF Range
  <2>2. \A i \in 1 .. n : v[i] \in S
    BY <1>3, <1>4, <1>5
  <2>3. \A x \in S : \E i \in 1 .. n : v[i] = x
    BY <1>4, <1>6
  <2> QED
    BY <2>1, <2>2, <2>3
<1>8. ASSUME NEW x \in S
      PROVE  Cardinality({i \in DOMAIN v : v[i] = x}) = 1
  <2>1. PICK a \in 0 .. n - 1 : x = <<a, p[a]>>
    BY <1>4
  <2>2. \A i \in 1 .. n : v[i] = x <=> i = a + 1
    <3> SUFFICES ASSUME NEW i \in 1 .. n
                 PROVE  v[i] = x <=> i = a + 1
      OBVIOUS
    <3>1. v[i] = <<i - 1, p[i - 1]>>
      BY <1>3
    <3>2. v[i] = x => i - 1 = a
      BY <2>1, <3>1
    <3>3. i = a + 1 => v[i] = x
      BY <1>6, <2>1
    <3> QED
      BY <3>2, <3>3
  <2>3. DOMAIN v = 1 .. n /\ a + 1 \in 1 .. n
    BY <1>3
  <2>4. {i \in DOMAIN v : v[i] = x} = {a + 1}
    BY <2>2, <2>3
  <2> QED
    BY <2>4, FS_Singleton
<1>9. ToBag(v) = [x \in S |-> 1]
  BY <1>7, <1>8 DEF ToBag
<1>10. SetToBag(S) = [x \in S |-> 1]
  BY DEF SetToBag
<1> QED
  BY <1>1, <1>2, <1>4, <1>9, <1>10

\* The permutations the sponge sends are those the chip does.
LEMMA PermsSent ==
  ASSUME NEW p \in Programs, NEW inputs,
         inputs = [k \in 1 .. NumRealRows(p) |-> HashTable(p)[k - 1].perm_in]
  PROVE  /\ DOMAIN ChipTable(inputs) = DOMAIN IsReal(Len(inputs))
         /\ PermSends(HashTable(p)) = ChipReceives(ChipTable(inputs), IsReal(Len(inputs)))
<1>1. PICK t, n, real, height, W, s :
        /\ n = Length(p) /\ real = NumRealRows(p) /\ W = BytesPerRow
        /\ s = TraceStates(p) /\ t = HashTable(p) /\ height = NumHashRows(p)
  OBVIOUS
<1>2. /\ n \in Nat /\ real \in Nat /\ height \in Nat /\ height > real
      /\ \A q \in Nat : q < real <=> q * W < n
  BY <1>1, SpongeSized DEF SpongeSizes
<1>3. /\ Cardinality(DOMAIN t) = height
      /\ \A q \in 0 .. height - 1 : SpongeRow(t[q], p, n, q * W, W, Absorb(p, q, s[q + 1]), s[q])
  BY <1>1, SpongeRows
<1>4. \A q \in 0 .. height - 1 :
        /\ t[q].flag = IF q < real THEN 1 ELSE 0
        /\ q < real => t[q].perm_in = Absorb(p, q, s[q + 1]) /\ t[q].perm_out = s[q]
  <2> SUFFICES ASSUME NEW q \in 0 .. height - 1
               PROVE  /\ t[q].flag = IF q < real THEN 1 ELSE 0
                      /\ q < real => t[q].perm_in = Absorb(p, q, s[q + 1]) /\ t[q].perm_out = s[q]
    OBVIOUS
  <2>1. q < real <=> q * W < n
    BY <1>2
  <2>2. SpongeRow(t[q], p, n, q * W, W, Absorb(p, q, s[q + 1]), s[q])
    BY <1>3
  <2> QED
    BY <2>1, <2>2 DEF SpongeRow
<1>5. \A q \in 0 .. real - 1 : s[q] = Permute(Absorb(p, q, s[q + 1]))
  <2>1. s = [row \in 0 .. real |-> IF row = real THEN Zero ELSE Permute(Absorb(p, row, s[row + 1]))]
    BY <1>1, TraceStatesStep DEF TraceStatesOf
  <2> QED
    BY <1>2, <2>1
<1>6. inputs = [k \in 1 .. real |-> t[k - 1].perm_in]
  BY <1>1
<1>7. Len(inputs) = real
  <2>1. real \in Nat
    BY <1>2
  <2> QED
    BY ONLY <1>6, <2>1
<1>8. PICK v : v = [k \in 1 .. real |-> <<inputs[k], Permute(inputs[k])>>]
  OBVIOUS
<1>9. PICK S : S = {v[k] : k \in 1 .. real}
  OBVIOUS
<1>10. v \in [1 .. real -> S]
  BY <1>8, <1>9
<1>11. PICK rows \in Nat : rows = NumRows(real + 1) /\ rows >= real + 1
  <2>1. real + 1 \in Nat
    BY <1>2
  <2> QED
    BY <2>1, NumRowsFit
<1>12. PICK c, e : c = ChipTable(inputs) /\ e = IsReal(Len(inputs))
  OBVIOUS
<1>13. /\ c = [r \in 0 .. rows - 1 |->
                 [inputs |-> IF r < real THEN inputs[r + 1] ELSE Zero,
                  outputs |-> Permute(IF r < real THEN inputs[r + 1] ELSE Zero)]]
       /\ e = [r \in 0 .. rows - 1 |-> IF r < real THEN 1 ELSE 0]
  <2>1. NumRows(Len(inputs) + 1) = rows
    BY <1>7, <1>11
  <2>2. c = [r \in 0 .. NumRows(Len(inputs) + 1) - 1 |->
               [inputs |-> IF r < Len(inputs) THEN inputs[r + 1] ELSE Zero,
                outputs |-> Permute(IF r < Len(inputs) THEN inputs[r + 1] ELSE Zero)]]
    BY ONLY <1>12 DEF ChipTable
  <2>3. e = [r \in 0 .. NumRows(Len(inputs) + 1) - 1 |-> IF r < Len(inputs) THEN 1 ELSE 0]
    BY ONLY <1>12 DEF IsReal
  <2> QED
    BY ONLY <1>7, <2>1, <2>2, <2>3
<1>14. DOMAIN c = 0 .. rows - 1 /\ DOMAIN e = 0 .. rows - 1
  BY <1>13
<1>15. Cardinality(DOMAIN c) = rows
  <2>1. 0 \in Int /\ rows - 1 \in Int
    OBVIOUS
  <2>2. Cardinality(0 .. rows - 1) = IF 0 > rows - 1 THEN 0 ELSE (rows - 1) - 0 + 1
    BY <2>1, FS_Interval
  <2> QED
    BY <1>2, <1>11, <1>14, <2>2
<1>16. PermSends(t) = v
  <2>1. PICK ss : ss = [k \in 1 .. height |-> IF t[k - 1].flag = 1
                          THEN << <<t[k - 1].perm_in, t[k - 1].perm_out>> >> ELSE <<>>]
    OBVIOUS
  <2>2. ASSUME NEW k \in 1 .. height
        PROVE  (IF t[k - 1].flag = 1
                THEN << <<t[k - 1].perm_in, t[k - 1].perm_out>> >> ELSE <<>>)
                 = IF k <= real THEN <<v[k]>> ELSE <<>>
    <3>1. PICK q \in 0 .. height - 1 : q = k - 1 /\ q + 1 = k
      <4>1. k - 1 \in 0 .. height - 1 /\ (k - 1) + 1 = k
        BY <1>2
      <4> QED
        BY <4>1
    <3>2. CASE k <= real
      <4>1. q < real /\ q \in 0 .. real - 1 /\ k \in 1 .. real
        BY <1>2, <3>1, <3>2
      <4>2. t[q].flag = 1 /\ t[q].perm_in = Absorb(p, q, s[q + 1]) /\ t[q].perm_out = s[q]
        BY <1>4, <4>1
      <4>3. inputs[k] = t[q].perm_in
        BY <1>6, <3>1, <4>1
      <4>4. v[k] = <<t[q].perm_in, t[q].perm_out>>
        BY <1>5, <1>8, <4>1, <4>2, <4>3
      <4> QED
        BY <3>1, <3>2, <4>2, <4>4, Zenon
    <3>3. CASE ~(k <= real)
      <4>1. ~(q < real)
        BY <1>2, <3>1, <3>3
      <4>2. t[q].flag # 1
        BY <1>4, <4>1
      <4> QED
        BY <3>1, <3>3, <4>2, Zenon
    <3> QED
      BY <3>2, <3>3
  <2>3. ss = [k \in 1 .. height |-> IF k <= real THEN <<v[k]>> ELSE <<>>]
    BY <2>1, <2>2
  <2>4. Firsts(S, ss, v, real, height)
    BY <1>2, <1>10, <2>3 DEF Firsts
  <2>5. PermSends(t) = FlattenSeq(ss)
    BY <1>3, <2>1, Zenon DEF PermSends
  <2> QED
    BY <2>4, <2>5, FlattenFirsts
<1>17. ChipReceives(c, e) = v
  <2>1. PICK ss : ss = [k \in 1 .. rows |-> IF e[k - 1] = 1
                          THEN << <<c[k - 1].inputs, c[k - 1].outputs>> >> ELSE <<>>]
    OBVIOUS
  <2>2. ASSUME NEW k \in 1 .. rows
        PROVE  (IF e[k - 1] = 1
                THEN << <<c[k - 1].inputs, c[k - 1].outputs>> >> ELSE <<>>)
                 = IF k <= real THEN <<v[k]>> ELSE <<>>
    <3>1. PICK q \in 0 .. rows - 1 : q = k - 1 /\ q + 1 = k
      <4>1. k - 1 \in 0 .. rows - 1 /\ (k - 1) + 1 = k
        BY <1>11
      <4> QED
        BY <4>1
    <3>2. CASE k <= real
      <4>1. q < real /\ k \in 1 .. real
        BY <1>2, <3>1, <3>2
      <4>2. e[q] = 1
        BY <1>13, <4>1
      <4>3. c[q].inputs = inputs[k] /\ c[q].outputs = Permute(inputs[k])
        BY <1>13, <3>1, <4>1
      <4>4. v[k] = <<c[q].inputs, c[q].outputs>>
        BY <1>8, <4>1, <4>3
      <4> QED
        BY <3>1, <3>2, <4>2, <4>4, Zenon
    <3>3. CASE ~(k <= real)
      <4>1. ~(q < real)
        BY <1>2, <3>1, <3>3
      <4>2. e[q] # 1
        BY <1>13, <4>1
      <4> QED
        BY <3>1, <3>3, <4>2, Zenon
    <3> QED
      BY <3>2, <3>3
  <2>3. ss = [k \in 1 .. rows |-> IF k <= real THEN <<v[k]>> ELSE <<>>]
    BY <2>1, <2>2
  <2>4. Firsts(S, ss, v, real, rows)
    BY <1>2, <1>10, <1>11, <2>3 DEF Firsts
  <2>5. ChipReceives(c, e) = FlattenSeq(ss)
    BY <1>15, <2>1, Zenon DEF ChipReceives
  <2> QED
    BY <2>4, <2>5, FlattenFirsts
<1> QED
  BY <1>1, <1>12, <1>14, <1>16, <1>17

\* The addresses of a ROM that is accepted do not wrap.
LEMMA RomFits ==
  ASSUME HashInv, RomAccepted, Built, RomAccepts(tables.rom)
  PROVE  Length(program) <= P /\ Length(program) <= 2 ^ (LimbBits * NumLimbs)
<1>1. PICK n \in Nat : n = Length(program) /\ n >= 4
  BY RunsLength
<1>2. n <= P /\ n <= 2 ^ (LimbBits * NumLimbs)
  <2>1. NumRows(n) \in Nat /\ NumRows(n) >= n
    BY NumRowsFit
  <2>2. NumRows(n) <= 2 ^ (LimbBits * Top)
    BY <1>1 DEF RomAccepted
  <2>3. PICK h \in Nat \ {0} : h = 2 ^ (LimbBits * Top)
    BY Constants, Weights
  <2>4. h <= P /\ P \in Nat
    BY <2>3, HashAssumption
  <2>5. 2 ^ (LimbBits * NumLimbs) = h * Base
    <3>1. Top \in Nat /\ Top + 1 = NumLimbs
      BY Constants
    <3> QED
      BY <2>3, <3>1, Weights
  <2>6. PICK b \in Nat \ {0, 1} : b = Base
    BY Constants
  <2>7. h <= h * b
    OBVIOUS
  <2>8. n <= h
    BY <2>1, <2>2, <2>3
  <2>9. PICK z \in Nat : z = h * b
    OBVIOUS
  <2> QED
    BY <2>4, <2>5, <2>6, <2>7, <2>8, <2>9
<1> QED
  BY <1>1, <1>2

\* The sponge absorbs every real byte of the ROM once, at its address, has it
\* range checked, and has every permutation done by the chip, whose selector
\* is as long as its trace and tells the real rows from the padding: whenever
\* the ROM itself is accepted, that is, as long as addresses do not wrap.
THEOREM HashBuses == HashSpec => [](Built /\ RomAccepts(tables.rom) => HashBusesBalanced)
<1>1. HashInv /\ RomAccepted => (Built /\ RomAccepts(tables.rom) => HashBusesBalanced)
  <2> SUFFICES ASSUME HashInv, RomAccepted, Built, RomAccepts(tables.rom)
               PROVE  HashBusesBalanced
    OBVIOUS
  <2>1. PICK n \in Nat : n = Length(program) /\ n >= 4
    BY RunsLength
  <2>2. n <= P /\ n <= 2 ^ (LimbBits * NumLimbs)
    BY <2>1, RomFits
  <2>3. PICK p \in Programs : p = program
    BY DEF HashInv
  <2>4. PICK inputs : inputs = [k \in 1 .. NumRealRows(p) |-> HashTable(p)[k - 1].perm_in]
    OBVIOUS
  <2>5. /\ tables.hash = HashTable(p)
        /\ tables.byte_mults = ToBag([k \in 1 .. n |-> p[k - 1]])
        /\ tables.chip = ChipTable(inputs) /\ tables.is_real = IsReal(Len(inputs))
    <3>1. tables = TablesOfRun
      BY DEF HashInv, Built
    <3>2. /\ TablesOfRun.hash = HashTable(p)
          /\ TablesOfRun.byte_mults = ToBag([k \in 1 .. n |-> p[k - 1]])
          /\ TablesOfRun.chip = ChipTable(inputs) /\ TablesOfRun.is_real = IsReal(Len(inputs))
      BY ONLY <2>1, <2>3, <2>4 DEF TablesOfRun
    <3> QED
      BY <3>1, <3>2
  <2>6. ImageSends(tables.hash) = Image(p, n)
    <3>1. ChunkRows(tables.hash, p, n, NumHashRows(p), BytesPerRow)
      BY <2>1, <2>3, <2>5, SpongeChunks
    <3> QED
      BY <3>1, ChunksSend
  <2>7. ToBag(ImageSends(tables.hash)) = SetToBag(RomImage(tables.rom))
    <3>1. RomImage(tables.rom) = {<<a, p[a]>> : a \in 0 .. Length(p) - 1}
      BY <2>1, <2>2, <2>3, RomImageIs
    <3>2. ToBag(Image(p, n)) = SetToBag({<<a, p[a]>> : a \in 0 .. Length(p) - 1})
      BY <2>1, <2>2, <2>3, ImageBag
    <3> QED
      BY <2>6, <3>1, <3>2
  <2>8. BytesSends(tables.hash) = [k \in 1 .. n |-> p[k - 1]]
    <3>1. PICK v : v = Image(p, n)
      OBVIOUS
    <3>2. BytesSends(tables.hash) = [k \in DOMAIN v |-> v[k][2]]
      BY <2>6, <3>1, Zenon DEF BytesSends
    <3>3. DOMAIN v = 1 .. n /\ \A k \in 1 .. n : v[k][2] = p[k - 1]
      BY <3>1 DEF Image
    <3> QED
      BY <3>2, <3>3
  <2>9. /\ DOMAIN tables.chip = DOMAIN tables.is_real
        /\ PermSends(tables.hash) = ChipReceives(tables.chip, tables.is_real)
    BY <2>4, <2>5, PermsSent
  <2> QED
    BY <2>5, <2>7, <2>8, <2>9 DEF HashBusesBalanced
<1> QED
  BY <1>1, HashSound, RomTableAccepted, PTL

(***************************************************************************)
(* The commitment is forced: any rows that are accepted and send the bytes *)
(* of the ROM are those of the program, as far as the digest goes.         *)
(***************************************************************************)
\* t, of height rows, is accepted with pv, and its permutations were done.
Committed(t, height, pv) ==
  /\ height \in Nat \ {0} /\ DOMAIN t = 0 .. height - 1 /\ HashAccepts(t, pv)
  /\ \A r \in 0 .. height - 1 : t[r].flag = 1 => t[r].perm_out = Permute(t[r].perm_in)

\* What that says of the rows.
LEMMA CommittedRows ==
  ASSUME NEW t, NEW height, NEW pv, Committed(t, height, pv)
  PROVE  /\ height \in Nat \ {0} /\ LastRow(t) = height - 1
         /\ t[height - 1].flag = 0
         /\ \A r \in 0 .. height - 1 : r # height - 1 => ChunksAccept(t[r], t[r + 1])
         /\ t[0].base_addr = 0 /\ t[0].cum_active = SumActive(t[0])
         /\ \A r \in 0 .. height - 1 : ChunkAccepts(t[r]) /\ StateAccepts(t[r])
         /\ \A r \in 0 .. height - 1 : AbsorptionAccepts(t[r], t[(r + 1) % height])
<1>1. height \in Nat \ {0} /\ DOMAIN t = 0 .. height - 1 /\ HashAccepts(t, pv)
  BY DEF Committed
<1>2. Cardinality(DOMAIN t) = height
  <2>1. 0 \in Int /\ height - 1 \in Int
    BY <1>1
  <2>2. Cardinality(0 .. height - 1) = IF 0 > height - 1 THEN 0 ELSE (height - 1) - 0 + 1
    BY <2>1, FS_Interval
  <2> QED
    BY <1>1, <2>2
<1>3. LastRow(t) = height - 1
  BY <1>2 DEF LastRow
<1> QED
  BY <1>1, <1>2, <1>3, Zenon DEF HashAccepts

\* The bytes a row absorbs are its first ones, and it is real if there are any.
RowFilled(c, k, W) ==
  /\ k \in 0 .. W /\ c.flag = IF 0 < k THEN 1 ELSE 0
  /\ \A i \in 0 .. W - 1 : /\ c.is_active[i] = IF i < k THEN 1 ELSE 0
                           /\ ~(i < k) => c.bytes[i] = 0

LEMMA RowsFilled ==
  ASSUME NEW c, ChunkAccepts(c), NEW W, W = BytesPerRow
  PROVE  \E k \in 0 .. W : RowFilled(c, k, W)
<1>1. W \in Nat \ {0} /\ InRow = 0 .. W - 1
  BY Constants DEF InRow
<1>2. /\ \A i \in 0 .. W - 1 : c.is_active[i] \in {0, 1}
      /\ \A i \in 0 .. W - 1 : i # 0 /\ c.is_active[i] = 1 => c.is_active[i - 1] = 1
      /\ c.is_active[0] = c.flag
      /\ \A i \in 0 .. W - 1 : c.is_active[i] = 0 => c.bytes[i] = 0
  BY <1>1 DEF ChunkAccepts, Boolean
<1>3. OnesLead(c.is_active, W)
  BY <1>1, <1>2 DEF OnesLead
<1>4. PICK k \in 0 .. W : \A i \in 0 .. W - 1 : c.is_active[i] = IF i < k THEN 1 ELSE 0
  BY <1>3, OnesFirst
<1>5. c.flag = IF 0 < k THEN 1 ELSE 0
  <2>1. 0 \in 0 .. W - 1
    BY <1>1
  <2> QED
    BY <1>2, <1>4, <2>1
<1>6. RowFilled(c, k, W)
  BY <1>2, <1>4, <1>5 DEF RowFilled
<1> QED
  BY <1>6

\* A number has one quotient and one remainder.
LEMMA OnePlace ==
  ASSUME NEW W \in Nat, NEW r \in Nat, NEW q \in Nat, NEW i \in 0 .. W - 1, NEW j \in 0 .. W - 1,
         r * W + i = q * W + j
  PROVE  r = q /\ i = j
<1>1. PICK x \in Nat, y \in Nat : x = r * W /\ y = q * W /\ x + i = y + j
  OBVIOUS
<1>2. ~(r < q)
  <2> SUFFICES ASSUME r < q PROVE FALSE
    OBVIOUS
  <2>1. PICK d \in Nat : q = r + 1 + d
    <3>1. q - r - 1 \in Nat /\ q = r + 1 + (q - r - 1)
      OBVIOUS
    <3> QED
      BY <3>1
  <2>2. y = x + W + d * W /\ d * W \in Nat
    BY <1>1, <2>1
  <2> QED
    BY <1>1, <2>2
<1>3. ~(q < r)
  <2> SUFFICES ASSUME q < r PROVE FALSE
    OBVIOUS
  <2>1. PICK d \in Nat : r = q + 1 + d
    <3>1. r - q - 1 \in Nat /\ r = q + 1 + (r - q - 1)
      OBVIOUS
    <3> QED
      BY <3>1
  <2>2. x = y + W + d * W /\ d * W \in Nat
    BY <1>1, <2>1
  <2> QED
    BY <1>1, <2>2
<1>4. r = q
  BY <1>2, <1>3
<1> QED
  BY <1>1, <1>4

\* Whatever rows are accepted absorb a number of bytes in order.
LEMMA ChunksForced ==
  ASSUME NEW t, NEW height, NEW pv, Committed(t, height, pv), NEW W, W = BytesPerRow
  PROVE  \E m \in Nat : \E B : ChunkRows(t, B, m, height, W)
<1>1. PICK h \in Nat : height = h + 1 /\ h = height - 1
  <2>1. height \in Nat \ {0}
    BY CommittedRows
  <2>2. height - 1 \in Nat /\ height = (height - 1) + 1
    BY <2>1
  <2> QED
    BY <2>2
<1>2. /\ t[h].flag = 0 /\ t[0].base_addr = 0
      /\ \A r \in 0 .. h - 1 : ChunksAccept(t[r], t[r + 1])
      /\ \A r \in 0 .. h : ChunkAccepts(t[r])
  <2>1. /\ t[height - 1].flag = 0 /\ t[0].base_addr = 0
        /\ \A r \in 0 .. height - 1 : r # height - 1 => ChunksAccept(t[r], t[r + 1])
        /\ \A r \in 0 .. height - 1 : ChunkAccepts(t[r])
    BY CommittedRows
  <2> QED
    BY ONLY <1>1, <2>1
<1>3. W \in Nat \ {0} /\ P \in Nat \ {0}
  BY Constants
<1>4. PICK K : K = [r \in 0 .. h |-> CHOOSE k \in 0 .. W : RowFilled(t[r], k, W)]
  OBVIOUS
<1>5. ASSUME NEW r \in 0 .. h PROVE K[r] \in 0 .. W /\ RowFilled(t[r], K[r], W)
  <2>1. PICK c : c = t[r]
    OBVIOUS
  <2>2. \E k \in 0 .. W : RowFilled(c, k, W)
    BY <1>2, <2>1, RowsFilled
  <2>3. K[r] = CHOOSE k \in 0 .. W : RowFilled(c, k, W)
    BY <1>4, <2>1
  <2> QED
    BY <2>1, <2>2, <2>3
<1>6. ASSUME NEW r \in 0 .. h
      PROVE  /\ K[r] \in 0 .. W /\ t[r].flag = IF 0 < K[r] THEN 1 ELSE 0
             /\ \A i \in 0 .. W - 1 : /\ t[r].is_active[i] = IF i < K[r] THEN 1 ELSE 0
                                      /\ ~(i < K[r]) => t[r].bytes[i] = 0
  BY <1>5 DEF RowFilled
<1>7. ASSUME NEW r \in 0 .. h - 1
      PROVE  /\ K[r + 1] > 0 => K[r] = W
             /\ t[r + 1].base_addr = (t[r].base_addr + W) % P
  <2>1. r \in 0 .. h /\ r + 1 \in 0 .. h
    BY <1>1
  <2>2. /\ t[r + 1].flag = 1 => t[r].flag = 1
        /\ t[r].flag = 1 /\ t[r + 1].flag = 1 => t[r].is_active[W - 1] = 1
        /\ t[r + 1].base_addr = (t[r].base_addr + W) % P
    BY <1>2 DEF ChunksAccept
  <2>3. ASSUME K[r + 1] > 0 PROVE K[r] = W
    <3>1. t[r].is_active[W - 1] = 1
      BY <1>6, <2>1, <2>2, <2>3
    <3>2. W - 1 \in 0 .. W - 1
      BY <1>3
    <3>3. W - 1 < K[r] /\ K[r] \in 0 .. W
      BY <1>6, <2>1, <3>1, <3>2
    <3> QED
      BY <1>3, <3>3
  <2> QED
    BY <2>2, <2>3
<1>8. PICK f \in 0 .. h : \A r \in 0 .. h : K[r] > 0 <=> r < f
  <2>1. PICK g : g = [r \in 0 .. h |-> IF K[r] > 0 THEN 1 ELSE 0]
    OBVIOUS
  <2>2. ASSUME NEW r \in 0 .. h, r # 0, g[r] = 1 PROVE g[r - 1] = 1
    <3>1. PICK q \in 0 .. h - 1 : q = r - 1 /\ q + 1 = r
      <4>1. r - 1 \in 0 .. h - 1 /\ (r - 1) + 1 = r
        BY <2>2
      <4> QED
        BY <4>1
    <3>2. K[q] = W
      BY <1>7, <2>1, <2>2, <3>1
    <3>3. q \in 0 .. h
      BY <3>1
    <3> QED
      BY <1>3, <2>1, <3>1, <3>2, <3>3
  <2>3. OnesLead(g, height)
    <3>1. 0 .. height - 1 = 0 .. h /\ height \in Nat
      BY <1>1
    <3>2. \A r \in 0 .. h : g[r] \in {0, 1}
      BY <2>1
    <3> QED
      BY <2>2, <3>1, <3>2 DEF OnesLead
  <2>4. PICK f \in 0 .. height : \A r \in 0 .. height - 1 : g[r] = IF r < f THEN 1 ELSE 0
    BY <2>3, OnesFirst
  <2>5. \A r \in 0 .. h : K[r] > 0 <=> r < f
    BY <1>1, <2>1, <2>4
  <2>6. ~(K[h] > 0) /\ h \in 0 .. h
    BY <1>2, <1>6
  <2>7. f \in 0 .. h
    BY <1>1, <2>4, <2>5, <2>6
  <2> QED
    BY <2>5, <2>7
<1>9. PICK m \in Nat : m = IF f = 0 THEN 0 ELSE (f - 1) * W + K[f - 1]
  <2>1. CASE f = 0
    BY <2>1
  <2>2. CASE f # 0
    <3>1. f - 1 \in 0 .. h
      BY <2>2
    <3>2. K[f - 1] \in Nat /\ (f - 1) * W \in Nat
      BY <1>3, <1>6, <3>1
    <3> QED
      BY <2>2, <3>2
  <2> QED
    BY <2>1, <2>2
<1>10. ASSUME NEW r \in 0 .. h, NEW x \in Nat, x = r * W
       PROVE  /\ x < m <=> 0 < K[r]
              /\ \A i \in 0 .. W - 1 : x + i < m <=> i < K[r]
  <2>1. K[r] \in 0 .. W
    BY <1>6
  <2>2. CASE r < f
    <3>1. PICK e \in 0 .. h : e = f - 1 /\ f # 0
      <4>1. f - 1 \in 0 .. h /\ f # 0
        BY <2>2
      <4> QED
        BY <4>1
    <3>2. PICK y \in Nat : y = e * W
      BY <1>3
    <3>3. m = y + K[e] /\ K[e] \in 0 .. W /\ K[e] > 0
      <4>1. e < f
        BY <3>1
      <4> QED
        BY <1>6, <1>8, <1>9, <3>1, <3>2, <4>1
    <3>4. CASE r = e
      BY <1>3, <1>10, <3>2, <3>3, <3>4
    <3>5. CASE r # e
      <4>1. r + 1 \in 0 .. h /\ r + 1 < f /\ r \in 0 .. h - 1
        BY <2>2, <3>1, <3>5
      <4>2. K[r] = W
        BY <1>7, <1>8, <4>1
      <4>3. PICK d \in Nat : e = r + 1 + d
        <5>1. e - r - 1 \in Nat /\ e = r + 1 + (e - r - 1)
          BY <3>1, <4>1
        <5> QED
          BY <5>1
      <4>4. y = x + W + d * W /\ d * W \in Nat
        BY <1>3, <1>10, <3>2, <4>3
      <4>5. PICK z \in Nat : z = d * W
        BY <4>4
      <4>6. x + W <= m
        BY <1>3, <3>3, <4>4, <4>5
      <4> QED
        BY ONLY <1>3, <4>2, <4>6, x \in Nat, m \in Nat
    <3> QED
      BY <3>4, <3>5
  <2>3. CASE ~(r < f)
    <3>1. K[r] = 0
      BY <1>8, <2>1, <2>3
    <3>2. m <= x
      <4>1. CASE f = 0
        BY <1>9, <4>1
      <4>2. CASE f # 0
        <5>1. PICK e \in 0 .. h : e = f - 1
          BY <4>2
        <5>2. PICK d \in Nat : r = e + 1 + d
          <6>1. r - e - 1 \in Nat /\ r = e + 1 + (r - e - 1)
            BY <2>3, <5>1
          <6> QED
            BY <6>1
        <5>3. PICK y \in Nat : y = e * W
          BY <1>3
        <5>4. x = y + W + d * W /\ d * W \in Nat
          BY <1>3, <1>10, <5>2, <5>3
        <5>5. m = y + K[e] /\ K[e] \in 0 .. W
          BY <1>6, <1>9, <4>2, <5>1, <5>3
        <5>6. PICK z \in Nat : z = d * W
          BY <5>4
        <5> QED
          BY <1>3, <5>4, <5>5, <5>6
      <4> QED
        BY <4>1, <4>2
    <3> QED
      BY <3>1, <3>2
  <2> QED
    BY <2>2, <2>3
<1>11. \A r \in 0 .. h : t[r].base_addr = (r * W) % P
  <2> DEFINE S == {r \in 0 .. h : t[r].base_addr = (r * W) % P}
  <2>1. 0 \in S
    <3>1. 0 * W = 0 /\ 0 % P = 0
      <4>1. 0 \in 0 .. P - 1
        BY <1>3
      <4> QED
        BY <1>3, <4>1, ModSmall
    <3> QED
      BY <1>2, <3>1
  <2>2. ASSUME NEW r \in 0 .. h - 1, r \in S PROVE r + 1 \in S
    <3>1. PICK x \in Nat : x = r * W /\ (r + 1) * W = x + W
      <4>1. r * W \in Nat /\ (r + 1) * W = r * W + W
        BY <1>3
      <4> QED
        BY <4>1
    <3>2. ((x % P) + W) % P = (x + W) % P
      <4>1. x \in Int /\ W \in Int
        BY <1>3
      <4> QED
        BY ONLY <4>1, ModAdd
    <3>3. t[r + 1].base_addr = (t[r].base_addr + W) % P /\ t[r].base_addr = x % P
      BY <1>7, <2>2, <3>1
    <3>4. t[r + 1].base_addr = ((r + 1) * W) % P
      BY <3>1, <3>2, <3>3
    <3>5. r + 1 \in 0 .. h
      OBVIOUS
    <3> QED
      BY <3>4, <3>5
  <2>3. 0 .. h \subseteq S
    <3> HIDE DEF S
    <3> QED
      BY <2>1, <2>2, InductionTo
  <2> QED
    BY <2>3
<1> DEFINE IsAt(a, z) == \E r \in 0 .. h : \E i \in 0 .. W - 1 : a = r * W + i /\ z = t[r].bytes[i]
<1>12. PICK B : B = [a \in 0 .. m - 1 |-> CHOOSE z : IsAt(a, z)]
  OBVIOUS
<1>13. ASSUME NEW r \in 0 .. h, NEW i \in 0 .. W - 1, NEW x \in Nat, x = r * W, x + i < m
       PROVE  B[x + i] = t[r].bytes[i]
  <2>1. PICK a \in 0 .. m - 1 : a = x + i
    <3>1. x + i \in 0 .. m - 1
      BY <1>13
    <3> QED
      BY <3>1
  <2>2. IsAt(a, t[r].bytes[i])
    BY <1>13, <2>1
  <2>3. PICK z : z = B[a] /\ IsAt(a, z)
    <3> HIDE DEF IsAt
    <3> QED
      BY <1>12, <2>2
  <2>4. PICK q \in 0 .. h, j \in 0 .. W - 1 : a = q * W + j /\ z = t[q].bytes[j]
    BY <2>3
  <2>5. q = r /\ j = i
    <3>1. q \in Nat /\ r \in Nat /\ W \in Nat /\ q * W + j = r * W + i
      BY <1>3, <1>13, <2>1, <2>4
    <3> QED
      BY ONLY <3>1, i \in 0 .. W - 1, j \in 0 .. W - 1, OnePlace
  <2> QED
    BY <2>1, <2>3, <2>4, <2>5
<1>14. ASSUME NEW r \in 0 .. h PROVE ChunkRow(t[r], B, m, r * W, W)
  <2>1. PICK x \in Nat : x = r * W
    BY <1>3
  <2>2. t[r].base_addr = x % P
    BY <1>11, <2>1
  <2>3. t[r].flag = IF x < m THEN 1 ELSE 0
    BY <1>6, <1>10, <2>1
  <2>4. ASSUME NEW i \in 0 .. W - 1
        PROVE  /\ t[r].is_active[i] = IF x + i < m THEN 1 ELSE 0
               /\ t[r].bytes[i] = IF x + i < m THEN B[x + i] ELSE 0
    <3>1. x + i < m <=> i < K[r]
      BY <1>10, <2>1
    <3>2. x + i < m => B[x + i] = t[r].bytes[i]
      BY <1>13, <2>1
    <3> QED
      BY <1>6, <3>1, <3>2
  <2> QED
    BY <2>1, <2>2, <2>3, <2>4 DEF ChunkRow
<1>15. ~(h * W < m)
  <2>1. PICK x \in Nat : x = h * W
    BY <1>3
  <2>2. h \in 0 .. h /\ ~(0 < K[h])
    BY <1>2, <1>6
  <2> QED
    BY <1>10, <2>1, <2>2
<1>16. DOMAIN t = 0 .. height - 1 /\ 0 .. height - 1 = 0 .. h /\ height \in Nat \ {0}
  BY <1>1 DEF Committed
<1>17. ChunkRows(t, B, m, height, W)
  BY <1>1, <1>14, <1>15, <1>16 DEF ChunkRows
<1> QED
  BY <1>17

\* The m bytes of B are sent as often as the n of p are received.
SameImage(B, m, p, n) ==
  ToBag(Image(B, m)) = SetToBag({<<a, p[a]>> : a \in 0 .. n - 1})

\* The bag of the bytes sent tells which they are, and how many.
LEMMA BytesForced ==
  ASSUME NEW p \in Programs, NEW n \in Nat, n = Length(p), n <= P, NEW m \in Nat, NEW B,
         SameImage(B, m, p, n)
  PROVE  m = n /\ \A a \in 0 .. n - 1 : B[a] = p[a]
<1>1. PICK v : v = Image(B, m)
  OBVIOUS
<1>2. v = [i \in 1 .. m |-> <<(i - 1) % P, B[i - 1]>>]
  BY <1>1 DEF Image
<1>3. PICK S : S = {<<a, p[a]>> : a \in 0 .. n - 1}
  OBVIOUS
<1>4. P \in Nat \ {0}
  BY Constants
<1>5. ToBag(v) = [x \in S |-> 1]
  BY <1>1, <1>3 DEF SetToBag, SameImage
<1>6. ToBag(v) = [x \in Range(v) |-> Cardinality({i \in DOMAIN v : v[i] = x})]
  BY DEF ToBag
<1>7. Range(v) = S /\ \A x \in S : Cardinality({i \in DOMAIN v : v[i] = x}) = 1
  BY <1>5, <1>6
<1>8. Range(v) = {v[i] : i \in 1 .. m} /\ DOMAIN v = 1 .. m
  BY <1>2 DEF Range
<1>9. ASSUME NEW a \in 0 .. m - 1, a < P
      PROVE  v[a + 1] = <<a, B[a]>> /\ a < n /\ B[a] = p[a]
  <2>1. a + 1 \in 1 .. m /\ (a + 1) - 1 = a
    OBVIOUS
  <2>2. a % P = a
    <3>1. a \in 0 .. P - 1
      BY <1>4, <1>9
    <3> QED
      BY <3>1, ModSmall
  <2>3. v[a + 1] = <<a, B[a]>>
    BY <1>2, <2>1, <2>2
  <2>4. v[a + 1] \in S
    BY <1>7, <1>8, <2>1
  <2>5. PICK b \in 0 .. n - 1 : v[a + 1] = <<b, p[b]>>
    BY <1>3, <2>4
  <2>6. a = b /\ B[a] = p[b]
    BY <2>3, <2>5
  <2> QED
    BY <2>3, <2>6
<1>10. ~(m < n)
  <2> SUFFICES ASSUME m < n PROVE FALSE
    OBVIOUS
  <2>1. <<m, p[m]>> \in S
    BY <1>3
  <2>2. PICK i \in 1 .. m : v[i] = <<m, p[m]>>
    BY <1>7, <1>8, <2>1
  <2>3. PICK a \in 0 .. m - 1 : i = a + 1
    <3>1. i - 1 \in 0 .. m - 1 /\ i = (i - 1) + 1
      OBVIOUS
    <3> QED
      BY <3>1
  <2>4. a < P
    BY <1>4
  <2>5. v[a + 1] = <<a, B[a]>>
    BY <1>9, <2>4
  <2>6. a = m
    BY <2>2, <2>3, <2>5
  <2> QED
    BY <2>6
<1>11. ~(n < m)
  <2> SUFFICES ASSUME n < m PROVE FALSE
    OBVIOUS
  <2>1. n \in 0 .. m - 1
    OBVIOUS
  <2>2. n = P
    <3>1. n < P => n < n
      BY <1>9, <2>1
    <3> QED
      BY <1>4, <3>1
  <2>3. 0 \in 0 .. m - 1 /\ 0 < P /\ 0 \in 0 .. n - 1
    BY <1>4, <2>2
  <2>4. v[1] = <<0, B[0]>> /\ B[0] = p[0]
    <3>1. 0 + 1 = 1
      OBVIOUS
    <3> QED
      BY <1>9, <2>3, <3>1
  <2>5. P + 1 \in 1 .. m /\ (P + 1) - 1 = P
    BY <1>4, <2>1, <2>2
  <2>6. P % P = 0
    BY <1>4
  <2>7. v[P + 1] = <<0, B[P]>>
    BY <1>2, <2>5, <2>6
  <2>8. v[P + 1] \in S
    BY <1>7, <1>8, <2>5
  <2>9. v[P + 1] = <<0, p[0]>>
    <3>1. PICK b \in 0 .. n - 1 : v[P + 1] = <<b, p[b]>>
      BY <1>3, <2>8
    <3>2. b = 0
      BY <2>7, <3>1
    <3> QED
      BY <3>1, <3>2
  <2>10. PICK x \in S : x = <<0, p[0]>>
    BY <1>3, <2>3
  <2>11. PICK T : T = {i \in DOMAIN v : v[i] = x}
    OBVIOUS
  <2>12. 1 \in T /\ P + 1 \in T
    BY <1>8, <2>4, <2>5, <2>9, <2>10, <2>11
  <2>13. IsFiniteSet(T)
    <3>1. IsFiniteSet(1 .. m)
      BY FS_Interval
    <3>2. T \in SUBSET (1 .. m)
      BY <1>8, <2>11
    <3> QED
      BY <3>1, <3>2, FS_Subset
  <2>14. Cardinality(T) = 1
    BY <1>7, <2>11
  <2>15. PICK y : T = {y}
    BY <2>13, <2>14, FS_Singleton
  <2>16. P + 1 = 1
    BY <2>12, <2>15
  <2> QED
    BY <1>4, <2>16
<1>12. m = n
  BY <1>10, <1>11
<1>13. ASSUME NEW a \in 0 .. n - 1 PROVE B[a] = p[a]
  <2>1. a \in 0 .. m - 1 /\ a < P
    BY <1>4, <1>12
  <2> QED
    BY <1>9, <2>1
<1> QED
  BY <1>12, <1>13

\* The states of the rows are then those of the program.
LEMMA StatesForced ==
  ASSUME NEW t, NEW height, NEW pv, Committed(t, height, pv), NEW p \in Programs, NEW n, n = Length(p),
         NEW W, ChunkRows(t, p, n, height, W)
  PROVE  t[0].state = TraceStates(p)[0]
<1>1. /\ height \in Nat \ {0}
      /\ \A r \in 0 .. height - 1 : StateAccepts(t[r]) /\ AbsorptionAccepts(t[r], t[(r + 1) % height])
      /\ \A r \in 0 .. height - 1 : t[r].flag = 1 => t[r].perm_out = Permute(t[r].perm_in)
  BY CommittedRows DEF Committed
<1>2. /\ n \in Nat /\ W = BytesPerRow /\ ~((height - 1) * W < n)
      /\ \A q \in 0 .. height - 1 : ChunkRow(t[q], p, n, q * W, W)
  BY DEF ChunkRows
<1>3. W \in Nat \ {0}
  BY <1>2, Constants
<1>4. PICK real \in Nat : real = NumRealRows(p) /\ \A r \in Nat : r < real <=> r * W < n
  <2>1. \A r \in Nat : NumRealRows(p) \in Nat /\ (r < NumRealRows(p) <=> r * W < n)
    BY <1>2, RealRows
  <2>2. 0 \in Nat
    OBVIOUS
  <2> QED
    BY <2>1, <2>2
<1>5. real \in 0 .. height - 1
  <2>1. height - 1 \in Nat
    BY <1>1
  <2>2. ~(height - 1 < real)
    BY <1>2, <1>4, <2>1
  <2> QED
    BY <2>1, <2>2
<1>6. PICK s : s = TraceStates(p)
  OBVIOUS
<1>7. /\ s[real] = Zero
      /\ \A r \in 0 .. real - 1 : s[r] = Permute(Absorb(p, r, s[r + 1]))
  <2>1. s = [row \in 0 .. real |-> IF row = real THEN Zero ELSE Permute(Absorb(p, row, s[row + 1]))]
    BY <1>4, <1>6, TraceStatesStep DEF TraceStatesOf
  <2>2. real \in 0 .. real /\ \A r \in 0 .. real - 1 : r \in 0 .. real /\ r # real
    OBVIOUS
  <2> QED
    BY <2>1, <2>2
<1>8. \A r \in 0 .. height - 1 : t[r].flag = IF r < real THEN 1 ELSE 0
  <2> SUFFICES ASSUME NEW r \in 0 .. height - 1
               PROVE  t[r].flag = IF r < real THEN 1 ELSE 0
    OBVIOUS
  <2>1. r < real <=> r * W < n
    BY <1>1, <1>4
  <2>2. ChunkRow(t[r], p, n, r * W, W)
    BY <1>2
  <2> QED
    BY <2>1, <2>2 DEF ChunkRow
<1> DEFINE S == {r \in 0 .. real : t[r].state = s[r]}
<1>9. real \in S
  <2>1. t[real].flag = 0 /\ StateAccepts(t[real])
    BY <1>1, <1>5, <1>8
  <2>2. t[real].state = Zero
    BY <2>1 DEF StateAccepts
  <2> QED
    BY <1>7, <2>2
<1>10. ASSUME NEW r \in 0 .. real - 1, r + 1 \in S
       PROVE  r \in S
  <2>1. r \in 0 .. height - 1 /\ r + 1 \in 0 .. height - 1 /\ r < real
    BY <1>1, <1>5
  <2>2. (r + 1) % height = r + 1
    <3>1. height \in Nat \ {0}
      BY <1>1
    <3> QED
      BY ONLY <2>1, <3>1
  <2>3. t[r].flag = 1
    BY <1>8, <2>1
  <2>4. t[r].state = t[r].perm_out /\ t[r].perm_out = Permute(t[r].perm_in)
    <3>1. StateAccepts(t[r])
      BY <1>1, <2>1
    <3> QED
      BY <1>1, <2>1, <2>3, <3>1 DEF StateAccepts
  <2>5. t[r].perm_in = [g \in Lane |-> IF g \in Rate THEN (s[r + 1][g] + Packed(t[r], g)) % P
                                       ELSE s[r + 1][g]]
    <3>1. AbsorptionAccepts(t[r], t[r + 1])
      BY <1>1, <2>1, <2>2
    <3>2. t[r + 1].state = s[r + 1]
      BY <1>10
    <3> QED
      BY <2>3, <3>1, <3>2 DEF AbsorptionAccepts
  <2>6. PICK x \in Nat : x = r * W
    BY <1>3
  <2>7. \A g \in Rate : Packed(t[r], g) = pack_lane(p, x + g * BytesPerRateElem)
    <3>1. PICK c : c = t[r]
      OBVIOUS
    <3>2. ChunkRow(c, p, n, x, BytesPerRow)
      BY <1>2, <2>1, <2>6, <3>1
    <3>3. \A g \in Rate : Packed(c, g) = pack_lane(p, x + g * BytesPerRateElem)
      BY <1>2, <3>2, SpongePacked
    <3> QED
      BY <3>1, <3>3
  <2>8. Absorb(p, r, s[r + 1])
          = [g \in Lane |-> IF g \in Rate
                            THEN (s[r + 1][g] + pack_lane(p, x + g * BytesPerRateElem)) % P
                            ELSE s[r + 1][g]]
    BY <1>2, <2>6, Zenon DEF Absorb
  <2>9. t[r].perm_in = Absorb(p, r, s[r + 1])
    BY ONLY <2>5, <2>7, <2>8
  <2>10. t[r].state = s[r]
    BY <1>7, <2>4, <2>9
  <2>11. r \in 0 .. real
    OBVIOUS
  <2> QED
    BY <2>10, <2>11
<1>11. \A r \in 0 .. real : r \in S
  <2> HIDE DEF S
  <2> QED
    BY <1>9, <1>10, InductionDown
<1>12. 0 \in 0 .. real
  OBVIOUS
<1> QED
  BY <1>6, <1>11, <1>12

\* And so is the number of bytes.
LEMMA LengthForced ==
  ASSUME NEW t, NEW height, NEW pv, Committed(t, height, pv), NEW p, NEW n,
         NEW W, ChunkRows(t, p, n, height, W)
  PROVE  t[height - 1].cum_active = n % P
<1>1. PICK h \in Nat : height = h + 1 /\ h = height - 1
  <2>1. height \in Nat \ {0}
    BY CommittedRows
  <2>2. height - 1 \in Nat /\ height = (height - 1) + 1
    BY <2>1
  <2> QED
    BY <2>2
<1>2. /\ n \in Nat /\ W = BytesPerRow /\ ~(h * W < n)
      /\ \A q \in 0 .. h : ChunkRow(t[q], p, n, q * W, W)
  <2>1. /\ n \in Nat /\ W = BytesPerRow /\ ~((height - 1) * W < n)
        /\ \A q \in 0 .. height - 1 : ChunkRow(t[q], p, n, q * W, W)
    BY DEF ChunkRows
  <2> QED
    BY ONLY <1>1, <2>1
<1>3. W \in Nat \ {0} /\ P \in Nat \ {0} /\ W < P
  BY <1>2, Constants
<1>4. /\ t[0].cum_active = SumActive(t[0])
      /\ \A r \in 0 .. h - 1 : ChunksAccept(t[r], t[r + 1])
  <2>1. /\ t[0].cum_active = SumActive(t[0])
        /\ \A r \in 0 .. height - 1 : r # height - 1 => ChunksAccept(t[r], t[r + 1])
    BY CommittedRows
  <2> QED
    BY ONLY <1>1, <2>1
<1>5. ASSUME NEW r \in 0 .. h, NEW x \in Nat, x = r * W
      PROVE  SumActive(t[r]) = RowBytes(n, x, W)
  <2>1. PICK c : c = t[r]
    OBVIOUS
  <2>2. ChunkRow(c, p, n, x, W)
    BY <1>2, <1>5, <2>1
  <2>3. SumActive(c) = IF n <= x THEN 0 ELSE IF n <= x + W THEN n - x ELSE W
    BY <1>2, <2>2, SpongeActive
  <2> QED
    BY <2>1, <2>3 DEF RowBytes
<1> DEFINE S == {r \in 0 .. h : t[r].cum_active = InBlocks(n, r + 1, W) % P}
<1>6. 0 \in S
  <2>1. 0 \in 0 .. h /\ 0 \in Nat /\ 0 = 0 * W
    BY <1>3
  <2>2. SumActive(t[0]) = RowBytes(n, 0, W)
    BY <1>5, <2>1
  <2>3. PICK a \in 0 .. P - 1 : a = RowBytes(n, 0, W) /\ a = InBlocks(n, 0 + 1, W)
    <3>1. RowBytes(n, 0, W) = IF n <= 0 THEN 0 ELSE IF n <= 0 + W THEN n - 0 ELSE W
      BY DEF RowBytes
    <3>2. (0 + 1) * W = W
      BY <1>3
    <3>3. InBlocks(n, 0 + 1, W) = IF n <= W THEN n ELSE W
      BY <3>2 DEF InBlocks
    <3> QED
      BY <1>2, <1>3, <3>1, <3>3
  <2>4. a % P = a
    BY ModSmall
  <2> QED
    BY <1>4, <2>1, <2>2, <2>3, <2>4
<1>7. ASSUME NEW r \in 0 .. h - 1, r \in S
      PROVE  r + 1 \in S
  <2>1. PICK x \in Nat : x = r * W /\ (r + 1) * W = x + W /\ (r + 1 + 1) * W = x + W + W
    <3>1. r * W \in Nat /\ (r + 1) * W = r * W + W /\ (r + 1 + 1) * W = r * W + W + W
      BY <1>3
    <3> QED
      BY <3>1
  <2>2. PICK a \in Nat, b \in Nat : /\ a = InBlocks(n, r + 1, W) /\ b = RowBytes(n, x + W, W)
                                    /\ a + b = InBlocks(n, r + 1 + 1, W)
    <3>1. InBlocks(n, r + 1, W) = IF n <= x + W THEN n ELSE x + W
      BY <2>1 DEF InBlocks
    <3>2. InBlocks(n, r + 1 + 1, W) = IF n <= x + W + W THEN n ELSE x + W + W
      BY <2>1 DEF InBlocks
    <3>3. RowBytes(n, x + W, W) = IF n <= x + W THEN 0 ELSE IF n <= (x + W) + W THEN n - (x + W) ELSE W
      BY DEF RowBytes
    <3> QED
      BY <1>2, <1>3, <3>1, <3>2, <3>3
  <2>3. t[r + 1].cum_active = (t[r].cum_active + SumActive(t[r + 1])) % P
    <3>1. ChunksAccept(t[r], t[r + 1])
      BY <1>4
    <3> QED
      BY <3>1 DEF ChunksAccept
  <2>4. SumActive(t[r + 1]) = b
    <3>1. r + 1 \in 0 .. h /\ x + W \in Nat /\ x + W = (r + 1) * W
      BY <1>3, <2>1
    <3> QED
      BY <1>5, <2>2, <3>1
  <2>5. t[r].cum_active = a % P
    BY <1>7, <2>2
  <2>6. ((a % P) + b) % P = (a + b) % P
    <3>1. a \in Int /\ b \in Int
      OBVIOUS
    <3> QED
      BY ONLY <3>1, ModAdd
  <2>7. t[r + 1].cum_active = InBlocks(n, r + 1 + 1, W) % P
    BY <2>2, <2>3, <2>4, <2>5, <2>6
  <2>8. r + 1 \in 0 .. h
    OBVIOUS
  <2> QED
    BY <2>7, <2>8
<1>8. h \in S
  <2> HIDE DEF S
  <2>1. 0 .. h \subseteq S
    BY <1>6, <1>7, InductionTo
  <2> QED
    BY <2>1
<1>9. InBlocks(n, h + 1, W) = n
  <2>1. PICK y \in Nat : y = h * W /\ (h + 1) * W = y + W
    <3>1. h * W \in Nat /\ (h + 1) * W = h * W + W
      BY <1>3
    <3> QED
      BY <3>1
  <2> QED
    BY <1>2, <1>3, <2>1 DEF InBlocks
<1> QED
  BY <1>1, <1>8, <1>9

\* The commitment is forced for any rows, of any number.
LEMMA PublicValuesForced ==
  ASSUME NEW t, NEW height, NEW pv, Committed(t, height, pv), NEW p \in Programs, Length(p) <= P,
         ToBag(ImageSends(t)) = SetToBag({<<a, p[a]>> : a \in 0 .. Length(p) - 1})
  PROVE  /\ Digest(t[0].state) = compute_program_digest(p).digest
         /\ t[height - 1].cum_active = compute_program_digest(p).length
<1>1. PICK W : W = BytesPerRow
  OBVIOUS
<1>2. PICK n \in Nat : n = Length(p)
  BY ProgramBytes
<1>11. PICK m \in Nat : \E B : ChunkRows(t, B, m, height, W)
  BY <1>1, ChunksForced
<1>3. PICK B : ChunkRows(t, B, m, height, W)
  BY <1>11
<1>4. ImageSends(t) = Image(B, m)
  BY <1>3, ChunksSend
<1>5. m = n /\ \A a \in 0 .. n - 1 : B[a] = p[a]
  <2>1. SameImage(B, m, p, n)
    BY <1>2, <1>4 DEF SameImage
  <2>2. n <= P
    BY <1>2
  <2> QED
    BY <1>2, <2>1, <2>2, BytesForced
<1>6. ChunkRows(t, p, n, height, W)
  <2>1. /\ n \in Nat /\ height \in Nat \ {0} /\ W = BytesPerRow /\ ~((height - 1) * W < n)
        /\ DOMAIN t = 0 .. height - 1
        /\ \A q \in 0 .. height - 1 : ChunkRow(t[q], B, n, q * W, W)
    BY <1>3, <1>5 DEF ChunkRows
  <2>2. W \in Nat
    BY <1>1, Constants
  <2>3. ASSUME NEW q \in 0 .. height - 1 PROVE ChunkRow(t[q], p, n, q * W, W)
    <3>1. PICK x \in Nat : x = q * W
      BY <2>1, <2>2
    <3>2. ChunkRow(t[q], B, n, x, W)
      BY <2>1, <3>1
    <3>3. \A i \in 0 .. W - 1 : x + i < n => B[x + i] = p[x + i]
      <4> SUFFICES ASSUME NEW i \in 0 .. W - 1, x + i < n PROVE B[x + i] = p[x + i]
        OBVIOUS
      <4>1. x + i \in 0 .. n - 1
        OBVIOUS
      <4> QED
        BY <1>5, <4>1
    <3>4. ChunkRow(t[q], p, n, x, W)
      BY <3>2, <3>3 DEF ChunkRow
    <3> QED
      BY <3>1, <3>4
  <2> QED
    BY <2>1, <2>3 DEF ChunkRows
<1>7. t[0].state = TraceStates(p)[0]
  BY <1>2, <1>6, StatesForced
<1>8. t[height - 1].cum_active = n % P
  BY <1>6, LengthForced
<1>9. Digest(HostStates(p)[NumRealRows(p)]) = Digest(TraceStates(p)[0])
  BY SameDigest
<1>10. /\ compute_program_digest(p).digest = Digest(HostStates(p)[NumRealRows(p)])
       /\ compute_program_digest(p).length = n % P
  BY <1>2, Zenon DEF compute_program_digest
<1> QED
  BY <1>7, <1>8, <1>9, <1>10, Zenon

\* The state of row i of ch above the one below, and s follows the recursion
\* of FilledStates.
Fill(ch, i, below) == IF ch[i].flag = 0 THEN Zero ELSE Permute(PermIn(ch[i], below))
FilledStatesOf(s, ch) ==
  s = [row \in 0 .. Cardinality(DOMAIN ch) |->
         IF row = Cardinality(DOMAIN ch) \/ ch[row].flag = 0 THEN Zero
         ELSE Permute(PermIn(ch[row], s[row + 1]))]

\* What FilledStates computes.
LEMMA FilledStatesStep ==
  ASSUME NEW ch, Cardinality(DOMAIN ch) \in Nat
  PROVE  FilledStatesOf(FilledStates(ch), ch)
<1>1. PICK n \in Nat : n = Cardinality(DOMAIN ch)
  OBVIOUS
<1> DEFINE From(k, f) == /\ f = [i \in n - k .. n |-> f[i]] /\ f[n] = Zero
                         /\ \A i \in n - k .. n - 1 : f[i] = Fill(ch, i, f[i + 1])
           K == {k \in 0 .. n : \E f : From(k, f)}
<1>2. 0 \in K
  <2> DEFINE f == [i \in n .. n |-> Zero]
  <2>1. From(0, f)
    OBVIOUS
  <2> HIDE DEF From
  <2> QED
    BY <2>1
<1>3. ASSUME NEW k \in 0 .. n - 1, k \in K
      PROVE  k + 1 \in K
  <2>1. PICK f : From(k, f)
    BY <1>3
  <2>2. PICK m \in 0 .. n - 1 : m = n - (k + 1)
    OBVIOUS
  <2>3. n - k = m + 1
    BY <2>2
  <2> DEFINE g == [i \in m .. n |-> IF i = m THEN Fill(ch, m, f[m + 1]) ELSE f[i]]
  <2>4. \A i \in m .. n : i # m => i \in m + 1 .. n
    BY <2>2
  <2>5. /\ g = [i \in m .. n |-> g[i]] /\ g[n] = Zero
        /\ \A i \in m .. n - 1 : g[i] = Fill(ch, i, g[i + 1])
    <3>1. /\ f[n] = Zero
          /\ \A i \in m + 1 .. n - 1 : f[i] = Fill(ch, i, f[i + 1])
      BY <2>1, <2>3
    <3>2. g = [i \in m .. n |-> g[i]] /\ g[n] = Zero
      BY <2>2, <3>1
    <3>3. ASSUME NEW i \in m .. n - 1
          PROVE  g[i] = Fill(ch, i, g[i + 1])
      <4>1. i + 1 \in m .. n /\ i + 1 # m /\ i \in m .. n
        BY <2>2
      <4>2. g[i + 1] = f[i + 1]
        BY <4>1
      <4>3. CASE i = m
        BY <4>1, <4>2, <4>3
      <4>4. CASE i # m
        <5>1. i \in m + 1 .. n - 1
          BY <2>2, <4>4
        <5>2. g[i] = f[i]
          BY <4>1, <4>4
        <5> QED
          BY <3>1, <4>2, <5>1, <5>2
      <4> QED
        BY <4>3, <4>4
    <3> QED
      BY <3>2, <3>3
  <2>6. From(k + 1, g)
    <3> HIDE DEF g
    <3> QED
      BY <2>2, <2>5
  <2>7. \E h : From(k + 1, h)
    <3> HIDE DEF g, From
    <3> QED
      BY <2>6
  <2>8. k + 1 \in 0 .. n
    OBVIOUS
  <2> HIDE DEF From
  <2> QED
    BY <2>7, <2>8
<1>4. n \in K
  <2> HIDE DEF K
  <2>1. 0 .. n \subseteq K
    BY <1>2, <1>3, InductionTo
  <2> QED
    BY <2>1
<1>5. PICK f : From(n, f)
  BY <1>4
<1>6. f = [i \in 0 .. n |-> IF i = n \/ ch[i].flag = 0 THEN Zero ELSE Permute(PermIn(ch[i], f[i + 1]))]
  <2>1. n - n = 0
    OBVIOUS
  <2>2. f = [i \in 0 .. n |-> f[i]]
    BY <1>5, <2>1
  <2>3. f[n] = Zero /\ \A i \in 0 .. n - 1 : f[i] = Fill(ch, i, f[i + 1])
    BY <1>5, <2>1
  <2>4. \A i \in 0 .. n : i # n => i \in 0 .. n - 1
    OBVIOUS
  <2>5. \A i \in 0 .. n : f[i] = IF i = n \/ ch[i].flag = 0 THEN Zero ELSE Permute(PermIn(ch[i], f[i + 1]))
    BY ONLY <2>3, <2>4 DEF Fill
  <2> QED
    BY ONLY <2>2, <2>5
<1>7. FilledStatesOf(f, ch)
  BY <1>1, <1>6 DEF FilledStatesOf
<1>8. FilledStates(ch) = CHOOSE s : FilledStatesOf(s, ch)
  BY Zenon DEF FilledStates, FilledStatesOf
<1> QED
  BY <1>7, <1>8

\* The permutations of the rows that are filled in are done.
LEMMA FilledPermutes ==
  ASSUME NEW ch, NEW height \in Nat \ {0}, DOMAIN ch = 0 .. height - 1, NEW pv,
         HashAccepts(Filled(ch), pv)
  PROVE  Committed(Filled(ch), height, pv)
<1>1. Cardinality(DOMAIN ch) = height
  <2>1. 0 \in Int /\ height - 1 \in Int
    OBVIOUS
  <2>2. Cardinality(0 .. height - 1) = IF 0 > height - 1 THEN 0 ELSE (height - 1) - 0 + 1
    BY <2>1, FS_Interval
  <2> QED
    BY <2>2
<1>2. PICK s : s = FilledStates(ch)
  OBVIOUS
<1>3. s = [row \in 0 .. height |->
             IF row = height \/ ch[row].flag = 0 THEN Zero ELSE Permute(PermIn(ch[row], s[row + 1]))]
  <2>1. FilledStatesOf(s, ch)
    BY <1>1, <1>2, FilledStatesStep
  <2> QED
    BY <1>1, <2>1 DEF FilledStatesOf
<1>4. PICK t : t = Filled(ch)
  OBVIOUS
<1>5. /\ DOMAIN t = 0 .. height - 1
      /\ \A r \in 0 .. height - 1 :
           /\ t[r].flag = ch[r].flag /\ t[r].perm_out = s[r]
           /\ t[r].perm_in = IF ch[r].flag = 0 THEN Zero ELSE PermIn(ch[r], s[r + 1])
  BY <1>2, <1>4 DEF Filled
<1>6. ASSUME NEW r \in 0 .. height - 1, t[r].flag = 1
      PROVE  t[r].perm_out = Permute(t[r].perm_in)
  <2>1. ch[r].flag # 0 /\ r # height /\ r \in 0 .. height
    BY <1>5, <1>6
  <2>2. t[r].perm_in = PermIn(ch[r], s[r + 1])
    BY <1>5, <2>1
  <2>3. s[r] = Permute(PermIn(ch[r], s[r + 1]))
    BY <1>3, <2>1
  <2> QED
    BY <1>5, <2>2, <2>3
<1>7. Committed(t, height, pv)
  BY <1>4, <1>5, <1>6 DEF Committed
<1> QED
  BY <1>4, <1>7

\* The commitment is forced: any rows that satisfy the AIR and absorb the
\* bytes of the ROM, however these are spread over the rows, have the digest
\* and the length that are computed for the program: whenever the ROM itself is
\* accepted, that is, as long as addresses do not wrap.
THEOREM CommitmentIsForced == HashSpec => [](Built /\ RomAccepts(tables.rom) => CommitmentForced)
<1>1. HashInv /\ RomAccepted => (Built /\ RomAccepts(tables.rom) => CommitmentForced)
  <2> SUFFICES ASSUME HashInv, RomAccepted, Built, RomAccepts(tables.rom)
               PROVE  CommitmentForced
    OBVIOUS
  <2>1. PICK p \in Programs : p = program
    BY DEF HashInv
  <2>2. /\ Length(p) <= P
        /\ RomImage(tables.rom) = {<<a, p[a]>> : a \in 0 .. Length(p) - 1}
    BY <2>1, RomFits, RomImageIs
  <2>3. tables.hash = HashTable(p) /\ tables.public_values = compute_program_digest(p)
    BY <2>1 DEF HashInv, Built, TablesOfRun
  <2>4. PICK height \in Nat \ {0} : DOMAIN tables.hash = 0 .. height - 1
    BY <2>3, SpongeChunks DEF ChunkRows
  <2>5. ASSUME NEW t, NEW pv,
               pv = [digest |-> Digest(t[0].state), length |-> t[LastRow(t)].cum_active],
               Committed(t, height, pv),
               ToBag(ImageSends(t)) = SetToBag(RomImage(tables.rom))
        PROVE  pv = tables.public_values
    <3>1. /\ Digest(t[0].state) = compute_program_digest(p).digest
          /\ t[height - 1].cum_active = compute_program_digest(p).length
      BY <2>2, <2>5, PublicValuesForced
    <3>2. LastRow(t) = height - 1
      BY <2>5, CommittedRows
    <3>3. pv = [digest |-> compute_program_digest(p).digest, length |-> compute_program_digest(p).length]
      BY <2>5, <3>1, <3>2
    <3>4. compute_program_digest(p)
            = [digest |-> compute_program_digest(p).digest, length |-> compute_program_digest(p).length]
      BY DEF compute_program_digest
    <3> QED
      BY <2>3, <3>3, <3>4
  <2>6. ASSUME NEW chunks, NEW ch, ch = [row \in DOMAIN tables.hash |-> chunks[row + 1]],
               NEW t, t = Filled(ch), NEW pv,
               pv = [digest |-> Digest(t[0].state), length |-> t[LastRow(t)].cum_active],
               HashAccepts(t, pv), ToBag(ImageSends(t)) = SetToBag(RomImage(tables.rom))
        PROVE  pv = tables.public_values
    <3>1. DOMAIN ch = 0 .. height - 1
      BY <2>4, <2>6
    <3>2. Committed(t, height, pv)
      BY <2>6, <3>1, FilledPermutes
    <3> QED
      BY <2>5, <2>6, <3>2
  <2> QED
    BY <2>6, Zenon DEF CommitmentForced
<1> QED
  BY <1>1, HashSound, RomTableAccepted, PTL

=============================================================================
