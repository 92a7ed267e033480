----------------------------- MODULE DataLemmas -----------------------------
(***************************************************************************)
(* Facts about the data the tables are built from, which the proofs about  *)
(* the components share: concatenation of a sequence of sequences          *)
(* (get_memory_ops, the bus tuples of all rows), filtering, powers of two, *)
(* numbers by their digits, ranks in an order (sorting), bags (balanced    *)
(* buses), the prime field of the columns, and rearranged sequences.       *)
(* Induction over a bound is LeastNatural, the least member of a set of    *)
(* numbers, which the well-foundedness of strict inclusion of finite sets  *)
(* gives.                                                                  *)
(***************************************************************************)
EXTENDS Numbers, Sequences, SequencesExt, FiniteSets, FiniteSetTheorems,
        SequenceTheorems, TLAPS

\* The parts of a pair.
LEMMA PairIs ==
  ASSUME NEW A, NEW B, NEW e \in A \X B
  PROVE  \E x \in A, y \in B : e = <<x, y>>
  OBVIOUS

\* A nonempty set of numbers has a least one.
LEMMA LeastNatural ==
  ASSUME NEW T \in SUBSET Nat, T # {}
  PROVE  \E m \in T : \A k \in T : m <= k
<1> DEFINE Down == {0 .. n : n \in T}
<1>1. Down \subseteq FiniteSubsetsOf(Nat)
  <2> SUFFICES ASSUME NEW n \in T PROVE 0 .. n \in FiniteSubsetsOf(Nat)
    OBVIOUS
  <2>1. IsFiniteSet(0 .. n)
    BY FS_Interval
  <2> QED
    BY <2>1 DEF FiniteSubsetsOf
<1>2. Down # {}
  OBVIOUS
<1>3. IsWellFoundedOn(StrictSubsetOrdering(Nat), FiniteSubsetsOf(Nat))
  BY FS_StrictSubsetOrderingWellFounded
<1> HIDE DEF Down
<1>4. PICK D \in Down : \A E \in Down : <<E, D>> \notin StrictSubsetOrdering(Nat)
  BY <1>1, <1>2, <1>3, WFMin
<1>5. PICK m \in T : D = 0 .. m
  BY DEF Down
<1>6. ASSUME NEW k \in T, k < m
      PROVE  FALSE
  <2>1. 0 .. k \in Down
    BY DEF Down
  <2>2. 0 .. k \subseteq 0 .. m /\ 0 .. k # 0 .. m
    BY <1>6
  <2>3. <<0 .. k, 0 .. m>> \in StrictSubsetOrdering(Nat)
    BY <2>2 DEF StrictSubsetOrdering
  <2> QED
    BY <1>4, <1>5, <2>1, <2>3
<1> QED
  BY <1>5, <1>6

\* Induction: a set that has 0 and the successor of each of its members up to
\* n has all numbers up to n.
LEMMA InductionTo ==
  ASSUME NEW n \in Nat, NEW S, 0 \in S, \A k \in 0 .. n - 1 : k \in S => k + 1 \in S
  PROVE  0 .. n \subseteq S
<1> DEFINE T == {k \in 0 .. n : k \notin S}
<1>1. SUFFICES ASSUME T # {} PROVE FALSE
  OBVIOUS
<1>2. PICK m \in T : \A k \in T : m <= k
  <2>1. T \in SUBSET Nat
    OBVIOUS
  <2> HIDE DEF T
  <2> QED
    BY <1>1, <2>1, LeastNatural
<1>3. m - 1 \in 0 .. n - 1 /\ m - 1 \in S
  BY <1>2
<1> QED
  BY <1>3

\* The ones among the n places of f come first.
OnesLead(f, n) ==
  /\ n \in Nat /\ \A i \in 0 .. n - 1 : f[i] \in {0, 1}
  /\ \A i \in 0 .. n - 1 : i # 0 /\ f[i] = 1 => f[i - 1] = 1

\* They are the places below some number.
LEMMA OnesFirst ==
  ASSUME NEW f, NEW n, OnesLead(f, n)
  PROVE  \E k \in 0 .. n : \A i \in 0 .. n - 1 : f[i] = IF i < k THEN 1 ELSE 0
<1>0. /\ n \in Nat /\ \A i \in 0 .. n - 1 : f[i] \in {0, 1}
      /\ \A i \in 0 .. n - 1 : i # 0 /\ f[i] = 1 => f[i - 1] = 1
  BY DEF OnesLead
<1> DEFINE T == {k \in 0 .. n : k = n \/ f[k] = 0}
<1>1. n \in T /\ T \in SUBSET Nat /\ T # {}
  BY <1>0
<1>2. PICK k \in T : \A j \in T : k <= j
  <2> HIDE DEF T
  <2> QED
    BY <1>1, LeastNatural
<1>3. ASSUME NEW i \in 0 .. n - 1, i < k PROVE f[i] = 1
  <2>1. i \notin T
    BY <1>2, <1>3
  <2> QED
    BY <1>0, <2>1
<1>4. ASSUME NEW i \in 0 .. n - 1, ~(i < k) PROVE f[i] = 0
  <2> DEFINE U == {j \in k .. n - 1 : f[j] = 1}
  <2> SUFFICES ASSUME f[i] = 1 PROVE FALSE
    BY <1>0
  <2>1. U \in SUBSET Nat /\ U # {}
    BY <1>4
  <2>2. PICK u \in U : \A j \in U : u <= j
    <3> HIDE DEF U
    <3> QED
      BY <2>1, LeastNatural
  <2>3. f[k] = 0 /\ k \in Nat
    BY <1>0, <1>2, <1>4
  <2>4. u # k /\ u \in 0 .. n - 1 /\ u # 0 /\ f[u] = 1
    BY <2>2, <2>3
  <2>5. f[u - 1] = 1
    BY <1>0, <2>4
  <2>6. u - 1 \in U
    <3>1. u \in k .. n - 1
      BY <2>2
    <3>2. u - 1 \in k .. n - 1
      BY ONLY <1>0, <2>3, <2>4, <3>1
    <3> QED
      BY <2>5, <3>2
  <2> QED
    BY <2>2, <2>4, <2>6
<1> QED
  BY <1>2, <1>3, <1>4

(***************************************************************************)
(* FlattenSeq, a recursive function over the positions of a sequence of    *)
(* sequences: that the function exists, and that two of them agree as far  *)
(* as the sequences do, are inductions over those positions.               *)
(***************************************************************************)
Flattens(f, ss) ==
  f = [i \in 1 .. Len(ss) |-> IF i = 1 THEN ss[i] ELSE f[i - 1] \o ss[i]]

\* FlattenSeq is the last value of a function over the positions.
LEMMA FlattenSeqDef ==
  ASSUME NEW ss, Len(ss) # 0
  PROVE  FlattenSeq(ss) = (CHOOSE f : Flattens(f, ss))[Len(ss)]
  BY Zenon DEF FlattenSeq, Flattens

\* There is such a function.
LEMMA FlattensExists ==
  ASSUME NEW S, NEW ss \in Seq(S)
  PROVE  \E f : Flattens(f, ss)
<1> DEFINE n == Len(ss)
           Upto(k, f) == f = [i \in 1 .. k |-> IF i = 1 THEN ss[i] ELSE f[i - 1] \o ss[i]]
           K == {k \in 0 .. n : \E f : Upto(k, f)}
<1>0. n \in Nat
  OBVIOUS
<1>1. 0 \in K
  <2>1. Upto(0, [i \in 1 .. 0 |-> 0])
    OBVIOUS
  <2>2. \E f : Upto(0, f)
    <3> HIDE DEF Upto
    <3> QED
      BY <2>1
  <2>3. 0 \in 0 .. n
    BY <1>0
  <2> HIDE DEF Upto
  <2> QED
    BY <2>2, <2>3
<1>2. ASSUME NEW k \in 0 .. n - 1, k \in K
      PROVE  k + 1 \in K
  <2>1. PICK f : Upto(k, f)
    BY <1>2
  <2> DEFINE g == [i \in 1 .. k + 1 |-> IF i = 1 THEN ss[i] ELSE f[i - 1] \o ss[i]]
  <2>2. ASSUME NEW i \in 1 .. k + 1
        PROVE  g[i] = IF i = 1 THEN ss[i] ELSE g[i - 1] \o ss[i]
    <3>1. CASE i = 1
      BY <3>1
    <3>2. CASE i # 1
      <4>1. i - 1 \in 1 .. k /\ i - 1 \in 1 .. k + 1
        BY <3>2
      <4>2. \A j \in 1 .. k : f[j] = IF j = 1 THEN ss[j] ELSE f[j - 1] \o ss[j]
        BY <2>1
      <4>3. f[i - 1] = IF i - 1 = 1 THEN ss[i - 1] ELSE f[(i - 1) - 1] \o ss[i - 1]
        BY <4>1, <4>2
      <4>4. g[i - 1] = IF i - 1 = 1 THEN ss[i - 1] ELSE f[(i - 1) - 1] \o ss[i - 1]
        BY <4>1
      <4>5. g[i] = f[i - 1] \o ss[i]
        BY <3>2
      <4> QED
        BY <3>2, <4>3, <4>4, <4>5
    <3> QED
      BY <3>1, <3>2
  <2>3. Upto(k + 1, g)
    <3>1. g = [i \in 1 .. k + 1 |-> g[i]]
      OBVIOUS
    <3> HIDE DEF g
    <3> QED
      BY <2>2, <3>1
  <2>4. k + 1 \in 0 .. n
    BY <1>0
  <2>5. \E h : Upto(k + 1, h)
    <3> HIDE DEF g, Upto
    <3> QED
      BY <2>3
  <2> QED
    BY <2>4, <2>5
<1>3. n \in K
  <2> HIDE DEF K
  <2>1. 0 .. n \subseteq K
    BY <1>0, <1>1, <1>2, InductionTo
  <2> QED
    BY <1>0, <2>1
<1> QED
  BY <1>3 DEF Flattens

\* The value of a flattening function at its positions, and its type.
LEMMA FlattensValue ==
  ASSUME NEW S, NEW ss \in Seq(Seq(S)), NEW f, Flattens(f, ss)
  PROVE  /\ \A i \in 1 .. Len(ss) :
              f[i] = IF i = 1 THEN ss[i] ELSE f[i - 1] \o ss[i]
         /\ \A i \in 1 .. Len(ss) : f[i] \in Seq(S)
<1> DEFINE n == Len(ss)
           K == {k \in 0 .. n : k = 0 \/ f[k] \in Seq(S)}
<1>0. n \in Nat /\ \A i \in 1 .. n : ss[i] \in Seq(S)
  OBVIOUS
<1>1. \A i \in 1 .. n : f[i] = IF i = 1 THEN ss[i] ELSE f[i - 1] \o ss[i]
  BY DEF Flattens
<1>2. 0 \in K
  BY <1>0
<1>3. ASSUME NEW k \in 0 .. n - 1, k \in K
      PROVE  k + 1 \in K
  <2>1. k + 1 \in 1 .. n /\ k + 1 \in 0 .. n
    BY <1>0
  <2>2. CASE k = 0
    <3>1. f[1] = ss[1]
      BY <1>1, <2>1, <2>2
    <3> QED
      BY <1>0, <2>1, <2>2, <3>1
  <2>3. CASE k # 0
    <3>1. k + 1 # 1 /\ (k + 1) - 1 = k
      BY <2>3
    <3>2. f[k + 1] = f[k] \o ss[k + 1]
      BY <1>1, <2>1, <3>1
    <3>3. f[k] \in Seq(S) /\ ss[k + 1] \in Seq(S)
      BY <1>0, <1>3, <2>1, <2>3
    <3>4. f[k] \o ss[k + 1] \in Seq(S)
      BY <3>3
    <3> QED
      BY <2>1, <3>2, <3>4
  <2> QED
    BY <2>2, <2>3
<1>4. 0 .. n \subseteq K
  <2> HIDE DEF K
  <2> QED
    BY <1>0, <1>2, <1>3, InductionTo
<1>5. \A i \in 1 .. n : f[i] \in Seq(S)
  <2>1. \A i \in 1 .. n : i \in 0 .. n /\ i # 0
    BY <1>0
  <2> QED
    BY <1>4, <2>1
<1> QED
  BY <1>1, <1>5

\* Flattening nothing.
LEMMA FlattenEmpty == FlattenSeq(<<>>) = <<>>
  BY DEF FlattenSeq

\* Flattening one sequence more.
LEMMA FlattenAppend ==
  ASSUME NEW S, NEW ss \in Seq(Seq(S)), NEW s \in Seq(S)
  PROVE  /\ FlattenSeq(ss) \in Seq(S)
         /\ FlattenSeq(Append(ss, s)) = FlattenSeq(ss) \o s
<1> DEFINE n  == Len(ss)
           tt == Append(ss, s)
<1>0. /\ n \in Nat /\ Len(tt) = n + 1 /\ tt \in Seq(Seq(S))
      /\ \A i \in 1 .. n : tt[i] = ss[i] /\ ss[i] \in Seq(S)
      /\ tt[n + 1] = s
  OBVIOUS
<1> HIDE DEF tt
<1>1. PICK f : Flattens(f, ss) /\ (n # 0 => FlattenSeq(ss) = f[n])
  <2>1. Flattens(CHOOSE f : Flattens(f, ss), ss)
    BY FlattensExists
  <2> QED
    BY <2>1, FlattenSeqDef
<1>2. PICK g : Flattens(g, tt) /\ FlattenSeq(tt) = g[n + 1]
  <2>1. Flattens(CHOOSE g : Flattens(g, tt), tt)
    BY <1>0, FlattensExists
  <2>2. FlattenSeq(tt) = (CHOOSE g : Flattens(g, tt))[n + 1]
    BY <1>0, FlattenSeqDef
  <2> QED
    BY <2>1, <2>2
<1>3. /\ \A i \in 1 .. n : f[i] = IF i = 1 THEN ss[i] ELSE f[i - 1] \o ss[i]
      /\ \A i \in 1 .. n : f[i] \in Seq(S)
  BY <1>1, FlattensValue
<1>4. \A i \in 1 .. n + 1 : g[i] = IF i = 1 THEN tt[i] ELSE g[i - 1] \o tt[i]
  <2>1. tt \in Seq(Seq(S)) /\ Flattens(g, tt)
    BY <1>0, <1>2
  <2>2. \A i \in 1 .. Len(tt) : g[i] = IF i = 1 THEN tt[i] ELSE g[i - 1] \o tt[i]
    BY ONLY <2>1, FlattensValue
  <2> QED
    BY <1>0, <2>2
<1>5. CASE n = 0
  <2>1. FlattenSeq(ss) = <<>>
    <3>1. ss = <<>>
      BY <1>5
    <3> QED
      BY <3>1, FlattenEmpty
  <2>2. g[n + 1] = s
    BY <1>0, <1>4, <1>5
  <2>3. FlattenSeq(Append(ss, s)) = s
    BY <1>2, <2>2 DEF tt
  <2>4. <<>> \in Seq(S) /\ <<>> \o s = s
    BY ConcatEmptySeq
  <2> QED
    BY <2>1, <2>3, <2>4
<1>6. CASE n # 0
  <2> DEFINE K == {k \in 0 .. n : k = 0 \/ g[k] = f[k]}
  <2>1. 0 \in K
    BY <1>0
  <2>2. ASSUME NEW k \in 0 .. n - 1, k \in K
        PROVE  k + 1 \in K
    <3>1. k + 1 \in 1 .. n /\ k + 1 \in 1 .. n + 1 /\ k + 1 \in 0 .. n /\ tt[k + 1] = ss[k + 1]
      BY <1>0
    <3>2. CASE k = 0
      <4>1. f[1] = ss[1] /\ g[1] = tt[1]
        BY <1>3, <1>4, <3>1, <3>2
      <4> QED
        BY <3>1, <3>2, <4>1
    <3>3. CASE k # 0
      <4>0. k + 1 # 1 /\ (k + 1) - 1 = k
        BY <3>3
      <4>1. f[k + 1] = f[k] \o ss[k + 1] /\ g[k + 1] = g[k] \o tt[k + 1]
        BY <1>3, <1>4, <3>1, <4>0
      <4> QED
        BY <2>2, <3>1, <3>3, <4>1
    <3> QED
      BY <3>2, <3>3
  <2>3. 0 .. n \subseteq K
    <3> HIDE DEF K
    <3> QED
      BY <1>0, <2>1, <2>2, InductionTo
  <2>4. g[n] = f[n] /\ n \in 1 .. n
    BY <1>0, <1>6, <2>3
  <2>5. n + 1 \in 1 .. n + 1 /\ n + 1 # 1 /\ (n + 1) - 1 = n
    BY <1>0, <1>6
  <2>6. g[n + 1] = g[n] \o tt[n + 1]
    BY <1>4, <2>5
  <2>7. FlattenSeq(ss) = f[n] /\ f[n] \in Seq(S)
    BY <1>1, <1>3, <1>6, <2>4
  <2> QED
    BY <1>0, <1>2, <2>4, <2>6, <2>7 DEF tt
<1> QED
  BY <1>5, <1>6

\* The first k elements of ss.
Prefix(ss, k) == [i \in 1 .. k |-> ss[i]]

\* Flattening is done one sequence at a time.
LEMMA FlattenPrefix ==
  ASSUME NEW S, NEW ss \in Seq(Seq(S))
  PROVE  /\ FlattenSeq(Prefix(ss, 0)) = <<>>
         /\ FlattenSeq(Prefix(ss, Len(ss))) = FlattenSeq(ss)
         /\ \A k \in 0 .. Len(ss) : FlattenSeq(Prefix(ss, k)) \in Seq(S)
         /\ \A k \in 0 .. Len(ss) - 1 :
              FlattenSeq(Prefix(ss, k + 1)) = FlattenSeq(Prefix(ss, k)) \o ss[k + 1]
<1>1. /\ Len(ss) \in Nat
      /\ \A i \in 1 .. Len(ss) : ss[i] \in Seq(S)
      /\ ss = [i \in 1 .. Len(ss) |-> ss[i]]
  OBVIOUS
<1>2. Prefix(ss, 0) = <<>> /\ Prefix(ss, Len(ss)) = ss
  BY <1>1 DEF Prefix
<1>3. ASSUME NEW k \in 0 .. Len(ss)
      PROVE  Prefix(ss, k) \in Seq(Seq(S)) /\ Len(Prefix(ss, k)) = k
  <2>1. k \in Nat /\ \A i \in 1 .. k : ss[i] \in Seq(S)
    BY <1>1
  <2>2. Prefix(ss, k) \in [1 .. k -> Seq(S)]
    BY <2>1 DEF Prefix
  <2> QED
    BY <2>1, <2>2
<1>4. ASSUME NEW k \in 0 .. Len(ss) - 1
      PROVE  Prefix(ss, k + 1) = Append(Prefix(ss, k), ss[k + 1])
  <2>1. Prefix(ss, k) \in Seq(Seq(S)) /\ Len(Prefix(ss, k)) = k
    BY <1>1, <1>3
  <2>2. \A i \in 1 .. k : Prefix(ss, k)[i] = ss[i]
    BY DEF Prefix
  <2>3. Prefix(ss, k + 1) = [i \in 1 .. k + 1 |-> ss[i]]
    BY DEF Prefix
  <2>4. ss[k + 1] \in Seq(S) /\ k \in Nat
    BY <1>1
  <2>5. /\ Append(Prefix(ss, k), ss[k + 1]) \in Seq(Seq(S))
        /\ Len(Append(Prefix(ss, k), ss[k + 1])) = k + 1
        /\ \A i \in 1 .. k + 1 : Append(Prefix(ss, k), ss[k + 1])[i] = ss[i]
    <3> DEFINE pre == Prefix(ss, k)
               e == ss[k + 1]
    <3>1. /\ Append(pre, e) \in Seq(Seq(S)) /\ Len(Append(pre, e)) = k + 1
          /\ \A i \in 1 .. k : Append(pre, e)[i] = pre[i]
          /\ Append(pre, e)[k + 1] = e
      <4> HIDE DEF pre, e
      <4> QED
        BY <2>1, <2>4, AppendProperties DEF pre, e
    <3> QED
      BY <2>2, <2>4, <3>1
  <2>6. k + 1 \in 0 .. Len(ss)
    BY <1>1
  <2>7. Prefix(ss, k + 1) \in Seq(Seq(S)) /\ Len(Prefix(ss, k + 1)) = k + 1
    BY <1>3, <2>6
  <2>8. \A i \in 1 .. k + 1 : Prefix(ss, k + 1)[i] = ss[i]
    BY DEF Prefix
  <2> QED
    BY <2>5, <2>7, <2>8, SeqEqual
<1>5. ASSUME NEW k \in 0 .. Len(ss) - 1
      PROVE  FlattenSeq(Prefix(ss, k + 1)) = FlattenSeq(Prefix(ss, k)) \o ss[k + 1]
  <2>1. Prefix(ss, k) \in Seq(Seq(S)) /\ ss[k + 1] \in Seq(S)
    BY <1>1, <1>3
  <2> QED
    BY <1>4, <2>1, FlattenAppend
<1>6. ASSUME NEW k \in 0 .. Len(ss)
      PROVE  FlattenSeq(Prefix(ss, k)) \in Seq(S)
  <2>1. Prefix(ss, k) \in Seq(Seq(S)) /\ <<>> \in Seq(S)
    BY <1>3
  <2> QED
    BY <2>1, FlattenAppend
<1> QED
  BY <1>2, <1>5, <1>6, FlattenEmpty

\* tt is ss with F applied to every element of every sequence.
Maps(S, T, ss, F, tt) ==
  /\ ss \in Seq(Seq(S)) /\ F \in [S -> T]
  /\ tt = [i \in 1 .. Len(ss) |-> [k \in 1 .. Len(ss[i]) |-> F[ss[i][k]]]]

\* Mapping the elements of the sequences is mapping those of the whole.
LEMMA FlattenMap ==
  ASSUME NEW S, NEW T, NEW ss, NEW F, NEW tt, Maps(S, T, ss, F, tt)
  PROVE  /\ FlattenSeq(tt) \in Seq(T)
         /\ Len(FlattenSeq(tt)) = Len(FlattenSeq(ss))
         /\ \A k \in 1 .. Len(FlattenSeq(ss)) : FlattenSeq(tt)[k] = F[FlattenSeq(ss)[k]]
<1> DEFINE n == Len(ss)
           s(k) == FlattenSeq(Prefix(ss, k))
           t(k) == FlattenSeq(Prefix(tt, k))
           K == {k \in 0 .. n : /\ t(k) \in Seq(T) /\ Len(t(k)) = Len(s(k))
                                /\ \A i \in 1 .. Len(s(k)) : t(k)[i] = F[s(k)[i]]}
<1>0. ss \in Seq(Seq(S)) /\ F \in [S -> T]
  BY DEF Maps
<1>1. /\ n \in Nat /\ \A i \in 1 .. n : ss[i] \in Seq(S) /\ Len(ss[i]) \in Nat
      /\ \A i \in 1 .. n : \A k \in 1 .. Len(ss[i]) : ss[i][k] \in S
  BY <1>0
<1>2. /\ tt \in Seq(Seq(T)) /\ Len(tt) = n
      /\ \A i \in 1 .. n : tt[i] = [k \in 1 .. Len(ss[i]) |-> F[ss[i][k]]]
  <2>0. tt = [i \in 1 .. n |-> [k \in 1 .. Len(ss[i]) |-> F[ss[i][k]]]]
    BY DEF Maps
  <2>1. \A i \in 1 .. n : [k \in 1 .. Len(ss[i]) |-> F[ss[i][k]]] \in Seq(T)
    BY <1>0, <1>1
  <2> QED
    BY <1>1, <2>0, <2>1
<1>3. /\ s(0) = <<>> /\ s(n) = FlattenSeq(ss)
      /\ \A k \in 0 .. n : s(k) \in Seq(S)
      /\ \A k \in 0 .. n - 1 : s(k + 1) = s(k) \o ss[k + 1]
  BY <1>0, FlattenPrefix
<1>4. /\ t(0) = <<>> /\ t(n) = FlattenSeq(tt)
      /\ \A k \in 0 .. n - 1 : t(k + 1) = t(k) \o tt[k + 1]
  <2> HIDE DEF n
  <2> QED
    BY <1>2, FlattenPrefix
<1> HIDE DEF s, t
<1>5. 0 \in K
  BY <1>1, <1>3, <1>4
<1>6. ASSUME NEW k \in 0 .. n - 1, k \in K
      PROVE  k + 1 \in K
  <2>1. /\ t(k) \in Seq(T) /\ Len(t(k)) = Len(s(k))
        /\ \A i \in 1 .. Len(s(k)) : t(k)[i] = F[s(k)[i]]
    BY <1>6
  <2>2. k + 1 \in 1 .. n /\ k + 1 \in 0 .. n /\ k \in 0 .. n
    BY <1>1
  <2> DEFINE a == ss[k + 1]
             b == tt[k + 1]
  <2>3. /\ s(k) \in Seq(S) /\ a \in Seq(S) /\ Len(a) \in Nat /\ b \in Seq(T)
        /\ Len(b) = Len(a) /\ \A i \in 1 .. Len(a) : b[i] = F[a[i]]
    <3>1. b = [i \in 1 .. Len(a) |-> F[a[i]]] /\ Len(a) \in Nat /\ a \in Seq(S)
      BY <1>1, <1>2, <2>2
    <3> HIDE DEF a, b
    <3>2. b \in Seq(T)
      BY <1>0, <3>1
    <3> QED
      BY <1>3, <2>2, <3>1, <3>2
  <2>4. s(k + 1) = s(k) \o a /\ t(k + 1) = t(k) \o b
    BY <1>3, <1>4
  <2> HIDE DEF a, b
  <2>5. /\ t(k) \o b \in Seq(T) /\ Len(t(k) \o b) = Len(s(k) \o a)
        /\ \A i \in 1 .. Len(s(k) \o a) : (t(k) \o b)[i] = F[(s(k) \o a)[i]]
    <3>0. Len(s(k)) \in Nat /\ Len(t(k)) \in Nat /\ Len(b) \in Nat
      BY <2>1, <2>3
    <3>1. /\ t(k) \o b \in Seq(T) /\ Len(t(k) \o b) = Len(t(k)) + Len(b)
          /\ \A i \in 1 .. Len(t(k)) + Len(b) :
               (t(k) \o b)[i] = IF i <= Len(t(k)) THEN t(k)[i] ELSE b[i - Len(t(k))]
      <4>1. t(k) \in Seq(T) /\ b \in Seq(T)
        BY <2>1, <2>3
      <4> QED
        BY ONLY <4>1, ConcatProperties
    <3>2. /\ Len(s(k) \o a) = Len(s(k)) + Len(a)
          /\ \A i \in 1 .. Len(s(k)) + Len(a) :
               (s(k) \o a)[i] = IF i <= Len(s(k)) THEN s(k)[i] ELSE a[i - Len(s(k))]
      BY <2>3, ConcatProperties
    <3>3. ASSUME NEW i \in 1 .. Len(s(k)) + Len(a)
          PROVE  (t(k) \o b)[i] = F[(s(k) \o a)[i]]
      <4>1. i \in 1 .. Len(t(k)) + Len(b)
        BY <2>1, <2>3
      <4>2. CASE i <= Len(s(k))
        <5>1. i \in 1 .. Len(s(k))
          BY <3>0, <4>2
        <5>2. (t(k) \o b)[i] = t(k)[i] /\ (s(k) \o a)[i] = s(k)[i]
          BY <2>1, <3>1, <3>2, <4>1, <4>2
        <5> QED
          BY <2>1, <5>1, <5>2
      <4>3. CASE ~(i <= Len(s(k)))
        <5>1. i - Len(s(k)) \in 1 .. Len(a)
          BY <2>3, <3>0, <4>3
        <5>2. (t(k) \o b)[i] = b[i - Len(s(k))] /\ (s(k) \o a)[i] = a[i - Len(s(k))]
          BY <2>1, <3>1, <3>2, <4>1, <4>3
        <5> QED
          BY <2>3, <5>1, <5>2
      <4> QED
        BY <4>2, <4>3
    <3> QED
      BY <2>1, <2>3, <3>1, <3>2, <3>3
  <2> QED
    BY <2>2, <2>4, <2>5
<1> HIDE DEF K, n
<1>7. n \in K
  <2>1. 0 .. n \subseteq K
    BY <1>1, <1>5, <1>6, InductionTo
  <2> QED
    BY <1>1, <2>1
<1>8. /\ t(n) \in Seq(T) /\ Len(t(n)) = Len(s(n))
      /\ \A i \in 1 .. Len(s(n)) : t(n)[i] = F[s(n)[i]]
  BY <1>7 DEF K
<1> QED
  BY <1>3, <1>4, <1>8

\* ss has the singleton of u[i] at the positions i of G, and is empty elsewhere.
Selects(ss, n, u, G) == ss = [i \in 1 .. n |-> IF i \in G THEN <<u[i]>> ELSE <<>>]

\* The same, of a sequence u over S: the conditions as one, to be cited by name.
SelectsFrom(ss, n, u, G, S) ==
  n \in Nat /\ u \in [1 .. n -> S] /\ G \in SUBSET (1 .. n) /\ Selects(ss, n, u, G)

\* Of a sequence of singletons and empty sequences, flattening keeps the
\* elements of the singletons, in order.
LEMMA Selected ==
  ASSUME NEW ss, NEW n, NEW u, NEW G, NEW S, SelectsFrom(ss, n, u, G, S)
  PROVE  /\ FlattenSeq(ss) \in Seq(S)
         /\ \E p \in Bijection(G, 1 .. Len(FlattenSeq(ss))) :
              \A i \in G : FlattenSeq(ss)[p[i]] = u[i]
<1>0. n \in Nat /\ u \in [1 .. n -> S] /\ G \in SUBSET (1 .. n) /\ Selects(ss, n, u, G)
  BY DEF SelectsFrom
<1> USE <1>0
<1> DEFINE s(k) == FlattenSeq(Prefix(ss, k))
           place(i) == Len(s(i))
           K == {k \in 0 .. n :
                   /\ \A i \in G : i <= k => place(i) \in 1 .. Len(s(k)) /\ s(k)[place(i)] = u[i]
                   /\ \A m \in 1 .. Len(s(k)) : \E i \in G : i <= k /\ place(i) = m
                   /\ \A i, j \in G : i < j /\ j <= k => place(i) < place(j)}
<1>1. ss \in Seq(Seq(S)) /\ Len(ss) = n
  <2>1. \A i \in 1 .. n : (IF i \in G THEN <<u[i]>> ELSE <<>>) \in Seq(S)
    OBVIOUS
  <2> QED
    BY <2>1 DEF Selects
<1>2. /\ s(0) = <<>> /\ s(n) = FlattenSeq(ss)
      /\ \A k \in 0 .. n : s(k) \in Seq(S)
      /\ \A k \in 0 .. n - 1 : s(k + 1) = s(k) \o ss[k + 1]
  <2>1. /\ FlattenSeq(Prefix(ss, 0)) = <<>>
        /\ FlattenSeq(Prefix(ss, Len(ss))) = FlattenSeq(ss)
        /\ \A k \in 0 .. Len(ss) : FlattenSeq(Prefix(ss, k)) \in Seq(S)
        /\ \A k \in 0 .. Len(ss) - 1 :
             FlattenSeq(Prefix(ss, k + 1)) = FlattenSeq(Prefix(ss, k)) \o ss[k + 1]
    BY ONLY <1>1, FlattenPrefix
  <2> QED
    BY ONLY <1>1, <2>1
<1> HIDE DEF s
<1>3. \A k \in 0 .. n : place(k) \in Nat
  BY <1>2
<1>4. ASSUME NEW k \in 0 .. n - 1
      PROVE  /\ k + 1 \notin G => s(k + 1) = s(k)
             /\ k + 1 \in G => s(k + 1) = Append(s(k), u[k + 1])
  <2>0. k + 1 \in 1 .. n /\ k \in 0 .. n
    OBVIOUS
  <2>1. k + 1 \in 1 .. n /\ s(k) \in Seq(S) /\ s(k + 1) = s(k) \o ss[k + 1]
    BY ONLY <1>2, <2>0, k \in 0 .. n - 1
  <2>2. ss[k + 1] = IF k + 1 \in G THEN <<u[k + 1]>> ELSE <<>>
    BY <2>1 DEF Selects
  <2>3. u[k + 1] \in S
    BY <2>1
  <2>4. s(k) \o <<>> = s(k)
    BY <2>1, ConcatEmptySeq
  <2>5. s(k) \o <<u[k + 1]>> = Append(s(k), u[k + 1])
    BY <2>1, <2>3
  <2> QED
    BY <2>1, <2>2, <2>4, <2>5
<1>5. 0 \in K
  BY <1>2
<1>6. ASSUME NEW k \in 0 .. n - 1, k \in K
      PROVE  k + 1 \in K
  <2>0. k \in 0 .. n /\ k + 1 \in 0 .. n /\ k + 1 \in 1 .. n /\ s(k) \in Seq(S)
    BY <1>2
  <2>1. CASE k + 1 \notin G
    <3>1. \A i \in G : i <= k + 1 <=> i <= k
      BY <2>1
    <3>2. s(k + 1) = s(k)
      BY <1>4, <2>1
    <3> HIDE DEF place
    <3> QED
      BY <1>6, <2>0, <3>1, <3>2
  <2>2. CASE k + 1 \in G
    <3>1. /\ Len(s(k + 1)) = Len(s(k)) + 1 /\ s(k + 1)[Len(s(k)) + 1] = u[k + 1]
          /\ \A m \in 1 .. Len(s(k)) : s(k + 1)[m] = s(k)[m]
      <4>1. s(k) \in Seq(S) /\ u[k + 1] \in S /\ s(k + 1) = Append(s(k), u[k + 1])
        BY <1>4, <2>0, <2>2
      <4> QED
        BY ONLY <4>1, AppendProperties
    <3>2. Len(s(k)) \in Nat
      BY <2>0
    <3>3. place(k + 1) = Len(s(k)) + 1
      BY <3>1
    <3>4. ASSUME NEW i \in G, i <= k + 1
          PROVE  place(i) \in 1 .. Len(s(k + 1)) /\ s(k + 1)[place(i)] = u[i]
      <4>1. CASE i = k + 1
        BY <3>1, <3>2, <3>3, <4>1
      <4>2. CASE i # k + 1
        <5>1. place(i) \in 1 .. Len(s(k)) /\ s(k)[place(i)] = u[i]
          BY <1>6, <3>4, <4>2
        <5> HIDE DEF place
        <5> QED
          BY <3>1, <3>2, <5>1
      <4> QED
        BY <4>1, <4>2
    <3>5. ASSUME NEW m \in 1 .. Len(s(k + 1))
          PROVE  \E i \in G : i <= k + 1 /\ place(i) = m
      <4>1. CASE m = Len(s(k)) + 1
        BY <2>2, <3>3, <4>1
      <4>2. CASE m # Len(s(k)) + 1
        <5>1. m \in 1 .. Len(s(k))
          BY <3>1, <3>2, <4>2
        <5>2. PICK i \in G : i <= k /\ place(i) = m
          BY <1>6, <5>1
        <5>3. i <= k + 1
          BY <5>2
        <5> QED
          BY <5>2, <5>3
      <4> QED
        BY <4>1, <4>2
    <3>6. ASSUME NEW i \in G, NEW j \in G, i < j, j <= k + 1
          PROVE  place(i) < place(j)
      <4>1. CASE j = k + 1
        <5>1. place(i) \in 1 .. Len(s(k))
          BY <1>6, <3>6, <4>1
        <5> HIDE DEF place
        <5> QED
          BY <3>2, <3>3, <4>1, <5>1
      <4>2. CASE j # k + 1
        BY <1>6, <3>6, <4>2
      <4> QED
        BY <4>1, <4>2
    <3> HIDE DEF place
    <3> QED
      BY <2>0, <3>4, <3>5, <3>6
  <2> QED
    BY <2>1, <2>2
<1>7. n \in K
  <2> HIDE DEF K
  <2>1. 0 .. n \subseteq K
    BY <1>5, <1>6, InductionTo
  <2> QED
    BY <2>1
<1> DEFINE p == [i \in G |-> place(i)]
<1>8. /\ \A i \in G : p[i] \in 1 .. Len(s(n)) /\ s(n)[p[i]] = u[i]
      /\ \A m \in 1 .. Len(s(n)) : \E i \in G : p[i] = m
      /\ \A i, j \in G : i < j => p[i] < p[j]
  <2> HIDE DEF place
  <2> QED
    BY <1>7
<1>9. \A i \in G : p[i] \in Nat
  BY <1>3
<1>10. p \in [G -> 1 .. Len(s(n))]
  <2> HIDE DEF place
  <2> QED
    BY <1>8
<1> HIDE DEF p
<1>11. \A i, j \in G : p[i] = p[j] => i = j
  BY <1>8, <1>9
<1>12. p \in Bijection(G, 1 .. Len(s(n)))
  BY <1>8, <1>10, <1>11 DEF Bijection, Injection, Surjection, IsInjective
<1>13. s(n) \in Seq(S)
  BY <1>2
<1>14. \A i \in G : s(n)[p[i]] = u[i]
  BY <1>8
<1> QED
  BY ONLY <1>2, <1>12, <1>13, <1>14

LEMMA FlattenSelected ==
  ASSUME NEW S, NEW n \in Nat, NEW u \in [1 .. n -> S], NEW G \in SUBSET (1 .. n), NEW ss,
         Selects(ss, n, u, G)
  PROVE  /\ FlattenSeq(ss) \in Seq(S)
         /\ \E p \in Bijection(G, 1 .. Len(FlattenSeq(ss))) :
              \A i \in G : FlattenSeq(ss)[p[i]] = u[i]
<1>1. SelectsFrom(ss, n, u, G, S)
  BY DEF SelectsFrom
<1> QED
  BY <1>1, Selected

\* Every sequence of ss is a block of four elements of S.
Quads(S, ss) == ss \in Seq(Seq(S)) /\ \A j \in 1 .. Len(ss) : Len(ss[j]) = 4

\* Flattening blocks of four elements puts block j at the positions from
\* 4 * j + 1, counting blocks from 0.
LEMMA FlattenBlocks ==
  ASSUME NEW S, NEW ss, Quads(S, ss)
  PROVE  /\ FlattenSeq(ss) \in Seq(S)
         /\ Len(FlattenSeq(ss)) = 4 * Len(ss)
         /\ \A j \in 0 .. Len(ss) - 1 : \A k \in 1 .. 4 :
              FlattenSeq(ss)[4 * j + k] = ss[j + 1][k]
<1> DEFINE n == Len(ss)
           s(m) == FlattenSeq(Prefix(ss, m))
           K == {m \in 0 .. n : /\ s(m) \in Seq(S) /\ Len(s(m)) = 4 * m
                                /\ \A j \in 0 .. m - 1 : \A k \in 1 .. 4 :
                                     s(m)[4 * j + k] = ss[j + 1][k]}
<1>0. ss \in Seq(Seq(S)) /\ \A j \in 1 .. Len(ss) : Len(ss[j]) = 4
  BY DEF Quads
<1>1. n \in Nat /\ \A j \in 1 .. n : ss[j] \in Seq(S)
  BY <1>0
<1>2. /\ s(0) = <<>> /\ s(n) = FlattenSeq(ss)
      /\ \A m \in 0 .. n : s(m) \in Seq(S)
      /\ \A m \in 0 .. n - 1 : s(m + 1) = s(m) \o ss[m + 1]
  BY <1>0, FlattenPrefix
<1>3. \A j \in 1 .. n : Len(ss[j]) = 4
  BY <1>0
<1> HIDE DEF s, n
<1>4. 0 \in K
  BY <1>1, <1>2
<1>5. ASSUME NEW m \in 0 .. n - 1, m \in K
      PROVE  m + 1 \in K
  <2>1. /\ s(m) \in Seq(S) /\ Len(s(m)) = 4 * m
        /\ \A j \in 0 .. m - 1 : \A k \in 1 .. 4 : s(m)[4 * j + k] = ss[j + 1][k]
    BY <1>5
  <2>2. PICK b : b = ss[m + 1]
    OBVIOUS
  <2>3. b \in Seq(S) /\ Len(b) = 4 /\ s(m + 1) = s(m) \o b
    <3>1. m + 1 \in 1 .. n
      BY <1>1
    <3>2. s(m + 1) = s(m) \o ss[m + 1]
      BY <1>2
    <3> QED
      BY ONLY <1>1, <1>3, <2>2, <3>1, <3>2
  <2>4. PICK a : a = s(m)
    OBVIOUS
  <2>5. PICK c : c = s(m + 1)
    OBVIOUS
  <2>6. /\ c \in Seq(S) /\ Len(c) = 4 * m + 4
        /\ \A i \in 1 .. 4 * m + 4 : c[i] = IF i <= 4 * m THEN a[i] ELSE b[i - 4 * m]
    <3>1. a \in Seq(S) /\ b \in Seq(S) /\ c = a \o b /\ Len(a) = 4 * m /\ Len(b) = 4
      BY <2>1, <2>3, <2>4, <2>5
    <3>2. /\ a \o b \in Seq(S) /\ Len(a \o b) = Len(a) + Len(b)
          /\ \A i \in 1 .. Len(a) + Len(b) :
               (a \o b)[i] = IF i <= Len(a) THEN a[i] ELSE b[i - Len(a)]
      BY ONLY <3>1, ConcatProperties
    <3> QED
      BY ONLY <3>1, <3>2
  <2>7. ASSUME NEW j \in 0 .. m, NEW k \in 1 .. 4
        PROVE  c[4 * j + k] = ss[j + 1][k]
    <3>0. m \in Nat
      OBVIOUS
    <3>1. CASE j < m
      <4>1. j \in 0 .. m - 1 /\ 4 * j + k \in 1 .. 4 * m + 4 /\ 4 * j + k <= 4 * m
        BY <3>0, <3>1
      <4> QED
        BY <2>1, <2>4, <2>6, <4>1
    <3>2. CASE j = m
      <4>1. 4 * j + k \in 1 .. 4 * m + 4 /\ ~(4 * j + k <= 4 * m) /\ (4 * j + k) - 4 * m = k
        BY <3>0, <3>2
      <4> QED
        BY <2>2, <2>6, <3>2, <4>1
    <3> QED
      BY <3>0, <3>1, <3>2
  <2>8. m + 1 \in 0 .. n /\ 4 * (m + 1) = 4 * m + 4 /\ (m + 1) - 1 = m
    BY <1>1
  <2> QED
    BY <2>5, <2>6, <2>7, <2>8
<1>6. 0 .. n \subseteq K
  <2> HIDE DEF K
  <2> QED
    BY <1>1, <1>4, <1>5, InductionTo
<1>7. n \in K
  BY <1>1, <1>6
<1> QED
  BY <1>2, <1>7 DEF n

\* How many of n elements are in the first k blocks of W.
InBlocks(n, k, W) == IF n <= k * W THEN n ELSE k * W

\* ss cuts v, of n elements, into blocks of W: the last one of these may be
\* short, and the others of ss are empty.
Cuts(S, ss, v, n, W) ==
  /\ ss \in Seq(Seq(S)) /\ n \in Nat /\ W \in Nat \ {0} /\ v \in [1 .. n -> S]
  /\ \A j \in 0 .. Len(ss) - 1 :
       ss[j + 1] = [i \in 1 .. InBlocks(n, j + 1, W) - InBlocks(n, j, W) |-> v[j * W + i]]

\* Flattening puts together what was cut.
LEMMA FlattenCut ==
  ASSUME NEW S, NEW ss, NEW v, NEW n, NEW W, Cuts(S, ss, v, n, W)
  PROVE  FlattenSeq(ss) = [i \in 1 .. InBlocks(n, Len(ss), W) |-> v[i]]
<1> DEFINE m == Len(ss)
           s(k) == FlattenSeq(Prefix(ss, k))
           K == {k \in 0 .. m : s(k) = [i \in 1 .. InBlocks(n, k, W) |-> v[i]]}
<1>0. /\ ss \in Seq(Seq(S)) /\ n \in Nat /\ W \in Nat \ {0} /\ v \in [1 .. n -> S]
      /\ \A j \in 0 .. m - 1 :
           ss[j + 1] = [i \in 1 .. InBlocks(n, j + 1, W) - InBlocks(n, j, W) |-> v[j * W + i]]
      /\ m \in Nat
  BY DEF Cuts
<1>1. /\ s(0) = <<>> /\ s(m) = FlattenSeq(ss)
      /\ \A k \in 0 .. m - 1 : s(k + 1) = s(k) \o ss[k + 1]
  BY <1>0, FlattenPrefix
<1>2. 0 \in K
  <2>1. InBlocks(n, 0, W) = 0
    <3>1. 0 * W = 0
      BY <1>0
    <3> QED
      BY <1>0, <3>1 DEF InBlocks
  <2>2. [i \in 1 .. 0 |-> v[i]] = <<>>
    OBVIOUS
  <2>3. 0 \in 0 .. m
    BY <1>0
  <2> QED
    BY <1>1, <2>1, <2>2, <2>3
<1>3. ASSUME NEW k \in 0 .. m - 1, k \in K
      PROVE  k + 1 \in K
  <2>1. PICK x \in Nat : x = k * W /\ (k + 1) * W = x + W
    <3>1. k * W \in Nat /\ (k + 1) * W = k * W + W
      BY <1>0
    <3> QED
      BY <3>1
  <2>2. PICK a \in Nat, b \in Nat : a = InBlocks(n, k, W) /\ b = InBlocks(n, k + 1, W)
                                    /\ a <= b /\ b <= n /\ (a = x \/ b = a)
    <3>1. InBlocks(n, k, W) = (IF n <= x THEN n ELSE x)
          /\ InBlocks(n, k + 1, W) = (IF n <= x + W THEN n ELSE x + W)
      BY <2>1 DEF InBlocks
    <3>2. PICK c, d : c = InBlocks(n, k, W) /\ d = InBlocks(n, k + 1, W)
      OBVIOUS
    <3>3. c = (IF n <= x THEN n ELSE x) /\ d = (IF n <= x + W THEN n ELSE x + W)
      BY <3>1, <3>2
    <3>4. n \in Nat /\ W \in Nat
      BY <1>0
    <3>5. c \in Nat /\ d \in Nat /\ c <= d /\ d <= n /\ (c = x \/ d = c)
      BY ONLY <3>3, <3>4, x \in Nat
    <3> QED
      BY <3>2, <3>5
  <2>3. s(k + 1) = [i \in 1 .. a |-> v[i]] \o [i \in 1 .. b - a |-> v[x + i]]
    <3>1. s(k) = [i \in 1 .. a |-> v[i]]
      BY <1>3, <2>2
    <3>2. ss[k + 1] = [i \in 1 .. b - a |-> v[x + i]]
      BY <1>0, <2>1, <2>2
    <3>3. s(k + 1) = s(k) \o ss[k + 1]
      BY <1>1
    <3> QED
      BY <3>1, <3>2, <3>3
  <2>4. PICK f, g : f = [i \in 1 .. a |-> v[i]] /\ g = [i \in 1 .. b - a |-> v[x + i]]
    OBVIOUS
  <2>5. f \in Seq(S) /\ Len(f) = a
    <3>1. \A i \in 1 .. a : v[i] \in S
      BY <1>0, <2>2
    <3>2. f \in [1 .. a -> S]
      BY <2>4, <3>1
    <3> QED
      BY <3>2
  <2>6. g \in Seq(S) /\ Len(g) = b - a
    <3>1. PICK c \in Nat : c = b - a
      BY <2>2
    <3>5. a <= b /\ b <= n /\ (a = x \/ b = a) /\ n \in Nat
      BY <1>0, <2>2
    <3>2. \A i \in 1 .. c : x + i \in 1 .. n
      BY ONLY <3>1, <3>5, x \in Nat, a \in Nat, b \in Nat, c \in Nat
    <3>3. \A i \in 1 .. c : v[x + i] \in S
      BY <1>0, <3>2
    <3>4. g \in [1 .. c -> S]
      BY <2>4, <3>1, <3>3
    <3> QED
      BY <3>1, <3>4
  <2>10. f \o g = [i \in 1 .. b |-> v[i]]
    <3>1. PICK h : h = f \o g
      OBVIOUS
    <3>0. a <= b /\ (a = x \/ b = a)
      BY <2>2
    <3>2. h \in Seq(S) /\ Len(h) = b
      <4>1. h \in Seq(S) /\ Len(h) = Len(f) + Len(g)
        BY <2>5, <2>6, <3>1, ConcatProperties
      <4>2. a + (b - a) = b
        OBVIOUS
      <4> QED
        BY <2>5, <2>6, <4>1, <4>2
    <3>3. ASSUME NEW i \in 1 .. b
          PROVE  h[i] = v[i]
      <4>1. CASE i <= a
        <5>1. h[i] = f[i] /\ i \in 1 .. a
          BY <2>5, <2>6, <3>1, <4>1
        <5> QED
          BY <2>4, <5>1
      <4>2. CASE ~(i <= a)
        <5>1. PICK j \in Nat : j = i - a
          BY <4>2
        <5>2. j \in 1 .. b - a /\ a = x /\ x + j = i
          BY ONLY <3>0, <4>2, <5>1, i \in 1 .. b, a \in Nat, b \in Nat, x \in Nat, j \in Nat
        <5>3. h[i] = g[j]
          <6>1. i \in Len(f) + 1 .. Len(f) + Len(g) /\ j = i - Len(f)
            BY <2>5, <2>6, <5>1, <5>2
          <6> QED
            BY <2>5, <2>6, <3>1, <6>1, ConcatProperties
        <5> QED
          BY <2>4, <5>2, <5>3
      <4> QED
        BY <4>1, <4>2
    <3>4. h = [i \in 1 .. b |-> h[i]]
      BY <3>2
    <3> QED
      BY <3>1, <3>3, <3>4
  <2>7. s(k + 1) = [i \in 1 .. InBlocks(n, k + 1, W) |-> v[i]]
    BY <2>2, <2>3, <2>4, <2>10
  <2>8. k + 1 \in 0 .. m
    BY <1>0
  <2> HIDE DEF s
  <2> QED
    BY <2>7, <2>8
<1>4. m \in K
  <2> HIDE DEF K
  <2>1. 0 .. m \subseteq K
    BY <1>0, <1>2, <1>3, InductionTo
  <2>2. m \in 0 .. m
    BY <1>0
  <2> QED
    BY <2>1, <2>2
<1> QED
  BY <1>1, <1>4

\* ss has k sequences, the first ones the elements of v one by one and the
\* others empty.
Firsts(S, ss, v, n, k) ==
  /\ n \in Nat /\ k \in Nat /\ n <= k /\ v \in [1 .. n -> S]
  /\ ss = [i \in 1 .. k |-> IF i <= n THEN <<v[i]>> ELSE <<>>]

\* Flattening these gives v.
LEMMA FlattenFirsts ==
  ASSUME NEW S, NEW ss, NEW v, NEW n, NEW k, Firsts(S, ss, v, n, k)
  PROVE  FlattenSeq(ss) = v
<1>0. /\ n \in Nat /\ k \in Nat /\ n <= k /\ v \in [1 .. n -> S]
      /\ ss = [i \in 1 .. k |-> IF i <= n THEN <<v[i]>> ELSE <<>>]
  BY DEF Firsts
<1>1. PICK w \in Nat \ {0} : w = 1
  OBVIOUS
<1>2. \A j \in Nat : InBlocks(n, j, w) = IF n <= j THEN n ELSE j
  BY <1>1 DEF InBlocks
<1>3. ss \in Seq(Seq(S)) /\ Len(ss) = k
  <2>1. PICK Q : Q = Seq(S)
    OBVIOUS
  <2>2. \A i \in 1 .. k : (IF i <= n THEN <<v[i]>> ELSE <<>>) \in Q
    <3> SUFFICES ASSUME NEW i \in 1 .. k, i <= n
                 PROVE  <<v[i]>> \in Seq(S)
      BY <2>1
    <3>1. v[i] \in S
      BY <1>0
    <3> QED
      BY <3>1
  <2>3. ss \in [1 .. k -> Q]
    BY <1>0, <2>2
  <2>4. ss \in Seq(Q) /\ Len(ss) = k
    BY <1>0, <2>3
  <2> QED
    BY <2>1, <2>4
<1>4. ASSUME NEW j \in 0 .. k - 1
      PROVE  ss[j + 1] = [i \in 1 .. InBlocks(n, j + 1, w) - InBlocks(n, j, w) |-> v[j * w + i]]
  <2>1. ss[j + 1] = IF j + 1 <= n THEN <<v[j + 1]>> ELSE <<>>
    BY <1>0
  <2>2. PICK b \in {0, 1} : b = InBlocks(n, j + 1, w) - InBlocks(n, j, w)
                            /\ b = IF j + 1 <= n THEN 1 ELSE 0
    <3>1. j \in Nat /\ j + 1 \in Nat
      OBVIOUS
    <3> QED
      BY <1>0, <1>2, <3>1
  <2>3. j * w = j
    BY <1>1
  <2>4. [i \in 1 .. b |-> v[j + i]] = IF j + 1 <= n THEN <<v[j + 1]>> ELSE <<>>
    BY <2>2
  <2> QED
    BY <2>1, <2>2, <2>3, <2>4
<1>5. Cuts(S, ss, v, n, w)
  BY <1>0, <1>3, <1>4 DEF Cuts
<1>6. FlattenSeq(ss) = [i \in 1 .. InBlocks(n, Len(ss), w) |-> v[i]]
  BY <1>5, FlattenCut
<1>7. InBlocks(n, Len(ss), w) = n
  BY <1>0, <1>2, <1>3
<1> QED
  BY <1>0, <1>6, <1>7

(***************************************************************************)
(* Powers of two, as the numbers of subsets.                               *)
(***************************************************************************)
\* A power of two is a number, and the next one is its double.
LEMMA TwoPowers ==
  ASSUME NEW k \in Nat
  PROVE  2 ^ k \in Nat /\ 2 ^ (k + 1) = 2 * 2 ^ k
<1> DEFINE A == SUBSET (1 .. k)
           B == {X \cup {k + 1} : X \in A}
           C == SUBSET (1 .. k + 1)
<1>1. /\ IsFiniteSet(A) /\ Cardinality(A) = 2 ^ k /\ Cardinality(A) \in Nat
      /\ Cardinality(C) = 2 ^ (k + 1)
  <2>1. /\ IsFiniteSet(1 .. k) /\ Cardinality(1 .. k) = k
        /\ IsFiniteSet(1 .. k + 1) /\ Cardinality(1 .. k + 1) = k + 1
    BY FS_Interval
  <2> QED
    BY <2>1, FS_SUBSET, FS_CardinalityType
<1>2. A \cup B = C
  <2>1. ASSUME NEW Y \in C
        PROVE  Y \in A \cup B
    <3>1. CASE k + 1 \notin Y
      BY <3>1
    <3>2. CASE k + 1 \in Y
      <4>1. Y \ {k + 1} \in A /\ Y = (Y \ {k + 1}) \cup {k + 1}
        BY <3>2
      <4> QED
        BY <4>1
    <3> QED
      BY <3>1, <3>2
  <2>2. 1 .. k \subseteq 1 .. k + 1 /\ k + 1 \in 1 .. k + 1
    OBVIOUS
  <2>3. A \subseteq C
    BY <2>2
  <2>4. ASSUME NEW X \in A
        PROVE  X \cup {k + 1} \in C
    BY <2>2
  <2> QED
    <3>1. B \subseteq C
      <4> HIDE DEF A, C
      <4> QED
        BY <2>4
    <3> HIDE DEF A, B, C
    <3> QED
      BY <2>1, <2>3, <3>1
<1>3. A \cap B = {}
  OBVIOUS
<1>4. ExistsBijection(A, B)
  <2> DEFINE f == [X \in A |-> X \cup {k + 1}]
  <2>1. f \in [A -> B] /\ \A Y \in B : \E X \in A : f[X] = Y
    OBVIOUS
  <2>2. ASSUME NEW X \in A, NEW Y \in A, f[X] = f[Y]
        PROVE  X = Y
    BY <2>2
  <2> HIDE DEF f, A, B
  <2> QED
    BY <2>1, <2>2 DEF ExistsBijection, Bijection, Injection, Surjection, IsInjective
<1>5. IsFiniteSet(B) /\ Cardinality(B) = 2 ^ k
  BY <1>1, <1>4, FS_Bijection
<1>6. Cardinality(C) = Cardinality(A) + Cardinality(B) - Cardinality({})
  BY <1>1, <1>2, <1>3, <1>5, FS_Union
<1> HIDE DEF A, B, C
<1> QED
  BY <1>1, <1>5, <1>6, FS_EmptySet

\* A power of two exceeds its exponent.
LEMMA TwoPowerExceeds ==
  ASSUME NEW n \in Nat
  PROVE  n < 2 ^ n
<1> DEFINE K == {k \in 0 .. n : k < 2 ^ k}
<1>1. 0 \in K
  BY SMT
<1>2. ASSUME NEW k \in 0 .. n - 1, k \in K
      PROVE  k + 1 \in K
  <2>1. k \in Nat /\ 2 ^ k \in Nat /\ 2 ^ (k + 1) = 2 * 2 ^ k
    BY TwoPowers
  <2> QED
    BY <1>2, <2>1
<1> HIDE DEF K
<1>3. n \in K
  BY <1>1, <1>2, InductionTo
<1> QED
  BY <1>3 DEF K


\* The zeroth power.
LEMMA PowerZero == 2 ^ 0 = 1
<1>1. Cardinality(SUBSET {}) = 2 ^ Cardinality({}) /\ Cardinality({}) = 0
  BY FS_SUBSET, FS_EmptySet
<1>2. SUBSET {} = {{}}
  OBVIOUS
<1>3. Cardinality({{}}) = 1
  BY FS_Singleton
<1> QED
  BY <1>1, <1>2, <1>3

\* The powers of two multiply.
LEMMA PowersMultiply ==
  ASSUME NEW a \in Nat, NEW b \in Nat
  PROVE  2 ^ (a + b) = 2 ^ a * 2 ^ b
<1> DEFINE K == {k \in 0 .. b : 2 ^ (a + k) = 2 ^ a * 2 ^ k}
<1>1. 0 \in K
  BY PowerZero, TwoPowers
<1>2. ASSUME NEW k \in 0 .. b - 1, k \in K
      PROVE  k + 1 \in K
  <2>1. /\ 2 ^ (a + k) = 2 ^ a * 2 ^ k /\ k \in Nat /\ a + k \in Nat /\ a + (k + 1) = (a + k) + 1
        /\ k + 1 \in 0 .. b
    BY <1>2
  <2>2. 2 ^ ((a + k) + 1) = 2 * 2 ^ (a + k) /\ 2 ^ (k + 1) = 2 * 2 ^ k /\ 2 ^ a \in Nat /\ 2 ^ k \in Nat
    BY <2>1, TwoPowers
  <2>3. 2 ^ (a + (k + 1)) = 2 ^ a * 2 ^ (k + 1)
    BY <2>1, <2>2
  <2> QED
    BY <2>1, <2>3
<1>3. 0 .. b \subseteq K
  <2> HIDE DEF K
  <2> QED
    BY <1>1, <1>2, InductionTo
<1>4. b \in K
  BY <1>3
<1> QED
  BY <1>4

\* A table has room for every operation.
LEMMA NumRowsFit ==
  ASSUME NEW n \in Nat
  PROVE  NumRows(n) \in Nat /\ NumRows(n) >= n /\ NumRows(n) >= 1
<1> DEFINE M == {m \in {2 ^ k : k \in 2 .. n + 2} : m >= n}
<1>1. \A k \in 2 .. n + 2 : 2 ^ k \in Nat /\ k < 2 ^ k
  BY TwoPowers, TwoPowerExceeds
<1>2. M \in SUBSET Nat /\ \A m \in M : m >= n /\ m >= 1
  BY <1>1
<1>3. M # {}
  <2>1. n + 2 \in 2 .. n + 2 /\ 2 ^ (n + 2) >= n
    BY <1>1
  <2>2. 2 ^ (n + 2) \in M
    BY <2>1
  <2> QED
    BY <2>2
<1>4. NumRows(n) = CHOOSE x \in M : \A y \in M : x <= y
  BY DEF NumRows, Min
<1> HIDE DEF M
<1>5. \E x \in M : \A y \in M : x <= y
  BY <1>2, <1>3, LeastNatural
<1>6. NumRows(n) \in M
  BY <1>4, <1>5
<1> QED
  BY <1>2, <1>6

(***************************************************************************)
(* Digits, from the most significant one down.                             *)
(***************************************************************************)
\* d follows the recursion of Digits.
DigitsOf(d, a, b, n) == d = [i \in 0 .. n |-> IF i = n THEN 0 ELSE a[i] + b * d[i + 1]]

\* What Digits computes.
LEMMA DigitsStep ==
  ASSUME NEW n \in Nat, NEW b \in Int, NEW a, \A i \in 0 .. n - 1 : a[i] \in Int
  PROVE  /\ Digits(a, b, n) \in [0 .. n -> Int]
         /\ Digits(a, b, n)[n] = 0
         /\ \A i \in 0 .. n - 1 : Digits(a, b, n)[i] = a[i] + b * Digits(a, b, n)[i + 1]
<1> DEFINE From(k, f) == /\ f \in [n - k .. n -> Int] /\ f[n] = 0
                         /\ \A i \in n - k .. n - 1 : f[i] = a[i] + b * f[i + 1]
           K == {k \in 0 .. n : \E f : From(k, f)}
<1>1. 0 \in K
  <2> DEFINE f == [i \in n .. n |-> 0]
  <2>1. From(0, f)
    OBVIOUS
  <2> HIDE DEF From
  <2> QED
    BY <2>1
<1>2. ASSUME NEW k \in 0 .. n - 1, k \in K
      PROVE  k + 1 \in K
  <2>1. PICK f : From(k, f)
    BY <1>2
  <2>2. PICK m \in 0 .. n - 1 : m = n - (k + 1)
    OBVIOUS
  <2>3. m + 1 = n - k /\ n - (k + 1) = m /\ k + 1 \in 0 .. n
    BY <2>2
  <2>4. PICK v \in Int : v = a[m] + b * f[m + 1]
    BY <2>1, <2>3
  <2> DEFINE g == [i \in m .. n |-> IF i = m THEN v ELSE f[i]]
  <2>5. g \in [m .. n -> Int] /\ g[n] = 0
    BY <2>1, <2>2, <2>3
  <2>6. ASSUME NEW i \in m .. n - 1
        PROVE  g[i] = a[i] + b * g[i + 1]
    <3>1. i + 1 \in m .. n /\ i + 1 # m /\ g[i + 1] = f[i + 1]
      OBVIOUS
    <3>2. CASE i = m
      BY <2>4, <3>1, <3>2
    <3>3. CASE i # m
      <4>1. i \in n - k .. n - 1 /\ g[i] = f[i]
        BY <2>3, <3>3
      <4> QED
        BY <2>1, <3>1, <4>1
    <3> QED
      BY <3>2, <3>3
  <2> HIDE DEF g
  <2>7. From(k + 1, g)
    BY <2>3, <2>5, <2>6
  <2> HIDE DEF From
  <2> QED
    BY <2>3, <2>7
<1>3. n \in K
  <2>1. 0 .. n \subseteq K
    <3> HIDE DEF K
    <3> QED
      BY <1>1, <1>2, InductionTo
  <2> QED
    BY <2>1
<1>4. PICK f : From(n, f)
  BY <1>3
<1>5. f \in [0 .. n -> Int] /\ f[n] = 0 /\ \A i \in 0 .. n - 1 : f[i] = a[i] + b * f[i + 1]
  BY <1>4
<1>6. f = [i \in 0 .. n |-> IF i = n THEN 0 ELSE a[i] + b * f[i + 1]]
  <2>1. \A i \in 0 .. n : f[i] = IF i = n THEN 0 ELSE a[i] + b * f[i + 1]
    BY <1>5
  <2> QED
    BY <1>5, <2>1
<1>7. \E d : DigitsOf(d, a, b, n)
  BY <1>6 DEF DigitsOf
<1>8. Digits(a, b, n) = CHOOSE d : DigitsOf(d, a, b, n)
  BY Zenon DEF Digits, DigitsOf
<1>9. PICK d : d = Digits(a, b, n)
  OBVIOUS
<1>10. DigitsOf(d, a, b, n)
  BY <1>7, <1>8, <1>9
<1>11. /\ d[n] = 0 /\ DOMAIN d = 0 .. n /\ d = [i \in 0 .. n |-> d[i]]
       /\ \A i \in 0 .. n - 1 : d[i] = a[i] + b * d[i + 1]
  BY <1>10 DEF DigitsOf
<1>12. \A i \in 0 .. n : d[i] \in Int
  <2> DEFINE J == {k \in 0 .. n : d[n - k] \in Int}
  <2>1. 0 \in J
    BY <1>11
  <2>2. ASSUME NEW k \in 0 .. n - 1, k \in J
        PROVE  k + 1 \in J
    <3>1. PICK m \in 0 .. n - 1 : m = n - (k + 1)
      OBVIOUS
    <3>2. d[m + 1] \in Int /\ d[m] = a[m] + b * d[m + 1]
      <4>1. m + 1 = n - k
        BY <3>1
      <4>2. d[n - k] \in Int
        BY <2>2
      <4> QED
        BY <1>11, <4>1, <4>2
    <3> QED
      BY <3>1, <3>2
  <2>3. 0 .. n \subseteq J
    <3> HIDE DEF J
    <3> QED
      BY <2>1, <2>2, InductionTo
  <2>4. ASSUME NEW i \in 0 .. n
        PROVE  d[i] \in Int
    <3>1. n - i \in J /\ n - (n - i) = i
      BY <2>3
    <3> QED
      BY <3>1
  <2> QED
    BY <2>4
<1> QED
  BY <1>9, <1>11, <1>12

\* Induction downwards.
LEMMA InductionDown ==
  ASSUME NEW n \in Nat, NEW S, n \in S, \A i \in 0 .. n - 1 : i + 1 \in S => i \in S
  PROVE  \A i \in 0 .. n : i \in S
<1> DEFINE J == {k \in 0 .. n : n - k \in S}
<1>1. 0 \in J
  OBVIOUS
<1>2. ASSUME NEW k \in 0 .. n - 1, k \in J
      PROVE  k + 1 \in J
  <2>1. PICK i \in 0 .. n - 1 : i = n - (k + 1) /\ i + 1 = n - k
    OBVIOUS
  <2>2. i + 1 \in S
    BY <1>2, <2>1
  <2> QED
    BY <2>1, <2>2
<1>3. 0 .. n \subseteq J
  <2> HIDE DEF J
  <2> QED
    BY <1>1, <1>2, InductionTo
<1>4. ASSUME NEW i \in 0 .. n
      PROVE  i \in S
  <2>1. n - i \in J /\ n - (n - i) = i
    BY <1>3
  <2> QED
    BY <2>1
<1> QED
  BY <1>4

\* a has bits below n.
BitsBelow(a, n) == \A i \in 0 .. n - 1 : a[i] \in {0, 1}

\* The number with bits a is below the power of two of their number.
LEMMA BitsBound ==
  ASSUME NEW n \in Nat, NEW a, BitsBelow(a, n)
  PROVE  Digits(a, 2, n)[0] \in Nat /\ Digits(a, 2, n)[0] < 2 ^ n
<1>1. PICK d : d = Digits(a, 2, n)
  OBVIOUS
<1>2. /\ d \in [0 .. n -> Int] /\ d[n] = 0
      /\ \A i \in 0 .. n - 1 : a[i] \in {0, 1} /\ d[i] = a[i] + 2 * d[i + 1]
  <2>1. \A i \in 0 .. n - 1 : a[i] \in Int /\ a[i] \in {0, 1}
    BY DEF BitsBelow
  <2> QED
    BY <1>1, <2>1, DigitsStep
<1> DEFINE S == {i \in 0 .. n : d[i] \in Nat /\ d[i] < 2 ^ (n - i)}
<1>3. n \in S
  BY <1>2, PowerZero
<1>4. ASSUME NEW i \in 0 .. n - 1, i + 1 \in S
      PROVE  i \in S
  <2>1. d[i + 1] \in Nat /\ d[i + 1] < 2 ^ (n - (i + 1)) /\ n - (i + 1) \in Nat
        /\ n - i = (n - (i + 1)) + 1
    BY <1>4
  <2>2. PICK p \in Nat : p = 2 ^ (n - (i + 1)) /\ 2 ^ (n - i) = 2 * p
    BY <2>1, TwoPowers
  <2>3. d[i + 1] < p /\ a[i] \in {0, 1} /\ d[i] = a[i] + 2 * d[i + 1]
    BY <1>2, <2>1, <2>2
  <2>4. PICK e \in Nat : e = d[i + 1]
    BY <2>1
  <2>5. d[i] \in Nat /\ d[i] < 2 * p
    BY <2>3, <2>4
  <2> QED
    BY <2>2, <2>5
<1>5. 0 \in S
  <2>1. \A i \in 0 .. n : i \in S
    <3> HIDE DEF S
    <3> QED
      BY <1>3, <1>4, InductionDown
  <2> QED
    BY <2>1
<1> QED
  BY <1>1, <1>5

\* The number reaches the power of the highest bit exactly when that bit is 1.
LEMMA TopBit ==
  ASSUME NEW n \in Nat, NEW a, BitsBelow(a, n + 1)
  PROVE  Digits(a, 2, n + 1)[0] < 2 ^ n <=> a[n] = 0
<1>1. PICK d : d = Digits(a, 2, n + 1)
  OBVIOUS
<1>2. /\ d \in [0 .. n + 1 -> Int] /\ d[n + 1] = 0
      /\ \A i \in 0 .. n : a[i] \in {0, 1} /\ d[i] = a[i] + 2 * d[i + 1]
  <2>1. \A i \in 0 .. (n + 1) - 1 : a[i] \in Int /\ a[i] \in {0, 1}
    BY DEF BitsBelow
  <2>2. (n + 1) - 1 = n /\ n + 1 \in Nat
    OBVIOUS
  <2> QED
    BY <1>1, <2>1, <2>2, DigitsStep
<1> DEFINE S == {i \in 0 .. n : /\ a[n] = 0 => d[i] < 2 ^ (n - i)
                                /\ a[n] = 1 => d[i] >= 2 ^ (n - i)}
<1>3. n \in S
  <2>1. d[n] = a[n] /\ n - n = 0 /\ a[n] \in {0, 1}
    BY <1>2
  <2> QED
    BY <2>1, PowerZero
<1>4. ASSUME NEW i \in 0 .. n - 1, i + 1 \in S
      PROVE  i \in S
  <2>1. /\ a[n] = 0 => d[i + 1] < 2 ^ (n - (i + 1))
        /\ a[n] = 1 => d[i + 1] >= 2 ^ (n - (i + 1))
        /\ n - (i + 1) \in Nat /\ n - i = (n - (i + 1)) + 1
    BY <1>4
  <2>2. PICK p \in Nat : p = 2 ^ (n - (i + 1)) /\ 2 ^ (n - i) = 2 * p
    BY <2>1, TwoPowers
  <2>3. d[i + 1] \in Int /\ a[i] \in {0, 1} /\ d[i] = a[i] + 2 * d[i + 1]
    BY <1>2
  <2> QED
    BY <2>1, <2>2, <2>3
<1>5. 0 \in S
  <2>1. \A i \in 0 .. n : i \in S
    <3> HIDE DEF S
    <3> QED
      BY <1>3, <1>4, InductionDown
  <2> QED
    BY <2>1
<1>6. a[n] \in {0, 1} /\ d[0] \in Int /\ 2 ^ n \in Nat
  BY <1>2, TwoPowers
<1> QED
  BY <1>1, <1>5, <1>6

(***************************************************************************)
(* Division, and the field with a prime number of elements.                *)
(***************************************************************************)
\* Halving a quotient.
LEMMA HalfQuotient ==
  ASSUME NEW x \in Nat, NEW a \in Nat \ {0}
  PROVE  (x \div a) \div 2 = x \div (2 * a)
<1>1. PICK q \in Nat : q = x \div a
  OBVIOUS
<1>2. PICK p \in Nat : p = q \div 2
  OBVIOUS
<1>3. a * q <= x /\ x < a * q + a
  BY <1>1
<1>4. q = 2 * p \/ q = 2 * p + 1
  BY <1>2
<1>5. (2 * a) * p <= x /\ x < (2 * a) * p + 2 * a
  BY <1>3, <1>4
<1>6. p = x \div (2 * a)
  BY <1>5
<1> QED
  BY <1>1, <1>2, <1>6

\* Quotient and remainder are the only ones.
LEMMA DivisionUnique ==
  ASSUME NEW n \in Nat \ {0}, NEW v \in Int, NEW q \in Int, NEW r \in 0 .. n - 1, v = n * q + r
  PROVE  v \div n = q /\ v % n = r
<1>1. PICK p \in Int : p = v \div n
  OBVIOUS
<1>2. PICK s \in 0 .. n - 1 : s = v % n
  OBVIOUS
<1>3. v = n * p + s
  BY <1>1, <1>2
<1>4. n * (p - q) = r - s
  BY <1>3
<1>5. p = q
  <2>1. PICK d \in Int : d = p - q
    OBVIOUS
  <2>2. d >= 1 => n * d >= n
    OBVIOUS
  <2>3. d <= -1 => n * d <= -n
    OBVIOUS
  <2>4. n * d = r - s
    BY <1>4, <2>1
  <2>5. d = 0
    BY <2>2, <2>3, <2>4
  <2> QED
    BY <2>1, <2>5
<1>6. r = s
  BY <1>3, <1>5
<1> QED
  BY <1>1, <1>2, <1>5, <1>6

\* What division gives.
LEMMA Division ==
  ASSUME NEW n \in Nat \ {0}, NEW v \in Int
  PROVE  v \div n \in Int /\ v % n \in 0 .. n - 1 /\ v = n * (v \div n) + (v % n)
  OBVIOUS

\* The same, as numbers to name.
LEMMA DivisionParts ==
  ASSUME NEW n \in Nat \ {0}, NEW v \in Int
  PROVE  \E q \in Int, r \in Int :
           q = v \div n /\ r = v % n /\ r \in 0 .. n - 1 /\ v = n * q + r
<1>1. v \div n \in Int /\ v % n \in Int /\ v % n \in 0 .. n - 1
  OBVIOUS
<1>2. v = n * (v \div n) + (v % n)
  OBVIOUS
<1> QED
  BY <1>1, <1>2

\* A multiple of the divisor adds to the quotient alone.
LEMMA AddMultiple ==
  ASSUME NEW n \in Nat \ {0}, NEW k \in Int, NEW v \in Int
  PROVE  (n * k + v) \div n = k + (v \div n) /\ (n * k + v) % n = v % n
<1>1. PICK q \in Int : q = v \div n
  BY Division
<1>2. PICK r \in 0 .. n - 1 : r = v % n
  BY Division
<1>3. v = n * q + r
  BY <1>1, <1>2, Division
<1>4. n * k + v = n * (k + q) + r
  BY <1>3
<1>5. PICK w \in Int : w = n * k + v
  OBVIOUS
<1>6. PICK t \in Int : t = k + q
  OBVIOUS
<1>7. w \div n = t /\ w % n = r
  BY ONLY <1>4, <1>5, <1>6, n \in Nat \ {0}, w \in Int, t \in Int, r \in 0 .. n - 1,
     DivisionUnique
<1> QED
  BY <1>1, <1>2, <1>5, <1>6, <1>7

\* Dividing twice.
LEMMA QuotientOfQuotient ==
  ASSUME NEW a \in Nat \ {0}, NEW b \in Nat \ {0}, NEW v \in Int
  PROVE  (v \div a) \div b = v \div (a * b)
<1>1. PICK q \in Int : q = v \div a
  BY Division
<1>2. PICK r \in 0 .. a - 1 : r = v % a
  BY Division
<1>3. PICK p \in Int : p = q \div b
  BY Division
<1>4. PICK s \in 0 .. b - 1 : s = q % b
  BY Division
<1>5. v = a * q + r /\ q = b * p + s
  BY <1>1, <1>2, <1>3, <1>4, Division
<1>6. PICK n \in Nat \ {0} : n = a * b
  <2>1. a * b \in Nat \ {0}
    OBVIOUS
  <2> QED
    BY <2>1
<1>7. PICK t \in Nat : t = a * s + r
  OBVIOUS
<1>8. v = n * p + t
  <2>1. a * (b * p + s) = (a * b) * p + a * s
    OBVIOUS
  <2> QED
    BY <1>5, <1>6, <1>7, <2>1
<1>9. t \in 0 .. n - 1
  <2>1. a * s <= a * (b - 1)
    OBVIOUS
  <2>2. a * (b - 1) = a * b - a
    OBVIOUS
  <2> QED
    BY <1>6, <1>7, <2>1, <2>2
<1>10. v \div n = p
  BY ONLY <1>8, <1>9, n \in Nat \ {0}, v \in Int, p \in Int, DivisionUnique
<1> QED
  BY <1>1, <1>3, <1>6, <1>10

\* Quotient and remainder.
LEMMA Remainder ==
  ASSUME NEW p \in Nat \ {0}, NEW x \in Int
  PROVE  \E c \in Int, m \in 0 .. p - 1 : x = p * c + m /\ m = x % p
<1>1. x = p * (x \div p) + (x % p) /\ x \div p \in Int /\ x % p \in 0 .. p - 1
  OBVIOUS
<1> QED
  BY <1>1

\* The remainder of the multiples is 0.
LEMMA Multiple ==
  ASSUME NEW p \in Nat \ {0}, NEW x \in Int
  PROVE  x % p = 0 <=> \E c \in Int : x = p * c
<1>1. x = p * (x \div p) + (x % p) /\ x \div p \in Int /\ x % p \in 0 .. p - 1
  OBVIOUS
<1>2. ASSUME NEW c \in Int, x = p * c
      PROVE  x % p = 0
  BY <1>2
<1>3. ASSUME x % p = 0
      PROVE  \E c \in Int : x = p * c
  <2>1. PICK c \in Int : c = x \div p
    BY <1>1
  <2>2. x = p * c
    BY <1>1, <1>3, <2>1
  <2> QED
    BY <2>2
<1> QED
  BY <1>2, <1>3

\* p has no divisor between 1 and itself.
IsPrime(p) == p \in Nat \ {0, 1} /\ \A d \in 2 .. p - 1 : p % d # 0

\* Two numbers below a prime have no multiple of it for product.
LEMMA NoZeroDivisors ==
  ASSUME NEW p, IsPrime(p), NEW d \in 1 .. p - 1, NEW k \in 1 .. p - 1
  PROVE  (k * d) % p # 0
<1> DEFINE T == {j \in Nat \ {0} : (j * d) % p = 0}
<1>0. p \in Nat \ {0, 1} /\ \A e \in 2 .. p - 1 : p % e # 0
  BY DEF IsPrime
<1>1. p \in T
  <2>1. (p * d) % p = 0
    BY <1>0
  <2> QED
    BY <1>0, <2>1
<1>2. PICK m \in T : \A j \in T : m <= j
  <2>1. T \in SUBSET Nat /\ T # {}
    BY <1>1
  <2> HIDE DEF T
  <2> QED
    BY <2>1, LeastNatural
<1>3. m \in 1 .. p
  BY <1>0, <1>1, <1>2
<1>4. PICK c \in Int : m * d = p * c
  BY <1>0, <1>2, Multiple
<1>5. PICK q \in Nat, r \in 0 .. m - 1 : p = m * q + r
  <2>1. p = m * (p \div m) + (p % m) /\ p \div m \in Nat /\ p % m \in 0 .. m - 1
    BY <1>0, <1>3
  <2> QED
    BY <2>1
<1>6. r = 0
  <2>1. r * d = p * d - q * (m * d)
    BY <1>0, <1>3, <1>5
  <2>2. q * (m * d) = p * (q * c)
    BY <1>0, <1>4, <1>5
  <2>3. r * d = p * (d - q * c) /\ d - q * c \in Int
    BY <1>0, <2>1, <2>2
  <2>4. (r * d) % p = 0
    <3>1. r * d \in Int
      BY <1>3
    <3> QED
      BY <1>0, <2>3, <3>1, Multiple
  <2>5. ASSUME r # 0 PROVE FALSE
    <3>1. r \in T /\ r < m
      BY <1>3, <2>4, <2>5
    <3> QED
      <4>1. m <= r
        BY <1>2, <3>1
      <4> HIDE DEF T
      <4> QED
        BY <1>3, <3>1, <4>1
  <2> QED
    BY <2>5
<1>7. m = 1 \/ m = p
  <2>1. p % m = 0
    BY <1>0, <1>3, <1>5, <1>6
  <2> QED
    <3>1. m \notin 2 .. p - 1
      BY <1>0, <2>1
    <3> HIDE DEF T
    <3> QED
      BY <1>0, <1>3, <3>1
<1>8. m # 1
  BY <1>0, <1>2
<1>9. k \notin T
  BY <1>0, <1>2, <1>7, <1>8
<1> QED
  BY <1>9

\* Every element of a prime field but 0 has an inverse.
LEMMA InverseExists ==
  ASSUME NEW p, IsPrime(p), NEW d \in 1 .. p - 1
  PROVE  \E z \in 0 .. p - 1 : (z * d + 1) % p = 0
<1> DEFINE F == 0 .. p - 1
           f == [z \in F |-> (z * d) % p]
<1>0. p \in Nat \ {0, 1}
  BY DEF IsPrime
<1>1. f \in [F -> F]
  BY <1>0
<1>2. ASSUME NEW x \in F, NEW y \in F, f[x] = f[y], x < y
      PROVE  FALSE
  <2>1. (x * d) % p = (y * d) % p
    BY <1>2
  <2>2. x * d = p * ((x * d) \div p) + ((x * d) % p) /\ (x * d) \div p \in Int
    BY <1>0
  <2>3. y * d = p * ((y * d) \div p) + ((y * d) % p) /\ (y * d) \div p \in Int
    BY <1>0
  <2>4. PICK a \in Int, b \in Int : x * d - p * a = y * d - p * b
    <3>1. PICK a \in Int : a = (x * d) \div p
      BY <2>2
    <3>2. PICK b \in Int : b = (y * d) \div p
      BY <2>3
    <3>3. x * d = p * a + ((x * d) % p) /\ y * d = p * b + ((x * d) % p)
      BY <2>1, <2>2, <2>3, <3>1, <3>2
    <3>4. (x * d) % p \in Int
      BY <1>0
    <3>5. x * d - p * a = y * d - p * b
      BY <1>0, <3>3, <3>4
    <3> QED
      BY <3>5
  <2>5. (y - x) * d = p * (b - a) /\ y - x \in 1 .. p - 1 /\ b - a \in Int /\ (y - x) * d \in Int
    BY <1>0, <1>2, <2>4
  <2>6. ((y - x) * d) % p = 0
    BY <1>0, <2>5, Multiple
  <2> QED
    BY <2>5, <2>6, NoZeroDivisors
<1>3. f \in Injection(F, F)
  <2>1. \A x, y \in F : f[x] = f[y] => ~(x < y) /\ ~(y < x)
    BY <1>2
  <2>2. \A x, y \in F : f[x] = f[y] => x = y
    BY <1>0, <2>1
  <2> HIDE DEF f, F
  <2> QED
    BY <1>1, <2>2 DEF Injection, IsInjective
<1>4. IsFiniteSet(F)
  BY <1>0, FS_Interval
<1>5. f \in Surjection(F, F)
  <2> HIDE DEF f, F
  <2> QED
    BY <1>3, <1>4, FS_Injection
<1>6. p - 1 \in F
  BY <1>0
<1>7. PICK z \in F : f[z] = p - 1
  <2> HIDE DEF f, F
  <2> QED
    BY <1>5, <1>6 DEF Surjection
<1>8. (z * d) % p = p - 1
  BY <1>7
<1>9. z * d = p * ((z * d) \div p) + ((z * d) % p) /\ (z * d) \div p \in Int
  BY <1>0
<1>10. PICK c \in Int : z * d + 1 = p * (c + 1)
  BY <1>0, <1>8, <1>9
<1>11. z * d + 1 \in Int /\ c + 1 \in Int
  BY <1>0
<1> QED
  BY <1>0, <1>10, <1>11, Multiple

(***************************************************************************)
(* Ranks: a finite strict order numbers its elements.                      *)
(***************************************************************************)
\* One more than the number of those before k in R.
RankIn(R, n) == [k \in 1 .. n |-> 1 + Cardinality({j \in 1 .. n : <<j, k>> \in R})]

\* R is a strict total order on 1 .. n.
StrictlyOrders(R, n) ==
  /\ \A i \in 1 .. n : <<i, i>> \notin R
  /\ \A i, j \in 1 .. n : i # j => <<i, j>> \in R \/ <<j, i>> \in R
  /\ \A i, j, k \in 1 .. n : <<i, j>> \in R /\ <<j, k>> \in R => <<i, k>> \in R

\* The ranks of a strict total order number its elements in that order.
LEMMA Ranks ==
  ASSUME NEW n \in Nat, NEW R, StrictlyOrders(R, n)
  PROVE  /\ RankIn(R, n) \in [1 .. n -> 1 .. n]
         /\ \A i, j \in 1 .. n : <<i, j>> \in R <=> RankIn(R, n)[i] < RankIn(R, n)[j]
         /\ \A m \in 1 .. n : \E k \in 1 .. n : RankIn(R, n)[k] = m
<1>r. PICK rank : rank = RankIn(R, n)
  OBVIOUS
<1> DEFINE D == 1 .. n
           Under(k) == {j \in D : <<j, k>> \in R}
<1>0. /\ \A i \in 1 .. n : <<i, i>> \notin R
      /\ \A i, j \in 1 .. n : i # j => <<i, j>> \in R \/ <<j, i>> \in R
      /\ \A i, j, k \in 1 .. n : <<i, j>> \in R /\ <<j, k>> \in R => <<i, k>> \in R
      /\ rank = [k \in 1 .. n |-> 1 + Cardinality({j \in 1 .. n : <<j, k>> \in R})]
  BY <1>r DEF StrictlyOrders, RankIn
<1> USE <1>0
<1>1. IsFiniteSet(D) /\ Cardinality(D) = n
  BY FS_Interval
<1>2. ASSUME NEW k \in D
      PROVE  /\ IsFiniteSet(Under(k)) /\ Cardinality(Under(k)) \in 0 .. n - 1
             /\ rank[k] = 1 + Cardinality(Under(k))
  <2>1. /\ IsFiniteSet(Under(k)) /\ Cardinality(Under(k)) \in Nat
        /\ Cardinality(Under(k)) <= n
    <3>1. Under(k) \in SUBSET D
      OBVIOUS
    <3> HIDE DEF D, Under
    <3> QED
      BY <1>1, <3>1, FS_Subset, FS_CardinalityType
  <2>2. Cardinality(Under(k)) # n
    <3>1. Under(k) # D
      OBVIOUS
    <3>2. Under(k) \in SUBSET D
      OBVIOUS
    <3> HIDE DEF D, Under
    <3> QED
      BY <1>1, <3>1, <3>2, FS_Subset
  <2>3. rank[k] = 1 + Cardinality(Under(k))
    BY <1>0
  <2> HIDE DEF Under
  <2> QED
    BY <2>1, <2>2, <2>3
<1>3. rank \in [D -> D]
  <2>1. \A k \in D : rank[k] \in D
    <3> HIDE DEF Under
    <3> QED
      BY <1>2
  <2> QED
    BY <1>0, <2>1
<1>4. ASSUME NEW i \in D, NEW j \in D, <<i, j>> \in R
      PROVE  rank[i] < rank[j]
  <2>1. Under(i) \subseteq Under(j) /\ i \in Under(j) /\ i \notin Under(i)
    BY <1>4
  <2>2. Cardinality(Under(i)) <= Cardinality(Under(j)) /\ Cardinality(Under(i)) # Cardinality(Under(j))
    <3> HIDE DEF Under
    <3> QED
      BY <1>2, <2>1, FS_Subset
  <2> HIDE DEF Under
  <2>3. Cardinality(Under(i)) \in 0 .. n - 1 /\ rank[i] = 1 + Cardinality(Under(i))
    BY <1>2
  <2>4. Cardinality(Under(j)) \in 0 .. n - 1 /\ rank[j] = 1 + Cardinality(Under(j))
    BY <1>2
  <2> QED
    BY <2>2, <2>3, <2>4
<1>5. ASSUME NEW i \in D, NEW j \in D
      PROVE  <<i, j>> \in R <=> rank[i] < rank[j]
  <2>1. rank[i] \in D /\ rank[j] \in D
    BY <1>3
  <2>2. CASE i = j
    BY <2>1, <2>2
  <2>3. CASE i # j
    <3>1. <<i, j>> \in R \/ <<j, i>> \in R
      BY <2>3
    <3>2. <<j, i>> \in R => rank[j] < rank[i]
      BY <1>4
    <3> QED
      BY <1>4, <2>1, <3>1, <3>2
  <2> QED
    BY <2>2, <2>3
<1>6. rank \in Injection(D, D)
  <2>1. \A i, j \in D : rank[i] = rank[j] => i = j
    BY <1>3, <1>5
  <2>2. DOMAIN rank = D
    BY <1>0
  <2> HIDE DEF D
  <2> QED
    BY <1>3, <2>1, <2>2 DEF Injection, IsInjective
<1>7. rank \in Surjection(D, D)
  <2> HIDE DEF D
  <2> QED
    BY <1>1, <1>6, FS_Injection
<1>8. \A m \in D : \E k \in D : rank[k] = m
  <2> HIDE <1>0 DEF D
  <2> QED
    BY <1>7 DEF Surjection
<1> QED
  BY <1>r, <1>3, <1>5, <1>8, Zenon

(***************************************************************************)
(* Bags.                                                                   *)
(***************************************************************************)
\* Sequences that are permutations of one another have the same bag.
LEMMA SameBag ==
  ASSUME NEW s, NEW t, NEW p \in Bijection(DOMAIN s, DOMAIN t), IsFiniteSet(DOMAIN s),
         \A i \in DOMAIN s : t[p[i]] = s[i]
  PROVE  ToBag(s) = ToBag(t)
<1> DEFINE At(f, x) == {i \in DOMAIN f : f[i] = x}
<1>0. /\ p \in [DOMAIN s -> DOMAIN t]
      /\ \A i, j \in DOMAIN s : p[i] = p[j] => i = j
      /\ \A j \in DOMAIN t : \E i \in DOMAIN s : p[i] = j
  BY DEF Bijection, Injection, Surjection, IsInjective
<1>1. Range(s) = Range(t)
  BY <1>0 DEF Range
<1>2. ASSUME NEW x
      PROVE  Cardinality(At(s, x)) = Cardinality(At(t, x))
  <2> DEFINE q == [i \in At(s, x) |-> p[i]]
  <2>1. q \in [At(s, x) -> At(t, x)]
    BY <1>0
  <2>2. \A i, j \in At(s, x) : q[i] = q[j] => i = j
    BY <1>0
  <2>3. \A j \in At(t, x) : \E i \in At(s, x) : q[i] = j
    BY <1>0
  <2>4. IsFiniteSet(At(s, x))
    BY FS_Subset
  <2> HIDE DEF q, At
  <2>5. q \in Bijection(At(s, x), At(t, x))
    BY <2>1, <2>2, <2>3 DEF Bijection, Injection, Surjection, IsInjective
  <2> QED
    BY <2>4, <2>5, FS_Bijection DEF ExistsBijection
<1> QED
  BY <1>1, <1>2 DEF ToBag

(***************************************************************************)
(* Rearrangements: two sequences with a bijection between their positions  *)
(* that keeps the elements.                                                *)
(***************************************************************************)
Listed(seq) == \E n \in Nat : DOMAIN seq = 1 .. n /\ seq = [k \in 1 .. n |-> seq[k]]

Nested(ss) == Listed(ss) /\ \A j \in DOMAIN ss : Listed(ss[j])

\* Where the elements of the sequences in ss are.
PlacesIn(ss) == UNION {{<<j, k>> : k \in DOMAIN ss[j]} : j \in DOMAIN ss}

\* Position k of sequence j is position p[<<j, k>>] of seq.
PlacedBy(p, ss, seq) ==
  /\ p \in Bijection(PlacesIn(ss), DOMAIN seq)
  /\ \A j \in DOMAIN ss : \A k \in DOMAIN ss[j] : seq[p[<<j, k>>]] = ss[j][k]

Rearranges(p, a, b) ==
  /\ Listed(a) /\ Listed(b)
  /\ p \in Bijection(DOMAIN a, DOMAIN b) /\ \A i \in DOMAIN a : b[p[i]] = a[i]

Rearranged(a, b) == \E p : Rearranges(p, a, b)

\* What a bijection is.
LEMMA BijectionIs ==
  ASSUME NEW p, NEW I, NEW J
  PROVE  p \in Bijection(I, J) <=>
           /\ p \in [I -> J]
           /\ \A i, j \in I : p[i] = p[j] => i = j
           /\ \A j \in J : \E i \in I : p[i] = j
  BY DEF Bijection, Injection, Surjection, IsInjective

\* The elements of a list and its length.
LEMMA ListedIs ==
  ASSUME NEW seq
  PROVE  Listed(seq) <=> \E S : seq \in Seq(S)
<1>1. ASSUME Listed(seq)
      PROVE  \E S : seq \in Seq(S)
  <2>1. PICK n \in Nat : DOMAIN seq = 1 .. n /\ seq = [k \in 1 .. n |-> seq[k]]
    BY <1>1 DEF Listed
  <2>2. seq \in Seq({seq[k] : k \in 1 .. n})
    BY <2>1
  <2> QED
    BY <2>2
<1>2. ASSUME NEW S, seq \in Seq(S)
      PROVE  Listed(seq)
  <2>1. DOMAIN seq = 1 .. Len(seq) /\ seq = [k \in 1 .. Len(seq) |-> seq[k]] /\ Len(seq) \in Nat
    BY <1>2
  <2> QED
    BY <2>1 DEF Listed
<1> QED
  BY <1>1, <1>2

\* The sequences of a nested list are over one set.
LEMMA NestedIs ==
  ASSUME NEW ss, Nested(ss)
  PROVE  \E S : ss \in Seq(Seq(S))
<1>1. PICK n \in Nat : DOMAIN ss = 1 .. n /\ ss = [k \in 1 .. n |-> ss[k]]
  BY DEF Nested, Listed
<1>2. PICK S : S = UNION {{ss[j][k] : k \in DOMAIN ss[j]} : j \in 1 .. n}
  OBVIOUS
<1>3. ASSUME NEW j \in 1 .. n
      PROVE  ss[j] \in Seq(S)
  <2>1. PICK t : t = ss[j]
    OBVIOUS
  <2>2. PICK m \in Nat : DOMAIN t = 1 .. m /\ t = [k \in 1 .. m |-> t[k]]
    BY <1>1, <2>1 DEF Nested, Listed
  <2>3. ASSUME NEW k \in DOMAIN t
        PROVE  t[k] \in S
    <3>1. t[k] \in {ss[j][i] : i \in DOMAIN ss[j]}
      BY <2>1, Zenon
    <3>2. {ss[j][i] : i \in DOMAIN ss[j]} \in {{ss[l][i] : i \in DOMAIN ss[l]} : l \in 1 .. n}
      BY Zenon
    <3> QED
      BY <1>2, <3>1, <3>2, Zenon
  <2>4. t \in Seq(S)
    BY <2>2, <2>3
  <2> QED
    BY <2>1, <2>4
<1>4. PICK T : T = Seq(S)
  OBVIOUS
<1>5. ss \in Seq(T)
  BY <1>1, <1>3, <1>4
<1> QED
  BY <1>4, <1>5

\* Flattening gives every element of every sequence a position of its own.
LEMMA FlattenPlaces ==
  ASSUME NEW ss, Nested(ss)
  PROVE  Listed(FlattenSeq(ss)) /\ \E p : PlacedBy(p, ss, FlattenSeq(ss))
<1> DEFINE s(m) == FlattenSeq(Prefix(ss, m))
<1>1. PICK n \in Nat : DOMAIN ss = 1 .. n
  BY DEF Nested, Listed
<1>2. PICK S : ss \in Seq(Seq(S)) /\ Len(ss) = n
  BY <1>1, NestedIs
<1>3. /\ s(0) = <<>> /\ s(n) = FlattenSeq(ss)
      /\ \A k \in 0 .. n : s(k) \in Seq(S)
      /\ \A k \in 0 .. n - 1 : s(k + 1) = s(k) \o ss[k + 1]
  <2>1. /\ FlattenSeq(Prefix(ss, 0)) = <<>>
        /\ FlattenSeq(Prefix(ss, Len(ss))) = FlattenSeq(ss)
        /\ \A k \in 0 .. Len(ss) : FlattenSeq(Prefix(ss, k)) \in Seq(S)
        /\ \A k \in 0 .. Len(ss) - 1 :
             FlattenSeq(Prefix(ss, k + 1)) = FlattenSeq(Prefix(ss, k)) \o ss[k + 1]
    BY ONLY <1>2, FlattenPrefix
  <2> QED
    BY ONLY <1>2, <2>1
<1> HIDE DEF s
<1>4. PICK L : L = [k \in 0 .. n |-> Len(s(k))]
  OBVIOUS
<1>5. L \in [0 .. n -> Nat] /\ L[0] = 0
  BY <1>3, <1>4
<1>6. \A j \in 1 .. n : ss[j] \in Seq(S) /\ DOMAIN ss[j] = 1 .. Len(ss[j]) /\ Len(ss[j]) \in Nat
  BY <1>1, <1>2
<1>7. ASSUME NEW k \in 0 .. n - 1
      PROVE  /\ k + 1 \in 1 .. n /\ L[k + 1] = L[k] + Len(ss[k + 1])
             /\ \A x \in 1 .. L[k] : s(k + 1)[x] = s(k)[x]
             /\ \A x \in 1 .. Len(ss[k + 1]) : s(k + 1)[L[k] + x] = ss[k + 1][x]
  <2>1. k \in 0 .. n /\ k + 1 \in 0 .. n /\ k + 1 \in 1 .. n
    OBVIOUS
  <2>2. PICK a : a = s(k)
    OBVIOUS
  <2>3. PICK b : b = ss[k + 1]
    OBVIOUS
  <2>4. a \in Seq(S) /\ b \in Seq(S) /\ s(k + 1) = a \o b
    BY <1>3, <1>6, <2>1, <2>2, <2>3
  <2>5. L[k] = Len(a) /\ L[k + 1] = Len(a \o b)
    BY <1>4, <2>1, <2>2, <2>4
  <2>6. Len(a \o b) = Len(a) + Len(b)
    BY <2>4
  <2>7. \A x \in 1 .. Len(a) : (a \o b)[x] = a[x]
    BY <2>4
  <2>8. ASSUME NEW x \in 1 .. Len(b)
        PROVE  (a \o b)[Len(a) + x] = b[x]
    BY <2>4
  <2> QED
    BY <2>1, <2>2, <2>3, <2>4, <2>5, <2>6, <2>7, <2>8
<1> DEFINE At(j, k) == L[j - 1] + k
           K == {m \in 0 .. n :
                   /\ \A j \in 1 .. m : \A k \in DOMAIN ss[j] :
                        At(j, k) \in 1 .. L[m] /\ s(m)[At(j, k)] = ss[j][k]
                   /\ \A x \in 1 .. L[m] : \E j \in 1 .. m : \E k \in DOMAIN ss[j] : x = At(j, k)
                   /\ \A i \in 1 .. m : \A j \in 1 .. m : \A h \in DOMAIN ss[i] : \A k \in DOMAIN ss[j] :
                        At(i, h) = At(j, k) => i = j /\ h = k}
<1>8. 0 \in K
  BY <1>5
<1>9. ASSUME NEW m \in 0 .. n - 1, m \in K
      PROVE  m + 1 \in K
  <2>1. m + 1 \in 0 .. n /\ m + 1 \in 1 .. n /\ L[m] \in Nat
    BY <1>5
  <2>2. PICK b : b = ss[m + 1]
    OBVIOUS
  <2>3. /\ L[m + 1] = L[m] + Len(b) /\ Len(b) \in Nat /\ DOMAIN b = 1 .. Len(b)
        /\ \A x \in 1 .. L[m] : s(m + 1)[x] = s(m)[x]
        /\ \A x \in 1 .. Len(b) : s(m + 1)[L[m] + x] = b[x]
    BY <1>6, <1>7, <2>1, <2>2
  <2>4. \A k : At(m + 1, k) = L[m] + k
    OBVIOUS
  <2>5. \A j \in 1 .. m : \A k \in DOMAIN ss[j] :
          At(j, k) \in 1 .. L[m] /\ s(m)[At(j, k)] = ss[j][k]
    BY <1>9
  <2>6. \A x \in 1 .. L[m] : \E j \in 1 .. m : \E k \in DOMAIN ss[j] : x = At(j, k)
    BY <1>9
  <2>7. \A i \in 1 .. m : \A j \in 1 .. m : \A h \in DOMAIN ss[i] : \A k \in DOMAIN ss[j] :
          At(i, h) = At(j, k) => i = j /\ h = k
    BY <1>9
  <2>8. \A j \in 1 .. m + 1 : j = m + 1 \/ j \in 1 .. m
    OBVIOUS
  <2>9. ASSUME NEW k \in DOMAIN b
        PROVE  /\ At(m + 1, k) \in 1 .. L[m + 1] /\ s(m + 1)[At(m + 1, k)] = b[k]
               /\ At(m + 1, k) \notin 1 .. L[m]
    <3>1. PICK l \in Nat : l = L[m]
      BY <2>1
    <3>2. k \in 1 .. Len(b) /\ At(m + 1, k) = l + k
      BY <2>3, <2>4, <3>1
    <3>3. l + k \in 1 .. l + Len(b) /\ l + k \notin 1 .. l
      BY <2>3, <3>2
    <3>4. s(m + 1)[l + k] = b[k]
      BY <2>3, <3>1, <3>2
    <3> HIDE DEF At
    <3> QED
      BY <2>3, <3>1, <3>2, <3>3, <3>4
  <2>10. 1 .. L[m] \subseteq 1 .. L[m + 1]
    BY <2>1, <2>3
  <2> HIDE DEF At
  <2>11. ASSUME NEW j \in 1 .. m + 1, NEW k \in DOMAIN ss[j]
         PROVE  At(j, k) \in 1 .. L[m + 1] /\ s(m + 1)[At(j, k)] = ss[j][k]
    BY <2>2, <2>3, <2>5, <2>8, <2>9, <2>10
  <2>12. ASSUME NEW x \in 1 .. L[m + 1]
         PROVE  \E j \in 1 .. m + 1 : \E k \in DOMAIN ss[j] : x = At(j, k)
    <3>1. CASE x \in 1 .. L[m]
      <4>1. PICK j \in 1 .. m : \E k \in DOMAIN ss[j] : x = At(j, k)
        BY <2>6, <3>1
      <4>2. j \in 1 .. m + 1
        BY <2>1
      <4> QED
        BY <4>1, <4>2
    <3>2. CASE x \notin 1 .. L[m]
      <4>1. PICK k \in 1 .. Len(b) : x = L[m] + k
        <5>1. PICK l \in Nat : l = L[m]
          BY <2>1
        <5>2. PICK c \in Nat : c = Len(b)
          <6>1. Len(b) \in Nat
            BY <2>3
          <6> QED
            BY ONLY <6>1
        <5>3. L[m + 1] = l + c
          BY <2>3, <5>1, <5>2
        <5>4. x \in 1 .. l + c /\ x \notin 1 .. l
          BY <3>2, <5>1, <5>3
        <5>5. \E k \in 1 .. c : x = l + k
          <6>1. x - l \in 1 .. c /\ x = l + (x - l)
            BY <5>4
          <6> QED
            BY <6>1
        <5> QED
          BY <5>1, <5>2, <5>5
      <4>2. x = At(m + 1, k) /\ k \in DOMAIN ss[m + 1] /\ m + 1 \in 1 .. m + 1
        BY <2>2, <2>3, <2>4, <4>1
      <4> QED
        BY <4>2
    <3> QED
      BY <3>1, <3>2
  <2>13. ASSUME NEW i \in 1 .. m + 1, NEW j \in 1 .. m + 1,
                NEW h \in DOMAIN ss[i], NEW k \in DOMAIN ss[j], At(i, h) = At(j, k)
         PROVE  i = j /\ h = k
    <3>1. CASE i \in 1 .. m /\ j \in 1 .. m
      BY <2>7, <2>13, <3>1
    <3>2. CASE i = m + 1 /\ j = m + 1
      <4>1. h \in 1 .. Len(b) /\ k \in 1 .. Len(b)
        BY <2>2, <2>3, <3>2
      <4>2. PICK l \in Nat : l = L[m]
        BY <2>1
      <4>3. h \in Int /\ k \in Int /\ l + h = l + k
        BY <2>3, <2>4, <2>13, <3>2, <4>1, <4>2
      <4> QED
        BY <3>2, <4>3
    <3>3. CASE i = m + 1 /\ j \in 1 .. m
      BY <2>2, <2>5, <2>9, <2>13, <3>3
    <3>4. CASE j = m + 1 /\ i \in 1 .. m
      BY <2>2, <2>5, <2>9, <2>13, <3>4
    <3> QED
      BY <2>8, <3>1, <3>2, <3>3, <3>4
  <2> QED
    BY <2>1, <2>11, <2>12, <2>13
<1>10. n \in K
  <2> HIDE DEF K
  <2>1. 0 .. n \subseteq K
    BY <1>8, <1>9, InductionTo
  <2> QED
    BY <2>1
<1>11. s(n) = FlattenSeq(ss) /\ s(n) \in Seq(S) /\ L[n] = Len(s(n))
  BY <1>3, <1>4
<1>12. DOMAIN s(n) = 1 .. L[n]
  BY <1>11
<1> DEFINE p == [x \in PlacesIn(ss) |-> At(x[1], x[2])]
<1>13. \A j \in 1 .. n : \A k \in DOMAIN ss[j] : <<j, k>> \in PlacesIn(ss) /\ p[<<j, k>>] = At(j, k)
  BY <1>1 DEF PlacesIn
<1>14. ASSUME NEW x \in PlacesIn(ss)
       PROVE  \E j \in 1 .. n : \E k \in DOMAIN ss[j] : x = <<j, k>>
  BY <1>1 DEF PlacesIn
<1>15. /\ \A j \in 1 .. n : \A k \in DOMAIN ss[j] : At(j, k) \in 1 .. L[n] /\ s(n)[At(j, k)] = ss[j][k]
       /\ \A x \in 1 .. L[n] : \E j \in 1 .. n : \E k \in DOMAIN ss[j] : x = At(j, k)
       /\ \A i \in 1 .. n : \A j \in 1 .. n : \A h \in DOMAIN ss[i] : \A k \in DOMAIN ss[j] :
            At(i, h) = At(j, k) => i = j /\ h = k
  BY <1>10
<1> HIDE DEF At
<1>16. p \in [PlacesIn(ss) -> 1 .. L[n]]
  BY <1>13, <1>14, <1>15
<1>17. p = [x \in PlacesIn(ss) |-> p[x]]
  OBVIOUS
<1> HIDE DEF p
<1>18. ASSUME NEW x \in PlacesIn(ss), NEW y \in PlacesIn(ss), p[x] = p[y]
       PROVE  x = y
  <2>1. PICK i \in 1 .. n : \E h \in DOMAIN ss[i] : x = <<i, h>>
    BY <1>14
  <2>2. PICK h \in DOMAIN ss[i] : x = <<i, h>>
    BY <2>1
  <2>3. PICK j \in 1 .. n : \E k \in DOMAIN ss[j] : y = <<j, k>>
    BY <1>14
  <2>4. PICK k \in DOMAIN ss[j] : y = <<j, k>>
    BY <2>3
  <2>5. At(i, h) = At(j, k)
    BY <1>13, <1>18, <2>2, <2>4
  <2> QED
    BY <1>15, <2>2, <2>4, <2>5
<1>19. ASSUME NEW x \in 1 .. L[n]
       PROVE  \E y \in PlacesIn(ss) : p[y] = x
  <2>1. PICK j \in 1 .. n : \E k \in DOMAIN ss[j] : x = At(j, k)
    BY <1>15
  <2>2. PICK k \in DOMAIN ss[j] : x = At(j, k)
    BY <2>1
  <2> QED
    BY <1>13, <2>2
<1>20. p \in Bijection(PlacesIn(ss), 1 .. L[n])
  <2>1. PICK I : I = PlacesIn(ss)
    OBVIOUS
  <2>2. PICK J : J = 1 .. L[n]
    OBVIOUS
  <2>3. \A x, y \in I : p[x] = p[y] => x = y
    BY <1>18, <2>1
  <2>4. \A x \in J : \E y \in I : p[y] = x
    BY <1>19, <2>1, <2>2
  <2>5. p \in [I -> J]
    BY <1>16, <2>1, <2>2
  <2>6. p \in Bijection(I, J)
    BY ONLY <2>3, <2>4, <2>5, BijectionIs
  <2> QED
    BY <2>1, <2>2, <2>6
<1>21. PlacedBy(p, ss, s(n))
  BY <1>1, <1>12, <1>13, <1>15, <1>20 DEF PlacedBy
<1>22. Listed(s(n))
  BY <1>11, ListedIs
<1> QED
  BY <1>11, <1>21, <1>22

\* Two sequences whose elements have common names are rearrangements.
NamedBy(p, q, I, a, b) ==
  /\ Listed(a) /\ Listed(b) /\ p \in Bijection(I, DOMAIN a) /\ q \in Bijection(I, DOMAIN b)
  /\ \A i \in I : a[p[i]] = b[q[i]]

LEMMA NamedRearranged ==
  ASSUME NEW p, NEW q, NEW I, NEW a, NEW b, NamedBy(p, q, I, a, b)
  PROVE  Rearranged(a, b)
<1>1. PICK J : J = DOMAIN a
  OBVIOUS
<1>2. PICK K : K = DOMAIN b
  OBVIOUS
<1>3. /\ p \in [I -> J] /\ \A i, j \in I : p[i] = p[j] => i = j
      /\ \A j \in J : \E i \in I : p[i] = j
  BY <1>1, BijectionIs DEF NamedBy
<1>4. /\ q \in [I -> K] /\ \A i, j \in I : q[i] = q[j] => i = j
      /\ \A j \in K : \E i \in I : q[i] = j
  BY <1>2, BijectionIs DEF NamedBy
<1> DEFINE back(x) == CHOOSE i \in I : p[i] = x
           r == [x \in J |-> q[back(x)]]
<1>5. \A x \in J : back(x) \in I /\ p[back(x)] = x
  BY <1>3
<1>6. \A i \in I : p[i] \in J /\ back(p[i]) = i
  BY <1>3, <1>5
<1> HIDE DEF back
<1>7. r \in [J -> K] /\ \A x \in J : r[x] = q[back(x)]
  BY <1>4, <1>5
<1> HIDE DEF r
<1>8. \A x, y \in J : r[x] = r[y] => x = y
  BY <1>4, <1>5, <1>7
<1>9. ASSUME NEW y \in K
      PROVE  \E x \in J : r[x] = y
  <2>1. PICK i \in I : q[i] = y
    BY <1>4
  <2>2. p[i] \in J /\ r[p[i]] = y
    BY <1>6, <1>7, <2>1
  <2> QED
    BY <2>2
<1>10. \A x \in K : \E y \in J : r[y] = x
  BY <1>9
<1>11. r \in Bijection(J, K)
  BY <1>7, <1>8, <1>10, BijectionIs
<1>12. \A x \in J : b[r[x]] = a[x]
  <2>1. \A i \in I : a[p[i]] = b[q[i]]
    BY DEF NamedBy
  <2> QED
    BY <1>5, <1>7, <2>1
<1>13. Rearranges(r, a, b)
  BY <1>1, <1>2, <1>11, <1>12 DEF Rearranges, NamedBy
<1> QED
  BY <1>13 DEF Rearranged

\* Being a rearrangement is an equivalence.
LEMMA RearrangedEquivalence ==
  /\ \A a : Listed(a) => Rearranged(a, a)
  /\ \A a, b, c : Rearranged(a, b) /\ Rearranged(b, c) => Rearranged(a, c)
<1>1. ASSUME NEW a, Listed(a)
      PROVE  Rearranged(a, a)
  <2>1. PICK I : I = DOMAIN a
    OBVIOUS
  <2>2. PICK p : p = [i \in I |-> i]
    OBVIOUS
  <2>3. p \in [I -> I] /\ \A i \in I : p[i] = i
    BY <2>2
  <2>4. p \in Bijection(I, I)
    BY <2>3, BijectionIs
  <2>5. Rearranges(p, a, a)
    BY <1>1, <2>1, <2>3, <2>4 DEF Rearranges
  <2> QED
    BY <2>5 DEF Rearranged
<1>2. ASSUME NEW a, NEW b, NEW c, Rearranged(a, b), Rearranged(b, c)
      PROVE  Rearranged(a, c)
  <2>1. PICK p : Rearranges(p, a, b)
    BY <1>2 DEF Rearranged
  <2>2. PICK q : Rearranges(q, b, c)
    BY <1>2 DEF Rearranged
  <2>3. PICK I : I = DOMAIN a
    OBVIOUS
  <2>4. PICK J : J = DOMAIN b
    OBVIOUS
  <2>5. PICK K : K = DOMAIN c
    OBVIOUS
  <2>6. p \in Bijection(I, J) /\ q \in Bijection(J, K)
    BY <2>1, <2>2, <2>3, <2>4, <2>5 DEF Rearranges
  <2>7. /\ p \in [I -> J] /\ \A i, j \in I : p[i] = p[j] => i = j
        /\ \A j \in J : \E i \in I : p[i] = j
    BY <2>6, BijectionIs
  <2>8. /\ q \in [J -> K] /\ \A i, j \in J : q[i] = q[j] => i = j
        /\ \A j \in K : \E i \in J : q[i] = j
    BY <2>6, BijectionIs
  <2> DEFINE r == [i \in I |-> q[p[i]]]
  <2>10. r \in [I -> K] /\ \A i \in I : r[i] = q[p[i]]
    BY <2>7, <2>8
  <2> HIDE DEF r
  <2>11. \A i, j \in I : r[i] = r[j] => i = j
    BY <2>7, <2>8, <2>10
  <2>12. \A k \in K : \E i \in I : r[i] = k
    <3> SUFFICES ASSUME NEW k \in K
                 PROVE  \E i \in I : r[i] = k
      OBVIOUS
    <3>1. PICK j \in J : q[j] = k
      BY <2>8
    <3>2. PICK i \in I : p[i] = j
      BY <2>7
    <3> QED
      BY <2>10, <3>1, <3>2
  <2>13. r \in Bijection(I, K)
    BY <2>10, <2>11, <2>12, BijectionIs
  <2>14. \A i \in I : c[r[i]] = a[i]
    <3>1. (\A i \in I : b[p[i]] = a[i]) /\ (\A j \in J : c[q[j]] = b[j])
      BY <2>1, <2>2, <2>3, <2>4 DEF Rearranges
    <3> QED
      BY <2>7, <2>10, <3>1
  <2>15. Rearranges(r, a, c)
    BY <2>1, <2>2, <2>3, <2>5, <2>13, <2>14 DEF Rearranges
  <2> QED
    BY <2>15 DEF Rearranged
<1> QED
  BY <1>1, <1>2

\* Blocks of ss and tt match: those in A with those in B, and the others are empty.
BlocksMatch(h, A, B, ss, tt) ==
  /\ Nested(ss) /\ Nested(tt) /\ A \subseteq DOMAIN ss /\ B \subseteq DOMAIN tt
  /\ h \in Bijection(A, B) /\ \A j \in A : Rearranged(ss[j], tt[h[j]])
  /\ (\A j \in DOMAIN ss \ A : DOMAIN ss[j] = {}) /\ (\A j \in DOMAIN tt \ B : DOMAIN tt[j] = {})

\* Rearranged blocks in another order make a rearrangement.
LEMMA BlocksRearranged ==
  ASSUME NEW h, NEW A, NEW B, NEW ss, NEW tt, BlocksMatch(h, A, B, ss, tt)
  PROVE  Rearranged(FlattenSeq(ss), FlattenSeq(tt))
<1>1. Nested(ss) /\ Nested(tt) /\ A \subseteq DOMAIN ss /\ B \subseteq DOMAIN tt
  BY DEF BlocksMatch
<1>2. /\ h \in [A -> B] /\ \A i, j \in A : h[i] = h[j] => i = j
      /\ \A j \in B : \E i \in A : h[i] = j
  <2>1. h \in Bijection(A, B)
    BY DEF BlocksMatch
  <2> QED
    BY <2>1, BijectionIs
<1>3. PICK a : a = FlattenSeq(ss)
  OBVIOUS
<1>4. PICK b : b = FlattenSeq(tt)
  OBVIOUS
<1>5. PICK p : Listed(a) /\ PlacedBy(p, ss, a)
  BY <1>1, <1>3, FlattenPlaces
<1>6. PICK q : Listed(b) /\ PlacedBy(q, tt, b)
  BY <1>1, <1>4, FlattenPlaces
<1> DEFINE R(j) == CHOOSE r : Rearranges(r, ss[j], tt[h[j]])
<1>7. ASSUME NEW j \in A
      PROVE  Rearranges(R(j), ss[j], tt[h[j]])
  <2>1. Rearranged(ss[j], tt[h[j]])
    BY DEF BlocksMatch
  <2> QED
    BY <2>1 DEF Rearranged
<1> HIDE DEF R
<1>8. ASSUME NEW j \in A
      PROVE  /\ h[j] \in B /\ h[j] \in DOMAIN tt
             /\ \A k \in DOMAIN ss[j] : R(j)[k] \in DOMAIN tt[h[j]] /\ tt[h[j]][R(j)[k]] = ss[j][k]
             /\ \A k, l \in DOMAIN ss[j] : R(j)[k] = R(j)[l] => k = l
             /\ \A l \in DOMAIN tt[h[j]] : \E k \in DOMAIN ss[j] : R(j)[k] = l
  <2>1. PICK I : I = DOMAIN ss[j]
    OBVIOUS
  <2>2. PICK J : J = DOMAIN tt[h[j]]
    OBVIOUS
  <2>3. PICK r : r = R(j)
    OBVIOUS
  <2>4. r \in Bijection(I, J) /\ \A k \in I : tt[h[j]][r[k]] = ss[j][k]
    BY <1>7, <2>1, <2>2, <2>3 DEF Rearranges
  <2>5. /\ r \in [I -> J] /\ (\A k, l \in I : r[k] = r[l] => k = l)
        /\ \A l \in J : \E k \in I : r[k] = l
    BY <2>4, BijectionIs
  <2>6. h[j] \in B /\ h[j] \in DOMAIN tt
    BY <1>1, <1>2
  <2> QED
    BY <2>1, <2>2, <2>3, <2>4, <2>5, <2>6
<1>9. ASSUME NEW x \in PlacesIn(ss)
      PROVE  \E j \in A : \E k \in DOMAIN ss[j] : x = <<j, k>>
  <2>1. PICK j \in DOMAIN ss : \E k \in DOMAIN ss[j] : x = <<j, k>>
    BY DEF PlacesIn
  <2>2. j \in A
    BY <2>1 DEF BlocksMatch
  <2> QED
    BY <2>1, <2>2
<1>10. ASSUME NEW x \in PlacesIn(tt)
       PROVE  \E j \in B : \E k \in DOMAIN tt[j] : x = <<j, k>>
  <2>1. PICK j \in DOMAIN tt : \E k \in DOMAIN tt[j] : x = <<j, k>>
    BY DEF PlacesIn
  <2>2. j \in B
    BY <2>1 DEF BlocksMatch
  <2> QED
    BY <2>1, <2>2
<1>11. PICK I : I = PlacesIn(ss)
  OBVIOUS
<1>12. PICK J : J = PlacesIn(tt)
  OBVIOUS
<1>13. PICK K : K = DOMAIN b
  OBVIOUS
<1>14. /\ q \in [J -> K] /\ \A i, j \in J : q[i] = q[j] => i = j
       /\ \A j \in K : \E i \in J : q[i] = j
  <2>1. q \in Bijection(J, K)
    BY <1>6, <1>12, <1>13 DEF PlacedBy
  <2> QED
    BY <2>1, BijectionIs
<1>15. \A j \in DOMAIN ss : \A k \in DOMAIN ss[j] : <<j, k>> \in I
  BY <1>11 DEF PlacesIn
<1>16. \A j \in DOMAIN tt : \A k \in DOMAIN tt[j] : <<j, k>> \in J
  BY <1>12 DEF PlacesIn
<1> DEFINE m(j, k) == q[<<h[j], R(j)[k]>>]
           f == [x \in I |-> m(x[1], x[2])]
<1>17. \A j \in A : \A k \in DOMAIN ss[j] : <<h[j], R(j)[k]>> \in J
  BY <1>8, <1>16
<1>18. ASSUME NEW j \in A, NEW k \in DOMAIN ss[j]
       PROVE  <<j, k>> \in I /\ f[<<j, k>>] = m(j, k) /\ m(j, k) \in K
  <2> HIDE DEF f, m
  <2>1. <<j, k>> \in I
    BY <1>1, <1>15
  <2>2. m(j, k) \in K
    BY <1>14, <1>17 DEF m
  <2>3. f[<<j, k>>] = m(j, k)
    BY <2>1 DEF f
  <2> QED
    BY <2>1, <2>2, <2>3
<1>19. f = [x \in I |-> f[x]]
  OBVIOUS
<1> HIDE DEF f
<1>20. f \in [I -> K]
  <2>1. ASSUME NEW x \in I
        PROVE  f[x] \in K
    <3>1. PICK j \in A : \E k \in DOMAIN ss[j] : x = <<j, k>>
      BY <1>9, <1>11
    <3>2. PICK k \in DOMAIN ss[j] : x = <<j, k>>
      BY <3>1
    <3> HIDE DEF m
    <3> QED
      BY <1>18, <3>2
  <2> QED
    BY <1>19, <2>1
<1>21. ASSUME NEW x \in I, NEW y \in I, f[x] = f[y]
       PROVE  x = y
  <2>1. PICK j \in A : \E k \in DOMAIN ss[j] : x = <<j, k>>
    BY <1>9, <1>11
  <2>2. PICK k \in DOMAIN ss[j] : x = <<j, k>>
    BY <2>1
  <2>3. PICK i \in A : \E l \in DOMAIN ss[i] : y = <<i, l>>
    BY <1>9, <1>11
  <2>4. PICK l \in DOMAIN ss[i] : y = <<i, l>>
    BY <2>3
  <2>5. q[<<h[j], R(j)[k]>>] = q[<<h[i], R(i)[l]>>]
    BY <1>18, <1>21, <2>2, <2>4
  <2>6. <<h[j], R(j)[k]>> = <<h[i], R(i)[l]>>
    BY <1>14, <1>17, <2>5
  <2>7. h[j] = h[i] /\ R(j)[k] = R(i)[l]
    BY <2>6
  <2>8. j = i
    BY <1>2, <2>7
  <2>9. k = l
    BY <1>8, <2>7, <2>8
  <2> QED
    BY <2>2, <2>4, <2>8, <2>9
<1>22. ASSUME NEW z \in K
       PROVE  \E x \in I : f[x] = z
  <2>1. PICK y \in J : q[y] = z
    BY <1>14
  <2>2. PICK i \in B : \E l \in DOMAIN tt[i] : y = <<i, l>>
    BY <1>10, <1>12
  <2>3. PICK l \in DOMAIN tt[i] : y = <<i, l>>
    BY <2>2
  <2>4. PICK j \in A : h[j] = i
    BY <1>2
  <2>5. PICK k \in DOMAIN ss[j] : R(j)[k] = l
    BY <1>8, <2>3, <2>4
  <2>6. <<j, k>> \in I /\ f[<<j, k>>] = z
    BY <1>18, <2>1, <2>3, <2>4, <2>5
  <2> QED
    BY <2>6
<1>23. f \in Bijection(I, K)
  <2>1. (\A x, y \in I : f[x] = f[y] => x = y) /\ (\A z \in K : \E x \in I : f[x] = z)
    BY <1>21, <1>22
  <2> QED
    BY <1>20, <2>1, BijectionIs
<1>24. ASSUME NEW x \in I
       PROVE  a[p[x]] = b[f[x]]
  <2>1. PICK j \in A : \E k \in DOMAIN ss[j] : x = <<j, k>>
    BY <1>9, <1>11
  <2>2. PICK k \in DOMAIN ss[j] : x = <<j, k>>
    BY <2>1
  <2>3. a[p[x]] = ss[j][k]
    BY <1>1, <1>5, <2>2 DEF PlacedBy
  <2>4. PICK l : l = R(j)[k] /\ l \in DOMAIN tt[h[j]] /\ tt[h[j]][l] = ss[j][k]
    BY <1>8
  <2>5. b[q[<<h[j], l>>]] = tt[h[j]][l]
    BY <1>6, <1>8, <2>4 DEF PlacedBy
  <2>6. f[x] = q[<<h[j], l>>]
    BY <1>18, <2>2, <2>4
  <2> QED
    BY <2>3, <2>4, <2>5, <2>6
<1>25. NamedBy(p, f, I, a, b)
  <2>1. p \in Bijection(I, DOMAIN a)
    BY <1>5, <1>11 DEF PlacedBy
  <2> QED
    BY <1>5, <1>6, <1>13, <1>23, <1>24, <2>1 DEF NamedBy
<1> QED
  BY <1>3, <1>4, <1>25, NamedRearranged

\* The blocks of D by the kind of each, one group for every kind that used lists.
Group(D, kind, k) == [j \in DOMAIN D |-> IF kind[j] = k THEN D[j] ELSE <<>>]

GroupsOf(E, D, kind, used) ==
  /\ Nested(D) /\ Listed(used)
  /\ \A j \in DOMAIN D : \E m \in DOMAIN used : used[m] = kind[j]
  /\ \A m, l \in DOMAIN used : used[m] = used[l] => m = l
  /\ E = [m \in DOMAIN used |-> FlattenSeq(Group(D, kind, used[m]))]

LEMMA GroupNested ==
  ASSUME NEW D, Nested(D), NEW kind, NEW k
  PROVE  Nested(Group(D, kind, k))
<1>1. PICK n \in Nat : DOMAIN D = 1 .. n
  BY DEF Nested, Listed
<1>2. PICK g : g = Group(D, kind, k)
  OBVIOUS
<1>3. DOMAIN g = 1 .. n /\ g = [j \in 1 .. n |-> g[j]]
  BY <1>1, <1>2 DEF Group
<1>4. Listed(<<>>)
  <2>1. <<>> \in Seq({})
    OBVIOUS
  <2> QED
    BY <2>1, ListedIs
<1>5. ASSUME NEW j \in 1 .. n
      PROVE  Listed(g[j])
  <2>1. g[j] = IF kind[j] = k THEN D[j] ELSE <<>>
    BY <1>1, <1>2 DEF Group
  <2>2. Listed(D[j])
    BY <1>1 DEF Nested
  <2> QED
    BY <1>4, <2>1, <2>2
<1>6. Listed(g)
  BY <1>3 DEF Listed
<1> QED
  BY <1>2, <1>3, <1>5, <1>6 DEF Nested

\* Grouping is a rearrangement.
LEMMA GroupsRearranged ==
  ASSUME NEW E, NEW D, NEW kind, NEW used, GroupsOf(E, D, kind, used)
  PROVE  Nested(E) /\ Rearranged(FlattenSeq(D), FlattenSeq(E))
<1>1. PICK n \in Nat : DOMAIN used = 1 .. n
  BY DEF GroupsOf, Listed
<1>2. /\ DOMAIN E = 1 .. n /\ E = [m \in 1 .. n |-> E[m]]
      /\ \A m \in 1 .. n : E[m] = FlattenSeq(Group(D, kind, used[m]))
  BY <1>1 DEF GroupsOf
<1>3. Nested(D)
  BY DEF GroupsOf
<1> DEFINE G(m) == Group(D, kind, used[m])
           g(m) == CHOOSE p : PlacedBy(p, G(m), E[m])
<1>4. ASSUME NEW m \in 1 .. n
      PROVE  Listed(E[m]) /\ PlacedBy(g(m), G(m), E[m])
  <2>1. Nested(G(m))
    BY <1>3, GroupNested
  <2>2. Listed(E[m]) /\ \E p : PlacedBy(p, G(m), E[m])
    <3> HIDE DEF G
    <3>1. E[m] = FlattenSeq(G(m))
      BY <1>2 DEF G
    <3> QED
      BY <2>1, <3>1, FlattenPlaces
  <2> QED
    BY <2>2
<1>5. Nested(E)
  BY <1>1, <1>2, <1>4 DEF Nested, Listed
<1> HIDE DEF g
<1>6. PICK a : a = FlattenSeq(D)
  OBVIOUS
<1>7. PICK b : b = FlattenSeq(E)
  OBVIOUS
<1>8. PICK p : Listed(a) /\ PlacedBy(p, D, a)
  BY <1>3, <1>6, FlattenPlaces
<1>9. PICK q : Listed(b) /\ PlacedBy(q, E, b)
  BY <1>5, <1>7, FlattenPlaces
<1>10. PICK M : /\ DOMAIN M = DOMAIN D
                /\ \A j \in DOMAIN D : M[j] \in 1 .. n /\ used[M[j]] = kind[j]
  <2>1. \A j \in DOMAIN D : \E m \in 1 .. n : used[m] = kind[j]
    BY <1>1 DEF GroupsOf
  <2> DEFINE M == [j \in DOMAIN D |-> CHOOSE m \in 1 .. n : used[m] = kind[j]]
  <2>2. DOMAIN M = DOMAIN D /\ \A j \in DOMAIN D : M[j] \in 1 .. n /\ used[M[j]] = kind[j]
    BY <2>1
  <2> QED
    BY <2>2
<1>11. \A j \in DOMAIN D : \A m \in 1 .. n : used[m] = kind[j] => m = M[j]
  BY <1>1, <1>10 DEF GroupsOf
\* Block j within its group.
<1>12. ASSUME NEW m \in 1 .. n
       PROVE  /\ \A j \in DOMAIN D : M[j] = m =>
                    \A k \in DOMAIN D[j] :
                      /\ <<j, k>> \in PlacesIn(G(m)) /\ g(m)[<<j, k>>] \in DOMAIN E[m]
                      /\ E[m][g(m)[<<j, k>>]] = D[j][k]
              /\ \A x \in PlacesIn(G(m)) :
                    \E j \in DOMAIN D : \E k \in DOMAIN D[j] : M[j] = m /\ x = <<j, k>>
              /\ \A x, y \in PlacesIn(G(m)) : g(m)[x] = g(m)[y] => x = y
              /\ \A z \in DOMAIN E[m] : \E x \in PlacesIn(G(m)) : g(m)[x] = z
  <2>1. PICK H : H = G(m)
    OBVIOUS
  <2>2. /\ DOMAIN H = DOMAIN D
        /\ \A j \in DOMAIN D : H[j] = IF kind[j] = used[m] THEN D[j] ELSE <<>>
    BY <2>1 DEF Group
  <2>3. \A j \in DOMAIN D : kind[j] = used[m] <=> M[j] = m
    BY <1>10, <1>11
  <2>4. \A j \in DOMAIN D : (M[j] = m => H[j] = D[j]) /\ (M[j] # m => DOMAIN H[j] = {})
    BY <2>2, <2>3
  <2>5. PICK r : r = g(m) /\ PlacedBy(r, H, E[m])
    BY <1>4, <2>1
  <2>6. PICK I : I = PlacesIn(H)
    OBVIOUS
  <2>7. PICK J : J = DOMAIN E[m]
    OBVIOUS
  <2>8. /\ r \in [I -> J] /\ (\A i, j \in I : r[i] = r[j] => i = j)
        /\ \A j \in J : \E i \in I : r[i] = j
    <3>1. r \in Bijection(I, J)
      BY <2>5, <2>6, <2>7 DEF PlacedBy
    <3> QED
      BY <3>1, BijectionIs
  <2>9. ASSUME NEW j \in DOMAIN D, M[j] = m, NEW k \in DOMAIN D[j]
        PROVE  <<j, k>> \in I /\ r[<<j, k>>] \in J /\ E[m][r[<<j, k>>]] = D[j][k]
    <3>1. k \in DOMAIN H[j] /\ H[j] = D[j] /\ j \in DOMAIN H
      BY <2>2, <2>4, <2>9
    <3>2. <<j, k>> \in I
      BY <2>6, <3>1 DEF PlacesIn
    <3>3. E[m][r[<<j, k>>]] = H[j][k]
      BY <2>5, <3>1 DEF PlacedBy
    <3> QED
      BY <2>8, <3>1, <3>2, <3>3
  <2>10. ASSUME NEW x \in I
         PROVE  \E j \in DOMAIN D : \E k \in DOMAIN D[j] : M[j] = m /\ x = <<j, k>>
    <3>1. PICK j \in DOMAIN H : \E k \in DOMAIN H[j] : x = <<j, k>>
      BY <2>6 DEF PlacesIn
    <3>2. PICK k \in DOMAIN H[j] : x = <<j, k>>
      BY <3>1
    <3>3. j \in DOMAIN D /\ M[j] = m /\ k \in DOMAIN D[j]
      BY <2>2, <2>4, <3>2
    <3> QED
      BY <3>2, <3>3
  <2> HIDE DEF G
  <2> QED
    BY <2>1, <2>5, <2>6, <2>7, <2>8, <2>9, <2>10
<1> HIDE DEF G
<1>13. PICK I : I = PlacesIn(D)
  OBVIOUS
<1>14. PICK J : J = PlacesIn(E)
  OBVIOUS
<1>15. PICK K : K = DOMAIN b
  OBVIOUS
<1>16. /\ q \in [J -> K] /\ \A i, j \in J : q[i] = q[j] => i = j
       /\ \A j \in K : \E i \in J : q[i] = j
  <2>1. q \in Bijection(J, K)
    BY <1>9, <1>14, <1>15 DEF PlacedBy
  <2> QED
    BY <2>1, BijectionIs
<1>17. \A x \in I : \E j \in DOMAIN D : \E k \in DOMAIN D[j] : x = <<j, k>>
  BY <1>13 DEF PlacesIn
<1>18. \A j \in DOMAIN D : \A k \in DOMAIN D[j] : <<j, k>> \in I
  BY <1>13 DEF PlacesIn
<1>19. \A m \in 1 .. n : \A z \in DOMAIN E[m] : <<m, z>> \in J
  BY <1>2, <1>14 DEF PlacesIn
<1>20. \A x \in J : \E m \in 1 .. n : \E z \in DOMAIN E[m] : x = <<m, z>>
  BY <1>2, <1>14 DEF PlacesIn
<1> DEFINE w(j, k) == q[<<M[j], g(M[j])[<<j, k>>]>>]
           f == [x \in I |-> w(x[1], x[2])]
<1>21. ASSUME NEW j \in DOMAIN D, NEW k \in DOMAIN D[j]
       PROVE  /\ <<j, k>> \in I /\ f[<<j, k>>] = w(j, k) /\ w(j, k) \in K
              /\ <<M[j], g(M[j])[<<j, k>>]>> \in J
  <2> HIDE DEF f, w
  <2>1. <<j, k>> \in I
    BY <1>18
  <2>2. <<M[j], g(M[j])[<<j, k>>]>> \in J
    BY <1>10, <1>12, <1>19
  <2>3. w(j, k) \in K
    BY <1>16, <2>2 DEF w
  <2>4. f[<<j, k>>] = w(j, k)
    BY <2>1 DEF f
  <2> QED
    BY <2>1, <2>2, <2>3, <2>4
<1>22. f = [x \in I |-> f[x]]
  OBVIOUS
<1> HIDE DEF f
<1>23. f \in [I -> K]
  <2>1. ASSUME NEW x \in I
        PROVE  f[x] \in K
    <3>1. PICK j \in DOMAIN D : \E k \in DOMAIN D[j] : x = <<j, k>>
      BY <1>17
    <3>2. PICK k \in DOMAIN D[j] : x = <<j, k>>
      BY <3>1
    <3> HIDE DEF w
    <3> QED
      BY <1>21, <3>2
  <2> QED
    BY <1>22, <2>1
<1>24. ASSUME NEW x \in I, NEW y \in I, f[x] = f[y]
       PROVE  x = y
  <2>1. PICK j \in DOMAIN D : \E k \in DOMAIN D[j] : x = <<j, k>>
    BY <1>17
  <2>2. PICK k \in DOMAIN D[j] : x = <<j, k>>
    BY <2>1
  <2>3. PICK i \in DOMAIN D : \E l \in DOMAIN D[i] : y = <<i, l>>
    BY <1>17
  <2>4. PICK l \in DOMAIN D[i] : y = <<i, l>>
    BY <2>3
  <2>5. q[<<M[j], g(M[j])[<<j, k>>]>>] = q[<<M[i], g(M[i])[<<i, l>>]>>]
    BY <1>21, <1>24, <2>2, <2>4
  <2>6. <<M[j], g(M[j])[<<j, k>>]>> = <<M[i], g(M[i])[<<i, l>>]>>
    BY <1>16, <1>21, <2>5
  <2>7. PICK m \in 1 .. n : m = M[j] /\ m = M[i]
    BY <1>10, <2>6
  <2>8. g(m)[x] = g(m)[y]
    BY <2>2, <2>4, <2>6, <2>7
  <2>9. x \in PlacesIn(G(m)) /\ y \in PlacesIn(G(m))
    BY <1>12, <2>2, <2>4, <2>7
  <2> QED
    BY <1>12, <2>8, <2>9
<1>25. ASSUME NEW z \in K
       PROVE  \E x \in I : f[x] = z
  <2>1. PICK y \in J : q[y] = z
    BY <1>16
  <2>2. PICK m \in 1 .. n : \E u \in DOMAIN E[m] : y = <<m, u>>
    BY <1>20
  <2>3. PICK u \in DOMAIN E[m] : y = <<m, u>>
    BY <2>2
  <2>4. PICK x \in PlacesIn(G(m)) : g(m)[x] = u
    BY <1>12
  <2>5. PICK j \in DOMAIN D : \E k \in DOMAIN D[j] : M[j] = m /\ x = <<j, k>>
    BY <1>12
  <2>6. PICK k \in DOMAIN D[j] : M[j] = m /\ x = <<j, k>>
    BY <2>5
  <2>7. <<j, k>> \in I /\ f[<<j, k>>] = z
    BY <1>21, <2>1, <2>3, <2>4, <2>6
  <2> QED
    BY <2>7
<1>26. f \in Bijection(I, K)
  <2>1. (\A x, y \in I : f[x] = f[y] => x = y) /\ (\A z \in K : \E x \in I : f[x] = z)
    BY <1>24, <1>25
  <2> QED
    BY <1>23, <2>1, BijectionIs
<1>27. ASSUME NEW x \in I
       PROVE  a[p[x]] = b[f[x]]
  <2>1. PICK j \in DOMAIN D : \E k \in DOMAIN D[j] : x = <<j, k>>
    BY <1>17
  <2>2. PICK k \in DOMAIN D[j] : x = <<j, k>>
    BY <2>1
  <2>3. a[p[x]] = D[j][k]
    BY <1>8, <2>2 DEF PlacedBy
  <2>4. PICK m \in 1 .. n : m = M[j]
    BY <1>10
  <2>5. PICK l : l = g(m)[<<j, k>>] /\ l \in DOMAIN E[m] /\ E[m][l] = D[j][k]
    BY <1>12, <2>4
  <2>6. b[q[<<m, l>>]] = E[m][l]
    BY <1>2, <1>9, <2>5 DEF PlacedBy
  <2>7. f[x] = q[<<m, l>>]
    BY <1>21, <2>2, <2>4, <2>5
  <2> QED
    BY <2>3, <2>5, <2>6, <2>7
<1>28. NamedBy(p, f, I, a, b)
  <2>1. p \in Bijection(I, DOMAIN a)
    BY <1>8, <1>13 DEF PlacedBy
  <2> QED
    BY <1>8, <1>9, <1>15, <1>26, <1>27, <2>1 DEF NamedBy
<1> QED
  BY <1>5, <1>6, <1>7, <1>28, NamedRearranged

\* Lists are over one set.
LEMMA ListedTogether ==
  ASSUME NEW a, NEW b, NEW c, Listed(a), Listed(b), Listed(c)
  PROVE  \E S : a \in Seq(S) /\ b \in Seq(S) /\ c \in Seq(S)
<1>1. PICK A, B, C : a \in Seq(A) /\ b \in Seq(B) /\ c \in Seq(C)
  BY ListedIs
<1>2. PICK S : S = A \cup B \cup C
  OBVIOUS
<1>3. a \in Seq(S)
  BY <1>1, <1>2
<1>4. b \in Seq(S)
  BY <1>1, <1>2
<1>5. c \in Seq(S)
  BY <1>1, <1>2
<1> QED
  BY <1>3, <1>4, <1>5

\* How lists join.
LEMMA ListedJoin ==
  ASSUME NEW a, NEW b, NEW c, Listed(a), Listed(b), Listed(c)
  PROVE  /\ Listed(a \o b) /\ Listed(<<>>)
         /\ (a \o b) \o c = a \o (b \o c) /\ a \o <<>> = a /\ <<>> \o a = a
<1>1. PICK S : a \in Seq(S) /\ b \in Seq(S) /\ c \in Seq(S)
  BY ListedTogether
<1>2. a \o b \in Seq(S) /\ <<>> \in Seq(S)
  BY <1>1
<1>3. (a \o b) \o c = a \o (b \o c)
  BY <1>1, ConcatAssociative
<1>4. a \o <<>> = a /\ <<>> \o a = a
  BY <1>1, ConcatEmptySeq
<1> QED
  BY <1>2, <1>3, <1>4, ListedIs

\* Flattening a few lists joins them.
Triple(v, a, b, c) == v = <<a, b, c>> /\ Listed(a) /\ Listed(b) /\ Listed(c)

LEMMA FlattenFew ==
  ASSUME NEW a, NEW b, Listed(a), Listed(b)
  PROVE  FlattenSeq(<<a>>) = a /\ FlattenSeq(<<a, b>>) = a \o b
<1>1. PICK S : a \in Seq(S) /\ b \in Seq(S)
  BY ListedTogether
<1>2. PICK T : T = Seq(S)
  OBVIOUS
<1>3. <<>> \in Seq(T) /\ <<a>> \in Seq(T)
  BY <1>1, <1>2
<1>4. <<a>> = Append(<<>>, a) /\ <<a, b>> = Append(<<a>>, b)
  OBVIOUS
<1>5. FlattenSeq(<<a>>) = a
  <2>1. FlattenSeq(Append(<<>>, a)) = FlattenSeq(<<>>) \o a
    BY <1>1, <1>2, <1>3, FlattenAppend
  <2> QED
    BY <1>1, <1>4, <2>1, FlattenEmpty, ConcatEmptySeq
<1>6. FlattenSeq(<<a, b>>) = a \o b
  <2>1. FlattenSeq(Append(<<a>>, b)) = FlattenSeq(<<a>>) \o b
    BY <1>1, <1>2, <1>3, FlattenAppend
  <2> QED
    BY <1>4, <1>5, <2>1
<1> QED
  BY <1>5, <1>6

LEMMA FlattenOfThree ==
  ASSUME NEW v, NEW a, NEW b, NEW c, Triple(v, a, b, c)
  PROVE  FlattenSeq(v) = (a \o b) \o c
<1>1. PICK S : a \in Seq(S) /\ b \in Seq(S) /\ c \in Seq(S)
  BY ListedTogether DEF Triple
<1>2. PICK T : T = Seq(S)
  OBVIOUS
<1>3. <<a, b>> \in Seq(T)
  BY <1>1, <1>2
<1>4. <<a, b, c>> = Append(<<a, b>>, c)
  OBVIOUS
<1>5. FlattenSeq(Append(<<a, b>>, c)) = FlattenSeq(<<a, b>>) \o c
  BY <1>1, <1>2, <1>3, FlattenAppend
<1>6. FlattenSeq(<<a, b>>) = a \o b
  BY FlattenFew DEF Triple
<1> QED
  BY <1>4, <1>5, <1>6 DEF Triple

\* Two elements in a row.
LEMMA TwoSingles ==
  ASSUME NEW a, NEW b
  PROVE  <<a>> \o <<b>> = <<a, b>>
<1> DEFINE S == {a, b}
<1>1. a \in S /\ b \in S
  OBVIOUS
<1> HIDE DEF S
<1>2. <<a>> \in Seq(S)
  BY <1>1
<1>3. <<a, b>> = Append(<<a>>, b)
  OBVIOUS
<1>4. Append(<<a>>, b) = <<a>> \o <<b>>
  BY <1>1, <1>2, AppendIsConcat
<1> QED
  BY <1>3, <1>4

\* Two lists are a nested list.
LEMMA PairNested ==
  ASSUME NEW a, NEW b, Listed(a), Listed(b)
  PROVE  /\ Nested(<<a, b>>) /\ DOMAIN <<a, b>> = {1, 2}
         /\ <<a, b>>[1] = a /\ <<a, b>>[2] = b
<1>1. PICK ss : ss = <<a, b>>
  OBVIOUS
<1>2. DOMAIN ss = 1 .. 2 /\ ss[1] = a /\ ss[2] = b /\ ss = [k \in 1 .. 2 |-> ss[k]]
  BY <1>1
<1>3. Listed(ss)
  BY <1>2 DEF Listed
<1>4. 1 .. 2 = {1, 2}
  OBVIOUS
<1> QED
  BY <1>1, <1>2, <1>3, <1>4 DEF Nested

\* Rearrangements join, in either order.
LEMMA RearrangedJoin ==
  ASSUME NEW a, NEW b, NEW c, NEW d, Rearranged(a, c), Rearranged(b, d)
  PROVE  Rearranged(a \o b, c \o d) /\ Rearranged(a \o b, d \o c)
<1>1. Listed(a) /\ Listed(b) /\ Listed(c) /\ Listed(d)
  BY DEF Rearranged, Rearranges
<1>2. PICK A : A = {1, 2}
  OBVIOUS
<1>3. PICK ss : ss = <<a, b>>
  OBVIOUS
<1>4. Nested(ss) /\ DOMAIN ss = A /\ ss[1] = a /\ ss[2] = b /\ FlattenSeq(ss) = a \o b
  BY <1>1, <1>2, <1>3, PairNested, FlattenFew
<1>5. PICK tt : tt = <<c, d>>
  OBVIOUS
<1>6. Nested(tt) /\ DOMAIN tt = A /\ tt[1] = c /\ tt[2] = d /\ FlattenSeq(tt) = c \o d
  BY <1>1, <1>2, <1>5, PairNested, FlattenFew
<1>7. PICK uu : uu = <<d, c>>
  OBVIOUS
<1>8. Nested(uu) /\ DOMAIN uu = A /\ uu[1] = d /\ uu[2] = c /\ FlattenSeq(uu) = d \o c
  BY <1>1, <1>2, <1>7, PairNested, FlattenFew
<1> DEFINE h == [i \in A |-> i]
           g == [i \in A |-> IF i = 1 THEN 2 ELSE 1]
<1>9. /\ h \in [A -> A] /\ \A i, j \in A : h[i] = h[j] => i = j
      /\ (\A j \in A : \E i \in A : h[i] = j) /\ h[1] = 1 /\ h[2] = 2
  BY <1>2
<1>10. /\ g \in [A -> A] /\ \A i, j \in A : g[i] = g[j] => i = j
       /\ (\A j \in A : \E i \in A : g[i] = j) /\ g[1] = 2 /\ g[2] = 1
  BY <1>2
<1> HIDE DEF g, h
<1>11. h \in Bijection(A, A) /\ g \in Bijection(A, A)
  BY <1>9, <1>10, BijectionIs
<1>12. \A j \in A : Rearranged(ss[j], tt[h[j]]) /\ Rearranged(ss[j], uu[g[j]])
  BY <1>2, <1>4, <1>6, <1>8, <1>9, <1>10
<1>13. BlocksMatch(h, A, A, ss, tt) /\ BlocksMatch(g, A, A, ss, uu)
  BY <1>4, <1>6, <1>8, <1>11, <1>12 DEF BlocksMatch
<1>14. Rearranged(FlattenSeq(ss), FlattenSeq(tt)) /\ Rearranged(FlattenSeq(ss), FlattenSeq(uu))
  BY <1>13, BlocksRearranged
<1> QED
  BY <1>4, <1>6, <1>8, <1>14

\* The last two of three lists change places.
LEMMA LastTwoSwap ==
  ASSUME NEW a, NEW b, NEW c, Listed(a), Listed(b), Listed(c)
  PROVE  Rearranged((a \o b) \o c, (a \o c) \o b) /\ Rearranged(a \o b, b \o a)
<1>1. Rearranged(a, a) /\ Rearranged(b, b) /\ Rearranged(c, c)
  BY RearrangedEquivalence
<1>2. Rearranged(a \o b, b \o a) /\ Rearranged(b \o c, c \o b)
  BY <1>1, RearrangedJoin
<1>3. Rearranged(a \o (b \o c), a \o (c \o b))
  BY <1>1, <1>2, RearrangedJoin
<1>4. (a \o b) \o c = a \o (b \o c) /\ (a \o c) \o b = a \o (c \o b)
  BY ListedJoin
<1> QED
  BY <1>2, <1>3, <1>4

\* The elements of a finite set, listed once each.
LEMMA SetListed ==
  ASSUME NEW S, IsFiniteSet(S), NEW u, u = SetToSeq(S)
  PROVE  /\ Listed(u) /\ \A m \in DOMAIN u : u[m] \in S
         /\ \A m, l \in DOMAIN u : u[m] = u[l] => m = l
         /\ \A x \in S : \E m \in DOMAIN u : u[m] = x
<1>1. PICK n \in Nat : n = Cardinality(S)
  BY FS_CardinalityType
<1>2. PICK I : I = 1 .. n
  OBVIOUS
<1>3. PICK f \in Bijection(I, S) : TRUE
  BY <1>1, <1>2, FS_CardinalityType DEF ExistsBijection
<1>4. f \in [I -> S] /\ IsInjective(f)
  BY <1>3, BijectionIs DEF IsInjective
<1>5. u \in [I -> S] /\ IsInjective(u)
  <2>1. u = CHOOSE g \in [I -> S] : IsInjective(g)
    BY <1>1, <1>2 DEF SetToSeq
  <2> QED
    BY <1>4, <2>1
<1>6. IsFiniteSet(I) /\ Cardinality(I) = n
  BY <1>1, <1>2, FS_Interval
<1>7. u \in Injection(I, S)
  BY <1>5 DEF Injection
<1>8. u \in Surjection(I, S)
  BY <1>1, <1>6, <1>7, FS_Injection
<1>9. \A x \in S : \E m \in I : u[m] = x
  BY <1>8 DEF Surjection
<1>10. DOMAIN u = 1 .. n /\ u = [k \in 1 .. n |-> u[k]]
  BY <1>2, <1>5
<1> QED
  BY <1>2, <1>5, <1>9, <1>10 DEF Listed, IsInjective

=============================================================================
