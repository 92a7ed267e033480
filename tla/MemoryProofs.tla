----------------------------- MODULE MemoryProofs ---------------------------
(***************************************************************************)
(* Proofs about the memory table: whatever log it is built from, if the    *)
(* timestamps of the log strictly increase and every operation reads what  *)
(* the one before it on the same address wrote, then the sorted table      *)
(* satisfies the AIR, and its lookups are those the prover counts.         *)
(***************************************************************************)
EXTENDS MemoryTable, DataLemmas

\* A log: operations on numbered addresses, in the order of their timestamps.
IsLog(log, S) ==
  /\ log \in Seq(S)
  /\ \A o \in S : o.address \in Nat /\ o.timestamp \in Nat
  /\ \A j, k \in 1 .. Len(log) : j < k => log[j].timestamp < log[k].timestamp

\* An address reads 0 first, then what was last written to it.
IsHistory(log) ==
  /\ \A k \in 1 .. Len(log) :
       (\A j \in 1 .. Len(log) : log[j].address = log[k].address => ~(j < k))
         => log[k].old_value = 0
  /\ \A j, k \in 1 .. Len(log) :
       /\ j < k /\ log[j].address = log[k].address
       /\ \A l \in 1 .. Len(log) : log[l].address = log[k].address => ~(j < l /\ l < k)
       => log[k].old_value = log[j].new_value

\* The order of the table.
ByCell(log, j, k) ==
  \/ log[j].address < log[k].address
  \/ log[j].address = log[k].address /\ j < k

\* Place i of the table is given to log[at[i]].
Sorts(log, at) ==
  /\ at \in Bijection(1 .. Len(log), 1 .. Len(log))
  /\ SortedOps(log) = [i \in 1 .. Len(log) |-> log[at[i]]]
  /\ \A i, j \in 1 .. Len(log) : i < j <=> ByCell(log, at[i], at[j])

\* Sorting is a permutation: by address and, within an address, in the order
\* of the log.
LEMMA SortedOpsSorts ==
  ASSUME NEW S, NEW log, IsLog(log, S)
  PROVE  \E at : Sorts(log, at)
<1> DEFINE n == Len(log)
           Less(o, p) == \/ o.address < p.address
                         \/ o.address = p.address /\ o.timestamp < p.timestamp
           Before(j, k) == Less(log[j], log[k]) \/ (~Less(log[k], log[j]) /\ j < k)
           rank == [k \in DOMAIN log |-> 1 + Cardinality({j \in DOMAIN log : Before(j, k)})]
           R == {p \in (1 .. n) \X (1 .. n) : ByCell(log, p[1], p[2])}
<1>1. /\ n \in Nat /\ DOMAIN log = 1 .. n
      /\ \A k \in 1 .. n : log[k].address \in Nat /\ log[k].timestamp \in Nat
      /\ \A j, k \in 1 .. n : j < k => log[j].timestamp < log[k].timestamp
  BY DEF IsLog
<1>2. \A j, k \in 1 .. n : Before(j, k) <=> ByCell(log, j, k)
  BY <1>1 DEF ByCell
<1>3. \A j, k \in 1 .. n : <<j, k>> \in R <=> ByCell(log, j, k)
  OBVIOUS
<1>4. SortedOps(log) = [i \in DOMAIN log |-> log[CHOOSE k \in DOMAIN log : rank[k] = i]]
  BY DEF SortedOps, StableSort, Rank
<1> HIDE DEF Before, R
<1>5. rank = RankIn(R, n)
  <2>1. \A k \in 1 .. n : {j \in DOMAIN log : Before(j, k)} = {j \in 1 .. n : <<j, k>> \in R}
    BY <1>1, <1>2, <1>3
  <2> QED
    BY <1>1, <2>1 DEF RankIn
<1> HIDE DEF rank
<1>6. StrictlyOrders(R, n)
  <2>1. \A i \in 1 .. n : ~ByCell(log, i, i)
    BY <1>1 DEF ByCell
  <2>2. \A i, j \in 1 .. n : i # j => ByCell(log, i, j) \/ ByCell(log, j, i)
    BY <1>1 DEF ByCell
  <2>3. \A i, j, k \in 1 .. n : ByCell(log, i, j) /\ ByCell(log, j, k) => ByCell(log, i, k)
    BY <1>1 DEF ByCell
  <2> QED
    BY <1>3, <2>1, <2>2, <2>3 DEF StrictlyOrders
<1>7. /\ rank \in [1 .. n -> 1 .. n]
      /\ \A i, j \in 1 .. n : <<i, j>> \in R <=> rank[i] < rank[j]
      /\ \A m \in 1 .. n : \E k \in 1 .. n : rank[k] = m
  <2>1. n \in Nat
    BY <1>1
  <2> HIDE DEF n
  <2> QED
    BY <2>1, <1>5, <1>6, Ranks
<1>8. \A i, j \in 1 .. n : rank[i] = rank[j] => i = j
  BY <1>6, <1>7 DEF StrictlyOrders
<1> DEFINE at == [i \in 1 .. n |-> CHOOSE k \in 1 .. n : rank[k] = i]
<1>9. \A i \in 1 .. n : at[i] \in 1 .. n /\ rank[at[i]] = i
  BY <1>7
<1>10. \A k \in 1 .. n : at[rank[k]] = k
  BY <1>7, <1>8, <1>9
<1>11. SortedOps(log) = [i \in 1 .. n |-> log[at[i]]]
  BY <1>1, <1>4
<1>12. at \in [1 .. n -> 1 .. n]
  BY <1>9
<1> HIDE DEF at
<1>13. at \in Bijection(1 .. n, 1 .. n)
  <2>1. \A i, j \in 1 .. n : at[i] = at[j] => i = j
    BY <1>9
  <2>2. \A k \in 1 .. n : \E i \in 1 .. n : at[i] = k
    BY <1>7, <1>10
  <2> HIDE DEF n
  <2> QED
    BY <1>12, <2>1, <2>2 DEF Bijection, Injection, Surjection, IsInjective
<1>14. \A i, j \in 1 .. n : i < j <=> ByCell(log, at[i], at[j])
  <2> SUFFICES ASSUME NEW i \in 1 .. n, NEW j \in 1 .. n
               PROVE  i < j <=> ByCell(log, at[i], at[j])
    OBVIOUS
  <2>1. at[i] \in 1 .. n /\ at[j] \in 1 .. n /\ rank[at[i]] = i /\ rank[at[j]] = j
    BY <1>9
  <2>2. <<at[i], at[j]>> \in R <=> rank[at[i]] < rank[at[j]]
    BY <1>7, <2>1
  <2> QED
    BY <1>3, <2>1, <2>2
<1>15. Sorts(log, at)
  BY <1>11, <1>13, <1>14 DEF Sorts
<1> QED
  BY <1>15

(***************************************************************************)
(* The rows of the table.                                                  *)
(***************************************************************************)
\* The row of every operation, the padding rows and the flags.
LEMMA TableRows ==
  ASSUME NEW S, NEW log, IsLog(log, S), NEW at, Sorts(log, at)
  PROVE  LET n == Len(log)
             N == NumRows(n)
             t == Table(log)
         IN  /\ n \in Nat /\ N \in Nat /\ N >= n /\ N >= 1
             /\ Len(t) = N /\ DOMAIN t = 1 .. N
             /\ \A i \in 1 .. n :
                  /\ at[i] \in 1 .. n
                  /\ ~t[i].is_padding
                  /\ t[i].address = log[at[i]].address
                  /\ t[i].timestamp = log[at[i]].timestamp
                  /\ t[i].read = log[at[i]].old_value
                  /\ t[i].write = log[at[i]].new_value
             /\ \A i \in n + 1 .. N :
                  /\ t[i].is_padding /\ t[i].address = 0 /\ t[i].timestamp = 0
                  /\ t[i].read = 0 /\ t[i].write = 0
             /\ \A i \in 1 .. N - 1 :
                  /\ t[i].is_address_equal <=> t[i].address = t[i + 1].address
                  /\ t[i].is_timestamp_equal <=> t[i].timestamp = t[i + 1].timestamp
<1> DEFINE n == Len(log)
           N == NumRows(n)
           rows == PlainRows(log)
           t == Table(log)
<1>1. n \in Nat /\ N \in Nat /\ N >= n /\ N >= 1
  BY NumRowsFit DEF IsLog
<1>2. rows = [i \in 1 .. N |-> IF i <= n THEN RealRow(SortedOps(log)[i]) ELSE PaddingRow]
  BY DEF PlainRows
<1>3. DOMAIN rows = 1 .. N /\ Len(rows) = N
  BY <1>1, <1>2
<1> HIDE DEF rows
<1>4. t = [i \in 1 .. N |->
             [is_padding |-> rows[i].is_padding,
              address    |-> rows[i].address,
              timestamp  |-> rows[i].timestamp,
              read       |-> rows[i].read,
              write      |-> rows[i].write,
              is_address_equal   |-> i < N /\ rows[i].address = rows[i + 1].address,
              is_timestamp_equal |-> i < N /\ rows[i].timestamp = rows[i + 1].timestamp]]
  BY <1>3 DEF Table, rows
<1>5. Len(t) = N /\ DOMAIN t = 1 .. N
  BY <1>1, <1>4
<1>6. ASSUME NEW i \in 1 .. N
      PROVE  /\ t[i].is_padding = rows[i].is_padding
             /\ t[i].address = rows[i].address
             /\ t[i].timestamp = rows[i].timestamp
             /\ t[i].read = rows[i].read
             /\ t[i].write = rows[i].write
             /\ i < N => /\ t[i].is_address_equal = (rows[i].address = rows[i + 1].address)
                         /\ t[i].is_timestamp_equal = (rows[i].timestamp = rows[i + 1].timestamp)
  BY <1>4
<1> HIDE DEF t, N
<1>7. ASSUME NEW i \in 1 .. n
      PROVE  i \in 1 .. N /\ at[i] \in 1 .. n /\ rows[i] = RealRow(log[at[i]])
  <2>1. at[i] \in 1 .. n /\ SortedOps(log)[i] = log[at[i]]
    BY DEF Sorts, Bijection, Injection
  <2>2. i \in 1 .. N /\ i <= n
    BY <1>1
  <2> QED
    BY <1>2, <2>1, <2>2
<1>8. ASSUME NEW i \in 1 .. n
       PROVE  /\ at[i] \in 1 .. n
              /\ ~t[i].is_padding
              /\ t[i].address = log[at[i]].address
              /\ t[i].timestamp = log[at[i]].timestamp
              /\ t[i].read = log[at[i]].old_value
              /\ t[i].write = log[at[i]].new_value
  <2>1. i \in 1 .. N /\ at[i] \in 1 .. n /\ rows[i] = RealRow(log[at[i]])
    BY <1>7
  <2>2. /\ t[i].is_padding = rows[i].is_padding
        /\ t[i].address = rows[i].address
        /\ t[i].timestamp = rows[i].timestamp
        /\ t[i].read = rows[i].read
        /\ t[i].write = rows[i].write
    BY <1>6, <2>1
  <2> QED
    BY <2>1, <2>2 DEF RealRow
<1>9. ASSUME NEW i \in n + 1 .. N
      PROVE  /\ t[i].is_padding /\ t[i].address = 0 /\ t[i].timestamp = 0
             /\ t[i].read = 0 /\ t[i].write = 0
  <2>1. i \in 1 .. N /\ rows[i] = PaddingRow
    BY <1>1, <1>2
  <2> QED
    BY <1>6, <2>1 DEF PaddingRow
<1>10. ASSUME NEW i \in 1 .. N - 1
       PROVE  /\ t[i].is_address_equal <=> t[i].address = t[i + 1].address
              /\ t[i].is_timestamp_equal <=> t[i].timestamp = t[i + 1].timestamp
  <2>1. i \in 1 .. N /\ i + 1 \in 1 .. N /\ i < N
    BY <1>1
  <2> QED
    BY <1>6, <2>1
<1> QED
  BY <1>1, <1>5, <1>8, <1>9, <1>10 DEF t, N

\* The flags are Booleans.
LEMMA TableFlags ==
  ASSUME NEW S, NEW log, IsLog(log, S)
  PROVE  \A i \in 1 .. NumRows(Len(log)) - 1 :
           /\ Table(log)[i].is_address_equal \in BOOLEAN
           /\ Table(log)[i].is_timestamp_equal \in BOOLEAN
<1> DEFINE N == NumRows(Len(log))
<1>1. DOMAIN PlainRows(log) = 1 .. N /\ N \in Nat
  BY NumRowsFit DEF PlainRows, IsLog
<1> HIDE DEF N
<1>2. \A i \in 1 .. N - 1 : i \in DOMAIN PlainRows(log)
  BY <1>1
<1> HIDE DEF N
<1> QED
  BY <1>2 DEF Table, N

(***************************************************************************)
(* The AIR and the table of a history, where the log is on one address.    *)
(***************************************************************************)
\* The log is on x0 alone, leaves a value there, and the table is padded.
EndsAtZero(log) ==
  /\ \A k \in DOMAIN log : log[k].address = 0
  /\ log[Len(log)].new_value # 0
  /\ NumRows(Len(log)) > Len(log)

\* The AIR accepts the table of a history, but for a log that ends by leaving a
\* nonzero value at address 0, where the padding continues it.
LEMMA HistoryAccepted ==
  ASSUME NEW S, NEW log, IsLog(log, S), log # <<>>, IsHistory(log)
  PROVE  AirAccepts(Table(log)) <=> ~EndsAtZero(log)
<1>0. PICK at : Sorts(log, at)
  BY SortedOpsSorts
<1> DEFINE n == Len(log)
           N == NumRows(n)
           t == Table(log)
<1>1. /\ n \in Nat /\ N \in Nat /\ N >= n /\ N >= 1
      /\ Len(t) = N /\ DOMAIN t = 1 .. N
      /\ \A i \in n + 1 .. N :
           /\ t[i].is_padding /\ t[i].address = 0 /\ t[i].read = 0 /\ t[i].write = 0
      /\ \A i \in 1 .. N - 1 :
           t[i].is_address_equal <=> t[i].address = t[i + 1].address
  BY <1>0, TableRows
<1>2. \A i \in 1 .. n :
        /\ at[i] \in 1 .. n
        /\ ~t[i].is_padding
        /\ t[i].address = log[at[i]].address
        /\ t[i].read = log[at[i]].old_value
        /\ t[i].write = log[at[i]].new_value
  BY <1>0, TableRows
<1>3. /\ \A i, j \in 1 .. n : i < j <=> ByCell(log, at[i], at[j])
      /\ \A k \in 1 .. n : \E i \in 1 .. n : at[i] = k
  BY <1>0 DEF Sorts, Bijection, Surjection
<1>4. n >= 1 /\ \A k \in 1 .. n : log[k].address \in Nat
  <2>1. n # 0
    BY EmptySeq DEF IsLog
  <2> QED
    BY <1>1, <2>1 DEF IsLog
<1>h. /\ \A k \in 1 .. n :
           (\A j \in 1 .. n : log[j].address = log[k].address => ~(j < k))
             => log[k].old_value = 0
      /\ \A j, k \in 1 .. n :
           /\ j < k /\ log[j].address = log[k].address
           /\ \A l \in 1 .. n : log[l].address = log[k].address => ~(j < l /\ l < k)
           => log[k].old_value = log[j].new_value
      /\ DOMAIN log = 1 .. n
  BY DEF IsHistory, IsLog
<1>e. EndsAtZero(log) <=> /\ \A k \in 1 .. n : log[k].address = 0
                          /\ log[n].new_value # 0
                          /\ N > n
  BY <1>h DEF EndsAtZero
<1> HIDE DEF t, N, n
<1>5. PaddingIsLast(t)
  <2> SUFFICES ASSUME NEW i \in 1 .. N - 1, t[i].is_padding PROVE t[i + 1].is_padding
    BY <1>1 DEF PaddingIsLast, Transitions
  <2>1. i \notin 1 .. n
    BY <1>2
  <2>2. i + 1 \in n + 1 .. N
    BY <1>1, <2>1
  <2> QED
    BY <1>1, <2>2
\* The first of an address, and what follows another address.
<1>6. t[1].read = 0
  <2>1. 1 \in 1 .. n
    BY <1>1, <1>4
  <2>2. ASSUME NEW j \in 1 .. n, log[j].address = log[at[1]].address, j < at[1]
        PROVE  FALSE
    <3>1. PICK i \in 1 .. n : at[i] = j
      BY <1>3
    <3>2. ByCell(log, at[i], at[1])
      BY <2>2, <3>1 DEF ByCell
    <3> QED
      BY <1>3, <2>1, <3>2
  <2>3. log[at[1]].old_value = 0
    BY <1>2, <1>h, <2>1, <2>2
  <2> QED
    BY <1>2, <2>1, <2>3
<1>7. ASSUME NEW i \in 1 .. N - 1, ~t[i].is_address_equal
      PROVE  t[i + 1].read = 0
  <2>1. CASE i + 1 > n
    <3>1. i + 1 \in n + 1 .. N
      BY <1>1, <2>1
    <3> QED
      BY <1>1, <3>1
  <2>2. CASE i + 1 <= n
    <3>1. i \in 1 .. n /\ i + 1 \in 1 .. n
      BY <1>1, <2>2
    <3>2. at[i] \in 1 .. n /\ at[i + 1] \in 1 .. n
      BY <1>2, <3>1
    <3>3. log[at[i]].address # log[at[i + 1]].address
      BY <1>1, <1>2, <1>7, <3>1
    <3>4. ASSUME NEW l \in 1 .. n, log[l].address = log[at[i + 1]].address, l < at[i + 1]
          PROVE  FALSE
      <4>1. PICK m \in 1 .. n : at[m] = l
        BY <1>3
      <4>2. ByCell(log, at[m], at[i + 1])
        BY <3>4, <4>1 DEF ByCell
      <4>3. m < i + 1
        BY <1>3, <3>1, <4>2
      <4>4. m # i
        BY <3>3, <3>4, <4>1
      <4>5. m < i /\ i < i + 1
        BY <4>3, <4>4
      <4>6. ByCell(log, at[m], at[i]) /\ ByCell(log, at[i], at[i + 1])
        BY <1>3, <3>1, <4>5
      <4> QED
        BY <1>4, <3>2, <3>3, <3>4, <4>1, <4>6 DEF ByCell
    <3>5. log[at[i + 1]].old_value = 0
      BY <1>h, <3>2, <3>4
    <3> QED
      BY <1>2, <3>1, <3>5
  <2> QED
    BY <1>1, <2>1, <2>2
<1>8. FreshReadsZero(t)
  BY <1>1, <1>6, <1>7 DEF FreshReadsZero, Transitions
\* What follows the same address.
<1>9. ASSUME NEW i \in 1 .. N - 1, t[i].is_address_equal, i # n
      PROVE  t[i + 1].read = t[i].write
  <2>1. CASE i > n
    <3>1. i \in n + 1 .. N /\ i + 1 \in n + 1 .. N
      BY <1>1, <2>1
    <3> QED
      BY <1>1, <3>1
  <2>2. CASE i < n
    <3>1. i \in 1 .. n /\ i + 1 \in 1 .. n /\ i < i + 1
      BY <1>1, <2>2
    <3>2. at[i] \in 1 .. n /\ at[i + 1] \in 1 .. n
      BY <1>2, <3>1
    <3>3. log[at[i]].address = log[at[i + 1]].address
      BY <1>1, <1>2, <1>9, <3>1
    <3>4. at[i] < at[i + 1]
      <4>1. ByCell(log, at[i], at[i + 1])
        BY <1>3, <3>1
      <4> QED
        BY <1>4, <3>2, <3>3, <4>1 DEF ByCell
    <3>5. ASSUME NEW l \in 1 .. n, log[l].address = log[at[i + 1]].address,
                 at[i] < l, l < at[i + 1]
          PROVE  FALSE
      <4>1. PICK m \in 1 .. n : at[m] = l
        BY <1>3
      <4>2. ByCell(log, at[i], at[m]) /\ ByCell(log, at[m], at[i + 1])
        BY <3>3, <3>5, <4>1 DEF ByCell
      <4>3. i < m /\ m < i + 1
        BY <1>3, <3>1, <4>2
      <4> QED
        BY <4>3
    <3>6. log[at[i + 1]].old_value = log[at[i]].new_value
      BY <1>h, <3>2, <3>3, <3>4, <3>5
    <3> QED
      BY <1>2, <3>1, <3>6
  <2> QED
    BY <1>1, <1>9, <2>1, <2>2
\* The row before the padding, if there is padding.
<1>10. ASSUME n < N
       PROVE  (t[n].is_address_equal => t[n + 1].read = t[n].write) <=> ~EndsAtZero(log)
  <2>1. n \in 1 .. N - 1 /\ n + 1 \in n + 1 .. N /\ n \in 1 .. n
    BY <1>1, <1>4, <1>10
  <2>2. at[n] \in 1 .. n
    BY <1>2, <2>1
  <2>3. t[n].is_address_equal <=> log[at[n]].address = 0
    BY <1>1, <1>2, <2>1
  <2>4. t[n + 1].read = 0 /\ t[n].write = log[at[n]].new_value
    BY <1>1, <1>2, <2>1
  <2>5. ASSUME NEW j \in 1 .. n, j # at[n]
        PROVE  ByCell(log, j, at[n])
    <3>1. PICK m \in 1 .. n : at[m] = j
      BY <1>3
    <3>2. m < n
      BY <1>1, <2>5, <3>1
    <3> QED
      BY <1>3, <2>1, <3>1, <3>2
  <2>6. CASE log[at[n]].address = 0
    <3>1. \A j \in 1 .. n : log[j].address = 0
      BY <1>4, <2>5, <2>6 DEF ByCell
    <3>2. at[n] = n
      <4>1. at[n] # n => ByCell(log, n, at[n])
        BY <2>1, <2>5
      <4> QED
        BY <1>1, <2>1, <2>2, <3>1, <4>1 DEF ByCell
    <3> QED
      BY <1>e, <1>10, <2>3, <2>4, <2>6, <3>1, <3>2
  <2>7. CASE log[at[n]].address # 0
    BY <1>e, <2>2, <2>3, <2>7
  <2> QED
    BY <2>6, <2>7
<1>11. ReadsFollowWrites(t) <=> ~EndsAtZero(log)
  <2>1. ReadsFollowWrites(t) <=>
          \A i \in 1 .. N - 1 : t[i].is_address_equal => t[i + 1].read = t[i].write
    BY <1>1 DEF ReadsFollowWrites, Transitions
  <2>2. CASE n < N
    <3>1. n \in 1 .. N - 1
      BY <1>1, <1>4, <2>2
    <3> QED
      BY <1>9, <1>10, <2>1, <2>2, <3>1
  <2>3. CASE n = N
    <3>1. ~EndsAtZero(log)
      BY <1>1, <1>e, <2>3
    <3>2. \A i \in 1 .. N - 1 : i # n
      BY <1>1, <2>3
    <3> QED
      BY <1>9, <2>1, <3>1, <3>2
  <2> QED
    BY <1>1, <2>2, <2>3
<1> QED
  BY <1>5, <1>8, <1>11 DEF AirAccepts, t


(***************************************************************************)
(* The lookups.                                                            *)
(***************************************************************************)
\* The tuple of an operation on the memory bus.
OpTuple(o) == <<o.timestamp, o.address, o.old_value, o.new_value>>

\* The AIR receives every operation of the log, as often as it is there.
LEMMA ReceivedOps ==
  ASSUME NEW S, NEW log, IsLog(log, S)
  PROVE  MemoryReceived(Table(log)) = ToBag([k \in 1 .. Len(log) |-> OpTuple(log[k])])
<1>0. PICK at : Sorts(log, at)
  BY SortedOpsSorts
<1> DEFINE n == Len(log)
           N == NumRows(n)
           t == Table(log)
           real == [i \in {i \in DOMAIN t : ~t[i].is_padding} |->
                      <<t[i].timestamp, t[i].address, t[i].read, t[i].write>>]
           ops == [k \in 1 .. n |-> OpTuple(log[k])]
<1>1. /\ n \in Nat /\ N \in Nat /\ N >= n /\ DOMAIN t = 1 .. N
      /\ \A i \in n + 1 .. N : t[i].is_padding
      /\ \A i \in 1 .. n :
           /\ at[i] \in 1 .. n
           /\ ~t[i].is_padding
           /\ t[i].address = log[at[i]].address
           /\ t[i].timestamp = log[at[i]].timestamp
           /\ t[i].read = log[at[i]].old_value
           /\ t[i].write = log[at[i]].new_value
  BY <1>0, TableRows
<1>2. MemoryReceived(t) = ToBag(real)
  BY DEF MemoryReceived
<1>p. at \in Bijection(1 .. n, 1 .. n)
  BY <1>0 DEF Sorts
<1> HIDE DEF t, N, n
<1>3. {i \in DOMAIN t : ~t[i].is_padding} = 1 .. n
  <2>1. \A i \in 1 .. N : i \in 1 .. n \/ i \in n + 1 .. N
    BY <1>1
  <2>2. \A i \in 1 .. n : i \in 1 .. N
    BY <1>1
  <2> QED
    BY <1>1, <2>1, <2>2
<1>4. real = [i \in 1 .. n |-> OpTuple(log[at[i]])]
  BY <1>1, <1>3 DEF OpTuple
<1>5. DOMAIN real = 1 .. n /\ DOMAIN ops = 1 .. n
  BY <1>4
<1>6. \A i \in 1 .. n : ops[at[i]] = real[i]
  <2> HIDE DEF real
  <2>1. \A i \in 1 .. n : real[i] = OpTuple(log[at[i]])
    BY <1>4
  <2>2. \A i \in 1 .. n : ops[at[i]] = OpTuple(log[at[i]])
    BY <1>1
  <2> QED
    BY <2>1, <2>2
<1>7. IsFiniteSet(1 .. n)
  BY <1>1, FS_Interval
<1> HIDE DEF real, ops
<1>8. ToBag(real) = ToBag(ops)
  BY <1>p, <1>5, <1>6, <1>7, SameBag
<1> QED
  BY <1>2, <1>8 DEF t, ops, n

\* Every transition towards a real row asks for the address comparison the
\* prover offers for that pair of neighbours, and it holds.
LEMMA AddressLtServed ==
  ASSUME NEW S, NEW log, IsLog(log, S)
  PROVE  /\ AddressLtSent(Table(log)) = Offered(AddressLtEntries(log))
         /\ \A k \in DOMAIN AddressLtEntries(log) :
              AddressLtEntries(log)[k][1] <= AddressLtEntries(log)[k][2]
<1>0. PICK at : Sorts(log, at)
  BY SortedOpsSorts
<1> DEFINE n == Len(log)
           N == NumRows(n)
           t == Table(log)
           addr(i) == log[at[i]].address
           asked == [i \in {i \in 1 .. Len(t) - 1 : ~t[i + 1].is_padding /\ TRUE} |->
                       <<t[i].address, t[i + 1].address, t[i].is_address_equal>>]
           es == AddressLtEntries(log)
<1>1. /\ n \in Nat /\ N \in Nat /\ N >= n /\ Len(t) = N
      /\ \A i \in n + 1 .. N : t[i].is_padding
      /\ \A i \in 1 .. n :
           at[i] \in 1 .. n /\ ~t[i].is_padding /\ t[i].address = addr(i)
      /\ \A i \in 1 .. N - 1 :
           t[i].is_address_equal <=> t[i].address = t[i + 1].address
  BY <1>0, TableRows
<1>b. \A i \in 1 .. N - 1 : t[i].is_address_equal \in BOOLEAN
  BY <1>0, TableFlags
<1>2. AddressLtSent(t) = ToBag(asked)
  BY DEF AddressLtSent, Sent, Transitions
<1>3. es = [i \in 1 .. n - 1 |-> <<addr(i), addr(i + 1)>>]
  <2>1. SortedOps(log) = [i \in 1 .. n |-> log[at[i]]]
    BY <1>0 DEF Sorts
  <2>2. \A i \in 1 .. n - 1 : i \in 1 .. n /\ i + 1 \in 1 .. n
    BY <1>1
  <2>3. \A i \in 1 .. n - 1 : SortedOps(log)[i] = log[at[i]] /\ SortedOps(log)[i + 1] = log[at[i + 1]]
    BY <2>1, <2>2
  <2> QED
    BY <2>3 DEF AddressLtEntries, Neighbours
<1>4. \A i, j \in 1 .. n : i < j => addr(i) <= addr(j)
  <2>1. \A i \in 1 .. n : addr(i) \in Nat
    BY <1>1 DEF IsLog
  <2>2. \A i, j \in 1 .. n : i < j => ByCell(log, at[i], at[j])
    BY <1>0 DEF Sorts
  <2> QED
    BY <2>1, <2>2 DEF ByCell
<1> HIDE DEF t, N, n, es, addr
<1>5. {i \in 1 .. Len(t) - 1 : ~t[i + 1].is_padding /\ TRUE} = 1 .. n - 1
  <2>1. ASSUME NEW i \in 1 .. Len(t) - 1, ~t[i + 1].is_padding
        PROVE  i \in 1 .. n - 1
    <3>1. i + 1 \notin n + 1 .. N
      BY <1>1, <2>1
    <3> QED
      BY <1>1, <3>1
  <2>2. ASSUME NEW i \in 1 .. n - 1
        PROVE  i \in 1 .. Len(t) - 1 /\ ~t[i + 1].is_padding
    <3>1. i + 1 \in 1 .. n /\ i \in 1 .. N - 1
      BY <1>1
    <3> QED
      BY <1>1, <3>1
  <2> QED
    BY <2>1, <2>2
<1>6. ASSUME NEW i \in 1 .. n - 1
      PROVE  <<t[i].address, t[i + 1].address, t[i].is_address_equal>>
               = <<es[i][1], es[i][2], es[i][1] = es[i][2]>>
  <2>1. i \in 1 .. n /\ i + 1 \in 1 .. n /\ i \in 1 .. N - 1
    BY <1>1
  <2>2. t[i].address = addr(i) /\ t[i + 1].address = addr(i + 1)
    BY <1>1, <2>1
  <2>3. es[i][1] = addr(i) /\ es[i][2] = addr(i + 1)
    BY <1>3
  <2>4. t[i].is_address_equal = (addr(i) = addr(i + 1))
    BY <1>1, <1>b, <2>1, <2>2
  <2> QED
    BY <2>2, <2>3, <2>4
<1>7. asked = [i \in DOMAIN es |-> <<es[i][1], es[i][2], es[i][1] = es[i][2]>>]
  <2>1. DOMAIN es = 1 .. n - 1
    BY <1>3
  <2> QED
    BY <1>5, <1>6, <2>1
<1>8. AddressLtSent(t) = Offered(es)
  BY <1>2, <1>7 DEF Offered
<1>9. ASSUME NEW k \in DOMAIN es
      PROVE  es[k][1] <= es[k][2]
  <2>1. k \in 1 .. n - 1 /\ es[k] = <<addr(k), addr(k + 1)>>
    BY <1>3
  <2>2. k \in 1 .. n /\ k + 1 \in 1 .. n /\ k < k + 1
    BY <1>1, <2>1
  <2> QED
    BY <1>4, <2>1, <2>2
<1> QED
  BY <1>8, <1>9 DEF t, es

\* Every transition towards a real row on the same address asks for the
\* timestamp comparison the prover offers for that pair, and it holds.
LEMMA TimestampLtServed ==
  ASSUME NEW S, NEW log, IsLog(log, S), log # <<>>
  PROVE  /\ TimestampLtSent(Table(log)) = Offered(TimestampLtEntries(log))
         /\ \A k \in DOMAIN TimestampLtEntries(log) :
              TimestampLtEntries(log)[k][1] < TimestampLtEntries(log)[k][2]
<1>0. PICK at : Sorts(log, at)
  BY SortedOpsSorts
<1> DEFINE n == Len(log)
           N == NumRows(n)
           t == Table(log)
           addr(i) == log[at[i]].address
           time(i) == log[at[i]].timestamp
           G == {i \in 1 .. n - 1 : addr(i) = addr(i + 1)}
           u == [i \in 1 .. n - 1 |-> <<time(i), time(i + 1)>>]
           asked == [i \in {i \in 1 .. Len(t) - 1 : ~t[i + 1].is_padding /\ t[i].is_address_equal} |->
                       <<t[i].timestamp, t[i + 1].timestamp, t[i].is_timestamp_equal>>]
           es == TimestampLtEntries(log)
           offered == [i \in DOMAIN es |-> <<es[i][1], es[i][2], es[i][1] = es[i][2]>>]
<1>1. /\ n \in Nat /\ N \in Nat /\ N >= n /\ Len(t) = N
      /\ \A i \in n + 1 .. N : t[i].is_padding
      /\ \A i \in 1 .. n : /\ at[i] \in 1 .. n /\ ~t[i].is_padding
                            /\ t[i].address = addr(i) /\ t[i].timestamp = time(i)
      /\ \A i \in 1 .. N - 1 :
           /\ t[i].is_address_equal <=> t[i].address = t[i + 1].address
           /\ t[i].is_timestamp_equal <=> t[i].timestamp = t[i + 1].timestamp
  BY <1>0, TableRows
<1>b. \A i \in 1 .. N - 1 : t[i].is_timestamp_equal \in BOOLEAN
  BY <1>0, TableFlags
<1>n. n >= 1
  <2>1. n # 0
    BY EmptySeq DEF IsLog
  <2> QED
    BY <1>1, <2>1
<1>2. TimestampLtSent(t) = ToBag(asked)
  BY DEF TimestampLtSent, Sent, Transitions
<1>t. \A i \in 1 .. n : time(i) \in Nat /\ addr(i) \in Nat
  BY <1>1 DEF IsLog
<1>3. es = FlattenSeq([i \in 1 .. n - 1 |-> IF i \in G THEN <<u[i]>> ELSE <<>>])
  <2>1. SortedOps(log) = [i \in 1 .. n |-> log[at[i]]]
    BY <1>0 DEF Sorts
  <2>2. \A i \in 1 .. n - 1 : i \in 1 .. n /\ i + 1 \in 1 .. n
    BY <1>1
  <2>3. \A i \in 1 .. n - 1 : SortedOps(log)[i] = log[at[i]] /\ SortedOps(log)[i + 1] = log[at[i + 1]]
    BY <2>1, <2>2
  <2> DEFINE ns == Neighbours(log)
  <2>4. ns = [i \in 1 .. n - 1 |-> <<log[at[i]], log[at[i + 1]]>>]
    BY <2>3 DEF Neighbours
  <2>5. es = FlattenSeq([i \in DOMAIN ns |->
                    IF ns[i][1].address = ns[i][2].address
                    THEN << <<ns[i][1].timestamp, ns[i][2].timestamp>> >> ELSE <<>>])
    BY DEF TimestampLtEntries
  <2> HIDE DEF ns, es
  <2>6. [i \in DOMAIN ns |-> IF ns[i][1].address = ns[i][2].address
                             THEN << <<ns[i][1].timestamp, ns[i][2].timestamp>> >> ELSE <<>>]
        = [i \in 1 .. n - 1 |-> IF i \in G THEN <<u[i]>> ELSE <<>>]
    BY <2>4
  <2> QED
    BY <2>5, <2>6
<1>4. \A i \in G : time(i) < time(i + 1)
  <2> SUFFICES ASSUME NEW i \in G PROVE time(i) < time(i + 1)
    OBVIOUS
  <2>1. i \in 1 .. n /\ i + 1 \in 1 .. n /\ i < i + 1 /\ addr(i) = addr(i + 1)
    BY <1>1
  <2>2. ByCell(log, at[i], at[i + 1])
    BY <1>0, <2>1 DEF Sorts
  <2>3. at[i] \in 1 .. n /\ at[i + 1] \in 1 .. n /\ addr(i) \in Nat
    BY <1>1, <1>t, <2>1
  <2>4. at[i] < at[i + 1]
    BY <2>1, <2>2, <2>3 DEF ByCell
  <2> QED
    BY <2>3, <2>4 DEF IsLog
<1> HIDE DEF t, N, n, es, addr, time
<1>5. u \in [1 .. n - 1 -> Nat \X Nat] /\ n - 1 \in Nat /\ G \in SUBSET (1 .. n - 1)
  <2>1. \A i \in 1 .. n - 1 : time(i) \in Nat /\ time(i + 1) \in Nat
    BY <1>1, <1>t
  <2> QED
    BY <1>1, <1>n, <2>1
<1>6. {i \in 1 .. Len(t) - 1 : ~t[i + 1].is_padding /\ t[i].is_address_equal} = G
  <2>1. ASSUME NEW i \in 1 .. Len(t) - 1, ~t[i + 1].is_padding, t[i].is_address_equal
        PROVE  i \in G
    <3>1. i + 1 \notin n + 1 .. N
      BY <1>1, <2>1
    <3>2. i \in 1 .. n - 1 /\ i \in 1 .. n /\ i + 1 \in 1 .. n /\ i \in 1 .. N - 1
      BY <1>1, <3>1
    <3> QED
      BY <1>1, <2>1, <3>2
  <2>2. ASSUME NEW i \in G
        PROVE  i \in 1 .. Len(t) - 1 /\ ~t[i + 1].is_padding /\ t[i].is_address_equal
    <3>1. i + 1 \in 1 .. n /\ i \in 1 .. n /\ i \in 1 .. N - 1
      BY <1>1
    <3> QED
      BY <1>1, <3>1
  <2> QED
    BY <2>1, <2>2
<1> HIDE DEF u, G
<1>7. /\ es \in Seq(Nat \X Nat)
      /\ \E p \in Bijection(G, 1 .. Len(es)) : \A i \in G : es[p[i]] = u[i]
  <2>1. PICK ss : ss = [i \in 1 .. n - 1 |-> IF i \in G THEN <<u[i]>> ELSE <<>>]
    OBVIOUS
  <2>2. es = FlattenSeq(ss)
    BY <1>3, <2>1
  <2>3. PICK m \in Nat : m = n - 1
    BY <1>5
  <2>p. PICK P : P = Nat \X Nat
    OBVIOUS
  <2>4. /\ FlattenSeq(ss) \in Seq(P)
        /\ \E p \in Bijection(G, 1 .. Len(FlattenSeq(ss))) :
             \A i \in G : FlattenSeq(ss)[p[i]] = u[i]
    <3>1. /\ u \in [1 .. m -> P] /\ G \in SUBSET (1 .. m)
          /\ Selects(ss, m, u, G)
      BY <1>5, <2>1, <2>3, <2>p DEF Selects
    <3> QED
      BY ONLY <3>1, m \in Nat, FlattenSelected
  <2> QED
    BY <2>2, <2>p, <2>4
<1>8. PICK p \in Bijection(G, 1 .. Len(es)) : \A i \in G : es[p[i]] = u[i]
  BY <1>7
<1>9. DOMAIN es = 1 .. Len(es) /\ DOMAIN offered = 1 .. Len(es) /\ DOMAIN asked = G
  BY <1>6, <1>7
<1>10. ASSUME NEW i \in G
       PROVE  offered[p[i]] = asked[i]
  <2>1. p[i] \in 1 .. Len(es) /\ es[p[i]] = u[i]
    BY <1>8 DEF Bijection, Injection
  <2>2. i \in 1 .. n /\ i + 1 \in 1 .. n /\ i \in 1 .. N - 1 /\ i \in 1 .. n - 1
    BY <1>1 DEF G
  <2>3. u[i] = <<time(i), time(i + 1)>>
    BY <2>2 DEF u
  <2>4. t[i].timestamp = time(i) /\ t[i + 1].timestamp = time(i + 1)
    BY <1>1, <2>2
  <2>5. t[i].is_timestamp_equal = (time(i) = time(i + 1))
    BY <1>1, <1>b, <2>2, <2>4
  <2>6. asked[i] = <<time(i), time(i + 1), time(i) = time(i + 1)>>
    BY <1>6, <2>4, <2>5
  <2>7. offered[p[i]] = <<es[p[i]][1], es[p[i]][2], es[p[i]][1] = es[p[i]][2]>>
    BY <1>9, <2>1
  <2>8. es[p[i]][1] = time(i) /\ es[p[i]][2] = time(i + 1)
    BY <2>1, <2>3
  <2> HIDE DEF offered, asked
  <2> QED
    BY <2>6, <2>7, <2>8
<1>11. IsFiniteSet(G)
  <2>1. IsFiniteSet(1 .. n - 1)
    BY <1>5, FS_Interval
  <2> QED
    BY <1>5, <2>1, FS_Subset
<1>12. TimestampLtSent(t) = ToBag(offered)
  <2> HIDE DEF asked, offered
  <2>1. ToBag(asked) = ToBag(offered)
    BY <1>8, <1>9, <1>10, <1>11, SameBag
  <2> QED
    BY <1>2, <2>1
<1>13. TimestampLtSent(t) = Offered(es)
  BY <1>12 DEF Offered
<1>14. ASSUME NEW k \in DOMAIN es
       PROVE  es[k][1] < es[k][2]
  <2>1. PICK i \in G : p[i] = k
    BY <1>8, <1>9 DEF Bijection, Surjection
  <2>2. es[k] = <<time(i), time(i + 1)>>
    BY <1>8, <2>1 DEF u, G
  <2> QED
    BY <1>4, <2>2
<1> QED
  BY <1>13, <1>14 DEF t, es
=============================================================================
