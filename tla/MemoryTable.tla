----------------------------- MODULE MemoryTable ----------------------------
(***************************************************************************)
(* The memory argument: the table crates/air/src/memory/trace.rs builds    *)
(* from the log of a run, the constraints and the lookups of the AIR in    *)
(* crates/air/src/memory/air.rs, and the comparison entries the prover     *)
(* derives from the same log (memory_lookup_entries).                      *)
(*                                                                         *)
(* Addresses, timestamps and values are numbers: the four byte limbs of    *)
(* each are constrained alike.  The VM only emits register operations, so  *)
(* memory_type is Register in every row, padding included, and the         *)
(* constraints on it hold trivially; they are left out with the column.    *)
(***************************************************************************)
EXTENDS Numbers, Sequences, SequencesExt, FiniteSets

\* The place of log[k] in log sorted by Less; elements that are not in order
\* keep the one they are in.
Rank(log, Less(_, _)) ==
  LET Before(j, k) == \/ Less(log[j], log[k])
                      \/ ~Less(log[k], log[j]) /\ j < k
  IN  [k \in DOMAIN log |-> 1 + Cardinality({j \in DOMAIN log : Before(j, k)})]

StableSort(log, Less(_, _)) ==
  LET rank == Rank(log, Less)
  IN  [i \in DOMAIN log |-> log[CHOOSE k \in DOMAIN log : rank[k] = i]]

\* Mutant: sorted by time alone.
SortedByTime(log) == StableSort(log, LAMBDA o, p : o.timestamp < p.timestamp)

\* sort_by_key((memory_type, address, timestamp)).
SortedOps(log) ==
  StableSort(log, LAMBDA o, p : \/ o.address < p.address
                                \/ o.address = p.address /\ o.timestamp < p.timestamp)

RealRow(o) == [is_padding |-> FALSE, address |-> o.address, timestamp |-> o.timestamp,
               read |-> o.old_value, write |-> o.new_value]
PaddingRow == [is_padding |-> TRUE, address |-> 0, timestamp |-> 0, read |-> 0, write |-> 0]

\* The rows without their flags, then with the equality flags between each row
\* and the next (padding included); the flags of the last row stay 0.
PlainRows(log) ==
  LET ops == SortedOps(log)
  IN  [i \in 1 .. NumRows(Len(log)) |->
         IF i <= Len(log) THEN RealRow(ops[i]) ELSE PaddingRow]

Table(log) ==
  LET rows == PlainRows(log)
  IN  [i \in DOMAIN rows |->
         [is_padding |-> rows[i].is_padding,
          address    |-> rows[i].address,
          timestamp  |-> rows[i].timestamp,
          read       |-> rows[i].read,
          write      |-> rows[i].write,
          is_address_equal   |-> i < Len(rows) /\ rows[i].address = rows[i + 1].address,
          is_timestamp_equal |-> i < Len(rows) /\ rows[i].timestamp = rows[i + 1].timestamp]]

(***************************************************************************)
(* MemoryAir.                                                              *)
(***************************************************************************)
Transitions(t) == 1 .. Len(t) - 1

PaddingIsLast(t) ==
  \A i \in Transitions(t) : t[i].is_padding => t[i + 1].is_padding

\* The first operation on an address reads 0.
FreshReadsZero(t) ==
  /\ t[1].read = 0
  /\ \A i \in Transitions(t) : ~t[i].is_address_equal => t[i + 1].read = 0

\* Every other operation reads what the one before it wrote.
ReadsFollowWrites(t) ==
  \A i \in Transitions(t) : t[i].is_address_equal => t[i + 1].read = t[i].write

AirAccepts(t) == PaddingIsLast(t) /\ FreshReadsZero(t) /\ ReadsFollowWrites(t)

\* The lookups of transition i are sent only towards a real row.
Sent(t, Gate(_), Tuple(_)) ==
  ToBag([i \in {i \in Transitions(t) : ~t[i + 1].is_padding /\ Gate(i)} |-> Tuple(i)])

AddressLtSent(t) ==
  Sent(t, LAMBDA i : TRUE,
       LAMBDA i : <<t[i].address, t[i + 1].address, t[i].is_address_equal>>)

TimestampLtSent(t) ==
  Sent(t, LAMBDA i : t[i].is_address_equal,
       LAMBDA i : <<t[i].timestamp, t[i + 1].timestamp, t[i].is_timestamp_equal>>)

\* The operations the AIR receives on the memory bus: its real rows.
MemoryReceived(t) ==
  ToBag([i \in {i \in DOMAIN t : ~t[i].is_padding} |->
           <<t[i].timestamp, t[i].address, t[i].read, t[i].write>>])

(***************************************************************************)
(* memory_lookup_entries: pairs of neighbours in the sorted log.  The      *)
(* comparison AIRs add the equality flag they compute from the pair.       *)
(***************************************************************************)
Neighbours(log) ==
  LET ops == SortedOps(log)
  IN  [i \in 1 .. Len(log) - 1 |-> <<ops[i], ops[i + 1]>>]

AddressLtEntries(log) ==
  LET ns == Neighbours(log)
  IN  [i \in DOMAIN ns |-> <<ns[i][1].address, ns[i][2].address>>]

\* Mutant: an entry for every pair of neighbours.
TimestampLtForAll(log) ==
  LET ns == Neighbours(log)
  IN  [i \in DOMAIN ns |-> <<ns[i][1].timestamp, ns[i][2].timestamp>>]

TimestampLtEntries(log) ==
  LET ns == Neighbours(log)
  IN  FlattenSeq([i \in DOMAIN ns |->
                    IF ns[i][1].address = ns[i][2].address
                    THEN << <<ns[i][1].timestamp, ns[i][2].timestamp>> >> ELSE <<>>])

\* What a comparison table offers: its entries with their equality flag.
Offered(entries) ==
  ToBag([i \in DOMAIN entries |-> <<entries[i][1], entries[i][2], entries[i][1] = entries[i][2]>>])

=============================================================================
