----------------------------- MODULE MemoryTypes ----------------------------
(***************************************************************************)
(* The memory table with both of its address spaces.  MemoryOperation of   *)
(* crates/vm/src/lib.rs has a memory_type, and crates/air/src/memory and   *)
(* memory_lookup_entries of crates/prover/src/lib.rs treat registers       *)
(* (type 0) and RAM (type 1).  The VM emits operations on registers only,  *)
(* and Prover composes it with MemoryTable, which leaves the type out; the *)
(* unit tests of memory/trace.rs give the builder RAM operations too.      *)
(* A log here is any history of both spaces.                               *)
(***************************************************************************)
EXTENDS MemoryTable

Register == 0
Ram      == 1

\* Mutant: sorted by address and timestamp only.
SortedUntyped(log) ==
  StableSort(log, LAMBDA o, p : \/ o.address < p.address
                                \/ o.address = p.address /\ o.timestamp < p.timestamp)

TypedSorted(log) ==
  StableSort(log, LAMBDA o, p :
    \/ o.memory_type < p.memory_type
    \/ o.memory_type = p.memory_type
         /\ \/ o.address < p.address
            \/ o.address = p.address /\ o.timestamp < p.timestamp)

\* The table; a row of padding has type 0.  The three flags of a row compare
\* it to the next one each on its own.
TypedRows(log) ==
  [i \in 1 .. NumRows(Len(log)) |->
     IF i <= Len(log)
     THEN RealRow(TypedSorted(log)[i]) ++ [memory_type |-> TypedSorted(log)[i].memory_type]
     ELSE PaddingRow ++ [memory_type |-> Register]]

TypedTable(log) ==
  LET rows == TypedRows(log)
      Same(i, a, b) == i < Len(rows) /\ a = b
      Next(i) == rows[IF i < Len(rows) THEN i + 1 ELSE i]
  IN  [i \in DOMAIN rows |->
         [is_memory_type_equal |-> Same(i, rows[i].memory_type, Next(i).memory_type),
          is_address_equal     |-> Same(i, rows[i].address, Next(i).address),
          is_timestamp_equal   |-> Same(i, rows[i].timestamp, Next(i).timestamp)] ++ rows[i]]

(***************************************************************************)
(* MemoryAir on the types.                                                 *)
(***************************************************************************)
TypeFlagHolds(t) ==
  \A i \in Transitions(t) :
    IF t[i].is_memory_type_equal THEN t[i + 1].memory_type = t[i].memory_type
                                 ELSE t[i].memory_type + t[i + 1].memory_type \in {1, 2}

RegistersFirst(t) ==
  \A i \in Transitions(t) : t[i].memory_type = Ram => t[i + 1].memory_type = Ram

TypedAccepts(t) == AirAccepts(t) /\ TypeFlagHolds(t) /\ RegistersFirst(t)

\* Addresses are compared within a space, timestamps wherever the addresses
\* are equal.
TypedAddressLtSent(t) ==
  Sent(t, LAMBDA i : t[i].is_memory_type_equal,
       LAMBDA i : <<t[i].address, t[i + 1].address, t[i].is_address_equal>>)

\* Mutant: pairs of both spaces are offered too.
NeighboursAcross(log) ==
  [i \in 1 .. Len(log) - 1 |-> <<TypedSorted(log)[i], TypedSorted(log)[i + 1]>>]

\* memory_lookup_entries: neighbours of the same type.
TypedNeighbours(log) ==
  LET ops == TypedSorted(log)
  IN  FlattenSeq([i \in 1 .. Len(log) - 1 |->
                    IF ops[i].memory_type = ops[i + 1].memory_type
                    THEN << <<ops[i], ops[i + 1]>> >> ELSE <<>>])

TypedAddressLtEntries(log) ==
  LET ns == TypedNeighbours(log)
  IN  [i \in DOMAIN ns |-> <<ns[i][1].address, ns[i][2].address>>]

TypedTimestampLtEntries(log) ==
  LET ns == TypedNeighbours(log)
  IN  FlattenSeq([i \in DOMAIN ns |->
                    IF ns[i][1].address = ns[i][2].address
                    THEN << <<ns[i][1].timestamp, ns[i][2].timestamp>> >> ELSE <<>>])

=============================================================================
