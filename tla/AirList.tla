------------------------------- MODULE AirList ------------------------------
(***************************************************************************)
(* How a proof is assembled in crates/prover/src/lib.rs.  generate_traces  *)
(* classifies the steps of a run, builds a table for every instruction     *)
(* that occurs and for the lookups these make, and lists the AIRs; then    *)
(* AllTraces::into_vecs lists the tables and the public values again, and  *)
(* do_prove pairs the three lists by position.                             *)
(*                                                                         *)
(* The module continues InstructionTables, which fills the tables of the   *)
(* instructions: here a table is the name of the AIR it was built for, and *)
(* what the rows of an instruction look up decides the tables they need.   *)
(***************************************************************************)
EXTENDS InstructionTables

UKinds == {"Lui", "Auipc"}

FixedAirs == <<"Boundaries", "Decode", "Memory", "Program", "Bytes", "And", "Or", "Xor",
               "U32Lt", "TimestampLt", "BytesLt", "OrPrim">>

\* The AIRs that depend on the run, in the order of the list, and the kinds
\* any of which asks for them.
OptionalAirs ==
  << <<"Add", {"Add"}>>, <<"Addi", {"AddI"}>>, <<"Andi", {"AndiI"}>>, <<"Ori", {"OriI"}>>,
     <<"Sub", {"Sub"}>>, <<"Xori", {"XorI"}>>, <<"XorInstr", {"Xor"}>>, <<"OrInstr", {"Or"}>>,
     <<"AndInstr", {"And"}>>, <<"AndPrim", {"And"}>>, <<"Sll", {"Sll"}>>,
     <<"ByteSll", {"Sll", "SlliI"}>>, <<"Srl", {"Srl"}>>,
     <<"ByteSrl", {"Srl", "Sra", "SrliI", "SraiI"}>>, <<"Sra", {"Sra"}>>,
     <<"Slli", {"SlliI"}>>, <<"Srli", {"SrliI"}>>, <<"Srai", {"SraiI"}>>, <<"Slt", {"Slt"}>>,
     <<"Sltu", {"Sltu"}>>, <<"Slti", {"SltiI"}>>, <<"Sltiu", {"SltiuI"}>>, <<"Lui", {"Lui"}>>,
     <<"Auipc", {"Auipc"}>>, <<"Jal", {"Jal"}>>, <<"Jalr", {"Jalr"}>> >>

\* Mutant: only the register shift asks for the table of left shifts.
TableNeedsRegisterShift(table) ==
  IF table = "ByteSll" THEN {"Sll"}
  ELSE LET at == CHOOSE k \in DOMAIN OptionalAirs : OptionalAirs[k][1] = table
       IN  OptionalAirs[at][2]

\* The kinds for which generate_traces builds an optional table: an
\* instruction table for its own, a lookup table for those it serves.
TableNeeds(table) ==
  CASE table = "AndPrim" -> {"And"}
    [] table = "ByteSll" -> {"Sll", "SlliI"}
    [] table = "ByteSrl" -> {"Srl", "Sra", "SrliI", "SraiI"}
    [] OTHER -> LET at == CHOOSE k \in DOMAIN OptionalAirs : OptionalAirs[k][1] = table
                IN  OptionalAirs[at][2]

\* The order in which into_vecs takes the optional tables.
TableOrder ==
  <<"Add", "Addi", "Andi", "Ori", "Sub", "Xori", "XorInstr", "OrInstr", "AndInstr", "AndPrim",
    "Sll", "ByteSll", "Srl", "ByteSrl", "Sra", "Slli", "Srli", "Srai", "Slt", "Sltu",
    "Slti", "Sltiu", "Lui", "Auipc", "Jal", "Jalr">>

(***************************************************************************)
(* The buses: what the rows of an instruction send on, what the tables     *)
(* send on, and which rows the receiving tables answer or count.  The      *)
(* trace bus, on which the instructions chain, has no table.               *)
(***************************************************************************)
DecodeBus(k) == IF k \in UKinds THEN "decode_u" ELSE IF k = "Jal" THEN "decode_j" ELSE "decode"

LogicBus(k) == CASE k \in {"And", "AndiI"} -> "bytes_and"
                 [] k \in {"Or", "OriI"}   -> "bytes_or"
                 [] k \in {"Xor", "XorI"}  -> "bytes_xor"

\* The buses on which the rows of an instruction look something up.
InstructionSends(k) ==
  {"memory", DecodeBus(k)}
    \cup UNION {{Sends(k, tables[k][i])[n][1] : n \in DOMAIN Sends(k, tables[k][i])} :
                  i \in RealRows(k)}

TableSends(table) ==
  CASE table = "Decode"      -> {"program"}
    [] table = "Memory"      -> {"u32_lt", "timestamp_lt"}
    [] table = "U32Lt"       -> {"bytes_lt"}
    [] table = "ProgramHash" -> {"program_image", "bytes", "poseidon2_perm"}
    [] OTHER                 -> {}

\* Mutant: the table of the immediate counts both kinds of conjunction.
LogicServesTwice(table) ==
  CASE table = "And"     -> {"AndiI", "And"}
    [] table = "AndPrim" -> {"And"}
    [] table = "Or"      -> {"OriI"}
    [] table = "OrPrim"  -> {"Or"}
    [] table = "Xor"     -> {"XorI", "Xor"}
    [] OTHER             -> {}

\* The logic instructions counted in a logic table.
LogicServes(table) ==
  CASE table = "And"     -> {"AndiI"}
    [] table = "AndPrim" -> {"And"}
    [] table = "Or"      -> {"OriI"}
    [] table = "OrPrim"  -> {"Or"}
    [] table = "Xor"     -> {"XorI", "Xor"}
    [] OTHER             -> {}

\* The lookups of instructions a table answers, by bus and kind.
Serves(table) ==
  CASE table = "Memory"  -> {"memory"} \X Ops
    [] table = "Decode"  -> {<<DecodeBus(k), k>> : k \in Ops}
    [] table = "Bytes"   -> {"bytes"} \X (Ops \ {"Or", "And", "XorI", "OriI", "AndiI"})
    [] table = "ByteSll" -> {"byte_sll"} \X {"Sll", "SlliI"}
    [] table = "ByteSrl" -> {"byte_srl"} \X {"Srl", "Sra", "SrliI", "SraiI"}
    [] OTHER             -> {<<LogicBus(k), k>> : k \in LogicServes(table)}

\* The other receivers.
Receives(table) ==
  CASE table = "Program"       -> {"program", "program_image"}
    [] table = "U32Lt"         -> {"u32_lt"}
    [] table = "TimestampLt"   -> {"timestamp_lt"}
    [] table = "BytesLt"       -> {"bytes_lt"}
    [] table = "Bytes"         -> {"bytes"}
    [] table = "Poseidon2Chip" -> {"poseidon2_perm"}
    [] OTHER                   -> {}

(***************************************************************************)
(* Assembling a proof.                                                     *)
(***************************************************************************)
VARIABLES
  all_traces, \* the AIRs and the set of tables built, or <<>>
  vecs,       \* the three lists of into_vecs, or <<>>
  instances   \* what do_prove pairs, or <<>>

listVars == <<tvars, all_traces, vecs, instances>>

ListInit == TablesInit /\ all_traces = <<>> /\ vecs = <<>> /\ instances = <<>>

\* The kinds of the instructions executed.
has == {trace[i].op : i \in DOMAIN trace}

ExecuteStep == Execute /\ UNCHANGED <<all_traces, vecs, instances>>

\* The AIRs and the tables of a run with the kinds h.  ProgramHash and
\* Poseidon2Chip are built in any run and stand at the end.
LastAirs == <<"ProgramHash", "Poseidon2Chip">>

Asked(h) ==
  [k \in DOMAIN OptionalAirs |->
     IF OptionalAirs[k][2] \cap h # {} THEN <<OptionalAirs[k][1]>> ELSE <<>>]

AirsFor(h) == FixedAirs \o FlattenSeq(Asked(h)) \o LastAirs
TablesFor(h) ==
  ToSet(FixedAirs) \cup {"ProgramHash", "Poseidon2Chip"}
    \cup {t \in ToSet(TableOrder) : TableNeeds(t) \cap h # {}}

GenerateAllTraces ==
  /\ GenerateTraces
  /\ all_traces' = [airs |-> AirsFor(has), tables |-> TablesFor(has)]
  /\ UNCHANGED <<vecs, instances>>

\* The tables in the order of into_vecs, and the public values of n AIRs.
Built(present) ==
  [k \in DOMAIN TableOrder |-> IF TableOrder[k] \in present THEN <<TableOrder[k]>> ELSE <<>>]

TracesOf(present) == FixedAirs \o FlattenSeq(Built(present)) \o LastAirs
PublicValues(n)   == [k \in 1 .. n |-> IF k = n - 1 THEN "digest_and_length" ELSE "none"]

\* The public values go to the last AIR but one, of which it is asserted that
\* it is ProgramHash, as it is that the last one is the chip.
IntoVecs ==
  /\ all_traces # <<>> /\ vecs = <<>>
  /\ LET airs == all_traces.airs
         last == Len(airs)
     IN  /\ airs[last - 1] = "ProgramHash" /\ airs[last] = "Poseidon2Chip"
         /\ vecs' = [airs   |-> airs,
                     traces |-> TracesOf(all_traces.tables),
                     pvs    |-> PublicValues(last)]
  /\ UNCHANGED <<tvars, all_traces, instances>>

\* zip ends silently with the shorter list.
Zipped(airs, traces, pvs) ==
  [k \in 1 .. Min({Len(airs), Len(traces), Len(pvs)}) |->
     [air |-> airs[k], trace |-> traces[k], public_values |-> pvs[k]]]

DoProve ==
  /\ vecs # <<>> /\ instances = <<>>
  /\ Len(vecs.pvs) = Len(vecs.airs)
  /\ instances' = Zipped(vecs.airs, vecs.traces, vecs.pvs)
  /\ UNCHANGED <<tvars, all_traces, vecs>>

\* The proof is made: the only state in which nothing is left to do.  In any
\* other, an assertion that fails is a deadlock.
Proved == instances # <<>> /\ UNCHANGED listVars

ListNext == ExecuteStep \/ GenerateAllTraces \/ IntoVecs \/ DoProve \/ Proved

ListSpec == ListInit /\ [][ListNext]_listVars

(***************************************************************************)
(* Properties                                                              *)
(***************************************************************************)
\* Whatever instructions a run has, every AIR is proved, once, over the table
\* that was built for it, none is left without a partner by the pairing, and
\* the digest and length are the public values of the one AIR that has some.
InstancesMatch ==
  instances # <<>> =>
    /\ [k \in DOMAIN instances |-> instances[k].air] = all_traces.airs
    /\ \A k \in DOMAIN instances :
         /\ instances[k].trace = instances[k].air
         /\ instances[k].public_values # "none" <=> instances[k].air = "ProgramHash"
    /\ IsInjective(all_traces.airs)
    /\ {instances[k].trace : k \in DOMAIN instances} = all_traces.tables

\* Whatever instructions a run has, each lookup of each of them is answered by
\* exactly one of the tables proved, no present table counts a lookup nobody
\* makes, and the tables these look into are there too.
LookupsServed ==
  instances # <<>> =>
    LET present == {instances[k].trace : k \in DOMAIN instances}
    IN  /\ \A k \in has :
             /\ \A bus \in InstructionSends(k) :
                  Cardinality({t \in present : <<bus, k>> \in Serves(t)}) = 1
             /\ \A t \in present : \A lookup \in Serves(t) :
                  lookup[2] = k => lookup[1] \in InstructionSends(k)
        /\ \A t \in present : \A bus \in TableSends(t) :
             \E u \in present : bus \in Receives(u)

=============================================================================
