------------------------------- MODULE Prover -------------------------------
(***************************************************************************)
(* generate_traces of crates/prover/src/lib.rs: the VM is run to its end,  *)
(* then the witness tables are built from the execution trace.  The module *)
(* composes the VM with the memory table and adds the other tables whose   *)
(* rows must fit together on a bus: one row per step in the AIR of its     *)
(* instruction, the two boundary rows, the decode rows and the program ROM.*)
(*                                                                         *)
(* A bus is balanced when the bag of the tuples sent on it is the bag of   *)
(* the tuples received.  The properties say that the tables of an honest   *)
(* run satisfy their constraints and balance their buses, so that the run  *)
(* can be proved.                                                          *)
(***************************************************************************)
EXTENDS Vm, MemoryTable

CONSTANT LimbSize  \* number of values of a limb of a u32 (256 in the code)

ASSUME LimbAssumption == LimbSize \in Nat \ {0}

VARIABLES
  stage,      \* "executing", "built", or "refused" when a builder panics
  all_traces  \* the tables, once built

proverVars == <<vars, stage, all_traces>>

\* VM::get_memory_ops: the operations of every step, in order.
Log == FlattenSeq([i \in Steps |-> trace[i].memory_ops])

(***************************************************************************)
(* The row of a step in the table of its instruction.                      *)
(***************************************************************************)
\* Mutant: the AIR of Jal sends its write for every rd.
SendsAlways(i) ==
  CASE i.op \in ImmediateOps \cup {"Jalr"} -> <<i.rs1, i.rd>>
    [] i.op \in RegisterOps                -> <<i.rs1, i.rs2, i.rd>>
    [] i.op \in UpperOps \cup {"Jal"}      -> <<i.rd>>

\* The operations an instruction's AIR sends on the memory bus, by address.
\* The AIR of Jal gates its only one with rd # 0.
Sends(i) ==
  CASE i.op \in ImmediateOps \cup {"Jalr"} -> <<i.rs1, i.rd>>
    [] i.op \in RegisterOps                -> <<i.rs1, i.rs2, i.rd>>
    [] i.op \in UpperOps                   -> <<i.rd>>
    [] i.op = "Jal"                        -> IF i.rd = 0 THEN <<>> ELSE <<i.rd>>

\* The timestamps between the state an AIR receives and the one it sends.
Ticks(i) ==
  CASE i.op \in ImmediateOps \cup {"Jalr"} -> 2
    [] i.op \in RegisterOps                -> 3
    [] i.op \in UpperOps \cup {"Jal"}      -> 1

\* Mutant: a step consumes as many timestamps as it logs operations.
ConsumedOps(step) == Len(step.memory_ops)

\* extract_jal_steps rebuilds the clock, because a Jal to x0 logs nothing:
\* running_ts[n] is its value after n steps.
Consumed(step) ==
  IF step.memory_ops = <<>> /\ step.instruction.op = "Jal" /\ step.instruction.rd = 0
  THEN 1 ELSE Len(step.memory_ops)

RunningTs ==
  LET ts[n \in 0 .. Len(trace)] ==
        IF n = 0 THEN 0 ELSE ts[n - 1] + Consumed(trace[n])
  IN  ts

EntryTimestamp(i) ==
  IF trace[i].memory_ops = <<>> THEN RunningTs[i - 1] ELSE Op(i, 1).timestamp

NextPc(i) ==
  LET s == trace[i]
  IN  CASE s.instruction.op = "Jal"  -> Plus(s.pc, s.instruction.imm)
        [] s.instruction.op = "Jalr" ->
             ClearLsb(Plus(Op(i, 1).new_value, s.instruction.imm))
        [] OTHER -> Plus(s.pc, 4)

\* rd_val is the logged value, or pc + 4 for the Jal that logs nothing.
InstructionRow(i) ==
  LET s == trace[i]
  IN  [instruction |-> s.instruction, pc |-> s.pc, timestamp |-> EntryTimestamp(i),
       operands |-> [k \in 1 .. Len(s.memory_ops) - 1 |-> Op(i, k).new_value],
       old_rd_value |-> IF s.memory_ops = <<>> THEN 0
                        ELSE Op(i, Len(s.memory_ops)).old_value,
       rd_val |-> IF s.memory_ops = <<>> THEN Plus(s.pc, 4)
                  ELSE Op(i, Len(s.memory_ops)).new_value,
       next_pc |-> NextPc(i)]

\* What the AIR of the row's instruction asks of rd_val.
RowAccepts(row) ==
  LET i == row.instruction
  IN  row.rd_val =
        CASE i.op \in ImmediateOps    -> Alu(i.op, row.operands[1], i.imm)
          [] i.op \in RegisterOps     -> Alu(i.op, row.operands[1], row.operands[2])
          [] i.op \in UpperOps        -> Alu(i.op, row.pc, i.imm)
          [] i.op \in {"Jal", "Jalr"} -> Plus(row.pc, 4)

\* The tuples of the row on the memory bus; the last one is the write of rd.
MemorySends(row) ==
  LET to == Sends(row.instruction)
  IN  [k \in DOMAIN to |->
         IF k = Len(to)
         THEN <<row.timestamp + k - 1, to[k], row.old_rd_value, row.rd_val>>
         ELSE <<row.timestamp + k - 1, to[k], row.operands[k], row.operands[k]>>]

(***************************************************************************)
(* The program ROM and the decode rows.  An address is kept as the low     *)
(* limb and the rest, a program byte as the offset it stands at.           *)
(***************************************************************************)
LowLimb(a)  == a % LimbSize
HighLimb(a) == a \div LimbSize

\* The decode AIR adds 0 .. 3 to the low limb of pc; offset is where the
\* instruction word of the row was read.
FetchSends(at, offset) ==
  [k \in 1 .. 4 |-> <<HighLimb(at), LowLimb(at) + k - 1, offset + k - 1>>]

\* Padding rows of the decode table: pc = 0 and the word of the first step.
DecodePadding == NumRows(Len(trace)) - Len(trace)

DecodeFetches ==
  FlattenSeq([i \in Steps |-> FetchSends(trace[i].pc, trace[i].pc)]
             \o [i \in 1 .. DecodePadding |-> FetchSends(0, trace[1].pc)])

\* Mutant: the padding of the decode table is not counted.
RomMultsReal ==
  [a \in 0 .. NumRows(program.len) - 1 |->
     Cardinality({i \in Steps : a \in trace[i].pc .. trace[i].pc + 3})]

RomMults ==
  [a \in 0 .. NumRows(program.len) - 1 |->
     Cardinality({i \in Steps : a \in trace[i].pc .. trace[i].pc + 3})
     + IF a < 4 THEN DecodePadding ELSE 0]

RomReceived(mults) ==
  LET used == {a \in DOMAIN mults : mults[a] > 0}
  IN  [t \in {<<HighLimb(a), LowLimb(a), a>> : a \in used} |-> mults[t[3]]]

(***************************************************************************)
(* The actions.                                                            *)
(***************************************************************************)
ProverInit == Init /\ stage = "executing" /\ all_traces = <<>>

Execute == Next /\ stage = "executing" /\ UNCHANGED <<stage, all_traces>>

GenerateTraces ==
  /\ stage = "executing" /\ Halted
  /\ trace # <<>> /\ Log # <<>>
  /\ stage' = "built"
  /\ \E memory_ops \in {Log} :
       all_traces' =
         [memory         |-> Table(memory_ops),
          u32_lt         |-> AddressLtEntries(memory_ops),
          timestamp_lt   |-> TimestampLtEntries(memory_ops),
          instructions   |-> [i \in Steps |-> InstructionRow(i)],
          boundaries     |-> <<[pc |-> 0, timestamp |-> 0], [pc |-> pc, timestamp |-> timestamp]>>,
          decode_fetches |-> DecodeFetches,
          rom_mults      |-> RomMults]
  /\ UNCHANGED vars

\* "no steps", or "memory trace must have at least one operation".
Refuse ==
  /\ stage = "executing" /\ Halted
  /\ trace = <<>> \/ Log = <<>>
  /\ stage' = "refused"
  /\ UNCHANGED <<vars, all_traces>>

ProverNext == Execute \/ GenerateTraces \/ Refuse

ProverSpec == ProverInit /\ [][ProverNext]_proverVars

\* Nothing else runs: `run` is a loop of one thread without waiting, and what
\* follows it is sequential code.
FairProverSpec == ProverSpec /\ WF_proverVars(ProverNext)

(***************************************************************************)
(* Properties                                                              *)
(***************************************************************************)
Built == stage = "built"

\* Every operation of the run is on x0, the last one left a nonzero value
\* there, and the table has padding rows, which repeat address 0 and read 0.
EndsInX0 ==
  /\ \A k \in DOMAIN Log : Log[k].address = 0
  /\ Log[Len(Log)].new_value # 0
  /\ NumRows(Len(Log)) > Len(Log)

\* The table sorted by address and time is a consistent memory to the AIR,
\* padding transitions included, whatever the interleaving of the registers
\* in the run.  The two exceptions both come from nonzero values in x0, and
\* the second one is always refused.
MemoryAccepted ==
  Built /\ ~DroppedWrite => (AirAccepts(all_traces.memory) <=> ~EndsInX0)

\* Every operation an instruction's AIR claims to have made is a row of the
\* memory table and conversely: the timestamps rebuilt by the instruction
\* tables agree with those the VM gave, also after jumps that log nothing.
MemoryBusBalanced ==
  Built => LET rows == all_traces.instructions
           IN  ToBag(FlattenSeq([i \in DOMAIN rows |-> MemorySends(rows[i])]))
                 = MemoryReceived(all_traces.memory)

\* The rows of the instruction tables chain from (0, 0) to the final pc and
\* clock: what each sends is received by the next.
TraceBusBalanced ==
  Built =>
    LET rows == all_traces.instructions
        ends == all_traces.boundaries
    IN  ToBag(Append([i \in DOMAIN rows |->
                        <<rows[i].next_pc, rows[i].timestamp + Ticks(rows[i].instruction)>>],
                     <<ends[1].pc, ends[1].timestamp>>))
        = ToBag(Append([i \in DOMAIN rows |-> <<rows[i].pc, rows[i].timestamp>>],
                       <<ends[2].pc, ends[2].timestamp>>))

\* The comparisons the memory AIR asks for are the ones the prover offers,
\* as many times; and they hold: addresses ascend, timestamps do strictly.
ComparisonsBalanced ==
  Built =>
    /\ AddressLtSent(all_traces.memory) = Offered(all_traces.u32_lt)
    /\ TimestampLtSent(all_traces.memory) = Offered(all_traces.timestamp_lt)
    /\ \A k \in DOMAIN all_traces.u32_lt :
         all_traces.u32_lt[k][1] <= all_traces.u32_lt[k][2]
    /\ \A k \in DOMAIN all_traces.timestamp_lt :
         all_traces.timestamp_lt[k][1] < all_traces.timestamp_lt[k][2]

\* The four fetches of every decode row, padding included, are answered by
\* the ROM as often as they are made exactly when no instruction straddles a
\* limb boundary, and no fetch counts a byte past the end of the program.
ProgramBusBalanced ==
  Built =>
    /\ ToBag(all_traces.decode_fetches) = RomReceived(all_traces.rom_mults)
         <=> \A i \in Steps : LowLimb(trace[i].pc) + 3 < LimbSize
    /\ \A a \in DOMAIN all_traces.rom_mults :
         a >= program.len => all_traces.rom_mults[a] = 0

\* A row satisfies its AIR, that is the value it puts in rd, recomputed from
\* the logged operands, is the logged one, exactly when it is not a Jalr to x0
\* with a link to write.
RowsAccepted ==
  Built => \A i \in DOMAIN all_traces.instructions :
             LET row == all_traces.instructions[i]
             IN  RowAccepts(row) <=>
                   ~(/\ row.instruction.op = "Jalr" /\ row.instruction.rd = 0
                     /\ Plus(row.pc, 4) # 0)

\* Every run comes to an end, in tables or in a panic, but for a program that
\* comes back to a state it was in: wherever a jump leads, inside the program,
\* between two instructions, at its end or past it, something follows.
ProverEnds == <>(stage \in {"built", "refused"} \/ panicked \/ Looping)

(***************************************************************************)
(* A claim of the repository's comments.                                   *)
(***************************************************************************)
\* crates/air/src/instructions/jalr/air.rs:25: "rd_val = pc + 4", for every
\* row of the Jalr table.
JalrLinks ==
  Built => \A i \in DOMAIN all_traces.instructions :
             LET row == all_traces.instructions[i]
             IN  row.instruction.op = "Jalr" => row.rd_val = Plus(row.pc, 4)

=============================================================================
