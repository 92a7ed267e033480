--------------------------------- MODULE Vm ---------------------------------
(***************************************************************************)
(* The RV32I virtual machine of crates/vm/src/lib.rs: `VM::run` calls      *)
(* `VM::step` while pc is inside the program; a step fetches and decodes   *)
(* the word at pc, computes the result, emits the register reads and       *)
(* writes of the instruction as timestamped memory operations, and pushes  *)
(* an ExecutionStep on the trace the prover works from.                    *)
(*                                                                         *)
(* Data is abstract: a word is a number below WordSize, what an            *)
(* instruction computes is the parameter Alu, and a program is the         *)
(* instruction `decode_instruction` returns at each offset where four      *)
(* bytes can be read.  Control is complete: every instruction shape, the   *)
(* two jumps with their treatment of x0, and the two panics of a fetch.    *)
(***************************************************************************)
EXTENDS Integers, Sequences

CONSTANTS
  NumRegs,     \* number of registers (32 in the code)
  WordSize,    \* number of values of a word (2^32 in the code)
  Alu(_, _, _),\* Alu(op, a, b): the result of an instruction on operands a, b
  Unsupported, \* a word `decode_instruction` has no case for
  Programs,    \* the programs considered, see ProgramType
  MaxSteps     \* bound: a run is followed for at most this many steps

Regs == 0 .. NumRegs - 1
Word == 0 .. WordSize - 1

ImmediateOps == {"AddI", "XorI", "OriI", "AndiI", "SlliI", "SrliI", "SraiI",
                 "SltiI", "SltiuI"}
RegisterOps  == {"Add", "Sub", "Xor", "Or", "And", "Sll", "Srl", "Sra",
                 "Slt", "Sltu"}
UpperOps     == {"Lui", "Auipc"}

\* An immediate is the u32 its sign-extended value is cast to; the raw upper
\* immediate of Lui and Auipc is shifted by the Alu.
Instruction ==
       [op : ImmediateOps, rd : Regs, rs1 : Regs, imm : Word]
  \cup [op : RegisterOps, rd : Regs, rs1 : Regs, rs2 : Regs]
  \cup [op : UpperOps, rd : Regs, imm : Word]
  \cup [op : {"Jal"}, rd : Regs, imm : Word]
  \cup [op : {"Jalr"}, rd : Regs, rs1 : Regs, imm : Word]

\* word[o] is the decoded word at byte offset o, for every o (aligned or not)
\* at which the four bytes lie inside the program.
ProgramType(p) ==
  /\ p.len \in 0 .. WordSize - 1
  /\ p.word \in [0 .. p.len - 4 -> Instruction \cup {Unsupported}]

ASSUME VmAssumption ==
  /\ NumRegs \in Nat \ {0}
  /\ WordSize \in Nat \ {0}
  /\ MaxSteps \in Nat
  /\ Unsupported \notin Instruction
  /\ \A op \in ImmediateOps \cup RegisterOps \cup UpperOps, a, b \in Word :
       Alu(op, a, b) \in Word
  /\ \A p \in Programs : ProgramType(p)

VARIABLES
  program,   \* the program, never changed
  pc,        \* byte address of the next instruction
  timestamp, \* the clock of the memory operations
  trace,     \* the executed steps
  panicked   \* TRUE once a step has panicked

vars == <<program, pc, timestamp, trace, panicked>>

(***************************************************************************)
(* Memory operations and steps.  A Read carries one value; it is kept as   *)
(* both old and new value, as the memory argument reads it.                *)
(***************************************************************************)
MemoryOperation == [kind : {"Read", "Write"}, address : Regs, timestamp : Nat,
                    old_value : Word, new_value : Word]

ExecutionStep == [pc : Word, registers : [Regs -> Word],
                  instruction : Instruction, memory_ops : Seq(MemoryOperation)]

Read(r, ts, v) ==
  [kind |-> "Read", address |-> r, timestamp |-> ts,
   old_value |-> v, new_value |-> v]

\* Mutant: the old and the new value are swapped.
WriteSwapped(r, ts, old, new) ==
  [kind |-> "Write", address |-> r, timestamp |-> ts,
   old_value |-> new, new_value |-> old]

Write(r, ts, old, new) ==
  [kind |-> "Write", address |-> r, timestamp |-> ts,
   old_value |-> old, new_value |-> new]

\* Mutant: the registers are taken before the last step was pushed.
RegistersStale ==
  IF Len(trace) < 2 THEN [r \in Regs |-> 0] ELSE trace[Len(trace) - 1].registers

\* The register file is the one the last step left, all zero at the start.
Registers ==
  IF trace = <<>> THEN [r \in Regs |-> 0] ELSE trace[Len(trace)].registers

(***************************************************************************)
(* `run` and the common parts of `step`.                                   *)
(***************************************************************************)
Running == ~panicked /\ pc < program.len

\* Mutant: a run ends at the end of the program only, not past it.
HaltedAtEnd == ~panicked /\ pc = program.len

Halted == ~panicked /\ pc >= program.len

CanFetch == pc + 3 < program.len
Fetched  == program.word[pc]

\* The word at pc is read, decodes, and is an instruction of one of ops.
Fetches(ops) ==
  /\ Running
  /\ Len(trace) < MaxSteps
  /\ CanFetch
  /\ Fetched # Unsupported
  /\ Fetched.op \in ops

\* Mutant: the sum does not wrap.
PlusUnbounded(a, b) == a + b

Plus(a, b) == (a + b) % WordSize
\* Mutant: the low bit is kept.
ClearNothing(a) == a

ClearLsb(a) == a - (a % 2)

\* Mutant: the clock is not advanced after the last operation.
PushSlow(registers, ops, ticks, next_pc) ==
  /\ trace' = Append(trace, [pc |-> pc, registers |-> registers,
                             instruction |-> Fetched, memory_ops |-> ops])
  /\ timestamp' = timestamp + ticks - 1
  /\ pc' = next_pc
  /\ UNCHANGED <<program, panicked>>

\* What every instruction does last: push the step, advance the clock, move pc.
Push(registers, ops, ticks, next_pc) ==
  /\ trace' = Append(trace, [pc |-> pc, registers |-> registers,
                             instruction |-> Fetched, memory_ops |-> ops])
  /\ timestamp' = timestamp + ticks
  /\ pc' = next_pc
  /\ UNCHANGED <<program, panicked>>

(***************************************************************************)
(* One action per instruction shape.  Only Jal and Jalr treat x0 apart.    *)
(***************************************************************************)
StepImmediate ==
  /\ Fetches(ImmediateOps)
  /\ LET i      == Fetched
         result == Alu(i.op, Registers[i.rs1], i.imm)
     IN  Push([Registers EXCEPT ![i.rd] = result],
              <<Read(i.rs1, timestamp, Registers[i.rs1]),
                Write(i.rd, timestamp + 1, Registers[i.rd], result)>>,
              2, pc + 4)

StepRegister ==
  /\ Fetches(RegisterOps)
  /\ LET i      == Fetched
         result == Alu(i.op, Registers[i.rs1], Registers[i.rs2])
     IN  Push([Registers EXCEPT ![i.rd] = result],
              <<Read(i.rs1, timestamp, Registers[i.rs1]),
                Read(i.rs2, timestamp + 1, Registers[i.rs2]),
                Write(i.rd, timestamp + 2, Registers[i.rd], result)>>,
              3, pc + 4)

\* Mutant: Auipc is given the next pc.
StepUpperNextPc ==
  /\ Fetches(UpperOps)
  /\ LET i      == Fetched
         result == Alu(i.op, pc + 4, i.imm)
     IN  Push([Registers EXCEPT ![i.rd] = result],
              <<Write(i.rd, timestamp, Registers[i.rd], result)>>,
              1, pc + 4)

StepUpper ==
  /\ Fetches(UpperOps)
  /\ LET i      == Fetched
         result == Alu(i.op, pc, i.imm)
     IN  Push([Registers EXCEPT ![i.rd] = result],
              <<Write(i.rd, timestamp, Registers[i.rd], result)>>,
              1, pc + 4)

\* Mutant: x0 is written like any register.
StepJalToAny ==
  /\ Fetches({"Jal"})
  /\ LET i           == Fetched
         return_addr == Plus(pc, 4)
     IN  Push([Registers EXCEPT ![i.rd] = return_addr],
              <<Write(i.rd, timestamp, Registers[i.rd], return_addr)>>,
              1, Plus(pc, i.imm))

\* For rd = x0 the write is dropped, but the clock still advances.
StepJal ==
  /\ Fetches({"Jal"})
  /\ LET i           == Fetched
         return_addr == Plus(pc, 4)
     IN  IF i.rd # 0
         THEN Push([Registers EXCEPT ![i.rd] = return_addr],
                   <<Write(i.rd, timestamp, Registers[i.rd], return_addr)>>,
                   1, Plus(pc, i.imm))
         ELSE Push(Registers, <<>>, 1, Plus(pc, i.imm))

\* For rd = x0 a write of 0 is logged and the register file is left alone.
StepJalr ==
  /\ Fetches({"Jalr"})
  /\ LET i           == Fetched
         return_addr == IF i.rd = 0 THEN 0 ELSE Plus(pc, 4)
     IN  Push(IF i.rd = 0 THEN Registers
                          ELSE [Registers EXCEPT ![i.rd] = return_addr],
              <<Read(i.rs1, timestamp, Registers[i.rs1]),
                Write(i.rd, timestamp + 1, Registers[i.rd], return_addr)>>,
              2, ClearLsb(Plus(Registers[i.rs1], i.imm)))

\* The four-byte read runs off the program, or no case of the decoder matches.
StepPanic ==
  /\ Running
  /\ Len(trace) < MaxSteps
  /\ CanFetch => Fetched = Unsupported
  /\ panicked' = TRUE
  /\ UNCHANGED <<program, pc, timestamp, trace>>

Init ==
  /\ program \in Programs
  /\ pc = 0
  /\ timestamp = 0
  /\ trace = <<>>
  /\ panicked = FALSE

Next ==
  \/ StepImmediate
  \/ StepRegister
  \/ StepUpper
  \/ StepJal
  \/ StepJalr
  \/ StepPanic

Spec == Init /\ [][Next]_vars

(***************************************************************************)
(* Properties                                                              *)
(***************************************************************************)
\* The types of the fields of VM.
TypeOK ==
  /\ ProgramType(program)
  /\ pc \in Word
  /\ timestamp \in Nat
  /\ trace \in Seq(ExecutionStep)
  /\ panicked \in BOOLEAN

Steps     == 1 .. Len(trace)
OpsOf(i)  == 1 .. Len(trace[i].memory_ops)
Op(i, k)  == trace[i].memory_ops[k]
Earlier(i, k, j, l) == i < j \/ (i = j /\ k < l)

\* In program order the timestamps of the emitted operations strictly
\* increase and stay below the clock, across steps of one, two and three
\* operations and across the jumps that emit none: the prover sorts the
\* operations of an address by timestamp and takes that for their order.
LogOrdered ==
  /\ \A i \in Steps : \A k \in OpsOf(i) : Op(i, k).timestamp < timestamp
  /\ \A i, j \in Steps : \A k \in OpsOf(i), l \in OpsOf(j) :
       Earlier(i, k, j, l) => Op(i, k).timestamp < Op(j, l).timestamp

\* A Jalr to x0 executed while x0 held a nonzero value: the log says 0 was
\* written, the register file keeps the old value.
DroppedWrite ==
  \E i \in Steps : /\ trace[i].instruction.op = "Jalr"
                   /\ trace[i].instruction.rd = 0
                   /\ trace[i].registers[0] # 0

\* Op(j, l) is the first operation on register r.
FirstOn(r, j, l) ==
  /\ Op(j, l).address = r
  /\ \A i \in Steps : \A k \in OpsOf(i) :
       Op(i, k).address = r => ~Earlier(i, k, j, l)

\* Op(i, k) is the last operation on register r.
LastOn(r, i, k) ==
  /\ Op(i, k).address = r
  /\ \A j \in Steps : \A l \in OpsOf(j) :
       Op(j, l).address = r => ~Earlier(i, k, j, l)

\* Op(i, k) and Op(j, l) are consecutive operations on register r.
ConsecutiveOn(r, i, k, j, l) ==
  /\ Op(i, k).address = r
  /\ Op(j, l).address = r
  /\ Earlier(i, k, j, l)
  /\ \A m \in Steps : \A n \in OpsOf(m) :
       Op(m, n).address = r => ~(Earlier(i, k, m, n) /\ Earlier(m, n, j, l))

\* The log of register r is a history of a memory cell that starts at 0:
\* every operation sees the value the operation before it left.
ReadsLastWriteOn(r) ==
  /\ \A j \in Steps : \A l \in OpsOf(j) :
       FirstOn(r, j, l) => Op(j, l).old_value = 0
  /\ \A i, j \in Steps : \A k \in OpsOf(i), l \in OpsOf(j) :
       ConsecutiveOn(r, i, k, j, l) => Op(j, l).old_value = Op(i, k).new_value

\* The last operation on register r, if any, left the value it holds.
LogGives(r) ==
  /\ (\A i \in Steps : \A k \in OpsOf(i) : Op(i, k).address # r) => Registers[r] = 0
  /\ \A i \in Steps : \A k \in OpsOf(i) :
       LastOn(r, i, k) => Registers[r] = Op(i, k).new_value

\* The registers whose log is a history: all, but for x0 after a dropped write.
Logged == {r \in Regs : r # 0 \/ ~DroppedWrite}

\* What the memory argument needs of the VM: on every register each operation
\* reads what the one before it wrote, across steps that read and write the
\* same register more than once and jumps that log nothing.
ReadsLastWrite == \A r \in Logged : ReadsLastWriteOn(r)

\* The register file can be rebuilt from the log: nothing changes a register
\* without an operation that says so.
LogGivesRegisters == \A r \in Logged : LogGives(r)

\* The registers before step i, and the run being back in a state it was in.
RegistersBefore(i) == IF i = 1 THEN [r \in Regs |-> 0] ELSE trace[i - 1].registers
Looping == \E i \in Steps : trace[i].pc = pc /\ RegistersBefore(i) = Registers

\* A run that comes back to the same pc and registers does so forever, never
\* ends and never panics: what a step does depends on nothing else a VM keeps,
\* neither on the clock nor on the steps before.
LoopsForever == [][Looping => Looping' /\ Running']_vars

=============================================================================
