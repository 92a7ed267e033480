------------------------------ MODULE VmProofs ------------------------------
(***************************************************************************)
(* Proofs about the VM, for every number of registers, word size, Alu,     *)
(* set of programs and length of run.                                      *)
(***************************************************************************)
EXTENDS VmIsa, SequenceTheorems, TLAPS

\* The facts about the constants that the proofs use.
LEMMA Constants ==
  /\ NumRegs \in Nat \ {0}
  /\ WordSize \in Nat \ {0}
  /\ 0 \in Regs
  /\ 0 \in Word
  /\ Unsupported \notin Instruction
  /\ \A op \in ImmediateOps \cup RegisterOps \cup UpperOps, a, b \in Word :
       Alu(op, a, b) \in Word
  BY VmAssumption, SMT DEF VmAssumption, Regs, Word

LEMMA PlusType == \A a, b \in Nat : Plus(a, b) \in Word
  BY Constants, SMT DEF Plus, Word

LEMMA WordIsNat == \A a \in Word : a \in Nat
  BY Constants, SMT DEF Word

LEMMA ClearLsbType == \A a \in Word : ClearLsb(a) \in Word
  BY Constants, SMT DEF ClearLsb, Word

\* The shape of an instruction by its op.
LEMMA Shapes ==
  ASSUME NEW i \in Instruction
  PROVE  /\ i.op \in ImmediateOps =>
              i \in [op : ImmediateOps, rd : Regs, rs1 : Regs, imm : Word]
         /\ i.op \in RegisterOps =>
              i \in [op : RegisterOps, rd : Regs, rs1 : Regs, rs2 : Regs]
         /\ i.op \in UpperOps => i \in [op : UpperOps, rd : Regs, imm : Word]
         /\ i.op \in {"Jal"} => i \in [op : {"Jal"}, rd : Regs, imm : Word]
         /\ i.op \in {"Jalr"} =>
              i \in [op : {"Jalr"}, rd : Regs, rs1 : Regs, imm : Word]
  BY SMTT(30) DEF Instruction, ImmediateOps, RegisterOps, UpperOps

LEMMA RegistersType == TypeOK => Registers \in [Regs -> Word]
  BY Constants, SMTT(30) DEF TypeOK, Registers, ExecutionStep

\* An instruction is fetched from inside the program.
LEMMA FetchedType ==
  ASSUME TypeOK, NEW ops, Fetches(ops)
  PROVE  /\ Fetched \in Instruction
         /\ Fetched.op \in ops
         /\ pc + 4 \in Word
<1>1. /\ pc \in Nat
      /\ program.len \in 0 .. WordSize - 1
      /\ program.word \in [0 .. program.len - 4 -> Instruction \cup {Unsupported}]
      /\ pc + 3 < program.len
  BY Constants DEF TypeOK, ProgramType, Fetches, CanFetch, Word
<1>2. pc \in 0 .. program.len - 4 /\ pc + 4 \in Word
  BY <1>1, Constants, SMT DEF Word
<1>3. Fetched \in Instruction \cup {Unsupported}
  BY <1>1, <1>2 DEF Fetched
<1> QED
  BY <1>2, <1>3 DEF Fetches

\* Pushing a well-typed step keeps the types.
LEMMA PushType ==
  ASSUME TypeOK, NEW registers \in [Regs -> Word], NEW ops \in Seq(MemoryOperation),
         NEW ticks \in Nat, NEW next_pc \in Word, Fetched \in Instruction,
         Push(registers, ops, ticks, next_pc)
  PROVE  TypeOK'
<1> DEFINE step == [pc |-> pc, registers |-> registers, instruction |-> Fetched,
                    memory_ops |-> ops]
<1>1. step \in ExecutionStep
  BY DEF ExecutionStep, TypeOK
<1>2. trace' \in Seq(ExecutionStep)
  BY <1>1 DEF Push, TypeOK
<1>3. timestamp' \in Nat /\ pc' \in Word
  BY DEF Push, TypeOK, Word
<1> QED
  BY <1>2, <1>3 DEF Push, TypeOK, ProgramType, Word

(***************************************************************************)
(* What a step does, whatever the instruction: it pushes a step whose      *)
(* operations carry consecutive timestamps from the clock on, within the   *)
(* ticks the clock advances, and form a history of every register from its *)
(* value before to its value after.                                        *)
(***************************************************************************)
Stamped(ops, ticks) ==
  /\ Len(ops) <= ticks
  /\ \A k \in 1 .. Len(ops) : ops[k].timestamp = timestamp + k - 1

HistoryOn(r, ops, before, after) ==
  /\ (\A k \in 1 .. Len(ops) : ops[k].address # r) => after = before
  /\ \A k \in 1 .. Len(ops) :
       /\ ops[k].address = r
       /\ \A j \in 1 .. Len(ops) : ops[j].address = r => ~(j < k)
       => ops[k].old_value = before
  /\ \A k, l \in 1 .. Len(ops) :
       /\ ops[k].address = r /\ ops[l].address = r /\ k < l
       /\ \A j \in 1 .. Len(ops) : ops[j].address = r => ~(k < j /\ j < l)
       => ops[l].old_value = ops[k].new_value
  /\ \A k \in 1 .. Len(ops) :
       /\ ops[k].address = r
       /\ \A j \in 1 .. Len(ops) : ops[j].address = r => ~(k < j)
       => after = ops[k].new_value

\* The step drops a write to a nonzero x0.
Drops(registers) == Fetched.op = "Jalr" /\ Fetched.rd = 0 /\ registers[0] # 0

Effect(registers, ops, ticks, next_pc) ==
  /\ Fetched \in Instruction
  /\ registers \in [Regs -> Word]
  /\ ops \in Seq(MemoryOperation)
  /\ ticks \in Nat
  /\ next_pc \in Word
  /\ Push(registers, ops, ticks, next_pc)
  /\ Stamped(ops, ticks)
  /\ \A r \in Regs : r # 0 \/ ~Drops(registers) =>
       HistoryOn(r, ops, Registers[r], registers[r])

\* Every step that does not panic has such an effect.
LEMMA StepEffect ==
  ASSUME TypeOK, Next
  PROVE  \/ StepPanic
         \/ \E registers, ops, ticks, next_pc : Effect(registers, ops, ticks, next_pc)
<1> DEFINE i == Fetched
           R == Registers
<1>r. R \in [Regs -> Word] /\ timestamp \in Nat /\ pc \in Word
  BY RegistersType DEF TypeOK
<1>1. CASE StepImmediate
  <2>1. i \in Instruction /\ pc + 4 \in Word
        /\ i \in [op : ImmediateOps, rd : Regs, rs1 : Regs, imm : Word]
    BY <1>1, FetchedType, Shapes DEF StepImmediate
  <2> DEFINE result == Alu(i.op, R[i.rs1], i.imm)
             after  == [R EXCEPT ![i.rd] = result]
             ops    == <<Read(i.rs1, timestamp, R[i.rs1]),
                         Write(i.rd, timestamp + 1, R[i.rd], result)>>
  <2>2. result \in Word
    BY <2>1, <1>r, Constants
  <2>3. ops \in Seq(MemoryOperation)
    BY <2>1, <2>2, <1>r DEF MemoryOperation, Read, Write
  <2>4. after \in [Regs -> Word]
    BY <2>2, <1>r
  <2>5. Push(after, ops, 2, pc + 4)
    BY <1>1 DEF StepImmediate
  <2>6. Stamped(ops, 2)
    BY <1>r DEF Stamped, Read, Write
  <2>7. \A r \in Regs : HistoryOn(r, ops, R[r], after[r])
    BY <2>1, <1>r, SMTT(30) DEF HistoryOn, Read, Write
  <2> HIDE DEF ops, result, after
  <2>8. Effect(after, ops, 2, pc + 4)
    BY <2>1, <2>3, <2>4, <2>5, <2>6, <2>7 DEF Effect
  <2> QED
    BY <2>8
<1>2. CASE StepRegister
  <2>1. i \in Instruction /\ pc + 4 \in Word
        /\ i \in [op : RegisterOps, rd : Regs, rs1 : Regs, rs2 : Regs]
    BY <1>2, FetchedType, Shapes DEF StepRegister
  <2> DEFINE result == Alu(i.op, R[i.rs1], R[i.rs2])
             after  == [R EXCEPT ![i.rd] = result]
             ops    == <<Read(i.rs1, timestamp, R[i.rs1]),
                         Read(i.rs2, timestamp + 1, R[i.rs2]),
                         Write(i.rd, timestamp + 2, R[i.rd], result)>>
  <2>2. result \in Word
    BY <2>1, <1>r, Constants
  <2>3. ops \in Seq(MemoryOperation)
    BY <2>1, <2>2, <1>r DEF MemoryOperation, Read, Write
  <2>4. after \in [Regs -> Word]
    BY <2>2, <1>r
  <2>5. Push(after, ops, 3, pc + 4)
    BY <1>2 DEF StepRegister
  <2>6. Stamped(ops, 3)
    BY <1>r DEF Stamped, Read, Write
  <2>7. \A r \in Regs : HistoryOn(r, ops, R[r], after[r])
    BY <2>1, <1>r, SMTT(30) DEF HistoryOn, Read, Write
  <2> HIDE DEF ops, result, after
  <2>8. Effect(after, ops, 3, pc + 4)
    BY <2>1, <2>3, <2>4, <2>5, <2>6, <2>7 DEF Effect
  <2> QED
    BY <2>8
<1>3. CASE StepUpper
  <2>1. i \in Instruction /\ pc + 4 \in Word
        /\ i \in [op : UpperOps, rd : Regs, imm : Word]
    BY <1>3, FetchedType, Shapes DEF StepUpper
  <2> DEFINE result == Alu(i.op, pc, i.imm)
             after  == [R EXCEPT ![i.rd] = result]
             ops    == <<Write(i.rd, timestamp, R[i.rd], result)>>
  <2>2. result \in Word
    BY <2>1, <1>r, Constants
  <2>3. ops \in Seq(MemoryOperation)
    BY <2>1, <2>2, <1>r DEF MemoryOperation, Write
  <2>4. after \in [Regs -> Word]
    BY <2>2, <1>r
  <2>5. Push(after, ops, 1, pc + 4)
    BY <1>3 DEF StepUpper
  <2>6. Stamped(ops, 1)
    BY <1>r DEF Stamped, Write
  <2>7. \A r \in Regs : HistoryOn(r, ops, R[r], after[r])
    BY <2>1, <1>r, SMTT(30) DEF HistoryOn, Write
  <2> HIDE DEF ops, result, after
  <2>8. Effect(after, ops, 1, pc + 4)
    BY <2>1, <2>3, <2>4, <2>5, <2>6, <2>7 DEF Effect
  <2> QED
    BY <2>8
<1>4. CASE StepJal
  <2>1. i \in Instruction /\ i \in [op : {"Jal"}, rd : Regs, imm : Word]
    BY <1>4, FetchedType, Shapes DEF StepJal
  <2> DEFINE ret    == Plus(pc, 4)
             target == Plus(pc, i.imm)
  <2>2. ret \in Word /\ target \in Word
    BY <2>1, <1>r, PlusType, WordIsNat
  <2>3. CASE i.rd # 0
    <3> DEFINE after == [R EXCEPT ![i.rd] = ret]
               ops   == <<Write(i.rd, timestamp, R[i.rd], ret)>>
    <3>1. ops \in Seq(MemoryOperation)
      BY <2>1, <2>2, <1>r DEF MemoryOperation, Write
    <3>2. after \in [Regs -> Word]
      BY <2>2, <1>r
    <3>3. Push(after, ops, 1, target)
      BY <1>4, <2>3 DEF StepJal
    <3>4. Stamped(ops, 1)
      BY <1>r DEF Stamped, Write
    <3>5. \A r \in Regs : HistoryOn(r, ops, R[r], after[r])
      BY <2>1, <1>r, SMTT(30) DEF HistoryOn, Write
    <3> HIDE DEF ops, ret, after, target
    <3>6. Effect(after, ops, 1, target)
      BY <2>1, <2>2, <3>1, <3>2, <3>3, <3>4, <3>5 DEF Effect
    <3> QED
      BY <3>6
  <2>4. CASE i.rd = 0
    <3>1. Push(R, <<>>, 1, target)
      BY <1>4, <2>4 DEF StepJal
    <3>2. Stamped(<<>>, 1) /\ <<>> \in Seq(MemoryOperation)
      BY DEF Stamped
    <3>3. \A r \in Regs : HistoryOn(r, <<>>, R[r], R[r])
      BY DEF HistoryOn
    <3> HIDE DEF R, target
    <3>4. Effect(R, <<>>, 1, target)
      BY <1>r, <2>1, <2>2, <3>1, <3>2, <3>3 DEF Effect, R
    <3> QED
      BY <3>4
  <2> QED
    BY <2>3, <2>4
<1>5. CASE StepJalr
  <2>1. i \in Instruction /\ i \in [op : {"Jalr"}, rd : Regs, rs1 : Regs, imm : Word]
    BY <1>5, FetchedType, Shapes DEF StepJalr
  <2> DEFINE ret    == IF i.rd = 0 THEN 0 ELSE Plus(pc, 4)
             after  == IF i.rd = 0 THEN R ELSE [R EXCEPT ![i.rd] = ret]
             ops    == <<Read(i.rs1, timestamp, R[i.rs1]),
                         Write(i.rd, timestamp + 1, R[i.rd], ret)>>
             target == ClearLsb(Plus(R[i.rs1], i.imm))
  <2>2. ret \in Word
    BY <1>r, Constants, PlusType, WordIsNat
  <2>3. ops \in Seq(MemoryOperation)
    BY <2>1, <2>2, <1>r DEF MemoryOperation, Read, Write
  <2>4. after \in [Regs -> Word]
    BY <2>2, <1>r
  <2>5. target \in Word
    BY <2>1, <1>r, PlusType, ClearLsbType, WordIsNat
  <2>6. Push(after, ops, 2, target)
    BY <1>5 DEF StepJalr
  <2>7. Stamped(ops, 2)
    BY <1>r DEF Stamped, Read, Write
  <2>8. ASSUME NEW r \in Regs, r # 0 \/ ~Drops(after)
        PROVE  HistoryOn(r, ops, R[r], after[r])
    <3>1. r # 0 \/ i.rd # 0 \/ R[0] = 0
      BY <2>1, <2>8 DEF Drops
    <3> HIDE DEF R
    <3> QED
      BY <2>1, <1>r, <3>1, SMTT(30) DEF HistoryOn, Read, Write
  <2> HIDE DEF ops, ret, after, target
  <2>9. Effect(after, ops, 2, target)
    BY <2>1, <2>3, <2>4, <2>5, <2>6, <2>7, <2>8 DEF Effect
  <2> QED
    BY <2>9
<1> QED
  BY <1>1, <1>2, <1>3, <1>4, <1>5 DEF Next

\* The types of the VM's fields hold in every reachable state: every value,
\* jump target and return address the VM computes is a word, and every fetch
\* that does not panic reads an instruction.
THEOREM VmTypeOK == Spec => []TypeOK
<1>1. Init => TypeOK
  <2> SUFFICES ASSUME Init PROVE TypeOK
    OBVIOUS
  <2>1. ProgramType(program)
    BY VmAssumption DEF Init
  <2>2. trace \in Seq(ExecutionStep)
    BY DEF Init
  <2>3. pc \in Word /\ timestamp \in Nat /\ panicked \in BOOLEAN
    BY Constants DEF Init
  <2> QED
    BY <2>1, <2>2, <2>3 DEF TypeOK
<1>2. TypeOK /\ [Next]_vars => TypeOK'
  <2> SUFFICES ASSUME TypeOK, [Next]_vars PROVE TypeOK'
    OBVIOUS
  <2>1. ASSUME NEW registers, NEW ops, NEW ticks, NEW next_pc,
               Effect(registers, ops, ticks, next_pc)
        PROVE  TypeOK'
    BY <2>1, PushType DEF Effect
  <2>2. CASE StepPanic
    BY <2>2 DEF StepPanic, TypeOK, ProgramType
  <2>3. CASE UNCHANGED vars
    BY <2>3 DEF vars, TypeOK, ProgramType
  <2> QED
    BY <2>1, <2>2, <2>3, StepEffect
<1> QED
  BY <1>1, <1>2, PTL DEF Spec

(***************************************************************************)
(* The log is ordered by its timestamps and is a history of every          *)
(* register: what the memory argument of the prover rests on.              *)
(***************************************************************************)
\* What the trace and its operations are after a step.
LEMMA Pushed ==
  ASSUME TypeOK, NEW registers, NEW ops, NEW ticks, NEW next_pc,
         Effect(registers, ops, ticks, next_pc)
  PROVE  /\ Len(trace) \in Nat
         /\ Len(trace') = Len(trace) + 1
         /\ Registers' = registers
         /\ \A i \in 1 .. Len(trace) : trace'[i] = trace[i]
         /\ trace'[Len(trace) + 1] =
              [pc |-> pc, registers |-> registers, instruction |-> Fetched, memory_ops |-> ops]
         /\ trace'[Len(trace) + 1].memory_ops = ops
         /\ Len(ops) \in Nat
         /\ \A i \in 1 .. Len(trace) : Len(trace[i].memory_ops) \in Nat
<1> DEFINE step == [pc |-> pc, registers |-> registers, instruction |-> Fetched,
                    memory_ops |-> ops]
<1>1. trace' = Append(trace, step)
  BY DEF Effect, Push
<1>2. trace \in Seq(ExecutionStep) /\ step \in ExecutionStep
  BY DEF TypeOK, Effect, ExecutionStep
<1>3. \A i \in 1 .. Len(trace) : Len(trace[i].memory_ops) \in Nat
  BY <1>2 DEF ExecutionStep
<1>4. /\ Len(trace) \in Nat
      /\ Len(trace') = Len(trace) + 1
      /\ \A i \in 1 .. Len(trace) : trace'[i] = trace[i]
      /\ trace'[Len(trace) + 1] = step
  BY <1>1, <1>2
<1>5. trace' # <<>>
  BY <1>4
<1>6. Registers' = registers
  BY <1>4, <1>5 DEF Registers
<1> QED
  BY <1>3, <1>4, <1>6 DEF Effect

\* The operations of the trace are ordered in every reachable state.
THEOREM VmLogOrdered == Spec => []LogOrdered
<1>1. Init => LogOrdered
  BY DEF Init, LogOrdered, Steps
<1>2. TypeOK /\ LogOrdered /\ [Next]_vars => LogOrdered'
  <2> SUFFICES ASSUME TypeOK, LogOrdered, [Next]_vars PROVE LogOrdered'
    OBVIOUS
  <2>1. ASSUME NEW registers, NEW ops, NEW ticks, NEW next_pc,
               Effect(registers, ops, ticks, next_pc)
        PROVE  LogOrdered'
    <3> DEFINE n == Len(trace)
    <3>1. /\ n \in Nat /\ Len(ops) \in Nat /\ ticks \in Nat /\ timestamp \in Nat
          /\ Len(trace') = n + 1
          /\ timestamp' = timestamp + ticks
          /\ \A i \in 1 .. n : trace'[i] = trace[i]
          /\ trace'[n + 1].memory_ops = ops
      BY <2>1, Pushed DEF Effect, Push, TypeOK
    <3>2. \A k \in 1 .. Len(ops) : ops[k].timestamp = timestamp + k - 1
      BY <2>1 DEF Effect, Stamped
    <3>3. Len(ops) <= ticks
      BY <2>1 DEF Effect, Stamped
    <3>4. \A i \in 1 .. n : \A k \in 1 .. Len(trace[i].memory_ops) :
            /\ trace[i].memory_ops[k].timestamp \in Nat
            /\ trace[i].memory_ops[k].timestamp < timestamp
      <4> SUFFICES ASSUME NEW i \in 1 .. n, NEW k \in 1 .. Len(trace[i].memory_ops)
                   PROVE  /\ trace[i].memory_ops[k].timestamp \in Nat
                          /\ trace[i].memory_ops[k].timestamp < timestamp
        OBVIOUS
      <4>1. trace[i] \in ExecutionStep
        BY DEF TypeOK
      <4>2. trace[i].memory_ops[k] \in MemoryOperation
        BY <4>1 DEF ExecutionStep
      <4>3. trace[i].memory_ops[k].timestamp < timestamp
        BY DEF LogOrdered, Steps, OpsOf, Op
      <4> QED
        BY <4>2, <4>3 DEF MemoryOperation
    <3>5. \A i \in Steps' : \A k \in OpsOf(i)' : Op(i, k)'.timestamp < timestamp'
      <4> SUFFICES ASSUME NEW i \in Steps', NEW k \in OpsOf(i)'
                   PROVE  Op(i, k)'.timestamp < timestamp'
        OBVIOUS
      <4>0. timestamp \in Nat /\ ticks \in Nat /\ timestamp' = timestamp + ticks
        BY <3>1
      <4>1. CASE i \in 1 .. n
        <5>1. k \in 1 .. Len(trace[i].memory_ops) /\ Op(i, k)' = trace[i].memory_ops[k]
          BY <3>1, <4>1 DEF OpsOf, Op
        <5>2. PICK t \in Nat : t = trace[i].memory_ops[k].timestamp /\ t < timestamp
          BY <3>4, <4>1, <5>1
        <5> QED
          BY <4>0, <5>1, <5>2
      <4>2. CASE i = n + 1
        <5>1. k \in 1 .. Len(ops) /\ Op(i, k)' = ops[k]
          BY <3>1, <4>2 DEF OpsOf, Op
        <5>2. PICK len \in Nat : len = Len(ops) /\ len <= ticks
          BY <3>1, <3>3
        <5>3. Op(i, k)'.timestamp = timestamp + k - 1 /\ k \in 1 .. len
          BY <3>2, <5>1, <5>2
        <5> QED
          BY <4>0, <5>2, <5>3
      <4> QED
        BY <3>1, <4>1, <4>2 DEF Steps
    <3>6. ASSUME NEW i \in Steps', NEW j \in Steps', NEW k \in OpsOf(i)', NEW l \in OpsOf(j)',
                 Earlier(i, k, j, l)
          PROVE  Op(i, k)'.timestamp < Op(j, l)'.timestamp
      <4>1. CASE j \in 1 .. n
        <5>1. i \in 1 .. n
          BY <3>1, <3>6, <4>1 DEF Earlier, Steps
        <5>2. k \in OpsOf(i) /\ l \in OpsOf(j) /\ Op(i, k)' = Op(i, k) /\ Op(j, l)' = Op(j, l)
          BY <3>1, <4>1, <5>1 DEF OpsOf, Op
        <5> QED
          BY <3>6, <4>1, <5>1, <5>2 DEF LogOrdered, Steps
      <4>2. CASE j = n + 1 /\ i \in 1 .. n
        <5>1. k \in 1 .. Len(trace[i].memory_ops) /\ Op(i, k)' = trace[i].memory_ops[k]
          BY <3>1, <4>2 DEF OpsOf, Op
        <5>2. l \in 1 .. Len(ops) /\ Op(j, l)'.timestamp = timestamp + l - 1
          BY <3>1, <3>2, <4>2 DEF OpsOf, Op
        <5>3. PICK t \in Nat : t = trace[i].memory_ops[k].timestamp /\ t < timestamp
          BY <3>4, <4>2, <5>1
        <5>4. PICK len \in Nat : len = Len(ops)
          BY <3>1
        <5>5. timestamp \in Nat /\ Op(i, k)'.timestamp = t /\ l \in 1 .. len
              /\ Op(j, l)'.timestamp = timestamp + l - 1
          BY <3>1, <5>1, <5>2, <5>3, <5>4
        <5> QED
          BY <5>3, <5>5
      <4>3. CASE j = n + 1 /\ i = n + 1
        BY <3>1, <3>2, <3>6, <4>3 DEF OpsOf, Op, Earlier
      <4> QED
        BY <3>1, <4>1, <4>2, <4>3 DEF Steps
    <3> QED
      BY <3>5, <3>6 DEF LogOrdered
  <2>2. CASE StepPanic \/ UNCHANGED vars
    BY <2>2 DEF StepPanic, vars, LogOrdered, Steps, OpsOf, Op, Earlier
  <2> QED
    BY <2>1, <2>2, StepEffect
<1> QED
  BY <1>1, <1>2, VmTypeOK, PTL DEF Spec

(***************************************************************************)
(* The log is a history.  Neither property is inductive alone: that an     *)
(* operation reads what the last one left needs the register file to be    *)
(* what the log gives.                                                     *)
(***************************************************************************)
LogHistory(r) == ReadsLastWriteOn(r) /\ LogGives(r)

\* Where the operations of the new trace are, in the old trace or in ops.
LEMMA PushedOps ==
  ASSUME TypeOK, NEW registers, NEW ops, NEW ticks, NEW next_pc,
         Effect(registers, ops, ticks, next_pc)
  PROVE  /\ Len(trace) \in Nat /\ Len(trace) + 1 \notin Steps
         /\ Steps' = Steps \cup {Len(trace) + 1}
         /\ \A i \in Steps : trace'[i].memory_ops = trace[i].memory_ops
         /\ trace'[Len(trace) + 1].memory_ops = ops
         /\ \A i \in Steps : \A k, l \in Int : Earlier(i, k, Len(trace) + 1, l)
         /\ \A i \in Steps : \A k, l \in Int : ~Earlier(Len(trace) + 1, l, i, k)
         /\ \A k, l \in Int : Earlier(Len(trace) + 1, k, Len(trace) + 1, l) <=> k < l
<1>1. /\ Len(trace) \in Nat
      /\ Len(trace') = Len(trace) + 1
      /\ \A i \in 1 .. Len(trace) : trace'[i] = trace[i]
      /\ trace'[Len(trace) + 1].memory_ops = ops
  BY Pushed
<1>2. /\ Len(trace) + 1 \notin Steps
      /\ Steps' = Steps \cup {Len(trace) + 1}
  BY <1>1, SMT DEF Steps
<1>3. /\ \A i \in Steps : trace'[i].memory_ops = trace[i].memory_ops
      /\ trace'[Len(trace) + 1].memory_ops = ops
  BY <1>1 DEF Steps
<1>5. /\ \A i \in Steps : \A k, l \in Int : Earlier(i, k, Len(trace) + 1, l)
      /\ \A i \in Steps : \A k, l \in Int : ~Earlier(Len(trace) + 1, l, i, k)
      /\ \A k, l \in Int : Earlier(Len(trace) + 1, k, Len(trace) + 1, l) <=> k < l
  BY <1>1, SMT DEF Steps, Earlier
<1> QED
  BY <1>1, <1>2, <1>3, <1>5

\* A step extends the history of every register it keeps a history of.
LEMMA HistoryStep ==
  ASSUME TypeOK, NEW registers, NEW ops, NEW ticks, NEW next_pc,
         Effect(registers, ops, ticks, next_pc),
         NEW r \in Regs, LogHistory(r),
         HistoryOn(r, ops, Registers[r], registers[r])
  PROVE  LogHistory(r)'
<1> DEFINE last == Len(trace) + 1
           K    == 1 .. Len(ops)
<1>1. /\ last \notin Steps
      /\ Steps' = Steps \cup {last}
      /\ \A i \in Steps : trace'[i].memory_ops = trace[i].memory_ops
      /\ trace'[last].memory_ops = ops
      /\ \A i \in Steps : \A k, l \in Int : Earlier(i, k, last, l)
      /\ \A i \in Steps : \A k, l \in Int : ~Earlier(last, l, i, k)
      /\ \A k, l \in Int : Earlier(last, k, last, l) <=> k < l
  BY PushedOps
<1>2. /\ \A i \in Steps : \A k \in OpsOf(i) : k \in Int
      /\ \A k \in K : k \in Int
  BY DEF OpsOf
<1>3. Registers' = registers
  BY Pushed
<1> HIDE DEF last
<1> USE DEF OpsOf, Op
<1>4. ASSUME NEW j \in Steps', NEW l \in OpsOf(j)', FirstOn(r, j, l)'
      PROVE  Op(j, l)'.old_value = 0
  <2>1. /\ Op(j, l)'.address = r
        /\ \A i \in Steps' : \A k \in OpsOf(i)' :
             Op(i, k)'.address = r => ~Earlier(i, k, j, l)
    BY <1>4 DEF FirstOn, Earlier
  <2>2. CASE j \in Steps
    <3>1. FirstOn(r, j, l)
      BY <1>1, <2>1, <2>2 DEF FirstOn
    <3> QED
      BY <1>1, <2>2, <3>1 DEF LogHistory, ReadsLastWriteOn
  <2>3. CASE j = last
    <3>1. \A i \in Steps : \A k \in OpsOf(i) : Op(i, k).address # r
      BY <1>1, <1>2, <2>1, <2>3
    <3>2. Registers[r] = 0
      BY <3>1 DEF LogHistory, LogGives
    <3>3. l \in K /\ ops[l].address = r /\ \A k \in K : ops[k].address = r => ~(k < l)
      BY <1>1, <1>2, <2>1, <2>3
    <3>4. ops[l].old_value = Registers[r]
      BY <3>3 DEF HistoryOn
    <3> QED
      BY <1>1, <2>3, <3>2, <3>3, <3>4
  <2> QED
    BY <1>1, <2>2, <2>3
<1>5. ASSUME NEW i \in Steps', NEW j \in Steps', NEW k \in OpsOf(i)', NEW l \in OpsOf(j)',
             ConsecutiveOn(r, i, k, j, l)'
      PROVE  Op(j, l)'.old_value = Op(i, k)'.new_value
  <2>1. /\ Op(i, k)'.address = r
        /\ Op(j, l)'.address = r
        /\ Earlier(i, k, j, l)
        /\ \A m \in Steps' : \A n \in OpsOf(m)' :
             Op(m, n)'.address = r => ~(Earlier(i, k, m, n) /\ Earlier(m, n, j, l))
    BY <1>5 DEF ConsecutiveOn, Earlier
  <2>2. CASE i \in Steps /\ j \in Steps
    <3>1. ConsecutiveOn(r, i, k, j, l)
      BY <1>1, <2>1, <2>2 DEF ConsecutiveOn
    <3>2. k \in OpsOf(i) /\ l \in OpsOf(j)
      BY <1>1, <2>2
    <3>3. trace[j].memory_ops[l].old_value = trace[i].memory_ops[k].new_value
      BY <2>2, <3>1, <3>2 DEF LogHistory, ReadsLastWriteOn
    <3> QED
      BY <1>1, <2>2, <3>3
  <2>3. CASE i \in Steps /\ j = last
    <3>1. LastOn(r, i, k)
      BY <1>1, <1>2, <2>1, <2>3 DEF LastOn
    <3>2. k \in OpsOf(i) /\ Registers[r] = Op(i, k).new_value
      BY <1>1, <2>3, <3>1 DEF LogHistory, LogGives
    <3>3. l \in K /\ ops[l].address = r /\ \A n \in K : ops[n].address = r => ~(n < l)
      BY <1>1, <1>2, <2>1, <2>3, <3>2
    <3>4. ops[l].old_value = Registers[r]
      BY <3>3 DEF HistoryOn
    <3> QED
      BY <1>1, <2>3, <3>2, <3>3, <3>4
  <2>4. CASE i = last /\ j = last
    <3>1. /\ k \in K /\ l \in K /\ k < l
          /\ ops[k].address = r /\ ops[l].address = r
          /\ \A n \in K : ops[n].address = r => ~(k < n /\ n < l)
      BY <1>1, <1>2, <2>1, <2>4
    <3>2. ops[l].old_value = ops[k].new_value
      BY <3>1 DEF HistoryOn
    <3> QED
      BY <1>1, <2>4, <3>1, <3>2
  <2>5. ~(i = last /\ j \in Steps)
    BY <1>1, <1>2, <2>1
  <2> QED
    BY <1>1, <2>2, <2>3, <2>4, <2>5
<1>6. ASSUME \A i \in Steps' : \A k \in OpsOf(i)' : Op(i, k)'.address # r
      PROVE  Registers'[r] = 0
  <2>1. \A i \in Steps : \A k \in OpsOf(i) : Op(i, k).address # r
    BY <1>1, <1>6
  <2>2. \A k \in K : ops[k].address # r
    BY <1>1, <1>6
  <2>3. registers[r] = Registers[r]
    BY <2>2 DEF HistoryOn
  <2> QED
    BY <1>3, <2>1, <2>3 DEF LogHistory, LogGives
<1>7. ASSUME NEW i \in Steps', NEW k \in OpsOf(i)', LastOn(r, i, k)'
      PROVE  Registers'[r] = Op(i, k)'.new_value
  <2>1. /\ Op(i, k)'.address = r
        /\ \A j \in Steps' : \A l \in OpsOf(j)' :
             Op(j, l)'.address = r => ~Earlier(i, k, j, l)
    BY <1>7 DEF LastOn, Earlier
  <2>2. CASE i \in Steps
    <3>1. LastOn(r, i, k) /\ k \in OpsOf(i)
      BY <1>1, <2>1, <2>2 DEF LastOn
    <3>2. \A l \in K : ops[l].address # r
      BY <1>1, <1>2, <2>1, <2>2
    <3>3. registers[r] = Registers[r]
      BY <3>2 DEF HistoryOn
    <3> QED
      BY <1>1, <1>3, <2>2, <3>1, <3>3 DEF LogHistory, LogGives
  <2>3. CASE i = last
    <3>1. k \in K /\ ops[k].address = r /\ \A l \in K : ops[l].address = r => ~(k < l)
      BY <1>1, <1>2, <2>1, <2>3
    <3>2. registers[r] = ops[k].new_value
      BY <3>1 DEF HistoryOn
    <3> QED
      BY <1>1, <1>3, <2>3, <3>1, <3>2
  <2> QED
    BY <1>1, <2>2, <2>3
<1> QED
  BY <1>4, <1>5, <1>6, <1>7 DEF LogHistory, ReadsLastWriteOn, LogGives

\* A register that is logged after a step was logged before it, and the step
\* dropped no write to it.
LEMMA LoggedStep ==
  ASSUME TypeOK, NEW registers, NEW ops, NEW ticks, NEW next_pc,
         Effect(registers, ops, ticks, next_pc), NEW r \in Logged'
  PROVE  r \in Logged /\ (r # 0 \/ ~Drops(registers))
<1> DEFINE last == Len(trace) + 1
<1>1. /\ Steps' = Steps \cup {last}
      /\ \A i \in Steps : trace'[i] = trace[i]
      /\ trace'[last].instruction = Fetched
      /\ trace'[last].registers = registers
  <2>1. Steps' = Steps \cup {last}
    BY PushedOps
  <2>2. /\ \A i \in 1 .. Len(trace) : trace'[i] = trace[i]
        /\ trace'[last] = [pc |-> pc, registers |-> registers, instruction |-> Fetched,
                           memory_ops |-> ops]
    BY Pushed
  <2> QED
    BY <2>1, <2>2 DEF Steps
<1>2. r \in Regs /\ (r # 0 \/ ~DroppedWrite')
  BY DEF Logged
<1>3. DroppedWrite => DroppedWrite'
  BY <1>1 DEF DroppedWrite
<1>4. Drops(registers) => DroppedWrite'
  BY <1>1 DEF DroppedWrite, Drops
<1> QED
  BY <1>2, <1>3, <1>4 DEF Logged

\* On every logged register the log is a history of a cell that starts at 0,
\* and gives the value the register holds, in every reachable state.
THEOREM VmLogHistory == Spec => [](ReadsLastWrite /\ LogGivesRegisters)
<1> DEFINE Inv == \A r \in Logged : LogHistory(r)
<1>1. Init => Inv
  BY DEF Init, LogHistory, ReadsLastWriteOn, LogGives, Steps, Logged, Registers
<1>2. TypeOK /\ Inv /\ [Next]_vars => Inv'
  <2> SUFFICES ASSUME TypeOK, Inv, [Next]_vars PROVE Inv'
    OBVIOUS
  <2>1. ASSUME NEW registers, NEW ops, NEW ticks, NEW next_pc,
               Effect(registers, ops, ticks, next_pc)
        PROVE  Inv'
    <3> SUFFICES ASSUME NEW r \in Logged' PROVE LogHistory(r)'
      OBVIOUS
    <3>1. r \in Logged /\ (r # 0 \/ ~Drops(registers))
      BY <2>1, LoggedStep
    <3>2. r \in Regs /\ LogHistory(r)
      BY <3>1 DEF Logged
    <3>3. HistoryOn(r, ops, Registers[r], registers[r])
      BY <2>1, <3>1, <3>2 DEF Effect
    <3> QED
      BY <2>1, <3>2, <3>3, HistoryStep
  <2>2. CASE StepPanic \/ UNCHANGED vars
    <3>1. trace' = trace
      BY <2>2 DEF StepPanic, vars
    <3>2. Logged' = Logged
      BY <3>1 DEF Logged, DroppedWrite, Steps
    <3>3. \A r \in Regs : ReadsLastWriteOn(r)' <=> ReadsLastWriteOn(r)
      BY <3>1 DEF ReadsLastWriteOn, FirstOn, ConsecutiveOn, Steps, OpsOf, Op, Earlier
    <3>4. \A r \in Regs : LogGives(r)' <=> LogGives(r)
      BY <3>1 DEF LogGives, LastOn, Steps, OpsOf, Op, Earlier, Registers
    <3> QED
      BY <3>2, <3>3, <3>4 DEF LogHistory, Logged
  <2> QED
    BY <2>1, <2>2, StepEffect
<1>3. Inv => ReadsLastWrite /\ LogGivesRegisters
  BY DEF LogHistory, ReadsLastWrite, LogGivesRegisters
<1> QED
  BY <1>1, <1>2, <1>3, VmTypeOK, PTL DEF Spec

\* Every operation on a logged register reads what the one before it wrote.
THEOREM VmReadsLastWrite == Spec => []ReadsLastWrite
  BY VmLogHistory, PTL

\* The log gives the value of every logged register.
THEOREM VmLogGivesRegisters == Spec => []LogGivesRegisters
  BY VmLogHistory, PTL

(***************************************************************************)
(* The trace is an execution of the program: each step is a function of    *)
(* the instruction at its pc, the registers the step before left and the   *)
(* clock.  The prover rebuilds the rows of its tables from this, and a run *)
(* that comes back to a pc and registers loops.                            *)
(***************************************************************************)

(***************************************************************************)
(* What instruction i, at pc p, with registers R at time ts, does.         *)
(***************************************************************************)
Jumps == {"Jal", "Jalr"}

Result(i, p, R) ==
  CASE i.op \in ImmediateOps -> Alu(i.op, R[i.rs1], i.imm)
    [] i.op \in RegisterOps  -> Alu(i.op, R[i.rs1], R[i.rs2])
    [] i.op \in UpperOps     -> Alu(i.op, p, i.imm)
    [] i.op \in Jumps        -> Plus(p, 4)

After(i, p, R) ==
  IF i.rd = 0 /\ i.op \in Jumps THEN R ELSE [R EXCEPT ![i.rd] = Result(i, p, R)]

\* A Jalr to x0 logs a write of 0.
Logs(i, p, R) == IF i.rd = 0 /\ i.op = "Jalr" THEN 0 ELSE Result(i, p, R)

Emits(i, p, R, ts) ==
  CASE i.op \in ImmediateOps \cup {"Jalr"} ->
         <<Read(i.rs1, ts, R[i.rs1]), Write(i.rd, ts + 1, R[i.rd], Logs(i, p, R))>>
    [] i.op \in RegisterOps ->
         <<Read(i.rs1, ts, R[i.rs1]), Read(i.rs2, ts + 1, R[i.rs2]),
           Write(i.rd, ts + 2, R[i.rd], Logs(i, p, R))>>
    [] i.op \in UpperOps \/ (i.op = "Jal" /\ i.rd # 0) ->
         <<Write(i.rd, ts, R[i.rd], Logs(i, p, R))>>
    [] i.op = "Jal" /\ i.rd = 0 -> <<>>

Takes(i) ==
  CASE i.op \in ImmediateOps \cup {"Jalr"} -> 2
    [] i.op \in RegisterOps                -> 3
    [] i.op \in UpperOps \cup {"Jal"}      -> 1

Target(i, p, R) ==
  CASE i.op = "Jal"  -> Plus(p, i.imm)
    [] i.op = "Jalr" -> ClearLsb(Plus(R[i.rs1], i.imm))
    [] OTHER         -> p + 4

Ops == ImmediateOps \cup RegisterOps \cup UpperOps \cup Jumps

\* A step that does that.
Does(i) ==
  /\ Fetches(Ops)
  /\ i = Fetched
  /\ i \in Instruction
  /\ pc + 4 \in Word
  /\ Push(After(i, pc, Registers), Emits(i, pc, Registers, timestamp), Takes(i),
          Target(i, pc, Registers))

\* What that is for each kind of instruction.
LEMMA Kinds ==
  ASSUME NEW i, NEW p, NEW R, NEW ts
  PROVE  /\ i.op \in ImmediateOps =>
              /\ Result(i, p, R) = Alu(i.op, R[i.rs1], i.imm)
              /\ Logs(i, p, R) = Result(i, p, R)
              /\ After(i, p, R) = [R EXCEPT ![i.rd] = Result(i, p, R)]
              /\ Takes(i) = 2 /\ Target(i, p, R) = p + 4
              /\ Emits(i, p, R, ts) =
                   <<Read(i.rs1, ts, R[i.rs1]),
                     Write(i.rd, ts + 1, R[i.rd], Result(i, p, R))>>
         /\ i.op \in RegisterOps =>
              /\ Result(i, p, R) = Alu(i.op, R[i.rs1], R[i.rs2])
              /\ Logs(i, p, R) = Result(i, p, R)
              /\ After(i, p, R) = [R EXCEPT ![i.rd] = Result(i, p, R)]
              /\ Takes(i) = 3 /\ Target(i, p, R) = p + 4
              /\ Emits(i, p, R, ts) =
                   <<Read(i.rs1, ts, R[i.rs1]), Read(i.rs2, ts + 1, R[i.rs2]),
                     Write(i.rd, ts + 2, R[i.rd], Result(i, p, R))>>
         /\ i.op \in UpperOps =>
              /\ Result(i, p, R) = Alu(i.op, p, i.imm)
              /\ Logs(i, p, R) = Result(i, p, R)
              /\ After(i, p, R) = [R EXCEPT ![i.rd] = Result(i, p, R)]
              /\ Takes(i) = 1 /\ Target(i, p, R) = p + 4
              /\ Emits(i, p, R, ts) = <<Write(i.rd, ts, R[i.rd], Result(i, p, R))>>
         /\ i.op = "Jal" =>
              /\ Result(i, p, R) = Plus(p, 4)
              /\ Logs(i, p, R) = Result(i, p, R)
              /\ After(i, p, R) =
                   IF i.rd = 0 THEN R ELSE [R EXCEPT ![i.rd] = Result(i, p, R)]
              /\ Takes(i) = 1 /\ Target(i, p, R) = Plus(p, i.imm)
              /\ Emits(i, p, R, ts) =
                   IF i.rd = 0 THEN <<>> ELSE <<Write(i.rd, ts, R[i.rd], Result(i, p, R))>>
         /\ i.op = "Jalr" =>
              /\ Result(i, p, R) = Plus(p, 4)
              /\ Logs(i, p, R) = IF i.rd = 0 THEN 0 ELSE Result(i, p, R)
              /\ After(i, p, R) =
                   IF i.rd = 0 THEN R ELSE [R EXCEPT ![i.rd] = Result(i, p, R)]
              /\ Takes(i) = 2 /\ Target(i, p, R) = ClearLsb(Plus(R[i.rs1], i.imm))
              /\ Emits(i, p, R, ts) =
                   <<Read(i.rs1, ts, R[i.rs1]),
                     Write(i.rd, ts + 1, R[i.rd], IF i.rd = 0 THEN 0 ELSE Result(i, p, R))>>
<1> USE DEF ImmediateOps, RegisterOps, UpperOps, Jumps
<1>1. /\ i.op \in ImmediateOps => Result(i, p, R) = Alu(i.op, R[i.rs1], i.imm)
      /\ i.op \in RegisterOps => Result(i, p, R) = Alu(i.op, R[i.rs1], R[i.rs2])
      /\ i.op \in UpperOps => Result(i, p, R) = Alu(i.op, p, i.imm)
      /\ i.op \in Jumps => Result(i, p, R) = Plus(p, 4)
  BY DEF Result
<1>2. /\ i.op \in Ops => Logs(i, p, R) = IF i.rd = 0 /\ i.op = "Jalr" THEN 0 ELSE Result(i, p, R)
      /\ i.op \in Ops => After(i, p, R) = IF i.rd = 0 /\ i.op \in Jumps THEN R
                                         ELSE [R EXCEPT ![i.rd] = Result(i, p, R)]
  BY DEF Logs, After
<1>3. CASE i.op \in ImmediateOps
  BY <1>1, <1>2, <1>3 DEF Takes, Target, Emits, Ops
<1>4. CASE i.op \in RegisterOps
  BY <1>1, <1>2, <1>4 DEF Takes, Target, Emits, Ops
<1>5. CASE i.op \in UpperOps
  BY <1>1, <1>2, <1>5 DEF Takes, Target, Emits, Ops
<1>6. CASE i.op = "Jal"
  BY <1>1, <1>2, <1>6 DEF Takes, Target, Emits, Ops
<1>7. CASE i.op = "Jalr"
  BY <1>1, <1>2, <1>7 DEF Takes, Target, Emits, Ops
<1> QED
  BY <1>3, <1>4, <1>5, <1>6, <1>7

\* Every step of the VM that does not panic does that.
LEMMA StepDoes ==
  ASSUME TypeOK, Next
  PROVE  StepPanic \/ Does(Fetched)
<1> DEFINE i == Fetched
           R == Registers
<1>0. ASSUME NEW ops \in SUBSET Ops, Fetches(ops)
      PROVE  /\ Fetches(Ops) /\ i \in Instruction /\ i.op \in ops /\ pc + 4 \in Word
  BY <1>0, FetchedType DEF Fetches
<1>k. /\ {ImmediateOps, RegisterOps, UpperOps, {"Jal"}, {"Jalr"}} \subseteq SUBSET Ops
      /\ \A ops \in {ImmediateOps, RegisterOps, UpperOps} : "Jal" \notin ops /\ "Jalr" \notin ops
  BY DEF Ops, ImmediateOps, RegisterOps, UpperOps, Jumps
<1>1. CASE StepImmediate
  <2>1. Fetches(ImmediateOps)
    BY <1>1 DEF StepImmediate
  <2>2. /\ Fetches(Ops) /\ i \in Instruction /\ i.op \in ImmediateOps /\ pc + 4 \in Word
    BY <1>0, <1>k, <2>1
  <2>3. /\ After(i, pc, R) = [R EXCEPT ![i.rd] = Alu(i.op, R[i.rs1], i.imm)]
        /\ Emits(i, pc, R, timestamp) =
             <<Read(i.rs1, timestamp, R[i.rs1]),
               Write(i.rd, timestamp + 1, R[i.rd], Alu(i.op, R[i.rs1], i.imm))>>
        /\ Takes(i) = 2 /\ Target(i, pc, R) = pc + 4
    BY <1>k, <2>2, Kinds
  <2> QED
    BY <1>1, <2>2, <2>3, Zenon DEF StepImmediate, Does
<1>2. CASE StepRegister
  <2>1. Fetches(RegisterOps)
    BY <1>2 DEF StepRegister
  <2>2. /\ Fetches(Ops) /\ i \in Instruction /\ i.op \in RegisterOps /\ pc + 4 \in Word
    BY <1>0, <1>k, <2>1
  <2>3. /\ After(i, pc, R) = [R EXCEPT ![i.rd] = Alu(i.op, R[i.rs1], R[i.rs2])]
        /\ Emits(i, pc, R, timestamp) =
             <<Read(i.rs1, timestamp, R[i.rs1]), Read(i.rs2, timestamp + 1, R[i.rs2]),
               Write(i.rd, timestamp + 2, R[i.rd], Alu(i.op, R[i.rs1], R[i.rs2]))>>
        /\ Takes(i) = 3 /\ Target(i, pc, R) = pc + 4
    BY <1>k, <2>2, Kinds
  <2> QED
    BY <1>2, <2>2, <2>3, Zenon DEF StepRegister, Does
<1>3. CASE StepUpper
  <2>1. Fetches(UpperOps)
    BY <1>3 DEF StepUpper
  <2>2. /\ Fetches(Ops) /\ i \in Instruction /\ i.op \in UpperOps /\ pc + 4 \in Word
    BY <1>0, <1>k, <2>1
  <2>3. /\ After(i, pc, R) = [R EXCEPT ![i.rd] = Alu(i.op, pc, i.imm)]
        /\ Emits(i, pc, R, timestamp) =
             <<Write(i.rd, timestamp, R[i.rd], Alu(i.op, pc, i.imm))>>
        /\ Takes(i) = 1 /\ Target(i, pc, R) = pc + 4
    BY <1>k, <2>2, Kinds
  <2> QED
    BY <1>3, <2>2, <2>3, Zenon DEF StepUpper, Does
<1>4. CASE StepJal
  <2>1. Fetches({"Jal"})
    BY <1>4 DEF StepJal
  <2>2. /\ Fetches(Ops) /\ i \in Instruction /\ i.op = "Jal" /\ pc + 4 \in Word
    BY <1>0, <1>k, <2>1
  <2>3. /\ Takes(i) = 1 /\ Target(i, pc, R) = Plus(pc, i.imm)
        /\ After(i, pc, R) = IF i.rd = 0 THEN R ELSE [R EXCEPT ![i.rd] = Plus(pc, 4)]
        /\ Emits(i, pc, R, timestamp) =
             IF i.rd = 0 THEN <<>> ELSE <<Write(i.rd, timestamp, R[i.rd], Plus(pc, 4))>>
    BY <1>k, <2>2, Kinds
  <2>4. CASE i.rd # 0
    <3>1. /\ After(i, pc, R) = [R EXCEPT ![i.rd] = Plus(pc, 4)]
          /\ Emits(i, pc, R, timestamp) = <<Write(i.rd, timestamp, R[i.rd], Plus(pc, 4))>>
      BY <2>3, <2>4
    <3> QED
      BY <1>4, <2>2, <2>3, <2>4, <3>1, Zenon DEF StepJal, Does
  <2>5. CASE i.rd = 0
    <3>1. After(i, pc, R) = R /\ Emits(i, pc, R, timestamp) = <<>>
      BY <2>3, <2>5
    <3> QED
      BY <1>4, <2>2, <2>3, <2>5, <3>1, Zenon DEF StepJal, Does
  <2> QED
    BY <2>4, <2>5
<1>5. CASE StepJalr
  <2>1. Fetches({"Jalr"})
    BY <1>5 DEF StepJalr
  <2>2. /\ Fetches(Ops) /\ i \in Instruction /\ i.op = "Jalr" /\ pc + 4 \in Word
    BY <1>0, <1>k, <2>1
  <2> DEFINE ret == IF i.rd = 0 THEN 0 ELSE Plus(pc, 4)
  <2>3. /\ Takes(i) = 2 /\ Target(i, pc, R) = ClearLsb(Plus(R[i.rs1], i.imm))
        /\ After(i, pc, R) = IF i.rd = 0 THEN R ELSE [R EXCEPT ![i.rd] = ret]
        /\ Emits(i, pc, R, timestamp) = <<Read(i.rs1, timestamp, R[i.rs1]),
                                          Write(i.rd, timestamp + 1, R[i.rd], ret)>>
    BY <1>k, <2>2, Kinds
  <2> QED
    BY <1>5, <2>2, <2>3, Zenon DEF StepJalr, Does
<1> QED
  BY <1>1, <1>2, <1>3, <1>4, <1>5 DEF Next

(***************************************************************************)
(* The trace records an execution.                                         *)
(***************************************************************************)
\* Where the run was after step i.
PcAfter(i) == IF i = Len(trace) THEN pc ELSE trace[i + 1].pc

\* Step i executed the instruction of the program at its pc, on the registers
\* before it.
Executed(i) ==
  LET s == trace[i]
  IN  /\ s.pc \in Nat /\ s.pc + 3 < program.len /\ s.pc + 4 \in Word
      /\ s.instruction = program.word[s.pc]
      /\ s.instruction \in Instruction /\ s.instruction.op \in Ops
      /\ s.registers = After(s.instruction, s.pc, RegistersBefore(i))
      /\ PcAfter(i) = Target(s.instruction, s.pc, RegistersBefore(i))

\* The steps follow each other from pc 0 to pc.
Path ==
  /\ \A i \in Steps : Executed(i)
  /\ IF trace = <<>> THEN pc = 0 ELSE trace[1].pc = 0

\* The clock before each step, and after the last, is clock: it starts at 0,
\* every step advances it, and stamps its operations with it.
Clocked(clock) ==
  /\ clock \in [1 .. Len(trace) + 1 -> Nat]
  /\ clock[1] = 0
  /\ clock[Len(trace) + 1] = timestamp
  /\ \A i \in Steps :
       LET s == trace[i]
       IN  /\ clock[i + 1] = clock[i] + Takes(s.instruction)
           /\ s.memory_ops = Emits(s.instruction, s.pc, RegistersBefore(i), clock[i])

Recorded == Path /\ \E clock : Clocked(clock)

\* What the trace is after a step.
LEMMA DoesPushes ==
  ASSUME TypeOK, Does(Fetched), NEW n, n = Len(trace)
  PROVE  /\ n \in Nat
         /\ Len(trace') = n + 1
         /\ Steps = 1 .. n /\ Steps' = 1 .. n + 1
         /\ \A i \in 1 .. n : trace'[i] = trace[i]
         /\ trace'[n + 1] =
              [pc |-> pc, registers |-> After(Fetched, pc, Registers),
               instruction |-> Fetched,
               memory_ops |-> Emits(Fetched, pc, Registers, timestamp)]
         /\ \A i \in 1 .. n : RegistersBefore(i)' = RegistersBefore(i)
         /\ RegistersBefore(n + 1)' = Registers
         /\ Registers' = After(Fetched, pc, Registers)
         /\ pc' = Target(Fetched, pc, Registers)
         /\ \A i \in 1 .. n : PcAfter(i)' = PcAfter(i)
         /\ PcAfter(n + 1)' = pc'
<1> DEFINE step == [pc |-> pc, registers |-> After(Fetched, pc, Registers),
                    instruction |-> Fetched,
                    memory_ops |-> Emits(Fetched, pc, Registers, timestamp)]
<1>1. trace' = Append(trace, step) /\ pc' = Target(Fetched, pc, Registers)
  BY DEF Does, Push
<1>2. trace \in Seq(ExecutionStep) /\ n \in Nat /\ n = Len(trace)
  BY DEF TypeOK
<1> HIDE DEF step
<1>3. /\ Len(trace') = n + 1
      /\ \A i \in 1 .. n : trace'[i] = trace[i]
      /\ trace'[n + 1] = step
  BY <1>1, <1>2
<1>4. Steps = 1 .. n /\ Steps' = 1 .. n + 1
  BY <1>3 DEF Steps
<1>5. \A i \in 1 .. n : RegistersBefore(i)' = RegistersBefore(i)
  BY <1>2, <1>3 DEF RegistersBefore
<1>6. RegistersBefore(n + 1)' = Registers
  <2>1. CASE n = 0
    <3>1. trace = <<>>
      BY <1>2, <2>1, EmptySeq
    <3> QED
      BY <2>1, <3>1 DEF RegistersBefore, Registers
  <2>2. CASE n # 0
    <3>1. trace # <<>> /\ n \in 1 .. n /\ (n + 1) - 1 = n /\ n + 1 # 1
      BY <1>2, <2>2
    <3> QED
      BY <1>3, <3>1 DEF RegistersBefore, Registers
  <2> QED
    BY <2>1, <2>2
<1>7. Registers' = After(Fetched, pc, Registers)
  <2>1. trace' # <<>>
    BY <1>2, <1>3
  <2> QED
    BY <1>3, <2>1 DEF Registers, step
<1>8. /\ \A i \in 1 .. n : PcAfter(i)' = PcAfter(i)
      /\ PcAfter(n + 1)' = pc'
  <2>1. trace'[n + 1].pc = pc
    BY <1>3 DEF step
  <2> QED
    BY <1>2, <1>3, <2>1 DEF PcAfter
<1> QED
  BY <1>1, <1>2, <1>3, <1>4, <1>5, <1>6, <1>7, <1>8 DEF step

\* A step extends the path and the clock.
LEMMA RecordedStep ==
  ASSUME TypeOK, Recorded, [Next]_vars
  PROVE  Recorded'
<1>0. PICK n : n = Len(trace)
  OBVIOUS
<1>1. CASE Does(Fetched)
  <2>0. /\ n \in Nat /\ Steps = 1 .. n /\ Steps' = 1 .. n + 1 /\ Len(trace') = n + 1
        /\ \A i \in 1 .. n : trace'[i] = trace[i] /\ RegistersBefore(i)' = RegistersBefore(i)
        /\ \A i \in 1 .. n : PcAfter(i)' = PcAfter(i)
        /\ RegistersBefore(n + 1)' = Registers
        /\ PcAfter(n + 1)' = Target(Fetched, pc, Registers)
        /\ trace'[n + 1] =
             [pc |-> pc, registers |-> After(Fetched, pc, Registers), instruction |-> Fetched,
              memory_ops |-> Emits(Fetched, pc, Registers, timestamp)]
    BY <1>0, <1>1, DoesPushes
  <2>1. program' = program /\ timestamp' = timestamp + Takes(Fetched)
    BY <1>1 DEF Does, Push
  <2>2. ASSUME NEW i \in 1 .. n
        PROVE  Executed(i)'
    <3>1. Executed(i)
      BY <2>0, <2>2 DEF Recorded, Path
    <3> QED
      BY <2>0, <2>1, <3>1, Zenon DEF Executed
  <2>3. Executed(n + 1)'
    <3>1. /\ pc \in Nat /\ pc + 3 < program.len /\ pc + 4 \in Word
          /\ Fetched = program.word[pc] /\ Fetched \in Instruction /\ Fetched.op \in Ops
      BY <1>1, WordIsNat DEF Does, Fetches, CanFetch, TypeOK, Fetched
    <3> QED
      BY <2>0, <2>1, <3>1 DEF Executed
  <2>4. Path'
    <3>1. trace' # <<>>
      BY <2>0
    <3>2. trace'[1].pc = 0
      <4>1. CASE trace = <<>>
        BY <1>0, <2>0, <4>1 DEF Recorded, Path
      <4>2. CASE trace # <<>>
        <5>1. 1 \in 1 .. n
          BY <1>0, <2>0, <4>2 DEF TypeOK
        <5> QED
          BY <2>0, <4>2, <5>1 DEF Recorded, Path
      <4> QED
        BY <4>1, <4>2
    <3>3. \A i \in Steps' : Executed(i)'
      BY <2>0, <2>2, <2>3
    <3> QED
      BY <3>1, <3>2, <3>3 DEF Path
  <2>5. PICK clock : Clocked(clock)
    BY DEF Recorded
  <2>n. PICK new : new = [i \in 1 .. n + 2 |-> IF i = n + 2 THEN timestamp' ELSE clock[i]]
    OBVIOUS
  <2>6. timestamp \in Nat /\ Takes(Fetched) \in Nat /\ timestamp' \in Nat
    <3>1. Takes(Fetched) \in Nat
      BY <1>1 DEF Does, Fetches, Takes, Ops, Jumps
    <3> QED
      BY <2>1, <3>1 DEF TypeOK
  <2>7. /\ clock \in [1 .. n + 1 -> Nat] /\ clock[1] = 0 /\ clock[n + 1] = timestamp
        /\ \A i \in 1 .. n :
             /\ clock[i + 1] = clock[i] + Takes(trace[i].instruction)
             /\ trace[i].memory_ops =
                  Emits(trace[i].instruction, trace[i].pc, RegistersBefore(i), clock[i])
    BY <1>0, <2>0, <2>5 DEF Clocked
  <2>8. /\ new \in [1 .. Len(trace') + 1 -> Nat] /\ new[1] = 0
        /\ new[Len(trace') + 1] = timestamp'
        /\ \A i \in 1 .. n : new[i] = clock[i] /\ new[i + 1] = clock[i + 1]
        /\ new[n + 1] = timestamp /\ new[(n + 1) + 1] = timestamp'
    BY <2>n, <2>0, <2>6, <2>7
  <2>9. ASSUME NEW i \in 1 .. n + 1
        PROVE  /\ new[i + 1] = new[i] + Takes(trace'[i].instruction)
               /\ trace'[i].memory_ops =
                    Emits(trace'[i].instruction, trace'[i].pc, RegistersBefore(i)', new[i])
    <3>1. CASE i \in 1 .. n
      BY <2>0, <2>7, <2>8, <3>1
    <3>2. CASE i = n + 1
      BY <2>0, <2>1, <2>8, <3>2
    <3> QED
      BY <2>0, <3>1, <3>2
  <2>10. Clocked(new)'
    BY <2>0, <2>8, <2>9 DEF Clocked
  <2> QED
    BY <2>4, <2>10 DEF Recorded
<1>2. CASE StepPanic \/ UNCHANGED vars
  <2>1. trace' = trace /\ pc' = pc /\ program' = program /\ timestamp' = timestamp
    BY <1>2 DEF StepPanic, vars
  <2>2. Steps' = Steps /\ \A i : RegistersBefore(i)' = RegistersBefore(i) /\ PcAfter(i)' = PcAfter(i)
    BY <2>1 DEF RegistersBefore, PcAfter, Steps
  <2>3. Path'
    BY <2>1, <2>2 DEF Recorded, Path, Executed
  <2>4. PICK clock : Clocked(clock)
    BY DEF Recorded
  <2>5. Clocked(clock)'
    BY <2>1, <2>2, <2>4 DEF Clocked
  <2> QED
    BY <2>3, <2>5 DEF Recorded
<1> QED
  BY <1>1, <1>2, StepDoes

\* Nothing has run at the start.
LEMMA RecordedInit ==
  ASSUME Init
  PROVE  Recorded
<1>1. Path
  BY DEF Init, Path, Steps
<1>2. Clocked([i \in 1 .. 1 |-> 0])
  BY DEF Init, Clocked, Steps
<1> QED
  BY <1>1, <1>2, Zenon DEF Recorded

\* In every reachable state the trace is the execution of the program from
\* pc 0 to pc, and the clock has advanced by what its steps take: every field
\* of a step is a function of its instruction, pc, registers and clock.
THEOREM VmRecorded == Spec => []Recorded
<1>1. Init => Recorded
  BY RecordedInit
<1>2. TypeOK /\ Recorded /\ [Next]_vars => Recorded'
  BY RecordedStep
<1> QED
  BY <1>1, <1>2, VmTypeOK, PTL DEF Spec

(***************************************************************************)
(* Loops.                                                                  *)
(***************************************************************************)
\* A step from a pc and registers where the run was before goes where it went.
LEMMA LoopStep ==
  ASSUME TypeOK, Recorded, Recorded', Looping, Next
  PROVE  Looping' /\ Running'
<1>0. PICK n : n = Len(trace)
  OBVIOUS
<1>1. PICK i \in Steps : trace[i].pc = pc /\ RegistersBefore(i) = Registers
  BY DEF Looping
<1>2. /\ pc + 3 < program.len /\ pc \in Nat
      /\ trace[i].instruction = Fetched /\ Fetched \in Instruction
      /\ trace[i].registers = After(Fetched, pc, Registers)
      /\ PcAfter(i) = Target(Fetched, pc, Registers)
  <2>1. Executed(i)
    BY DEF Recorded, Path
  <2> QED
    BY <1>1, <2>1 DEF Executed, Fetched
<1>3. ~StepPanic
  BY <1>2, Constants DEF StepPanic, CanFetch
<1>4. Does(Fetched)
  BY <1>3, StepDoes
<1>5. /\ n \in Nat /\ Len(trace') = n + 1 /\ Steps = 1 .. n /\ Steps' = 1 .. n + 1
      /\ \A j \in 1 .. n : trace'[j] = trace[j]
      /\ trace'[n + 1].pc = pc
      /\ Registers' = After(Fetched, pc, Registers)
      /\ pc' = Target(Fetched, pc, Registers)
      /\ PcAfter(i)' = PcAfter(i)
  BY <1>0, <1>1, <1>4, DoesPushes
<1>6. i \in 1 .. n /\ i + 1 \in Steps' /\ i + 1 # 1 /\ (i + 1) - 1 = i
  BY <1>5
<1>7. trace'[i + 1].pc = pc'
  BY <1>2, <1>5, <1>6 DEF PcAfter
<1>8. RegistersBefore(i + 1)' = Registers'
  BY <1>2, <1>5, <1>6 DEF RegistersBefore
<1>9. Looping'
  BY <1>6, <1>7, <1>8 DEF Looping
<1>10. pc' < program'.len
  <2>1. Executed(i + 1)'
    BY <1>6 DEF Recorded, Path
  <2>2. trace'[i + 1].pc \in Nat /\ trace'[i + 1].pc + 3 < program'.len
    BY <2>1 DEF Executed
  <2>3. program'.len \in Nat
    BY <1>4, Constants DEF Does, Push, TypeOK, ProgramType
  <2> QED
    BY <1>7, <2>2, <2>3
<1>11. ~panicked'
  BY <1>4 DEF Does, Push, Fetches, Running
<1> QED
  BY <1>9, <1>10, <1>11 DEF Running

\* A run that comes back to a pc and registers it had does so at every step
\* from then on, and never ends or panics.
THEOREM VmLoopsForever == Spec => LoopsForever
<1>1. TypeOK /\ Recorded /\ Recorded' /\ [Next]_vars
        => [Looping => Looping' /\ Running']_vars
  BY LoopStep
<1> QED
  BY <1>1, VmTypeOK, VmRecorded, PTL DEF Spec, LoopsForever

(***************************************************************************)
(* The VM implements the RV32I machine in every run in which x0 holds 0,   *)
(* and x0 holds 0 in every run of a program in which only Jal and Jalr     *)
(* have it for destination.                                                *)
(***************************************************************************)
\* What Push leaves.
LEMMA PushRegisters ==
  ASSUME TypeOK, NEW registers, NEW ops, NEW ticks, NEW next_pc,
         Push(registers, ops, ticks, next_pc)
  PROVE  Registers' = registers /\ pc' = next_pc /\ program' = program
<1>1. trace' = Append(trace, [pc |-> pc, registers |-> registers,
                              instruction |-> Fetched, memory_ops |-> ops])
  BY DEF Push
<1>2. /\ Len(trace') = Len(trace) + 1 /\ Len(trace) \in Nat
      /\ trace'[Len(trace) + 1].registers = registers
  BY <1>1 DEF TypeOK
<1>3. trace' # <<>>
  BY <1>2
<1> QED
  BY <1>2, <1>3 DEF Registers, Push

(***************************************************************************)
(* The cells of the machine against the registers of the VM.               *)
(***************************************************************************)
\* With x0 at 0, the machine reads the registers of the VM.
LEMMA GetRegister ==
  ASSUME X0AlwaysZero, NEW r \in Regs
  PROVE  Rv!Get(r) = Registers[r]
<1>1. r # 0 => r \in 1 .. NumRegs - 1
  BY Constants, SMT DEF Regs
<1> QED
  BY <1>1 DEF Rv!Get, X0AlwaysZero

\* An instruction the VM fetches is the one the machine executes, and pc + 4
\* is its link.
LEMMA FetchedByBoth ==
  ASSUME TypeOK, NEW ops, Fetches(ops)
  PROVE  /\ pc + 3 < program.len
         /\ Fetched = program.word[pc]
         /\ Fetched # Unsupported
         /\ Rv!Link = pc + 4
         /\ Plus(pc, 4) = pc + 4
<1>1. pc + 3 < program.len /\ Fetched = program.word[pc] /\ Fetched # Unsupported
  BY DEF Fetches, CanFetch, Fetched
<1>2. pc + 4 \in Word /\ pc \in Nat
  BY FetchedType, Constants, SMT DEF TypeOK, Word
<1>3. (pc + 4) % WordSize = pc + 4
  BY <1>2, Constants, SMT DEF Word
<1> QED
  BY <1>1, <1>3 DEF Rv!Link, Plus

\* A step that moves pc to the target and gives rd the value, or leaves the
\* registers alone when rd is x0, is a step of the machine.
LEMMA Executes ==
  ASSUME TypeOK, NEW ops, Fetches(ops), Fetched.rd \in Regs,
         \/ Registers' = [Registers EXCEPT ![Fetched.rd] = Rv!Value(Fetched)]
         \/ Fetched.rd = 0 /\ Registers' = Registers,
         pc' = Rv!Target(Fetched), program' = program
  PROVE  Rv!Execute
<1>1. Registers \in [Regs -> Word]
  BY RegistersType
<1>2. \A c \in 1 .. NumRegs - 1 : c \in Regs /\ c # 0
  BY Constants, SMT DEF Regs
<1>3. \A c \in 1 .. NumRegs - 1 :
        Registers'[c] = IF c = Fetched.rd THEN Rv!Value(Fetched) ELSE Registers[c]
  BY <1>1, <1>2
<1>4. [c \in 1 .. NumRegs - 1 |-> Registers[c]]' =
        [c \in 1 .. NumRegs - 1 |->
           IF c = Fetched.rd THEN Rv!Value(Fetched)
                             ELSE [d \in 1 .. NumRegs - 1 |-> Registers[d]][c]]
  BY <1>3
<1> QED
  BY <1>4, FetchedByBoth DEF Rv!Execute, Rv!Set, Rv!Cells, Fetched

\* Clearing the low bit is halving and doubling.
LEMMA ClearLsbHalves == \A a \in Nat : ClearLsb(a) = 2 * (a \div 2)
  BY SMT DEF ClearLsb

\* The value and the target the machine gives an instruction of each shape.
LEMMA MachineStep ==
  ASSUME NEW i
  PROVE  /\ i.op \in ImmediateOps =>
              Rv!Value(i) = Alu(i.op, Rv!Get(i.rs1), i.imm) /\ Rv!Target(i) = Rv!Link
         /\ i.op \in RegisterOps =>
              Rv!Value(i) = Alu(i.op, Rv!Get(i.rs1), Rv!Get(i.rs2)) /\ Rv!Target(i) = Rv!Link
         /\ i.op \in UpperOps =>
              Rv!Value(i) = Alu(i.op, pc, i.imm) /\ Rv!Target(i) = Rv!Link
         /\ i.op = "Jal" =>
              Rv!Value(i) = Rv!Link /\ Rv!Target(i) = Plus(pc, i.imm)
         /\ i.op = "Jalr" =>
              /\ Rv!Value(i) = Rv!Link
              /\ Rv!Target(i) = 2 * (Plus(Rv!Get(i.rs1), i.imm) \div 2)
<1>1. CASE i.op \in ImmediateOps
  <2>1. Rv!Operands(i) = <<Rv!Get(i.rs1), i.imm>> /\ ~Rv!IsJump(i) /\ i.op # "Jal" /\ i.op # "Jalr"
    BY <1>1 DEF ImmediateOps, RegisterOps, UpperOps, Rv!Operands, Rv!IsJump
  <2> QED
    BY <1>1, <2>1 DEF ImmediateOps, RegisterOps, UpperOps, Rv!Value, Rv!Target
<1>2. CASE i.op \in RegisterOps
  <2>1. Rv!Operands(i) = <<Rv!Get(i.rs1), Rv!Get(i.rs2)>> /\ ~Rv!IsJump(i)
    BY <1>2 DEF ImmediateOps, RegisterOps, UpperOps, Rv!Operands, Rv!IsJump
  <2> QED
    BY <1>2, <2>1 DEF ImmediateOps, RegisterOps, UpperOps, Rv!Value, Rv!Target
<1>3. CASE i.op \in UpperOps
  <2>1. Rv!Operands(i) = <<pc, i.imm>> /\ ~Rv!IsJump(i)
    BY <1>3 DEF ImmediateOps, RegisterOps, UpperOps, Rv!Operands, Rv!IsJump
  <2> QED
    BY <1>3, <2>1 DEF ImmediateOps, RegisterOps, UpperOps, Rv!Value, Rv!Target
<1>4. CASE i.op = "Jal"
  <2>1. Rv!Operands(i) = <<pc, i.imm>> /\ Rv!IsJump(i)
    BY <1>4 DEF ImmediateOps, RegisterOps, UpperOps, Rv!Operands, Rv!IsJump
  <2> QED
    BY <1>4, <2>1 DEF ImmediateOps, RegisterOps, UpperOps, Rv!Value, Rv!Target, Plus
<1>5. CASE i.op = "Jalr"
  <2>1. Rv!Operands(i) = <<Rv!Get(i.rs1), i.imm>> /\ Rv!IsJump(i)
    BY <1>5 DEF ImmediateOps, RegisterOps, UpperOps, Rv!Operands, Rv!IsJump
  <2> QED
    BY <1>5, <2>1 DEF ImmediateOps, RegisterOps, UpperOps, Rv!Value, Rv!Target, Plus
<1> QED
  BY <1>1, <1>2, <1>3, <1>4, <1>5

(***************************************************************************)
(* The refinement.                                                         *)
(***************************************************************************)
LEMMA InitRefines ==
  ASSUME Init
  PROVE  Rv!Init
<1>1. Registers = [r \in Regs |-> 0]
  BY DEF Init, Registers
<1>2. \A c \in 1 .. NumRegs - 1 : c \in Regs
  BY Constants, SMT DEF Regs
<1>3. [c \in 1 .. NumRegs - 1 |-> Registers[c]] = [c \in 1 .. NumRegs - 1 |-> 0]
  BY <1>1, <1>2
<1> QED
  BY <1>3 DEF Init, Rv!Init, Rv!Cells

\* Every step of the VM is a step of the machine, or changes nothing of it.
LEMMA StepRefines ==
  ASSUME TypeOK, X0AlwaysZero, [Next]_vars
  PROVE  [Rv!Execute]_(Rv!vars)
<1> DEFINE i == Fetched
           R == Registers
<1>r. R \in [Regs -> Word] /\ pc \in Nat /\ (\A a \in Word : a \in Nat)
  BY RegistersType, WordIsNat DEF TypeOK
<1>1. CASE StepImmediate
  <2>1. i \in [op : ImmediateOps, rd : Regs, rs1 : Regs, imm : Word]
    BY <1>1, FetchedType, Shapes DEF StepImmediate
  <2>2. /\ R' = [R EXCEPT ![i.rd] = Alu(i.op, R[i.rs1], i.imm)]
        /\ pc' = pc + 4 /\ program' = program
    BY <1>1, PushRegisters DEF StepImmediate
  <2>3. Rv!Value(i) = Alu(i.op, R[i.rs1], i.imm) /\ Rv!Target(i) = pc + 4
    BY <1>1, <2>1, MachineStep, GetRegister, FetchedByBoth DEF StepImmediate
  <2> QED
    BY <1>1, <2>1, <2>2, <2>3, Executes DEF StepImmediate
<1>2. CASE StepRegister
  <2>1. i \in [op : RegisterOps, rd : Regs, rs1 : Regs, rs2 : Regs]
    BY <1>2, FetchedType, Shapes DEF StepRegister
  <2>2. /\ R' = [R EXCEPT ![i.rd] = Alu(i.op, R[i.rs1], R[i.rs2])]
        /\ pc' = pc + 4 /\ program' = program
    BY <1>2, PushRegisters DEF StepRegister
  <2>3. Rv!Value(i) = Alu(i.op, R[i.rs1], R[i.rs2]) /\ Rv!Target(i) = pc + 4
    BY <1>2, <2>1, MachineStep, GetRegister, FetchedByBoth DEF StepRegister
  <2> QED
    BY <1>2, <2>1, <2>2, <2>3, Executes DEF StepRegister
<1>3. CASE StepUpper
  <2>1. i \in [op : UpperOps, rd : Regs, imm : Word]
    BY <1>3, FetchedType, Shapes DEF StepUpper
  <2>2. /\ R' = [R EXCEPT ![i.rd] = Alu(i.op, pc, i.imm)]
        /\ pc' = pc + 4 /\ program' = program
    BY <1>3, PushRegisters DEF StepUpper
  <2>3. Rv!Value(i) = Alu(i.op, pc, i.imm) /\ Rv!Target(i) = pc + 4
    BY <1>3, <2>1, MachineStep, FetchedByBoth DEF StepUpper
  <2> QED
    BY <1>3, <2>1, <2>2, <2>3, Executes DEF StepUpper
<1>4. CASE StepJal
  <2>1. i \in [op : {"Jal"}, rd : Regs, imm : Word]
    BY <1>4, FetchedType, Shapes DEF StepJal
  <2>2. /\ IF i.rd # 0 THEN R' = [R EXCEPT ![i.rd] = pc + 4] ELSE R' = R
        /\ pc' = Plus(pc, i.imm) /\ program' = program
    BY <1>4, PushRegisters, FetchedByBoth DEF StepJal
  <2>3. Rv!Value(i) = pc + 4 /\ Rv!Target(i) = Plus(pc, i.imm)
    BY <1>4, <2>1, MachineStep, FetchedByBoth DEF StepJal
  <2> QED
    BY <1>4, <2>1, <2>2, <2>3, Executes DEF StepJal
<1>5. CASE StepJalr
  <2>1. i \in [op : {"Jalr"}, rd : Regs, rs1 : Regs, imm : Word]
    BY <1>5, FetchedType, Shapes DEF StepJalr
  <2>2. /\ IF i.rd # 0 THEN R' = [R EXCEPT ![i.rd] = pc + 4] ELSE R' = R
        /\ pc' = ClearLsb(Plus(R[i.rs1], i.imm)) /\ program' = program
    BY <1>5, PushRegisters, FetchedByBoth DEF StepJalr
  <2>3. Plus(R[i.rs1], i.imm) \in Nat
    BY <2>1, <1>r, PlusType
  <2>4. Rv!Value(i) = pc + 4 /\ Rv!Target(i) = ClearLsb(Plus(R[i.rs1], i.imm))
    BY <1>5, <2>1, <2>3, MachineStep, GetRegister, FetchedByBoth, ClearLsbHalves DEF StepJalr
  <2> QED
    BY <1>5, <2>1, <2>2, <2>4, Executes DEF StepJalr
<1>6. CASE StepPanic
  BY <1>6 DEF StepPanic, Registers, Rv!vars
<1>7. CASE UNCHANGED vars
  BY <1>7 DEF vars, Registers, Rv!vars
<1> QED
  BY <1>1, <1>2, <1>3, <1>4, <1>5, <1>6, <1>7 DEF Next

\* In every run of the VM in which x0 keeps 0, the path through the program
\* and the registers x1, x2, ... are those of the RV32I machine.
THEOREM VmImplementsIsa == Spec /\ []X0AlwaysZero => ImplementsIsa
<1>1. Init => Rv!Init
  BY InitRefines
<1>2. TypeOK /\ X0AlwaysZero /\ [Next]_vars => [Rv!Execute]_(Rv!vars)
  BY StepRefines
<1> QED
  BY <1>1, <1>2, VmTypeOK, PTL DEF Spec, ImplementsIsa, Rv!Spec

(***************************************************************************)
(* Programs that keep x0 at 0.                                             *)
(***************************************************************************)
\* Only Jal and Jalr, which treat it apart, have x0 for destination.
X0Safe ==
  \A p \in Programs : \A o \in 0 .. p.len - 4 :
    p.word[o] # Unsupported /\ p.word[o].rd = 0 => p.word[o].op \in {"Jal", "Jalr"}

LEMMA FetchedSafe ==
  ASSUME X0Safe, TypeOK, program \in Programs, NEW ops, Fetches(ops),
         "Jal" \notin ops, "Jalr" \notin ops
  PROVE  Fetched.rd # 0
<1>1. pc \in 0 .. program.len - 4
  BY Constants, SMT DEF TypeOK, ProgramType, Fetches, CanFetch, Word
<1> QED
  BY <1>1 DEF X0Safe, Fetches, Fetched

\* x0 reads 0 in every run of programs in which only the jumps target it.
THEOREM X0StaysZero ==
  ASSUME X0Safe
  PROVE  Spec => []X0AlwaysZero
<1> DEFINE Inv == program \in Programs /\ X0AlwaysZero
<1>1. Init => Inv
  BY Constants DEF Init, X0AlwaysZero, Registers
<1>2. TypeOK /\ Inv /\ [Next]_vars => Inv'
  <2> SUFFICES ASSUME TypeOK, Inv, [Next]_vars PROVE Inv'
    OBVIOUS
  <2>r. Registers \in [Regs -> Word] /\ 0 \in Regs
    BY RegistersType, Constants
  <2>1. CASE StepImmediate
    <3>1. Fetched.rd # 0
      BY <2>1, FetchedSafe DEF StepImmediate, ImmediateOps
    <3>2. /\ Registers' = [Registers EXCEPT ![Fetched.rd] =
                            Alu(Fetched.op, Registers[Fetched.rs1], Fetched.imm)]
          /\ program' = program
      BY <2>1, PushRegisters DEF StepImmediate
    <3> QED
      BY <2>r, <3>1, <3>2 DEF X0AlwaysZero
  <2>2. CASE StepRegister
    <3>1. Fetched.rd # 0
      BY <2>2, FetchedSafe DEF StepRegister, RegisterOps
    <3>2. /\ Registers' = [Registers EXCEPT ![Fetched.rd] =
                            Alu(Fetched.op, Registers[Fetched.rs1], Registers[Fetched.rs2])]
          /\ program' = program
      BY <2>2, PushRegisters DEF StepRegister
    <3> QED
      BY <2>r, <3>1, <3>2 DEF X0AlwaysZero
  <2>3. CASE StepUpper
    <3>1. Fetched.rd # 0
      BY <2>3, FetchedSafe DEF StepUpper, UpperOps
    <3>2. /\ Registers' = [Registers EXCEPT ![Fetched.rd] =
                            Alu(Fetched.op, pc, Fetched.imm)]
          /\ program' = program
      BY <2>3, PushRegisters DEF StepUpper
    <3> QED
      BY <2>r, <3>1, <3>2 DEF X0AlwaysZero
  <2>4. CASE StepJal
    <3>1. /\ IF Fetched.rd # 0 THEN Registers' = [Registers EXCEPT ![Fetched.rd] = Plus(pc, 4)]
                             ELSE Registers' = Registers
          /\ program' = program
      BY <2>4, PushRegisters DEF StepJal
    <3> QED
      BY <2>r, <3>1 DEF X0AlwaysZero
  <2>5. CASE StepJalr
    <3>1. /\ IF Fetched.rd # 0 THEN Registers' = [Registers EXCEPT ![Fetched.rd] = Plus(pc, 4)]
                             ELSE Registers' = Registers
          /\ program' = program
      BY <2>5, PushRegisters DEF StepJalr
    <3> QED
      BY <2>r, <3>1 DEF X0AlwaysZero
  <2>6. CASE StepPanic
    BY <2>6 DEF StepPanic, X0AlwaysZero, Registers
  <2>7. CASE UNCHANGED vars
    BY <2>7 DEF vars, X0AlwaysZero, Registers
  <2> QED
    BY <2>1, <2>2, <2>3, <2>4, <2>5, <2>6, <2>7 DEF Next
<1>3. Inv => X0AlwaysZero
  OBVIOUS
<1> QED
  BY <1>1, <1>2, <1>3, VmTypeOK, PTL DEF Spec

=============================================================================
