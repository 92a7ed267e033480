----------------------------- MODULE ProverProofs ----------------------------
(***************************************************************************)
(* The tables of every run that ends are accepted: they satisfy their      *)
(* constraints and balance their buses, for every program, number of       *)
(* registers, word size, limb size, Alu and length of run.                 *)
(*                                                                         *)
(* The prover runs the VM and then builds the tables from its last state,  *)
(* so that what a table contains is a fact about the trace of a reachable  *)
(* state of the VM: that it records an execution (VmProofs) and that  *)
(* its operations in order are a log the memory table can be built from    *)
(* (MemoryProofs).                                                         *)
(***************************************************************************)
EXTENDS Prover, VmProofs, MemoryProofs

(***************************************************************************)
(* The prover runs the VM, and builds its tables from the trace.           *)
(***************************************************************************)
\* Whatever the prover does besides leaves the VM alone.
THEOREM ProverRunsVm == ProverSpec => Spec
<1>1. ProverInit => Init
  BY DEF ProverInit
<1>2. [ProverNext]_proverVars => [Next]_vars
  BY DEF ProverNext, Execute, GenerateTraces, Refuse, proverVars
<1> QED
  BY <1>1, <1>2, PTL DEF ProverSpec, Spec

\* The tables are those of the trace, which is not empty, nor is its log.
TablesBuilt ==
  Built =>
    /\ trace # <<>> /\ Log # <<>>
    /\ all_traces.memory = Table(Log)
    /\ all_traces.u32_lt = AddressLtEntries(Log)
    /\ all_traces.timestamp_lt = TimestampLtEntries(Log)
    /\ all_traces.instructions = [i \in Steps |-> InstructionRow(i)]
    /\ all_traces.boundaries =
         <<[pc |-> 0, timestamp |-> 0], [pc |-> pc, timestamp |-> timestamp]>>
    /\ all_traces.decode_fetches = DecodeFetches
    /\ all_traces.rom_mults = RomMults

\* A run's tables stay those of its trace: nothing executes after them.
LEMMA ProverTables == ProverSpec => []TablesBuilt
<1>1. ProverInit => TablesBuilt
  BY DEF ProverInit, TablesBuilt, Built
<1>2. TablesBuilt /\ [ProverNext]_proverVars => TablesBuilt'
  <2> SUFFICES ASSUME TablesBuilt, [ProverNext]_proverVars PROVE TablesBuilt'
    OBVIOUS
  <2>u. ASSUME UNCHANGED vars
        PROVE  /\ Log' = Log /\ Steps' = Steps /\ DecodeFetches' = DecodeFetches
               /\ RomMults' = RomMults
               /\ \A i : InstructionRow(i)' = InstructionRow(i)
    <3>1. program' = program /\ trace' = trace /\ pc' = pc /\ timestamp' = timestamp
      BY <2>u DEF vars
    <3>2. Steps' = Steps /\ \A i, k : Op(i, k)' = Op(i, k)
      BY <3>1 DEF Steps, Op
    <3>3. Log' = Log
      BY <3>1, <3>2 DEF Log
    <3>4. DecodePadding' = DecodePadding
      BY <3>1 DEF DecodePadding
    <3>5. DecodeFetches' = DecodeFetches
      BY <3>1, <3>2, <3>4 DEF DecodeFetches
    <3>6. RomMults' = RomMults
      BY <3>1, <3>2, <3>4 DEF RomMults
    <3>7. RunningTs' = RunningTs
      BY <3>1 DEF RunningTs
    <3>8. \A i : EntryTimestamp(i)' = EntryTimestamp(i) /\ NextPc(i)' = NextPc(i)
      BY <3>1, <3>2, <3>7 DEF EntryTimestamp, NextPc
    <3>9. \A i : InstructionRow(i)' = InstructionRow(i)
      BY <3>1, <3>2, <3>8 DEF InstructionRow
    <3> QED
      BY <3>2, <3>3, <3>5, <3>6, <3>9
  <2>1. CASE Execute \/ Refuse
    BY <2>1 DEF Execute, Refuse, TablesBuilt, Built
  <2>2. CASE GenerateTraces
    <3>1. pc' = pc /\ timestamp' = timestamp /\ trace' = trace
      BY <2>2 DEF GenerateTraces, vars
    <3> QED
      BY <2>2, <2>u, <3>1 DEF GenerateTraces, TablesBuilt
  <2>3. CASE UNCHANGED proverVars
    <3>1. pc' = pc /\ timestamp' = timestamp /\ trace' = trace /\ stage' = stage
          /\ all_traces' = all_traces /\ UNCHANGED vars
      BY <2>3 DEF proverVars, vars
    <3> QED
      BY <2>u, <3>1 DEF TablesBuilt, Built
  <2> QED
    BY <2>1, <2>2, <2>3 DEF ProverNext
<1> QED
  BY <1>1, <1>2, PTL DEF ProverSpec

(***************************************************************************)
(* The log: the operations of the steps, one after the other.              *)
(***************************************************************************)
\* Histories of a register compose.
LEMMA HistoriesCompose ==
  ASSUME NEW S, NEW a \in Seq(S), NEW b \in Seq(S), NEW r, NEW x, NEW y, NEW z,
         HistoryOn(r, a, x, y), HistoryOn(r, b, y, z)
  PROVE  HistoryOn(r, a \o b, x, z)
<1>c. PICK c : c = a \o b
  OBVIOUS
<1>n. PICK n \in Nat : n = Len(a)
  OBVIOUS
<1>m. PICK m \in Nat : m = Len(b)
  OBVIOUS
<1>0. /\ Len(c) = n + m
      /\ \A k \in 1 .. n : c[k] = a[k]
      /\ \A k \in 1 .. m : c[n + k] = b[k]
  BY <1>c, <1>n, <1>m
<1>1. /\ \A k \in 1 .. n : k \in 1 .. n + m
      /\ \A k \in 1 .. m : n + k \in 1 .. n + m
      /\ \A j \in 1 .. n, k \in 1 .. m : j < n + k
  OBVIOUS
<1>2. \A k \in 1 .. n + m : k \in 1 .. n \/ \E l \in 1 .. m : k = n + l
  <2> SUFFICES ASSUME NEW k \in 1 .. n + m, k \notin 1 .. n
               PROVE  \E l \in 1 .. m : k = n + l
    OBVIOUS
  <2>1. k - n \in 1 .. m /\ k = n + (k - n)
    OBVIOUS
  <2> QED
    BY <2>1
<1>a. /\ (\A k \in 1 .. n : a[k].address # r) => y = x
      /\ \A k \in 1 .. n :
           /\ a[k].address = r
           /\ \A j \in 1 .. n : a[j].address = r => ~(j < k)
           => a[k].old_value = x
      /\ \A k, l \in 1 .. n :
           /\ a[k].address = r /\ a[l].address = r /\ k < l
           /\ \A j \in 1 .. n : a[j].address = r => ~(k < j /\ j < l)
           => a[l].old_value = a[k].new_value
      /\ \A k \in 1 .. n :
           /\ a[k].address = r
           /\ \A j \in 1 .. n : a[j].address = r => ~(k < j)
           => y = a[k].new_value
  BY <1>n DEF HistoryOn
<1>b. /\ (\A k \in 1 .. m : b[k].address # r) => z = y
      /\ \A k \in 1 .. m :
           /\ b[k].address = r
           /\ \A j \in 1 .. m : b[j].address = r => ~(j < k)
           => b[k].old_value = y
      /\ \A k, l \in 1 .. m :
           /\ b[k].address = r /\ b[l].address = r /\ k < l
           /\ \A j \in 1 .. m : b[j].address = r => ~(k < j /\ j < l)
           => b[l].old_value = b[k].new_value
      /\ \A k \in 1 .. m :
           /\ b[k].address = r
           /\ \A j \in 1 .. m : b[j].address = r => ~(k < j)
           => z = b[k].new_value
  BY <1>m DEF HistoryOn
<1>3. ASSUME \A k \in 1 .. n + m : c[k].address # r
      PROVE  z = x
  <2>1. \A k \in 1 .. n : a[k].address # r
    BY <1>0, <1>1, <1>3
  <2>2. \A k \in 1 .. m : b[k].address # r
    BY <1>0, <1>1, <1>3
  <2> QED
    BY <1>a, <1>b, <2>1, <2>2
<1>4. ASSUME NEW k \in 1 .. n + m, c[k].address = r,
             \A j \in 1 .. n + m : c[j].address = r => ~(j < k)
      PROVE  c[k].old_value = x
  <2>1. CASE k \in 1 .. n
    <3>1. a[k].address = r /\ \A j \in 1 .. n : a[j].address = r => ~(j < k)
      BY <1>0, <1>1, <1>4, <2>1
    <3> QED
      BY <1>0, <1>a, <2>1, <3>1
  <2>2. ASSUME NEW l \in 1 .. m, k = n + l
        PROVE  c[k].old_value = x
    <3>1. b[l].address = r
      BY <1>0, <1>4, <2>2
    <3>2. \A j \in 1 .. m : b[j].address = r => ~(j < l)
      <4> SUFFICES ASSUME NEW j \in 1 .. m, b[j].address = r, j < l PROVE FALSE
        OBVIOUS
      <4>1. n + j \in 1 .. n + m /\ c[n + j].address = r /\ n + j < k
        BY <1>0, <1>1, <2>2
      <4> QED
        BY <1>4, <4>1
    <3>3. \A j \in 1 .. n : a[j].address # r
      BY <1>0, <1>1, <1>4, <2>2
    <3> QED
      BY <1>0, <1>a, <1>b, <2>2, <3>1, <3>2, <3>3
  <2> QED
    BY <1>2, <2>1, <2>2
<1>5. ASSUME NEW k \in 1 .. n + m, NEW l \in 1 .. n + m,
             c[k].address = r, c[l].address = r, k < l,
             \A j \in 1 .. n + m : c[j].address = r => ~(k < j /\ j < l)
      PROVE  c[l].old_value = c[k].new_value
  <2>1. CASE k \in 1 .. n /\ l \in 1 .. n
    <3>1. \A j \in 1 .. n : a[j].address = r => ~(k < j /\ j < l)
      BY <1>0, <1>1, <1>5
    <3> QED
      BY <1>0, <1>a, <1>5, <2>1, <3>1
  <2>2. ASSUME k \in 1 .. n, NEW i \in 1 .. m, l = n + i
        PROVE  c[l].old_value = c[k].new_value
    <3>1. b[i].address = r /\ a[k].address = r
      BY <1>0, <1>5, <2>2
    <3>2. \A j \in 1 .. n : a[j].address = r => ~(k < j)
      <4> SUFFICES ASSUME NEW j \in 1 .. n, a[j].address = r, k < j PROVE FALSE
        OBVIOUS
      <4>1. j \in 1 .. n + m /\ c[j].address = r /\ j < l
        BY <1>0, <1>1, <2>2
      <4> QED
        BY <1>5, <4>1
    <3>3. \A j \in 1 .. m : b[j].address = r => ~(j < i)
      <4> SUFFICES ASSUME NEW j \in 1 .. m, b[j].address = r, j < i PROVE FALSE
        OBVIOUS
      <4>1. n + j \in 1 .. n + m /\ c[n + j].address = r
        BY <1>0, <1>1
      <4>2. n + j < l /\ k < n + j
        BY <2>2
      <4> QED
        BY <1>5, <4>1, <4>2
    <3>4. a[k].new_value = y /\ b[i].old_value = y
      BY <1>a, <1>b, <2>2, <3>1, <3>2, <3>3
    <3> QED
      BY <1>0, <2>2, <3>4
  <2>3. ASSUME NEW h \in 1 .. m, k = n + h, NEW i \in 1 .. m, l = n + i
        PROVE  c[l].old_value = c[k].new_value
    <3>1. b[i].address = r /\ b[h].address = r /\ h < i
      BY <1>0, <1>5, <2>3
    <3>2. \A j \in 1 .. m : b[j].address = r => ~(h < j /\ j < i)
      <4> SUFFICES ASSUME NEW j \in 1 .. m, b[j].address = r, h < j, j < i PROVE FALSE
        OBVIOUS
      <4>1. n + j \in 1 .. n + m /\ c[n + j].address = r /\ n + j < l /\ k < n + j
        BY <1>0, <1>1, <2>3
      <4> QED
        BY <1>5, <4>1
    <3>3. b[i].old_value = b[h].new_value
      BY <1>b, <3>1, <3>2
    <3> QED
      BY <1>0, <2>3, <3>3
  <2>4. l \in 1 .. n => k \in 1 .. n
    BY <1>5
  <2> QED
    BY <1>2, <2>1, <2>2, <2>3, <2>4
<1>6. ASSUME NEW k \in 1 .. n + m, c[k].address = r,
             \A j \in 1 .. n + m : c[j].address = r => ~(k < j)
      PROVE  z = c[k].new_value
  <2>1. CASE k \in 1 .. n
    <3>1. a[k].address = r /\ \A j \in 1 .. n : a[j].address = r => ~(k < j)
      BY <1>0, <1>1, <1>6, <2>1
    <3>2. \A j \in 1 .. m : b[j].address # r
      BY <1>0, <1>1, <1>6, <2>1
    <3> QED
      BY <1>0, <1>a, <1>b, <2>1, <3>1, <3>2
  <2>2. ASSUME NEW l \in 1 .. m, k = n + l
        PROVE  z = c[k].new_value
    <3>1. b[l].address = r
      BY <1>0, <1>6, <2>2
    <3>2. \A j \in 1 .. m : b[j].address = r => ~(l < j)
      <4> SUFFICES ASSUME NEW j \in 1 .. m, b[j].address = r, l < j PROVE FALSE
        OBVIOUS
      <4>1. n + j \in 1 .. n + m /\ c[n + j].address = r /\ k < n + j
        BY <1>0, <1>1, <2>2
      <4> QED
        BY <1>6, <4>1
    <3> QED
      BY <1>0, <1>b, <2>2, <3>1, <3>2
  <2> QED
    BY <1>2, <2>1, <2>2
<1> QED
  BY <1>0, <1>c, <1>3, <1>4, <1>5, <1>6 DEF HistoryOn

\* The log is one the memory table can be built from, stamped below the clock,
\* and gives every logged register its value.
LogSound ==
  /\ IsLog(Log, MemoryOperation)
  /\ \A k \in 1 .. Len(Log) : Log[k].timestamp < timestamp
  /\ \A r \in Logged : HistoryOn(r, Log, 0, Registers[r])

\* A step appends its operations to the log.
LEMMA LogPushed ==
  ASSUME TypeOK, NEW registers, NEW ops, NEW ticks, NEW next_pc,
         Effect(registers, ops, ticks, next_pc)
  PROVE  Log \in Seq(MemoryOperation) /\ Log' = Log \o ops
<1>0. PICK n : n = Len(trace)
  OBVIOUS
<1>1. /\ n \in Nat /\ Len(trace') = n + 1
      /\ \A i \in 1 .. n : trace'[i] = trace[i]
      /\ trace'[n + 1].memory_ops = ops
  BY <1>0, Pushed
<1>2. \A i \in 1 .. n : trace[i].memory_ops \in Seq(MemoryOperation)
  <2>1. \A i \in 1 .. n : trace[i] \in ExecutionStep
    BY <1>0 DEF TypeOK
  <2> QED
    BY <2>1 DEF ExecutionStep
<1>3. PICK ss : ss = [i \in 1 .. n |-> trace[i].memory_ops]
  OBVIOUS
<1>4. ss \in Seq(Seq(MemoryOperation)) /\ Len(ss) = n /\ ops \in Seq(MemoryOperation)
  BY <1>1, <1>2, <1>3 DEF Effect
<1>5. Log = FlattenSeq(ss)
  BY <1>0, <1>3 DEF Log, Steps
<1>6. Log' = FlattenSeq(Append(ss, ops))
  <2>1. Append(ss, ops) = [i \in 1 .. n + 1 |-> trace'[i].memory_ops]
    <3>1. /\ Append(ss, ops) \in Seq(Seq(MemoryOperation)) /\ Len(Append(ss, ops)) = n + 1
          /\ \A i \in 1 .. n : Append(ss, ops)[i] = ss[i]
          /\ Append(ss, ops)[n + 1] = ops
      BY <1>4, AppendProperties
    <3>2. \A i \in 1 .. n + 1 : Append(ss, ops)[i] = trace'[i].memory_ops
      BY <1>1, <1>3, <3>1
    <3>s. PICK s : s = Append(ss, ops)
      OBVIOUS
    <3>3. s = [i \in 1 .. n + 1 |-> s[i]]
      <4>1. s \in Seq(Seq(MemoryOperation)) /\ Len(s) = n + 1
        BY <3>1, <3>s
      <4> QED
        BY ONLY <4>1
    <3> QED
      BY <3>2, <3>3, <3>s
  <2> QED
    BY <1>1, <2>1 DEF Log, Steps
<1> QED
  BY ONLY <1>4, <1>5, <1>6, FlattenAppend

\* The log is sound in every reachable state of the VM.
LEMMA LogIsSound == Spec => []LogSound
<1>1. Init => LogSound
  <2> SUFFICES ASSUME Init PROVE LogSound
    OBVIOUS
  <2>1. trace = <<>> /\ Steps = {}
    BY DEF Init, Steps
  <2>2. Log = <<>>
    <3>1. [i \in Steps |-> trace[i].memory_ops] = <<>>
      BY <2>1
    <3> QED
      BY <3>1, FlattenEmpty DEF Log
  <2>3. IsLog(<<>>, MemoryOperation)
    BY DEF IsLog, MemoryOperation, Regs
  <2>4. \A r \in Regs : HistoryOn(r, <<>>, 0, Registers[r])
    BY <2>1 DEF HistoryOn, Registers
  <2> QED
    BY <2>2, <2>3, <2>4 DEF LogSound, Logged
<1>2. TypeOK /\ LogSound /\ [Next]_vars => LogSound'
  <2> SUFFICES ASSUME TypeOK, LogSound, [Next]_vars PROVE LogSound'
    OBVIOUS
  <2>1. ASSUME NEW registers, NEW ops, NEW ticks, NEW next_pc,
               Effect(registers, ops, ticks, next_pc)
        PROVE  LogSound'
    <3>0. PICK new : new = Log'
      OBVIOUS
    <3>1. Log \in Seq(MemoryOperation) /\ new = Log \o ops
      BY <2>1, <3>0, LogPushed
    <3>2. PICK n \in Nat : n = Len(Log)
      BY <3>1
    <3>3. /\ ops \in Seq(MemoryOperation) /\ ticks \in Nat
          /\ timestamp \in Nat /\ timestamp' = timestamp + ticks
          /\ Registers' = registers
      BY <2>1, Pushed DEF Effect, Push, TypeOK
    <3>4. PICK m \in Nat : m = Len(ops)
      BY <3>3
    <3>5. m <= ticks /\ \A k \in 1 .. m : ops[k].timestamp = timestamp + k - 1
      BY <2>1, <3>4 DEF Effect, Stamped
    <3>6. /\ new \in Seq(MemoryOperation) /\ Len(new) = n + m
          /\ \A k \in 1 .. n : new[k] = Log[k]
          /\ \A k \in n + 1 .. n + m : new[k] = ops[k - n]
      <4>1. /\ new \in Seq(MemoryOperation) /\ Len(new) = n + m
            /\ \A k \in 1 .. n + m : new[k] = IF k <= n THEN Log[k] ELSE ops[k - n]
        BY <3>1, <3>2, <3>3, <3>4, ConcatProperties
      <4> QED
        BY <4>1
    <3>7. /\ \A k \in 1 .. n : Log[k].timestamp \in Nat /\ Log[k].timestamp < timestamp
          /\ \A j, k \in 1 .. n : j < k => Log[j].timestamp < Log[k].timestamp
      <4>1. \A k \in 1 .. n : Log[k] \in MemoryOperation
        BY <3>1, <3>2
      <4> QED
        BY <3>2, <4>1 DEF LogSound, IsLog
    <3>8. \A k \in n + 1 .. n + m : new[k].timestamp = timestamp + (k - n) - 1
      <4> SUFFICES ASSUME NEW k \in n + 1 .. n + m
                   PROVE  new[k].timestamp = timestamp + (k - n) - 1
        OBVIOUS
      <4>1. k - n \in 1 .. m
        OBVIOUS
      <4> QED
        BY <3>5, <3>6, <4>1
    <3>9. \A k \in 1 .. n + m : new[k].timestamp < timestamp + ticks
      <4> SUFFICES ASSUME NEW k \in 1 .. n + m PROVE new[k].timestamp < timestamp + ticks
        OBVIOUS
      <4>1. CASE k \in 1 .. n
        BY <3>3, <3>6, <3>7, <4>1
      <4>2. CASE k \in n + 1 .. n + m
        BY <3>3, <3>5, <3>8, <4>2
      <4> QED
        BY <4>1, <4>2
    <3>10. \A j, k \in 1 .. n + m : j < k => new[j].timestamp < new[k].timestamp
      <4> SUFFICES ASSUME NEW j \in 1 .. n + m, NEW k \in 1 .. n + m, j < k
                   PROVE  new[j].timestamp < new[k].timestamp
        OBVIOUS
      <4>1. CASE k \in 1 .. n
        BY <3>6, <3>7, <4>1
      <4>2. CASE k \in n + 1 .. n + m /\ j \in 1 .. n
        BY <3>3, <3>6, <3>7, <3>8, <4>2
      <4>3. CASE k \in n + 1 .. n + m /\ j \in n + 1 .. n + m
        BY <3>3, <3>8, <4>3
      <4> QED
        BY <4>1, <4>2, <4>3
    <3>11. IsLog(new, MemoryOperation)
      <4>1. \A o \in MemoryOperation : o.address \in Nat /\ o.timestamp \in Nat
        BY DEF MemoryOperation, Regs
      <4> QED
        BY <3>6, <3>10, <4>1 DEF IsLog
    <3>12. ASSUME NEW r \in Logged'
           PROVE  HistoryOn(r, new, 0, registers[r])
      <4>1. r \in Logged /\ (r # 0 \/ ~Drops(registers))
        BY <2>1, LoggedStep
      <4>2. HistoryOn(r, Log, 0, Registers[r])
        BY <4>1 DEF LogSound
      <4>3. HistoryOn(r, ops, Registers[r], registers[r])
        BY <2>1, <4>1 DEF Effect, Logged
      <4> QED
        BY <3>1, <3>3, <4>2, <4>3, HistoriesCompose
    <3>13. \A r \in Logged' : HistoryOn(r, new, 0, Registers'[r])
      BY <3>3, <3>12
    <3>14. \A k \in 1 .. Len(new) : new[k].timestamp < timestamp'
      BY <3>3, <3>6, <3>9
    <3> QED
      BY <3>0, <3>11, <3>13, <3>14 DEF LogSound, HistoryOn, IsLog
  <2>2. CASE StepPanic \/ UNCHANGED vars
    <3>1. trace' = trace /\ timestamp' = timestamp
      BY <2>2 DEF StepPanic, vars
    <3>2. Logged' = Logged /\ Registers' = Registers
      BY <3>1 DEF Logged, DroppedWrite, Steps, Registers
    <3>3. Log' = Log
      BY <3>1 DEF Log, Steps
    <3>4. \A r \in Logged' : HistoryOn(r, Log', 0, Registers'[r])
      BY <3>2, <3>3 DEF LogSound
    <3>5. IsLog(Log', MemoryOperation) /\ \A k \in 1 .. Len(Log') : Log'[k].timestamp < timestamp'
      BY <3>1, <3>3 DEF LogSound
    <3> QED
      BY <3>4, <3>5 DEF LogSound, HistoryOn, IsLog
  <2> QED
    BY <2>1, <2>2, StepEffect
<1> QED
  BY <1>1, <1>2, VmTypeOK, PTL DEF Spec

(***************************************************************************)
(* The row of a step.                                                      *)
(***************************************************************************)
\* Each kind logs as many operations as it takes, but for the Jal to x0.
LEMMA KindCounts ==
  ASSUME NEW i, i.op \in Ops, NEW p, NEW R, NEW ts
  PROVE  IF i.op = "Jal" /\ i.rd = 0
         THEN Emits(i, p, R, ts) = <<>> /\ Takes(i) = 1
         ELSE Emits(i, p, R, ts) # <<>> /\ Len(Emits(i, p, R, ts)) = Takes(i)
<1>1. PICK L : L = Logs(i, p, R)
  OBVIOUS
<1>2. CASE i.op \in ImmediateOps \cup {"Jalr"}
  <2>1. /\ Emits(i, p, R, ts) = <<Read(i.rs1, ts, R[i.rs1]), Write(i.rd, ts + 1, R[i.rd], L)>>
        /\ Takes(i) = 2 /\ i.op # "Jal"
    BY <1>1, <1>2 DEF Emits, Takes, ImmediateOps, RegisterOps, UpperOps
  <2> QED
    BY <2>1
<1>3. CASE i.op \in RegisterOps
  <2>1. /\ Emits(i, p, R, ts) = <<Read(i.rs1, ts, R[i.rs1]), Read(i.rs2, ts + 1, R[i.rs2]),
                                  Write(i.rd, ts + 2, R[i.rd], L)>>
        /\ Takes(i) = 3 /\ i.op # "Jal"
    BY <1>1, <1>3 DEF Emits, Takes, ImmediateOps, RegisterOps, UpperOps
  <2> QED
    BY <2>1
<1>4. CASE i.op \in UpperOps \/ (i.op = "Jal" /\ i.rd # 0)
  <2>1. /\ Emits(i, p, R, ts) = <<Write(i.rd, ts, R[i.rd], L)>>
        /\ Takes(i) = 1 /\ ~(i.op = "Jal" /\ i.rd = 0)
    BY <1>1, <1>4 DEF Emits, Takes, ImmediateOps, RegisterOps, UpperOps
  <2> QED
    BY <2>1
<1>5. CASE i.op = "Jal" /\ i.rd = 0
  BY <1>5 DEF Emits, Takes, ImmediateOps, RegisterOps, UpperOps
<1> QED
  BY <1>2, <1>3, <1>4, <1>5 DEF Ops, Jumps

\* The operations the AIRs claim and the ticks they count, by kind.
LEMMA KindSends ==
  ASSUME NEW i
  PROVE  /\ Ticks(i) = Takes(i)
         /\ i.op \in ImmediateOps \cup {"Jalr"} => Sends(i) = <<i.rs1, i.rd>>
         /\ i.op \in RegisterOps => Sends(i) = <<i.rs1, i.rs2, i.rd>>
         /\ i.op \in UpperOps => Sends(i) = <<i.rd>>
         /\ i.op = "Jal" => Sends(i) = IF i.rd = 0 THEN <<>> ELSE <<i.rd>>
<1>1. Ticks(i) = Takes(i)
  BY Zenon DEF Ticks, Takes
<1>2. /\ i.op \in ImmediateOps \cup {"Jalr"} => Sends(i) = <<i.rs1, i.rd>>
      /\ i.op \in RegisterOps => Sends(i) = <<i.rs1, i.rs2, i.rd>>
      /\ i.op \in UpperOps => Sends(i) = <<i.rd>>
      /\ i.op = "Jal" => Sends(i) = IF i.rd = 0 THEN <<>> ELSE <<i.rd>>
  BY DEF Sends, ImmediateOps, RegisterOps, UpperOps
<1> QED
  BY <1>1, <1>2

\* What the AIRs ask of rd_val, by kind.
LEMMA KindAccepts ==
  ASSUME NEW row, NEW i, i = row.instruction
  PROVE  /\ i.op \in ImmediateOps =>
              (RowAccepts(row) <=> row.rd_val = Alu(i.op, row.operands[1], i.imm))
         /\ i.op \in RegisterOps =>
              (RowAccepts(row) <=> row.rd_val = Alu(i.op, row.operands[1], row.operands[2]))
         /\ i.op \in UpperOps => (RowAccepts(row) <=> row.rd_val = Alu(i.op, row.pc, i.imm))
         /\ i.op \in Jumps => (RowAccepts(row) <=> row.rd_val = Plus(row.pc, 4))
  BY DEF RowAccepts, ImmediateOps, RegisterOps, UpperOps, Jumps

\* The operands and rd of row are what the n operations ops record.
AgreesWith(row, ops, to, n) ==
  /\ to = Sends(row.instruction)
  /\ Len(to) = n /\ DOMAIN to = 1 .. n /\ Len(ops) = n
  /\ \A k \in 1 .. n : ops[k].timestamp = row.timestamp + k - 1 /\ ops[k].address = to[k]
  /\ \A k \in 1 .. n - 1 :
       ops[k].old_value = row.operands[k] /\ ops[k].new_value = row.operands[k]
  /\ n # 0 => ops[n].old_value = row.old_rd_value /\ ops[n].new_value = row.rd_val

\* A row whose operands and rd agree with ops sends the tuples of ops.
LEMMA RowSends ==
  ASSUME NEW n \in Nat, NEW row, NEW ops, NEW to, AgreesWith(row, ops, to, n)
  PROVE  MemorySends(row) = [k \in 1 .. Len(ops) |-> OpTuple(ops[k])]
<1> USE DEF AgreesWith
<1>1. ASSUME NEW k \in 1 .. n
      PROVE  (IF k = n THEN <<row.timestamp + k - 1, to[k], row.old_rd_value, row.rd_val>>
              ELSE <<row.timestamp + k - 1, to[k], row.operands[k], row.operands[k]>>)
             = <<ops[k].timestamp, ops[k].address, ops[k].old_value, ops[k].new_value>>
  <2>1. CASE k = n
    BY <2>1
  <2>2. CASE k # n
    <3>1. k \in 1 .. n - 1
      BY <2>2
    <3> QED
      BY <2>2, <3>1
  <2> QED
    BY <2>1, <2>2
<1> QED
  BY <1>1 DEF MemorySends, OpTuple

\* f is the clock of RunningTs.
RunsTo(f) ==
  f = [n \in 0 .. Len(trace) |-> IF n = 0 THEN 0 ELSE f[n - 1] + Consumed(trace[n])]

\* The clock extract_jal_steps runs is the VM's.
LEMMA RunningClock ==
  ASSUME TypeOK, Recorded, NEW clock, Clocked(clock)
  PROVE  \A n \in 0 .. Len(trace) : RunningTs[n] = clock[n + 1]
<1>0. PICK N \in Nat : N = Len(trace)
  BY DEF TypeOK
<1>1. /\ clock \in [1 .. N + 1 -> Nat] /\ clock[1] = 0
      /\ \A i \in 1 .. N :
           /\ clock[i + 1] = clock[i] + Takes(trace[i].instruction)
           /\ trace[i].memory_ops = Emits(trace[i].instruction, trace[i].pc,
                                          RegistersBefore(i), clock[i])
  BY <1>0 DEF Clocked, Steps
<1>2. ASSUME NEW i \in 1 .. N
      PROVE  Consumed(trace[i]) = Takes(trace[i].instruction)
  <2>1. PICK ins : ins = trace[i].instruction
    OBVIOUS
  <2>2. ins.op \in Ops
    BY <1>0, <2>1 DEF Recorded, Path, Executed, Steps
  <2>3. PICK ops : ops = trace[i].memory_ops
    OBVIOUS
  <2>4. PICK R : R = RegistersBefore(i)
    OBVIOUS
  <2>5. ops = Emits(ins, trace[i].pc, R, clock[i])
    BY <1>1, <2>1, <2>3, <2>4
  <2>6. Consumed(trace[i]) = IF ops = <<>> /\ ins.op = "Jal" /\ ins.rd = 0 THEN 1 ELSE Len(ops)
    BY <2>1, <2>3 DEF Consumed
  <2> QED
    BY <2>1, <2>2, <2>5, <2>6, KindCounts
<1>3. RunsTo([n \in 0 .. N |-> clock[n + 1]])
  <2>1. ASSUME NEW n \in 0 .. N
        PROVE  clock[n + 1] = IF n = 0 THEN 0
                              ELSE [k \in 0 .. N |-> clock[k + 1]][n - 1] + Consumed(trace[n])
    <3>1. CASE n = 0
      BY <1>1, <3>1
    <3>2. CASE n # 0
      <4>1. n \in 1 .. N /\ n - 1 \in 0 .. N /\ (n - 1) + 1 = n
        BY <3>2
      <4>2. [k \in 0 .. N |-> clock[k + 1]][n - 1] = clock[n]
        BY <4>1
      <4>3. clock[n + 1] = clock[n] + Consumed(trace[n])
        BY <1>1, <1>2, <4>1
      <4> QED
        BY <3>2, <4>2, <4>3
    <3> QED
      BY <3>1, <3>2
  <2> QED
    BY <1>0, <2>1 DEF RunsTo
<1>4. RunsTo(RunningTs)
  <2>1. RunningTs = CHOOSE f : RunsTo(f)
    BY Zenon DEF RunningTs, RunsTo
  <2> QED
    BY <1>3, <2>1
<1> DEFINE K == {n \in 0 .. N : RunningTs[n] = clock[n + 1]}
<1>5. \A n \in 0 .. N : RunningTs[n] = IF n = 0 THEN 0 ELSE RunningTs[n - 1] + Consumed(trace[n])
  <2>1. PICK f : f = RunningTs
    OBVIOUS
  <2>2. f = [n \in 0 .. N |-> IF n = 0 THEN 0 ELSE f[n - 1] + Consumed(trace[n])]
    BY <1>0, <1>4, <2>1 DEF RunsTo
  <2>3. \A n \in 0 .. N : f[n] = IF n = 0 THEN 0 ELSE f[n - 1] + Consumed(trace[n])
    BY <2>2
  <2> QED
    BY <2>1, <2>3
<1>6. 0 \in K
  BY <1>1, <1>5
<1>7. ASSUME NEW n \in 0 .. N - 1, n \in K
      PROVE  n + 1 \in K
  <2>1. n + 1 \in 0 .. N /\ n + 1 \in 1 .. N /\ (n + 1) - 1 = n /\ n + 1 # 0
    OBVIOUS
  <2>2. RunningTs[n + 1] = RunningTs[n] + Consumed(trace[n + 1])
    BY <1>5, <2>1
  <2>3. clock[(n + 1) + 1] = clock[n + 1] + Consumed(trace[n + 1])
    BY <1>1, <1>2, <2>1
  <2> QED
    BY <1>7, <2>1, <2>2, <2>3
<1>8. 0 .. N \subseteq K
  <2> HIDE DEF K
  <2> QED
    BY <1>6, <1>7, InductionTo
<1> QED
  BY <1>0, <1>8

\* The row of a step is what the step did: it chains from the clock and pc
\* before the step to those after, claims the operations the step logged and
\* puts the logged value in rd, which its AIR accepts when it is the result.
LEMMA StepRow ==
  ASSUME TypeOK, Recorded, NEW clock, Clocked(clock), NEW i \in Steps,
         NEW s, s = trace[i], NEW row, row = InstructionRow(i)
  PROVE  /\ row.instruction = s.instruction /\ row.pc = s.pc
         /\ row.timestamp = clock[i] /\ row.next_pc = PcAfter(i)
         /\ clock[i] + Ticks(s.instruction) = clock[i + 1]
         /\ MemorySends(row) = [k \in 1 .. Len(s.memory_ops) |-> OpTuple(s.memory_ops[k])]
         /\ row.rd_val = Logs(s.instruction, s.pc, RegistersBefore(i))
         /\ RowAccepts(row) <=> row.rd_val = Result(s.instruction, s.pc, RegistersBefore(i))
<1>0. PICK ins, p, R, ts, ops :
        /\ ins = s.instruction /\ p = s.pc /\ R = RegistersBefore(i)
        /\ ts = clock[i] /\ ops = s.memory_ops
  OBVIOUS
<1>1. /\ p \in Nat /\ p + 4 \in Word /\ ins \in Instruction /\ ins.op \in Ops
      /\ PcAfter(i) = Target(ins, p, R)
  BY <1>0 DEF Recorded, Path, Executed
<1>2. /\ ops = Emits(ins, p, R, ts) /\ ts \in Nat
      /\ clock[i + 1] = ts + Takes(ins)
  <2>1. clock \in [1 .. Len(trace) + 1 -> Nat] /\ i \in 1 .. Len(trace) + 1
    BY DEF Clocked, Steps, TypeOK
  <2> QED
    BY <1>0, <2>1 DEF Clocked
<1>3. /\ row.instruction = ins /\ row.pc = p /\ row.timestamp = EntryTimestamp(i)
      /\ row.operands = [k \in 1 .. Len(ops) - 1 |-> ops[k].new_value]
      /\ row.old_rd_value = IF ops = <<>> THEN 0 ELSE ops[Len(ops)].old_value
      /\ row.rd_val = IF ops = <<>> THEN Plus(p, 4) ELSE ops[Len(ops)].new_value
      /\ row.next_pc = NextPc(i)
  BY <1>0 DEF InstructionRow, Op
<1>4. EntryTimestamp(i) = IF ops = <<>> THEN ts ELSE ops[1].timestamp
  <2>1. i - 1 \in 0 .. Len(trace) /\ (i - 1) + 1 = i
    BY DEF Steps, TypeOK
  <2>2. RunningTs[i - 1] = ts
    BY <1>0, <2>1, RunningClock
  <2> QED
    BY <1>0, <2>2 DEF EntryTimestamp, Op
<1>5. NextPc(i) = CASE ins.op = "Jal"  -> Plus(p, ins.imm)
                    [] ins.op = "Jalr" -> ClearLsb(Plus(ops[1].new_value, ins.imm))
                    [] OTHER -> Plus(p, 4)
  BY <1>0 DEF NextPc, Op
<1>6. Plus(p, 4) = p + 4
  BY <1>1, Constants DEF Plus, Word
<1>7. PICK L, res : L = Logs(ins, p, R) /\ res = Result(ins, p, R)
  OBVIOUS
<1> DEFINE Goal == /\ row.timestamp = ts /\ row.next_pc = PcAfter(i)
                   /\ Ticks(ins) = Takes(ins)
                   /\ MemorySends(row) = [k \in 1 .. Len(ops) |-> OpTuple(ops[k])]
                   /\ row.rd_val = L
                   /\ RowAccepts(row) <=> row.rd_val = res
<1>8. ASSUME ins.op \in ImmediateOps
      PROVE  Goal
  <2>0. "Jal" \notin ImmediateOps /\ "Jalr" \notin ImmediateOps
    BY DEF ImmediateOps
  <2>1. /\ ops = <<Read(ins.rs1, ts, R[ins.rs1]), Write(ins.rd, ts + 1, R[ins.rd], L)>>
        /\ L = res /\ res = Alu(ins.op, R[ins.rs1], ins.imm)
        /\ Takes(ins) = 2 /\ Target(ins, p, R) = p + 4
    BY <1>2, <1>7, <1>8, Kinds
  <2>2. Ticks(ins) = Takes(ins) /\ Sends(ins) = <<ins.rs1, ins.rd>>
    BY <1>8, KindSends
  <2>3. /\ row.timestamp = ts /\ row.next_pc = p + 4 /\ row.rd_val = L
        /\ row.operands[1] = R[ins.rs1] /\ row.old_rd_value = R[ins.rd]
    BY <1>3, <1>4, <1>5, <1>6, <1>8, <2>0, <2>1 DEF Read, Write
  <2>4. MemorySends(row) = [k \in 1 .. Len(ops) |-> OpTuple(ops[k])]
    <3>1. PICK to : to = <<ins.rs1, ins.rd>>
      OBVIOUS
    <3>2. Len(to) = 2 /\ DOMAIN to = 1 .. 2 /\ Len(ops) = 2
      BY <2>1, <3>1
    <3>3. /\ \A k \in 1 .. 2 : ops[k].timestamp = row.timestamp + k - 1 /\ ops[k].address = to[k]
          /\ \A k \in 1 .. 2 - 1 : /\ ops[k].old_value = row.operands[k]
                                    /\ ops[k].new_value = row.operands[k]
          /\ ops[2].old_value = row.old_rd_value /\ ops[2].new_value = row.rd_val
      BY <1>2, <2>1, <2>3, <3>1 DEF Read, Write
    <3>4. AgreesWith(row, ops, to, Len(to)) /\ Len(to) \in Nat
      BY <1>3, <2>2, <3>1, <3>2, <3>3 DEF AgreesWith
    <3> QED
      BY <3>4, RowSends
  <2>5. RowAccepts(row) <=> row.rd_val = res
    BY <1>3, <1>8, <2>1, <2>3, KindAccepts DEF Jumps
  <2> QED
    BY <1>1, <2>1, <2>2, <2>3, <2>4, <2>5
<1>9. ASSUME ins.op \in RegisterOps
      PROVE  Goal
  <2>0. /\ "Jal" \notin RegisterOps /\ "Jalr" \notin RegisterOps
        /\ ins.op \notin ImmediateOps
    BY <1>9 DEF RegisterOps, ImmediateOps
  <2>1. /\ ops = <<Read(ins.rs1, ts, R[ins.rs1]), Read(ins.rs2, ts + 1, R[ins.rs2]),
                   Write(ins.rd, ts + 2, R[ins.rd], L)>>
        /\ L = res /\ res = Alu(ins.op, R[ins.rs1], R[ins.rs2])
        /\ Takes(ins) = 3 /\ Target(ins, p, R) = p + 4
    BY <1>2, <1>7, <1>9, Kinds
  <2>2. Ticks(ins) = Takes(ins) /\ Sends(ins) = <<ins.rs1, ins.rs2, ins.rd>>
    BY <1>9, KindSends
  <2>3. /\ row.timestamp = ts /\ row.next_pc = p + 4 /\ row.rd_val = L
        /\ row.operands[1] = R[ins.rs1] /\ row.operands[2] = R[ins.rs2]
        /\ row.old_rd_value = R[ins.rd]
    BY <1>3, <1>4, <1>5, <1>6, <1>9, <2>0, <2>1 DEF Read, Write
  <2>4. MemorySends(row) = [k \in 1 .. Len(ops) |-> OpTuple(ops[k])]
    <3>1. PICK to : to = <<ins.rs1, ins.rs2, ins.rd>>
      OBVIOUS
    <3>2. Len(to) = 3 /\ DOMAIN to = 1 .. 3 /\ Len(ops) = 3
      BY <2>1, <3>1
    <3>3. /\ \A k \in 1 .. 3 : ops[k].timestamp = row.timestamp + k - 1 /\ ops[k].address = to[k]
          /\ \A k \in 1 .. 3 - 1 : /\ ops[k].old_value = row.operands[k]
                                    /\ ops[k].new_value = row.operands[k]
          /\ ops[3].old_value = row.old_rd_value /\ ops[3].new_value = row.rd_val
      BY <1>2, <2>1, <2>3, <3>1 DEF Read, Write
    <3>4. AgreesWith(row, ops, to, Len(to)) /\ Len(to) \in Nat
      BY <1>3, <2>2, <3>1, <3>2, <3>3 DEF AgreesWith
    <3> QED
      BY <3>4, RowSends
  <2>5. RowAccepts(row) <=> row.rd_val = res
    BY <1>3, <1>9, <2>1, <2>3, KindAccepts DEF Jumps
  <2> QED
    BY <1>1, <2>1, <2>2, <2>3, <2>4, <2>5
<1>10. ASSUME ins.op \in UpperOps
      PROVE  Goal
  <2>0. /\ "Jal" \notin UpperOps /\ "Jalr" \notin UpperOps
        /\ ins.op \notin ImmediateOps /\ ins.op \notin RegisterOps
    BY <1>10 DEF RegisterOps, ImmediateOps, UpperOps
  <2>1. /\ ops = <<Write(ins.rd, ts, R[ins.rd], L)>>
        /\ L = res /\ res = Alu(ins.op, p, ins.imm)
        /\ Takes(ins) = 1 /\ Target(ins, p, R) = p + 4
    BY <1>2, <1>7, <1>10, Kinds
  <2>2. Ticks(ins) = Takes(ins) /\ Sends(ins) = <<ins.rd>>
    BY <1>10, KindSends
  <2>3. /\ row.timestamp = ts /\ row.next_pc = p + 4 /\ row.rd_val = L
        /\ row.old_rd_value = R[ins.rd]
    BY <1>3, <1>4, <1>5, <1>6, <1>10, <2>0, <2>1 DEF Write
  <2>4. MemorySends(row) = [k \in 1 .. Len(ops) |-> OpTuple(ops[k])]
    <3>1. PICK to : to = <<ins.rd>>
      OBVIOUS
    <3>2. Len(to) = 1 /\ DOMAIN to = 1 .. 1 /\ Len(ops) = 1
      BY <2>1, <3>1
    <3>3. /\ \A k \in 1 .. 1 : ops[k].timestamp = row.timestamp + k - 1 /\ ops[k].address = to[k]
          /\ \A k \in 1 .. 1 - 1 : /\ ops[k].old_value = row.operands[k]
                                    /\ ops[k].new_value = row.operands[k]
          /\ ops[1].old_value = row.old_rd_value /\ ops[1].new_value = row.rd_val
      BY <1>2, <2>1, <2>3, <3>1 DEF Read, Write
    <3>4. AgreesWith(row, ops, to, Len(to)) /\ Len(to) \in Nat
      BY <1>3, <2>2, <3>1, <3>2, <3>3 DEF AgreesWith
    <3> QED
      BY <3>4, RowSends
  <2>5. RowAccepts(row) <=> row.rd_val = res
    BY <1>3, <1>10, <2>1, <2>3, KindAccepts DEF Jumps
  <2> QED
    BY <1>1, <2>1, <2>2, <2>3, <2>4, <2>5
<1>11. ASSUME ins.op = "Jal"
      PROVE  Goal
  <2>0. ins.op \notin ImmediateOps /\ ins.op \notin RegisterOps /\ ins.op \notin UpperOps
    BY <1>11 DEF RegisterOps, ImmediateOps, UpperOps
  <2>1. /\ ops = IF ins.rd = 0 THEN <<>> ELSE <<Write(ins.rd, ts, R[ins.rd], L)>>
        /\ L = res /\ res = Plus(p, 4)
        /\ Takes(ins) = 1 /\ Target(ins, p, R) = Plus(p, ins.imm)
    BY <1>2, <1>7, <1>11, Kinds
  <2>2. Ticks(ins) = Takes(ins) /\ Sends(ins) = IF ins.rd = 0 THEN <<>> ELSE <<ins.rd>>
    BY <1>11, KindSends
  <2>3. row.timestamp = ts /\ row.next_pc = Plus(p, ins.imm) /\ row.rd_val = L
    BY <1>3, <1>4, <1>5, <1>11, <2>1 DEF Write
  <2>4. MemorySends(row) = [k \in 1 .. Len(ops) |-> OpTuple(ops[k])]
    <3>1. CASE ins.rd = 0
      <4>1. PICK to : to = <<>>
        OBVIOUS
      <4>2. Len(to) = 0 /\ DOMAIN to = 1 .. 0 /\ Len(ops) = 0 /\ to = Sends(row.instruction)
        BY <1>3, <2>1, <2>2, <3>1, <4>1
      <4>3. AgreesWith(row, ops, to, 0)
        BY <4>2 DEF AgreesWith
      <4> QED
        BY <4>3, RowSends
    <3>2. CASE ins.rd # 0
      <4>1. PICK to : to = <<ins.rd>>
        OBVIOUS
      <4>2. ops = <<Write(ins.rd, ts, R[ins.rd], L)>>
        BY <2>1, <3>2
      <4>3. Len(to) = 1 /\ DOMAIN to = 1 .. 1 /\ Len(ops) = 1 /\ to = Sends(row.instruction)
        BY <1>3, <2>2, <3>2, <4>1, <4>2
      <4>4. row.old_rd_value = R[ins.rd]
        BY <1>3, <4>2 DEF Write
      <4>5. /\ \A k \in 1 .. 1 : ops[k].timestamp = row.timestamp + k - 1 /\ ops[k].address = to[k]
            /\ ops[1].old_value = row.old_rd_value /\ ops[1].new_value = row.rd_val
        BY <1>2, <2>3, <4>1, <4>2, <4>4 DEF Write
      <4>6. AgreesWith(row, ops, to, 1)
        BY <4>3, <4>5 DEF AgreesWith
      <4> QED
        BY <4>6, RowSends
    <3> QED
      BY <3>1, <3>2
  <2>5. RowAccepts(row) <=> row.rd_val = res
    BY <1>3, <1>11, <2>1, <2>3, KindAccepts DEF Jumps
  <2> QED
    BY <1>1, <2>1, <2>2, <2>3, <2>4, <2>5
<1>12. ASSUME ins.op = "Jalr"
      PROVE  Goal
  <2>0. ins.op \notin ImmediateOps /\ ins.op \notin RegisterOps /\ ins.op \notin UpperOps
    BY <1>12 DEF RegisterOps, ImmediateOps, UpperOps
  <2>1. /\ ops = <<Read(ins.rs1, ts, R[ins.rs1]), Write(ins.rd, ts + 1, R[ins.rd], L)>>
        /\ res = Plus(p, 4)
        /\ Takes(ins) = 2 /\ Target(ins, p, R) = ClearLsb(Plus(R[ins.rs1], ins.imm))
    BY <1>2, <1>7, <1>12, Kinds
  <2>2. Ticks(ins) = Takes(ins) /\ Sends(ins) = <<ins.rs1, ins.rd>>
    BY <1>12, KindSends
  <2>3. /\ row.timestamp = ts /\ row.next_pc = ClearLsb(Plus(R[ins.rs1], ins.imm))
        /\ row.rd_val = L /\ row.operands[1] = R[ins.rs1] /\ row.old_rd_value = R[ins.rd]
    BY <1>3, <1>4, <1>5, <1>12, <2>1 DEF Read, Write
  <2>4. MemorySends(row) = [k \in 1 .. Len(ops) |-> OpTuple(ops[k])]
    <3>1. PICK to : to = <<ins.rs1, ins.rd>>
      OBVIOUS
    <3>2. Len(to) = 2 /\ DOMAIN to = 1 .. 2 /\ Len(ops) = 2
      BY <2>1, <3>1
    <3>3. /\ \A k \in 1 .. 2 : ops[k].timestamp = row.timestamp + k - 1 /\ ops[k].address = to[k]
          /\ \A k \in 1 .. 2 - 1 : /\ ops[k].old_value = row.operands[k]
                                    /\ ops[k].new_value = row.operands[k]
          /\ ops[2].old_value = row.old_rd_value /\ ops[2].new_value = row.rd_val
      BY <1>2, <2>1, <2>3, <3>1 DEF Read, Write
    <3>4. AgreesWith(row, ops, to, Len(to)) /\ Len(to) \in Nat
      BY <1>3, <2>2, <3>1, <3>2, <3>3 DEF AgreesWith
    <3> QED
      BY <3>4, RowSends
  <2>5. RowAccepts(row) <=> row.rd_val = res
    BY <1>3, <1>12, <2>1, <2>3, KindAccepts DEF Jumps
  <2> QED
    BY <1>1, <2>1, <2>2, <2>3, <2>4, <2>5
<1>13. Goal
  <2> HIDE DEF Goal
  <2> QED
    BY <1>1, <1>8, <1>9, <1>10, <1>11, <1>12 DEF Ops, Jumps
<1> QED
  BY <1>0, <1>2, <1>3, <1>7, <1>13

(***************************************************************************)
(* The tables are accepted.                                                *)
(***************************************************************************)
\* The inductive invariant: the types, the trace records an execution, its
\* log is sound, and the tables, once built, are those of the trace.
ProverInv == TypeOK /\ Recorded /\ LogSound /\ TablesBuilt

LEMMA ProverSound == ProverSpec => []ProverInv
<1>1. TypeOK /\ Recorded /\ LogSound /\ TablesBuilt => ProverInv
  BY DEF ProverInv
<1> QED
  BY <1>1, ProverRunsVm, VmTypeOK, VmRecorded, LogIsSound, ProverTables, PTL

\* The state the boundary rows and the instruction rows chain through.
LEMMA BuiltRows ==
  ASSUME ProverInv, Built
  PROVE  /\ DOMAIN all_traces.instructions = Steps
         /\ \A i \in Steps : all_traces.instructions[i] = InstructionRow(i)
         /\ Len(trace) \in Nat /\ Len(trace) >= 1
         /\ all_traces.instructions \in Seq({InstructionRow(i) : i \in Steps})
         /\ Len(all_traces.instructions) = Len(trace)
<1>1. all_traces.instructions = [i \in Steps |-> InstructionRow(i)] /\ trace # <<>>
  BY DEF ProverInv, TablesBuilt
<1>2. trace \in Seq(ExecutionStep)
  BY DEF ProverInv, TypeOK
<1>3. Len(trace) \in Nat /\ Len(trace) # 0
  BY <1>1, <1>2, EmptySeq
<1> QED
  BY <1>1, <1>3 DEF Steps

\* Every row satisfies its AIR but that of a Jalr to x0 with a link to write:
\* the logged value the row puts in rd is the result of its operands.
THEOREM ProverRowsAccepted == ProverSpec => []RowsAccepted
<1>1. ProverInv => RowsAccepted
  <2> SUFFICES ASSUME ProverInv, Built, NEW i \in DOMAIN all_traces.instructions,
                      NEW row, row = all_traces.instructions[i]
               PROVE  RowAccepts(row) <=>
                        ~(/\ row.instruction.op = "Jalr" /\ row.instruction.rd = 0
                          /\ Plus(row.pc, 4) # 0)
    BY Zenon DEF RowsAccepted
  <2>1. i \in Steps /\ row = InstructionRow(i)
    BY BuiltRows
  <2>2. PICK clock : Clocked(clock)
    BY DEF ProverInv, Recorded
  <2>3. PICK ins, p, R :
          ins = trace[i].instruction /\ p = trace[i].pc /\ R = RegistersBefore(i)
    OBVIOUS
  <2>4. /\ row.instruction = ins /\ row.pc = p /\ row.rd_val = Logs(ins, p, R)
        /\ RowAccepts(row) <=> row.rd_val = Result(ins, p, R)
    BY <2>1, <2>2, <2>3, StepRow DEF ProverInv
  <2>5. Logs(ins, p, R) = IF ins.rd = 0 /\ ins.op = "Jalr" THEN 0 ELSE Result(ins, p, R)
    BY DEF Logs
  <2>6. ins.op = "Jalr" => Result(ins, p, R) = Plus(p, 4)
    BY DEF Result, ImmediateOps, RegisterOps, UpperOps, Jumps
  <2> QED
    BY <2>4, <2>5, <2>6
<1> QED
  BY <1>1, ProverSound, PTL

\* The memory table satisfies the memory AIR unless a write to x0 was dropped,
\* but for a run that only touches x0 and leaves a value in it.
THEOREM ProverMemoryAccepted == ProverSpec => []MemoryAccepted
<1>1. ProverInv => MemoryAccepted
  <2> SUFFICES ASSUME ProverInv, Built, ~DroppedWrite
               PROVE  AirAccepts(all_traces.memory) <=> ~EndsInX0
    BY DEF MemoryAccepted
  <2>1. /\ all_traces.memory = Table(Log) /\ Log # <<>>
        /\ IsLog(Log, MemoryOperation)
        /\ \A r \in Logged : HistoryOn(r, Log, 0, Registers[r])
    BY DEF ProverInv, TablesBuilt, LogSound
  <2>2. PICK log : log = Log
    OBVIOUS
  <2>3. \A r \in Regs : HistoryOn(r, log, 0, Registers[r])
    BY <2>1, <2>2 DEF Logged
  <2>4. \A k \in 1 .. Len(log) : log[k].address \in Regs
    <3>1. log \in Seq(MemoryOperation)
      BY <2>1, <2>2 DEF IsLog
    <3>2. \A k \in 1 .. Len(log) : log[k] \in MemoryOperation
      BY <3>1
    <3> QED
      BY <3>2 DEF MemoryOperation
  <2>5. IsHistory(log)
    <3>1. ASSUME NEW k \in 1 .. Len(log),
                 \A j \in 1 .. Len(log) : log[j].address = log[k].address => ~(j < k)
          PROVE  log[k].old_value = 0
      <4>1. PICK r \in Regs : r = log[k].address
        BY <2>4
      <4>2. HistoryOn(r, log, 0, Registers[r])
        BY <2>3
      <4> QED
        BY <3>1, <4>1, <4>2 DEF HistoryOn
    <3>2. ASSUME NEW j \in 1 .. Len(log), NEW k \in 1 .. Len(log),
                 j < k, log[j].address = log[k].address,
                 \A l \in 1 .. Len(log) : log[l].address = log[k].address => ~(j < l /\ l < k)
          PROVE  log[k].old_value = log[j].new_value
      <4>1. PICK r \in Regs : r = log[k].address
        BY <2>4
      <4>2. HistoryOn(r, log, 0, Registers[r])
        BY <2>3
      <4> QED
        BY <3>2, <4>1, <4>2 DEF HistoryOn
    <3> QED
      BY <3>1, <3>2 DEF IsHistory
  <2>6. AirAccepts(Table(log)) <=> ~EndsAtZero(log)
    BY <2>1, <2>2, <2>5, HistoryAccepted
  <2>7. EndsInX0 <=> EndsAtZero(log)
    BY <2>2 DEF EndsInX0, EndsAtZero
  <2> QED
    BY <2>1, <2>2, <2>6, <2>7
<1> QED
  BY <1>1, ProverSound, PTL

\* The operations the instruction rows send are those the memory table
\* receives, as often.
THEOREM ProverMemoryBusBalanced == ProverSpec => []MemoryBusBalanced
<1>1. ProverInv => MemoryBusBalanced
  <2> SUFFICES ASSUME ProverInv, Built, NEW rows, rows = all_traces.instructions
               PROVE  ToBag(FlattenSeq([i \in DOMAIN rows |-> MemorySends(rows[i])]))
                        = MemoryReceived(all_traces.memory)
    BY Zenon DEF MemoryBusBalanced
  <2>1. PICK n \in Nat : n = Len(trace)
    BY BuiltRows
  <2>2. DOMAIN rows = 1 .. n /\ \A i \in 1 .. n : rows[i] = InstructionRow(i)
    BY <2>1, BuiltRows DEF Steps
  <2>3. PICK clock : Clocked(clock)
    BY DEF ProverInv, Recorded
  <2>4. PICK ss : ss = [i \in 1 .. n |-> trace[i].memory_ops]
    OBVIOUS
  <2>5. ASSUME NEW i \in 1 .. n
        PROVE  MemorySends(rows[i]) = [k \in 1 .. Len(ss[i]) |-> OpTuple(ss[i][k])]
    <3>1. ss[i] = trace[i].memory_ops /\ i \in Steps /\ rows[i] = InstructionRow(i)
      BY <2>1, <2>2, <2>4 DEF Steps
    <3>2. TypeOK /\ Recorded
      BY DEF ProverInv
    <3>3. PICK step, row : step = trace[i] /\ row = InstructionRow(i)
      OBVIOUS
    <3>4. MemorySends(row) = [k \in 1 .. Len(step.memory_ops) |-> OpTuple(step.memory_ops[k])]
      BY <2>3, <3>1, <3>2, <3>3, StepRow
    <3> QED
      BY <3>1, <3>3, <3>4
  <2>6. ss \in Seq(Seq(MemoryOperation)) /\ Len(ss) = n
    <3>1. \A i \in 1 .. n : trace[i] \in ExecutionStep
      BY <2>1 DEF ProverInv, TypeOK
    <3>2. \A i \in 1 .. n : trace[i].memory_ops \in Seq(MemoryOperation)
      BY <3>1 DEF ExecutionStep
    <3> QED
      BY <2>4, <3>2
  <2>7. PICK F : F = [o \in MemoryOperation |-> OpTuple(o)]
    OBVIOUS
  <2>8. PICK tt : tt = [i \in 1 .. n |-> [k \in 1 .. Len(ss[i]) |-> F[ss[i][k]]]]
    OBVIOUS
  <2>9. [i \in DOMAIN rows |-> MemorySends(rows[i])] = tt
    <3>1. ASSUME NEW i \in 1 .. n
          PROVE  MemorySends(rows[i]) = [k \in 1 .. Len(ss[i]) |-> F[ss[i][k]]]
      <4>1. ss[i] \in Seq(MemoryOperation)
        BY <2>6
      <4>2. \A k \in 1 .. Len(ss[i]) : ss[i][k] \in MemoryOperation
        BY <4>1
      <4> QED
        BY <2>5, <2>7, <4>2
    <3> QED
      BY <2>2, <2>8, <3>1
  <2>10. PICK T : T = {OpTuple(o) : o \in MemoryOperation}
    OBVIOUS
  <2>11. F \in [MemoryOperation -> T]
    BY <2>7, <2>10
  <2>12. /\ FlattenSeq(tt) \in Seq(T) /\ Len(FlattenSeq(tt)) = Len(FlattenSeq(ss))
         /\ \A k \in 1 .. Len(FlattenSeq(ss)) : FlattenSeq(tt)[k] = F[FlattenSeq(ss)[k]]
    <3>1. Maps(MemoryOperation, T, ss, F, tt)
      BY <2>6, <2>8, <2>11 DEF Maps
    <3> QED
      BY ONLY <3>1, FlattenMap
  <2>13. Log = FlattenSeq(ss)
    BY <2>1, <2>4 DEF Log, Steps
  <2>14. IsLog(Log, MemoryOperation)
    BY DEF ProverInv, LogSound
  <2>15. FlattenSeq(tt) = [k \in 1 .. Len(Log) |-> OpTuple(Log[k])]
    <3>1. Log \in Seq(MemoryOperation)
      BY <2>14 DEF IsLog
    <3>2. \A k \in 1 .. Len(Log) : Log[k] \in MemoryOperation
      BY <3>1
    <3>3. PICK flat : flat = FlattenSeq(tt)
      OBVIOUS
    <3>4. /\ flat \in Seq(T) /\ Len(flat) = Len(Log)
          /\ \A k \in 1 .. Len(Log) : flat[k] = OpTuple(Log[k])
      BY <2>7, <2>12, <2>13, <3>2, <3>3
    <3>5. flat = [k \in 1 .. Len(Log) |-> OpTuple(Log[k])]
      BY ONLY <3>4
    <3> QED
      BY <3>3, <3>5
  <2>16. MemoryReceived(Table(Log)) = ToBag([k \in 1 .. Len(Log) |-> OpTuple(Log[k])])
    BY <2>14, ReceivedOps
  <2>17. all_traces.memory = Table(Log)
    BY DEF ProverInv, TablesBuilt
  <2> QED
    BY <2>9, <2>15, <2>16, <2>17
<1> QED
  BY <1>1, ProverSound, PTL

\* The execution rows chain: what each row sends, the next receives, from the
\* initial boundary row to the final one.
THEOREM ProverTraceBusBalanced == ProverSpec => []TraceBusBalanced
<1>1. ProverInv => TraceBusBalanced
  <2> SUFFICES ASSUME ProverInv, Built,
                      NEW rows, rows = all_traces.instructions,
                      NEW ends, ends = all_traces.boundaries
               PROVE  ToBag(Append([i \in DOMAIN rows |->
                                <<rows[i].next_pc, rows[i].timestamp + Ticks(rows[i].instruction)>>],
                              <<ends[1].pc, ends[1].timestamp>>))
                      = ToBag(Append([i \in DOMAIN rows |-> <<rows[i].pc, rows[i].timestamp>>],
                                     <<ends[2].pc, ends[2].timestamp>>))
    BY Zenon DEF TraceBusBalanced
  <2>1. PICK n \in Nat : n = Len(trace) /\ n >= 1
    BY BuiltRows
  <2>2. PICK clock : Clocked(clock)
    BY DEF ProverInv, Recorded
  <2>3. /\ clock \in [1 .. n + 1 -> Nat] /\ clock[1] = 0 /\ clock[n + 1] = timestamp
    BY <2>1, <2>2 DEF Clocked
  <2>4. /\ DOMAIN rows = 1 .. n
        /\ \A i \in 1 .. n :
             /\ rows[i].instruction = trace[i].instruction /\ rows[i].pc = trace[i].pc
             /\ rows[i].timestamp = clock[i] /\ rows[i].next_pc = PcAfter(i)
             /\ clock[i] + Ticks(trace[i].instruction) = clock[i + 1]
    <3>1. DOMAIN rows = 1 .. n /\ \A i \in 1 .. n : i \in Steps /\ rows[i] = InstructionRow(i)
      BY <2>1, BuiltRows DEF Steps
    <3>2. ASSUME NEW i \in 1 .. n
          PROVE  /\ rows[i].instruction = trace[i].instruction /\ rows[i].pc = trace[i].pc
                 /\ rows[i].timestamp = clock[i] /\ rows[i].next_pc = PcAfter(i)
                 /\ clock[i] + Ticks(trace[i].instruction) = clock[i + 1]
      <4>1. PICK step, row : step = trace[i] /\ row = InstructionRow(i)
        OBVIOUS
      <4>2. TypeOK /\ Recorded
        BY DEF ProverInv
      <4>3. /\ row.instruction = step.instruction /\ row.pc = step.pc
            /\ row.timestamp = clock[i] /\ row.next_pc = PcAfter(i)
            /\ clock[i] + Ticks(step.instruction) = clock[i + 1]
        BY <2>2, <3>1, <4>1, <4>2, StepRow
      <4> QED
        BY <3>1, <4>1, <4>3
    <3> QED
      BY <3>1, <3>2
  <2>5. PICK start, end : start = <<0, 0>> /\ end = <<pc, timestamp>>
    OBVIOUS
  <2>6. <<ends[1].pc, ends[1].timestamp>> = start /\ <<ends[2].pc, ends[2].timestamp>> = end
    BY <2>5 DEF ProverInv, TablesBuilt
  <2>7. PICK after : after = [i \in 1 .. n |-> <<PcAfter(i), clock[i + 1]>>]
    OBVIOUS
  <2>8. PICK before : before = [i \in 1 .. n |-> <<trace[i].pc, clock[i]>>]
    OBVIOUS
  <2>9. [i \in DOMAIN rows |-> <<rows[i].next_pc, rows[i].timestamp + Ticks(rows[i].instruction)>>]
          = after
    BY <2>4, <2>7
  <2>10. [i \in DOMAIN rows |-> <<rows[i].pc, rows[i].timestamp>>] = before
    BY <2>4, <2>8
  <2>11. PICK sent, received : sent = Append(after, start) /\ received = Append(before, end)
    OBVIOUS
  <2>12. /\ DOMAIN sent = 1 .. n + 1 /\ DOMAIN received = 1 .. n + 1
         /\ \A i \in 1 .. n : sent[i] = <<PcAfter(i), clock[i + 1]>>
         /\ \A i \in 1 .. n : received[i] = <<trace[i].pc, clock[i]>>
         /\ sent[n + 1] = <<0, 0>> /\ received[n + 1] = <<pc, timestamp>>
    <3>1. PICK A : A = {after[i] : i \in 1 .. n} \cup {start}
      OBVIOUS
    <3>2. after \in Seq(A) /\ Len(after) = n /\ start \in A
      BY <2>7, <3>1
    <3>3. PICK B : B = {before[i] : i \in 1 .. n} \cup {end}
      OBVIOUS
    <3>4. before \in Seq(B) /\ Len(before) = n /\ end \in B
      BY <2>8, <3>3
    <3>5. /\ sent \in Seq(A) /\ Len(sent) = n + 1
          /\ \A i \in 1 .. n : sent[i] = after[i]
          /\ sent[n + 1] = start
      BY <2>11, <3>2, AppendProperties
    <3>6. /\ received \in Seq(B) /\ Len(received) = n + 1
          /\ \A i \in 1 .. n : received[i] = before[i]
          /\ received[n + 1] = end
      BY <2>11, <3>4, AppendProperties
    <3>7. DOMAIN sent = 1 .. n + 1 /\ DOMAIN received = 1 .. n + 1
      BY <3>5, <3>6
    <3>8. /\ \A i \in 1 .. n : sent[i] = <<PcAfter(i), clock[i + 1]>>
          /\ \A i \in 1 .. n : received[i] = <<trace[i].pc, clock[i]>>
      BY <2>7, <2>8, <3>5, <3>6
    <3> QED
      BY <2>5, <3>5, <3>6, <3>7, <3>8
  <2>13. ASSUME NEW i \in 1 .. n
         PROVE  received[i + 1] = sent[i]
    <3>1. CASE i = n
      BY <2>1, <2>3, <2>12, <3>1 DEF PcAfter
    <3>2. CASE i # n
      <4>1. i + 1 \in 1 .. n
        BY <3>2
      <4> QED
        BY <2>1, <2>12, <3>2, <4>1 DEF PcAfter
    <3> QED
      BY <3>1, <3>2
  <2>14. received[1] = sent[n + 1]
    <3>1. trace[1].pc = 0
      <4>1. trace # <<>>
        BY DEF ProverInv, TablesBuilt
      <4> QED
        BY <4>1 DEF ProverInv, Recorded, Path
    <3> QED
      BY <2>1, <2>3, <2>12, <3>1
  <2> DEFINE p == [i \in 1 .. n + 1 |-> IF i = n + 1 THEN 1 ELSE i + 1]
  <2>15. /\ p \in [1 .. n + 1 -> 1 .. n + 1]
         /\ \A i, j \in 1 .. n + 1 : p[i] = p[j] => i = j
         /\ \A i \in 1 .. n + 1 : received[p[i]] = sent[i]
    <3>1. \A i \in 1 .. n + 1 : i # n + 1 => i \in 1 .. n
      OBVIOUS
    <3>2. \A i \in 1 .. n + 1 : p[i] = IF i = n + 1 THEN 1 ELSE i + 1
      OBVIOUS
    <3>3. p \in [1 .. n + 1 -> 1 .. n + 1]
      BY <2>1
    <3>4. \A i, j \in 1 .. n + 1 : p[i] = p[j] => i = j
      BY <3>2
    <3> HIDE DEF p
    <3>5. \A i \in 1 .. n + 1 : received[p[i]] = sent[i]
      BY <2>13, <2>14, <3>1, <3>2
    <3> QED
      BY <3>3, <3>4, <3>5
  <2>16. \A j \in 1 .. n + 1 : \E i \in 1 .. n + 1 : p[i] = j
    <3> SUFFICES ASSUME NEW j \in 1 .. n + 1 PROVE \E i \in 1 .. n + 1 : p[i] = j
      OBVIOUS
    <3>1. CASE j = 1
      BY <2>1, <3>1
    <3>2. CASE j # 1
      <4>1. j - 1 \in 1 .. n + 1 /\ j - 1 # n + 1 /\ (j - 1) + 1 = j
        BY <3>2
      <4>2. p[j - 1] = j
        BY <4>1
      <4> QED
        BY <4>1, <4>2
    <3> QED
      BY <3>1, <3>2
  <2> HIDE DEF p
  <2>17. p \in Bijection(DOMAIN sent, DOMAIN received)
    BY <2>12, <2>15, <2>16 DEF Bijection, Injection, Surjection, IsInjective
  <2>18. IsFiniteSet(DOMAIN sent)
    BY <2>12, FS_Interval
  <2>19. \A i \in DOMAIN sent : received[p[i]] = sent[i]
    BY <2>12, <2>15
  <2>20. ToBag(sent) = ToBag(received)
    BY <2>17, <2>18, <2>19, SameBag
  <2> QED
    BY <2>6, <2>9, <2>10, <2>11, <2>20
<1> QED
  BY <1>1, ProverSound, PTL

\* The comparisons the memory table asks for are those offered, as often, and
\* they hold.
THEOREM ProverComparisonsBalanced == ProverSpec => []ComparisonsBalanced
<1>1. ProverInv => ComparisonsBalanced
  <2> SUFFICES ASSUME ProverInv, Built PROVE ComparisonsBalanced
    BY DEF ComparisonsBalanced
  <2>1. /\ all_traces.memory = Table(Log) /\ Log # <<>>
        /\ all_traces.u32_lt = AddressLtEntries(Log)
        /\ all_traces.timestamp_lt = TimestampLtEntries(Log)
        /\ IsLog(Log, MemoryOperation)
    BY DEF ProverInv, TablesBuilt, LogSound
  <2>2. /\ AddressLtSent(Table(Log)) = Offered(AddressLtEntries(Log))
        /\ \A k \in DOMAIN AddressLtEntries(Log) :
             AddressLtEntries(Log)[k][1] <= AddressLtEntries(Log)[k][2]
    BY <2>1, AddressLtServed
  <2>3. /\ TimestampLtSent(Table(Log)) = Offered(TimestampLtEntries(Log))
        /\ \A k \in DOMAIN TimestampLtEntries(Log) :
             TimestampLtEntries(Log)[k][1] < TimestampLtEntries(Log)[k][2]
    BY <2>1, TimestampLtServed
  <2> QED
    BY <2>1, <2>2, <2>3, Zenon DEF ComparisonsBalanced
<1> QED
  BY <1>1, ProverSound, PTL

(***************************************************************************)
(* The program bus: rows and bytes.                                        *)
(***************************************************************************)
\* The low limb of the following bytes, as long as it is one.
LEMMA LimbSteps ==
  ASSUME NEW a \in Nat
  PROVE  /\ LowLimb(a) \in 0 .. LimbSize - 1 /\ HighLimb(a) \in Nat
         /\ \A k \in Nat : LowLimb(a) + k < LimbSize =>
              HighLimb(a + k) = HighLimb(a) /\ LowLimb(a + k) = LowLimb(a) + k
<1>1. LimbSize \in Nat \ {0}
  BY LimbAssumption
<1>2. a % LimbSize \in 0 .. LimbSize - 1 /\ a \div LimbSize \in Nat
  BY <1>1
<1>3. ASSUME NEW k \in Nat, (a % LimbSize) + k < LimbSize
      PROVE  (a + k) \div LimbSize = a \div LimbSize /\ (a + k) % LimbSize = (a % LimbSize) + k
  BY <1>1, <1>3
<1> QED
  BY <1>2, <1>3 DEF LowLimb, HighLimb

\* e lists the four bytes at each address of at, in order.
Bytes(e, at, N) ==
  /\ at \in [1 .. N -> Nat] /\ e \in [1 .. 4 * N -> Nat]
  /\ \A j \in 0 .. N - 1 : \A k \in 1 .. 4 : e[4 * j + k] = at[j + 1] + k - 1

\* The places byte a has in e, and the addresses it has it from.
Places(a, e, N)  == {m \in 1 .. 4 * N : e[m] = a}
Reaching(a, at, N) == {j \in 1 .. N : a \in at[j] .. at[j] + 3}

\* Positions in blocks of four.
LEMMA Quarters ==
  ASSUME NEW N \in Nat, NEW m \in 1 .. 4 * N
  PROVE  \E j \in 0 .. N - 1, k \in 1 .. 4 : m = 4 * j + k
<1>1. PICK j : j = (m - 1) \div 4
  OBVIOUS
<1>2. PICK k : k = ((m - 1) % 4) + 1
  OBVIOUS
<1>3. m - 1 = 4 * ((m - 1) \div 4) + ((m - 1) % 4)
  OBVIOUS
<1>4. m = 4 * j + k /\ k \in 1 .. 4 /\ j \in Nat
  BY <1>1, <1>2, <1>3
<1> QED
  BY <1>4

\* A byte is listed once for each address whose word it is in.
LEMMA ByteCounts ==
  ASSUME NEW N \in Nat, NEW at, NEW e, Bytes(e, at, N), NEW a \in Nat
  PROVE  /\ Cardinality(Places(a, e, N)) = Cardinality(Reaching(a, at, N))
         /\ Places(a, e, N) # {} <=> Cardinality(Reaching(a, at, N)) > 0
<1> DEFINE R == {j \in 1 .. N : a \in at[j] .. at[j] + 3}
           M == {m \in 1 .. 4 * N : e[m] = a}
           p == [j \in R |-> 4 * (j - 1) + (a - at[j] + 1)]
<1>1. /\ at \in [1 .. N -> Nat]
      /\ \A j \in 0 .. N - 1 : \A k \in 1 .. 4 : e[4 * j + k] = at[j + 1] + k - 1
  BY DEF Bytes
<1>2. ASSUME NEW j \in R
      PROVE  p[j] \in M /\ p[j] \in Nat /\ 4 * (j - 1) < p[j] /\ p[j] <= 4 * (j - 1) + 4
  <2>1. /\ j \in 1 .. N /\ at[j] \in Nat /\ j - 1 \in 0 .. N - 1 /\ (j - 1) + 1 = j
        /\ a - at[j] + 1 \in 1 .. 4
    <3>1. j \in 1 .. N /\ a \in at[j] .. at[j] + 3
      OBVIOUS
    <3>2. at[j] \in Nat
      BY <1>1, <3>1
    <3> HIDE DEF R
    <3> QED
      BY ONLY <3>1, <3>2, a \in Nat, N \in Nat
  <2>2. e[4 * (j - 1) + (a - at[j] + 1)] = at[(j - 1) + 1] + (a - at[j] + 1) - 1
    BY <1>1, <2>1
  <2>3. e[p[j]] = a
    BY <2>1, <2>2
  <2>4. p[j] \in 1 .. 4 * N /\ 4 * (j - 1) < p[j] /\ p[j] <= 4 * (j - 1) + 4
    BY <2>1
  <2> QED
    BY <2>3, <2>4
<1>3. ASSUME NEW i \in R, NEW j \in R, p[i] = p[j]
      PROVE  i = j
  <2>1. i \in Nat /\ j \in Nat
    OBVIOUS
  <2> HIDE DEF p, R
  <2> QED
    BY <1>2, <1>3, <2>1
<1>4. ASSUME NEW m \in M
      PROVE  \E j \in R : p[j] = m
  <2>1. PICK j \in 0 .. N - 1, k \in 1 .. 4 : m = 4 * j + k
    BY Quarters
  <2>2. e[m] = at[j + 1] + k - 1 /\ e[m] = a /\ at[j + 1] \in Nat /\ j + 1 \in 1 .. N
    <3>1. j + 1 \in 1 .. N /\ e[m] = a
      OBVIOUS
    <3>2. e[4 * j + k] = at[j + 1] + k - 1 /\ at[j + 1] \in Nat
      BY <1>1, <3>1
    <3> QED
      BY <2>1, <3>1, <3>2
  <2>3. j + 1 \in R
    BY <2>2
  <2>4. p[j + 1] = 4 * ((j + 1) - 1) + (a - at[j + 1] + 1)
    BY <2>3
  <2>5. p[j + 1] = m
    BY <2>1, <2>2, <2>4
  <2> QED
    BY <2>3, <2>5
<1>5. IsFiniteSet(R)
  <2>1. IsFiniteSet(1 .. N)
    BY FS_Interval
  <2> QED
    BY <2>1, FS_Subset
<1>6. p \in Bijection(R, M)
  <2>1. p \in [R -> M]
    BY <1>2
  <2> HIDE DEF p, R, M
  <2> QED
    BY <1>3, <1>4, <2>1 DEF Bijection, Injection, Surjection, IsInjective
<1>7. M # {} <=> R # {}
  BY <1>2, <1>4
<1> HIDE DEF p, R, M
<1>8. Cardinality(M) = Cardinality(R)
  BY <1>5, <1>6, FS_Bijection DEF ExistsBijection
<1>9. Cardinality(R) > 0 <=> R # {}
  BY <1>5, FS_CardinalityType, FS_EmptySet
<1>10. Places(a, e, N) = M /\ Reaching(a, at, N) = R
  BY DEF M, R, Places, Reaching
<1> QED
  BY <1>7, <1>8, <1>9, <1>10

\* The rows of the decode table: the steps, then padding at pc 0.
Rows == Len(trace) + DecodePadding

FetchedAt == [j \in 1 .. Rows |-> IF j <= Len(trace) THEN trace[j].pc ELSE 0]

\* The decode rows fetch the four bytes at their addresses.
LEMMA DecodeRows ==
  ASSUME ProverInv, Built
  PROVE  /\ Len(trace) \in Nat /\ Len(trace) >= 1 /\ DecodePadding \in Nat
         /\ FetchedAt \in [1 .. Rows -> Nat] /\ FetchedAt[1] = 0
         /\ \A j \in 1 .. Len(trace) : FetchedAt[j] = trace[j].pc
         /\ \A j \in Len(trace) + 1 .. Rows : FetchedAt[j] = 0
         /\ \A j \in 1 .. Rows : FetchedAt[j] + 3 < program.len
         /\ DOMAIN all_traces.decode_fetches = 1 .. 4 * Rows
         /\ \A j \in 0 .. Rows - 1 : \A k \in 1 .. 4 :
              all_traces.decode_fetches[4 * j + k]
                = <<HighLimb(FetchedAt[j + 1]), LowLimb(FetchedAt[j + 1]) + k - 1,
                    FetchedAt[j + 1] + k - 1>>
<1>1. PICK n \in Nat : n = Len(trace) /\ n >= 1
  BY BuiltRows
<1>2. PICK P \in Nat : P = DecodePadding
  BY <1>1, NumRowsFit DEF DecodePadding
<1>3. /\ \A j \in 1 .. n : trace[j].pc \in Nat /\ trace[j].pc + 3 < program.len
      /\ trace[1].pc = 0
  <2>1. Path /\ trace # <<>>
    BY DEF ProverInv, Recorded, TablesBuilt
  <2> QED
    BY <1>1, <2>1 DEF Path, Executed, Steps
<1>4. PICK N \in Nat : N = n + P /\ N = Rows
  BY <1>1, <1>2 DEF Rows
<1>5. PICK at : at = FetchedAt
  OBVIOUS
<1>6. at = [j \in 1 .. N |-> IF j <= n THEN trace[j].pc ELSE 0]
  BY <1>1, <1>4, <1>5 DEF FetchedAt
<1>7. /\ at \in [1 .. N -> Nat]
      /\ \A j \in 1 .. n : at[j] = trace[j].pc
      /\ \A j \in n + 1 .. N : at[j] = 0
      /\ at[1] = 0
  BY <1>1, <1>3, <1>4, <1>6
<1>8. \A j \in 1 .. N : at[j] + 3 < program.len
  <2>1. \A j \in 1 .. n : at[j] + 3 < program.len
    BY <1>3, <1>7
  <2>2. 3 < program.len
    BY <1>1, <1>7, <2>1
  <2> QED
    BY <1>4, <1>7, <2>1, <2>2
<1>9. PICK S : S = Nat \X Nat \X Nat
  OBVIOUS
<1>10. ASSUME NEW a \in Nat
       PROVE  FetchSends(a, a) \in Seq(S) /\ Len(FetchSends(a, a)) = 4
              /\ \A k \in 1 .. 4 :
                   FetchSends(a, a)[k] = <<HighLimb(a), LowLimb(a) + k - 1, a + k - 1>>
  <2>1. LowLimb(a) \in Nat /\ HighLimb(a) \in Nat
    BY LimbSteps
  <2>2. \A k \in 1 .. 4 : <<HighLimb(a), LowLimb(a) + k - 1, a + k - 1>> \in S
    BY <1>9, <2>1
  <2>3. PICK f : f = FetchSends(a, a)
    OBVIOUS
  <2>4. f = [k \in 1 .. 4 |-> <<HighLimb(a), LowLimb(a) + k - 1, a + k - 1>>]
    BY <2>3 DEF FetchSends
  <2>5. f \in Seq(S) /\ Len(f) = 4
    BY <2>2, <2>4
  <2> QED
    BY <2>3, <2>4, <2>5
<1>g. PICK G : G = [a \in Nat |-> FetchSends(a, a)]
  OBVIOUS
<1>f. /\ \A a \in Nat : G[a] \in Seq(S) /\ Len(G[a]) = 4
      /\ \A a \in Nat : \A k \in 1 .. 4 :
           G[a][k] = <<HighLimb(a), LowLimb(a) + k - 1, a + k - 1>>
  BY <1>10, <1>g
<1>h. \A a \in Nat : G[a] \in Seq(S)
  BY <1>f
<1>l. \A a \in Nat : Len(G[a]) = 4
  BY <1>f
<1>11. PICK A : A = [i \in Steps |-> FetchSends(trace[i].pc, trace[i].pc)]
  OBVIOUS
<1>12. PICK B : B = [i \in 1 .. P |-> FetchSends(0, trace[1].pc)]
  OBVIOUS
<1>13. PICK ss : ss = A \o B
  OBVIOUS
<1>14. DecodeFetches = FlattenSeq(ss)
  BY <1>2, <1>11, <1>12, <1>13 DEF DecodeFetches
<1>15. /\ ss \in Seq(Seq(S)) /\ Len(ss) = N
       /\ \A j \in 1 .. N : ss[j] = G[at[j]]
  <2>1. A = [i \in 1 .. n |-> G[at[i]]]
    BY <1>1, <1>3, <1>7, <1>11, <1>g DEF Steps
  <2>2. A \in Seq(Seq(S)) /\ Len(A) = n /\ \A i \in 1 .. n : A[i] = G[at[i]]
    <3>1. \A i \in 1 .. n : G[at[i]] \in Seq(S)
      <4>1. \A i \in 1 .. n : at[i] \in Nat
        BY <1>4, <1>7
      <4> QED
        BY ONLY <1>h, <4>1
    <3>2. PICK Q : Q = Seq(S)
      OBVIOUS
    <3>3. A \in Seq(Q) /\ Len(A) = n /\ \A i \in 1 .. n : A[i] = G[at[i]]
      BY ONLY <1>1, <2>1, <3>1, <3>2
    <3> QED
      BY <3>2, <3>3
  <2>3. B = [i \in 1 .. P |-> G[0]]
    BY <1>3, <1>12, <1>g
  <2>4. B \in Seq(Seq(S)) /\ Len(B) = P /\ \A i \in 1 .. P : B[i] = G[0]
    <3>1. G[0] \in Seq(S)
      BY <1>f
    <3>2. PICK Q : Q = Seq(S)
      OBVIOUS
    <3>3. PICK g \in Q : g = G[0]
      BY <3>1, <3>2
    <3>4. B = [i \in 1 .. P |-> g] /\ P \in Nat
      BY <2>3, <3>3
    <3>5. B \in Seq(Q) /\ Len(B) = P /\ \A i \in 1 .. P : B[i] = g
      BY ONLY <3>4, g \in Q
    <3> QED
      BY <3>2, <3>3, <3>5
  <2>5. /\ A \o B \in Seq(Seq(S)) /\ Len(A \o B) = Len(A) + Len(B)
        /\ \A i \in 1 .. Len(A) + Len(B) :
             (A \o B)[i] = IF i <= Len(A) THEN A[i] ELSE B[i - Len(A)]
    BY ONLY <2>2, <2>4, ConcatProperties
  <2>6. ASSUME NEW j \in 1 .. N
        PROVE  ss[j] = G[at[j]]
    <3>1. ss[j] = IF j <= n THEN A[j] ELSE B[j - n]
      BY <1>4, <1>13, <2>2, <2>4, <2>5
    <3>2. CASE j <= n
      <4>1. j \in 1 .. n
        BY <3>2
      <4> QED
        BY <2>2, <3>1, <3>2, <4>1
    <3>3. CASE ~(j <= n)
      <4>1. j - n \in 1 .. P /\ at[j] = 0
        BY <1>4, <1>7, <3>3
      <4> QED
        BY <2>4, <3>1, <3>3, <4>1
    <3> QED
      BY <3>2, <3>3
  <2> QED
    BY <1>4, <1>13, <2>2, <2>4, <2>5, <2>6
<1>16. PICK flat : flat = FlattenSeq(ss)
  OBVIOUS
<1>17. /\ flat \in Seq(S) /\ Len(flat) = 4 * N
       /\ \A j \in 0 .. N - 1 : \A k \in 1 .. 4 : flat[4 * j + k] = ss[j + 1][k]
  <2>1. Quads(S, ss)
    <3>1. ASSUME NEW j \in 1 .. N
          PROVE  Len(ss[j]) = 4
      <4>1. at[j] \in Nat
        BY <1>7
      <4> QED
        BY ONLY <1>l, <1>15, <4>1
    <3> QED
      BY <1>15, <3>1 DEF Quads
  <2>2. Len(ss) = N
    BY <1>15
  <2> QED
    BY ONLY <1>16, <2>1, <2>2, FlattenBlocks
<1>18. ASSUME NEW j \in 0 .. N - 1, NEW k \in 1 .. 4
       PROVE  flat[4 * j + k]
                = <<HighLimb(at[j + 1]), LowLimb(at[j + 1]) + k - 1, at[j + 1] + k - 1>>
  <2>1. j + 1 \in 1 .. N /\ at[j + 1] \in Nat
    BY <1>7
  <2>2. PICK a \in Nat : a = at[j + 1]
    BY <2>1
  <2> QED
    <3>1. ss[j + 1] = G[a]
      BY <1>15, <2>1, <2>2
    <3>2. flat[4 * j + k] = G[a][k]
      BY <1>17, <3>1
    <3>3. G[a][k] = <<HighLimb(a), LowLimb(a) + k - 1, a + k - 1>>
      BY <1>f
    <3> QED
      BY <2>2, <3>2, <3>3
<1>19. all_traces.decode_fetches = flat
  BY <1>14, <1>16 DEF ProverInv, TablesBuilt
<1>20. DOMAIN flat = 1 .. 4 * N
  BY <1>17
<1> QED
  BY <1>1, <1>2, <1>4, <1>5, <1>7, <1>8, <1>18, <1>19, <1>20

\* The multiplicity of a byte in the ROM is the number of rows that fetch it.
LEMMA RomCounts ==
  ASSUME ProverInv, Built, NEW a \in DOMAIN RomMults
  PROVE  RomMults[a] = Cardinality(Reaching(a, FetchedAt, Rows))
<1>1. PICK n \in Nat : n = Len(trace) /\ n >= 1
  BY DecodeRows
<1>2. PICK P \in Nat : P = DecodePadding
  BY DecodeRows
<1>3. PICK at : at = FetchedAt
  OBVIOUS
<1>4. Rows = n + P
  BY <1>1, <1>2 DEF Rows
<1>5. /\ at \in [1 .. n + P -> Nat]
      /\ \A j \in 1 .. n : at[j] = trace[j].pc
      /\ \A j \in n + 1 .. n + P : at[j] = 0
  BY <1>1, <1>3, <1>4, DecodeRows
<1>6. a \in Nat
  <2>1. NumRows(program.len) \in Nat
    <3>1. program.len \in Nat
      BY VmAssumption DEF ProverInv, TypeOK, ProgramType
    <3> QED
      BY <3>1, NumRowsFit
  <2> QED
    BY <2>1 DEF RomMults
<1> DEFINE S == {i \in 1 .. n : a \in trace[i].pc .. trace[i].pc + 3}
           Z == IF a < 4 THEN n + 1 .. n + P ELSE {}
<1>7. RomMults[a] = Cardinality(S) + IF a < 4 THEN P ELSE 0
  BY <1>1, <1>2 DEF RomMults, Steps
<1>8. IsFiniteSet(S) /\ IsFiniteSet(Z) /\ Cardinality(Z) = IF a < 4 THEN P ELSE 0
  <2>1. IsFiniteSet(1 .. n) /\ IsFiniteSet(n + 1 .. n + P)
    BY FS_Interval
  <2>2. Cardinality(n + 1 .. n + P) = P
    <3>1. n + 1 \in Int /\ n + P \in Int
      OBVIOUS
    <3>2. Cardinality(n + 1 .. n + P) = IF n + 1 > n + P THEN 0 ELSE (n + P) - (n + 1) + 1
      BY <3>1, FS_Interval
    <3> QED
      BY <3>2
  <2> QED
    BY <2>1, <2>2, FS_Subset, FS_EmptySet
<1>9. Reaching(a, FetchedAt, Rows) = S \cup Z
  <2>1. Reaching(a, FetchedAt, Rows) = {j \in 1 .. n + P : a \in at[j] .. at[j] + 3}
    BY <1>3, <1>4 DEF Reaching
  <2>2. ASSUME NEW j \in 1 .. n
        PROVE  a \in at[j] .. at[j] + 3 <=> j \in S
    BY <1>5
  <2>3. ASSUME NEW j \in n + 1 .. n + P
        PROVE  a \in at[j] .. at[j] + 3 <=> j \in Z
    <3>1. at[j] = 0
      BY <1>5
    <3> QED
      BY <1>6, <3>1
  <2>4. 1 .. n + P = (1 .. n) \cup (n + 1 .. n + P)
    OBVIOUS
  <2>5. S \subseteq 1 .. n /\ Z \subseteq n + 1 .. n + P
    OBVIOUS
  <2> HIDE DEF S, Z
  <2> QED
    BY <2>1, <2>2, <2>3, <2>4, <2>5
<1>10. S \cap Z = {}
  OBVIOUS
<1> HIDE DEF S, Z
<1>11. Cardinality(S \cup Z) = Cardinality(S) + Cardinality(Z)
  <2>1. Cardinality(S \cup Z) = Cardinality(S) + Cardinality(Z) - Cardinality({})
    BY <1>8, <1>10, FS_Union
  <2>2. Cardinality(S) \in Nat /\ Cardinality(Z) \in Nat /\ Cardinality({}) = 0
    BY <1>8, FS_CardinalityType, FS_EmptySet
  <2> QED
    BY <2>1, <2>2
<1> QED
  BY <1>7, <1>8, <1>9, <1>11

\* The four fetches of every decode row, padding included, are answered by the
\* ROM as often as they are made exactly when no instruction straddles a limb
\* boundary, and no fetch counts a byte past the end of the program.
THEOREM ProverProgramBusBalanced == ProverSpec => []ProgramBusBalanced
<1>1. ProverInv => ProgramBusBalanced
  <2> SUFFICES ASSUME ProverInv, Built
               PROVE  /\ ToBag(all_traces.decode_fetches) = RomReceived(all_traces.rom_mults)
                           <=> \A i \in Steps : LowLimb(trace[i].pc) + 3 < LimbSize
                      /\ \A a \in DOMAIN all_traces.rom_mults :
                           a >= program.len => all_traces.rom_mults[a] = 0
    BY Zenon DEF ProgramBusBalanced
  <2>1. PICK N \in Nat : N = Rows
    BY DecodeRows DEF Rows
  <2>2. PICK at : at = FetchedAt
    OBVIOUS
  <2>3. PICK flat : flat = all_traces.decode_fetches
    OBVIOUS
  <2>4. PICK mults : mults = RomMults
    OBVIOUS
  <2>5. all_traces.rom_mults = mults
    BY <2>4 DEF ProverInv, TablesBuilt
  <2>6. PICK n \in Nat : n = Len(trace) /\ 1 <= n /\ n <= N
    BY <2>1, DecodeRows DEF Rows
  <2>7. /\ at \in [1 .. N -> Nat] /\ at[1] = 0
        /\ \A j \in 1 .. n : at[j] = trace[j].pc
        /\ \A j \in n + 1 .. N : at[j] = 0
        /\ \A j \in 1 .. N : at[j] + 3 < program.len
    BY <2>1, <2>2, <2>6, DecodeRows
  <2>8. /\ DOMAIN flat = 1 .. 4 * N
        /\ \A j \in 0 .. N - 1 : \A k \in 1 .. 4 :
             flat[4 * j + k] = <<HighLimb(at[j + 1]), LowLimb(at[j + 1]) + k - 1, at[j + 1] + k - 1>>
    BY <2>1, <2>2, <2>3, DecodeRows
  <2> DEFINE E(a) == <<HighLimb(a), LowLimb(a), a>>
  <2>9. \A a \in DOMAIN mults : mults[a] = Cardinality(Reaching(a, at, N))
    BY <2>1, <2>2, <2>4, RomCounts
  <2>10. \A a \in Nat : a < program.len => a \in DOMAIN mults
    <3>1. program.len \in Nat
      BY VmAssumption DEF ProverInv, TypeOK, ProgramType
    <3>2. NumRows(program.len) \in Nat /\ NumRows(program.len) >= program.len
      BY <3>1, NumRowsFit
    <3> QED
      BY <2>4, <3>1, <3>2 DEF RomMults
  <2>11. DOMAIN mults \subseteq Nat /\ program.len \in Nat
    <3>1. program.len \in Nat
      BY VmAssumption DEF ProverInv, TypeOK, ProgramType
    <3>2. NumRows(program.len) \in Nat
      BY <3>1, NumRowsFit
    <3> QED
      BY <2>4, <3>1, <3>2 DEF RomMults
  <2>12. ASSUME NEW a \in DOMAIN mults, a >= program.len
         PROVE  mults[a] = 0
    <3>1. Reaching(a, at, N) = {}
      <4>1. ASSUME NEW j \in 1 .. N
            PROVE  a \notin at[j] .. at[j] + 3
        <5>1. at[j] \in Nat /\ at[j] + 3 < program.len /\ a \in Nat
          BY <2>7, <2>11
        <5> QED
          BY <2>11, <2>12, <5>1
      <4> QED
        BY <4>1 DEF Reaching
    <3> QED
      BY <2>9, <3>1, FS_EmptySet
  <2>13. PICK e : e = [m \in 1 .. 4 * N |-> flat[m][3]]
    OBVIOUS
  <2>14. ASSUME NEW j \in 0 .. N - 1, NEW k \in 1 .. 4
         PROVE  e[4 * j + k] = at[j + 1] + k - 1 /\ at[j + 1] \in Nat /\ 4 * j + k \in 1 .. 4 * N
    <3>1. 4 * j + k \in 1 .. 4 * N /\ j + 1 \in 1 .. N
      OBVIOUS
    <3> QED
      <4>1. at[j + 1] \in Nat
        BY <2>7, <3>1
      <4>2. e[4 * j + k] = flat[4 * j + k][3]
        BY <2>13, <3>1
      <4>3. flat[4 * j + k] = <<HighLimb(at[j + 1]), LowLimb(at[j + 1]) + k - 1, at[j + 1] + k - 1>>
        BY <2>8
      <4>4. flat[4 * j + k][3] = at[j + 1] + k - 1
        BY <4>3
      <4> QED
        BY <3>1, <4>1, <4>2, <4>4
  <2>15. Bytes(e, at, N)
    <3>1. \A m \in 1 .. 4 * N : e[m] \in Nat
      <4> SUFFICES ASSUME NEW m \in 1 .. 4 * N PROVE e[m] \in Nat
        OBVIOUS
      <4>1. PICK j \in 0 .. N - 1, k \in 1 .. 4 : m = 4 * j + k
        BY Quarters
      <4> QED
        BY <2>14, <4>1
    <3> QED
      BY <2>7, <2>13, <2>14, <3>1 DEF Bytes
  <2>16. ASSUME \A i \in Steps : LowLimb(trace[i].pc) + 3 < LimbSize
         PROVE  ToBag(flat) = RomReceived(mults)
    <3>1. \A j \in 1 .. N : LowLimb(at[j]) + 3 < LimbSize
      <4>1. \A j \in 1 .. n : LowLimb(at[j]) + 3 < LimbSize
        BY <2>6, <2>7, <2>16 DEF Steps
      <4>2. LowLimb(0) + 3 < LimbSize
        BY <2>6, <2>7, <4>1
      <4> QED
        <5>1. ASSUME NEW j \in n + 1 .. N
              PROVE  LowLimb(at[j]) + 3 < LimbSize
          BY <2>7, <4>2
        <5>2. 1 .. N = (1 .. n) \cup (n + 1 .. N)
          BY <2>6
        <5> QED
          BY <4>1, <5>1, <5>2
    <3>2. ASSUME NEW m \in 1 .. 4 * N
          PROVE  flat[m] = E(e[m]) /\ e[m] \in DOMAIN mults
      <4>1. PICK j \in 0 .. N - 1, k \in 1 .. 4 : m = 4 * j + k
        BY Quarters
      <4>2. PICK a : a = at[j + 1]
        OBVIOUS
      <4>3. j + 1 \in 1 .. N
        OBVIOUS
      <4>4. a \in Nat /\ LowLimb(a) + 3 < LimbSize /\ a + 3 < program.len
        BY <2>7, <3>1, <4>2, <4>3
      <4>5. e[m] = a + k - 1 /\ flat[m] = <<HighLimb(a), LowLimb(a) + k - 1, a + k - 1>>
        BY <2>8, <2>14, <4>1, <4>2
      <4>6. k - 1 \in Nat /\ LowLimb(a) \in Nat /\ a + k - 1 = a + (k - 1)
            /\ LowLimb(a) + k - 1 = LowLimb(a) + (k - 1)
        BY <4>4, LimbSteps
      <4>7. LowLimb(a) + (k - 1) < LimbSize
        BY <4>4, <4>6, LimbAssumption
      <4>8. HighLimb(a + (k - 1)) = HighLimb(a) /\ LowLimb(a + (k - 1)) = LowLimb(a) + (k - 1)
        BY <4>4, <4>6, <4>7, LimbSteps
      <4>9. e[m] \in Nat /\ e[m] < program.len
        BY <2>11, <4>4, <4>5
      <4> QED
        BY <2>10, <4>5, <4>6, <4>8, <4>9
    <3>3. ASSUME NEW a \in DOMAIN mults
          PROVE  /\ mults[a] = Cardinality({m \in 1 .. 4 * N : e[m] = a})
                 /\ mults[a] > 0 <=> \E m \in 1 .. 4 * N : e[m] = a
      <4>1. a \in Nat
        BY <2>11
      <4>2. /\ Cardinality(Places(a, e, N)) = Cardinality(Reaching(a, at, N))
            /\ Places(a, e, N) # {} <=> Cardinality(Reaching(a, at, N)) > 0
        BY <2>15, <4>1, ByteCounts
      <4>3. mults[a] = Cardinality(Reaching(a, at, N))
        BY <2>9
      <4>4. Places(a, e, N) # {} <=> \E m \in 1 .. 4 * N : e[m] = a
        BY DEF Places
      <4> QED
        BY <4>2, <4>3, <4>4 DEF Places
    <3> DEFINE U == {a \in DOMAIN mults : mults[a] > 0}
    <3>4. Range(flat) = {E(a) : a \in U}
      <4>1. Range(flat) = {flat[m] : m \in 1 .. 4 * N}
        BY <2>8 DEF Range
      <4>2. \A m \in 1 .. 4 * N : flat[m] = E(e[m]) /\ e[m] \in U
        BY <3>2, <3>3
      <4>3. \A a \in U : \E m \in 1 .. 4 * N : e[m] = a
        BY <3>3
      <4> HIDE DEF U, E
      <4> QED
        BY <4>1, <4>2, <4>3
    <3>5. ASSUME NEW t \in Range(flat)
          PROVE  Cardinality({m \in DOMAIN flat : flat[m] = t}) = mults[t[3]]
      <4>1. PICK a \in U : t = E(a)
        BY <3>4
      <4>2. t[3] = a
        BY <4>1
      <4>3. \A b : E(b) = E(a) => b = a
        OBVIOUS
      <4>4. {m \in DOMAIN flat : flat[m] = t} = {m \in 1 .. 4 * N : e[m] = a}
        <5> HIDE DEF E
        <5> QED
          BY <2>8, <3>2, <4>1, <4>3
      <4> QED
        BY <3>3, <4>2, <4>4
    <3>6. ToBag(flat) = [t \in Range(flat) |-> mults[t[3]]]
      BY <3>5 DEF ToBag
    <3>7. RomReceived(mults) = [t \in {E(a) : a \in U} |-> mults[t[3]]]
      BY DEF RomReceived
    <3> QED
      BY <3>4, <3>6, <3>7
  <2>17. ASSUME NEW i \in Steps, ~(LowLimb(trace[i].pc) + 3 < LimbSize)
         PROVE  ToBag(flat) # RomReceived(mults)
    <3>1. i \in 1 .. n /\ i \in 1 .. N /\ i - 1 \in 0 .. N - 1 /\ (i - 1) + 1 = i
      BY <2>6 DEF Steps
    <3>2. PICK a : a = at[i]
      OBVIOUS
    <3>3. a \in Nat /\ ~(LowLimb(a) + 3 < LimbSize) /\ LowLimb(a) \in Nat
      BY <2>7, <2>17, <3>1, <3>2, LimbSteps
    <3>4. PICK t : t = flat[4 * (i - 1) + 4]
      OBVIOUS
    <3>5. t = <<HighLimb(a), LowLimb(a) + 4 - 1, a + 4 - 1>>
      <4>1. PICK j \in 0 .. N - 1, k \in 1 .. 4 : j = i - 1 /\ k = 4
        BY <3>1
      <4>2. flat[4 * j + k]
              = <<HighLimb(at[j + 1]), LowLimb(at[j + 1]) + k - 1, at[j + 1] + k - 1>>
        BY <2>8
      <4>3. j + 1 = i
        BY <3>1, <4>1
      <4> QED
        BY <3>2, <3>4, <4>1, <4>2, <4>3
    <3>6. t[2] = LowLimb(a) + 3
      BY <3>3, <3>5
    <3>7. 4 * (i - 1) + 4 \in DOMAIN flat
      BY <2>8, <3>1
    <3>8. t \in DOMAIN ToBag(flat)
      BY <3>4, <3>7 DEF ToBag, Range
    <3>9. ASSUME t \in DOMAIN RomReceived(mults)
          PROVE  FALSE
      <4>1. PICK b \in DOMAIN mults : t = E(b)
        BY <3>9 DEF RomReceived
      <4>2. LowLimb(b) < LimbSize /\ t[2] = LowLimb(b)
        BY <2>11, <4>1, LimbSteps, LimbAssumption
      <4> QED
        BY <3>3, <3>6, <4>2
    <3> QED
      BY <3>8, <3>9
  <2> QED
    BY <2>3, <2>5, <2>12, <2>16, <2>17
<1> QED
  BY <1>1, ProverSound, PTL
=============================================================================
