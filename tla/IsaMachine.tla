----------------------------- MODULE IsaMachine -----------------------------
(***************************************************************************)
(* The RV32I machine a user of the VM expects: a program counter and the   *)
(* registers x1 .. x(n-1), with x0 a constant, not a cell.  Nothing is     *)
(* logged and there is no clock; a step is one instruction, executed or    *)
(* not.  The VM is shown to implement it (Vm!Spec => Rv!Spec, with the     *)
(* registers of the last step for x).                                      *)
(***************************************************************************)
EXTENDS Integers

CONSTANTS NumRegs, WordSize, Alu(_, _, _), Unsupported, Programs,
          ImmediateOps, RegisterOps, UpperOps

VARIABLES program, pc, x

vars == <<program, pc, x>>

Cells  == 1 .. NumRegs - 1
Get(r) == IF r = 0 THEN 0 ELSE x[r]

\* Setting x0 has no effect.
Set(r, v) == x' = [c \in Cells |-> IF c = r THEN v ELSE x[c]]

\* The operands of instruction i, and the value it gives to rd.
Operands(i) ==
  CASE i.op \in ImmediateOps -> <<Get(i.rs1), i.imm>>
    [] i.op \in RegisterOps  -> <<Get(i.rs1), Get(i.rs2)>>
    [] i.op \in UpperOps     -> <<pc, i.imm>>
    [] i.op = "Jal"          -> <<pc, i.imm>>
    [] i.op = "Jalr"         -> <<Get(i.rs1), i.imm>>

IsJump(i) == i.op \in {"Jal", "Jalr"}

Link == (pc + 4) % WordSize

Value(i) ==
  IF IsJump(i) THEN Link ELSE Alu(i.op, Operands(i)[1], Operands(i)[2])

Target(i) ==
  LET sum == (Operands(i)[1] + Operands(i)[2]) % WordSize
  IN  CASE i.op = "Jal"  -> sum
        [] i.op = "Jalr" -> 2 * (sum \div 2)
        [] OTHER         -> Link

Execute ==
  /\ pc + 3 < program.len
  /\ LET i == program.word[pc]
     IN  /\ i # Unsupported
         /\ Set(i.rd, Value(i))
         /\ pc' = Target(i)
  /\ UNCHANGED program

Init ==
  /\ program \in Programs
  /\ pc = 0
  /\ x = [c \in Cells |-> 0]

Spec == Init /\ [][Execute]_vars

=============================================================================
