---------------------------- MODULE MCInstructions ----------------------------
(***************************************************************************)
(* Instances of AirList, with InstructionTables, for TLC.                   *)
(***************************************************************************)
EXTENDS AirList

Step(op, pc, rd, imm, a, b) ==
  [op |-> op, pc |-> pc, rd |-> rd, imm |-> imm, rs1_value |-> a, rs2_value |-> b]

Words(S) == {k % Size : k \in S}

\* Where limbs, signs and carries turn.
Boundary == Words({0, 1, Base - 1, Base, 43981, 2 ^ (XLEN - 1) - 1, 2 ^ (XLEN - 1), -1})

\* The ends of the ranges of the immediates, and where their limbs turn.
ShortImms == LET half == 2 ^ (UpperShift - 1)
             IN  Words({0, 1, Base - 1, Base, half - 1, -half, -1})
UpperImms == Words({0, 1, Base - 1, Base, 2 ^ (XLEN - UpperShift) - 1}) \cap
             0 .. 2 ^ (XLEN - UpperShift) - 1
JumpImms  == Words({0, 2, 4, 30, 32, 64, 512, 1022, -2, -32, -1024})

Shifts   == {"SlliI", "SrliI", "SraiI"}
ShortOps == {"AddI", "XorI", "OriI", "AndiI", "SltiI", "SltiuI"}

RegisterSteps(ops, pcs, values) ==
  {Step(op, pc, 1, 0, a, b) : op \in ops, pc \in pcs, a \in values, b \in values}
ImmediateSteps(ops, pcs, imms, values) ==
  {Step(op, pc, 1, c, a, 0) : op \in ops, pc \in pcs, c \in imms, a \in values}

\* Every instruction at the boundaries of its operands; pc + 4 carries into
\* the second limb at 12 and into the third at 252.
EveryStep ==
  RegisterSteps(RegisterOps, {12}, Boundary)
  \cup ImmediateSteps(ShortOps, {252}, ShortImms, Boundary)
  \cup ImmediateSteps(Shifts, {0}, 0 .. XLEN - 1, Boundary)
  \cup {Step(op, pc, 1, c, 0, 0) : op \in {"Lui", "Auipc"}, pc \in {0, 12, 252}, c \in UpperImms}
  \cup {Step("Jal", pc, rd, c, 0, 0) : pc \in {0, 12, 252}, rd \in 0 .. 1, c \in JumpImms}
  \cup {Step("Jalr", pc, rd, c, a, 0) :
          pc \in {12, 252}, rd \in 0 .. 1, c \in ShortImms, a \in Boundary}

\* One or two steps of every instruction, for runs that mix them.
MixedSteps ==
  RegisterSteps(RegisterOps, {12}, {43981})
  \cup ImmediateSteps(ShortOps, {252}, Words({-1}), {43981})
  \cup ImmediateSteps(Shifts, {0}, {5}, {43981})
  \cup {Step(op, 12, 1, 300, 0, 0) : op \in {"Lui", "Auipc"}}
  \cup {Step("Jal", 252, rd, 64, 0, 0) : rd \in 0 .. 1}
  \cup {Step("Jalr", 12, 1, 7, 43981, 0)}

AllSteps == EveryStep \cup MixedSteps

\* The instructions without a jump offset, whose fields need more limbs.
WideSteps ==
  RegisterSteps(RegisterOps, {252}, Boundary)
  \cup ImmediateSteps(Shifts, {0}, 0 .. XLEN - 1, Boundary)
  \cup ImmediateSteps(ShortOps, {12}, ShortImms, Boundary)

=============================================================================
