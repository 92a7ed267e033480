-------------------------------- MODULE MCVm --------------------------------
(***************************************************************************)
(* Instances of Vm for TLC: words of four bits, three registers, every     *)
(* program of up to three instructions drawn from a small set.             *)
(***************************************************************************)
EXTENDS VmIsa, Rv32iAlu

Imm(o, d, s, c)  == [op |-> o, rd |-> d, rs1 |-> s, imm |-> c]
Reg(o, d, s, t)  == [op |-> o, rd |-> d, rs1 |-> s, rs2 |-> t]
Up(o, d, c)      == [op |-> o, rd |-> d, imm |-> c]

\* The program with instruction s[k] at offset 4(k-1); words that straddle two
\* instructions do not decode, and tail bytes follow the last instruction.
Assemble(s, tail) ==
  [len  |-> 4 * Len(s) + tail,
   word |-> [o \in 0 .. 4 * Len(s) + tail - 4 |->
               IF o % 4 = 0 THEN s[o \div 4 + 1] ELSE Unsupported]]

SeqsOf(S) == UNION {[1 .. n -> S] : n \in 0 .. 3}

\* x0 is written by Jal and Jalr only.
CleanInstructions ==
  {Imm("AddI", 1, 0, 6), Imm("AddI", 2, 1, 15), Imm("XorI", 1, 1, 5),
   Reg("Add", 1, 1, 1), Reg("Sub", 2, 0, 1), Reg("Slt", 1, 2, 1),
   Up("Lui", 1, 2), Up("Auipc", 2, 1),
   Up("Jal", 1, 8), Up("Jal", 0, 12), Up("Jal", 2, 14),
   Imm("Jalr", 0, 1, 3), Imm("Jalr", 1, 1, 2), Imm("Jalr", 2, 0, 8)}

DirtyInstructions == {Imm("AddI", 0, 1, 7), Imm("AddI", 0, 0, 0), Reg("Add", 0, 1, 2)}

CleanPrograms == {Assemble(s, 0) : s \in SeqsOf(CleanInstructions)}
                 \cup {Assemble(<<Up("Jal", 0, 4), i>>, 2) : i \in CleanInstructions}

\* Any instruction may write x0.
AllPrograms == {Assemble(s, 0) : s \in SeqsOf(CleanInstructions \cup DirtyInstructions)}

=============================================================================
