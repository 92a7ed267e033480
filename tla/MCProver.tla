------------------------------ MODULE MCProver ------------------------------
(***************************************************************************)
(* Instances of Prover for TLC.                                            *)
(***************************************************************************)
EXTENDS Prover, Rv32iAlu

Imm(o, d, s, c)  == [op |-> o, rd |-> d, rs1 |-> s, imm |-> c]
Reg(o, d, s, t)  == [op |-> o, rd |-> d, rs1 |-> s, rs2 |-> t]
Up(o, d, c)      == [op |-> o, rd |-> d, imm |-> c]

\* The program with instruction s[k] at offset 4(k-1), straddling words that
\* do not decode, and tail bytes after the last instruction.
Assemble(s, tail) ==
  [len  |-> 4 * Len(s) + tail,
   word |-> [o \in 0 .. 4 * Len(s) + tail - 4 |->
               IF o % 4 = 0 THEN s[o \div 4 + 1] ELSE Unsupported]]

SeqsOf(S) == UNION {[1 .. n -> S] : n \in 0 .. 3}

\* One instruction of every shape, jumps with and without a link, forward and
\* back, and writes to x0.
Instructions ==
  {Imm("AddI", 1, 1, 12), Imm("AddI", 2, 1, 15), Reg("Add", 1, 1, 1), Reg("Sub", 2, 0, 1),
   Up("Lui", 1, 2), Up("Auipc", 2, 1), Imm("AddI", 0, 0, 7), Imm("AddI", 0, 1, 7),
   Up("Jal", 1, 8), Up("Jal", 0, 4), Up("Jal", 0, 8), Up("Jal", 2, 12),
   Imm("Jalr", 0, 1, 4), Imm("Jalr", 1, 1, 2), Imm("Jalr", 2, 0, 8), Imm("Jalr", 0, 0, 1)}

\* Programs that jump between two instructions, where a word decodes too.
Straddling ==
  {[Assemble(<<Up("Jal", 0, 6), i, i>>, 2) EXCEPT !.word[6] = i, !.word[10] = j] :
     i, j \in Instructions}

ProverPrograms == {Assemble(s, 0) : s \in SeqsOf(Instructions)} \cup Straddling

\* Jumps back and forth, one of them computed, and counters to leave a loop by.
LoopInstructions ==
  {Imm("AddI", 1, 1, 1), Imm("AddI", 1, 1, 4), Imm("AddI", 0, 0, 1), Reg("Add", 1, 1, 1), Up("Auipc", 1, 0),
   Up("Jal", 0, 12), Up("Jal", 1, 8), Up("Jal", 0, 14),
   Imm("Jalr", 0, 1, 0), Imm("Jalr", 1, 1, 4), Imm("Jalr", 0, 1, 14)}

LoopPrograms == {Assemble(s, 0) : s \in SeqsOf(LoopInstructions)}
                \cup {Assemble(s, 2) : s \in [1 .. 2 -> LoopInstructions]}

=============================================================================
