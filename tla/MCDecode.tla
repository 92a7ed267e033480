------------------------------ MODULE MCDecode ------------------------------
(***************************************************************************)
(* Instances of DecodeTables for TLC.                                      *)
(***************************************************************************)
EXTENDS DecodeTables

\* Bit b of the word with the fields of an R-type instruction; the other
\* formats lay their fields over the same bits.
Assembled(opcode, rd, f3, rs1, rs2, f7) ==
  LET bit(v, k) == (v \div 2 ^ k) % 2
  IN  [b \in 0 .. 31 |->
         CASE b < 7  -> bit(opcode, b)
           [] b \in 7 .. 11  -> bit(rd, b - 7)
           [] b \in 12 .. 14 -> bit(f3, b - 12)
           [] b \in 15 .. 19 -> bit(rs1, b - 15)
           [] b \in 20 .. 24 -> bit(rs2, b - 20)
           [] OTHER          -> bit(f7, b - 25)]

\* The opcodes of the instructions, and some the VM has no case for (loads,
\* branches, and one bit away from Jal).
Opcodes == {\b0010011, \b0110011, \b0110111, \b0010111, \b1101111, \b1100111,
            \b0000011, \b1100011, \b1101110}

EveryFetch ==
  {<<8, Assembled(opcode, rd, f3, rs1, rs2, f7)>> :
     opcode \in Opcodes, rd \in {0, 19}, f3 \in 0 .. 7, rs1 \in {0, 10, 31},
     rs2 \in {0, 1, 30}, f7 \in {0, 1, 16, 32, 64, 127}}

\* Words of every format, each at a place in the program, and a load.
FormatFetches ==
  {<<8 * s, Assembled(opcode, 3, f3, 5, 9, 32 * s)>> :
     opcode \in {\b0010011, \b0110011}, f3 \in {0, 5}, s \in 0 .. 1}
  \cup {<<4 * rd, Assembled(opcode, rd, 0, 17, 9, 65)>> :
          opcode \in {\b0110111, \b0010111, \b1101111, \b1100111}, rd \in 0 .. 1}
  \cup {<<8, Assembled(\b0000011, 1, 2, 0, 0, 0)>>}

AllFetches == EveryFetch \cup FormatFetches

=============================================================================
