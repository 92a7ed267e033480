------------------------------- MODULE Decode -------------------------------
(***************************************************************************)
(* The instruction word, read three times: by the VM                       *)
(* (decode_instruction of crates/vm/src/lib.rs), by the builder of the     *)
(* decode table (crates/air/src/decode/trace.rs) and by the constraints    *)
(* over its bits (crates/air/src/decode/air.rs).  Each of the three has    *)
(* its own table of opcodes, funct3 and funct7, and its own slices.        *)
(*                                                                         *)
(* A word is its 32 bits, numbered from 0, since TLC's integers have no    *)
(* room for all of it; a slice is a number.                                *)
(***************************************************************************)
EXTENDS Numbers, Sequences, SequencesExt

\* InstructionId, in its order; the VM's names.
Ids == <<"AddI", "XorI", "OriI", "AndiI", "Add", "Sub", "Xor", "Or", "And", "Sll", "Srl", "Sra",
         "SlliI", "SrliI", "SraiI", "Slt", "Sltu", "SltiI", "SltiuI", "Lui", "Auipc", "Jal", "Jalr">>
Ops == {Ids[k] : k \in DOMAIN Ids}
InstructionId(op) == (CHOOSE k \in DOMAIN Ids : Ids[k] = op) - 1

ShiftImms == {"SlliI", "SrliI", "SraiI"}
ITypes    == {"AddI", "XorI", "OriI", "AndiI", "SltiI", "SltiuI", "Jalr"}
RTypes    == {"Add", "Sub", "Xor", "Or", "And", "Sll", "Srl", "Sra", "Slt", "Sltu"}
UTypes    == {"Lui", "Auipc"}

\* (w >> lo) & (2^n - 1), and the same with its top bit for a sign.
Bits(w, lo, n) == Digits([k \in 0 .. n - 1 |-> w[lo + k]], 2, n)[0]
SignedBits(w, lo, n) == Bits(w, lo, n) - w[lo + n - 1] * 2 ^ n

\* What a test of a word looks at: opcode, then funct3, then funct7.  A code
\* is a test's prefix: it names as many of the three as the code tests.
Tested(w) == <<Bits(w, 0, 7), Bits(w, 12, 3), Bits(w, 25, 7)>>
Meets(tested, code) == \A k \in DOMAIN code : tested[k] = code[k]

(***************************************************************************)
(* VM::decode_instruction.                                                 *)
(***************************************************************************)
VmCodes ==
  [AddI  |-> <<\b0010011, \b000>>, XorI  |-> <<\b0010011, \b100>>,
   OriI  |-> <<\b0010011, \b110>>, AndiI |-> <<\b0010011, \b111>>,
   SltiI |-> <<\b0010011, \b010>>, SltiuI |-> <<\b0010011, \b011>>,
   SlliI |-> <<\b0010011, \b001, \b0000000>>, SrliI |-> <<\b0010011, \b101, \b0000000>>,
   SraiI |-> <<\b0010011, \b101, \b0100000>>,
   Add   |-> <<\b0110011, \b000, \b0000000>>, Sub   |-> <<\b0110011, \b000, \b0100000>>,
   Xor   |-> <<\b0110011, \b100, \b0000000>>, Or    |-> <<\b0110011, \b110, \b0000000>>,
   And   |-> <<\b0110011, \b111, \b0000000>>, Sll   |-> <<\b0110011, \b001, \b0000000>>,
   Srl   |-> <<\b0110011, \b101, \b0000000>>, Sra   |-> <<\b0110011, \b101, \b0100000>>,
   Slt   |-> <<\b0110011, \b010, \b0000000>>, Sltu  |-> <<\b0110011, \b011, \b0000000>>,
   Lui   |-> <<\b0110111>>, Auipc |-> <<\b0010111>>, Jal |-> <<\b1101111>>,
   Jalr  |-> <<\b1100111, \b000>>]

Decodes(w) == \E op \in Ops : Meets(Tested(w), VmCodes[op])

JumpImm(w) ==
  (Bits(w, 21, 10) * 2 + w[20] * 2 ^ 11 + Bits(w, 12, 8) * 2 ^ 12 + w[31] * 2 ^ 20)
  - w[31] * 2 ^ 21

decode_instruction(w) ==
  LET op  == CHOOSE o \in Ops : Meets(Tested(w), VmCodes[o])
      rd  == Bits(w, 7, 5)
      rs1 == Bits(w, 15, 5)
  IN  CASE op \in ITypes    -> [op |-> op, rd |-> rd, rs1 |-> rs1, imm |-> SignedBits(w, 20, 12)]
        [] op \in ShiftImms -> [op |-> op, rd |-> rd, rs1 |-> rs1, imm |-> Bits(w, 20, 5)]
        [] op \in RTypes    -> [op |-> op, rd |-> rd, rs1 |-> rs1, rs2 |-> Bits(w, 20, 5)]
        [] op \in UTypes    -> [op |-> op, rd |-> rd, imm |-> Bits(w, 12, 20)]
        [] op = "Jal"       -> [op |-> op, rd |-> rd, imm |-> JumpImm(w)]

(***************************************************************************)
(* The row of the decode table for a word (fill_row).                      *)
(***************************************************************************)
RowCodes ==
  LET imm(f3)    == <<\b0010011, f3>>
      sh(f3, f7) == <<\b0010011, f3, f7>>
      reg(f3, f7) == <<\b0110011, f3, f7>>
  IN  [AddI |-> imm(\b000), XorI |-> imm(\b100), OriI |-> imm(\b110), AndiI |-> imm(\b111),
       Add |-> reg(\b000, \b0000000), Sub |-> reg(\b000, \b0100000),
       Xor |-> reg(\b100, \b0000000), Or |-> reg(\b110, \b0000000),
       And |-> reg(\b111, \b0000000), Sll |-> reg(\b001, \b0000000),
       Srl |-> reg(\b101, \b0000000), Sra |-> reg(\b101, \b0100000),
       SlliI |-> sh(\b001, \b0000000), SrliI |-> sh(\b101, \b0000000),
       SraiI |-> sh(\b101, \b0100000),
       Slt |-> reg(\b010, \b0000000), Sltu |-> reg(\b011, \b0000000),
       SltiI |-> imm(\b010), SltiuI |-> imm(\b011),
       Lui |-> <<\b0110111>>, Auipc |-> <<\b0010111>>, Jal |-> <<\b1101111>>,
       Jalr |-> <<\b1100111, \b000>>]

Flags(w) == [op \in Ops |-> IF Meets(Tested(w), RowCodes[op]) THEN 1 ELSE 0]

\* Mutant: the fragment is kept for the U-type only.
ImmLow8OfUTypes(w) ==
  IF \E op \in UTypes : Flags(w)[op] = 1 THEN Bits(w, 12, 8) ELSE 0

\* Bits 19:12, part of the immediate of Lui, Auipc and Jal.
ImmLow8(w) ==
  IF \E op \in UTypes \cup {"Jal"} : Flags(w)[op] = 1 THEN Bits(w, 12, 8) ELSE 0

\* The last case of the chain of fill_row, Addi, also stands for no flag.
Packed(w) ==
  IF \E op \in Ops : Flags(w)[op] = 1
  THEN InstructionId(CHOOSE op \in Ops : Flags(w)[op] = 1) ELSE InstructionId("AddI")

fill_row(pc, w) ==
  [pc             |-> pc,
   instruction    |-> [i \in 0 .. 3 |-> Bits(w, 8 * i, 8)],
   decompositions |-> [i \in 0 .. 3 |-> [j \in 0 .. 7 |-> w[8 * i + j]]],
   rd |-> Bits(w, 7, 5), rs1 |-> Bits(w, 15, 5), imm |-> Bits(w, 20, 12), rs2 |-> Bits(w, 20, 5),
   imm_low8 |-> ImmLow8(w), instr_type |-> Flags(w), instr_type_packed |-> Packed(w), mult |-> 1]

(***************************************************************************)
(* DecodeAir::eval.  The constraints see bit p of the word as bit p % 8 of *)
(* byte p \div 8; pack_bits weighs a list of them from the least one on.   *)
(***************************************************************************)
Span(lo, n) == [k \in 1 .. n |-> lo + k - 1]
pack_bits(row, ps) ==
  Bits([k \in DOMAIN ps |-> row.decompositions[ps[k] \div 8][ps[k] % 8]], 1, Len(ps))

AirOpcode(op) ==
  CASE op \in (ITypes \ {"Jalr"}) \cup ShiftImms -> \b0010011
    [] op \in RTypes -> \b0110011
    [] op = "Jal"    -> \b1101111
    [] op = "Jalr"   -> \b1100111
    [] op = "Lui"    -> \b0110111
    [] op = "Auipc"  -> \b0010111

AirFunct3 ==
  [AddI |-> \b000, XorI |-> \b100, OriI |-> \b110, AndiI |-> \b111,
   Add |-> \b000, Or |-> \b110, And |-> \b111, Sll |-> \b001, Srl |-> \b101,
   Sub |-> \b000, Xor |-> \b100, Sra |-> \b101,
   SlliI |-> \b001, SrliI |-> \b101, SraiI |-> \b101, Slt |-> \b010, Sltu |-> \b011,
   SltiI |-> \b010, SltiuI |-> \b011, Jalr |-> \b000]

\* Mutant: the upper bits of a shift immediate are left unconstrained.
AirFunct7OfRTypes ==
  [op \in RTypes |-> IF op \in {"Sub", "Sra"} THEN \b0100000 ELSE \b0000000]

AirFunct7 ==
  [op \in RTypes \cup ShiftImms |->
     IF op \in {"Sub", "Sra", "SraiI"} THEN \b0100000 ELSE \b0000000]

Is(row, op) == row.instr_type[op]
Weighted(row, weight) ==
  Digits([k \in 0 .. Len(Ids) - 1 |-> Is(row, Ids[k + 1]) * weight[Ids[k + 1]]], 1, Len(Ids))[0]
Count(row, ops) == Weighted(row, [op \in Ops |-> IF op \in ops THEN 1 ELSE 0])
Field(row, lo, n) == pack_bits(row, Span(lo, n))

OneInstruction(row) ==
  /\ \A op \in Ops : Is(row, op) \in {0, 1}
  /\ Count(row, Ops) = 1
  /\ \A i \in 0 .. 3 : /\ \A j \in 0 .. 7 : row.decompositions[i][j] \in {0, 1}
                       /\ row.instruction[i] = Field(row, 8 * i, 8)

CodesMatch(row) ==
  \A op \in Ops : Is(row, op) = 1 =>
    /\ Field(row, 0, 7) = AirOpcode(op)
    /\ op \in DOMAIN AirFunct3 => Field(row, 12, 3) = AirFunct3[op]
    /\ op \in DOMAIN AirFunct7 => Field(row, 25, 7) = AirFunct7[op]

FieldsMatch(row) ==
  LET uOrJal == Count(row, UTypes \cup {"Jal"})
  IN  /\ uOrJal * (row.imm_low8 - Field(row, 12, 8)) = 0
      /\ row.imm_low8 * (1 - uOrJal) = 0
      /\ row.rd = Field(row, 7, 5)
      /\ row.rs1 = Field(row, 15, 5)
      /\ row.imm = Field(row, 20, 12)
      /\ row.rs2 = Field(row, 20, 5)
      /\ row.instr_type_packed = Weighted(row, [op \in Ops |-> InstructionId(op)])

Accepts(row) == OneInstruction(row) /\ CodesMatch(row) /\ FieldsMatch(row)

(***************************************************************************)
(* DecodeAir::get_lookups: the decoded instruction on one of three buses.  *)
(***************************************************************************)
\* Mutant: the immediate of Jal as bits 31:20 of the word.
ImmJalRaw(row) == pack_bits(row, Span(20, 12))

ImmJalForm(row) == pack_bits(row, Span(21, 10) \o <<20, 31>>)

Receives(row) ==
  LET is(ops) == Count(row, ops)
      field4  == (is(ITypes) + is(UTypes)) * row.imm + is(RTypes \cup ShiftImms) * row.rs2
      offers  ==
        << <<row.mult * (1 - is(UTypes) - is({"Jal"})),
             <<"decode", row.pc, row.instr_type_packed, row.rd, row.rs1, field4>>>>,
           <<row.mult * is(UTypes),
             <<"decode_u", row.instr_type_packed, row.rd, row.imm, row.imm_low8>>>>,
           <<row.mult * is({"Jal"}),
             <<"decode_j", row.instr_type_packed, row.rd, ImmJalForm(row), row.imm_low8>>>> >>
  IN  FlattenSeq([k \in DOMAIN offers |-> IF offers[k][1] # 0 THEN <<offers[k][2]>> ELSE <<>>])

=============================================================================
