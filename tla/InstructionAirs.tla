--------------------------- MODULE InstructionAirs ---------------------------
(***************************************************************************)
(* The 23 instruction AIRs of crates/air/src/instructions: what `eval`     *)
(* asserts of a row, and the tuples `get_lookups` sends to the byte, logic *)
(* and shift tables, each as often as the row's is_dummy says.             *)
(***************************************************************************)
EXTENDS InstructionRows, Sequences, SequencesExt

\* Sums over 0 .. n - 1.
Total(f, n)        == Digits(f, 1, n)[0]
BitsValue(bits, n) == Digits(bits, 2, n)[0]
AllBits(bits)      == \A i \in DOMAIN bits : Boolean(bits[i])

(***************************************************************************)
(* Constraints shared by several AIRs.                                     *)
(***************************************************************************)
PcPlusFour(r) ==
  /\ Boolean(r.is_dummy)
  /\ U32PlusFour(r.pc, r.next_pc, r.next_pc_carries)

LinksPcPlusFour(r) ==
  /\ Boolean(r.is_dummy)
  /\ U32PlusFour(r.pc, r.rd_new_value, r.rd_val_carries)

\* imm_se_bytes is imm, extended from its top bit.
SignExtendsImm(r) ==
  LET high == BitsValue(r.imm_high_bits, HighBits)
      sign == r.imm_high_bits[HighBits - 1]
  IN  /\ AllBits(r.imm_high_bits)
      /\ r.imm = r.imm_se_bytes[0] + high * Base
      /\ r.imm_se_bytes[1] = high + sign * (Base - 2 ^ HighBits)
      /\ \A i \in 2 .. Top : r.imm_se_bytes[i] = sign * (Base - 1)

\* The borrow chain of rs1_value - y.
Compares(r, y) ==
  /\ U32Sub(r.rs1_value, y, r.diff_bytes, r.borrow)
  /\ Boolean(r.lt_result)

SplitsSign(top, sign, low) == Boolean(sign) /\ top = sign * 2 ^ (LimbBits - 1) + low

XorOf(a, b) == a + b - 2 * a * b

\* byte_shamt is the position of the only 1 in is_bs.
SelectsByteShift(r) ==
  /\ AllBits(r.is_bs)
  /\ Total(r.is_bs, NumLimbs) = 1
  /\ r.byte_shamt = Total([i \in Limb |-> i * r.is_bs[i]], NumLimbs)

ShamtFromRs2(r) ==
  r.rs2_value[0] = r.bit_shamt + LimbBits * r.byte_shamt + XLEN * r.rs2_shamt_high

ShamtFromImm(r) == r.imm = r.bit_shamt + LimbBits * r.byte_shamt

\* Limb i of the result is limb i - k shifted with the carry from below it,
\* where k is the selected byte shift, and 0 below that.
ShiftsLeft(r) ==
  LET inter == [i \in Limb |-> r.shifted_bytes[i] + CarryIn(r.carry_bytes, i, 0)]
  IN  /\ SelectsByteShift(r)
      /\ \A i \in Limb :
           r.rd_new_value[i] = Total([k \in 0 .. i |-> r.is_bs[k] * inter[i - k]], i + 1)

\* To the right the carries come from above: into_top enters the top limb, and
\* fill the limbs above the shifted ones.
ShiftsRight(r, into_top, fill) ==
  LET inter == [i \in Limb |->
                  r.shifted_bytes[i] + (IF i = Top THEN into_top ELSE r.carry_bytes[i + 1])]
  IN  /\ SelectsByteShift(r)
      /\ \A i \in Limb :
           r.rd_new_value[i] =
             Total([k \in Limb |-> r.is_bs[k] * (IF i + k > Top THEN fill ELSE inter[i + k])],
                   NumLimbs)

FillsWithSign(r) ==
  /\ SplitsSign(r.rs1_value[Top], r.sign_bit, r.rs1_byte3_low7)
  /\ r.fill_byte = r.sign_bit * (Base - 1)
  /\ ShiftsRight(r, r.sign_bit * r.srl_ff_carry, r.fill_byte)

\* value is the raw upper immediate moved up; its low limb is 0.
MovesUp(r, value) ==
  /\ value[0] = 0
  /\ (r.imm_low8 + r.imm_high12 * Base) * 2 ^ HighBits = Digits(value, Base, NumLimbs)[1]

\* The jump offset whose fields have these bits.
JumpOffset(high12_bits, lo8_bits) ==
  2 * BitsValue(high12_bits, UpperShift - 2)
    + high12_bits[UpperShift - 2] * 2 ^ (UpperShift - 1)
    + BitsValue(lo8_bits, JumpBits) * 2 ^ UpperShift
    + high12_bits[UpperShift - 1] * (Size - 2 ^ JumpSign)

IsZeroTest(r) ==
  /\ Boolean(r.rd_is_zero)
  /\ r.rd * r.rd_is_zero = 0
  /\ r.rd_times_inv + r.rd_is_zero = 1

(***************************************************************************)
(* One `eval` per AIR.                                                     *)
(***************************************************************************)
AddAir(r) == PcPlusFour(r) /\ U32Add(r.rs1_value, r.rs2_value, r.rd_new_value, r.add_carries)
SubAir(r) == PcPlusFour(r) /\ U32Sub(r.rs1_value, r.rs2_value, r.rd_new_value, r.sub_borrows)
XorAir(r) == PcPlusFour(r)
OrAir(r)  == PcPlusFour(r)
AndAir(r) == PcPlusFour(r)

AddIAir(r) ==
  /\ PcPlusFour(r)
  /\ SignExtendsImm(r)
  /\ U32Add(r.rs1_value, r.imm_se_bytes, r.rd_new_value, r.add_carries)

XorIAir(r)  == PcPlusFour(r) /\ SignExtendsImm(r)
OriIAir(r)  == PcPlusFour(r) /\ SignExtendsImm(r)
AndiIAir(r) == PcPlusFour(r) /\ SignExtendsImm(r)

SltuAir(r) ==
  /\ PcPlusFour(r)
  /\ Compares(r, r.rs2_value)
  /\ r.lt_result = r.borrow[Top]

SltiuIAir(r) ==
  /\ PcPlusFour(r)
  /\ SignExtendsImm(r)
  /\ Compares(r, r.imm_se_bytes)
  /\ r.lt_result = r.borrow[Top]

SltAir(r) ==
  /\ PcPlusFour(r)
  /\ Compares(r, r.rs2_value)
  /\ SplitsSign(r.rs1_value[Top], r.sign_rs1, r.rs1_byte3_low7)
  /\ SplitsSign(r.rs2_value[Top], r.sign_rs2, r.rs2_byte3_low7)
  /\ r.lt_result = XorOf(r.borrow[Top], XorOf(r.sign_rs1, r.sign_rs2))

SltiIAir(r) ==
  /\ PcPlusFour(r)
  /\ SignExtendsImm(r)
  /\ Compares(r, r.imm_se_bytes)
  /\ SplitsSign(r.rs1_value[Top], r.sign_rs1, r.rs1_byte3_low7)
  /\ r.lt_result =
       XorOf(r.borrow[Top], XorOf(r.sign_rs1, r.imm_high_bits[HighBits - 1]))

SllAir(r) == PcPlusFour(r) /\ ShamtFromRs2(r) /\ ShiftsLeft(r)
SrlAir(r) == PcPlusFour(r) /\ ShamtFromRs2(r) /\ ShiftsRight(r, 0, 0)
SraAir(r) == PcPlusFour(r) /\ ShamtFromRs2(r) /\ FillsWithSign(r)

SlliIAir(r) == PcPlusFour(r) /\ ShamtFromImm(r) /\ ShiftsLeft(r)
SrliIAir(r) == PcPlusFour(r) /\ ShamtFromImm(r) /\ ShiftsRight(r, 0, 0)
SraiIAir(r) == PcPlusFour(r) /\ ShamtFromImm(r) /\ FillsWithSign(r)

LuiAir(r)   == PcPlusFour(r) /\ MovesUp(r, r.rd_new_value)
AuipcAir(r) ==
  /\ PcPlusFour(r)
  /\ MovesUp(r, r.imm_u)
  /\ U32Add(r.pc, r.imm_u, r.rd_new_value, r.add_carries)

JalAir(r) ==
  /\ LinksPcPlusFour(r)
  /\ AllBits(r.imm_high12_bits) /\ r.imm_high12 = BitsValue(r.imm_high12_bits, UpperShift)
  /\ AllBits(r.imm_lo8_bits)    /\ r.imm_lo8 = BitsValue(r.imm_lo8_bits, JumpBits)
  /\ r.imm_j = LimbsOf(JumpOffset(r.imm_high12_bits, r.imm_lo8_bits))
  /\ U32Add(r.pc, r.imm_j, r.next_pc, r.jmp_carries)
  /\ IsZeroTest(r)

JalrAir(r) ==
  /\ LinksPcPlusFour(r)
  /\ SignExtendsImm(r)
  /\ U32Add(r.rs1_value, r.imm_se_bytes, r.sum, r.sum_carries)
  /\ Boolean(r.sum_lsb)
  /\ r.sum[0] = r.next_pc[0] + r.sum_lsb
  /\ \A i \in Limb \ {0} : r.next_pc[i] = r.sum[i]

Accepts(op, r) ==
  CASE op = "Add"    -> AddAir(r)    [] op = "Sub"   -> SubAir(r)
    [] op = "Xor"    -> XorAir(r)    [] op = "Or"    -> OrAir(r)
    [] op = "And"    -> AndAir(r)    [] op = "AddI"  -> AddIAir(r)
    [] op = "XorI"   -> XorIAir(r)   [] op = "OriI"  -> OriIAir(r)
    [] op = "AndiI"  -> AndiIAir(r)  [] op = "Slt"   -> SltAir(r)
    [] op = "Sltu"   -> SltuAir(r)   [] op = "SltiI" -> SltiIAir(r)
    [] op = "SltiuI" -> SltiuIAir(r) [] op = "Sll"   -> SllAir(r)
    [] op = "Srl"    -> SrlAir(r)    [] op = "Sra"   -> SraAir(r)
    [] op = "SlliI"  -> SlliIAir(r)  [] op = "SrliI" -> SrliIAir(r)
    [] op = "SraiI"  -> SraiIAir(r)  [] op = "Lui"   -> LuiAir(r)
    [] op = "Auipc"  -> AuipcAir(r)  [] op = "Jal"   -> JalAir(r)
    [] op = "Jalr"   -> JalrAir(r)

(***************************************************************************)
(* One `get_lookups` per AIR: the tuples for the lookup tables, in order.  *)
(***************************************************************************)
LimbwiseSeq(f(_)) == [i \in 1 .. NumLimbs |-> f(i - 1)]

Bytes(limbs) == LimbwiseSeq(LAMBDA i : <<"bytes", limbs[i]>>)
Byte(b)      == <<<<"bytes", b>>>>

\* bus is "bytes_xor", "bytes_or" or "bytes_and".
BytesLogic(bus, r, y) ==
  LimbwiseSeq(LAMBDA i : <<bus, r.rs1_value[i], y[i], r.rd_new_value[i]>>)

\* bus is "byte_sll" or "byte_srl".
BytesShift(bus, r) ==
  LimbwiseSeq(LAMBDA i : <<bus, r.rs1_value[i], r.bit_shamt,
                           r.shifted_bytes[i], r.carry_bytes[i]>>)

\* The mask of an arithmetic shift is a shift of the all-ones limb.
OnesShift(r) == <<<<"byte_srl", Base - 1, r.bit_shamt, r.srl_ff_shifted, r.srl_ff_carry>>>>

AddLookups(r)  == Bytes(r.rs1_value) \o Bytes(r.rs2_value) \o Bytes(r.rd_new_value)
SubLookups(r)  == Bytes(r.rs1_value) \o Bytes(r.rs2_value) \o Bytes(r.rd_new_value)
AddILookups(r) == Bytes(r.rs1_value) \o Bytes(r.rd_new_value)

XorLookups(r) ==
  BytesLogic("bytes_xor", r, r.rs2_value) \o Bytes(r.rs1_value) \o Bytes(r.rs2_value)
OrLookups(r)    == BytesLogic("bytes_or", r, r.rs2_value)
AndLookups(r)   == BytesLogic("bytes_and", r, r.rs2_value)
XorILookups(r)  == BytesLogic("bytes_xor", r, r.imm_se_bytes)
OriILookups(r)  == BytesLogic("bytes_or", r, r.imm_se_bytes)
AndiILookups(r) == BytesLogic("bytes_and", r, r.imm_se_bytes)

\* Mutant: the difference is not range-checked.
SltuLookupsNoDiff(r) == Bytes(r.rs1_value) \o Bytes(r.rs2_value)

SltuLookups(r) == Bytes(r.rs1_value) \o Bytes(r.rs2_value) \o Bytes(r.diff_bytes)
SltLookups(r)  == Bytes(r.rs1_value) \o Bytes(r.rs2_value) \o Bytes(r.diff_bytes)
                    \o Byte(r.rs1_byte3_low7) \o Byte(r.rs2_byte3_low7)
SltiuILookups(r) == Bytes(r.rs1_value) \o Bytes(r.diff_bytes)
SltiILookups(r)  == Bytes(r.rs1_value) \o Bytes(r.diff_bytes) \o Byte(r.rs1_byte3_low7)

SllLookups(r) == BytesShift("byte_sll", r) \o Bytes(r.rs2_value)
                   \o Byte(r.rs2_shamt_high) \o Bytes(r.rd_new_value)
SrlLookups(r) == BytesShift("byte_srl", r) \o Bytes(r.rs2_value)
                   \o Byte(r.rs2_shamt_high) \o Bytes(r.rd_new_value)
SraLookups(r) == BytesShift("byte_srl", r) \o OnesShift(r) \o Bytes(r.rs2_value)
                   \o Byte(r.rs2_shamt_high) \o Bytes(r.rd_new_value)
                   \o Byte(r.rs1_byte3_low7)

SlliILookups(r) == BytesShift("byte_sll", r) \o Bytes(r.rd_new_value)
SrliILookups(r) == BytesShift("byte_srl", r) \o Bytes(r.rd_new_value)
\* Mutant: the shift of the all-ones limb is not looked up.
SraiILookupsNoOnes(r) == BytesShift("byte_srl", r) \o Bytes(r.rd_new_value)
                           \o Byte(r.rs1_byte3_low7)

SraiILookups(r) == BytesShift("byte_srl", r) \o OnesShift(r) \o Bytes(r.rd_new_value)
                     \o Byte(r.rs1_byte3_low7)

LuiLookups(r)   == Bytes(r.rd_new_value)
AuipcLookups(r) == Bytes(r.pc) \o SubSeq(Bytes(r.imm_u), 2, NumLimbs)
                     \o Bytes(r.rd_new_value)

JalLookups(r)  == Bytes(r.pc) \o Bytes(r.rd_new_value)
JalrLookups(r) == Bytes(r.rs1_value) \o Bytes(r.rd_new_value)

Lookups(op, r) ==
  CASE op = "Add"    -> AddLookups(r)    [] op = "Sub"   -> SubLookups(r)
    [] op = "Xor"    -> XorLookups(r)    [] op = "Or"    -> OrLookups(r)
    [] op = "And"    -> AndLookups(r)    [] op = "AddI"  -> AddILookups(r)
    [] op = "XorI"   -> XorILookups(r)   [] op = "OriI"  -> OriILookups(r)
    [] op = "AndiI"  -> AndiILookups(r)  [] op = "Slt"   -> SltLookups(r)
    [] op = "Sltu"   -> SltuLookups(r)   [] op = "SltiI" -> SltiILookups(r)
    [] op = "SltiuI" -> SltiuILookups(r) [] op = "Sll"   -> SllLookups(r)
    [] op = "Srl"    -> SrlLookups(r)    [] op = "Sra"   -> SraLookups(r)
    [] op = "SlliI"  -> SlliILookups(r)  [] op = "SrliI" -> SrliILookups(r)
    [] op = "SraiI"  -> SraiILookups(r)  [] op = "Lui"   -> LuiLookups(r)
    [] op = "Auipc"  -> AuipcLookups(r)  [] op = "Jal"   -> JalLookups(r)
    [] op = "Jalr"   -> JalrLookups(r)

\* A row with is_dummy 0 sends each tuple 0 times.
Sends(op, r) == IF r.is_dummy = 0 THEN <<>> ELSE Lookups(op, r)

=============================================================================
