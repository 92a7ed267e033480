--------------------------- MODULE InstructionRows ---------------------------
(***************************************************************************)
(* The rows the trace builders of crates/air/src/instructions fill, one    *)
(* builder per instruction, and their padding rows.                        *)
(*                                                                         *)
(* A row holds the columns of its AIR that carry words, bytes and bits.    *)
(* Timestamps, register indices and the old value of rd only go to the     *)
(* memory, decode and trace buses, which Prover models.  Columns that the  *)
(* code names rs1_bytes, rd_bytes or rd_val in some AIRs are called        *)
(* rs1_value and rd_new_value in all of them.                              *)
(*                                                                         *)
(* A step is [op, pc, rd, imm, rs1_value, rs2_value, rd_val, is_dummy],    *)
(* where rd_val is the value the VM logged and the fields the instruction  *)
(* does not have are 0; is_dummy is 1 for a real step, as in the code.     *)
(***************************************************************************)
EXTENDS Limbs, Rv32iAlu

\* A word is two limbs or more of more than one bit, a limb holds whole shift
\* amounts, and an immediate of UpperShift bits (12 in the code) reaches into
\* the second limb.
ASSUME RowsAssumption ==
  /\ XLEN = LimbBits * NumLimbs /\ LimbBits > 1 /\ NumLimbs > 1 /\ Base % XLEN = 0
  /\ UpperShift \in LimbBits + 1 .. 2 * LimbBits

HighBits == UpperShift - LimbBits

(***************************************************************************)
(* The columns several builders fill alike.                                *)
(***************************************************************************)
PcColumns(s) ==
  [pc |-> LimbsOf(s.pc), next_pc |-> LimbsOf(s.pc + 4),
   next_pc_carries |-> PlusFourCarries(s.pc), is_dummy |-> s.is_dummy]

ValueColumns(s) ==
  [rs1_value |-> LimbsOf(s.rs1_value), rs2_value |-> LimbsOf(s.rs2_value),
   rd_new_value |-> LimbsOf(s.rd_val)]

RegisterColumns(s) == PcColumns(s) ++ ValueColumns(s)

\* A jump writes pc + 4 to rd and goes to target.
JumpColumns(s, target) ==
  ValueColumns(s) ++
  [pc |-> LimbsOf(s.pc), next_pc |-> LimbsOf(target),
   rd_val_carries |-> PlusFourCarries(s.pc), is_dummy |-> s.is_dummy]

ImmColumns(s) ==
  LET imm_u12 == s.imm % 2 ^ UpperShift
  IN  [imm |-> imm_u12,
       imm_high_bits |-> [i \in 0 .. HighBits - 1 |-> Bit(imm_u12, LimbBits + i)],
       imm_se_bytes |-> LimbsOf(s.imm)]

\* The difference x - y with its borrows, and whether x is less than y.
CompareColumns(x, y, less) ==
  [diff_bytes |-> SubDiff(x, y), borrow |-> SubBorrows(x, y),
   lt_result |-> Truth(less)]

\* The low bits of the top limb, all but the sign.
TopLow(w) == LimbsOf(w)[Top] % 2 ^ (LimbBits - 1)
SignOf(w) == Bit(w, XLEN - 1)

\* One limb shifted by k bits within the limb, and the bits that leave it.
ShiftLeft(limb, k)  == [shifted |-> (limb * 2 ^ k) % Base,
                        carry   |-> limb \div 2 ^ (LimbBits - k)]
ShiftRight(limb, k) == [shifted |-> limb \div 2 ^ k,
                        carry   |-> (limb * 2 ^ (LimbBits - k)) % Base]

ShiftColumns(s, shamt, part(_, _)) ==
  LET bit_shamt == shamt % LimbBits
      parts     == [i \in Limb |-> part(LimbsOf(s.rs1_value)[i], bit_shamt)]
  IN  RegisterColumns(s) ++
      [bit_shamt     |-> bit_shamt,
       byte_shamt    |-> shamt \div LimbBits,
       is_bs         |-> [i \in Limb |-> Truth(i = shamt \div LimbBits)],
       shifted_bytes |-> [i \in Limb |-> parts[i].shifted],
       carry_bytes   |-> [i \in Limb |-> parts[i].carry]]

\* Mutant: the whole word above the amount.
ShamtHighWord(s) == [rs2_shamt_high |-> s.rs2_value \div XLEN]

\* The register forms also keep the bits of rs2's low limb above the amount.
ShamtHigh(s) == [rs2_shamt_high |-> LimbsOf(s.rs2_value)[0] \div XLEN]

\* The fill limb of an arithmetic shift, and the all-ones limb shifted, whose
\* carry is the mask that extends the sign.  Padding rows leave 0 in it.
SignFillColumns(s, shamt) ==
  LET ones == ShiftRight(Base - 1, shamt % LimbBits)
  IN  [sign_bit       |-> SignOf(s.rs1_value),
       fill_byte      |-> SignOf(s.rs1_value) * (Base - 1),
       rs1_byte3_low7 |-> TopLow(s.rs1_value),
       srl_ff_shifted |-> s.is_dummy * ones.shifted,
       srl_ff_carry   |-> s.is_dummy * ones.carry]

(***************************************************************************)
(* One row builder per instruction.                                        *)
(***************************************************************************)
AddRow(s) == RegisterColumns(s) ++ [add_carries |-> AddCarries(s.rs1_value, s.rs2_value)]
SubRow(s) == RegisterColumns(s) ++ [sub_borrows |-> SubBorrows(s.rs1_value, s.rs2_value)]
XorRow(s) == RegisterColumns(s)
OrRow(s)  == RegisterColumns(s)
AndRow(s) == RegisterColumns(s)

AddIRow(s) == RegisterColumns(s) ++ ImmColumns(s) ++
              [add_carries |-> AddCarries(s.rs1_value, s.imm)]
XorIRow(s)  == RegisterColumns(s) ++ ImmColumns(s)
OriIRow(s)  == RegisterColumns(s) ++ ImmColumns(s)
AndiIRow(s) == RegisterColumns(s) ++ ImmColumns(s)

SltuRow(s) ==
  RegisterColumns(s) ++
  CompareColumns(s.rs1_value, s.rs2_value, s.rs1_value < s.rs2_value)

SltRow(s) ==
  RegisterColumns(s) ++
  CompareColumns(s.rs1_value, s.rs2_value, Signed(s.rs1_value) < Signed(s.rs2_value)) ++
  [sign_rs1 |-> SignOf(s.rs1_value), rs1_byte3_low7 |-> TopLow(s.rs1_value),
   sign_rs2 |-> SignOf(s.rs2_value), rs2_byte3_low7 |-> TopLow(s.rs2_value)]

SltiuIRow(s) ==
  RegisterColumns(s) ++ ImmColumns(s) ++
  CompareColumns(s.rs1_value, s.imm, s.rs1_value < s.imm)

\* Mutant: the comparison is unsigned.
SltiIRowUnsigned(s) ==
  RegisterColumns(s) ++ ImmColumns(s) ++
  CompareColumns(s.rs1_value, s.imm, s.rs1_value < s.imm) ++
  [sign_rs1 |-> SignOf(s.rs1_value), rs1_byte3_low7 |-> TopLow(s.rs1_value)]

SltiIRow(s) ==
  RegisterColumns(s) ++ ImmColumns(s) ++
  CompareColumns(s.rs1_value, s.imm, Signed(s.rs1_value) < Signed(s.imm)) ++
  [sign_rs1 |-> SignOf(s.rs1_value), rs1_byte3_low7 |-> TopLow(s.rs1_value)]

SllRow(s) == ShiftColumns(s, Shamt(s.rs2_value), ShiftLeft) ++ ShamtHigh(s)
SrlRow(s) == ShiftColumns(s, Shamt(s.rs2_value), ShiftRight) ++ ShamtHigh(s)
SraRow(s) == ShiftColumns(s, Shamt(s.rs2_value), ShiftRight) ++ ShamtHigh(s) ++
             SignFillColumns(s, Shamt(s.rs2_value))

\* The imm column of a shift is the amount alone.
SlliIRow(s) == ShiftColumns(s, Shamt(s.imm), ShiftLeft) ++ [imm |-> Shamt(s.imm)]
SrliIRow(s) == ShiftColumns(s, Shamt(s.imm), ShiftRight) ++ [imm |-> Shamt(s.imm)]
SraiIRow(s) == ShiftColumns(s, Shamt(s.imm), ShiftRight) ++ [imm |-> Shamt(s.imm)] ++
               SignFillColumns(s, Shamt(s.imm))

\* The two parts the decode bus carries of a raw upper immediate.
UpperColumns(s) == [imm_low8 |-> s.imm % Base, imm_high12 |-> s.imm \div Base]

LuiRow(s)   == RegisterColumns(s) ++ UpperColumns(s)
AuipcRow(s) ==
  RegisterColumns(s) ++ UpperColumns(s) ++
  [imm_u |-> LimbsOf(Upper(s.imm)), add_carries |-> AddCarries(s.pc, Upper(s.imm))]

\* The fields of a jump offset: bits 1 .. UpperShift - 2, bit UpperShift - 1
\* and the sign make imm_high12, the bits between them imm_lo8.
JumpBits == XLEN - 2 * UpperShift
JumpSign == UpperShift + JumpBits

JumpFields(imm) ==
  [high12 |-> ((imm \div 2) % 2 ^ (UpperShift - 2))
              + Bit(imm, UpperShift - 1) * 2 ^ (UpperShift - 2)
              + Bit(imm, JumpSign) * 2 ^ (UpperShift - 1),
   lo8    |-> (imm \div 2 ^ UpperShift) % 2 ^ JumpBits]

\* rd_times_inv is rd * rd_inv: 1 for the inverse of a nonzero rd.
JalRow(s) ==
  LET fields == JumpFields(s.imm)
  IN  JumpColumns(s, (s.pc + s.imm) % Size) ++
      [imm_high12      |-> fields.high12,
       imm_lo8         |-> fields.lo8,
       imm_high12_bits |-> [i \in 0 .. UpperShift - 1 |-> Bit(fields.high12, i)],
       imm_lo8_bits    |-> [i \in 0 .. JumpBits - 1 |-> Bit(fields.lo8, i)],
       imm_j           |-> LimbsOf(s.imm),
       jmp_carries     |-> AddCarries(s.pc, s.imm),
       rd              |-> s.rd,
       rd_is_zero      |-> Truth(s.rd = 0),
       rd_times_inv    |-> Truth(s.rd # 0)]

JalrRow(s) ==
  LET sum == (s.rs1_value + s.imm) % Size
  IN  JumpColumns(s, sum - (sum % 2)) ++ ImmColumns(s) ++
      [sum         |-> LimbsOf(sum),
       sum_carries |-> AddCarries(s.rs1_value, s.imm),
       sum_lsb     |-> sum % 2]

Row(s) ==
  CASE s.op = "Add"    -> AddRow(s)    [] s.op = "Sub"   -> SubRow(s)
    [] s.op = "Xor"    -> XorRow(s)    [] s.op = "Or"    -> OrRow(s)
    [] s.op = "And"    -> AndRow(s)    [] s.op = "AddI"  -> AddIRow(s)
    [] s.op = "XorI"   -> XorIRow(s)   [] s.op = "OriI"  -> OriIRow(s)
    [] s.op = "AndiI"  -> AndiIRow(s)  [] s.op = "Slt"   -> SltRow(s)
    [] s.op = "Sltu"   -> SltuRow(s)   [] s.op = "SltiI" -> SltiIRow(s)
    [] s.op = "SltiuI" -> SltiuIRow(s) [] s.op = "Sll"   -> SllRow(s)
    [] s.op = "Srl"    -> SrlRow(s)    [] s.op = "Sra"   -> SraRow(s)
    [] s.op = "SlliI"  -> SlliIRow(s)  [] s.op = "SrliI" -> SrliIRow(s)
    [] s.op = "SraiI"  -> SraiIRow(s)  [] s.op = "Lui"   -> LuiRow(s)
    [] s.op = "Auipc"  -> AuipcRow(s)  [] s.op = "Jal"   -> JalRow(s)
    [] s.op = "Jalr"   -> JalrRow(s)

\* A padding row is the row of no step: a step of zeros at pc 0, whose link
\* is 4, and is_dummy is 0.
PaddingRow(op) ==
  Row([op |-> op, pc |-> 0, rd |-> 0, imm |-> 0, rs1_value |-> 0, rs2_value |-> 0,
       rd_val |-> IF op \in {"Jal", "Jalr"} THEN 4 ELSE 0, is_dummy |-> 0])

=============================================================================
