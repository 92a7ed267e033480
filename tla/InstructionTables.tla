-------------------------- MODULE InstructionTables --------------------------
(***************************************************************************)
(* generate_traces of crates/prover/src/lib.rs, the part between the steps *)
(* of a run and the tables of the instruction AIRs and their lookup        *)
(* tables: rows are filled for the steps of each instruction, and the      *)
(* multiplicities of the byte, logic and shift tables are counted from the *)
(* steps, not from the rows.                                               *)
(*                                                                         *)
(* A run is any sequence of instructions of Inputs, each with operands and *)
(* a pc of its own; the VM contributes the result it logs.  The bytes the  *)
(* program-hash AIR also sends to the byte table, and their counts, are    *)
(* left out on both sides.                                                 *)
(***************************************************************************)
EXTENDS InstructionAirs

CONSTANTS
  Inputs,      \* the steps of runs, without the value the VM logs
  MixedInputs, \* bound: those that runs of several steps are made of
  MaxSteps     \* bound: the steps of a run

Ops == {"Add", "Sub", "Xor", "Or", "And", "Sll", "Srl", "Sra", "Slt", "Sltu",
        "AddI", "XorI", "OriI", "AndiI", "SlliI", "SrliI", "SraiI", "SltiI", "SltiuI",
        "Lui", "Auipc", "Jal", "Jalr"}
RegisterOps == {"Add", "Sub", "Xor", "Or", "And", "Sll", "Srl", "Sra", "Slt", "Sltu"}

\* The words that extend a signed number of n + 1 bits.
Extended(n) == (0 .. 2 ^ n - 1) \cup (Size - 2 ^ n .. Size - 1)

\* The immediates decode_instruction makes: a shift amount, the raw upper
\* immediate, an even jump offset, or a signed number of UpperShift bits.
Immediates(op) ==
  CASE op \in RegisterOps                 -> 0 .. Size - 1
    [] op \in {"SlliI", "SrliI", "SraiI"} -> 0 .. XLEN - 1
    [] op \in {"Lui", "Auipc"}            -> 0 .. 2 ^ (XLEN - UpperShift) - 1
    [] op = "Jal"                         -> {v \in Extended(JumpSign) : v % 2 = 0}
    [] OTHER                              -> Extended(UpperShift - 1)

\* The word of an instruction ends before the address space does, and a jump
\* has room for its fields.
ASSUME InputsAssumption ==
  /\ MaxSteps \in Nat /\ MixedInputs \subseteq Inputs
  /\ Inputs \subseteq [op : Ops, pc : 0 .. Size - 5, rd : Nat, imm : 0 .. Size - 1,
                       rs1_value : 0 .. Size - 1, rs2_value : 0 .. Size - 1]
  /\ \A x \in Inputs : x.imm \in Immediates(x.op) /\ (x.op = "Jal" => JumpBits \in Nat)

VARIABLES
  trace,    \* the steps of the VM
  tables,   \* the rows of the AIR of each instruction
  received  \* what the lookup tables receive: how often each of their tuples

tvars == <<trace, tables, received>>

(***************************************************************************)
(* The VM's part of a step: the value logged for rd, and the next pc.      *)
(***************************************************************************)
Logged(x) ==
  CASE x.op = "Jal"             -> (x.pc + 4) % Size
    [] x.op = "Jalr"            -> IF x.rd = 0 THEN 0 ELSE (x.pc + 4) % Size
    [] x.op \in {"Lui", "Auipc"} -> RvAlu(x.op, x.pc, x.imm)
    [] x.op \in RegisterOps     -> RvAlu(x.op, x.rs1_value, x.rs2_value)
    [] OTHER                    -> RvAlu(x.op, x.rs1_value, x.imm)

NextPc(x) ==
  CASE x.op = "Jal"  -> (x.pc + x.imm) % Size
    [] x.op = "Jalr" -> LET sum == (x.rs1_value + x.imm) % Size IN sum - (sum % 2)
    [] OTHER         -> x.pc + 4

StepsFrom(inputs) == {[rd_val |-> Logged(x), is_dummy |-> 1] ++ x : x \in inputs}

Execute ==
  /\ tables = <<>>
  /\ Len(trace) < MaxSteps
  /\ ToSet(trace) \subseteq StepsFrom(MixedInputs)
  /\ \E s \in StepsFrom(IF trace = <<>> THEN Inputs ELSE MixedInputs) : trace' = Append(trace, s)
  /\ UNCHANGED <<tables, received>>

(***************************************************************************)
(* The rows: one per step of the instruction, padded.                      *)
(***************************************************************************)
StepsOf(op) ==
  FlattenSeq([i \in DOMAIN trace |-> IF trace[i].op = op THEN <<trace[i]>> ELSE <<>>])

Table(op) ==
  LET steps == StepsOf(op)
  IN  [i \in 1 .. NumRows(Len(steps)) |->
         IF i <= Len(steps) THEN Row(steps[i]) ELSE PaddingRow(op)]

(***************************************************************************)
(* The multiplicities: byte_checked_vals are words, byte_checked_singles   *)
(* single bytes.                                                           *)
(***************************************************************************)
ByteCheckedVals(s) ==
  CASE s.op = "AddI"             -> <<s.rs1_value, s.rd_val>>
    [] s.op \in {"Add", "Sub"}   -> <<s.rs1_value, s.rs2_value, s.rd_val>>
    [] s.op = "Xor"              -> <<s.rs1_value, s.rs2_value>>
    [] s.op \in {"Sll", "Srl", "Sra"}       -> <<s.rs2_value, s.rd_val>>
    [] s.op \in {"SlliI", "SrliI", "SraiI"} -> <<s.rd_val>>
    [] s.op \in {"Slt", "Sltu"}  ->
         <<s.rs1_value, s.rs2_value, (s.rs1_value - s.rs2_value) % Size>>
    [] s.op \in {"SltiI", "SltiuI"} -> <<s.rs1_value, (s.rs1_value - s.imm) % Size>>
    [] s.op = "Lui"              -> <<s.rd_val>>
    [] s.op = "Auipc"            -> <<s.pc, s.rd_val>>
    [] s.op = "Jal"              -> <<s.pc, (s.pc + 4) % Size>>
    [] s.op = "Jalr"             -> <<s.rs1_value, s.rd_val>>
    [] OTHER                     -> <<>>

ByteCheckedSingles(s) ==
  LET rs2_shamt_high == (s.rs2_value % Base) \div XLEN
      low7(w) == (w \div 2 ^ (LimbBits * Top)) % 2 ^ (LimbBits - 1)
      imm_u == LimbsOf(Upper(s.imm))
  IN  CASE s.op \in {"Sll", "Srl"}   -> <<rs2_shamt_high>>
        [] s.op = "Sra"              -> <<rs2_shamt_high, low7(s.rs1_value)>>
        [] s.op \in {"SraiI", "SltiI"} -> <<low7(s.rs1_value)>>
        [] s.op = "Slt"              -> <<low7(s.rs1_value), low7(s.rs2_value)>>
        [] s.op = "Auipc"            -> [i \in 1 .. Top |-> imm_u[i]]
        [] OTHER                     -> <<>>

\* The rows of the tables, as the tuples they receive.  A multiplicity is
\* counted at the row's operands; the rest of the tuple is the table's.
ByteRow(b)        == <<"bytes", b>>
LogicRow(f(_, _), bus, x, y) == <<bus, x, y, Bitwise(f, x, y)>>
XorTableRow(x, y) == LogicRow(BitXor, "bytes_xor", x, y)
OrTableRow(x, y)  == LogicRow(BitOr, "bytes_or", x, y)
AndTableRow(x, y) == LogicRow(BitAnd, "bytes_and", x, y)
SllTableRow(b, k) ==
  <<"byte_sll", b, k, (b * 2 ^ k) % Base, IF k = 0 THEN 0 ELSE b \div 2 ^ (LimbBits - k)>>
SrlTableRow(b, k) ==
  <<"byte_srl", b, k, b \div 2 ^ k, IF k = 0 THEN 0 ELSE (b * 2 ^ (LimbBits - k)) % Base>>

\* Mutant: the single bytes are counted as words.
ByteCountsAsWords(s) ==
  LET vals == ByteCheckedVals(s) \o ByteCheckedSingles(s)
  IN  FlattenSeq([i \in DOMAIN vals |-> LimbwiseSeq(LAMBDA j : ByteRow(LimbsOf(vals[i])[j]))])

ByteCounts(s) ==
  LET vals    == ByteCheckedVals(s)
      singles == ByteCheckedSingles(s)
  IN  FlattenSeq([i \in DOMAIN vals |-> LimbwiseSeq(LAMBDA j : ByteRow(LimbsOf(vals[i])[j]))])
      \o [i \in DOMAIN singles |-> ByteRow(singles[i])]

\* The second operand of the logic instructions and of the shifts.
LogicCounts(s) ==
  LET x == LimbsOf(s.rs1_value)
      y == LimbsOf(IF s.op \in RegisterOps THEN s.rs2_value ELSE s.imm)
  IN  CASE s.op \in {"Xor", "XorI"}  -> LimbwiseSeq(LAMBDA i : XorTableRow(x[i], y[i]))
        [] s.op \in {"Or", "OriI"}   -> LimbwiseSeq(LAMBDA i : OrTableRow(x[i], y[i]))
        [] s.op \in {"And", "AndiI"} -> LimbwiseSeq(LAMBDA i : AndTableRow(x[i], y[i]))
        [] OTHER                     -> <<>>

BitShamt(s) == Shamt(IF s.op \in RegisterOps THEN s.rs2_value ELSE s.imm) % LimbBits

ByteSllCounts(s) ==
  IF s.op \in {"Sll", "SlliI"}
  THEN LimbwiseSeq(LAMBDA i : SllTableRow(LimbsOf(s.rs1_value)[i], BitShamt(s)))
  ELSE <<>>

ByteSrlCounts(s) ==
  IF s.op \in {"Srl", "Sra", "SrliI", "SraiI"}
  THEN LimbwiseSeq(LAMBDA i : SrlTableRow(LimbsOf(s.rs1_value)[i], BitShamt(s)))
       \o (IF s.op \in {"Sra", "SraiI"} THEN <<SrlTableRow(Base - 1, BitShamt(s))>> ELSE <<>>)
  ELSE <<>>

Occurrences(seq) == [t \in ToSet(seq) |-> Cardinality({i \in DOMAIN seq : seq[i] = t})]

Received ==
  Occurrences(FlattenSeq([i \in DOMAIN trace |->
    ByteCounts(trace[i]) \o LogicCounts(trace[i])
    \o ByteSllCounts(trace[i]) \o ByteSrlCounts(trace[i])]))

GenerateTraces ==
  /\ tables = <<>>
  /\ trace # <<>>
  /\ tables' = [op \in {trace[i].op : i \in DOMAIN trace} |-> Table(op)]
  /\ received' = Received
  /\ UNCHANGED trace

TablesInit == trace = <<>> /\ tables = <<>> /\ received = <<>>

(***************************************************************************)
(* Properties                                                              *)
(***************************************************************************)
\* The step that row i of the table of op was filled for.
StepAt(op, i) == StepsOf(op)[i]
RealRows(op)  == DOMAIN StepsOf(op)

\* A Jalr to x0 logs 0 where its AIR demands pc + 4.
LinksNothing(op, i) == i \in RealRows(op) /\ op = "Jalr" /\ StepAt(op, i).rd = 0

\* Every row of every table, the padding rows included, satisfies its AIR:
\* the VM's result, the builder's carries, borrows, signs and selectors, and
\* the constraints agree at every operand.
RowsSatisfyAirs ==
  \A op \in DOMAIN tables : \A i \in DOMAIN tables[op] :
    ~LinksNothing(op, i) => Accepts(op, tables[op][i])

Sent ==
  LET used == SetToSeq(DOMAIN tables)
      sends(op) == FlattenSeq([i \in DOMAIN tables[op] |-> Sends(op, tables[op][i])])
  IN  Occurrences(FlattenSeq([i \in DOMAIN used |-> sends(used[i])]))

\* What the rows look up is what the tables were told to receive, tuple by
\* tuple and as often, for every mix of instructions.
LookupsBalanced == tables # <<>> => Sent = received

\* The value a row writes to rd on the memory bus; a comparison writes its bit.
Comparisons == {"Slt", "Sltu", "SltiI", "SltiuI"}
WrittenBy(op, r) ==
  IF op \in Comparisons THEN [i \in Limb |-> IF i = 0 THEN r.lt_result ELSE 0]
                        ELSE r.rd_new_value

\* A row writes the value and continues at the pc of the VM's step, though
\* the builders compute comparison bits and next pcs again.
RowsAgreeWithVm ==
  \A op \in DOMAIN tables : \A i \in RealRows(op) :
    /\ WrittenBy(op, tables[op][i]) = LimbsOf(StepAt(op, i).rd_val)
    /\ tables[op][i].next_pc = LimbsOf(NextPc(StepAt(op, i)))

(***************************************************************************)
(* Rows for the same operands that a prover could send instead.            *)
(***************************************************************************)
\* The tables have a row for every limb, pair of limbs or limb and bit shift.
IsLimb(x) == x \in 0 .. Base - 1

\* A tuple some table has a row for.
InTable(t) ==
  /\ IsLimb(t[2])
  /\ CASE t[1] = "bytes"     -> TRUE
       [] t[1] = "bytes_xor" -> IsLimb(t[3]) /\ t = XorTableRow(t[2], t[3])
       [] t[1] = "bytes_or"  -> IsLimb(t[3]) /\ t = OrTableRow(t[2], t[3])
       [] t[1] = "bytes_and" -> IsLimb(t[3]) /\ t = AndTableRow(t[2], t[3])
       [] t[1] = "byte_sll"  -> t[3] \in 0 .. LimbBits - 1 /\ t = SllTableRow(t[2], t[3])
       [] t[1] = "byte_srl"  -> t[3] \in 0 .. LimbBits - 1 /\ t = SrlTableRow(t[2], t[3])

\* The row satisfies its AIR and looks up nothing the tables do not have.
Accepted(op, r) ==
  Accepts(op, r) /\ \A k \in DOMAIN Sends(op, r) : InTable(Sends(op, r)[k])

\* r with other values in some of its columns.
Refill(r, columns) == [c \in DOMAIN r |-> IF c \in DOMAIN columns THEN columns[c] ELSE r[c]]

\* Other columns that take an operand apart; the rest of it follows from the
\* constraints.  LowHalf is the weight of the sign in the top limb.
LowHalf   == 2 ^ (LimbBits - 1)
LeftShift == {"Sll", "SlliI"}

WithSigns(r, sign_rs1, sign_rs2) ==
  Refill(r, [sign_rs1 |-> sign_rs1, rs1_byte3_low7 |-> r.rs1_value[Top] - sign_rs1 * LowHalf,
             sign_rs2 |-> sign_rs2, rs2_byte3_low7 |-> r.rs2_value[Top] - sign_rs2 * LowHalf])

WithImm(r, bits) ==
  LET high == BitsValue(bits, HighBits)
      sign == bits[HighBits - 1]
  IN  Refill(r, [imm_high_bits |-> bits,
                 imm_se_bytes  |-> [i \in Limb |->
                   CASE i = 0 -> r.imm - high * Base
                     [] i = 1 -> high + sign * (Base - 2 ^ HighBits)
                     [] OTHER -> sign * (Base - 1)]])

\* A shift by n; to the right it fills with sign.
WithShift(op, r, n, sign) ==
  LET part(limb) == IF op \in LeftShift THEN ShiftLeft(limb, n % LimbBits)
                                        ELSE ShiftRight(limb, n % LimbBits)
      ones == ShiftRight(Base - 1, n % LimbBits)
      word == Digits(r.rs1_value, Base, NumLimbs)[0]
  IN  Refill(r,
        [bit_shamt      |-> n % LimbBits,
         byte_shamt     |-> n \div LimbBits,
         is_bs          |-> [i \in Limb |-> Truth(i = n \div LimbBits)],
         rs2_shamt_high |-> (r.rs2_value[0] - n) \div XLEN,
         shifted_bytes  |-> [i \in Limb |-> part(r.rs1_value[i]).shifted],
         carry_bytes    |-> [i \in Limb |-> part(r.rs1_value[i]).carry],
         sign_bit       |-> sign,
         fill_byte      |-> sign * (Base - 1),
         rs1_byte3_low7 |-> r.rs1_value[Top] - sign * LowHalf,
         srl_ff_shifted |-> ones.shifted,
         srl_ff_carry   |-> ones.carry,
         rd_new_value   |-> LimbsOf(IF op \in LeftShift THEN word * 2 ^ n
                                    ELSE (word - (IF op \in {"Sra", "SraiI"} THEN sign * Size ELSE 0))
                                           \div 2 ^ n)])

WithLowestBit(r, bit) ==
  Refill(r, [sum_lsb |-> bit, next_pc |-> [r.sum EXCEPT ![0] = @ - bit]])

\* The same number in other limbs: one of a limb is Base of the limb below it.
Respelled(x) ==
  {[x EXCEPT ![i] = @ + d * Base, ![i + 1] = @ - d] : i \in 0 .. Top - 1, d \in {-1, 1}}

Resplit(op, r) ==
  LET bits == [0 .. HighBits - 1 -> {0, 1}]
  IN  CASE op = "Slt"   -> {WithSigns(r, s, t) : s, t \in {0, 1}}
        [] op = "SltiI" -> {WithSigns(WithImm(r, b), s, 0) : s \in {0, 1}, b \in bits}
        [] op \in {"AddI", "XorI", "OriI", "AndiI", "SltiuI"} -> {WithImm(r, b) : b \in bits}
        [] op \in {"Sll", "Srl", "Sra", "SlliI", "SrliI", "SraiI"} ->
             {WithShift(op, r, n, s) : n \in 0 .. XLEN - 1, s \in {0, 1}}
        [] op = "Lui"   -> {Refill(r, [rd_new_value |-> x]) : x \in Respelled(r.rd_new_value)}
        [] op = "Auipc" -> {r} \cup {Refill(r, [imm_u |-> x]) : x \in Respelled(r.imm_u)}
        [] op = "Jalr"  -> {WithLowestBit(r, b) : b \in {0, 1}}
        [] OTHER        -> {r}

\* Another carry or borrow chain, and what follows from it.
Chains == [Limb -> {0, 1}]
SumFor(x, y, c)  == [i \in Limb |-> x[i] + y[i] + CarryIn(c, i, 0) - c[i] * Base]
DiffFor(x, y, b) == [i \in Limb |-> x[i] - y[i] - CarryIn(b, i, 0) + b[i] * Base]
LinkFor(x, c)    == [i \in Limb |-> x[i] + CarryIn(c, i, 4) - (IF i = Top THEN 0 ELSE c[i] * Base)]

SecondLimbs(op, r) == IF op \in RegisterOps THEN r.rs2_value ELSE r.imm_se_bytes

WithSum(r, x, y, c)        == Refill(r, [add_carries |-> c, rd_new_value |-> SumFor(x, y, c)])
WithDifference(r, x, y, b) == Refill(r, [sub_borrows |-> b, rd_new_value |-> DiffFor(x, y, b)])
WithLink(r, x, c)          == Refill(r, [rd_val_carries |-> c, rd_new_value |-> LinkFor(x, c)])
WithBorrows(r, x, y, b, lt) ==
  Refill(r, [borrow |-> b, lt_result |-> lt, diff_bytes |-> DiffFor(x, y, b)])

Recarried(op, r) ==
  CASE op \in {"Add", "AddI"} -> {WithSum(r, r.rs1_value, SecondLimbs(op, r), c) : c \in Chains}
    [] op = "Auipc"           -> {WithSum(r, r.pc, r.imm_u, c) : c \in Chains}
    [] op = "Sub"             -> {WithDifference(r, r.rs1_value, r.rs2_value, b) : b \in Chains}
    [] op \in Comparisons     ->
         {WithBorrows(r, r.rs1_value, SecondLimbs(op, r), b, lt) : b \in Chains, lt \in {0, 1}}
    [] op \in {"Jal", "Jalr"} -> {WithLink(r, r.pc, c) : c \in [0 .. Top - 1 -> {0, 1}]}
    [] OTHER                  -> {}

\* Another value in one limb of the result.
WithLimb(r, i, v) == Refill(r, [rd_new_value |-> [r.rd_new_value EXCEPT ![i] = v]])

\* Rows for the operands of r: the columns that take them apart, the carry or
\* borrow chain or a limb of the result are the prover's choice.
Rows(op, r) ==
  (UNION {{q} \cup Recarried(op, q) : q \in Resplit(op, r)})
    \cup {WithLimb(r, i, v) : i \in Limb, v \in 0 .. 2 * Base}

\* The ranges nothing checks: the low bits of a signed operand's top limb are
\* sent to the table of all limbs, and the low limb of an immediate to none
\* unless a logic table has it.
InRange(op, r) ==
  /\ op \in {"Slt", "SltiI", "Sra", "SraiI"} => r.rs1_byte3_low7 \in 0 .. LowHalf - 1
  /\ op = "Slt" => r.rs2_byte3_low7 \in 0 .. LowHalf - 1
  /\ op \in {"AddI", "SltiI", "SltiuI"} => r.imm_se_bytes[0] \in 0 .. Base - 1

Altered(op, r) == {a \in Rows(op, r) : WrittenBy(op, a) # WrittenBy(op, r)}

\* The result of an accepted row is the only one, whichever way the prover
\* splits the operands into signs, bits and shift amounts and whatever carries
\* it claims, as long as the three columns of InRange are what they are meant
\* to be; the AIRs do not see to that (LowBitsInRange).  A row is made from
\* its step alone: runs of one are enough.
ResultForced ==
  Len(trace) = 1 =>
    \A op \in DOMAIN tables : \A i \in RealRows(op) : \A r \in Altered(op, tables[op][i]) :
      ~LinksNothing(op, i) => ~(Accepted(op, r) /\ InRange(op, r))

\* A comment in slt/air.rs: rs1_byte3_low7 is range-checked to the values
\* below the sign, in slti, sra and srai as well.
LowBitsInRange ==
  Len(trace) = 1 =>
    \A op \in DOMAIN tables \cap {"Slt", "SltiI", "Sra", "SraiI"} : \A i \in RealRows(op) :
      \A r \in Rows(op, tables[op][i]) :
        Accepted(op, r) => r.rs1_byte3_low7 \in 0 .. LowHalf - 1

=============================================================================
