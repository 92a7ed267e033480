--------------------------- MODULE ComparisonTables --------------------------
(***************************************************************************)
(* The memory table and the tables that decide the order of neighbours in  *)
(* it:                                                                     *)
(*   u32_less_than_lookup.rs    x <= y for addresses, limb by limb,        *)
(*   timestamp_less_than.rs     x, y below 2^24 and the sign of x - y,     *)
(*   byte_less_than_lookup.rs   the pairs x < y of bytes,                  *)
(* in crates/air/src/primitives, with the entries and multiplicities that  *)
(* memory_lookup_entries of crates/prover/src/lib.rs derives from the log. *)
(*                                                                         *)
(* A log is any sequence of operations with ascending timestamps, as the   *)
(* VM makes them; a Jal to x0 takes a timestamp and logs nothing.  A VM    *)
(* only logs registers, whose numbers fit in the low limb; the tables take *)
(* both spaces and any u32.  Columns hold elements of the field with P     *)
(* elements: an inverse is what it is there.                               *)
(***************************************************************************)
EXTENDS MemoryTypes, Limbs, FiniteSets

CONSTANTS
  P,         \* the order of the field (a prime near 2^31 in the code)
  TsBits,    \* the width of a timestamp in its table (24 in the code)
  Cells,     \* the cells of operations: pairs of a memory type and an address
  Values,    \* what cells may hold
  MaxOps,    \* bound: the operations of a run
  MaxTime    \* bound: the clock (a u32 in the code)

ASSUME FieldAssumption ==
  /\ P \in Nat \ {0, 1} /\ \A d \in 2 .. P - 1 : P % d # 0
  /\ TsBits \in Nat /\ 2 ^ (TsBits + 1) < P /\ Base < P
  /\ TsBits < LimbBits * NumLimbs
  /\ MaxOps \in Nat /\ MaxTime \in Nat /\ MaxTime <= P * 2 ^ TsBits
  /\ Cells \subseteq {Register, Ram} \X (0 .. 2 ^ (LimbBits * NumLimbs) - 1)
  /\ 0 \in Values

Field == 0 .. P - 1

\* u32 arithmetic, which wraps in a release build.
U32(v) == v % 2 ^ (LimbBits * NumLimbs)

Bit(v, i) == (v \div 2 ^ i) % 2
BitsOf(v, n) == [i \in 0 .. n - 1 |-> Bit(v, i)]

ValueOf(bits, n) == Digits(bits, 2, n)[0]
ValueOfLimbs(x)  == Digits(x, Base, NumLimbs)[0]

NegInverse(diff) == IF diff = 0 THEN 0 ELSE CHOOSE z \in Field : (z * diff + 1) % P = 0
\* Mutant: the flag may be 1 when diff is not 0.
IsZeroOneWay(diff, inverse, is_equal) == (inverse * diff + 1 - is_equal) % P = 0

\* The IsZero gadget: inverse * diff + 1 is 1 exactly when diff is 0.
IsZero(diff, inverse, is_equal) ==
  /\ (inverse * diff + 1 - is_equal) % P = 0
  /\ (diff * is_equal) % P = 0

(***************************************************************************)
(* u32_less_than_lookup.rs                                                 *)
(***************************************************************************)
\* Mutant: the least significant limb that differs.
LowestDifference(x, y) ==
  LET diff == {i \in Limb : x[i] # y[i]}
  IN  [i \in Limb |-> IF i \in diff /\ \A j \in diff : i <= j THEN 1 ELSE 0]

\* The most significant limb in which x and y differ, if any.
MultLts(x, y) ==
  LET diff == {i \in Limb : x[i] # y[i]}
  IN  [i \in Limb |-> IF i \in diff /\ \A j \in diff : j <= i THEN 1 ELSE 0]

U32Row(entry) ==
  LET x == LimbsOf(entry[1])
      y == LimbsOf(entry[2])
  IN  [x |-> x, y |-> y,
       inverses  |-> [i \in Limb |-> NegInverse(y[i] - x[i])],
       is_equals |-> [i \in Limb |-> IF x[i] = y[i] THEN 1 ELSE 0],
       mult_lts  |-> MultLts(x, y),
       is_equal  |-> IF x = y THEN 1 ELSE 0, mult |-> 1]

\* x = y = 0, received by nobody.
U32Padding == [U32Row(<<0, 0>>) EXCEPT !.mult = 0]

SumAbove(mults, i) == Digits(mults, 1, NumLimbs)[i + 1]

U32Accepts(row) ==
  LET sum == SumAbove(row.mult_lts, -1)
  IN  /\ \A i \in Limb : /\ IsZero(row.y[i] - row.x[i], row.inverses[i], row.is_equals[i])
                         /\ Boolean(row.mult_lts[i])
                         /\ LET already_seen == SumAbove(row.mult_lts, i)
                            IN  /\ already_seen * row.mult_lts[i] = 0
                                /\ (1 - already_seen) * (row.mult_lts[i] - (1 - row.is_equals[i])) = 0
      /\ Boolean(sum)
      /\ row.is_equal = 1 - sum

\* Sent on "bytes_lt": the deciding pair of limbs.
U32Sends(row) ==
  FlattenSeq([k \in 1 .. NumLimbs |->
                IF row.mult_lts[k - 1] = 1 THEN << <<row.x[k - 1], row.y[k - 1]>> >> ELSE <<>>])

(***************************************************************************)
(* timestamp_less_than.rs                                                  *)
(***************************************************************************)
TimestampRow(entry) ==
  LET x == entry[1]
      y == entry[2]
  IN  [x |-> x % P, y |-> y % P, x_bits |-> BitsOf(x, TsBits), y_bits |-> BitsOf(y, TsBits),
       v_bits   |-> BitsOf(U32(x + 2 ^ TsBits - y), TsBits + 1),
       diff_inv |-> NegInverse((x - y) % P), is_equal |-> IF x = y THEN 1 ELSE 0, mult |-> 1]

TimestampPadding == [TimestampRow(<<0, 0>>) EXCEPT !.mult = 0]

\* Mutant: the bits of y are not summed up.
TimestampAcceptsAnyY(row) ==
  /\ \A i \in DOMAIN row.x_bits : Boolean(row.x_bits[i]) /\ Boolean(row.y_bits[i])
  /\ (row.x - ValueOf(row.x_bits, TsBits)) % P = 0
  /\ \A i \in DOMAIN row.v_bits : Boolean(row.v_bits[i])
  /\ (row.x + 2 ^ TsBits - row.y - ValueOf(row.v_bits, TsBits + 1)) % P = 0
  /\ IsZero(row.x - row.y, row.diff_inv, row.is_equal)

TimestampAccepts(row) ==
  /\ \A i \in DOMAIN row.x_bits : Boolean(row.x_bits[i]) /\ Boolean(row.y_bits[i])
  /\ (row.x - ValueOf(row.x_bits, TsBits)) % P = 0
  /\ (row.y - ValueOf(row.y_bits, TsBits)) % P = 0
  /\ \A i \in DOMAIN row.v_bits : Boolean(row.v_bits[i])
  /\ (row.x + 2 ^ TsBits - row.y - ValueOf(row.v_bits, TsBits + 1)) % P = 0
  /\ IsZero(row.x - row.y, row.diff_inv, row.is_equal)

(***************************************************************************)
(* byte_less_than_lookup.rs: a row for every pair, by y and then by x, and *)
(* the multiplicities counted for them.                                    *)
(***************************************************************************)
BytePairs == FlattenSeq([n \in 1 .. Base |-> [m \in 1 .. n - 1 |-> <<m - 1, n - 1>>]])

\* Mutant: pairs by x and then by y.
PairRowByX(x, y) == ((x * (x - 1)) \div 2) + y

PairRow(x, y) == ((y * (y - 1)) \div 2) + x

\* The deciding limbs of a pair of addresses, the smaller first.
DecidingPair(entry) ==
  LET x  == LimbsOf(entry[1])
      y  == LimbsOf(entry[2])
      at == CHOOSE i \in Limb : x[i] # y[i] /\ \A j \in Limb : j > i => x[j] = y[j]
  IN  IF x[at] < y[at] THEN <<x[at], y[at]>> ELSE <<y[at], x[at]>>

BytesLtMults(log) ==
  LET entries == TypedAddressLtEntries(log)
      unequal == {k \in DOMAIN entries : entries[k][1] # entries[k][2]}
      RowOf(pair) == PairRow(pair[1], pair[2])
  IN  [row \in 0 .. Len(BytePairs) - 1 |->
         Cardinality({k \in unequal : RowOf(DecidingPair(entries[k])) = row})]

(***************************************************************************)
(* The tables of a run.                                                    *)
(***************************************************************************)
VARIABLES
  log,    \* the memory operations, in order
  clock,  \* the next timestamp
  stage,  \* "running", "built", or "refused" when a builder panics
  tables  \* the memory and the comparison tables, once built

comparisonVars == <<log, clock, stage, tables>>

U32Table(entries) ==
  [k \in 1 .. NumRows(Len(entries)) |-> IF k <= Len(entries) THEN U32Row(entries[k]) ELSE U32Padding]

TimestampTable(entries) ==
  [k \in 1 .. NumRows(Len(entries)) |->
     IF k <= Len(entries) THEN TimestampRow(entries[k]) ELSE TimestampPadding]

Fits(entry) == entry[1] < 2 ^ TsBits /\ entry[2] < 2 ^ TsBits

ComparisonInit == log = <<>> /\ clock = 0 /\ stage = "running" /\ tables = <<>>

\* What a cell holds: what the last operation on it left there.
Held(cell) ==
  LET on == {k \in DOMAIN log : <<log[k].memory_type, log[k].address>> = cell}
  IN  IF on = {} THEN 0 ELSE log[Max(on)].new_value

\* A read is an operation that leaves the value it found.
LogOperation ==
  /\ stage = "running" /\ Len(log) < MaxOps /\ clock < MaxTime
  /\ \E c \in Cells, new \in Values :
       log' = Append(log, [memory_type |-> c[1], address |-> c[2], timestamp |-> clock,
                           old_value |-> Held(c), new_value |-> new])
  /\ clock' = clock + 1
  /\ UNCHANGED <<stage, tables>>

LogNothing ==
  /\ stage = "running" /\ clock < MaxTime
  /\ clock' = clock + 1
  /\ UNCHANGED <<log, stage, tables>>

\* In a release build timestamps of any size are taken apart into TsBits bits.
BuildTraces ==
  /\ stage = "running" /\ log # <<>>
  /\ stage' = "built"
  /\ tables' = [memory       |-> TypedTable(log),
                u32_lt       |-> U32Table(TypedAddressLtEntries(log)),
                timestamp_lt |-> TimestampTable(TypedTimestampLtEntries(log)),
                bytes_lt     |-> BytesLtMults(log)]
  /\ UNCHANGED <<log, clock>>

\* In a debug build they are not: "x must fit in 24 bits".
RefuseTimestamp ==
  /\ stage = "running" /\ log # <<>>
  /\ \E k \in DOMAIN TypedTimestampLtEntries(log) : ~Fits(TypedTimestampLtEntries(log)[k])
  /\ stage' = "refused"
  /\ UNCHANGED <<log, clock, tables>>

ComparisonNext == LogOperation \/ LogNothing \/ BuildTraces \/ RefuseTimestamp

ComparisonSpec == ComparisonInit /\ [][ComparisonNext]_comparisonVars

(***************************************************************************)
(* Properties                                                              *)
(***************************************************************************)
Built == stage = "built"

OfType(type)    == {k \in DOMAIN log : log[k].memory_type = type}
HasType(type)   == OfType(type) # {}
Addresses(type) == {log[k].address : k \in OfType(type)}
HasPadding      == NumRows(Len(log)) > Len(log)

\* The last operation on the last register in use.
LastRegister   == Max(Addresses(Register))
LastRegisterOp == log[Max({k \in OfType(Register) : log[k].address = LastRegister})]

\* The last register in use has the address of the first RAM cell in use.
Meeting == HasType(Register) /\ HasType(Ram) /\ LastRegister = Min(Addresses(Ram))

\* A log of registers is accepted unless all of it is on register 0, leaves
\* a value there and is followed by padding; one with RAM is accepted exactly
\* if there is no padding, whose type 0 may not follow type 1, and no register
\* with a value meets a RAM cell of the same address, which would have to read
\* that value.
TypedAccepted ==
  Built =>
    (TypedAccepts(tables.memory) <=>
       IF HasType(Ram) THEN ~HasPadding /\ (Meeting => LastRegisterOp.new_value = 0)
       ELSE HasPadding /\ LastRegister = 0 => LastRegisterOp.new_value = 0)

\* Every row of the address table satisfies its AIR, padding included,
\* wherever the two addresses first differ.
U32RowsAccepted == Built => \A k \in DOMAIN tables.u32_lt : U32Accepts(tables.u32_lt[k])

\* The rows of the timestamp table satisfy their AIR as long as the clock
\* fits its width, up to the last value that does; past it a release build
\* makes a row that is rejected, never one about the truncated values.
TimestampRowsAccepted ==
  Built =>
    \A k \in DOMAIN tables.timestamp_lt :
      LET entries == TypedTimestampLtEntries(log)
      IN  TimestampAccepts(tables.timestamp_lt[k]) <=> (k <= Len(entries) => Fits(entries[k]))

Received(rows, Tuple(_)) ==
  ToBag([k \in {k \in DOMAIN rows : rows[k].mult = 1} |-> Tuple(rows[k])])

\* What the memory table of the same log asks of the address table is in its
\* rows, flag of equality included, and nothing else.  So it is with the
\* timestamp table, unless a register meets a RAM cell: the AIR sends a
\* comparison of their timestamps, which the prover does not offer.
ComparisonBusesBalanced ==
  Built =>
    /\ TypedAddressLtSent(tables.memory) =
         Received(tables.u32_lt, LAMBDA r : <<ValueOfLimbs(r.x), ValueOfLimbs(r.y), r.is_equal = 1>>)
    /\ (\A k \in DOMAIN TypedTimestampLtEntries(log) : Fits(TypedTimestampLtEntries(log)[k])) =>
         (TimestampLtSent(tables.memory) =
            Received(tables.timestamp_lt, LAMBDA r : <<r.x, r.y, r.is_equal = 1>>)
          <=> ~Meeting)

\* The deciding limbs the address table asks about are the pairs, and the
\* number of times, the prover counted at the row the pair has in the table.
BytesLtBalanced ==
  Built =>
    LET rows == tables.u32_lt
        used == {row \in DOMAIN tables.bytes_lt : tables.bytes_lt[row] > 0}
    IN  ToBag(FlattenSeq([k \in DOMAIN rows |-> U32Sends(rows[k])]))
          = [t \in {BytePairs[row + 1] : row \in used} |->
               tables.bytes_lt[CHOOSE row \in used : BytePairs[row + 1] = t]]

\* r with other operands, inverses and marks of the deciding limb, and the
\* flags that follow from them.
U32With(r, p, inv, m) ==
  [r EXCEPT !.x = p[1], !.y = p[2], !.inverses = inv, !.mult_lts = m,
            !.is_equals = [i \in Limb |-> (inv[i] * (p[2][i] - p[1][i]) + 1) % P],
            !.is_equal = 1 - SumAbove(m, -1)]

TimestampWith(r, p, inv, v) ==
  [r EXCEPT !.x = p[1].v, !.y = p[2].v, !.x_bits = p[1].bits, !.y_bits = p[2].bits,
            !.diff_inv = inv, !.v_bits = v, !.is_equal = (inv * (p[1].v - p[2].v) + 1) % P]

\* The other rows for the operands of r, taken in either order.
U32Altered(r) ==
  {U32With(r, p, inv, m) :
     p \in {<<r.x, r.y>>, <<r.y, r.x>>}, inv \in [Limb -> Field], m \in [Limb -> {0, 1}]}

TimestampAltered(r) ==
  LET x == [v |-> r.x, bits |-> r.x_bits]
      y == [v |-> r.y, bits |-> r.y_bits]
  IN  {TimestampWith(r, p, inv, v) :
         p \in {<<x, y>>, <<y, x>>}, inv \in Field, v \in [0 .. TsBits -> {0, 1}]}

\* The constraints leave no choice.  An address row whose AIR and lookups are
\* satisfied has x < y, or x = y and is_equal = 1; a timestamp row that is
\* accepted has is_equal = 1 exactly when x = y, and bit 24 of v is 0 exactly
\* when x < y.  Logs of two operations have every pair of neighbours.
ComparisonForced ==
  Built /\ Len(log) = 2 =>
    /\ \A row \in ToSet(tables.u32_lt) : \A r \in U32Altered(row) :
         U32Accepts(r) /\ (\A n \in DOMAIN U32Sends(r) : U32Sends(r)[n] \in ToSet(BytePairs))
           => /\ ValueOfLimbs(r.x) <= ValueOfLimbs(r.y)
              /\ r.is_equal = 1 <=> r.x = r.y
    /\ \A row \in ToSet(tables.timestamp_lt) : \A r \in TimestampAltered(row) :
         TimestampAccepts(r) => /\ r.is_equal = 1 <=> r.x = r.y
                                /\ r.v_bits[TsBits] = 0 <=> r.x < r.y

=============================================================================
