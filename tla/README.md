# Verification of loquela

loquela proves the execution of an RV32I program: it runs the program on a
virtual machine, builds from the execution trace one witness table per
component of the machine, and hands the tables to a STARK backend that proves
that every row satisfies the constraints of its AIR and that the tables agree
with each other through lookup buses. This directory specifies the part of
loquela between the program and the backend: what a run of the machine
records, and why the tables built from an honest run satisfy their constraints
and balance their buses. Paths below are relative to `src/`.

## The system

| component | source | state | operations |
|---|---|---|---|
| virtual machine | `crates/vm/src/lib.rs` | program, pc, timestamp, trace of steps | `run`, `step` (23 instructions), `decode_instruction`, `get_memory_ops` |
| memory argument | `crates/air/src/memory` | table of all register operations, sorted by address and time | `build_trace`, `MemoryAir::eval`, lookups |
| comparison tables | `crates/air/src/primitives/{u32_less_than_lookup,timestamp_less_than,byte_less_than_lookup}.rs` | pairs to compare and how often | `build_trace`, `eval`; entries from `memory_lookup_entries` |
| execution chain | `crates/air/src/boundaries`, trace bus of every instruction AIR | first and last (pc, timestamp) | `build_trace`, lookups |
| program ROM | `crates/air/src/program` | one row per byte with its fetch count | `build_trace`, `eval`, lookups |
| decode | `crates/air/src/decode` | one row per step, bits of the word | `build_trace`, `eval`, three export buses |
| instruction AIRs | `crates/air/src/instructions/*` (23) | one row per step of that instruction, byte limbs and carries | `extract_*_steps`, `fill_row`, `fill_padding_row`, `eval`, lookups |
| byte, logic and shift tables | `crates/air/src/primitives/*` | a multiplicity per table row | `build_trace`; counts from `generate_traces` |
| program hash | `crates/air/src/program_hash`, `crates/air/src/poseidon2_chip` | sponge state per 24 bytes | `build_trace`, `compute_program_digest`, `eval` |
| prover | `crates/prover/src/lib.rs` | `AllTraces` | `generate_traces`, `into_vecs`, `prove_traces`, `prove` |
| STARK backend | p3 crates | | commitments, FRI; outside the repository |

The components do not run concurrently and nothing is persisted: the program is
sequential, from `VM::run` through `generate_traces` to `prove_traces`. What is
hard is agreement. The same facts about a run are derived independently in up
to four places (the VM, the trace builder of an AIR, the constraints of the
AIR, the multiplicity code of the prover), and a bus balances only if they
agree with multiplicity, for every mix of instructions:

* The VM's *memory log* is the spine. Each instruction emits register reads and
  writes with a timestamp. The memory table is that log sorted by (address,
  timestamp); the AIR of the instruction sends the same operations on the
  memory bus, with timestamps it computes itself.
* The *trace bus* chains steps: a row receives (pc, timestamp) and sends the
  next. It balances only if the timestamps the builders reconstruct are those
  of the VM; `Jal` to x0 logs nothing, so its builder replays the clock.
* The *program bus* pairs each decode row's four byte fetches with a count in
  the ROM; the padding rows of the decode table fetch too.
* The *comparison buses* pair the order claims of the memory table with entries
  the prover derives from a second sort of the same log.
* Every table is *padded* to a power of two of at least four rows, and padding
  rows must satisfy the same constraints.
* The *decode buses* pair the instruction the VM executed, as its AIR names it,
  with what the decode table reads in the same word; the instruction set is
  written down three times.
* The *program image* pairs the bytes of the ROM with those a sponge absorbs;
  its digest and length are the public values of the proof.
* The *list of AIRs*, the list of tables and the slot of the public values are
  put together in three places and paired by position.

Correctness of each component, in one line: the VM computes RV32I and its log
is a history of the registers; a table built from an honest run satisfies its
AIR; each bus is balanced; conversely a row that satisfies its AIR states a
true fact (checked for the values the instruction AIRs write, the comparison
tables, the decode table and the program hash); every lookup a proof contains
has one table that answers it.

## Modules

| module | models |
|---|---|
| `Vm` | the machine: one action per instruction shape, the two panics; its safety properties |
| `Rv32iAlu` | what the 21 computing instructions compute, for words of `XLEN` bits |
| `IsaMachine` | abstract specification: an RV32I machine with no log and no clock, x0 a constant |
| `VmIsa` | the refinement mapping from `Vm` to `IsaMachine` |
| `Numbers` | what the tables share: heights, rows put together from parts (`++`), and numbers from their digits |
| `MemoryTable` | memory table, memory AIR, its lookups, `memory_lookup_entries` |
| `Prover` | `generate_traces`: composes `Vm` and `MemoryTable`, adds the rows of the instructions, the boundaries, decode fetches and ROM counts |
| `Limbs` | words as byte limbs: the gadgets of `u32_ops.rs`, the carries and borrows of the builders |
| `InstructionRows` | `fill_row` and `fill_padding_row` of the 23 instruction AIRs |
| `InstructionAirs` | `eval` of the 23 AIRs and what they look up in the byte, logic and shift tables |
| `InstructionTables` | `generate_traces`, this part: tables of rows, multiplicities counted from the steps |
| `MemoryTypes` | the memory table with its `memory_type` column: registers and RAM |
| `ComparisonTables` | the three tables that decide `<`, on limbs, bits and byte pairs, and the multiplicities of the pairs, over the memory table of `MemoryTypes` |
| `Decode`, `DecodeTables` | the three readings of an instruction word; the decode table of a run and its buses |
| `ProgramHash` | ROM, sponge over its bytes, permutation chip, public values |
| `AirList` | continues `InstructionTables`: the lists of `generate_traces`, `into_vecs` and `do_prove` |
| `DataLemmas` | lemmas about the operators all use: induction over the numbers, flattened, cut and rearranged sequences, powers, digits and quotients, prime fields, stable sorting, bags |
| `VmProofs` | theorems about `Vm` and the refinement |
| `MemoryProofs`, `ProverProofs` | theorems about the tables and buses of a run |
| `ComparisonProofs` | theorems about the typed memory table, the comparison tables and the buses between them |
| `InstructionProofs` | theorems about the tables of the instructions and the list of AIRs |
| `DecodeProofs` | theorems about the decode table |
| `ProgramHashProofs` | theorems about the ROM, the sponge and the commitment |
| `MCVm`, `MCProver`, `MCInstructions`, `MCComparison`, `MCDecode`, `MCProgramHash` | instances for TLC |

The modules form two towers over `Rv32iAlu`. `Vm`, `MemoryTable` and `Prover`
follow a whole program through the registers, the log, the clock and the buses
that chain steps. `Limbs` to `InstructionTables` take any sequence of
steps and look inside the rows, at what one step computes, and `AirList`
continues them to the lists a proof is made from. The others take what the rest
of the program gives a component as the input of a run: `ComparisonTables` any
log, `DecodeTables` any words, `ProgramHash` any program and fetches.
`ComparisonTables` extends `MemoryTypes`, which extends `MemoryTable`, so that
both sides of a comparison bus come from the code that makes them.

### Vm

The variables are the fields of `VM`: `program`, `pc`, `timestamp`, `trace`,
plus `panicked` for a step that does not return. The register file is not a
variable in the code either: a step takes it from the last step of the trace
(`Registers`). The actions `StepImmediate` (nine instructions), `StepRegister`
(ten), `StepUpper` (two), `StepJal` and `StepJalr` are the arms of `step`,
grouped by the operations they log; `StepPanic` is an out-of-range fetch or a
word the decoder has no case for. `run`'s loop condition is `Running`.

Abstractions: a word is a number below `WordSize`; the result of an instruction
is the constant operator `Alu`, so the theorems hold for any instruction set of
these shapes, and `Rv32iAlu` gives it its meaning for TLC; a program is the
instruction that `decode_instruction` returns at each byte offset, because a
jump may go to any offset and the decoder reads four bytes there. `memory_type`
is left out because the VM only emits register operations.

### MemoryTable and Prover

`Prover` runs `Vm` (`Execute`), then builds all tables in one step
(`GenerateTraces`), or panics on a run without step or without operation
(`Refuse`). A table keeps one value per u32: its four limbs are constrained
alike. Where limbs matter, in the fetch of an instruction, an address is split
into the low limb and the rest (`LimbSize`). An instruction row carries what the
AIR of the instruction computes with: its operands, the old and new value of
rd, its timestamp and its next pc. A bus is a bag of tuples (a function to
counts); it is balanced when the bag sent equals the bag received. The
stable sort of the builder is stated by the place every operation gets (`Rank`):
as many as have a smaller address, or the same one and came before.

### Limbs and the instruction modules

`InstructionTables` has one variable for the steps of the VM (`trace`), one for
the tables (`tables`) and one for what the lookup tables receive (`received`).
`Execute` appends a step with any operands of `Inputs`; `GenerateTraces` fills
the tables and counts, as `generate_traces` does after the run. The value that a
step logs is `Rv32iAlu`'s, the one the VM modules use, so the three parts of the
code that compute it, VM, builder and AIR, meet here.

The code has one copy of the carry helpers, of `extract_*_steps` and of
`build_trace` in each of the 23 directories; the modules have one operator for
each idea, mapped to one copy after comparing them. A row keeps the columns that
differ with the operands. Its names are those of the code, except that
`rs1_bytes` and `rd_bytes`, which some AIRs use, are `rs1_value` and
`rd_new_value` everywhere. Timestamps and register indices are left to `Prover`.

Scaling: a word has `NumLimbs` limbs of `LimbBits` bits (4 and 8 in the code)
and `XLEN` bits (32); `UpperShift` is the position of the upper immediate and
the width of the short one (12). Whatever the code writes as 256, 255, 128 or 7
is derived from them. The modules hold for the code's own values, but TLC does
not enumerate those.

What a row sends is read off the row (`Sends`), what the tables receive is
counted from the steps (`ByteCheckedVals`, `ByteCheckedSingles`, `LogicCounts`,
`ByteSllCounts`, `ByteSrlCounts`): these are separate in the code as well, in
the AIRs and in `generate_traces`, and nothing but the balance ties them
together. The bytes of the program-hash AIR are left out on both sides.

A row is data that the prover chooses. `Rows` are those it could send instead of
the one `build_trace` makes, with the same operands: `Resplit` takes the
operands apart in other ways (signs and low bits, the four bits and the limbs of
an immediate, the amount of a shift with its selectors, its table rows and its
fill, the upper immediate in other limbs, the lowest bit of a jump target),
`Recarried` adds another chain of carries or borrows, comparison bit and what
follows from them, `WithLimb` puts any value into a limb of the result.
`ResultForced` says which of them `Accepted` lets through. The columns are
integers here and elements of a prime field in the code: rows whose constraints
hold only because a sum passes the prime are not considered.

### MemoryTypes and ComparisonTables

`MemoryTable` has no column for the type of memory, because the VM has
registers only. The builder, the AIR and `memory_lookup_entries` handle RAM as
well and the unit tests of the builder use it, so `MemoryTypes` adds the column
and `ComparisonTables` runs any history over both address spaces.
`TypedAccepted` states exactly which of them the code can carry today: with RAM
operations, only those without padding and without a register next to a RAM
cell of the same address.

`ComparisonTables` fills the rows of the three comparison tables from a log.
Columns hold elements of a prime field (`P`, 11 in the run), so the inverses
and is-zero flags are those of a field, and `U32` wraps as a release build does.
A number is the sum of its digits (`Digits`), bits or limbs, as the constraints
recompose it. The clock is bounded by `P * 2^TsBits`, more than a u32 holds with
the code's values (24 bits and a prime near 2^31): past it two timestamps could
differ by a multiple of `P` and still fit.
`RefuseTimestamp` is the debug assertion on the width of a timestamp,
`BuildTraces` the release build, which goes on. A step that logs nothing
(`LogNothing`, a Jal to x0) still moves the clock, so timestamps have gaps.
The memory table looks up `(x, y, is_equal)` in the timestamp table and not the
bit that orders them: that its neighbours ascend is what
`Prover!ComparisonsBalanced` shows of honest tables.

### Decode and DecodeTables

A word is a function from bit numbers to bits; TLC's integers hold no 32-bit
word. `decode_instruction`, `fill_row` and `Accepts` keep the tables of codes of
the VM, the builder and the constraints apart (`VmCodes`, `RowCodes`,
`AirOpcode`, `AirFunct3`, `AirFunct7`), since nothing in the code ties them
together. `Execute` runs any word the VM decodes, `Panic` is its
`unimplemented!`, `GenerateTraces` builds the padded table.

### ProgramHash

The variables are the program, the pcs of the steps and the tables.
`BuildTables` builds the ROM with its fetch counts, the sponge from the last row
to the first, the digest the host computes on its own and the chip. The
permutation is the constant operator `Permute`: nothing the module says depends
on which function it is, and its rounds are constrained by a crate outside the
repository. The runs give it a quadratic map that mixes all lanes.

### AirList

The module continues `InstructionTables`: `GenerateAllTraces` fills the tables
of the instructions, lists the AIRs and builds the tables under their separate
conditions, `IntoVecs` lists tables and public values and keeps the three
assertions, `DoProve` pairs the lists as `zip` does. Here a table is the name of
the AIR it was built for, and the buses an instruction needs are those its rows
send on. An assertion that fails is a deadlock, so deadlock is checked in the
runs of these modules.

## Runs

The runs of `MCVm` and `MCProver` use three registers (x0 and two others), words of four bits
(`XLEN = 4`, so addition wraps, signs differ and shifts overflow within a few
instructions), programs of up to three instructions and at most `MaxSteps = 5`
steps (a backward jump revisits instructions). Three registers are enough for
an operation with two distinct sources and a destination that is neither, and
for neighbours in the memory table that are equal, adjacent or x0; three
instructions are enough for write, overwrite and read, and for a jump between
them. Deadlock is not checked there: a run of the VM ends.

| run | shows |
|---|---|
| `vm` | over all such programs, with writes to x0: the log is ordered, each register's operations form a history, the log determines the registers, types hold |
| `vm_isa` | over programs in which only jumps target x0, some ending in two stray bytes: x0 stays 0 and the VM implements `IsaMachine` |
| `prover` | over all programs, with jumps between instructions: every table is accepted and every bus balances, with the exceptions named in the properties |
| `prover_ends` | every program ends, in tables or in a panic, unless it comes back to a state it was in, and then it loops forever |
| `instructions` | one step of every instruction at the boundaries of its operands, and every sequence of up to three of them: every row and padding row satisfies its AIR and writes the VM's value and next pc; of the other rows for its operands (`Rows`), those that are accepted and have the columns of `InRange` in range write the same value; the byte, logic and shift lookups balance and each has exactly one table that counts it; the lists of a proof are parallel |
| `instructions_wide` | limbs as wide as the code's, so that the shift amount leaves high bits in the low limb of rs2: rows are accepted and lookups balance |
| `comparisons` | which logs of registers and RAM have an acceptable memory table; rows and padding of the comparison tables are accepted, the three buses balance, up to the last timestamp that fits and past it; no other inverse, flag, bit or deciding limb is accepted for the operands of a row |
| `decode` | VM, builder and constraints read the same instruction in a word; the constraints accept no other, and none for a word the VM panics on; the three decode buses balance for sequences of instructions, padding rows included |
| `program_hash` | ROM and sponge satisfy their AIRs with the digest of the host, the image, byte and permutation buses balance; any rows that are accepted and absorb the ROM have the program's digest and length |

Three runs check statements of the repository that the code does not keep:

| violated run | shows |
|---|---|
| `low_bits` | rows of `Slt`, `SltiI`, `Sra` and `SraiI` are accepted with low bits of the top limb that a comment says are range-checked |
| `vm_x0`, `jalr_links` | an instruction other than a jump makes x0 nonzero; the row of a `Jalr` to x0 does not hold pc + 4 |

The runs of `MCInstructions` use words of sixteen bits. In `instructions`
they are four limbs of four bits, so carries cross three limb
boundaries as in the code, and a shift may move by whole limbs, by bits, or by
both; in `instructions_wide` they are two limbs of eight bits, because with
limbs of four bits a shift amount takes the whole low limb and
`rs2_shamt_high` would always be 0. Operands are the words where limbs, signs
and carries turn (0, 1, the largest limb, the next word, both ends of the
signed range, all ones) and one with four different limbs; immediates are the
ends of their ranges; shifts take every amount; pcs are such that `pc + 4`
carries into the second (12) and third limb (252). Runs of several steps are
drawn from one or two steps of each instruction (`MixedInputs`): a row is made
from its step alone, so mixing matters to the tables and counts only, and
`ResultForced` looks at runs of one step (`low_bits` has no others). Three steps
are enough for a table with a row of padding, for two rows of one instruction next to one of
another, and for a table shared by several instructions; the conditions under
which `generate_traces` builds a table are disjunctions over kinds, so a mix
that one of them misses has one or two. The jumps and upper
immediates are left out of `instructions_wide`, whose two limbs cannot hold
their fields.

`prover_ends` has two registers and `MaxSteps = 90`: with words of four bits a
run has at most 5 * 16 pairs of pc and the register its instructions write, so
every run comes back to one before the bound (90), which therefore cuts none
off. Its programs hold counters, backward and computed jumps, jumps between
instructions and past the end.

`comparisons` uses two limbs of two bits, timestamps of two bits and a clock
that runs to 5, past 3, the last one that fits; addresses differ in one limb,
in the other and in both, with the low limbs in either order, and two cells of
RAM, of which one has the address of a register. Four operations fill the four
rows of a table, three leave one of padding. Every pair of neighbours occurs in
a log of two operations, and for those `ComparisonForced` takes every value of
the other columns.

`decode` crosses every funct3, the opcodes and three more, the values of funct7
one bit away from those in use, and register fields and immediates at their
ends; runs of up to three steps are made of a word of each format, two of most,
and one that does not decode (`MixedFetches`).

`program_hash` has programs of 4 to 18 bytes over rows of four, so that each
length modulo the rate occurs with one to five rows, the last one partial or
full, and ROMs whose addresses reach the top limb (past 16 bytes). For each of
them `CommitmentForced` tries every way to spread bytes over the rows; rows that
send a byte the ROM does not have are not enumerated, because the balance of
the image bus rules them out.

The exceptions of the `prover` run are stated exactly where they can be:

* *x0 is an ordinary register* for all instructions but the jumps
  (run `vm_x0`), although it "must always read 0". Compiled programs use x0 as
  the destination of `nop` only, which writes 0; all theorems and runs say
  exactly what depends on it. Two consequences: a *Jalr to x0 logs a write that
  does not happen* when x0 is not 0 (`DroppedWrite` excludes these runs), and
  *padding rows have address 0, like x0*, so that a run in which only x0 is used
  and left nonzero is refused (`EndsInX0`; `MemoryAccepted` says that nothing
  else is).
* *`Jalr` to x0 cannot be proved* (run `jalr_links`): the VM logs the value 0
  for it and the AIR demands pc + 4. `ret` is such an instruction.
  `RowsAccepted` says that exactly these rows are refused, and `LinksNothing`
  names those of `InstructionTables`.
* *A run without an operation*, made of jumps to x0, ends in the VM and is then
  refused by the assertion "memory trace must have at least one operation"
  (`memory/trace.rs:70`). `Refuse` is that panic; `ProverEnds` counts it as an end.
* *Unaligned instructions*: the VM executes at any pc; a comment at
  `crates/air/src/decode/air.rs:721` takes it to be a multiple of 4. A word that
  straddles a limb boundary is fetched at addresses the ROM does not have, and
  `ProgramBusBalanced` says that the bus balances exactly without such words.

Three columns of the instruction rows are not held to what they are meant to be,
and `ResultForced` assumes two of them (`InRange`):

* *Low bits of a signed operand* (run `low_bits`). `Slt`, `SltiI`, `Sra` and
  `SraiI` split the top limb of an operand into a sign and the bits below it.
  The comments at `slt/air.rs:318`, `slti/air.rs:310`, `sra/air.rs:439` and
  `srai/air.rs:404` say that the low bits are range-checked to 0..127; the
  lookup goes to the table of all bytes. A limb of 128 or more is also sign 0
  and itself, and the comparison bit, or the bits a shift fills in, follow the
  sign.
* *Low limb of an immediate*. `imm = imm_se_bytes[0] + 256 * nibble`
  (`addi/air.rs:133` and its copies) with four free bits. In the logic
  instructions the logic table holds the limb to a byte; in `AddI`, `SltiI` and
  `SltiuI`, and for the target of `Jalr`, no lookup does, so that another nibble
  gives another immediate. No comment says that the limb is checked, so no run
  states it; without this part of `InRange`, TLC finds `ResultForced` violated by
  each of the three.
* *Lowest bit of a jump target*. `jalr/air.rs:199-206` argues
  from a byte range check of `next_pc[0]` that `sum_lsb` is the lowest bit of the
  sum. That lookup is not made, and it would not decide the bit: `sum[0]` less
  0 or 1 is a byte either way. It changes the next pc and not the value written,
  so `ResultForced`, which lets the bit vary (`WithLowestBit`), is silent about
  it.

Two more places where a comment and the code differ need no exception. Nothing
stops the clock at 2^24, which the documentation of
`timestamp_less_than.rs:173` asks for: `TimestampRowsAccepted` says that the rows
of such timestamps, which a release build makes, are refused. And
`jal/air.rs:17` calls a column "bits 31:20 of the instruction word" that holds a
reordering of them; both sides of the bus agree on the reordering
(`DecodeBusesBalanced`).

Fairness: `FairProverSpec` is weak fairness of the whole next-state relation.
`run` is a loop of one thread that never waits, and `generate_traces` is
sequential code after it, so something happens as long as something can. The
liveness property `ProverEnds` needs it; `LoopsForever` says of single steps why
its exception is one. All other properties are safety properties and their
specifications assume no fairness.

## Proofs

### The machine

The theorems about `Vm` hold for every number of registers, word size, `Alu`,
set of programs and length of run. They rest on `VmAssumption` only (types of
the constants; TLC evaluates it in every run).

* `VmTypeOK` (module `VmProofs`): types. `StepEffect` is the lemma the rest
  uses: whatever the instruction, a step that does not panic pushes a step
  whose operations carry consecutive timestamps from the clock on, within the
  ticks the clock advances, and form, for each register, a history from its
  value before to its value after. It is the only place where the instruction
  shapes are told apart.
* `VmLogOrdered` : `LogOrdered` is inductive given `StepEffect`.
  Its first half, all timestamps below the clock, is the strengthening its
  second half needs.
* `VmReadsLastWrite`, `VmLogGivesRegisters`: neither is inductive alone. "Each
  operation sees what the one before it left" says nothing about what the next
  step will read, which comes from the register file, not from the log; the
  invariant is their conjunction (`LogHistory`), for the registers that have
  not lost a write (`Logged`).
* `VmRecorded` : the trace records an execution. Step by
  step, it is the instruction at the pc of the step, applied to the registers of
  the step before at the clock of the step before plus what that took. This is
  what every table builder relies on when it looks at a step long after it was
  taken.
* `VmLoopsForever`: a run that comes back to a pc and registers it had never
  ends. The clock and the trace differ, so this is not about repeated states:
  it takes a lemma that a step depends on pc and registers only (`LoopStep`).
* `VmImplementsIsa`: every step of the VM is a step of
  `IsaMachine` or leaves its state alone, if x0 is 0 when it is taken. Only
  reads of registers need it; a write of x0 is invisible to the mapping.
* `X0StaysZero`: if only `Jal` and `Jalr` target x0 in the programs
  (`X0Safe`), x0 stays 0, and so the refinement holds without further
  hypothesis.

### The tables of a run

All the properties of the `prover` run are theorems, for the same constants and
every `LimbSize` above 0 (`LimbAssumption`): `ProverRowsAccepted`,
`ProverMemoryAccepted`, `ProverMemoryBusBalanced`, `ProverTraceBusBalanced`,
`ProverComparisonsBalanced`, `ProverProgramBusBalanced`.

`ProverRunsVm` says that a run of the prover is a run of the VM, so that the
invariants of the VM hold in it. The inductive invariant is

    ProverInv == TypeOK /\ Recorded /\ LogSound /\ TablesBuilt

None of the properties is inductive: each speaks of finished tables, and says
nothing while the run goes on. `TablesBuilt` says from which trace the tables
were made; `Recorded` and `LogSound` say what such a trace is like.
`LogSound` is what `LogOrdered` and `ReadsLastWrite` say of the steps, stated of
the flattened log as `MemoryProofs` needs it. The argument for each property then is about one finished trace:

* the sorted table is a permutation of the log, by the place of each operation
  (`SortedOpsSorts`), neighbours of one address in it are neighbours of that
  address in the log (`HistoryAccepted`), and a bag does not depend on the
  order (`SameBag`, `FlattenBlocks`);
* the builder of `Jal` replays the clock (`RunningClock`), and it comes out at
  the clock of the VM because `Recorded` fixes what each step takes;
* execution rows chain since each receives what the one before it sends;
* a fetch is counted at the byte it reads (`RomCounts`), and a word whose bytes
  cross a limb boundary is the only one whose addresses are not four
  consecutive bytes (`LimbSteps`).

### The tables of the instructions

`RowsAlwaysSatisfyAirs`, `RowsAlwaysAgreeWithVm`, `ResultAlwaysForced` and
`LookupsAlwaysBalanced` hold for every set of inputs and every width and number of limbs the assumptions
allow. `RowsAssumption` asks for two limbs or more of more than one bit, whole
shift amounts in a limb and a short immediate that reaches into the second
limb, as in the code (4 limbs of 8 bits, immediates of 12);
`InputsAssumption` that operands are words, that an immediate is one the
instruction can have (`Immediates`), and that the word of an instruction ends
before the address space does. The inductive invariant is

    TableInv == the steps are those of Inputs with the value of the VM, and the
                tables and counts, once there, are those of the steps

The argument is about one row, and one lemma per gadget of `u32_ops.rs`:

* *Carries and borrows.* The carry into limb i + 1 of x + y is the quotient of
  x + y by the weight of that limb less the quotients of x and y. So the limb
  equations telescope (`AddGadget`, `SubGadget`, `FourGadget`), a carry is a bit
  (`CarryIsBit`), and what is left over is the wrap at 2^XLEN.
* *Shifts.* A shift moves by whole limbs and by bits within one: `LeftLimb` and
  `RightLimb` say which two limbs of the operand make a limb of the result, and
  `SelectGadget` that the selectors of the row pick these two. The arithmetic
  shifts fill with the sign (`SignFills`).
* *Comparisons.* The last borrow of a difference is unsigned `<` (`LastBorrow`);
  the signed one corrects it by the two sign bits (`SignSplits`, `SignedLess`).
* *Immediates.* A sign-extended immediate is its low bits and a run of the sign
  (`ImmGadget`); the upper one and that of Jal are put together from the parts
  the decode bus carries (`UpperGadget`, `JumpGadget`).
* *No other result.* `OnlyResult` is about any row at all with the operands of a
  step that is accepted and keeps the columns of `InRange` in range, whatever
  its other columns hold; `ResultAlwaysForced` applies it to the rows of
  `Altered`, which have those operands (`AlteredFits`). Two such rows are compared.
  What takes the operands apart is unique: the sign and the low bits
  (`SignForced`), the bits and limbs of an immediate (`ImmForced`), the upper
  bytes that `Lui` and `Auipc` look up (`UpperBytesListed`), and the amount of a
  shift, whose selectors are one-hot and whose table rows know only amounts
  below the width of a limb (`AmountForced`, `PartsForced`). With equal parts
  the limb equations fix value and carries together, limb by limb from the
  lowest one (`SumForced`, `DifferenceForced`, `LinkForced`), a logic or shift
  table answers with one result (`LogicForced`, `ShiftForced`). `NoRival`
  collects the 23 instructions.

Rows of padding are rows of a step of zeros (`PaddingHonest`), so what is proved
of a row covers them.

`LookupsAlwaysBalanced` compares two sequences that are put together in different
orders: `generate_traces` counts step by step, words before single bytes before
table rows, and the tables send instruction by instruction, row by row. Both are
the same up to a bijection of their positions (`Rearranged`):

* *One step.* What a row looks up is what its step is counted for
  (`StepMatched`, one lemma per family). Here the two computations meet: the
  difference that is counted is the one the borrow chain leaves
  (`DifferenceWord`), the seven low bits are those of the sign gadget
  (`LowOfTop`), the shift rows of `byte_sll` and `byte_srl` those of the operand
  (`ShiftRows`). A Jalr to x0, whose row no AIR accepts, is balanced all the same.
* *All steps.* Grouping the steps by instruction is a rearrangement
  (`GroupsRearranged`), and so is replacing blocks by rearranged ones
  (`BlocksRearranged`). The rows of padding send nothing (`PaddingSilent`).
* A rearrangement has every tuple as often (`SameOccurrences`).

### The list of AIRs

`InstancesAlwaysMatch` and `LookupsAlwaysServed` hold for the same constants.
`ListInv` says where the assembly stands, and that each list is the one its
conditions make of the kinds of instructions that ran. Then:

* The AIRs a run asks for and the tables it builds are put together by separate
  disjunctions over kinds; that they agree is a statement about sets of kinds
  (`NeedsAgree`, `BuiltAsAsked`). Both lists are flattened from the same
  sequence of optional entries, so they agree by position, and no AIR occurs
  twice because no name does (`OptionalNames`, `Assembly`).
* A lookup is sent only by an instruction that ran (`ServedAreSent`), the table
  it asks for is built then (`ServerBuilt`, `FixedBuilt`), and no other table
  answers to its tuple (`OneServer`).

### The comparison tables

All the properties of the `comparisons` run are theorems:
`ComparisonU32RowsAccepted`, `ComparisonTimestampRowsAccepted`,
`ComparisonTablesForced`, `ComparisonTypedAccepted`,
`ComparisonBusesAreBalanced` and `ComparisonBytesBalanced`. They hold for every
log, every prime `P`, and every width of limbs and timestamps that leaves room
in the field (`FieldAssumption`; the code's values satisfy it, and TLC evaluates
it for those of the run). The inductive invariant is

    ComparisonInv == clock \in 0 .. MaxTime /\ LogInOrder /\ LogOfCells
                     /\ TablesOfLog

`LogOfCells` says that an operation finds what the last one on its cell left and
that its address is a u32: without the first no memory table is accepted,
without the second two addresses could have the same limbs.

Acceptance of honest rows needs `LogInOrder`: the builder of the timestamp table
subtracts without looking, and only because the log is ordered is the
difference of neighbours the one its AIR recomposes. The forced direction is
arithmetic. An inverse exists for what is not 0 (`InverseExists`), a product is
0 only if a factor is (`NoZeroDivisors`, both from `P` being prime), so the
is-zero flags tell the truth (`IsZeroForced`); bits that recompose a number are
its digits, since a sum of digits below the base is unique (`BitsOfValue`,
`TopBit`), and the sign of a difference is its top bit (`TimestampDecides`); marks on the limbs of
an address that are accepted mark the most significant limb in which the two differ
(`MarkedIsSent`, `LimbDecides`), and the byte table answers for that limb.

The other three theorems are about the sorted log, in which a place before
another holds the smaller type, then address, then time (`TypedSortedSorts`):

* *Which memory tables are accepted.* `TypedTableRows` says what each row and
  the row after it hold. `TypedHistoryAccepted` goes through the pairs: within a
  cell, values follow since neighbours in the sorted log are neighbours on their
  cell in the log, whose values follow in every run (`HistoryKept`); where the
  address changes, the AIR demands only that the first access finds 0 and that the
  type does not go back, which padding after RAM does. What is left are the two
  seams: the last register and the first RAM cell (`LastRegisterIs`,
  `FirstRamIs`, `MeetingCrosses`), and the last register and the padding. So the
  exceptions of `TypedAccepted` are all there are.
* *The buses of addresses and timestamps.* The rows of the memory table that ask
  for a comparison and the entries the prover makes are two lists over the pairs
  of neighbours with one type. `NeighbourPlaces` and `TimestampPlaces` give the
  bijections, and then the tuples agree pair by pair: limbs and equality flag of
  an address (`FlaggedIs`), and of a timestamp that fits the remainder in the
  field, which is the number itself (`SmallRemainder`). Where a register and a RAM cell of one
  address meet, the table also asks for the comparison of their timestamps, and
  the prover offers none; this is the exception `ComparisonBusesBalanced` states.
* *The pairs of bytes.* An unequal entry marks one limb and so sends one pair
  (`DecidingSent`), the one `memory_lookup_entries` counts (`DecidingPlaces`).
  `PairRowIs` shows by the sum of a triangle (`TriangleStep`) that the row it
  computes for a pair is the one the nested loops of the table put it in, so a
  count lands on the pair it is for (`PairsCounted`).

### The decode table

`DecodeTableAccepted`, `DecodeTableForced` and `DecodeBuses` hold for every set
of words and every length of run (`DecodeAssumption`: a word is 32 bits). The
inductive invariant `DecodeInv` says that the steps are those of words the VM
decodes, that a word it panicked on is not one, and that the table is the one
`build_trace` makes of the steps. The argument is about one word:

* The three tables of codes agree (`CodesAgree`), and no two instructions have
  codes that one word meets (`OneCode`). So a row over the bits of a word that
  claims to be an instruction is accepted exactly when the VM decodes the word
  to it (`RowAccepted`).
* A slice of n bits is below 2^n (`BitsRange`) and is its lower part plus 2^m
  times its upper part (`SplitBits`). This puts together the immediate of Lui
  and Auipc, which the table keeps in two columns, and that of Jal
  (`JumpForm`, `JumpParts`), whose bits are scattered.
* Of the three offers of a row one is made, and none under padding (`Offered`).

### The commitment to the program

`RomTableAccepted`, `HashTableAccepted`, `HashBuses` and `CommitmentIsForced`
hold for every set of programs, width of limbs, rate, permutation and length of
run. `HashAssumption` asks that the bytes of a rate element, a row of the sponge
and the addresses below the top limb fit in the field, which the code's values
do (24 bits and a prime near 2^31), and that programs are functions to bytes. The inductive
invariant is

    HashInv == the program is one of Programs, every step fetched inside it,
               and the tables are those of the run (TablesOfRun)

* *The ROM.* The carry into limb i + 1 is 1 exactly when the limbs up to i
  overflow, which is the difference of the quotients of a and a + 1 by the
  weight of the limb (`Carries`); so each row increments the one before
  (`AddressIncrements`), and what can fail is only the top limb, from
  `2 ^ (LimbBits * Top)` rows on (`TopFree`).
* *The sponge.* `build_trace` goes from the last row to the first, and
  `compute_program_digest` counts rows from the end: both reach the same state
  (`SameDigest`). Whatever the length is modulo the rate, the padded lanes the
  AIR packs are those the host packs (`SpongePacked`).
* *The buses.* The rows put together, the bytes they send are the program cut
  into blocks (`FlattenCut`). `HashBuses` and `CommitmentIsForced` are stated
  for runs whose ROM is accepted: an address is one field element on
  `program_image`, and a program longer than the field has two bytes at one
  address. The runs of TLC have no such program, and check both without that
  hypothesis.
* *The commitment.* The lemma behind `CommitmentIsForced`,
  `PublicValuesForced`, speaks of any number of rows with any columns of which the
  AIR accepts all and whose permutations were done. Selectors that are
  accepted have their ones first, within a row and from row to row, and no row is
  partly filled but the last real one (`OnesFirst`, `ChunksForced`), so the rows absorb
  some m bytes in order. As a bag, what they send is the image of the ROM, in
  which no address occurs twice, and this fixes m and every byte
  (`BytesForced`). Then state and count follow row by row (`StatesForced`,
  `LengthForced`).

### Induction over data

A running clock, a flattened log, the digits of a number and the places of a
sort are recursive functions. The induction theorems of the library take an
operator as parameter, which the installed provers cannot instantiate.
`DataLemmas` does without: `LeastNatural` gives a nonempty set of numbers a least
element, `InductionTo` concludes from it that a set which holds 0 and successors
holds `0 .. n`, and each recursive function is met by a lemma that proves that a
function following the recursion exists (`FlattensExists`, `DigitsStep`,
`RunningClock`, `TraceStatesStep`), after which CHOOSE picks it.

### Model-checked only

Every invariant and action property of a passing run is a theorem, and so is the
refinement of `IsaMachine`. With TLC stays:

* `ProverEnds`: liveness under fairness is out of the prover's reach, and so is
  `ENABLED`. No module uses a RECURSIVE operator.

## Not modelled

* RAM in the VM: it has none; the memory table is modelled for both spaces.
* The rounds of Poseidon2, in the chip and in `permute_in_host`: the constraints
  belong to an external crate, and a model of both would be the same function
  twice.
* The STARK backend (`build_config`, `prove_batch`, FRI): its soundness is not a
  statement about this code.
* Printing of traces and lookups (`debug.rs`), and the tests.
* Exhaustion of memory, and a clock past 2^32: a run that long ends at the
  timestamp table first.

## Plan

In the order of what would hurt most if it were wrong:

1. `Vm`, `VmIsa`, `MemoryTable`, `Prover`: done, checked and proved.
2. `Limbs`, `InstructionRows`, `InstructionAirs`, `InstructionTables`,
   `AirList`: done, checked and proved.
3. `Decode`, `DecodeTables`, `ProgramHash`: done, checked and proved.
4. `MemoryTypes`, `ComparisonTables`: done, checked and proved.
5. Open: once the code range-checks the columns of `InRange`, `ResultForced`
   without that hypothesis, and the next pc of the jumps as part of what it
   forces; RAM in the VM, once the code has loads and stores.
