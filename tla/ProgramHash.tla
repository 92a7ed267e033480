----------------------------- MODULE ProgramHash ----------------------------
(***************************************************************************)
(* The commitment to the program: the byte ROM of crates/air/src/program,  *)
(* the sponge over its bytes of crates/air/src/program_hash, whose digest  *)
(* and length are the public values of a proof, and the permutation chip   *)
(* of crates/air/src/poseidon2_chip, as generate_traces of                 *)
(* crates/prover/src/lib.rs builds them for a run.                         *)
(*                                                                         *)
(* The Poseidon2 permutation is a constant operator: nothing depends on    *)
(* which one it is.  Field elements are numbers below P.  A program and    *)
(* the rows of a table are functions from 0.                               *)
(***************************************************************************)
EXTENDS Limbs, FiniteSets, Sequences, TLC, SequencesExt

CONSTANTS
  P,                \* the order of the field
  BytesPerRateElem, \* bytes packed in an element (3 in the code)
  RateElems,        \* elements absorbed by a row (8)
  Width,            \* elements of a state (16)
  DigestLen,        \* elements of a digest (8)
  Permute(_),       \* the permutation of a state
  Programs,         \* the programs, functions from 0 .. n - 1 to bytes
  MaxSteps          \* bound: the steps of a run

BytesPerRow == BytesPerRateElem * RateElems

ASSUME HashAssumption ==
  /\ P \in Nat /\ 2 ^ (LimbBits * BytesPerRateElem) <= P /\ 2 ^ (LimbBits * Top) <= P
  /\ BytesPerRateElem \in Nat \ {0} /\ BytesPerRow < P
  /\ Width \in Nat /\ RateElems \in 1 .. Width /\ DigestLen \in 1 .. Width
  /\ \A p \in Programs : /\ IsFiniteSet(DOMAIN p)
                         /\ p \in [0 .. Cardinality(DOMAIN p) - 1 -> 0 .. Base - 1]

InRow   == 0 .. BytesPerRow - 1
Lane    == 0 .. Width - 1
Rate    == 0 .. RateElems - 1
Zero    == [g \in Lane |-> 0]
Digest(state) == [g \in 0 .. DigestLen - 1 |-> state[g]]

DivCeil(n, d) == (n + d - 1) \div d

Length(program) == Cardinality(DOMAIN program)

(***************************************************************************)
(* program/trace.rs and program/air.rs                                     *)
(***************************************************************************)
\* inc_carries: the carry of the last limb is cut off at eight bits.
IncCarries(addr) ==
  LET c[i \in Limb] == (LimbsOf(addr)[i] + (IF i = 0 THEN 1 ELSE c[i - 1])) \div Base
  IN  c

\* Mutant: the fetches of padding rows are spread over the whole table.
RomMultsAnywhere(program, pcs, padding) ==
  [a \in 0 .. NumRows(Length(program)) - 1 |->
     Cardinality({k \in DOMAIN pcs : a \in pcs[k] .. pcs[k] + 3}) + padding]

RomMults(program, pcs, padding) ==
  [a \in 0 .. NumRows(Length(program)) - 1 |->
     Cardinality({k \in DOMAIN pcs : a \in pcs[k] .. pcs[k] + 3}) + IF a < 4 THEN padding ELSE 0]

RomTable(program, mults) ==
  [a \in DOMAIN mults |->
     LET real == a < Length(program)
     IN  [address |-> LimbsOf(a), value |-> IF real THEN program[a] ELSE 0, mult |-> mults[a],
          inc_carries |-> IncCarries(a), is_real |-> IF real THEN 1 ELSE 0]]

RomAccepts(t) ==
  /\ \A i \in Limb : t[0].address[i] = 0
  /\ \A r \in DOMAIN t :
       /\ t[r].inc_carries[Top] = 0 /\ t[r].address[Top] = 0
       /\ Boolean(t[r].is_real)
       /\ t[r].mult * (1 - t[r].is_real) = 0
  /\ \A r \in DOMAIN t \ {Cardinality(DOMAIN t) - 1} :
       /\ U32Inc(t[r].address, t[r + 1].address, t[r].inc_carries)
       /\ t[r].is_real = 0 => t[r + 1].is_real = 0

\* The address of a row as one field element, and what it receives on the
\* program_image bus.
AddrCombined(address) == Digits(address, Base, NumLimbs)[0] % P

RomImage(t) == {<<AddrCombined(t[r].address), t[r].value>> : r \in {r \in DOMAIN t : t[r].is_real = 1}}

(***************************************************************************)
(* program_hash/trace.rs                                                   *)
(***************************************************************************)
\* BytesPerRateElem bytes from start, zeros past the end.
pack_lane(program, start) ==
  Digits([k \in 0 .. BytesPerRateElem - 1 |->
            IF start + k < Length(program) THEN program[start + k] ELSE 0],
         Base, BytesPerRateElem)[0]

NumRealRows(program) == DivCeil(Length(program), BytesPerRow)

\* Mutant: the absorbed lanes replace those of the state.
AbsorbOver(program, row, state) ==
  [g \in Lane |->
     IF g \in Rate THEN pack_lane(program, row * BytesPerRow + g * BytesPerRateElem) ELSE state[g]]

Absorb(program, row, state) ==
  [g \in Lane |->
     IF g \in Rate
     THEN (state[g] + pack_lane(program, row * BytesPerRow + g * BytesPerRateElem)) % P
     ELSE state[g]]

\* compute_program_digest: the state after n rows, absorbed from the last to
\* the first.
HostStates(program) ==
  LET state[n \in 0 .. NumRealRows(program)] ==
        IF n = 0 THEN Zero
        ELSE Permute(Absorb(program, NumRealRows(program) - n, state[n - 1]))
  IN  state

compute_program_digest(program) ==
  [digest |-> Digest(HostStates(program)[NumRealRows(program)]), length |-> Length(program) % P]

NumHashRows(program) == NumRows(NumRealRows(program) + 1)

\* build_trace: the state of each row, filled in from the last to the first.
TraceStates(program) ==
  LET state[row \in 0 .. NumRealRows(program)] ==
        IF row = NumRealRows(program) THEN Zero
        ELSE Permute(Absorb(program, row, state[row + 1]))
  IN  state

HashTable(program) ==
  LET n     == Length(program)
      real  == NumRealRows(program)
      state == TraceStates(program)
      At(row, i) == row * BytesPerRow + i
  IN  [row \in 0 .. NumHashRows(program) - 1 |->
         [base_addr  |-> At(row, 0) % P,
          bytes      |-> [i \in InRow |-> IF At(row, i) < n THEN program[At(row, i)] ELSE 0],
          is_active  |-> [i \in InRow |-> IF At(row, i) < n THEN 1 ELSE 0],
          flag       |-> IF row < real THEN 1 ELSE 0,
          cum_active |-> Min({n, At(row + 1, 0)}) % P,
          perm_in    |-> IF row < real THEN Absorb(program, row, state[row + 1]) ELSE Zero,
          perm_out   |-> IF row < real THEN state[row] ELSE Zero,
          state      |-> IF row < real THEN state[row] ELSE Zero]]

(***************************************************************************)
(* program_hash/air.rs: what is asked of a row alone, of a row with the    *)
(* next one, and of the first and the last with the public values.         *)
(***************************************************************************)
SumActive(row) == Cardinality({i \in InRow : row.is_active[i] = 1})

Packed(row, g) ==
  Digits([k \in 0 .. BytesPerRateElem - 1 |-> row.bytes[BytesPerRateElem * g + k]],
         Base, BytesPerRateElem)[0]

\* Mutant: a row may be real without absorbing a byte.
ChunkAcceptsEmpty(row) ==
  /\ Boolean(row.flag) /\ \A i \in InRow : Boolean(row.is_active[i])
  /\ \A i \in InRow \ {0} : row.is_active[i] = 1 => row.is_active[i - 1] = 1
  /\ \A i \in InRow : row.is_active[i] = 1 => row.flag = 1
  /\ \A i \in InRow : row.is_active[i] = 0 => row.bytes[i] = 0

\* Selectors, and what they say of the bytes.
ChunkAccepts(row) ==
  /\ Boolean(row.flag) /\ \A i \in InRow : Boolean(row.is_active[i])
  /\ \A i \in InRow \ {0} : row.is_active[i] = 1 => row.is_active[i - 1] = 1
  /\ \A i \in InRow : row.is_active[i] = 1 => row.flag = 1
  /\ row.is_active[0] = row.flag
  /\ \A i \in InRow : row.is_active[i] = 0 => row.bytes[i] = 0

StateAccepts(row) ==
  IF row.flag = 0 THEN row.state = Zero ELSE row.state = row.perm_out

ChunksAccept(row, next) ==
  /\ next.flag = 1 => row.flag = 1
  /\ row.flag = 1 /\ next.flag = 1 => row.is_active[BytesPerRow - 1] = 1
  /\ next.base_addr = (row.base_addr + BytesPerRow) % P
  /\ next.cum_active = (row.cum_active + SumActive(next)) % P

AbsorptionAccepts(row, next) ==
  row.flag = 1 =>
    row.perm_in = [g \in Lane |-> IF g \in Rate THEN (next.state[g] + Packed(row, g)) % P
                                  ELSE next.state[g]]

LastRow(t) == Cardinality(DOMAIN t) - 1

\* The constraint on perm_in also holds between the last row and the first,
\* where flag = 0 disables it.
HashAccepts(t, pv) ==
  /\ t[LastRow(t)].flag = 0
  /\ \A r \in DOMAIN t \ {LastRow(t)} : ChunksAccept(t[r], t[r + 1])
  /\ t[0].base_addr = 0 /\ t[0].cum_active = SumActive(t[0])
  /\ \A r \in DOMAIN t : ChunkAccepts(t[r]) /\ StateAccepts(t[r])
  /\ \A r \in DOMAIN t : AbsorptionAccepts(t[r], t[(r + 1) % Cardinality(DOMAIN t)])
  /\ Digest(t[0].state) = pv.digest
  /\ t[LastRow(t)].cum_active = pv.length

\* The tuples sent, in order: on program_image with the address derived from
\* base_addr, on bytes, and on poseidon2_perm.
RowImage(row) ==
  FlattenSeq([k \in 1 .. BytesPerRow |->
    IF row.is_active[k - 1] = 1 THEN << <<(row.base_addr + k - 1) % P, row.bytes[k - 1]>> >> ELSE <<>>])
ImageSends(t) == FlattenSeq([k \in 1 .. Cardinality(DOMAIN t) |-> RowImage(t[k - 1])])
BytesSends(t) == LET sends == ImageSends(t) IN [k \in DOMAIN sends |-> sends[k][2]]
PermSends(t) ==
  FlattenSeq([k \in 1 .. Cardinality(DOMAIN t) |->
    IF t[k - 1].flag = 1 THEN << <<t[k - 1].perm_in, t[k - 1].perm_out>> >> ELSE <<>>])

(***************************************************************************)
(* poseidon2_chip: the permutations, and the selector of the real ones,    *)
(* which the AIR makes from the number it is constructed with.             *)
(***************************************************************************)
ChipTable(inputs) ==
  [r \in 0 .. NumRows(Len(inputs) + 1) - 1 |->
     LET input == IF r < Len(inputs) THEN inputs[r + 1] ELSE Zero
     IN  [inputs |-> input, outputs |-> Permute(input)]]

\* Mutant: every row of the trace is selected.
IsRealWhole(num_real_rows) == [r \in 0 .. NumRows(num_real_rows + 1) - 1 |-> 1]

IsReal(num_real_rows) ==
  [r \in 0 .. NumRows(num_real_rows + 1) - 1 |-> IF r < num_real_rows THEN 1 ELSE 0]

ChipReceives(t, is_real) ==
  FlattenSeq([k \in 1 .. Cardinality(DOMAIN t) |->
    IF is_real[k - 1] = 1 THEN << <<t[k - 1].inputs, t[k - 1].outputs>> >> ELSE <<>>])

(***************************************************************************)
(* A run: instructions are fetched wherever four bytes are left, and the   *)
(* tables are built.                                                       *)
(***************************************************************************)
VARIABLES
  program, \* the program
  pcs,     \* the pc of every step
  tables   \* the tables and public values, or <<>>

hashVars == <<program, pcs, tables>>

HashInit == program \in Programs /\ pcs = <<>> /\ tables = <<>>

ExecuteStep ==
  /\ tables = <<>> /\ Len(pcs) < MaxSteps
  /\ \E pc \in IF pcs = <<>> THEN {0} ELSE DOMAIN program :
       pc + 3 < Length(program) /\ pcs' = Append(pcs, pc)
  /\ UNCHANGED <<program, tables>>

TablesOfRun ==
  LET mults  == RomMults(program, pcs, NumRows(Len(pcs)) - Len(pcs))
      hash   == HashTable(program)
      inputs == [k \in 1 .. NumRealRows(program) |-> hash[k - 1].perm_in]
  IN  [rom |-> RomTable(program, mults), hash |-> hash,
       public_values |-> compute_program_digest(program),
       byte_mults |-> ToBag([k \in 1 .. Length(program) |-> program[k - 1]]),
       chip |-> ChipTable(inputs), is_real |-> IsReal(Len(inputs))]

BuildTables ==
  /\ tables = <<>> /\ pcs # <<>>
  /\ tables' = TablesOfRun
  /\ UNCHANGED <<program, pcs>>

HashNext == ExecuteStep \/ BuildTables

HashSpec == HashInit /\ [][HashNext]_hashVars

(***************************************************************************)
(* Properties                                                              *)
(***************************************************************************)
Built == tables # <<>>

\* The ROM satisfies its AIR whatever the program and the jumps, in so far as
\* its addresses leave the top limb free (a program of at most 16 MiB).
RomAccepted ==
  Built => (RomAccepts(tables.rom) <=> NumRows(Length(program)) <= 2 ^ (LimbBits * Top))

\* The rows of the sponge satisfy their AIR with the public values the host
\* computes on its own, whatever the length is modulo the rate.
HashAccepted == Built => HashAccepts(tables.hash, tables.public_values)

\* The sponge absorbs every real byte of the ROM once, at its address, has it
\* range checked, and has every permutation done by the chip, whose selector
\* is as long as its trace and tells the real rows from the padding.
HashBusesBalanced ==
  Built =>
    /\ ToBag(ImageSends(tables.hash)) = SetToBag(RomImage(tables.rom))
    /\ ToBag(BytesSends(tables.hash)) = tables.byte_mults
    /\ DOMAIN tables.chip = DOMAIN tables.is_real
    /\ ToBag(PermSends(tables.hash)) = ToBag(ChipReceives(tables.chip, tables.is_real))

\* Rows of any choice of selectors and bytes, with the columns that follow.
Chunks == {c \in [flag : {0, 1}, is_active : [InRow -> {0, 1}], bytes : [InRow -> 0 .. Base - 1]] :
             ChunkAccepts(c)}

PermIn(chunk, below) ==
  [g \in Lane |-> IF g \in Rate THEN (below[g] + Packed(chunk, g)) % P ELSE below[g]]

FilledStates(chunks) ==
  LET height == Cardinality(DOMAIN chunks)
      state[row \in 0 .. height] ==
        IF row = height \/ chunks[row].flag = 0 THEN Zero
        ELSE Permute(PermIn(chunks[row], state[row + 1]))
  IN  state

FilledCounts(chunks) ==
  LET cum[row \in 0 .. Cardinality(DOMAIN chunks) - 1] ==
        ((IF row = 0 THEN 0 ELSE cum[row - 1]) + SumActive(chunks[row])) % P
  IN  cum

Filled(chunks) ==
  LET state == FilledStates(chunks)
      cum   == FilledCounts(chunks)
  IN  [row \in DOMAIN chunks |->
         [base_addr |-> (row * BytesPerRow) % P, cum_active |-> cum[row], state |-> state[row],
          perm_in   |-> IF chunks[row].flag = 0 THEN Zero ELSE PermIn(chunks[row], state[row + 1]),
          perm_out  |-> state[row],
          flag |-> chunks[row].flag, is_active |-> chunks[row].is_active, bytes |-> chunks[row].bytes]]

\* The chunks row may have that send on program_image only what the ROM has,
\* and the sequences of these for the first height rows.
ChunksAt(row) ==
  LET image == RomImage(tables.rom)
  IN  {c \in Chunks : \A i \in InRow :
         c.is_active[i] = 1 => <<(row * BytesPerRow + i) % P, c.bytes[i]>> \in image}

ChunkSeqs(height) ==
  LET seqs[n \in 0 .. height] ==
        IF n = 0 THEN {<<>>} ELSE {Append(s, c) : s \in seqs[n - 1], c \in ChunksAt(n - 1)}
  IN  seqs[height]

\* The commitment is forced: any rows that satisfy the AIR and absorb the
\* bytes of the ROM, however these are spread over the rows, have the digest
\* and the length that are computed for the program.  The steps do not matter
\* to the bytes: runs of one are enough.
CommitmentForced ==
  Built /\ Len(pcs) = 1 =>
    \A chunks \in ChunkSeqs(Cardinality(DOMAIN tables.hash)) :
      LET t  == Filled([row \in DOMAIN tables.hash |-> chunks[row + 1]])
          pv == [digest |-> Digest(t[0].state), length |-> t[LastRow(t)].cum_active]
      IN  HashAccepts(t, pv)
            /\ ToBag(ImageSends(t)) = SetToBag(RomImage(tables.rom))
            => pv = tables.public_values

=============================================================================
