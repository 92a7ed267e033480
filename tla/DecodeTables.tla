---------------------------- MODULE DecodeTables ----------------------------
(***************************************************************************)
(* The decode table of a run and the decode buses: one row per step,       *)
(* filled from the instruction word, against the tuple the row of the      *)
(* step's instruction AIR sends, built from the instruction the VM decoded *)
(* and executed.  A run is any sequence of fetches of words the VM decodes; *)
(* a word it does not decode ends it with a panic.                         *)
(***************************************************************************)
EXTENDS Decode

CONSTANTS
  Fetches,      \* the pairs of a pc and the word at it a run of one step may be of
  MixedFetches, \* bound: those that longer runs are made of
  MaxSteps      \* bound: the steps of a run

ASSUME DecodeAssumption ==
  /\ MixedFetches \subseteq Fetches /\ MaxSteps \in Nat
  /\ \A f \in Fetches : f[1] \in Nat /\ f[2] \in [0 .. 31 -> {0, 1}]

VARIABLES
  trace,       \* the steps of the VM: pc, instruction_word, instruction
  unsupported, \* the words on which the VM panicked
  decode       \* the decode table, once built

decodeVars == <<trace, unsupported, decode>>

DecodeInit == trace = <<>> /\ unsupported = {} /\ decode = <<>>

Executing ==
  /\ decode = <<>> /\ unsupported = {} /\ Len(trace) < MaxSteps
  /\ \A i \in DOMAIN trace : <<trace[i].pc, trace[i].instruction_word>> \in MixedFetches

Available == IF trace = <<>> THEN Fetches ELSE MixedFetches

Execute ==
  /\ Executing
  /\ \E f \in Available :
       /\ Decodes(f[2])
       /\ trace' = Append(trace, [pc |-> f[1], instruction_word |-> f[2],
                                  instruction |-> decode_instruction(f[2])])
  /\ UNCHANGED <<unsupported, decode>>

\* unimplemented!("not supported")
Panic ==
  /\ Executing
  /\ \E f \in Available : ~Decodes(f[2]) /\ unsupported' = {f[2]}
  /\ UNCHANGED <<trace, decode>>

\* Padding rows reuse the first step's word, with mult = 0.
build_trace ==
  [i \in 1 .. NumRows(Len(trace)) |->
     IF i <= Len(trace) THEN fill_row(trace[i].pc, trace[i].instruction_word)
     ELSE [fill_row(0, trace[1].instruction_word) EXCEPT !.mult = 0]]

GenerateTraces ==
  /\ decode = <<>> /\ unsupported = {}
  /\ trace # <<>>
  /\ decode' = build_trace
  /\ UNCHANGED <<trace, unsupported>>

DecodeNext == Execute \/ Panic \/ GenerateTraces

DecodeSpec == DecodeInit /\ [][DecodeNext]_decodeVars

\* The columns imm_high12 and imm_lo8 of a Jal, from its signed offset.
JalImmHigh12(imm) ==
  LET u == imm % 2 ^ 21
  IN  ((u \div 2) % 2 ^ 10) + ((u \div 2 ^ 11) % 2) * 2 ^ 10 + (u \div 2 ^ 20) * 2 ^ 11
JalImmLo8(imm) == ((imm % 2 ^ 21) \div 2 ^ 12) % 2 ^ 8

\* What the row of a step's instruction sends; its padding rows send nothing.
InstructionSends(s) ==
  LET i  == s.instruction
      id == InstructionId(i.op)
  IN  CASE i.op \in RTypes    -> <<"decode", s.pc, id, i.rd, i.rs1, i.rs2>>
        [] i.op \in ITypes    -> <<"decode", s.pc, id, i.rd, i.rs1, i.imm % 2 ^ 12>>
        [] i.op \in ShiftImms -> <<"decode", s.pc, id, i.rd, i.rs1, i.imm % 2 ^ 5>>
        [] i.op \in UTypes    -> <<"decode_u", id, i.rd, (i.imm \div 2 ^ 8) % 2 ^ 12, i.imm % 2 ^ 8>>
        [] i.op = "Jal"       -> <<"decode_j", id, i.rd, JalImmHigh12(i.imm), JalImmLo8(i.imm)>>

(***************************************************************************)
(* Properties                                                              *)
(***************************************************************************)
\* Every row of the decode table, padding included, satisfies the AIR: a word
\* that the VM decodes is flagged by the builder as exactly one instruction,
\* and its fields are the slices the constraints ask for.
DecodeRowsAccepted == \A i \in DOMAIN decode : Accepts(decode[i])

\* The instruction the VM executed, as its AIR names it on a decode bus, is
\* the one the decode table reads in the word: for every mix of instructions
\* each tuple sent is received as often.  The sign of an immediate and the
\* scattered offset of Jal are taken apart on one side and put together on
\* the other.
DecodeBusesBalanced ==
  decode # <<>> =>
    ToBag([i \in DOMAIN trace |-> InstructionSends(trace[i])])
      = ToBag(FlattenSeq([i \in DOMAIN decode |-> Receives(decode[i])]))

\* The row of w if it claimed to be instruction op.
Claimed(w, op) ==
  [fill_row(0, w) EXCEPT
     !.instr_type = [o \in Ops |-> IF o = op THEN 1 ELSE 0],
     !.instr_type_packed = InstructionId(op),
     !.imm_low8 = IF op \in UTypes \cup {"Jal"} THEN Bits(w, 12, 8) ELSE 0]

\* The constraints leave no choice: over the bits of a word that was executed
\* (the last one; an earlier one was the last before) only the instruction the
\* VM decodes is accepted, and over those of a word on which the VM panics
\* none is.
DecodeForced ==
  /\ trace # <<>> /\ decode = <<>> =>
       LET s == trace[Len(trace)]
       IN  \A op \in Ops : Accepts(Claimed(s.instruction_word, op)) <=> op = s.instruction.op
  /\ \A w \in unsupported : \A op \in Ops : ~Accepts(Claimed(w, op))

=============================================================================
