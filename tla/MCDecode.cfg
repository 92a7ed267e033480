\* Every pattern of opcode, funct3 and funct7 with the ends of the fields, and
\* sequences of instructions of every format, with padding rows.
CONSTANTS
  Fetches <- AllFetches
  MixedFetches <- FormatFetches
  MaxSteps = 3
SPECIFICATION DecodeSpec
INVARIANTS
  DecodeRowsAccepted
  DecodeBusesBalanced
  DecodeForced
\* A run ends when its table is built or the VM panics.
CHECK_DEADLOCK FALSE
