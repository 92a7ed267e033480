\* Every length from one to five rows of the sponge, past the end of the
\* addresses the ROM accepts.
CONSTANTS
  LimbBits = 2
  NumLimbs = 3
  P = 67
  BytesPerRateElem = 2
  RateElems = 2
  Width = 3
  DigestLen = 2
  Permute <- Scramble
  Programs <- SomePrograms
  MaxSteps = 2
SPECIFICATION HashSpec
INVARIANTS
  RomAccepted
  HashAccepted
  HashBusesBalanced
  CommitmentForced
\* A run ends when its tables are built.
CHECK_DEADLOCK FALSE
