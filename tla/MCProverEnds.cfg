\* Loops, long enough for every run to come back to a state it was in.
CONSTANTS
  NumRegs = 2
  WordSize = 16
  XLEN = 4
  UpperShift = 2
  MaxSteps = 90
  LimbSize = 8
  Unsupported = Unsupported
  Alu <- RvAlu
  Programs <- LoopPrograms
SPECIFICATION FairProverSpec
PROPERTIES
  ProverEnds
  LoopsForever
\* A run ends when its tables are built or refused, or when the VM panics.
CHECK_DEADLOCK FALSE
