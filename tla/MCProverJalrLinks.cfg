\* A claim of the repository, on the runs of MCProver.
CONSTANTS
  NumRegs = 3
  WordSize = 16
  XLEN = 4
  UpperShift = 2
  MaxSteps = 5
  LimbSize = 8
  Unsupported = Unsupported
  Alu <- RvAlu
  Programs <- ProverPrograms
SPECIFICATION ProverSpec
INVARIANT JalrLinks
\* A run ends when its tables are built or refused, or when the VM panics.
CHECK_DEADLOCK FALSE
