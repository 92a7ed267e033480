\* The tables of every run of up to three instructions.
CONSTANTS
  NumRegs = 3
  WordSize = 16
  XLEN = 4
  UpperShift = 2
  MaxSteps = 5
  LimbSize = 8
  Unsupported = Unsupported
  Alu <- RvAlu
  Programs <- ProverPrograms
SPECIFICATION ProverSpec
INVARIANTS
  MemoryAccepted
  MemoryBusBalanced
  TraceBusBalanced
  ComparisonsBalanced
  ProgramBusBalanced
  RowsAccepted
\* A run ends when its tables are built or refused, or when the VM panics.
CHECK_DEADLOCK FALSE
