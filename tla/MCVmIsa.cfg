\* Programs in which only Jal and Jalr, and writes of 0, target x0.
CONSTANTS
  NumRegs = 3
  WordSize = 16
  XLEN = 4
  UpperShift = 2
  MaxSteps = 5
  Unsupported = Unsupported
  Alu <- RvAlu
  Programs <- CleanPrograms
SPECIFICATION Spec
INVARIANT X0AlwaysZero
PROPERTY ImplementsIsa
\* A run ends when pc leaves the program, or panics.
CHECK_DEADLOCK FALSE
