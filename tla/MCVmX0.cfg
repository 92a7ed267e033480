\* The comment on x0 in Jal, read as a claim about every program.
CONSTANTS
  NumRegs = 3
  WordSize = 16
  XLEN = 4
  UpperShift = 2
  MaxSteps = 5
  Unsupported = Unsupported
  Alu <- RvAlu
  Programs <- AllPrograms
SPECIFICATION Spec
INVARIANT X0AlwaysZero

\* A run ends when pc leaves the program, or panics.
CHECK_DEADLOCK FALSE
