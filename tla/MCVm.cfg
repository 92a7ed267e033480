\* Every program of up to three instructions, with writes to x0.
CONSTANTS
  NumRegs = 3
  WordSize = 16
  XLEN = 4
  UpperShift = 2
  MaxSteps = 5
  Unsupported = Unsupported
  Alu <- RvAlu
  Programs <- AllPrograms
SPECIFICATION Spec
INVARIANTS
  TypeOK
  LogOrdered
  ReadsLastWrite
  LogGivesRegisters
\* A run ends when pc leaves the program, or panics.
CHECK_DEADLOCK FALSE
