\* One step of every instruction at the boundaries of its operands, and runs
\* of up to three that mix them; no assertion fails.
CONSTANTS
  LimbBits = 4
  NumLimbs = 4
  XLEN = 16
  UpperShift = 6
  MaxSteps = 3
  Inputs <- AllSteps
  MixedInputs <- MixedSteps
SPECIFICATION ListSpec
INVARIANTS
  RowsSatisfyAirs
  RowsAgreeWithVm
  ResultForced
  LookupsBalanced
  InstancesMatch
  LookupsServed
