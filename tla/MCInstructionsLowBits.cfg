\* Single steps: an accepted row has other low bits of its top limb.
CONSTANTS
  LimbBits = 4
  NumLimbs = 4
  XLEN = 16
  UpperShift = 6
  MaxSteps = 1
  Inputs <- AllSteps
  MixedInputs <- MixedSteps
SPECIFICATION ListSpec
INVARIANTS
  LowBitsInRange
