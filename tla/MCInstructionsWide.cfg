\* Two limbs of eight bits: the low limb of rs2 has bits above the shift amount.
CONSTANTS
  LimbBits = 8
  NumLimbs = 2
  XLEN = 16
  UpperShift = 12
  MaxSteps = 1
  Inputs <- WideSteps
  MixedInputs = {}
SPECIFICATION ListSpec
INVARIANTS
  RowsSatisfyAirs
  LookupsBalanced
