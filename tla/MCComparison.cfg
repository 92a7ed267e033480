\* The tables of every log of up to four operations, past the width of the
\* timestamps.
CONSTANTS
  LimbBits = 2
  NumLimbs = 2
  P = 11
  TsBits = 2
  Cells <- SomeCells
  Values = {0, 1}
  MaxOps = 4
  MaxTime = 5
SPECIFICATION ComparisonSpec
INVARIANTS
  TypedAccepted
  U32RowsAccepted
  TimestampRowsAccepted
  ComparisonBusesBalanced
  BytesLtBalanced
  ComparisonForced
\* A run ends when its tables are built or refused.
CHECK_DEADLOCK FALSE
