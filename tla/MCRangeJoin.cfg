\* RangeJoinMatches is refuted: see the findings of the README.
CONSTANTS
  Keys <- MCKeys
  MaxRows = 2
  MaxParts = 2
  WordSize = 256
SPECIFICATION OperatorSpec
CHECK_DEADLOCK FALSE
INVARIANTS
  RangeJoinMatches
