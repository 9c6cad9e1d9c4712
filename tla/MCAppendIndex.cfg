\* PublishedIsWritten is refuted: see the findings of the README.
CONSTANTS
  Inserts = {i1, i2}
  Queries = {q1}
  Ids = {1, 2}
  Limits <- MCLimits
  Nothing = Nothing
SPECIFICATION SafeSpec
CHECK_DEADLOCK FALSE
INVARIANTS
  PublishedIsWritten
