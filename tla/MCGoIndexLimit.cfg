\* ResultsAreLimited is refuted: see the findings of the README.
CONSTANTS
  Inserts = {i1, i2}
  Queries = {q1}
  Closers = {c1}
  Ids = {1, 2}
  Limits = {0, 1, 2}
  Nothing = Nothing
SPECIFICATION SafeSpec
CHECK_DEADLOCK FALSE
INVARIANTS
  ResultsAreLimited
