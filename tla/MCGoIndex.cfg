\* Two inserts, of the same id or of two ids, one query with any minId and a
\* limit of none, one or all, and two calls of Close, in every order.
CONSTANTS
  Inserts = {1, 2}
  Queries = {q1}
  Closers = {1, 2}
  Ids = {1, 2}
  Limits = {0, 1, 2}
  Nothing = Nothing
SPECIFICATION MCSpec
\* When every call was made, or the program has died, nothing is left to do.
CHECK_DEADLOCK FALSE
INVARIANTS
  OffsetsAreSound
PROPERTIES
  CloseDrainsAdded
  CloseReturns
  ImplementsSnapshotIndex
