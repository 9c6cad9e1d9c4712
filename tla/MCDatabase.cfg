\* The index: two inserts, of the same id or of two ids, one query with any
\* arguments and two calls of Close, in every order.
\* The operators: all tables of up to four rows with three keys: keys missing on
\* one side, single and repeated; blocks and pages of one and two; partitions
\* that stay empty or receive several keys.
CONSTANTS
  Inserts = {1, 2}
  Queries = {q1}
  Closers = {1, 2}
  Ids = {1, 2}
  Limits <- MCLimits
  Nothing = Nothing
  Keys <- MCKeys
  MaxRows = 4
  MaxParts = 2
  WordSize = 256
SPECIFICATION PartSpec
\* When every call was made nothing is left to do.
CHECK_DEADLOCK FALSE
INVARIANTS
  IndexPointsAtRecords
  CloseDrains
  JoinsMatchDefinition
  SortMergeSortsTables
  GroupsMatchDefinition
PROPERTIES
  CloseReturns
  ImplementsSnapshotIndex
