\* Three subscriptions to two topics of at most two subscribers each, three
\* calls of Close that race or retry; four workers for two permits; five
\* numbers for two processors; two methods and three calls of Close of the
\* stubs; and two inserts into the first index, with one query.
CONSTANTS
  Topics = {a, b}
  Subscriptions = {s1, s2, s3}
  Publishes = {p1}
  Closes = {c1, c2, c3}
  MaxSubscribersPerTopic = 2
  Workers = {w1, w2, w3, w4}
  N = 2
  Numbers = 5
  Methods = {m1, m2}
  Closings = {k1, k2, k3}
  Inserts = {i1, i2}
  Queries = {q1}
  Ids = {1, 2}
  Limits <- MCLimits
  Nothing = Nothing
SPECIFICATION Spec
\* Each program ends.
CHECK_DEADLOCK FALSE
INVARIANTS
  BusCloseDrains
  PipelinePrintsEachOnce
  CloseIsFinal
  AppendOffsetsAreSound
PROPERTIES
  SemaphoreImplementsPermits
  AppendImplementsSnapshotIndex
  ProgramsEnd
