\* Two workers, four submissions into a queue of two places (so that a
\* notified caller and a newcomer race for one place), two threads that may
\* each call either shutdown, and the pool's owner.
CONSTANTS
  Workers = {w1, w2}
  Tasks = {1, 2, 3, 4}
  QueueCapacity = 2
  Closers = {1, 2}
  Owner = owner
  NoTask = NoTask
SPECIFICATION MCSpec
\* After the destructor nothing is left to do, and callers may simply stop.
CHECK_DEADLOCK FALSE
INVARIANTS
  Backpressure
  TaskConservation
  GracefulLosesNothing
  NoLostWakeup
  ShutdownIsComplete
PROPERTIES
  ImmediateTakesNothing
  AcceptedTasksSettle
  BlockedPushReturns
  ShutdownReturns
  ImplementsTaskPool
