\* The pool: four clients share two slots, so two can wait at once; one
\* descriptor more than slots, so a destroyed connection can be replaced by
\* another one.
\* The queue: two producers and three consumers that call for ever, two
\* different elements, two slots: both indices wrap round, more consumers can
\* sleep than there are slots, and waiters of both kinds meet.
CONSTANTS
  Clients = {g1, g2, g3, g4}
  Conns = {k1, k2, k3}
  MaxSize = 2
  Nil = Nil
  Enqueuers = {p1, p2}
  Dequeuers = {c1, c2, c3}
  Values = {a, b}
  Capacity = 2
  NoValue = NoValue
SPECIFICATION PartSpec
\* A NewPool that failed leaves nothing to do, and the goroutines of the queue
\* may all wait for a partner that never calls.
CHECK_DEADLOCK FALSE
INVARIANTS
  SlotConservation
  ExclusiveLease
  RingConsistent
  NoMissedBroadcast
PROPERTIES
  AcquireReturns
  ImplementsPermits
  ImplementsFifoQueue
