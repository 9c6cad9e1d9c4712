\* ClosePreventsAcquire is refuted: see the findings of the README.
CONSTANTS
  Clients = {g1, g2}
  Conns = {k1, k2}
  MaxSize = 1
  Nil = Nil
SPECIFICATION SafeSpec
CHECK_DEADLOCK FALSE
PROPERTIES
  ClosePreventsAcquire
