\* Two workers (so both channels hold two) and three calls of Submit: either
\* channel can be full while the third job waits to get in.
CONSTANTS
  Workers = {w1, w2}
  Jobs = {j1, j2, j3}
  NoJob = NoJob
SPECIFICATION Spec
\* A dispatcher that was stopped, or whose program died, does nothing more.
CHECK_DEADLOCK FALSE
INVARIANTS
  JobConservation
PROPERTIES
  ImplementsTokenBucket
  AcceptedJobsAreDelivered
  StopReturns
  SubmitReturns
