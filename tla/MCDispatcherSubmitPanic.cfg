\* SubmitNeverPanics is refuted: see the findings of the README.
CONSTANTS
  Workers = {w1, w2}
  Jobs = {j1, j2, j3}
  NoJob = NoJob
SPECIFICATION SafeSpec
CHECK_DEADLOCK FALSE
INVARIANTS
  SubmitNeverPanics
