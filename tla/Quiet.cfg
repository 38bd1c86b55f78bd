SPECIFICATION Spec
CONSTANTS
  v1 = v1
  q1 = q1
  q2 = q2
  q3 = q3
  w1 = w1
  w2 = w2
  None = None
  Videos = {v1}
  Requests = {q1, q2, q3}
  Workers = {w1, w2}
  MaxPollAttempts = 2
  RetryAttempts = 2
  MaxStalledCount = 1
  MaxCrashes = 0
  AlreadyStored = TRUE
  Env = {"delete"}
SYMMETRY Symmetry
INVARIANTS
  FailedIsRecorded
  RetriedOnce
  JobTellsOfVideo
PROPERTIES
  ImplementsLifecycle
CHECK_DEADLOCK FALSE
