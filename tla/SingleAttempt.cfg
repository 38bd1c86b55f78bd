SPECIFICATION Spec
CONSTANTS
  v1 = v1
  q1 = q1
  w1 = w1
  w2 = w2
  None = None
  Videos = {v1}
  Requests = {q1}
  Workers = {w1, w2}
  MaxPollAttempts = 1
  RetryAttempts = 3
  MaxStalledCount = 1
  MaxCrashes = 0
  AlreadyStored = TRUE
  Env = {}
SYMMETRY Symmetry
INVARIANTS
  FailedAfterThreeAttempts
CHECK_DEADLOCK FALSE
