SPECIFICATION Spec
CONSTANTS
  v1 = v1
  q1 = q1
  q2 = q2
  q3 = q3
  w1 = w1
  w2 = w2
  None = None
  Videos = {v1}
  Requests = {q1, q2, q3}
  Workers = {w1, w2}
  MaxPollAttempts = 1
  RetryAttempts = 2
  MaxStalledCount = 1
  MaxCrashes = 0
  AlreadyStored = TRUE
  Env = {"overlap"}
SYMMETRY Symmetry
INVARIANTS
  RetriedOnce
CHECK_DEADLOCK FALSE
