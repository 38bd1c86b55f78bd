SPECIFICATION Spec
CONSTANTS
  v1 = v1
  q1 = q1
  q2 = q2
  w1 = w1
  w2 = w2
  None = None
  Videos = {v1}
  Requests = {q1, q2}
  Workers = {w1, w2}
  MaxPollAttempts = 1
  RetryAttempts = 2
  MaxStalledCount = 1
  MaxCrashes = 2
  AlreadyStored = TRUE
  Env = {"crash", "lockLoss", "delete", "patch"}
SYMMETRY Symmetry
INVARIANTS
  QueueJobIdSound
  StuckOnlyIfLost
  OverlapOnlyAfterStall
PROPERTIES
  CompletedEventIsTrue
CHECK_DEADLOCK FALSE
