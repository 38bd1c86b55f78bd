SPECIFICATION FeedSpec
CONSTANTS
  v1 = v1
  q1 = q1
  q2 = q2
  w1 = w1
  w2 = w2
  c1 = c1
  None = None
  Videos = {v1}
  Requests = {q1, q2}
  Workers = {w1, w2}
  ApiProcesses = {w1}
  Clients = {c1}
  MaxPollAttempts = 2
  RetryAttempts = 2
  MaxStalledCount = 1
  MaxCrashes = 1
  AlreadyStored = TRUE
  Env = {"crash"}
INVARIANTS
  FeedTypeOK
  RecordsAreExhausted
  MissedOnlyElsewhere
PROPERTIES
  ForwardOnly
  EveryJobEnds
CHECK_DEADLOCK FALSE
