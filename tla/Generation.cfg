SPECIFICATION FairSpec
CONSTANTS
  Processes = {p1, p2}
  Videos = {v1}
  Attempts = {a1, a2, a3}
  Interval = 2
  MaxPolls = 2
  Delay = 4
  StoredAnswers = {TRUE, FALSE}
  Endpoint = TRUE
  None = None
INVARIANTS TypeOK GivesUpOnlyOnSlowProvider OnlyAbandonedJobsStay ResultFindsObject
PROPERTIES AttemptEnds
CHECK_DEADLOCK FALSE
