SPECIFICATION Spec
CONSTANTS
  u1 = u1
  u2 = u2
  e1 = e1
  e2 = e2
  n1 = n1
  v1 = v1
  v2 = v2
  v3 = v3
  None = None
  Users = {u1, u2}
  Emails = {e1, e2}
  Usernames = {n1}
  Videos = {v1, v2, v3}
  Limit = 2
  MaxMoves = 2
SYMMETRY Symmetry
INVARIANTS
  TypeOK
  RefusedByAWinner
  VideosHaveOwners
  MissesAtMostDepartures
  RepeatsAtMostArrivals
CHECK_DEADLOCK FALSE
