SPECIFICATION Spec
CONSTANTS
  p1 = p1
  p2 = p2
  r1 = r1
  None = None
  Processes = {p1, p2}
  Readers = {r1}
  TTL = 1
  MaxReports = 1
  MaxRetries = 1
SYMMETRY Symmetry
INVARIANTS
  TypeOK
  CacheNeverInvents
  StaleAtMostTTL
  CacheSettles
