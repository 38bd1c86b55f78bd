SPECIFICATION Spec
CONSTANTS
  s1 = s1
  s2 = s2
  m1 = m1
  m2 = m2
  m3 = m3
  Sockets = {s1, s2}
  Messages = {m1, m2, m3}
  Limit = 2
SYMMETRY Symmetry
INVARIANTS
  TypeOK
  NothingMissed
  NoGhosts
