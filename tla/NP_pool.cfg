SPECIFICATION Spec
CONSTANTS
  Paths = {p, q}
  Numbered = {q}
  Nodes = {n1, n2}
  Absent = Absent
  Null = Null
  MaxRequests = 2
SYMMETRY Symmetric
INVARIANTS
  PoolIsSound
  MissingOnlyWhenLost
CHECK_DEADLOCK FALSE
