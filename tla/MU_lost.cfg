SPECIFICATION Spec
CONSTANTS
  Calls = {m1, m2}
  Requests <- MCRequests
  Chrooted = TRUE
  MaxLost = 1
SYMMETRY Symmetric
INVARIANT EntryIsThere
CHECK_DEADLOCK FALSE
