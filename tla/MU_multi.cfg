SPECIFICATION Spec
CONSTANTS
  Calls = {m1, m2}
  Requests <- MCRequests
  Chrooted = TRUE
  MaxLost = 1
SYMMETRY Symmetric
INVARIANTS
  InStep
  ResultsAreTheServers
PROPERTIES
  EndedIsFinal
CHECK_DEADLOCK FALSE
