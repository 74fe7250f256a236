SPECIFICATION Spec
CONSTANTS
  Auths = {x, y}
  Requests = {r}
  Watches = TRUE
  MaxConnects = 2
  MaxShort = 2
SYMMETRY Symmetric
INVARIANTS
  OneAnswerEach
  NobodyIsLeftOut
  GreetingGoesFirst
  ContinuedInPlace
CHECK_DEADLOCK FALSE
