SPECIFICATION Spec
CONSTANTS
  InitialLength = 4
  Null = Null
  Unset = Unset
  Chosen <- MCChosen
  MaxElements = 2
  Leftover = {0, 2}
INVARIANTS
  StaysInside
  RoundTrip
  OkMeansWhole
  FreesWhatItOwns
