SPECIFICATION Spec
CONSTANTS
  Members = {m, a, n}
  Nobody = Nobody
  Convs = {c1, c2, c3}
  Slots = 2
  MaxRequests = 3
  MaxPins = 1
SYMMETRY Interchangeable
INVARIANTS
  LinksHold
  RemovedIsSignedOut
  OneTokenPerSignIn
  PinsBounded
  AssignmentIsShown
PROPERTY
  JoinsOnce
CHECK_DEADLOCK FALSE
