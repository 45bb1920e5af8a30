\* Two recipients, two overlapping requests, one crash or job failure.
CONSTANTS
  Contacts = {c1, c2}
  Requests = {r1, r2}
  None = None
  MaxRequests = 3
  MaxAborts = 1
SPECIFICATION Spec
SYMMETRY Interchangeable
CHECK_DEADLOCK FALSE
INVARIANTS
  TotalCountsRows
  NoExtraCopies
  ActiveHasJob
  NobodyLeftBehind
  ProgressIsReal
PROPERTIES
  CancelledStaysQuiet
  ImplementsLedger
