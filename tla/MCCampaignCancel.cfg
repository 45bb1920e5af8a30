\* A cancelled campaign whose status is written over.
CONSTANTS
  Contacts = {c1, c2}
  Requests = {r1, r2}
  None = None
  MaxRequests = 2
  MaxAborts = 0
SPECIFICATION Spec
CHECK_DEADLOCK FALSE
PROPERTIES
  CancelledMeansNotSent
