\* Liveness: no symmetry, two requests in all.
CONSTANTS
  Contacts = {c1, c2}
  Requests = {r1, r2}
  None = None
  MaxRequests = 2
  MaxAborts = 1
SPECIFICATION FairSpec
CHECK_DEADLOCK FALSE
PROPERTIES
  RunningEnds
