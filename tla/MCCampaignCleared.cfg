\* A schedule cleared, its job still queued.
CONSTANTS
  Contacts = {c1}
  Requests = {r1, r2}
  None = None
  MaxRequests = 2
  MaxAborts = 0
SPECIFICATION Spec
CHECK_DEADLOCK FALSE
PROPERTIES
  ClearedMeansSendOnLaunch
