\* A cancelled batch whose row is written over by the batch it cancelled.
CONSTANTS
  Size = 2
  SaveEvery = 2
  Requests = {r1}
SPECIFICATION Spec
CHECK_DEADLOCK FALSE
PROPERTIES
  CancelledStaysCancelled
