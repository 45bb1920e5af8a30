\* Six messages saved every second one, two cancel requests.
CONSTANTS
  Size = 6
  SaveEvery = 2
  Requests = {r1, r2}
SPECIFICATION FairSpec
CHECK_DEADLOCK FALSE
INVARIANTS
  ProgressAddsUp
  CancelStopsSending
  CompletedWasTried
  CrashForgetsLittle
PROPERTIES
  BatchSettles
