\* Two engines, two tasks under way at once: a stop and a reconnection.
CONSTANTS
  Engines = {e1, e2}
  Tasks = {t1, t2}
  None = None
  MaxAttempts = 1
  MaxTimers = 1
SPECIFICATION Spec
CHECK_DEADLOCK FALSE
PROPERTY StopCancelsReconnection
