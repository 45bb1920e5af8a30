\* Two engines, so that one can run while its successor is made; two tasks under
\* way at once, two attempts, two pending timers; under fairness.
CONSTANTS
  Engines = {e1, e2}
  Tasks = {t1, t2}
  None = None
  MaxAttempts = 2
  MaxTimers = 2
SPECIFICATION FairSpec
INVARIANTS
  NewestInMap
  ReadyIsReal
  StoppedStaysDown
  ReconnectsBounded
PROPERTY
  LostComesBack
\* A deleted session has nothing left to do.
CHECK_DEADLOCK FALSE
