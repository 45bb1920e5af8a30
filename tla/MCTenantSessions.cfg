\* Two engines with room for one session each, two sessions.
CONSTANTS
  Engines = {g1, g2}
  Sessions = {s1, s2}
  None = None
  Cap = 1
  Slots = 2
  MaxRequests = 3
  MaxEvents = 3
  MaxFaults = 1
SPECIFICATION Spec
SYMMETRY Interchangeable
INVARIANTS
  NoGhosts
  CountIsExact
  StatusFollowsEngine
  RowIsWhole
CHECK_DEADLOCK FALSE
