SPECIFICATION FairSpec
CONSTANTS
  Inbound = {i1}
  Sends = {o1}
  Chats = {"empty", "quiet"}
  Slots = 2
  Acks = {"SENT", "READ"}
  MaxSessions = 3
  MaxJobs = 2
  MaxRequests = 2
  MaxAttempts = 2
  Retries = 1
  MaxFaults = 1
INVARIANTS
  InboundOnce
  BadgeIsExact
  OneRowPerSend
  SendOutcome
  ReactionsKept
PROPERTIES
  AcksStand
  HistoryKept
  NeverForgotten
  QueueDrains
CHECK_DEADLOCK FALSE
