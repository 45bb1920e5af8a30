\* One message for two webhooks, two attempts each; two failures, two edits.
CONSTANTS
  Hooks = {h1, h2}
  Events = {e1}
  RetryCount = 2
  MaxStalled = 1
  Slots = 2
  MaxEdits = 2
  MaxFaults = 2
SPECIFICATION FairSpec
PROPERTIES
  ImplementsDelivery
  DeliveriesEnd
  SwitchedOffIsSilent
CHECK_DEADLOCK FALSE
