SPECIFICATION Spec
CONSTANTS
  MaxAttempts = 2
  Resends = 2
  Cap = 1
  Room = 1
  MaxDials = 2
  MaxCalls = 2
  MaxControls = 1
INVARIANTS
  DescriptorsOwned
  SendsAreBounded
PROPERTY CancelEndsCall
CHECK_DEADLOCK FALSE
