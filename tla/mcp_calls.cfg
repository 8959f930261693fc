SPECIFICATION Spec
CONSTANTS
  c1 = c1
  c2 = c2
  s1 = s1
  s2 = s2
  l1 = l1
  Calls = {c1, c2}
  Listings = {l1}
  Sessions = {s1, s2}
  SessionOf <- OwnSessions
  Cap = 1
  MaxRestarts = 1
  MaxEngines = 2
  MaxBreaks = 2
  MaxCancels = 1
CHECK_DEADLOCK FALSE
INVARIANTS
  GateIsExact
  RebuildsAreBounded
PROPERTIES
  StartsInOrder
  QueuedCallsEnd
  CancelEndsCalls
  ShutdownReleasesCallers
