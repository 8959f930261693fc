SPECIFICATION Spec
CONSTANTS
  s1 = s1
  s2 = s2
  c1 = c1
  e1 = e1
  e2 = e2
  NoSession = NoSession
  Clients = {c1}
  Sessions = {s1, s2}
  Events = {e1, e2}
  Origin <- OfTheFirst
  Statuses = {e1}
  Cap = 2
  Budget = 2
  MaxRequests = 1
CHECK_DEADLOCK FALSE
INVARIANTS
  CountersAreHonest
  QueuedOnce
  NoGhosts
PROPERTY EvictedIsGone
