SPECIFICATION Spec
CONSTANTS
  s = s
  t = t
  a = a
  b = b
  Config <- TwoConfig
  Calls = {a, b}
  Untimed = {b}
  Cooperative = {b}
  Faulty = {s, a}
  MaxCancels = 1
  MaxImages = 1
INVARIANTS
  TypeOK
  EveryCallAnswered
  MirrorFollowsSession
PROPERTIES
  RecordedOnce
  CancelStopsTheRun
CHECK_DEADLOCK FALSE
