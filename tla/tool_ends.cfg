SPECIFICATION FairSpec
CONSTANTS
  s = s
  t = t
  a = a
  b = b
  Config <- OneConfig
  Calls = {a, b}
  Untimed = {b}
  Cooperative = {a}
  Faulty = {a}
  MaxCancels = 2
  MaxImages = 0
PROPERTIES
  BatchEnds
CHECK_DEADLOCK FALSE
