SPECIFICATION FairSpec
CONSTANTS
  Clients = {c1}
  Models = {m1}
  Chaining = {m1}
  MaxTurnId = 1
  MaxTurns = 0
  MaxRecoveries = 1
  Usages = {FALSE}
  ResponseIds = {FALSE}
  Envelope = {"panic", "writefail"}
  c1 = c1
  m1 = m1
  m2 = m2
INVARIANT TypeOK
PROPERTIES CancelEndsRun ShutdownExits
