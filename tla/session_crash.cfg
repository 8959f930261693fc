SPECIFICATION Spec
CONSTANTS
  Clients = {c1}
  Models = {m1, m2}
  Chaining = {m1}
  MaxTurnId = 2
  MaxTurns = 2
  MaxRecoveries = 2
  Usages = {TRUE}
  ResponseIds = {TRUE}
  Envelope = {"crash", "redo"}
  c1 = c1
  m1 = m1
  m2 = m2
INVARIANTS NoHiddenTurnInContext IdleIsDurable CrashLosesOneTurn RestartKeepsTotals AttachReplaysLiveTurn
PROPERTIES CommittedTurnKept
