SPECIFICATION Spec
CONSTANTS
  w1 = w1
  w2 = w2
  acct = acct
  docs = docs
  Workers = {w1, w2}
  Serves <- ServesPairs
  ProviderKeys = {acct}
  McpKeys = {docs}
  MaxGrants = 2
  MaxExchanges = 2
  MaxEvents = 2
  MaxQueue = 2
SYMMETRY Alike
INVARIANTS
  SingleFlight
  OneLiveGrant
  ProviderPresentsLive
  ReadViewIsSound
PROPERTIES
  SignInsAreKept
CHECK_DEADLOCK FALSE
