SPECIFICATION Spec
CONSTANTS
  Clients = {c1}
  MaxIds = 2
  MaxOps = 5
  MaxCrashes = 1
  Uses = {"create", "attach", "delete", "cancel", "run"}
  Parents = {0, 2}
INVARIANTS
  IndexMatchesDisk
  CancelReachesChildren
PROPERTIES
  CreateIsFresh
  Catalogued
CHECK_DEADLOCK FALSE
