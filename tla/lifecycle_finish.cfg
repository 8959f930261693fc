SPECIFICATION Spec
CONSTANTS
  Clients = {c1, c2}
  MaxIds = 2
  MaxOps = 4
  MaxCrashes = 1
  Uses = {"create", "attach", "get", "delete", "flags", "run", "edit"}
  Parents = {0}
INVARIANTS
  IndexMatchesDisk
PROPERTIES
  DeleteFinishes
CHECK_DEADLOCK FALSE
