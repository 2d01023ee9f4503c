SPECIFICATION Spec
CONSTANTS
  ModuleSeq <- TwoModules
  Configs <- TwoNamespaces
  TaskIds = {}
  Slots = {r1}
  Ops = {"create", "update", "enable", "delete"}
  Lingers = FALSE
  MaxRequests = 4
  MaxFaults = 0
  MaxCrashes = 0
CHECK_DEADLOCK FALSE
INVARIANTS
  DeletedIsClean
