SPECIFICATION Spec
CONSTANTS
  ModuleSeq <- TwoModules
  Configs <- OneNamespace
  TaskIds = {1}
  Slots = {r1, r2}
  Ops = {"create", "enable", "delete", "newtask"}
  Lingers = FALSE
  MaxRequests = 4
  MaxFaults = 0
  MaxCrashes = 0
SYMMETRY SlotSymmetry
CHECK_DEADLOCK FALSE
INVARIANTS
  ActiveTaskHasPolicy
