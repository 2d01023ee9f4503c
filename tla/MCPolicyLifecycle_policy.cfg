SPECIFICATION Spec
CONSTANTS
  ModuleSeq <- TwoModules
  Configs <- OneNamespace
  TaskIds = {1, 2}
  Slots = {r1}
  Ops = {"create", "update", "enable", "disable", "delete", "scale", "newtask", "retask"}
  Lingers = TRUE
  MaxRequests = 7
  MaxFaults = 1
  MaxCrashes = 1
CHECK_DEADLOCK FALSE
INVARIANTS
  TypeOK
  DeployedAsConfigured
  DeletedIsClean
  DisabledIsIdle
  ActiveTaskHasPolicy
  TaskKeepsPolicy
PROPERTIES
  EntriesSurvive
