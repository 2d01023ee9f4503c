SPECIFICATION Spec
CONSTANTS
  MaxTasks = 1
  MaxParts = 1
  Slots = {r1}
  Ops = {"terminate"}
  Enabled = {"portscan"}
  MaxRequests = 1
  MaxFaults = 0
  MaxCrashes = 0

CHECK_DEADLOCK FALSE
PROPERTIES
  TerminatedIsFinal
