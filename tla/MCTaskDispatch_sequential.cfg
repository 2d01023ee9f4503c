SPECIFICATION Spec
CONSTANTS
  MaxTasks = 1
  MaxParts = 2
  Slots = {r1}
  Ops = {"pause", "resume", "terminate", "delete", "restart"}
  Enabled = {"portscan"}
  MaxRequests = 4
  MaxFaults = 1
  MaxCrashes = 1

CHECK_DEADLOCK FALSE
INVARIANTS
  ControlAgrees
  RunningIsDispatched
