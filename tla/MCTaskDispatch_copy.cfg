SPECIFICATION Spec
CONSTANTS
  MaxTasks = 2
  MaxParts = 1
  Slots = {r1}
  Ops = {"terminate", "delete", "restart"}
  Enabled = {"portscan"}
  MaxRequests = 2
  MaxFaults = 0
  MaxCrashes = 1

CHECK_DEADLOCK FALSE
INVARIANTS
  SentIsRecorded
