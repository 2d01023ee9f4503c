SPECIFICATION FairSpec
CONSTANTS
  MaxTasks = 1
  MaxParts = 1
  Slots = {r1, r2}
  Ops = {"terminate", "delete", "restart"}
  Enabled = {"portscan"}
  MaxRequests = 2
  MaxFaults = 1
  MaxCrashes = 1

CHECK_DEADLOCK FALSE
PROPERTIES
  QueuedIsLeft
  RestartingIsLeft
