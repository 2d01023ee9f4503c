SPECIFICATION Spec
CONSTANTS
  MaxTasks = 1
  MaxParts = 2
  Slots = {r1, r2}
  Ops = {"pause", "resume", "terminate", "delete", "restart"}
  Enabled = {"portscan", "nmap"}
  MaxRequests = 2
  MaxFaults = 1
  MaxCrashes = 1
SYMMETRY SlotSymmetry
CHECK_DEADLOCK FALSE
INVARIANTS
  TypeOK
  CompletedHasResults
  SentOnce
  RunningWasSent
  StatusAnnounced
  TransientIsOwned
PROPERTIES
  ImplementsLedger
