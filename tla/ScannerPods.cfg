SPECIFICATION FairPodSpec
CONSTANTS
  Workers = {p1, p2}
  NoOne = NoOne
  MaxEntries = 1
  Count = 1
  Ttl = 2
  Renewal = 1
  Idle = 1
  MaxFaults = 1
  MaxLate = 1
  MaxCrashes = 1
  Listeners = {p1}
  MaxMessages = 2
  Batch = 2
  MaxErrors = 1
CHECK_DEADLOCK FALSE
INVARIANTS
  PodTypeOK
  OneWorker
  AloneInTime
  NoGap
PROPERTIES
  ImplementsLease
  EntryProcessed
  HearsOn
