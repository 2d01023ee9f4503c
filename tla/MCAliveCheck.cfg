SPECIFICATION FairSpec
CONSTANTS
  N = 4
  Limit = 2
  Addrs <- FourHosts
  Answers = {"p"}
  Connects = {"c"}
CHECK_DEADLOCK FALSE
INVARIANTS
  TypeOK
  ReturnsComplete
  SocketsBounded
  ConnectsIsFound
  AliveIsExplained
PROPERTIES
  CheckReturns
