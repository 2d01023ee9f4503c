SPECIFICATION Spec
CONSTANTS
  Tasks = {t1, t2}
  Login = Login
  Home = Home
  List = List
  Nothing = Nothing
  Waiting = Waiting
  Failed = Failed
  Denied = Denied
  Calls = {c1, c2}
  MaxChanges = 1
  MaxMoves = 3
  MaxLogins = 2
  MaxFaults = 1
CHECK_DEADLOCK FALSE
INVARIANTS
  TypeOK
  StaysSignedIn
PROPERTIES
  Settles
  Ejected
