SPECIFICATION Spec
CONSTANTS
  Bad = Bad
  NaN = Bad
  Inputs <- Requests
INVARIANTS
  TypeOK
  SavedIsStable
  RuntimeUsable
  PodsAreConnected
