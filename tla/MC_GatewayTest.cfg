CONSTANTS
  k1 = k1
  k2 = k2
  v1 = v1
  v2 = v2
  K1 = k1
  K2 = k2
  V1 = v1
  V2 = v2
  Argcs = {1, 2, 3}
  RpcFails = TRUE
  PutRefused = TRUE
  MaxRuns = 2
SPECIFICATION Spec
CHECK_DEADLOCK FALSE
INVARIANTS
  NoSpuriousFailure
  TestSound
PROPERTIES
  Terminates
