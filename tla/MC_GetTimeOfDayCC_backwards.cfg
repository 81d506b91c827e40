CONSTANTS
  t1 = t1
  t2 = t2
  Threads <- MC_Threads2
  W = 3
  CC0 = 3
  CpuSpeed = 2
  WallStart = 5999998
  MaxTime = 3
  CpuInfo = "MHz"
  ZeroDivUsec <- MC_ZeroDivUsec
SPECIFICATION Spec
INVARIANTS
  Monotonic
