CONSTANTS
  Options <- MC_Options
  LogOpt <- MC_LogOpt
  Reports <- MC_Reports
  FdOk = 3
  MaxPrints = 3
SPECIFICATION Spec
CHECK_DEADLOCK FALSE
INVARIANTS
  SinkUsable
