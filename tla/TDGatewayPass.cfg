SPECIFICATION FairSpec
CONSTANTS
  OrderId = {1}
  ExchOrderId = {1}
  Size = {2}
  MaxClosed = 2
  Side = {"Ask"}
  MaxQueue = 1
  MaxCrashes = 1
  Faults = {"break", "refuse"}
INVARIANTS
  ClosedIsFinished
  DBNotAheadOfSrv
  AgreesAtRest
PROPERTIES
  FinishedIsLearnt
CHECK_DEADLOCK FALSE
