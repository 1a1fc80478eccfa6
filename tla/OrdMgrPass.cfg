SPECIFICATION Spec
CONSTANTS
  OrderId = {1, 2, 3}
  ExchOrderId = {1, 2, 3}
  Size = {2}
  MaxClosed = 1
  MaxDealSize = 3
  ReportFromExch <- MCReportFromExch
  ReportFromTDGW <- MCReportFromTDGW
INVARIANTS
  OneHome
PROPERTIES
  ImplementsLifecycle
  ClosedStatusKeptByTDGW
CHECK_DEADLOCK FALSE
