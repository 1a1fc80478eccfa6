SPECIFICATION Spec
CONSTANTS
  OrderId = {1, 2}
  ExchOrderId = {1, 2}
  Size = {2}
  MaxClosed = 2
  Acct = {a1, a2}
  InitPos <- MCInitPos
  Side = {"Ask", "Bid"}
  Direction = {"Others", "Open"}
  NumModules = 2
  MaxPreQueue = 2
  MaxModQueue = 1
  Joint = FALSE
INVARIANTS
  NeverOverborrowed
  
  SrvAgreesWithGW
  UnansweredIsOnItsWay
SYMMETRY Symmetry
CHECK_DEADLOCK FALSE
