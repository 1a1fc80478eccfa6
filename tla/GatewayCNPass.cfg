SPECIFICATION MCSpec
CONSTANTS
  OrderId = {1}
  ExchOrderId = {1}
  Size = {1, 3}
  MaxClosed = 1
  Side = {"Bid", "Ask"}
  MayLose = {"order", "trade"}
  Quiet = TRUE
  OutOfOrder = FALSE
  MaxDisconnects = 2
  MaxCrashes = 1

  
  
PROPERTIES
  LostDealIsFound
  XTPFinishedIsLearnt
CHECK_DEADLOCK FALSE
