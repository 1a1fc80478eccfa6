SPECIFICATION Spec
CONSTANTS
  Params <- MCParams
  Prec = 2
  Quote <- MCQuote
  RetryCode = {1}
  OtherCode = {2}
  MayExpire = TRUE
  MaxOrders = 4
  MaxMoves = 3
  MaxTrouble = 1
  MaxQueue = 2

  
PROPERTIES
  EventuallyOver
CHECK_DEADLOCK FALSE
