SPECIFICATION Spec
CONSTANTS
  OrderId = {1, 2, 3}
  ExchOrderId = {1}
  Size = {4}
  MaxClosed = 3
  SimOrder <- MCSimOrder
  InfoOf <- MCInfoOf
  Whole = 4
  UnknownSymbol = {}
  Asset = {btc, usdt}
  Steady = {usdt}
  MaxVol = 2
  MaxChg = 2
  MaxRestarts = 1
INVARIANTS
  SimedEndsAsAsked
  CopiesAgree
PROPERTIES
  EventuallyAgreed
CHECK_DEADLOCK FALSE
