SPECIFICATION Spec
CONSTANTS
  Inst = {1, 2}
  Key <- MCKey
  Caller = {"st1", "al1", "st2"}
  InstOf <- MCInstOf
  Asks <- MCAsks
  Trades = Trades
  Orders = Orders
  LastPrice = LastPrice
  Topic = {Trades, Orders, LastPrice}
  LastPriceOf <- MCLastPriceOf
  FeedOf <- MCFeedOf
  TradesOf <- MCTradesOf
  NoFeed = "none"
  SubAll = FALSE
  StartLoggedIn = {TRUE, FALSE}
  Lease = 1
  MaxChan = 1
  MaxCalls = 3
  MaxFaults = 1
  MaxTicks = 2
  MaxTs = 2
INVARIANTS
  RoutedIsRequested
  CandleIsWhole

  
CHECK_DEADLOCK FALSE
