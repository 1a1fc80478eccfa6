SPECIFICATION MCSpec
CONSTANTS
  CoinBased = {"c"}
  AcctOf <- MCAcctOf
  Deal <- MCDeal
  PnlNoted = {"c"}
  MayFail = {"lastNo", "trades"}
  MaxDeals = 3
  MaxCrashes = 1
  MaxGWCrashes = 1
  OrderId = {o1, o2, o3}
  Shape <- MCShape
  Rule <- MCRule
  CondOf <- MCCondOf
  BlackList <- MCBlackList
  WhiteList <- MCWhiteList
  SelfTradeCtrlRange <- MCSelfTradeCtrlRange
  Letters <- MCLetters
  Prefix <- MCPrefix
  LimitValue <- MCLimitValue
  MsInterval = 1
  TimeDur = 1
  LimitNum = 3
  MaxTriggers = 0
  MaxPrice = 2
  MaxTime = 1
  MaxCancels = 1
  MaxRets = 1
  MaxRepeats = 1
INVARIANTS
  CountsWhatWasSent
  
  BookFollowsDeals
  LostOnlyIfExcused
SYMMETRY Symmetry
CHECK_DEADLOCK FALSE
