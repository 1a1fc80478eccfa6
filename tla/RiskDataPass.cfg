SPECIFICATION MCSpec
CONSTANTS
  FlowCtrlRule = {"f1", "f2"}
  TrdSymbolList = {"t1"}
  SelfTradeCtrlRange = {}
  PnlMonitorRange = {"loss", "profit"}
  StepOf <- MCStepOf
  Condition <- MCCondition
  Value <- MCValue
  Step <- MCStep
  ThreadNum <- MCThreadNum
  Acct = {"a1"}
  InitDB <- MCInitDB
  MaxChgs = 2
  MaxCrashes = 1
  CoinBased = {}
  DealOf <- MCDealOf
  IdsOf <- MCIdsOf
  Price = {2, 3}
  MaxMoves = 1
  MaxStops <- MCMaxStops
INVARIANTS
  NeverUncovered
  PositionsCountedOnce
PROPERTIES
  EventuallyUpToDate
CHECK_DEADLOCK FALSE
