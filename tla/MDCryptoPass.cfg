SPECIFICATION Spec
CONSTANTS
  ConfTopic = {"books20", "trades"}
  Merged <- MCMerged
  InBlackList <- MCInBlackList
  MustSubOfConf <- MCMustSubOfConf
  MaxEdits = 1
  MaxFailures = 1
  MaxOpens = 2
  MaxQueue = 1
  Change <- MCChange
  MaxOfUpdate = 2
  MaxInQueue = 3
  MAX_BOOKS_CACHE_NUM_OF_EACH_SYM = 3
  MaxLag = 4
  MaxReopens = 1
  MaxQueryFailures = 1
  Weight <- MCWeight
  timeDur = 3
  limitNum = 3
  MaxNow = 8
  Editions <- MCEditions
  TypeOfSvc = "Futures"
  MaxSymEdits = 2
  MaxSymFailures = 1
  MAX_DATE = 2
  TicksOfMinute = 1
  MinutesOfDay = 2
  MaxLines = 4
  MaxSeconds = 1
  MaxStarts = 1
  thresholdOfMDRowNumInCache = 3
  maxNumOfHisMD = 2
  LineTs = {2, 3, 5}
  BetweenQuery <- MCBetweenQuery
  NumQuery <- MCNumQuery
INVARIANTS
  
  BookIsTheExchanges
  HistoryIsWhole
PROPERTIES
  EventuallyInAgreement
CHECK_DEADLOCK FALSE
