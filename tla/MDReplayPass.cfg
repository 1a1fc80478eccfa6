SPECIFICATION Spec
CONSTANTS
  Topic = {"a", "b"}
  TypeOf <- MCTypeOf
  ZeroFields = {{}, {"last"}}
  Thread = {"t1", "t2"}
  ThreadOf <- MCThreadOf
  numOfMDWrittenToTDEngAtOneTime = 2
  MaxMD = 3
  MaxTs = 2
  MaxFailures = 1
  exchTsStart = 1
  exchTsEnd = 3
  OffsetOfExchAndLocalTs = 1
  TimeOfCacheMD = 2
  cacheNumLimit = 1
  maxNumOfRecReturned = 2
  NumOfPage = 1
  TimeOfPage = 2
INVARIANTS
  RecordingIsKept
PROPERTIES
  ReplayIsComplete
CHECK_DEADLOCK FALSE
