SPECIFICATION Spec
CONSTANTS
  Stg = {s1}
  Worker = {w1, w2}
  NoStg = NoStg
  NoPid = NoPid
  MaxPid = 3
  MaxOutside = 1
  alice = alice
  bob = bob
  c1 = c1
  c2 = c2
  c3 = c3
  User = {alice, bob}
  WSConn = {c1, c2, c3}
  NoUser = NoUser
  NoConn = NoConn
  UserOf <- MCUserOf
  Topic = {t1}
  msOfValidTime = 1
  NoRet = NoRet
  MaxWebNow = 4
  MaxRows = 3
  fixedTimer = fixedTimer
  intervalTimer = intervalTimer
  StgThread = {w1}
  Fixed = {fixedTimer}
  Periodic = {intervalTimer}
  Pattern <- MCPattern
  Interval <- MCInterval
  MaxExecTimes <- MCMaxExecTimes
  NoTime = NoTime
  MaxSec = 2
  MaxBack = 1
  MaxOps = 2
  producer1 = producer1
  producer2 = producer2
  taskSpecificThreadPoolSize = 2
  Producer = {producer1, producer2}
  TaskOf <- MCTaskOf
  Follow <- MCFollow
  getThreadForTask <- MCThreadForTask
  NoTask = "none"
  callbackOrder = callbackOrder
  manualOrder = manualOrder
  r1 = r1
  r2 = r2
  r3 = r3
  StgInst = {1, 2}
  Deletable = {1}
  Thread = {0, 1}
  Web = Web
  Ord = {callbackOrder, manualOrder}
  InstOf <- MCInstOf
  Manual = {manualOrder}
  Req = {r1, r2, r3}
  BodyOf <- MCBodyOf
  NoReq = NoReq
  MaxKills = 1
  MaxStarts = 2
  MaxCancels = 1
INVARIANTS
  OneEngine
  
  HandledOnce
PROPERTIES
  EventuallyServed
CHECK_DEADLOCK FALSE
