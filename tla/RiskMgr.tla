-------------------------------- MODULE RiskMgr --------------------------------
(***************************************************************************)
(* The risk manager: it learns orders and deals from the gateways, keeps a *)
(* book of all positions, and publishes it, with the profit at the last    *)
(* price, by account, by strategy and so on, to whoever subscribed.        *)
(*                                                                         *)
(* It is told of a return later than the trade server: a gateway sends to  *)
(* the trade server at once, and to the risk manager when it flushes its   *)
(* cache, just before it hands the statements on orders to its database    *)
(* engine.  The table of positions is written by the trade server.  A risk *)
(* manager that starts reads the positions, then the orders not finished,  *)
(* and only then opens the channel on which the gateways reach it.         *)
(*                                                                         *)
(* A topic is published when it is not what it was at the last update, and *)
(* every few seconds as it is (a snapshot).  There are topics of accounts, *)
(* of strategies, of their instances and one of all positions.  The tasks  *)
(* that publish them share nothing but the book: a behaviour has the tasks *)
(* of one kind.                                                            *)
(***************************************************************************)
EXTENDS PosMgr, SequencesExt, FiniteSetsExt

CONSTANTS
  DealOf,       \* DealOf[o]: the deal of order o, one for each order
  IdsOf,        \* IdsOf[grp]: the account, the strategy and the instance of a group
  Price,        \* the prices there may be
  MaxMoves,     \* bound: prices that arrive
  MaxStops      \* bound: times the risk manager is stopped, by the kind of its topics

Ord == DOMAIN DealOf
Kind == {"All", "AcctId", "StgId", "StgInstId"}
Grp == {DealOf[o].grp : o \in Ord}

ASSUME RiskMgrAssumption ==
  /\ \A o \in Ord : DealOf[o].id = o /\ DealOf[o].size # 0 /\ DealOf[o].price > 0
  /\ Price \subseteq Nat \ {0} /\ MaxMoves \in Nat /\ MaxStops \in [Kind -> Nat]
  /\ Grp \subseteq DOMAIN IdsOf

VARIABLES
  status,       \* the status the gateway reported last: "None", "Pending" or "Filled"
  gwCache,      \* the returns the gateway has still to sync
  ordTasks,     \* the statements on orders in its database engine
  ordDB,        \* the table of orders
  srvBook,      \* the book of the trade server
  posTasks,     \* the statements on positions in its database engine
  posDB,        \* the table of positions
  state,        \* of the risk manager: "down", "posLoaded", "ordLoaded" or "up"
  queue,        \* the returns on their way to it
  ordMgr,       \* the orders it knows that are not finished
  posMgr,       \* its book
  lastPrice,    \* its cache of market data; 0 is none
  kind,         \* of the topics published
  published,    \* the groups of the last update
  view,         \* what a subscriber shows of each topic
  loaded, told, \* ghost: the deals in the book when it was loaded, and counted since
  window,       \* ghost: the orders that were between two tables during a start
  moves, stops

gwVars == <<status, gwCache, ordTasks, ordDB, srvBook, posTasks, posDB>>
pubVars == <<kind, published, view>>
bookVars == <<ordMgr, posMgr, loaded, told>>
vars == <<gwVars, state, queue, bookVars, lastPrice, pubVars, window, moves, stops>>

-------------------------------------------------------------------------------
(* The gateway and the trade server *)

Init ==
  /\ status = [o \in Ord |-> "None"] /\ gwCache = << >> /\ ordTasks = << >>
  /\ ordDB = << >> /\ srvBook = << >> /\ posTasks = << >> /\ posDB = << >>
  /\ state = "up" /\ queue = << >> /\ ordMgr = {} /\ posMgr = << >>
  /\ lastPrice = [g \in Grp |-> 0]
  /\ kind \in Kind /\ published = << >> /\ view = << >>
  /\ loaded = {} /\ told = {} /\ window = {} /\ moves = 0 /\ stops = 0

Ret(o, st) == [ord |-> o, status |-> st]
Waiting(rets, o, st) == \E i \in DOMAIN rets : rets[i] = Ret(o, st)

GatewayPlaces ==
  /\ \E o \in Ord : /\ status[o] = "None"
                    /\ status' = [status EXCEPT ![o] = "Pending"]
                    /\ gwCache' = Append(gwCache, Ret(o, "Pending"))
  /\ UNCHANGED <<ordTasks, ordDB, srvBook, posTasks, posDB, state, queue, bookVars,
                 lastPrice, pubVars, window, moves, stops>>

\* The trade server gets a deal at once, counts it and queues its statements.
GatewayReportsDeal ==
  /\ \E o \in Ord :
       /\ status[o] = "Pending"
       /\ status' = [status EXCEPT ![o] = "Filled"]
       /\ gwCache' = Append(gwCache, Ret(o, "Filled"))
       /\ LET u == updateByOrderInfoFromTDGW(srvBook, DealOf[o])
          IN  srvBook' = u.book /\ posTasks' = posTasks \o Statements(u)
  /\ UNCHANGED <<ordTasks, ordDB, posDB, state, queue, bookVars,
                 lastPrice, pubVars, window, moves, stops>>

\* First all are sent to the risk manager, which does not get them unless it runs,
\* then all go to the database engine.
handleSyncTaskGroup ==
  /\ gwCache # << >>
  /\ gwCache' = << >>
  /\ ordTasks' = ordTasks \o gwCache
  /\ IF state = "up" THEN queue' = queue \o gwCache /\ UNCHANGED window
     ELSE /\ window' = window \cup {gwCache[i].ord : i \in DOMAIN gwCache}
          /\ UNCHANGED queue
  /\ UNCHANGED <<status, ordDB, srvBook, posTasks, posDB, state, bookVars,
                 lastPrice, pubVars, moves, stops>>

ExecOrdStatement ==
  /\ ordTasks # << >>
  /\ ordDB' = Put(ordDB, Head(ordTasks).ord, Head(ordTasks).status)
  /\ ordTasks' = Tail(ordTasks)
  /\ UNCHANGED <<status, gwCache, srvBook, posTasks, posDB, state, queue, bookVars,
                 lastPrice, pubVars, window, moves, stops>>

ExecPosStatement ==
  /\ posTasks # << >>
  /\ posDB' = Replaced(posDB, Head(posTasks))
  /\ posTasks' = Tail(posTasks)
  /\ UNCHANGED <<status, gwCache, ordTasks, ordDB, srvBook, state, queue, bookVars,
                 lastPrice, pubVars, window, moves, stops>>

-------------------------------------------------------------------------------
(* The start and the stop *)

InPosDB == UNION {posDB[rk].rec.of : rk \in DOMAIN posDB}

Stop ==
  /\ state' = "down" /\ queue' = << >> /\ ordMgr' = {} /\ posMgr' = << >>
  /\ loaded' = {} /\ told' = {} /\ window' = {}
  /\ lastPrice' = [g \in Grp |-> 0]
  /\ published' = << >>
  /\ UNCHANGED <<gwVars, kind, view, moves>>

RiskMgrStops == state # "down" /\ stops < MaxStops[kind] /\ stops' = stops + 1 /\ Stop

\* Which deals the table has, and which returns are still to come, are not compared.
initPosMgr ==
  /\ state = "down"
  /\ state' = "posLoaded"
  /\ posMgr' = BookOfRows(posDB)
  /\ loaded' = InPosDB
  /\ window' = window \cup {o \in Ord : /\ status[o] = "Filled"
                                        /\ \/ o \notin InPosDB
                                           \/ Waiting(gwCache, o, "Filled")}
  /\ UNCHANGED <<gwVars, queue, ordMgr, told, lastPrice, pubVars, moves, stops>>

\* Mutant: the orders are not loaded.
LoadNoOrders(table) == {}
\* Those whose row says that they are not finished.
UnfinishedOrders(table) == {o \in DOMAIN table : table[o] # "Filled"}

initOrdMgr ==
  /\ state = "posLoaded"
  /\ state' = "ordLoaded"
  /\ ordMgr' = UnfinishedOrders(ordDB)
  /\ window' = window \cup {o \in Ord : Waiting(ordTasks, o, "Pending")}
  /\ UNCHANGED <<gwVars, queue, posMgr, loaded, told, lastPrice, pubVars, moves, stops>>

doRun ==
  /\ state = "ordLoaded"
  /\ state' = "up"
  /\ UNCHANGED <<gwVars, queue, bookVars, lastPrice, pubVars, window, moves, stops>>

-------------------------------------------------------------------------------
(* What it is told *)

\* Orders enter the order manager as Pending.  A return about an order it does not know
\* is dropped.
handleMsgIdOnOrderRet ==
  /\ state = "up" /\ queue # << >>
  /\ LET r == Head(queue)
         isTheOrderCanBeUsedCalcPos == r.status = "Filled" /\ r.ord \in ordMgr
     IN  /\ ordMgr' = IF r.status = "Pending" THEN ordMgr \cup {r.ord} ELSE ordMgr \ {r.ord}
         /\ IF isTheOrderCanBeUsedCalcPos
            THEN /\ posMgr' = updateByOrderInfoFromTDGW(posMgr, DealOf[r.ord]).book
                 /\ told' = told \cup {r.ord}
            ELSE UNCHANGED <<posMgr, told>>
  /\ queue' = Tail(queue)
  /\ UNCHANGED <<gwVars, state, loaded, lastPrice, pubVars, window, moves, stops>>

\* Tickers are subscribed to for what is in the book.
TickersArrive ==
  /\ state = "up" /\ moves < MaxMoves
  /\ \E g \in {k.grp : k \in DOMAIN posMgr}, p \in Price :
       /\ p # lastPrice[g]
       /\ lastPrice' = [lastPrice EXCEPT ![g] = p]
  /\ moves' = moves + 1
  /\ UNCHANGED <<gwVars, state, queue, bookVars, pubVars, window, stops>>

-------------------------------------------------------------------------------
(* What it publishes *)

HasNoFeeCurrency(k) == k.cur = ""
Mergeable(book, k) == {j \in DOMAIN book : ~HasNoFeeCurrency(j) /\ RowKey(j) = RowKey(k)}

NotANumber == <<0, 0>>

CalcAvgOpenPrice(k, l, r) ==
  LET totalPos == l.pos + r.pos
      coinsOf(x) == IF x.avgOpenPrice = Zero THEN Zero ELSE Over(Frac(x.pos), x.avgOpenPrice)
      amtOf(x) == Times(Frac(x.pos), x.avgOpenPrice)
  IN  CASE k.grp \notin CoinBased ->
             IF totalPos = 0 THEN Zero ELSE Over(Plus(amtOf(l), amtOf(r)), Frac(totalPos))
        [] l.avgOpenPrice = Zero /\ r.avgOpenPrice = Zero -> Zero
        [] totalPos = 0 -> NotANumber
        [] OTHER -> Over(Frac(totalPos), Plus(coinsOf(l), coinsOf(r)))

mergePosInfo(k, posInfo, noCur) ==
  [posInfo EXCEPT !.avgOpenPrice = CalcAvgOpenPrice(k, posInfo, noCur),
                  !.pos = @ + noCur.pos, !.pnlReal = Plus(@, noCur.pnlReal),
                  !.totalBidSize = @ + noCur.totalBidSize,
                  !.totalAskSize = @ + noCur.totalAskSize,
                  !.totalOpenSize = @ + noCur.totalOpenSize]

\* A record without the currency of its fee is merged into the record that has one.
MergePosInfoHasNoFeeCurrency(book) ==
  LET noCur(k) == [k EXCEPT !.cur = ""]
  IN  [k \in {j \in DOMAIN book : ~HasNoFeeCurrency(j)} |->
         IF noCur(k) \in DOMAIN book THEN mergePosInfo(k, book[k], book[noCur(k)])
                                     ELSE book[k]]

\* Where there is none a null pointer is put in its place, and the process dies of it.
MergeFails(book) == \E k \in DOMAIN book : HasNoFeeCurrency(k) /\ Mergeable(book, k) = {}

initPnlUnReal(k, r) ==
  LET atLastPrice == [grp |-> k.grp, price |-> lastPrice[k.grp]]
      pnlUnReal == CASE lastPrice[k.grp] = 0 \/ r.pos = 0 -> Zero
                     [] r.pos > 0 -> calcPnlOfCloseLong(atLastPrice, r.avgOpenPrice, r.pos)
                     [] r.pos < 0 -> calcPnlOfCloseShort(atLastPrice, r.avgOpenPrice, -r.pos)
  IN  [pos |-> r.pos, avgOpenPrice |-> r.avgOpenPrice, pnlReal |-> r.pnlReal,
       pnlUnReal |-> pnlUnReal]

ToPublish == LET merged == MergePosInfoHasNoFeeCurrency(posMgr)
             IN  [k \in DOMAIN merged |-> initPnlUnReal(k, merged[k])]

GroupedBy(idOf, recs) ==
  [id \in {idOf[k.grp] : k \in DOMAIN recs} |->
     [k \in {j \in DOMAIN recs : idOf[j.grp] = id} |-> recs[k]]]

posInfoGroupByAcctId(recs) == GroupedBy([g \in Grp |-> IdsOf[g].acctId], recs)
posInfoGroupByStgId(recs) == GroupedBy([g \in Grp |-> IdsOf[g].stgId], recs)
\* An instance is numbered within its strategy.
posInfoGroupByStgInstId(recs) ==
  GroupedBy([g \in Grp |-> <<IdsOf[g].stgId, IdsOf[g].stgInstId>>], recs)

\* A number that is none is not equal to itself.
IsEqualPosInfo(lhs, rhs) == lhs = rhs /\ lhs.avgOpenPrice # NotANumber
isEqual(lhs, rhs) == /\ DOMAIN lhs = DOMAIN rhs
                     /\ \A k \in DOMAIN lhs : IsEqualPosInfo(lhs[k], rhs[k])

\* The groups that changed, and those of the last time that are not there any more.
GroupUpdate(old, new) ==
  LET changed == {id \in DOMAIN new : id \notin DOMAIN old \/ ~isEqual(new[id], old[id])}
      gone == DOMAIN old \ DOMAIN new
  IN  [id \in changed \cup gone |-> IF id \in changed THEN new[id] ELSE << >>]

getAcctId2Key2PosInfoGroupUpdate(new) == GroupUpdate(published, new)
getStgId2Key2PosInfoGroupUpdate(new) == GroupUpdate(published, new)
getStgInstId2Key2PosInfoGroupUpdate(new) == GroupUpdate(published, new)

\* A message has the records one after the other; who gets it finds the key of each.
Message(topic, group) ==
  [topic |-> topic, posInfoGroup |-> {[key |-> k, rec |-> group[k]] : k \in DOMAIN group}]
MakePosUpdate(posInfoGroup) ==
  [k \in {p.key : p \in posInfoGroup} |-> (CHOOSE p \in posInfoGroup : p.key = k).rec]

pushMsg(msgs) ==
  view' = [t \in DOMAIN view \cup {m.topic : m \in msgs} |->
             IF \E m \in msgs : m.topic = t
             THEN MakePosUpdate((CHOOSE m \in msgs : m.topic = t).posInfoGroup) ELSE view[t]]

pushPosInfoOfAll(recs) == pushMsg({Message(<<"All">>, recs)})
pushAcctId2Key2PosInfoGroup(groups) ==
  pushMsg({Message(<<"AcctId", id>>, groups[id]) : id \in DOMAIN groups})
pushStgId2Key2PosInfoGroup(groups) ==
  pushMsg({Message(<<"StgId", id>>, groups[id]) : id \in DOMAIN groups})
pushStgInstId2Key2PosInfoGroup(groups) ==
  pushMsg({Message(<<"StgId", id[1], "StgInstId", id[2]>>, groups[id]) : id \in DOMAIN groups})

Publishes(by) == /\ state = "up" /\ kind = by /\ ~MergeFails(posMgr)
                 /\ UNCHANGED <<gwVars, state, queue, bookVars, lastPrice, kind, window, moves, stops>>

\* All positions are only published as snapshots.
pubPosSnapshotOfAll ==
  /\ Publishes("All") /\ UNCHANGED published
  /\ \E recs \in {ToPublish} : pushPosInfoOfAll(recs)

pubPosUpdateOfAcctId ==
  /\ Publishes("AcctId")
  /\ \E groups \in {posInfoGroupByAcctId(ToPublish)} :
       /\ pushAcctId2Key2PosInfoGroup(getAcctId2Key2PosInfoGroupUpdate(groups))
       /\ published' = groups

pubPosSnapshotOfAcctId ==
  /\ Publishes("AcctId") /\ UNCHANGED published
  /\ \E groups \in {posInfoGroupByAcctId(ToPublish)} : pushAcctId2Key2PosInfoGroup(groups)

pubPosUpdateOfStgId ==
  /\ Publishes("StgId")
  /\ \E groups \in {posInfoGroupByStgId(ToPublish)} :
       /\ pushStgId2Key2PosInfoGroup(getStgId2Key2PosInfoGroupUpdate(groups))
       /\ published' = groups

pubPosSnapshotOfStgId ==
  /\ Publishes("StgId") /\ UNCHANGED published
  /\ \E groups \in {posInfoGroupByStgId(ToPublish)} : pushStgId2Key2PosInfoGroup(groups)

pubPosUpdateOfStgInstId ==
  /\ Publishes("StgInstId")
  /\ \E groups \in {posInfoGroupByStgInstId(ToPublish)} :
       /\ pushStgInstId2Key2PosInfoGroup(getStgInstId2Key2PosInfoGroupUpdate(groups))
       /\ published' = groups

pubPosSnapshotOfStgInstId ==
  /\ Publishes("StgInstId") /\ UNCHANGED published
  /\ \E groups \in {posInfoGroupByStgInstId(ToPublish)} : pushStgInstId2Key2PosInfoGroup(groups)

\* Any of the tasks dies of a record that cannot be merged.
RiskMgrDies == state = "up" /\ MergeFails(posMgr) /\ Stop /\ UNCHANGED stops

\* What goes on for ever and runs out of work: the flush, the database engines, the
\* restart of the container and the dispatcher.
Scheduled == \/ handleSyncTaskGroup \/ ExecOrdStatement \/ ExecPosStatement
             \/ initPosMgr \/ initOrdMgr \/ doRun \/ handleMsgIdOnOrderRet \/ RiskMgrDies
Snapshot == \/ pubPosSnapshotOfAll \/ pubPosSnapshotOfAcctId \/ pubPosSnapshotOfStgId
            \/ pubPosSnapshotOfStgInstId
Next == \/ GatewayPlaces \/ GatewayReportsDeal \/ Scheduled \/ TickersArrive \/ RiskMgrStops
        \/ Snapshot \/ pubPosUpdateOfAcctId \/ pubPosUpdateOfStgId \/ pubPosUpdateOfStgInstId

Fairness == WF_vars(Scheduled) /\ WF_vars(Snapshot)

Spec == Init /\ [][Next]_vars /\ Fairness

-------------------------------------------------------------------------------
(* Properties *)

IsRet(r) == r.ord \in Ord /\ r.status \in {"Pending", "Filled"}
TypeOK ==
  /\ status \in [Ord -> {"None", "Pending", "Filled"}]
  /\ \A i \in DOMAIN gwCache : IsRet(gwCache[i])
  /\ \A i \in DOMAIN ordTasks : IsRet(ordTasks[i])
  /\ \A i \in DOMAIN queue : IsRet(queue[i])
  /\ DOMAIN ordDB \subseteq Ord /\ ordMgr \subseteq Ord
  /\ state \in {"down", "posLoaded", "ordLoaded", "up"}
  /\ lastPrice \in [Grp -> {0} \cup Price]
  /\ \A k \in DOMAIN posMgr : k.grp \in Grp /\ posMgr[k].pos \in Int
  /\ loaded \cup told \cup window \subseteq Ord

\* Every deal is counted once in the book of the risk manager, through stops and starts,
\* unless its order was between two tables at the start: dealt and in one of the tables
\* but not the other, or told of while no one listened.
CountedOnceUnlessStarting ==
  state = "up" =>
    \A o \in Ord \ window :
      IF status[o] = "Filled" /\ ~Waiting(gwCache \o queue, o, "Filled")
      THEN (o \in loaded) # (o \in told)
      ELSE o \notin loaded \cup told

\* Merging a record without a currency into the one that has it changes neither the
\* position nor what it cost.
MergeKeepsPosAndCost ==
  LET cost(k, r) == CASE r.pos = 0 -> Zero
                      [] k.grp \in CoinBased -> Over(Frac(r.pos), r.avgOpenPrice)
                      [] OTHER -> Times(Frac(r.pos), r.avgOpenPrice)
      merged == MergePosInfoHasNoFeeCurrency(posMgr)
      mine(k) == {j \in DOMAIN posMgr : RowKey(j) = RowKey(k) /\ j.cur \in {k.cur, ""}}
  IN  ~MergeFails(posMgr) =>
        \A k \in DOMAIN merged :
          /\ merged[k].pos = MapThenSumSet(LAMBDA j : posMgr[j].pos, mine(k))
          /\ cost(k, merged[k]) =
               FoldSet(LAMBDA j, acc : Plus(cost(j, posMgr[j]), acc), Zero, mine(k))

\* Every record of the book is shown, on the topic of the kind it belongs to, with its
\* profit at the last price, to a subscriber.
Shown ==
  LET ids(k) == IdsOf[k.grp]
      topicOf(k) == CASE kind = "All" -> <<"All">>
                      [] kind = "AcctId" -> <<kind, ids(k).acctId>>
                      [] kind = "StgId" -> <<kind, ids(k).stgId>>
                      [] kind = "StgInstId" -> <<"StgId", ids(k).stgId, kind, ids(k).stgInstId>>
  IN  state = "up" /\ ~MergeFails(posMgr) =>
        LET recs == ToPublish
        IN  \A k \in DOMAIN recs : /\ topicOf(k) \in DOMAIN view
                                   /\ k \in DOMAIN view[topicOf(k)]
                                   /\ view[topicOf(k)][k] = recs[k]

===============================================================================
