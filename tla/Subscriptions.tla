---------------------------- MODULE Subscriptions ----------------------------
(***************************************************************************)
(* The way of a subscription from a strategy to the exchange: the calls of *)
(* the strategy and of its algorithmic orders, the tables of the strategy  *)
(* engine (SubMgr, TopicMgr, DynCandleSvc), the table TopicMgr sends to    *)
(* the market data service ten times a second, the leases the service     *)
(* keeps, and the API of the exchange (XTP; CTP differs in that it logs in *)
(* after the service has started).  And the way back of a trade, which the *)
(* service checks, publishes, and makes a last price of.                   *)
(*                                                                         *)
(* What the service asked the exchange for is written down before it asks, *)
(* and nothing tells it when the exchange refuses, when it was not logged  *)
(* in, when the connection was lost, or when another topic that comes with *)
(* the same feed was unsubscribed.                                         *)
(***************************************************************************)
EXTENDS DynCandle, TLC

-----------------------------------------------------------------------------
(***************************************************************************)
(* The tables of subscriptions: that of SubMgr, which tells the strategy   *)
(* engine to which instances a topic goes, and those of TopicMgr, which a  *)
(* client sends in full to the market data services and a service keeps    *)
(* per subscriber, with a lease, to tell what it must subscribe at the     *)
(* exchange.  A table is a function to sets; an entry that is missing in   *)
(* the code is the empty set.                                              *)
(***************************************************************************)
\* SubMgr::sub and unSub: a set per topic, nothing counts who asked how often.
subTopic(subMgr, subscriber, topic) == [subMgr EXCEPT ![topic] = @ \cup {subscriber}]
unSubTopic(subMgr, subscriber, topic) == [subMgr EXCEPT ![topic] = @ \ {subscriber}]

\* TopicMgr::add and remove.  (RemoveOnlyTheLast, ActiveTimeOfTheFirst:
\* mistakes the properties must notice.)
addTopic(group, subscriber, topic) == [group EXCEPT ![subscriber] = @ \cup {topic}]
RemoveOnlyTheLast(group, subscriber, topic) ==
  [group EXCEPT ![subscriber] = IF @ = {topic} THEN @ ELSE @ \ {topic}]
removeTopic(group, subscriber, topic) == [group EXCEPT ![subscriber] = @ \ {topic}]

\* updateForSrv: a subscriber that is in the message is overwritten, one that
\* is not keeps what it had.  A subscriber with no topic is never sent.
updateForSrv(group, msg) == [s \in DOMAIN group |-> IF msg[s] # {} THEN msg[s] ELSE group[s]]
ActiveTimeOfTheFirst(age, msg) == age
updateActiveTime(age, msg) == [s \in DOMAIN age |-> IF msg[s] # {} THEN 0 ELSE age[s]]

\* removeExpiredSubscriber, of the ages in units of the clock.
removeExpiredSubscriber(group, age, lease) ==
  [s \in DOMAIN group |-> IF age[s] > lease THEN {} ELSE group[s]]

\* handleSubInfoForSrv: the difference between what is asked for now and what
\* was asked for the last time.
TopicsOf(group) == UNION {group[s] : s \in DOMAIN group}
topicNeedSub(group, old) == TopicsOf(group) \ old
topicNeedUnSub(group, old) == old \ TopicsOf(group)

-----------------------------------------------------------------------------
CONSTANTS
  Caller,        \* who subscribes: a strategy, an algorithmic order
  InstOf,        \* the instance each works for
  Asks,          \* what each may subscribe: topics and keys of candles
  Topic,         \* topics of market data
  LastPriceOf,   \* the topic of the last price of a symbol
  FeedOf,        \* the feed of the API a topic comes with, or NoFeed
  TradesOf,      \* the feed the trades of a symbol come with
  NoFeed,
  SubAll,        \* subAllMarketData
  StartLoggedIn, \* is the API logged in when the TopicMgr of the service starts?
  Lease,         \* expiredTime, in units of the clock
  MaxChan,       \* bound: messages on their way to the service
  MaxCalls,      \* bound: calls of the strategy
  MaxFaults,     \* bound: crashes, lost connections, refusals, stalls of a second timer
  MaxTicks,      \* bound: trades
  MaxTs          \* bound: time stamps of trades

Feed == {FeedOf[t] : t \in Topic} \ {NoFeed}

\* (Candles are divided by their interval, which makeDynCandleKey takes as it is given.)
ASSUME SubscriptionsAssumption ==
  /\ InstOf \in [Caller -> Inst] /\ FeedOf \in [Topic -> Feed \cup {NoFeed}]
  /\ \A c \in Caller : Asks[c] \subseteq Topic \cup Key
  /\ \A k \in Key : LastPriceOf[k.symbol] \in Topic /\ TradesOf[k.symbol] \in Feed
  /\ SubAll \in BOOLEAN /\ StartLoggedIn \subseteq BOOLEAN
  /\ \A k \in Key : k.startTs \in Nat /\ k.interval \in Nat \ {0}
  /\ {Lease, MaxChan, MaxCalls, MaxFaults, MaxTicks, MaxTs} \subseteq Nat

VARIABLES
  call,       \* the call each caller is in: [op, topic, at], at the next step of it
  wants,      \* ghost: what each caller has subscribed
  robbed,     \* ghost: <<instance, topic>> another caller of the instance unsubscribed
  overlapped, \* ghost: <<instance, topic>> two callers were changing at a time
  subMgr,     \* SubMgr: the instances a topic goes to
  shmCli,     \* has SubMgr a client of the market data service?
  topicGroup, \* TopicMgr of the engine: the topics of each instance
  chan,       \* MSG_ID_SYNC_SUB_INFO on their way
  svcUp,      \* is the market data service running?
  srvGroup, activeAge, old,  \* TopicMgr of the service; old: the topics asked for
  todo,       \* the topics handleSubInfoForSrv found, before the API is called
  loggedIn,   \* the API
  feeds,      \* the feeds the exchange sends
  cut,        \* ghost: feeds that are not what the service believes
  lastExchTs, \* topic2LastExchTsGroup_, of the trades of each symbol
  calls, faults

engVars == <<call, wants, robbed, overlapped, subMgr, topicGroup, shmCli>>
srvVars == <<svcUp, srvGroup, activeAge, old, todo>>
apiVars == <<loggedIn, feeds, cut>>
vars == <<engVars, candleVars, chan, srvVars, apiVars, lastExchTs, calls, faults>>

Idle == [op |-> "none", topic |-> CHOOSE t \in Topic : TRUE, at |-> "none"]
NoTopics == [i \in Inst |-> {}]
Nothing == [sub |-> {}, unSub |-> {}]

Init ==
  /\ call = [c \in Caller |-> Idle] /\ wants = [c \in Caller |-> {}]
  /\ robbed = {} /\ overlapped = {} /\ subMgr = [t \in Topic |-> {}] /\ topicGroup = NoTopics
  /\ shmCli = FALSE /\ CandleInit /\ chan = << >>
  /\ svcUp = FALSE /\ srvGroup = NoTopics /\ activeAge = [i \in Inst |-> 0] /\ old = {} /\ todo = Nothing
  /\ loggedIn = FALSE /\ feeds = {} /\ cut = {} /\ lastExchTs = [s \in Symbol |-> 0]
  /\ calls = 0 /\ faults = 0

-----------------------------------------------------------------------------
\* The calls.  Each of the tables has a lock of its own, so the calls of two
\* threads interleave.
IsSub(c) == call[c].op = "sub"
Others(c, t) == {d \in Caller \ {c} : InstOf[d] = InstOf[c] /\ t \in wants[d]}
InTheMiddle(c, t) == \E d \in Caller \ {c} : InstOf[d] = InstOf[c] /\ call[d].op # "none" /\ call[d].topic = t

\* sub and unSub of StgEngImpl, by a strategy or through AlgoOrder::sub and unSub.
\* A topic of candles goes to DynCandleSvc, any other to SubMgr at once.
Begin(c, op, topic, at) ==
  /\ call[c].op = "none" /\ calls < MaxCalls /\ calls' = calls + 1
  /\ call' = [call EXCEPT ![c] = [op |-> op, topic |-> topic, at |-> at]]
  /\ wants' = [wants EXCEPT ![c] = IF op = "sub" THEN @ \cup {topic} ELSE @ \ {topic}]

inSubMgr(c, op, t) ==
  subMgr' = IF op = "sub" THEN subTopic(subMgr, InstOf[c], t) ELSE unSubTopic(subMgr, InstOf[c], t)

Call(c, op, t) ==
  /\ t \in Topic /\ ((op = "unSub") <=> (t \in wants[c]))
  /\ Begin(c, op, t, "topicMgr") /\ inSubMgr(c, op, t)
  /\ shmCli' = (shmCli \/ op = "sub")
  /\ overlapped' = IF InTheMiddle(c, t) THEN overlapped \cup {<<InstOf[c], t>>} ELSE overlapped
  /\ robbed' = IF op = "unSub" /\ Others(c, t) # {} THEN robbed \cup {<<InstOf[c], t>>} ELSE robbed
  /\ UNCHANGED <<topicGroup, candleVars, chan, srvVars, apiVars, lastExchTs, faults>>

inTopicMgr(c) ==
  /\ call[c].at = "topicMgr"
  /\ topicGroup' = IF IsSub(c) THEN addTopic(topicGroup, InstOf[c], call[c].topic)
                   ELSE removeTopic(topicGroup, InstOf[c], call[c].topic)
  /\ call' = [call EXCEPT ![c] = Idle]
  /\ UNCHANGED <<wants, robbed, overlapped, subMgr, shmCli, candleVars, chan, srvVars, apiVars,
                 lastExchTs, calls, faults>>

\* DynCandleSvc::sub and unSub.
CallCandle(c, op, key) ==
  /\ key \in Key /\ ((op = "unSub") <=> (key \in wants[c]))
  /\ Begin(c, op, key, "subscriber") /\ resetSymbolGroupUsedToGenCandle(key, op = "sub")
  /\ UNCHANGED <<robbed, overlapped, subMgr, topicGroup, shmCli, chan, srvVars, apiVars, lastExchTs, faults>>

RestOfCandle == <<wants, robbed, overlapped, topicGroup, chan, srvVars, apiVars, lastExchTs, calls, faults>>

\* Its subscribers and its candle; what reads the one does not read the other.
CandleOfKey(c) ==
  /\ call[c].at = "subscriber" /\ call' = [call EXCEPT ![c].at = "lastPrice"]
  /\ resetDynCandleKey2Subscriber(InstOf[c], call[c].topic, IsSub(c))
  /\ initDynCandleKey2Candle(call[c].topic, IsSub(c))
  /\ UNCHANGED <<symbolGroupUsedToGenCandle, taskQueue, ticks, handled, since>>
  /\ UNCHANGED <<subMgr, shmCli, RestOfCandle>>

\* The topic of the last price goes to SubMgr, not to TopicMgr.
LastPriceInSubMgr(c) ==
  /\ call[c].at = "lastPrice" /\ call' = [call EXCEPT ![c] = Idle]
  /\ inSubMgr(c, call[c].op, LastPriceOf[call[c].topic.symbol])
  /\ shmCli' = (shmCli \/ IsSub(c))
  /\ UNCHANGED <<candleVars, RestOfCandle>>

-----------------------------------------------------------------------------
\* handleSubInfoForCli, a timer of the engine: the whole table, to the services
\* whose client is ready.
handleSubInfoForCli ==
  /\ shmCli /\ svcUp /\ Len(chan) < MaxChan /\ chan' = Append(chan, topicGroup)
  /\ UNCHANGED <<engVars, candleVars, srvVars, apiVars, lastExchTs, calls, faults>>

\* SHMSrvMsgHandler::handleSyncSubInfo
handleSyncSubInfo ==
  /\ svcUp /\ chan # << >> /\ chan' = Tail(chan)
  /\ srvGroup' = updateForSrv(srvGroup, Head(chan))
  /\ activeAge' = updateActiveTime(activeAge, Head(chan))
  /\ UNCHANGED <<engVars, candleVars, svcUp, old, todo, apiVars, lastExchTs, calls, faults>>

\* handleSubInfoForSrv, a timer of the service.  That what is in the table is what
\* has been asked for is noted here, under the lock.
handleSubInfoForSrv ==
  /\ svcUp /\ todo = Nothing
  /\ LET group == removeExpiredSubscriber(srvGroup, activeAge, Lease)
     IN  /\ srvGroup' = group /\ old' = TopicsOf(group)
         /\ todo' = [sub |-> topicNeedSub(group, old), unSub |-> topicNeedUnSub(group, old)]
  /\ UNCHANGED <<engVars, candleVars, chan, svcUp, activeAge, apiVars, lastExchTs, calls, faults>>

FeedsOf(topics) == {FeedOf[t] : t \in topics} \ {NoFeed}

\* What the answers (OnSubTickByTick and its like) say was done; they are logged.
Done(asked, refused) == IF loggedIn THEN asked \ refused ELSE {}

\* doSub and doUnSub: types of market data the API has no feed for are passed over.
doSub(fed, refused) == fed \cup Done(FeedsOf(todo.sub), refused)
doUnSub(fed, refused) == fed \ Done(FeedsOf(todo.unSub), refused)

\* What the service believes of a feed was right unless the call did nothing.
doSubAndUnSub(refused) ==
  LET sub == FeedsOf(todo.sub)
      unSub == FeedsOf(todo.unSub)
  IN  /\ feeds' = doUnSub(doSub(feeds, refused), refused)
      /\ cut' = (cut \ Done(sub, refused)) \cup (sub \ Done(sub, refused))
                  \cup (unSub \cap (refused \cup FeedsOf(old)))

\* The subscriptions first; with subAllMarketData nothing is asked for.
handleTopicNeedSubAndUnSub ==
  /\ svcUp /\ todo # Nothing /\ todo' = Nothing
  /\ IF SubAll THEN UNCHANGED <<feeds, cut, faults>>
     ELSE \/ doSubAndUnSub({}) /\ UNCHANGED faults
          \/ /\ loggedIn /\ faults < MaxFaults /\ faults' = faults + 1
             /\ \E f \in FeedsOf(todo.sub \cup todo.unSub) : doSubAndUnSub({f})
  /\ UNCHANGED <<engVars, candleVars, chan, svcUp, srvGroup, activeAge, old, loggedIn, lastExchTs, calls>>

-----------------------------------------------------------------------------
\* The API: all the service subscribes again by itself is everything.
Login ==
  /\ svcUp /\ ~loggedIn /\ loggedIn' = TRUE
  /\ feeds' = IF SubAll THEN Feed ELSE feeds
  /\ UNCHANGED <<engVars, candleVars, chan, srvVars, cut, lastExchTs, calls, faults>>

Fault == faults < MaxFaults /\ faults' = faults + 1

OnDisconnected ==
  /\ Fault /\ svcUp /\ loggedIn /\ loggedIn' = FALSE /\ feeds' = {} /\ cut' = Feed
  /\ UNCHANGED <<engVars, candleVars, chan, srvVars, lastExchTs, calls>>

\* The service starts: the gateway, then the timer of its TopicMgr.
SvcStart ==
  /\ ~svcUp /\ svcUp' = TRUE /\ cut' = {}
  /\ \E b \in StartLoggedIn : loggedIn' = b /\ feeds' = IF b /\ SubAll THEN Feed ELSE {}
  /\ UNCHANGED <<engVars, candleVars, chan, srvGroup, activeAge, old, todo, lastExchTs, calls, faults>>

SvcCrash ==
  /\ Fault /\ svcUp /\ svcUp' = FALSE /\ loggedIn' = FALSE /\ feeds' = {} /\ cut' = {} /\ chan' = << >>
  /\ srvGroup' = NoTopics /\ activeAge' = [i \in Inst |-> 0] /\ old' = {} /\ todo' = Nothing
  /\ lastExchTs' = [s \in Symbol |-> 0]
  /\ UNCHANGED <<engVars, candleVars, calls>>

\* The engine ends and starts again under its name; what it had sent is on its way.
EngCrash ==
  /\ Fault /\ call' = [c \in Caller |-> Idle] /\ wants' = [c \in Caller |-> {}]
  /\ robbed' = {} /\ overlapped' = {} /\ subMgr' = [t \in Topic |-> {}] /\ topicGroup' = NoTopics
  /\ shmCli' = FALSE /\ CandleReset
  /\ UNCHANGED <<chan, srvVars, apiVars, lastExchTs, calls>>

\* Time goes by.  While the engine sends, a lease runs out only if a timer stalls.
Sending(i) == shmCli /\ topicGroup[i] # {}
Tick ==
  /\ svcUp /\ \E i \in Inst : srvGroup[i] # {} /\ activeAge[i] <= Lease
  /\ activeAge' = [i \in Inst |-> IF srvGroup[i] # {} /\ activeAge[i] <= Lease THEN activeAge[i] + 1
                                  ELSE activeAge[i]]
  /\ IF \E i \in Inst : Sending(i) /\ srvGroup[i] # {} /\ activeAge[i] = Lease THEN Fault ELSE UNCHANGED faults
  /\ UNCHANGED <<engVars, candleVars, chan, svcUp, srvGroup, old, todo, apiVars, lastExchTs, calls>>

-----------------------------------------------------------------------------
\* A trade: OnTickByTick, checkIfMDIsLegal and handleMDTrades, and
\* handleMDLastPriceByTrades; both messages go to every client of PUB_CHANNEL.
\* SHM keeps their order; the engine takes the last price out of it at once.
\* (Bound: trades are looked at once somebody has asked for a candle.)
checkIfMDIsLegal(symbol, exchTs) == lastExchTs[symbol] <= exchTs

Trade(symbol, exchTs) ==
  /\ svcUp /\ TradesOf[symbol] \in feeds /\ Len(ticks) < MaxTicks
  /\ symbolGroupUsedToGenCandle # {} \/ dynCandleKey2Candle # << >>
  /\ checkIfMDIsLegal(symbol, exchTs) /\ lastExchTs' = [lastExchTs EXCEPT ![symbol] = exchTs]
  /\ shmCli /\ handleLastPrice(symbol, exchTs)
  /\ UNCHANGED <<engVars, chan, srvVars, apiVars, calls, faults>>

TakeTask ==
  /\ handleAsyncTask
  /\ UNCHANGED <<engVars, chan, srvVars, apiVars, lastExchTs, calls, faults>>

Step(c) ==
  \/ \E op \in {"sub", "unSub"} : \E t \in Asks[c] : Call(c, op, t) \/ CallCandle(c, op, t)
  \/ inTopicMgr(c)
  \/ CandleOfKey(c)
  \/ LastPriceInSubMgr(c)

Next ==
  \/ \E c \in Caller : Step(c)
  \/ handleSubInfoForCli
  \/ handleSyncSubInfo
  \/ handleSubInfoForSrv
  \/ handleTopicNeedSubAndUnSub
  \/ Login
  \/ OnDisconnected
  \/ SvcStart
  \/ SvcCrash
  \/ EngCrash
  \/ Tick
  \/ \E s \in Symbol, ts \in 1 .. MaxTs : Trade(s, ts)
  \/ TakeTask

\* The threads run on: calls that were begun end, the timers fire, the service is
\* started again, the API logs in and time goes by.
Fairness ==
  /\ WF_vars(\E c \in Caller : inTopicMgr(c) \/ CandleOfKey(c) \/ LastPriceInSubMgr(c))
  /\ WF_vars(handleSubInfoForCli) /\ WF_vars(handleSyncSubInfo)
  /\ WF_vars(handleSubInfoForSrv) /\ WF_vars(handleTopicNeedSubAndUnSub)
  /\ WF_vars(Login) /\ WF_vars(SvcStart) /\ WF_vars(Tick)

Spec == Init /\ [][Next]_vars /\ Fairness

-----------------------------------------------------------------------------
\* Between calls the two tables of the engine agree: what is routed to an instance
\* is asked for in its name and the other way round, unless two callers of the
\* instance were changing the topic at the same time.  (The last price of a
\* candle is never asked for.)
RoutedIsRequested ==
  \A i \in Inst, t \in Topic \ {LastPriceOf[s] : s \in Symbol} :
    (\A c \in Caller : InstOf[c] = i => call[c].op = "none") /\ <<i, t>> \notin overlapped
      => (i \in subMgr[t] <=> t \in topicGroup[i])

Wanted(f) == \E c \in Caller : \E t \in wants[c] \cap Topic : FeedOf[t] = f /\ <<InstOf[c], t>> \notin robbed \cup overlapped

\* What somebody keeps subscribed is fed in the end, over crashes of the service,
\* leases that ran out and messages that crossed, unless another caller of the
\* instance unsubscribed it or the API was told and did not do it.
EventuallyFed ==
  \A f \in Feed : (<>[] Wanted(f)) => <>[](f \in feeds \/ f \in cut)

-----------------------------------------------------------------------------
\* For TLC: two instances, an algorithmic order in the first, two topics that
\* come with one feed and two candles of one symbol.
CONSTANTS Trades, Orders, LastPrice

MCKey == {[symbol |-> "s", startTs |-> 1, interval |-> 1]}
MCInstOf == ("st1" :> 1) @@ ("al1" :> 1) @@ ("st2" :> 2)
MCAsks == ("st1" :> {Trades} \cup MCKey) @@ ("al1" :> {Trades}) @@ ("st2" :> {Orders} \cup MCKey)
MCFeedOf == (Trades :> "tbt") @@ (Orders :> "tbt") @@ (LastPrice :> "none")
MCLastPriceOf == ("s" :> LastPrice)
MCTradesOf == ("s" :> "tbt")
=============================================================================
