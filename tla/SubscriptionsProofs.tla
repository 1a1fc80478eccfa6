------------------------- MODULE SubscriptionsProofs -------------------------
(***************************************************************************)
(* Proofs about the way of a subscription (Subscriptions), for all callers, *)
(* instances, topics and candles, and all bounds.                          *)
(***************************************************************************)
EXTENDS Subscriptions, TLAPS

-----------------------------------------------------------------------------
(***************************************************************************)
(* The two tables of the strategy engine.  A call changes SubMgr at once    *)
(* and TopicMgr in a step of its own; while no other caller of the instance *)
(* changes the topic, SubMgr is what the call asks for, and TopicMgr is to  *)
(* become so.                                                              *)
(***************************************************************************)
Ordinary == Topic \ {LastPriceOf[s] : s \in Symbol}

CallRec == [op : {"none", "sub", "unSub"}, topic : Topic \cup Key \cup {Idle.topic},
            at : {"none", "topicMgr", "subscriber", "lastPrice"}]

\* What a call is about, by where it is.
Sane(r) ==
  /\ (r.op = "none") <=> (r.at = "none")
  /\ r.at = "topicMgr" => r.topic \in Topic
  /\ r.at \in {"subscriber", "lastPrice"} => r.topic \in Key

TablesTyped ==
  /\ call \in [Caller -> CallRec] /\ \A c \in Caller : Sane(call[c])
  /\ subMgr \in [Topic -> SUBSET Inst] /\ topicGroup \in [Inst -> SUBSET Topic]

\* The calls of an instance that have yet to change a topic in TopicMgr.
Between(c, i, t) == InstOf[c] = i /\ call[c].at = "topicMgr" /\ call[c].topic = t

OneAtATime ==
  \A i \in Inst, t \in Ordinary : <<i, t>> \notin overlapped =>
    \A c, d \in Caller : Between(c, i, t) /\ Between(d, i, t) => c = d

SubMgrFollowsCall ==
  \A i \in Inst, t \in Ordinary : <<i, t>> \notin overlapped =>
    \A c \in Caller : Between(c, i, t) => (i \in subMgr[t] <=> call[c].op = "sub")

AgreeAtRest ==
  \A i \in Inst, t \in Ordinary :
    <<i, t>> \notin overlapped /\ (\A c \in Caller : ~Between(c, i, t)) => (i \in subMgr[t] <=> t \in topicGroup[i])

RouteInv == TablesTyped /\ OneAtATime /\ SubMgrFollowsCall /\ AgreeAtRest

LEMMA IdleIs == Idle \in CallRec /\ Sane(Idle) /\ Idle.op = "none" /\ Idle.at = "none"
<1>1. Idle.op = "none" /\ Idle.at = "none" /\ Idle.topic \in Topic \cup Key \cup {Idle.topic}
  BY DEF Idle
<1>2. Idle = [op |-> Idle.op, topic |-> Idle.topic, at |-> Idle.at]
  BY DEF Idle
<1> QED BY <1>1, <1>2 DEF CallRec, Sane

LEMMA NothingIsRouted ==
  ASSUME call' = [c \in Caller |-> Idle], subMgr' = [t \in Topic |-> {}], topicGroup' = NoTopics
  PROVE  RouteInv'
<1>1. \A c \in Caller : call'[c] = Idle
  OBVIOUS
<1>2. TablesTyped'
  BY IdleIs DEF TablesTyped, NoTopics, Sane
<1>3. \A i, t : \A c \in Caller : ~Between(c, i, t)'
  BY <1>1, IdleIs DEF Between
<1>4. \A i \in Inst, t \in Ordinary : i \notin subMgr'[t] /\ t \notin topicGroup'[i]
  BY DEF NoTopics, Ordinary
<1> QED BY <1>2, <1>3, <1>4 DEF RouteInv, OneAtATime, SubMgrFollowsCall, AgreeAtRest

\* The first step of a call.
LEMMA CallKeeps ==
  ASSUME RouteInv, NEW c \in Caller, NEW op \in {"sub", "unSub"}, NEW t, Call(c, op, t)
  PROVE  RouteInv'
<1> DEFINE i == InstOf[c]
           r == [op |-> op, topic |-> t, at |-> "topicMgr"]
<1>1. /\ TablesTyped /\ OneAtATime /\ SubMgrFollowsCall /\ AgreeAtRest /\ i \in Inst
      /\ call \in [Caller -> CallRec] /\ \A d \in Caller : Sane(call[d])
  BY SubscriptionsAssumption DEF RouteInv, TablesTyped
<1>2. /\ t \in Topic /\ call[c].op = "none" /\ topicGroup' = topicGroup
      /\ call' = [call EXCEPT ![c] = r]
      /\ subMgr' = IF op = "sub" THEN [subMgr EXCEPT ![t] = @ \cup {i}] ELSE [subMgr EXCEPT ![t] = @ \ {i}]
      /\ overlapped' = IF InTheMiddle(c, t) THEN overlapped \cup {<<i, t>>} ELSE overlapped
  BY DEF Call, Begin, inSubMgr, subTopic, unSubTopic
<1>3. r \in CallRec /\ Sane(r) /\ r.op = op /\ r.topic = t /\ r.at = "topicMgr"
  BY <1>2 DEF CallRec, Sane
<1> HIDE DEF r, i
<1>4. call'[c] = r /\ \A d \in Caller : d # c => call'[d] = call[d]
  BY <1>1, <1>2
<1>5. /\ subMgr' \in [Topic -> SUBSET Inst]
      /\ \A j \in Inst, u \in Topic : (j # i \/ u # t) => (j \in subMgr'[u] <=> j \in subMgr[u])
      /\ i \in subMgr'[t] <=> op = "sub"
  BY <1>1, <1>2 DEF TablesTyped
<1>6. TablesTyped'
  BY <1>1, <1>2, <1>3, <1>4, <1>5 DEF TablesTyped
<1>7. /\ \A j, u : ~Between(c, j, u) /\ (Between(c, j, u)' <=> j = i /\ u = t)
      /\ \A d \in Caller : d # c => \A j, u : Between(d, j, u)' <=> Between(d, j, u)
  <2>1. call[c].at = "none"
    BY <1>1, <1>2 DEF Sane
  <2> QED BY <1>3, <1>4, <2>1 DEF Between, i
<1>8. ASSUME <<i, t>> \notin overlapped', NEW d \in Caller, Between(d, i, t)' PROVE d = c
  <2>1. SUFFICES ASSUME d # c PROVE FALSE
    OBVIOUS
  <2>2. Between(d, i, t)
    BY <1>7, <1>8, <2>1
  <2>3. call[d].op # "none" /\ InstOf[d] = InstOf[c] /\ call[d].topic = t
    BY <1>1, <2>2 DEF Between, Sane, i
  <2> QED BY <1>2, <1>8, <2>1, <2>3 DEF InTheMiddle
<1>9. \A j, u : <<j, u>> \notin overlapped' => <<j, u>> \notin overlapped
  BY <1>2
<1>10. OneAtATime'
  <2> SUFFICES ASSUME NEW j \in Inst, NEW u \in Ordinary, <<j, u>> \notin overlapped',
                      NEW d \in Caller, NEW e \in Caller, Between(d, j, u)', Between(e, j, u)'
               PROVE  d = e
    BY DEF OneAtATime
  <2>1. CASE j = i /\ u = t
    BY <1>8, <2>1
  <2>2. CASE ~(j = i /\ u = t)
    BY <1>1, <1>7, <1>9, <2>2 DEF OneAtATime
  <2> QED BY <2>1, <2>2
<1>11. SubMgrFollowsCall'
  <2> SUFFICES ASSUME NEW j \in Inst, NEW u \in Ordinary, <<j, u>> \notin overlapped',
                      NEW d \in Caller, Between(d, j, u)'
               PROVE  j \in subMgr'[u] <=> call'[d].op = "sub"
    BY DEF SubMgrFollowsCall
  <2>1. CASE j = i /\ u = t
    BY <1>3, <1>4, <1>5, <1>8, <2>1
  <2>2. CASE ~(j = i /\ u = t)
    <3>1. d # c /\ Between(d, j, u) /\ u \in Topic
      BY <1>7, <2>2 DEF Ordinary
    <3> QED BY <1>1, <1>4, <1>5, <1>9, <2>2, <3>1 DEF SubMgrFollowsCall
  <2> QED BY <2>1, <2>2
<1>12. AgreeAtRest'
  <2> SUFFICES ASSUME NEW j \in Inst, NEW u \in Ordinary, <<j, u>> \notin overlapped',
                      \A d \in Caller : ~Between(d, j, u)'
               PROVE  j \in subMgr'[u] <=> u \in topicGroup'[j]
    BY DEF AgreeAtRest
  <2>1. ~(j = i /\ u = t) /\ u \in Topic
    BY <1>7 DEF Ordinary
  <2>2. \A d \in Caller : ~Between(d, j, u)
    BY <1>7
  <2> QED BY <1>1, <1>2, <1>5, <1>9, <2>1, <2>2 DEF AgreeAtRest
<1> QED BY <1>6, <1>10, <1>11, <1>12 DEF RouteInv

\* The last step of a call.
LEMMA inTopicMgrKeeps ==
  ASSUME RouteInv, NEW c \in Caller, inTopicMgr(c)
  PROVE  RouteInv'
<1> DEFINE i == InstOf[c]
           t == call[c].topic
           op == call[c].op
<1>1. /\ TablesTyped /\ OneAtATime /\ SubMgrFollowsCall /\ AgreeAtRest /\ i \in Inst
      /\ call \in [Caller -> CallRec] /\ Sane(call[c]) /\ call[c] \in CallRec
  BY SubscriptionsAssumption DEF RouteInv, TablesTyped
<1>2. /\ call[c].at = "topicMgr" /\ t \in Topic /\ op \in {"sub", "unSub"}
      /\ call' = [call EXCEPT ![c] = Idle] /\ subMgr' = subMgr /\ overlapped' = overlapped
      /\ topicGroup' = IF op = "sub" THEN [topicGroup EXCEPT ![i] = @ \cup {t}] ELSE [topicGroup EXCEPT ![i] = @ \ {t}]
  BY <1>1 DEF inTopicMgr, IsSub, addTopic, removeTopic, Sane, CallRec
<1> HIDE DEF i, t, op
<1>3. call'[c] = Idle /\ \A d \in Caller : d # c => call'[d] = call[d]
  BY <1>1, <1>2
<1>4. /\ topicGroup' \in [Inst -> SUBSET Topic]
      /\ \A j \in Inst, u \in Topic : (j # i \/ u # t) => (u \in topicGroup'[j] <=> u \in topicGroup[j])
      /\ t \in topicGroup'[i] <=> op = "sub"
  BY <1>1, <1>2 DEF TablesTyped
<1>5. TablesTyped'
  BY <1>1, <1>2, <1>3, <1>4, IdleIs DEF TablesTyped, Sane
<1>6. /\ \A j, u : ~Between(c, j, u)' /\ (Between(c, j, u) <=> j = i /\ u = t)
      /\ \A d \in Caller : d # c => \A j, u : Between(d, j, u)' <=> Between(d, j, u)
  BY <1>2, <1>3, IdleIs DEF Between, i, t
<1>7. OneAtATime'
  BY <1>1, <1>2, <1>6 DEF OneAtATime
<1>8. SubMgrFollowsCall'
  BY <1>1, <1>2, <1>3, <1>6 DEF SubMgrFollowsCall
<1>9. AgreeAtRest'
  <2> SUFFICES ASSUME NEW j \in Inst, NEW u \in Ordinary, <<j, u>> \notin overlapped,
                      \A d \in Caller : ~Between(d, j, u)'
               PROVE  j \in subMgr[u] <=> u \in topicGroup'[j]
    BY <1>2 DEF AgreeAtRest
  <2>1. CASE j = i /\ u = t
    BY <1>1, <1>4, <1>6, <2>1 DEF SubMgrFollowsCall, op
  <2>2. CASE ~(j = i /\ u = t)
    <3>1. \A d \in Caller : ~Between(d, j, u)
      BY <1>6, <2>2
    <3>2. u \in Topic
      BY DEF Ordinary
    <3> QED BY <1>1, <1>4, <2>2, <3>1, <3>2 DEF AgreeAtRest
  <2> QED BY <2>1, <2>2
<1> QED BY <1>5, <1>7, <1>8, <1>9 DEF RouteInv

\* A step of a call about a candle changes neither table where an ordinary topic is.
LEMMA CandleFrame ==
  ASSUME RouteInv, NEW c \in Caller, NEW r \in CallRec, call' = [call EXCEPT ![c] = r], Sane(r),
         call[c].at # "topicMgr", r.at # "topicMgr",
         subMgr' \in [Topic -> SUBSET Inst], \A t \in Ordinary : subMgr'[t] = subMgr[t],
         topicGroup' = topicGroup, overlapped' = overlapped
  PROVE  RouteInv'
<1>1. TablesTyped /\ OneAtATime /\ SubMgrFollowsCall /\ AgreeAtRest /\ call \in [Caller -> CallRec]
  BY DEF RouteInv, TablesTyped
<1>2. call'[c] = r /\ \A d \in Caller : d # c => call'[d] = call[d]
  BY <1>1
<1>3. TablesTyped'
  BY <1>1, <1>2 DEF TablesTyped
<1>4. \A d \in Caller : \A j, u : (Between(d, j, u)' <=> Between(d, j, u)) /\ (Between(d, j, u) => d # c)
  BY <1>2 DEF Between
<1>5. OneAtATime'
  BY <1>1, <1>4 DEF OneAtATime
<1>6. SubMgrFollowsCall'
  BY <1>1, <1>2, <1>4 DEF SubMgrFollowsCall
<1>7. AgreeAtRest'
  BY <1>1, <1>4 DEF AgreeAtRest
<1> QED BY <1>3, <1>5, <1>6, <1>7 DEF RouteInv

LEMMA CandleStepKeeps ==
  ASSUME RouteInv, NEW c \in Caller,
         \/ \E op \in {"sub", "unSub"} : \E t \in Asks[c] : CallCandle(c, op, t)
         \/ CandleOfKey(c)
         \/ LastPriceInSubMgr(c)
  PROVE  RouteInv'
<1>1. /\ TablesTyped /\ call \in [Caller -> CallRec] /\ call[c] \in CallRec /\ Sane(call[c])
      /\ subMgr \in [Topic -> SUBSET Inst] /\ InstOf[c] \in Inst
  BY SubscriptionsAssumption DEF RouteInv, TablesTyped
<1>2. ASSUME NEW op \in {"sub", "unSub"}, NEW t \in Asks[c], CallCandle(c, op, t) PROVE RouteInv'
  <2> DEFINE r == [op |-> op, topic |-> t, at |-> "subscriber"]
  <2>1. call[c].op = "none" /\ t \in Key /\ call' = [call EXCEPT ![c] = r]
        /\ subMgr' = subMgr /\ topicGroup' = topicGroup /\ overlapped' = overlapped
    BY <1>2 DEF CallCandle, Begin
  <2>2. r \in CallRec /\ Sane(r) /\ r.at # "topicMgr" /\ call[c].at # "topicMgr"
    BY <1>1, <2>1 DEF CallRec, Sane
  <2> HIDE DEF r
  <2> QED BY <1>1, <2>1, <2>2, CandleFrame
<1>3. CASE CandleOfKey(c)
  <2> DEFINE r == [call[c] EXCEPT !.at = "lastPrice"]
  <2>1. call[c].at = "subscriber" /\ call' = [call EXCEPT ![c] = r]
        /\ subMgr' = subMgr /\ topicGroup' = topicGroup /\ overlapped' = overlapped
    BY <1>1, <1>3 DEF CandleOfKey, RestOfCandle
  <2>2. r \in CallRec /\ Sane(r) /\ r.at # "topicMgr" /\ call[c].at # "topicMgr"
    BY <1>1, <2>1 DEF CallRec, Sane
  <2> HIDE DEF r
  <2> QED BY <1>1, <2>1, <2>2, CandleFrame
<1>4. CASE LastPriceInSubMgr(c)
  <2> DEFINE t == LastPriceOf[call[c].topic.symbol]
  <2>1. /\ call[c].at = "lastPrice" /\ call' = [call EXCEPT ![c] = Idle]
        /\ subMgr' = IF call[c].op = "sub" THEN [subMgr EXCEPT ![t] = @ \cup {InstOf[c]}]
                     ELSE [subMgr EXCEPT ![t] = @ \ {InstOf[c]}]
        /\ topicGroup' = topicGroup /\ overlapped' = overlapped
    BY <1>4 DEF LastPriceInSubMgr, inSubMgr, subTopic, unSubTopic, RestOfCandle
  <2>2. t \in {LastPriceOf[s] : s \in Symbol}
    BY <1>1, <2>1 DEF Sane, Symbol
  <2> HIDE DEF t
  <2>3. subMgr' \in [Topic -> SUBSET Inst] /\ \A u \in Ordinary : subMgr'[u] = subMgr[u]
    BY <1>1, <2>1, <2>2 DEF Ordinary
  <2> QED BY <1>1, <2>1, <2>3, IdleIs, CandleFrame
<1> QED BY <1>2, <1>3, <1>4

LEMMA RouteKept == RouteInv /\ [Next]_vars => RouteInv'
<1> SUFFICES ASSUME RouteInv, [Next]_vars PROVE RouteInv'
  OBVIOUS
<1>1. ASSUME NEW c \in Caller, Step(c) PROVE RouteInv'
  BY <1>1, CallKeeps, inTopicMgrKeeps, CandleStepKeeps DEF Step
<1>2. CASE EngCrash
  BY <1>2, NothingIsRouted DEF EngCrash
<1>3. ASSUME UNCHANGED <<call, subMgr, topicGroup, overlapped>> PROVE RouteInv'
  BY <1>3 DEF RouteInv, TablesTyped, OneAtATime, SubMgrFollowsCall, AgreeAtRest, Between
<1>4. ASSUME NEW s \in Symbol, NEW ts \in 1 .. MaxTs, Trade(s, ts) PROVE RouteInv'
  BY <1>3, <1>4 DEF Trade, engVars
<1> QED BY <1>1, <1>2, <1>3, <1>4
        DEF Next, vars, engVars, handleSubInfoForCli, handleSyncSubInfo, handleSubInfoForSrv,
            handleTopicNeedSubAndUnSub, Login, OnDisconnected, SvcStart, SvcCrash, Tick, TakeTask

LEMMA InitRoute == Init => RouteInv
<1> SUFFICES ASSUME Init PROVE RouteInv
  OBVIOUS
<1>1. TablesTyped
  BY IdleIs DEF Init, TablesTyped, NoTopics, Sane
<1>2. \A i, t : \A c \in Caller : ~Between(c, i, t)
  BY IdleIs DEF Init, Between
<1>3. \A i \in Inst, t \in Ordinary : i \notin subMgr[t] /\ t \notin topicGroup[i]
  BY DEF Init, NoTopics, Ordinary
<1> QED BY <1>1, <1>2, <1>3 DEF RouteInv, OneAtATime, SubMgrFollowsCall, AgreeAtRest

\* RoutedIsRequested: between calls the two tables of the engine agree on every topic but
\* those of last prices, unless two callers of the instance were changing it at the same
\* time.  (StgEngImpl's sub and unSub; SubMgr, TopicMgr.)
THEOREM TablesAgree == Spec => []RoutedIsRequested
<1>1. Init => RouteInv
  BY InitRoute
<1>2. RouteInv /\ [Next]_vars => RouteInv'
  BY RouteKept
<1>3. RouteInv => RoutedIsRequested
  BY DEF RouteInv, AgreeAtRest, TablesTyped, Sane, Between, RoutedIsRequested, Ordinary
<1> QED BY <1>1, <1>2, <1>3, PTL DEF Spec

-----------------------------------------------------------------------------
(***************************************************************************)
(* The candles.  The queue holds the last prices that passed and are not    *)
(* handled yet, in the order they came; while a symbol is subscribed every  *)
(* price of it passes; a standing candle is of a subscribed symbol, so the  *)
(* next price taken from the queue is the next one meant for it.            *)
(***************************************************************************)
TickRec == [symbol : Symbol, exchTs : Nat, passed : BOOLEAN]
CandleRec == [key : Key, startTsOfCandle : Nat, vol : Seq(Nat), from : Nat, standing : BOOLEAN]

TicksTyped ==
  /\ ticks \in Seq(TickRec) /\ handled \in 0 .. Len(ticks) /\ taskQueue \in Seq(Nat)
  /\ symbolGroupUsedToGenCandle \subseteq Symbol
  /\ since \in [Symbol -> 0 .. Len(ticks)]
  /\ dynCandleKey2Candle \in Seq(CandleRec)

QueueIsWhatPassed ==
  /\ \A j \in 1 .. Len(taskQueue) :
       taskQueue[j] \in (handled + 1) .. Len(ticks) /\ ticks[taskQueue[j]].passed
  /\ \A j, k \in 1 .. Len(taskQueue) : j < k => taskQueue[j] < taskQueue[k]
  /\ \A n \in (handled + 1) .. Len(ticks) :
       ticks[n].passed => \E j \in 1 .. Len(taskQueue) : taskQueue[j] = n

SubscribedPasses ==
  \A s \in symbolGroupUsedToGenCandle : \A n \in 1 .. Len(ticks) :
    ticks[n].symbol = s /\ n > since[s] => ticks[n].passed

\* What a standing candle is, its latest interval without Max.
CandleOk(c) ==
  c.standing =>
    /\ c.key.symbol \in symbolGroupUsedToGenCandle /\ c.from <= handled
    /\ \A n \in Started(c) : StartOfTick(c, n) <= c.startTsOfCandle
    /\ c.startTsOfCandle # 0 => \E n \in Started(c) : StartOfTick(c, n) = c.startTsOfCandle
    /\ c.startTsOfCandle # 0 =>
         /\ IsInjective(c.vol)
         /\ ToSet(c.vol) = {n \in Started(c) : StartOfTick(c, n) = c.startTsOfCandle}

CandlesOk ==
  \A i \in 1 .. Len(dynCandleKey2Candle) : \A c \in CandleRec :
    c = dynCandleKey2Candle[i] => CandleOk(c)

CandleInv == TicksTyped /\ QueueIsWhatPassed /\ SubscribedPasses /\ CandlesOk

LEMMA NoCandles ==
  /\ symbolGroupUsedToGenCandle = {} /\ dynCandleKey2Candle = << >> /\ taskQueue = << >>
  /\ ticks = << >> /\ handled = 0 /\ since = [s \in Symbol |-> 0]
  => CandleInv
BY DEF CandleInv, TicksTyped, QueueIsWhatPassed, SubscribedPasses, CandlesOk

LEMMA NoCandlesNext ==
  /\ symbolGroupUsedToGenCandle' = {} /\ dynCandleKey2Candle' = << >> /\ taskQueue' = << >>
  /\ ticks' = << >> /\ handled' = 0 /\ since' = [s \in Symbol |-> 0]
  => CandleInv'
BY DEF CandleInv, TicksTyped, QueueIsWhatPassed, SubscribedPasses, CandlesOk

LEMMA StartOfIs ==
  /\ \A ts \in Nat, k \in Key : StartOf(ts, k.interval) \in Nat
  /\ \A a, b \in Nat, k \in Key : a <= b => StartOf(a, k.interval) <= StartOf(b, k.interval)
<1>1. \A k \in Key : k.interval \in Nat \ {0}
  BY SubscriptionsAssumption
<1>2. ASSUME NEW a \in Nat, NEW d \in Nat \ {0} PROVE StartOf(a, d) \in Nat
  <2>1. a \div d \in Nat
    OBVIOUS
  <2> QED BY <2>1 DEF StartOf
<1>3. ASSUME NEW a \in Nat, NEW b \in Nat, NEW d \in Nat \ {0}, a <= b PROVE StartOf(a, d) <= StartOf(b, d)
  <2>1. PICK p \in Nat : p = a \div d /\ p * d <= a
    OBVIOUS
  <2>2. PICK q \in Nat : q = b \div d /\ b < q * d + d
    OBVIOUS
  <2>3. \A x, y, z \in Nat : x <= y => x * z <= y * z
    OBVIOUS
  <2>4. p <= q
    <3>1. SUFFICES ASSUME q + 1 <= p PROVE FALSE
      OBVIOUS
    <3>2. (q + 1) * d <= p * d /\ (q + 1) * d = q * d + d
      BY <2>3, <3>1
    <3> QED BY <1>3, <2>1, <2>2, <3>2
  <2> QED BY <2>1, <2>2, <2>3, <2>4 DEF StartOf
<1> QED BY <1>1, <1>2, <1>3

\* What is meant for a candle is the same as long as nothing is handled.
LEMMA SameCandle ==
  ASSUME TicksTyped, NEW c \in CandleRec, NEW d \in CandleRec, d.key = c.key, d.from = c.from,
         handled' = handled, \A n \in 1 .. handled : ticks'[n] = ticks[n],
         since'[c.key.symbol] = since[c.key.symbol]
  PROVE  /\ Meant(d)' = Meant(c) /\ Started(d)' = Started(c)
         /\ \A n \in Started(c) : StartOfTick(d, n)' = StartOfTick(c, n)
<1>1. c.from \in Nat /\ handled \in Nat
  BY DEF TicksTyped, CandleRec
<1>2. Meant(c) \subseteq 1 .. handled
  BY <1>1 DEF Meant
<1>3. Meant(d)' = Meant(c)
  BY <1>1 DEF Meant
<1>4. Started(d)' = Started(c)
  BY <1>2, <1>3 DEF Started
<1>5. \A n \in Started(c) : StartOfTick(d, n)' = StartOfTick(c, n)
  BY <1>2 DEF Started, StartOfTick
<1> QED BY <1>3, <1>4, <1>5

\* So is what a candle should be, if it stands no more than before.
LEMMA CandleStays ==
  ASSUME TicksTyped, NEW c \in CandleRec, NEW d \in CandleRec, d.key = c.key, d.from = c.from,
         d.startTsOfCandle = c.startTsOfCandle, d.vol = c.vol,
         d.standing => c.standing /\ c.key.symbol \in symbolGroupUsedToGenCandle',
         handled' = handled, \A n \in 1 .. handled : ticks'[n] = ticks[n],
         c.standing => since'[c.key.symbol] = since[c.key.symbol], CandleOk(c)
  PROVE  CandleOk(d)'
<1> SUFFICES ASSUME d.standing PROVE CandleOk(d)'
  BY DEF CandleOk
<1>1. c.standing /\ since'[c.key.symbol] = since[c.key.symbol]
  OBVIOUS
<1>2. /\ Started(d)' = Started(c) /\ \A n \in Started(c) : StartOfTick(d, n)' = StartOfTick(c, n)
  BY <1>1, SameCandle
<1>3. {n \in Started(d)' : StartOfTick(d, n)' = d.startTsOfCandle} = {n \in Started(c) : StartOfTick(c, n) = c.startTsOfCandle}
  BY <1>2
<1> QED BY <1>1, <1>2, <1>3 DEF CandleOk

LEMMA CandleAt ==
  ASSUME TicksTyped, NEW i \in 1 .. Len(dynCandleKey2Candle)
  PROVE  dynCandleKey2Candle[i] \in CandleRec
BY DEF TicksTyped

\* No candle is touched: the ticks grow, or the symbols that are subscribed.
LEMMA CandlesStay ==
  ASSUME TicksTyped, CandlesOk, dynCandleKey2Candle' = dynCandleKey2Candle, handled' = handled,
         \A n \in 1 .. handled : ticks'[n] = ticks[n],
         \A s \in symbolGroupUsedToGenCandle : s \in symbolGroupUsedToGenCandle' /\ since'[s] = since[s]
  PROVE  CandlesOk'
<1> SUFFICES ASSUME NEW i \in 1 .. Len(dynCandleKey2Candle), NEW c \in CandleRec, c = dynCandleKey2Candle[i]
             PROVE  CandleOk(c)'
  BY DEF CandlesOk
<1>1. CandleOk(c)
  BY DEF CandlesOk
<1>2. c.standing => c.key.symbol \in symbolGroupUsedToGenCandle
  BY <1>1 DEF CandleOk
<1> QED BY <1>1, <1>2, CandleStays

\* A symbol is subscribed.
LEMMA SubSymbolKeeps ==
  ASSUME CandleInv, NEW key \in Key, resetSymbolGroupUsedToGenCandle(key, TRUE)
  PROVE  CandleInv'
<1>1. TicksTyped /\ QueueIsWhatPassed /\ SubscribedPasses /\ CandlesOk /\ key.symbol \in Symbol
  BY DEF CandleInv, Symbol
<1>2. /\ symbolGroupUsedToGenCandle' = symbolGroupUsedToGenCandle \cup {key.symbol}
      /\ since' = IF key.symbol \in symbolGroupUsedToGenCandle THEN since
                  ELSE [since EXCEPT ![key.symbol] = Len(ticks)]
      /\ UNCHANGED <<dynCandleKey2Candle, taskQueue, ticks, handled>>
  BY DEF resetSymbolGroupUsedToGenCandle
<1>3. Len(ticks) \in Nat /\ Len(ticks) \in 0 .. Len(ticks)
  BY <1>1 DEF TicksTyped
<1>4. since' \in [Symbol -> 0 .. Len(ticks)]
  BY <1>1, <1>2, <1>3 DEF TicksTyped
<1>5. \A s \in symbolGroupUsedToGenCandle : since'[s] = since[s]
  BY <1>1, <1>2 DEF TicksTyped
<1>6. key.symbol \notin symbolGroupUsedToGenCandle => since'[key.symbol] = Len(ticks)
  BY <1>1, <1>2 DEF TicksTyped
<1>7. TicksTyped'
  BY <1>1, <1>2, <1>4 DEF TicksTyped
<1>8. QueueIsWhatPassed'
  BY <1>1, <1>2 DEF QueueIsWhatPassed
<1>9. SubscribedPasses'
  BY <1>1, <1>2, <1>3, <1>5, <1>6 DEF SubscribedPasses
<1>10. CandlesOk'
  BY <1>1, <1>2, <1>5, CandlesStay
<1> QED BY <1>7, <1>8, <1>9, <1>10 DEF CandleInv

\* A symbol is no longer subscribed, and no candle of it stands.
LEMMA UnSubSymbolKeeps ==
  ASSUME CandleInv, NEW key \in Key, resetSymbolGroupUsedToGenCandle(key, FALSE)
  PROVE  CandleInv'
<1>1. TicksTyped /\ QueueIsWhatPassed /\ SubscribedPasses /\ CandlesOk
  BY DEF CandleInv
<1>2. /\ symbolGroupUsedToGenCandle' = symbolGroupUsedToGenCandle \ {key.symbol}
      /\ dynCandleKey2Candle' = [n \in DOMAIN dynCandleKey2Candle |->
           [dynCandleKey2Candle[n] EXCEPT !.standing = @ /\ dynCandleKey2Candle[n].key.symbol # key.symbol]]
      /\ UNCHANGED <<since, taskQueue, ticks, handled>>
  BY DEF resetSymbolGroupUsedToGenCandle
<1>3. DOMAIN dynCandleKey2Candle = 1 .. Len(dynCandleKey2Candle) /\ Len(dynCandleKey2Candle) \in Nat
  BY <1>1 DEF TicksTyped
<1>4. ASSUME NEW i \in 1 .. Len(dynCandleKey2Candle)
      PROVE  \E c, d \in CandleRec : /\ c = dynCandleKey2Candle[i] /\ d = dynCandleKey2Candle'[i]
                                     /\ d.key = c.key /\ d.from = c.from /\ d.vol = c.vol
                                     /\ d.startTsOfCandle = c.startTsOfCandle
                                     /\ d.standing => c.standing /\ c.key.symbol # key.symbol
  <2>1. PICK c \in CandleRec : c = dynCandleKey2Candle[i]
    BY <1>1, CandleAt
  <2> DEFINE d == [c EXCEPT !.standing = c.standing /\ c.key.symbol # key.symbol]
  <2>2. d = dynCandleKey2Candle'[i]
    BY <1>2, <1>3, <2>1
  <2>3. d = [key |-> c.key, startTsOfCandle |-> c.startTsOfCandle, vol |-> c.vol, from |-> c.from,
             standing |-> (c.standing /\ c.key.symbol # key.symbol)]
    BY <2>1 DEF CandleRec
  <2>4. (c.standing /\ c.key.symbol # key.symbol) \in BOOLEAN
    OBVIOUS
  <2>5. d \in CandleRec
    BY <2>1, <2>3, <2>4 DEF CandleRec
  <2>6. d.key = c.key /\ d.from = c.from /\ d.vol = c.vol /\ d.startTsOfCandle = c.startTsOfCandle
        /\ (d.standing => c.standing /\ c.key.symbol # key.symbol)
    BY <2>3
  <2> HIDE DEF d
  <2> QED BY <2>1, <2>2, <2>5, <2>6
<1>5. dynCandleKey2Candle' \in Seq(CandleRec) /\ Len(dynCandleKey2Candle') = Len(dynCandleKey2Candle)
  <2> DEFINE g == dynCandleKey2Candle'
  <2>1. DOMAIN g = 1 .. Len(dynCandleKey2Candle)
    BY <1>2, <1>3
  <2>2. \A i \in 1 .. Len(dynCandleKey2Candle) : g[i] \in CandleRec
    BY <1>4
  <2>3. g = [i \in 1 .. Len(dynCandleKey2Candle) |-> g[i]]
    BY <1>2, <1>3, <2>1
  <2> HIDE DEF g
  <2>4. g \in Seq(CandleRec) /\ Len(g) = Len(dynCandleKey2Candle)
    BY <1>3, <2>1, <2>2, <2>3
  <2> QED BY <2>4 DEF g
<1>6. CandlesOk'
  <2> SUFFICES ASSUME NEW i \in 1 .. Len(dynCandleKey2Candle), NEW e \in CandleRec, e = dynCandleKey2Candle'[i]
               PROVE  CandleOk(e)'
    BY <1>5 DEF CandlesOk
  <2>1. PICK c \in CandleRec : /\ c = dynCandleKey2Candle[i] /\ e.key = c.key /\ e.from = c.from /\ e.vol = c.vol
                               /\ e.startTsOfCandle = c.startTsOfCandle
                               /\ e.standing => c.standing /\ c.key.symbol # key.symbol
    BY <1>4
  <2>2. CandleOk(c)
    BY <1>1, <2>1 DEF CandlesOk
  <2>3. e.standing => c.key.symbol \in symbolGroupUsedToGenCandle'
    BY <1>2, <2>1, <2>2 DEF CandleOk
  <2> QED BY <1>1, <1>2, <2>1, <2>2, <2>3, CandleStays
<1>7. TicksTyped'
  BY <1>1, <1>2, <1>5 DEF TicksTyped
<1>8. QueueIsWhatPassed' /\ SubscribedPasses'
  BY <1>1, <1>2 DEF QueueIsWhatPassed, SubscribedPasses
<1> QED BY <1>6, <1>7, <1>8 DEF CandleInv

\* A last price comes; the filter lets it pass if its symbol is subscribed.
LEMMA LastPriceKeeps ==
  ASSUME CandleInv, NEW s \in Symbol, NEW ts \in Nat, handleLastPrice(s, ts)
  PROVE  CandleInv'
<1> DEFINE r == [symbol |-> s, exchTs |-> ts, passed |-> s \in symbolGroupUsedToGenCandle]
<1>1. /\ TicksTyped /\ QueueIsWhatPassed /\ SubscribedPasses /\ CandlesOk
      /\ ticks \in Seq(TickRec) /\ taskQueue \in Seq(Nat) /\ Len(ticks) \in Nat /\ handled \in 0 .. Len(ticks)
  BY DEF CandleInv, TicksTyped
<1>2. /\ ticks' = Append(ticks, r)
      /\ taskQueue' = IF s \in symbolGroupUsedToGenCandle THEN Append(taskQueue, Len(ticks) + 1) ELSE taskQueue
      /\ UNCHANGED <<symbolGroupUsedToGenCandle, dynCandleKey2Candle, handled, since>>
  BY DEF handleLastPrice
<1>3. r.symbol = s /\ r.passed = (s \in symbolGroupUsedToGenCandle) /\ r.passed \in BOOLEAN
  <2>1. (s \in symbolGroupUsedToGenCandle) \in BOOLEAN
    OBVIOUS
  <2>2. r.symbol = s /\ r.passed = (s \in symbolGroupUsedToGenCandle)
    OBVIOUS
  <2> HIDE DEF r
  <2> QED BY <2>1, <2>2
<1>4. r \in TickRec
  BY <1>3 DEF TickRec
<1> HIDE DEF r
<1>5. /\ ticks' \in Seq(TickRec) /\ Len(ticks') = Len(ticks) + 1
      /\ \A n \in 1 .. Len(ticks) : ticks'[n] = ticks[n]
      /\ ticks'[Len(ticks) + 1] = r
  BY <1>1, <1>2, <1>4
<1>6. \A n \in 1 .. handled : ticks'[n] = ticks[n]
  BY <1>1, <1>5
<1>7. TicksTyped'
  <2>1. taskQueue' \in Seq(Nat)
    BY <1>1, <1>2
  <2>2. since' \in [Symbol -> 0 .. Len(ticks')] /\ handled' \in 0 .. Len(ticks')
    BY <1>1, <1>2, <1>5 DEF TicksTyped
  <2> QED BY <1>1, <1>2, <1>5, <2>1, <2>2 DEF TicksTyped
<1>8. CandlesOk'
  BY <1>1, <1>2, <1>6, CandlesStay
<1>9. SubscribedPasses'
  <2> SUFFICES ASSUME NEW u \in symbolGroupUsedToGenCandle, NEW n \in 1 .. (Len(ticks) + 1),
                      ticks'[n].symbol = u, n > since[u]
               PROVE  ticks'[n].passed
    BY <1>2, <1>5 DEF SubscribedPasses
  <2>1. CASE n = Len(ticks) + 1
    BY <1>3, <1>5, <2>1
  <2>2. CASE n # Len(ticks) + 1
    <3>1. n \in 1 .. Len(ticks)
      BY <1>1, <2>2
    <3> QED BY <1>1, <1>5, <3>1 DEF SubscribedPasses
  <2> QED BY <2>1, <2>2
<1>10. QueueIsWhatPassed'
  <2>1. CASE s \in symbolGroupUsedToGenCandle
    <3>1. /\ taskQueue' \in Seq(Nat) /\ Len(taskQueue') = Len(taskQueue) + 1 /\ Len(taskQueue) \in Nat
          /\ \A j \in 1 .. Len(taskQueue) : taskQueue'[j] = taskQueue[j]
          /\ taskQueue'[Len(taskQueue) + 1] = Len(ticks) + 1
      BY <1>1, <1>2, <2>1
    <3>2. \A j \in 1 .. Len(taskQueue') : taskQueue'[j] \in (handled + 1) .. Len(ticks') /\ ticks'[taskQueue'[j]].passed
      <4> SUFFICES ASSUME NEW j \in 1 .. (Len(taskQueue) + 1)
                   PROVE  taskQueue'[j] \in (handled + 1) .. (Len(ticks) + 1) /\ ticks'[taskQueue'[j]].passed
        BY <1>5, <3>1
      <4>1. CASE j = Len(taskQueue) + 1
        <5>1. taskQueue'[j] = Len(ticks) + 1 /\ ticks'[taskQueue'[j]] = r
          BY <1>5, <3>1, <4>1
        <5>2. Len(ticks) + 1 \in (handled + 1) .. (Len(ticks) + 1)
          BY <1>1
        <5> QED BY <1>3, <2>1, <5>1, <5>2
      <4>2. CASE j # Len(taskQueue) + 1
        <5>1. j \in 1 .. Len(taskQueue)
          BY <3>1, <4>2
        <5>2. taskQueue[j] \in (handled + 1) .. Len(ticks) /\ ticks[taskQueue[j]].passed
          BY <1>1, <5>1 DEF QueueIsWhatPassed
        <5> QED BY <1>1, <1>5, <3>1, <5>1, <5>2
      <4> QED BY <4>1, <4>2
    <3>3. \A j, k \in 1 .. Len(taskQueue') : j < k => taskQueue'[j] < taskQueue'[k]
      <4> SUFFICES ASSUME NEW j \in 1 .. (Len(taskQueue) + 1), NEW k \in 1 .. (Len(taskQueue) + 1), j < k
                   PROVE  taskQueue'[j] < taskQueue'[k]
        BY <3>1
      <4>1. j \in 1 .. Len(taskQueue) /\ taskQueue[j] \in (handled + 1) .. Len(ticks)
        BY <1>1, <3>1 DEF QueueIsWhatPassed
      <4>2. CASE k = Len(taskQueue) + 1
        BY <1>1, <3>1, <4>1, <4>2
      <4>3. CASE k # Len(taskQueue) + 1
        <5>1. k \in 1 .. Len(taskQueue)
          BY <3>1, <4>3
        <5> QED BY <1>1, <3>1, <4>1, <5>1 DEF QueueIsWhatPassed
      <4> QED BY <4>2, <4>3
    <3>4. ASSUME NEW n \in (handled + 1) .. Len(ticks'), ticks'[n].passed
          PROVE  \E j \in 1 .. Len(taskQueue') : taskQueue'[j] = n
      <4>1. CASE n = Len(ticks) + 1
        BY <3>1, <4>1
      <4>2. CASE n # Len(ticks) + 1
        <5>1. n \in (handled + 1) .. Len(ticks) /\ n \in 1 .. Len(ticks)
          BY <1>1, <1>5, <4>2
        <5>2. ticks[n].passed
          BY <1>5, <3>4, <5>1
        <5>3. PICK j \in 1 .. Len(taskQueue) : taskQueue[j] = n
          BY <1>1, <5>1, <5>2 DEF QueueIsWhatPassed
        <5> QED BY <3>1, <5>3
      <4> QED BY <4>1, <4>2
    <3> QED BY <1>2, <3>2, <3>3, <3>4 DEF QueueIsWhatPassed
  <2>2. CASE s \notin symbolGroupUsedToGenCandle
    <3>1. taskQueue' = taskQueue /\ ~r.passed
      BY <1>2, <1>3, <2>2
    <3>2. \A j \in 1 .. Len(taskQueue) : taskQueue[j] \in (handled + 1) .. Len(ticks') /\ ticks'[taskQueue[j]].passed
      BY <1>1, <1>5 DEF QueueIsWhatPassed
    <3>3. ASSUME NEW n \in (handled + 1) .. Len(ticks'), ticks'[n].passed
          PROVE  \E j \in 1 .. Len(taskQueue) : taskQueue[j] = n
      <4>1. n \in (handled + 1) .. Len(ticks) /\ n \in 1 .. Len(ticks)
        BY <1>1, <1>5, <3>1, <3>3
      <4>2. ticks[n].passed
        BY <1>5, <3>3, <4>1
      <4> QED BY <1>1, <4>1, <4>2 DEF QueueIsWhatPassed
    <3> QED BY <1>1, <1>2, <3>1, <3>2, <3>3 DEF QueueIsWhatPassed
  <2> QED BY <2>1, <2>2
<1> QED BY <1>7, <1>8, <1>9, <1>10 DEF CandleInv

\* A call is about to add its candle, or to take its subscriber away.
LEMMA CandleOfKeyKeeps ==
  ASSUME CandleInv, NEW key \in Key, NEW isSub \in BOOLEAN, initDynCandleKey2Candle(key, isSub),
         UNCHANGED <<symbolGroupUsedToGenCandle, taskQueue, ticks, handled, since>>
  PROVE  CandleInv'
<1> DEFINE r == [key |-> key, startTsOfCandle |-> 0, vol |-> << >>, from |-> handled,
                 standing |-> key.symbol \in symbolGroupUsedToGenCandle]
<1>1. /\ TicksTyped /\ QueueIsWhatPassed /\ SubscribedPasses /\ CandlesOk
      /\ dynCandleKey2Candle \in Seq(CandleRec) /\ handled \in Nat /\ Len(dynCandleKey2Candle) \in Nat
  BY DEF CandleInv, TicksTyped
<1>2. dynCandleKey2Candle' = IF isSub THEN Append(dynCandleKey2Candle, r) ELSE dynCandleKey2Candle
  BY DEF initDynCandleKey2Candle
<1>3. /\ r.key = key /\ r.from = handled /\ r.startTsOfCandle = 0
      /\ r.standing = (key.symbol \in symbolGroupUsedToGenCandle) /\ r.standing \in BOOLEAN
  <2>1. (key.symbol \in symbolGroupUsedToGenCandle) \in BOOLEAN
    OBVIOUS
  <2>2. r.key = key /\ r.from = handled /\ r.startTsOfCandle = 0
    OBVIOUS
  <2>3. r.standing = (key.symbol \in symbolGroupUsedToGenCandle)
    OBVIOUS
  <2> HIDE DEF r
  <2> QED BY <2>1, <2>2, <2>3
<1>4. << >> \in Seq(Nat)
  OBVIOUS
<1>5. r \in CandleRec
  BY <1>1, <1>3, <1>4 DEF CandleRec
<1> HIDE DEF r
<1>6. TicksTyped'
  BY <1>1, <1>2, <1>5 DEF TicksTyped
<1>7. QueueIsWhatPassed' /\ SubscribedPasses'
  BY <1>1 DEF QueueIsWhatPassed, SubscribedPasses
<1>8. ASSUME NEW c \in CandleRec, CandleOk(c) PROVE CandleOk(c)'
  BY <1>1, <1>8, CandleStays DEF CandleOk
<1>9. ASSUME NEW c, c = r PROVE CandleOk(c)'
  <2>1. c.from = handled /\ c.startTsOfCandle = 0 /\ (c.standing => c.key.symbol \in symbolGroupUsedToGenCandle)
    BY <1>3, <1>9
  <2>2. (c.from + 1) .. handled' = {}
    BY <1>1, <2>1
  <2>3. Started(c)' = {}
    BY <2>2 DEF Started, Meant
  <2> QED BY <1>1, <2>1, <2>3 DEF CandleOk
<1>10. CandlesOk'
  <2> SUFFICES ASSUME NEW i \in 1 .. Len(dynCandleKey2Candle'), NEW c \in CandleRec, c = dynCandleKey2Candle'[i]
               PROVE  CandleOk(c)'
    BY DEF CandlesOk
  <2>1. (i \in 1 .. Len(dynCandleKey2Candle) /\ c = dynCandleKey2Candle[i]) \/ c = r
    BY <1>1, <1>2, <1>5
  <2> QED BY <1>1, <1>8, <1>9, <2>1 DEF CandlesOk
<1> QED BY <1>6, <1>7, <1>10 DEF CandleInv

\* The next last price, for one candle.
LEMMA MeantNext ==
  ASSUME TicksTyped, QueueIsWhatPassed, SubscribedPasses, taskQueue # << >>,
         NEW h, h = Head(taskQueue), handled' = h, UNCHANGED <<ticks, since>>,
         NEW c \in CandleRec, c.from <= handled, c.key.symbol \in symbolGroupUsedToGenCandle,
         NEW d \in CandleRec, d.key = c.key, d.from = c.from
  PROVE  Meant(d)' = Meant(c) \cup (IF ticks[h].symbol = c.key.symbol THEN {h} ELSE {})
<1>1. /\ c.from \in Nat /\ handled \in Nat /\ Len(ticks) \in Nat /\ handled <= Len(ticks)
      /\ Len(taskQueue) \in Nat /\ taskQueue \in Seq(Nat)
      /\ since \in [Symbol -> 0 .. Len(ticks)]
  BY DEF TicksTyped, CandleRec
<1>2. 1 \in 1 .. Len(taskQueue) /\ h = taskQueue[1]
  BY <1>1
<1>3. h \in (handled + 1) .. Len(ticks) /\ ticks[h].passed
  BY <1>2 DEF QueueIsWhatPassed
<1>4. ASSUME NEW n \in (handled + 1) .. Len(ticks), n < h PROVE ~ticks[n].passed
  <2>1. SUFFICES ASSUME ticks[n].passed PROVE FALSE
    OBVIOUS
  <2>2. PICK j \in 1 .. Len(taskQueue) : taskQueue[j] = n
    BY <2>1 DEF QueueIsWhatPassed
  <2>3. j = 1 \/ 1 < j
    BY <1>1
  <2>4. j # 1
    BY <1>1, <1>2, <1>3, <1>4, <2>2
  <2>5. taskQueue[1] < taskQueue[j]
    BY <1>2, <2>3, <2>4 DEF QueueIsWhatPassed
  <2> QED BY <1>1, <1>2, <1>3, <1>4, <2>2, <2>5
<1>5. ASSUME NEW n \in (c.from + 1) .. h, n > handled, n # h, ticks[n].symbol = c.key.symbol
      PROVE  ~(n > since[c.key.symbol] \/ ticks[n].passed)
  <2>1. n \in (handled + 1) .. Len(ticks) /\ n < h /\ n \in 1 .. Len(ticks)
    BY <1>1, <1>3, <1>5
  <2>2. ~ticks[n].passed
    BY <1>4, <2>1
  <2> QED BY <1>5, <2>1, <2>2 DEF SubscribedPasses
<1>6. (c.from + 1) .. h = ((c.from + 1) .. handled) \cup {n \in (c.from + 1) .. h : n > handled /\ n # h} \cup {h}
  BY <1>1, <1>3
<1>7. Meant(d)' = {n \in (c.from + 1) .. h : /\ ticks[n].symbol = c.key.symbol
                                             /\ n > since[c.key.symbol] \/ ticks[n].passed}
  BY DEF Meant
<1> QED BY <1>3, <1>5, <1>6, <1>7 DEF Meant

LEMMA TickIs ==
  ASSUME TicksTyped, NEW n \in 1 .. Len(ticks)
  PROVE  n \in Nat /\ ticks[n].exchTs \in Nat /\ ticks[n].symbol \in Symbol
<1>1. ticks \in Seq(TickRec)
  BY DEF TicksTyped
<1>2. ticks[n] \in TickRec /\ n \in Nat
  BY <1>1
<1> QED BY <1>2 DEF TickRec

LEMMA TakeTyped ==
  ASSUME TicksTyped, NEW h \in 1 .. Len(ticks), NEW c \in CandleRec
  PROVE  /\ TakeLastPrice(c, h) \in CandleRec
         /\ TakeLastPrice(c, h).key = c.key /\ TakeLastPrice(c, h).from = c.from
         /\ TakeLastPrice(c, h).standing = c.standing
<1>1. h \in Nat /\ ticks[h].exchTs \in Nat /\ c.key \in Key
  BY TickIs DEF CandleRec
<1>2. StartOf(ticks[h].exchTs, c.key.interval) \in Nat /\ <<h>> \in Seq(Nat) /\ Append(c.vol, h) \in Seq(Nat)
  <2>1. c.vol \in Seq(Nat)
    BY DEF CandleRec
  <2>2. <<h>> \in Seq(Nat) /\ Append(c.vol, h) \in Seq(Nat)
    BY <1>1, <2>1
  <2> QED BY <1>1, <2>2, StartOfIs
<1> DEFINE start == StartOf(ticks[h].exchTs, c.key.interval)
           b == [c EXCEPT !.startTsOfCandle = start, !.vol = <<h>>]
           g == [c EXCEPT !.vol = Append(@, h)]
<1>3. b \in CandleRec /\ b.key = c.key /\ b.from = c.from /\ b.standing = c.standing
  BY <1>2 DEF CandleRec
<1>4. g \in CandleRec /\ g.key = c.key /\ g.from = c.from /\ g.standing = c.standing
  BY <1>2 DEF CandleRec
<1>5. TakeLastPrice(c, h) = b \/ TakeLastPrice(c, h) = g \/ TakeLastPrice(c, h) = c
  BY DEF TakeLastPrice
<1> HIDE DEF b, g
<1> QED BY <1>3, <1>4, <1>5

LEMMA TakeIs ==
  ASSUME NEW h, NEW c \in CandleRec, NEW d, d = TakeLastPrice(c, h), ticks[h].symbol = c.key.symbol,
         NEW start, start = StartOfTick(c, h)
  PROVE  \/ /\ IF c.startTsOfCandle = 0 THEN ticks[h].exchTs >= c.key.startTs ELSE start > c.startTsOfCandle
            /\ d.startTsOfCandle = start /\ d.vol = <<h>>
         \/ /\ c.startTsOfCandle # 0 /\ start = c.startTsOfCandle /\ ~(start > c.startTsOfCandle)
            /\ d.startTsOfCandle = start /\ d.vol = Append(c.vol, h)
         \/ /\ IF c.startTsOfCandle = 0 THEN ~(ticks[h].exchTs >= c.key.startTs)
               ELSE start # c.startTsOfCandle /\ ~(start > c.startTsOfCandle)
            /\ d.startTsOfCandle = c.startTsOfCandle /\ d.vol = c.vol
<1> DEFINE b == [c EXCEPT !.startTsOfCandle = start, !.vol = <<h>>]
           g == [c EXCEPT !.vol = Append(@, h)]
<1>1. b.startTsOfCandle = start /\ b.vol = <<h>>
  BY DEF CandleRec
<1>2. g.startTsOfCandle = c.startTsOfCandle /\ g.vol = Append(c.vol, h)
  BY DEF CandleRec
<1> DEFINE begins == IF c.startTsOfCandle = 0 THEN ticks[h].exchTs >= c.key.startTs ELSE start > c.startTsOfCandle
           goesOn == c.startTsOfCandle # 0 /\ start = c.startTsOfCandle
<1>3. d = IF begins THEN b ELSE IF goesOn THEN g ELSE c
  BY DEF TakeLastPrice, StartOfTick
<1> HIDE DEF b, g
<1>4. CASE begins
  BY <1>1, <1>3, <1>4
<1>5. CASE ~begins /\ goesOn
  BY <1>2, <1>3, <1>5
<1>6. CASE ~begins /\ ~goesOn
  BY <1>3, <1>6
<1> QED BY <1>4, <1>5, <1>6

LEMMA AppendsOne ==
  ASSUME NEW v \in Seq(Nat), NEW h \in Nat, IsInjective(v), h \notin ToSet(v)
  PROVE  IsInjective(Append(v, h)) /\ ToSet(Append(v, h)) = ToSet(v) \cup {h}
<1> DEFINE w == Append(v, h)
<1>1. /\ Len(v) \in Nat /\ w \in Seq(Nat) /\ Len(w) = Len(v) + 1 /\ w[Len(v) + 1] = h
      /\ \A i \in 1 .. Len(v) : w[i] = v[i]
  OBVIOUS
<1>2. DOMAIN v = 1 .. Len(v) /\ DOMAIN w = 1 .. (Len(v) + 1)
  BY <1>1
<1> HIDE DEF w
<1>3. \A i \in 1 .. (Len(v) + 1) : i \in 1 .. Len(v) \/ i = Len(v) + 1
  BY <1>1
<1>4. 1 .. Len(v) \subseteq 1 .. (Len(v) + 1) /\ Len(v) + 1 \in 1 .. (Len(v) + 1)
  BY <1>1
<1>5. ToSet(w) = ToSet(v) \cup {h}
  BY <1>1, <1>2, <1>3, <1>4 DEF ToSet
<1>6. IsInjective(w)
  BY <1>1, <1>2, <1>3 DEF ToSet, IsInjective
<1> QED BY <1>5, <1>6 DEF w

\* A price meant for a candle comes after all those meant for it before.
LEMMA TakesNext ==
  ASSUME TicksTyped, QueueIsWhatPassed, SubscribedPasses, taskQueue # << >>,
         NEW h, h = Head(taskQueue), handled' = h, UNCHANGED <<ticks, since, symbolGroupUsedToGenCandle>>,
         NEW c \in CandleRec, CandleOk(c), NEW d \in CandleRec, d = TakeLastPrice(c, h),
         d.key = c.key, d.from = c.from, d.standing = c.standing
  PROVE  CandleOk(d)'
<1> SUFFICES ASSUME d.standing PROVE CandleOk(d)'
  BY DEF CandleOk
<1>1. c.key.symbol \in symbolGroupUsedToGenCandle /\ c.from <= handled
  BY DEF CandleOk
<1>2. Meant(d)' = Meant(c) \cup (IF ticks[h].symbol = c.key.symbol THEN {h} ELSE {})
  BY <1>1, MeantNext
<1>3. h \in (handled + 1) .. Len(ticks) /\ h \in 1 .. Len(ticks) /\ handled \in Nat /\ Len(ticks) \in Nat
  <2>1. taskQueue \in Seq(Nat) /\ handled \in Nat /\ Len(ticks) \in Nat
    BY DEF TicksTyped
  <2>2. 1 \in 1 .. Len(taskQueue) /\ h = taskQueue[1]
    BY <2>1
  <2>3. h \in (handled + 1) .. Len(ticks)
    BY <2>2 DEF QueueIsWhatPassed
  <2> QED BY <2>1, <2>3
<1>4. /\ c.key \in Key /\ c.startTsOfCandle \in Nat /\ c.vol \in Seq(Nat) /\ c.from \in Nat
      /\ c.key.startTs \in Nat
  BY SubscriptionsAssumption DEF CandleRec
<1>5. \A n \in Meant(c) : n < h /\ n \in 1 .. Len(ticks)
  BY <1>3, <1>4 DEF Meant
<1>6. \A n \in 1 .. Len(ticks) : /\ StartOfTick(d, n)' = StartOfTick(c, n) /\ StartOfTick(c, n) \in Nat
                                 /\ n \in Nat /\ ticks[n].exchTs \in Nat
  BY <1>4, StartOfIs, TickIs DEF StartOfTick
<1>7. d.from <= handled' /\ d.key.symbol \in symbolGroupUsedToGenCandle'
  BY <1>1, <1>3, <1>4
<1>8. CASE ticks[h].symbol # c.key.symbol
  <2>1. d = c /\ Meant(d)' = Meant(c)
    BY <1>2, <1>8 DEF TakeLastPrice
  <2>2. Started(d)' = Started(c) /\ Started(c) \subseteq Meant(c)
    BY <2>1 DEF Started
  <2>3. \A n \in Started(c) : StartOfTick(d, n)' = StartOfTick(c, n)
    BY <1>5, <1>6, <2>2
  <2>4. {n \in Started(d)' : StartOfTick(d, n)' = d.startTsOfCandle} = {n \in Started(c) : StartOfTick(c, n) = c.startTsOfCandle}
    BY <2>1, <2>2, <2>3
  <2> QED BY <1>7, <2>1, <2>2, <2>3, <2>4 DEF CandleOk
<1>9. CASE ticks[h].symbol = c.key.symbol
  <2> DEFINE start == StartOfTick(c, h)
             S == Started(c)
             late == S # {} \/ ticks[h].exchTs >= c.key.startTs
             SN == IF late THEN S \cup {h} ELSE S
  <2>1. start \in Nat /\ h \in Nat /\ ticks[h].exchTs \in Nat
    BY <1>3, <1>6
  <2>2. S \subseteq Meant(c) /\ \A n \in S : n < h /\ n \in 1 .. Len(ticks) /\ StartOfTick(c, n) \in Nat
    BY <1>5, <1>6 DEF Started
  <2>3. Started(d)' = SN
    <3>1. Started(d)' = {n \in Meant(c) \cup {h} : \E m \in Meant(c) \cup {h} : m <= n /\ ticks[m].exchTs >= c.key.startTs}
      BY <1>2, <1>9 DEF Started
    <3>2. \A n \in Meant(c) : n \in Started(d)' <=> n \in S
      BY <1>3, <1>5, <1>6, <3>1 DEF Started
    <3>3. h \in Started(d)' <=> late
      <4>1. h \in Started(d)' <=> \E m \in Meant(c) \cup {h} : m <= h /\ ticks[m].exchTs >= c.key.startTs
        BY <3>1
      <4>2. S # {} <=> \E m \in Meant(c) : ticks[m].exchTs >= c.key.startTs
        <5>1. \A m \in Meant(c) : m <= m
          BY <1>5, <1>6
        <5> QED BY <5>1 DEF Started
      <4>3. (\E m \in Meant(c) \cup {h} : m <= h /\ ticks[m].exchTs >= c.key.startTs)
              <=> (\E m \in Meant(c) : ticks[m].exchTs >= c.key.startTs) \/ ticks[h].exchTs >= c.key.startTs
        BY <1>5, <1>6, <2>1
      <4> QED BY <4>1, <4>2, <4>3
    <3>4. h \notin Meant(c)
      BY <1>5, <2>1
    <3>5. Started(d)' \subseteq Meant(c) \cup {h}
      BY <3>1
    <3> QED BY <2>2, <3>2, <3>3, <3>4, <3>5
  <2>4. /\ \A n \in S : StartOfTick(c, n) <= c.startTsOfCandle
        /\ c.startTsOfCandle # 0 => \E n \in S : StartOfTick(c, n) = c.startTsOfCandle
        /\ c.startTsOfCandle # 0 => IsInjective(c.vol) /\ ToSet(c.vol) = {n \in S : StartOfTick(c, n) = c.startTsOfCandle}
    BY DEF CandleOk
  <2>5. c.startTsOfCandle # 0 => late
    BY <2>4
  <2>6. \A n \in SN : n \in 1 .. Len(ticks) /\ StartOfTick(d, n)' = StartOfTick(c, n)
    BY <1>3, <1>6, <2>2
  <2> HIDE DEF late, SN, S, start
  <2>7. ASSUME /\ \A n \in SN : StartOfTick(c, n) <= d.startTsOfCandle
               /\ d.startTsOfCandle # 0 =>
                    /\ \E n \in SN : StartOfTick(c, n) = d.startTsOfCandle
                    /\ IsInjective(d.vol)
                    /\ ToSet(d.vol) = {n \in SN : StartOfTick(c, n) = d.startTsOfCandle}
        PROVE  CandleOk(d)'
    <3>1. {n \in Started(d)' : StartOfTick(d, n)' = d.startTsOfCandle} = {n \in SN : StartOfTick(c, n) = d.startTsOfCandle}
      BY <2>3, <2>6
    <3> QED BY <1>7, <2>3, <2>6, <2>7, <3>1 DEF CandleOk
  <2>8. start = StartOfTick(c, h) /\ SN = IF late THEN S \cup {h} ELSE S
    BY DEF start, SN
  <2>9. ticks[h].exchTs >= c.key.startTs => late
    BY DEF late
  <2>10. d.startTsOfCandle \in Nat /\ d.vol \in Seq(Nat)
    BY DEF CandleRec
  <2>11. ASSUME IF c.startTsOfCandle = 0 THEN ticks[h].exchTs >= c.key.startTs ELSE start > c.startTsOfCandle,
                d.startTsOfCandle = start, d.vol = <<h>>
         PROVE  CandleOk(d)'
    <3>1. SN = S \cup {h}
      BY <2>5, <2>8, <2>9, <2>11
    <3>2. ASSUME NEW n \in S PROVE StartOfTick(c, n) <= start /\ (start # 0 => StartOfTick(c, n) # start)
      BY <1>4, <2>1, <2>2, <2>4, <2>11, <3>2
    <3>3. IsInjective(d.vol) /\ ToSet(d.vol) = {h}
      BY <2>11 DEF IsInjective, ToSet
    <3>4. start <= start
      BY <2>1
    <3>5. \A n \in SN : StartOfTick(c, n) <= d.startTsOfCandle
      BY <2>8, <2>11, <3>1, <3>2, <3>4
    <3>6. d.startTsOfCandle # 0 => ToSet(d.vol) = {n \in SN : StartOfTick(c, n) = d.startTsOfCandle}
      BY <2>8, <2>11, <3>1, <3>2, <3>3
    <3>7. \E n \in SN : StartOfTick(c, n) = d.startTsOfCandle
      BY <2>8, <2>11, <3>1
    <3> QED BY <2>7, <3>3, <3>5, <3>6, <3>7
  <2>12. ASSUME c.startTsOfCandle # 0, start = c.startTsOfCandle, d.startTsOfCandle = start, d.vol = Append(c.vol, h)
         PROVE  CandleOk(d)'
    <3>1. SN = S \cup {h}
      BY <2>5, <2>8, <2>12
    <3>2. h \notin S
      BY <2>1, <2>2
    <3>3. IsInjective(c.vol) /\ ToSet(c.vol) = {n \in S : StartOfTick(c, n) = start}
      BY <2>4, <2>12
    <3>4. IsInjective(d.vol) /\ ToSet(d.vol) = ToSet(c.vol) \cup {h}
      BY <1>4, <2>1, <2>12, <3>2, <3>3, AppendsOne
    <3>5. \A n \in SN : StartOfTick(c, n) <= d.startTsOfCandle
      BY <2>1, <2>4, <2>8, <2>12, <3>1
    <3>6. ToSet(d.vol) = {n \in SN : StartOfTick(c, n) = d.startTsOfCandle}
      BY <2>8, <2>12, <3>1, <3>3, <3>4
    <3> QED BY <2>7, <2>8, <2>12, <3>1, <3>4, <3>5, <3>6
  <2>13. ASSUME IF c.startTsOfCandle = 0 THEN ~(ticks[h].exchTs >= c.key.startTs)
                ELSE start # c.startTsOfCandle /\ ~(start > c.startTsOfCandle),
                d.startTsOfCandle = c.startTsOfCandle, d.vol = c.vol
         PROVE  CandleOk(d)'
    <3>1. CASE c.startTsOfCandle # 0
      <4>1. SN = S \cup {h} /\ start <= c.startTsOfCandle /\ start # c.startTsOfCandle
        BY <1>4, <2>1, <2>5, <2>8, <2>13, <3>1
      <4>2. \A n \in SN : StartOfTick(c, n) <= d.startTsOfCandle
        BY <2>4, <2>8, <2>13, <4>1
      <4>3. {n \in SN : StartOfTick(c, n) = d.startTsOfCandle} = {n \in S : StartOfTick(c, n) = c.startTsOfCandle}
        BY <2>8, <2>13, <4>1
      <4> QED BY <2>4, <2>7, <2>13, <3>1, <4>1, <4>2, <4>3
    <3>2. CASE c.startTsOfCandle = 0
      <4>1. ~(ticks[h].exchTs >= c.key.startTs)
        BY <2>13, <3>2
      <4>2. late => S # {}
        BY <4>1 DEF late
      <4>3. S # {} => start = 0
        <5>1. SUFFICES ASSUME S # {} PROVE start = 0
          OBVIOUS
        <5>2. PICK m \in Meant(c) : ticks[m].exchTs >= c.key.startTs
          BY <5>1 DEF S, Started
        <5>3. m \in S
          <6>1. m <= m
            BY <1>5, <1>6
          <6> QED BY <5>2, <6>1 DEF S, Started
        <5>4. StartOfTick(c, m) = 0 /\ ticks[m].exchTs \in Nat
          BY <1>6, <2>2, <2>4, <3>2, <5>3
        <5>5. ticks[h].exchTs <= ticks[m].exchTs
          BY <1>4, <2>1, <4>1, <5>2, <5>4
        <5>6. start <= 0
          BY <1>4, <2>1, <2>8, <5>4, <5>5, StartOfIs DEF StartOfTick
        <5> QED BY <2>1, <5>6
      <4>4. \A n \in SN : StartOfTick(c, n) <= d.startTsOfCandle
        BY <2>4, <2>8, <2>13, <3>2, <4>2, <4>3
      <4> QED BY <2>7, <2>13, <3>2, <4>4
    <3> QED BY <3>1, <3>2
  <2> QED
    <3>1. start = StartOfTick(c, h)
      BY <2>8
    <3> QED BY <1>9, <2>11, <2>12, <2>13, <3>1, TakeIs
<1> QED BY <1>8, <1>9

\* handleAsyncTask: every candle takes the next last price.
LEMMA TakeKeeps ==
  ASSUME CandleInv, handleAsyncTask
  PROVE  CandleInv'
<1>1. /\ TicksTyped /\ QueueIsWhatPassed /\ SubscribedPasses /\ CandlesOk
      /\ taskQueue \in Seq(Nat) /\ Len(taskQueue) \in Nat /\ handled \in 0 .. Len(ticks) /\ Len(ticks) \in Nat
      /\ dynCandleKey2Candle \in Seq(CandleRec) /\ Len(dynCandleKey2Candle) \in Nat
  BY DEF CandleInv, TicksTyped
<1>2. /\ taskQueue # << >> /\ taskQueue' = Tail(taskQueue) /\ handled' = Head(taskQueue)
      /\ dynCandleKey2Candle' = [n \in DOMAIN dynCandleKey2Candle |->
                                   TakeLastPrice(dynCandleKey2Candle[n], Head(taskQueue))]
      /\ UNCHANGED <<symbolGroupUsedToGenCandle, ticks, since>>
  BY DEF handleAsyncTask
<1>3. PICK h \in Nat : h = Head(taskQueue)
  BY <1>1, <1>2
<1>4. /\ 1 \in 1 .. Len(taskQueue) /\ taskQueue[1] = h /\ Len(taskQueue') = Len(taskQueue) - 1
      /\ taskQueue' \in Seq(Nat)
      /\ \A j \in 1 .. Len(taskQueue') : j + 1 \in 1 .. Len(taskQueue) /\ taskQueue'[j] = taskQueue[j + 1]
  BY <1>1, <1>2, <1>3
<1>5. h \in (handled + 1) .. Len(ticks) /\ h \in 1 .. Len(ticks)
  <2>1. h \in (handled + 1) .. Len(ticks)
    BY <1>1, <1>4 DEF QueueIsWhatPassed
  <2> QED BY <1>1, <2>1
<1>6. ASSUME NEW i \in 1 .. Len(dynCandleKey2Candle)
      PROVE  dynCandleKey2Candle'[i] \in CandleRec /\ \A e \in CandleRec : e = dynCandleKey2Candle'[i] => CandleOk(e)'
  <2>1. PICK c \in CandleRec : c = dynCandleKey2Candle[i]
    BY <1>1, CandleAt
  <2>2. PICK d : d = TakeLastPrice(c, h)
    OBVIOUS
  <2>3. d \in CandleRec /\ d.key = c.key /\ d.from = c.from /\ d.standing = c.standing
    BY <1>1, <1>5, <2>2, TakeTyped
  <2>4. d = dynCandleKey2Candle'[i]
    BY <1>1, <1>2, <1>3, <2>1, <2>2
  <2>5. CandleOk(c)
    BY <1>1, <2>1 DEF CandlesOk
  <2>6. CandleOk(d)'
    BY <1>1, <1>2, <1>3, <2>2, <2>3, <2>5, TakesNext
  <2> QED BY <2>3, <2>4, <2>6
<1>7. dynCandleKey2Candle' \in Seq(CandleRec) /\ Len(dynCandleKey2Candle') = Len(dynCandleKey2Candle)
  <2> DEFINE g == dynCandleKey2Candle'
  <2>1. DOMAIN g = 1 .. Len(dynCandleKey2Candle)
    BY <1>1, <1>2
  <2>2. \A i \in 1 .. Len(dynCandleKey2Candle) : g[i] \in CandleRec
    BY <1>6
  <2>3. g = [i \in 1 .. Len(dynCandleKey2Candle) |-> g[i]]
    BY <1>1, <1>2, <2>1
  <2> HIDE DEF g
  <2>4. g \in Seq(CandleRec) /\ Len(g) = Len(dynCandleKey2Candle)
    BY <1>1, <2>1, <2>2, <2>3
  <2> QED BY <2>4 DEF g
<1>8. TicksTyped'
  <2>1. handled' \in 0 .. Len(ticks)
    BY <1>1, <1>2, <1>3, <1>5
  <2> QED BY <1>1, <1>2, <1>4, <1>7, <2>1 DEF TicksTyped
<1>9. CandlesOk'
  BY <1>6, <1>7 DEF CandlesOk
<1>10. SubscribedPasses'
  BY <1>1, <1>2 DEF SubscribedPasses
<1>11. QueueIsWhatPassed'
  <2>1. ASSUME NEW j \in 1 .. Len(taskQueue')
        PROVE  taskQueue'[j] \in (handled' + 1) .. Len(ticks) /\ ticks[taskQueue'[j]].passed
    <3>1. 1 < j + 1 /\ j + 1 \in 1 .. Len(taskQueue)
      BY <1>1, <1>4
    <3>2. h < taskQueue[j + 1] /\ taskQueue[j + 1] \in (handled + 1) .. Len(ticks) /\ ticks[taskQueue[j + 1]].passed
      BY <1>1, <1>4, <3>1 DEF QueueIsWhatPassed
    <3> QED BY <1>1, <1>2, <1>3, <1>4, <3>2
  <2>2. ASSUME NEW j \in 1 .. Len(taskQueue'), NEW k \in 1 .. Len(taskQueue'), j < k
        PROVE  taskQueue'[j] < taskQueue'[k]
    <3>1. j + 1 < k + 1 /\ j + 1 \in 1 .. Len(taskQueue) /\ k + 1 \in 1 .. Len(taskQueue)
      BY <1>1, <1>4, <2>2
    <3> QED BY <1>1, <1>4, <3>1 DEF QueueIsWhatPassed
  <2>3. ASSUME NEW n \in (handled' + 1) .. Len(ticks), ticks[n].passed
        PROVE  \E j \in 1 .. Len(taskQueue') : taskQueue'[j] = n
    <3>1. n \in (handled + 1) .. Len(ticks) /\ n # h
      BY <1>1, <1>2, <1>3, <1>5
    <3>2. PICK j \in 1 .. Len(taskQueue) : taskQueue[j] = n
      BY <1>1, <2>3, <3>1 DEF QueueIsWhatPassed
    <3>3. j # 1
      BY <1>4, <3>1, <3>2
    <3>4. j - 1 \in 1 .. Len(taskQueue') /\ (j - 1) + 1 = j
      BY <1>1, <1>4, <3>2, <3>3
    <3>5. taskQueue'[j - 1] = n
      BY <1>4, <3>2, <3>4
    <3> QED BY <3>4, <3>5
  <2> QED BY <1>2, <2>1, <2>2, <2>3 DEF QueueIsWhatPassed
<1> QED BY <1>8, <1>9, <1>10, <1>11 DEF CandleInv

LEMMA CandleStepKept == RouteInv /\ CandleInv /\ [Next]_vars => CandleInv'
<1> SUFFICES ASSUME RouteInv, CandleInv, [Next]_vars PROVE CandleInv'
  OBVIOUS
<1>1. ASSUME UNCHANGED candleVars PROVE CandleInv'
  <2>1. /\ TicksTyped /\ QueueIsWhatPassed /\ SubscribedPasses /\ CandlesOk
        /\ UNCHANGED <<symbolGroupUsedToGenCandle, dynCandleKey2Candle, taskQueue, ticks, handled, since>>
    BY <1>1 DEF CandleInv, candleVars
  <2>2. CandlesOk'
    BY <2>1, CandlesStay
  <2>3. TicksTyped' /\ QueueIsWhatPassed' /\ SubscribedPasses'
    BY <2>1 DEF TicksTyped, QueueIsWhatPassed, SubscribedPasses
  <2> QED BY <2>2, <2>3 DEF CandleInv
<1>2. ASSUME NEW c \in Caller, Step(c) PROVE CandleInv'
  <2>1. ASSUME NEW op \in {"sub", "unSub"}, NEW t \in Asks[c], CallCandle(c, op, t) PROVE CandleInv'
    <3>1. t \in Key /\ resetSymbolGroupUsedToGenCandle(t, op = "sub")
      BY <2>1 DEF CallCandle
    <3>2. CASE op = "sub"
      <4>1. resetSymbolGroupUsedToGenCandle(t, TRUE)
        BY <3>1, <3>2 DEF resetSymbolGroupUsedToGenCandle
      <4> QED BY <3>1, <4>1, SubSymbolKeeps
    <3>3. CASE op = "unSub"
      <4>1. resetSymbolGroupUsedToGenCandle(t, FALSE)
        BY <3>1, <3>3 DEF resetSymbolGroupUsedToGenCandle
      <4> QED BY <3>1, <4>1, UnSubSymbolKeeps
    <3> QED BY <3>2, <3>3
  <2>2. CASE CandleOfKey(c)
    <3>1. call[c].topic \in Key
      BY <2>2 DEF CandleOfKey, RouteInv, TablesTyped, Sane
    <3>2. PICK b \in BOOLEAN : b <=> IsSub(c)
      OBVIOUS
    <3>3. initDynCandleKey2Candle(call[c].topic, b)
      BY <2>2, <3>2 DEF CandleOfKey, initDynCandleKey2Candle
    <3>4. UNCHANGED <<symbolGroupUsedToGenCandle, taskQueue, ticks, handled, since>>
      BY <2>2 DEF CandleOfKey
    <3> QED BY <3>1, <3>3, <3>4, CandleOfKeyKeeps
  <2> QED BY <1>1, <1>2, <2>1, <2>2 DEF Step, Call, inTopicMgr, LastPriceInSubMgr
<1>3. CASE EngCrash
  <2>1. /\ symbolGroupUsedToGenCandle' = {} /\ dynCandleKey2Candle' = << >> /\ taskQueue' = << >>
        /\ ticks' = << >> /\ handled' = 0 /\ since' = [k \in Symbol |-> 0]
    BY <1>3 DEF EngCrash, CandleReset
  <2> QED BY <2>1, NoCandlesNext
<1>4. ASSUME NEW s \in Symbol, NEW ts \in 1 .. MaxTs, Trade(s, ts) PROVE CandleInv'
  <2>1. MaxTs \in Nat /\ ts \in Nat
    BY SubscriptionsAssumption
  <2> QED BY <1>4, <2>1, LastPriceKeeps DEF Trade
<1>5. CASE TakeTask
  BY <1>5, TakeKeeps DEF TakeTask
<1> QED BY <1>1, <1>2, <1>3, <1>4, <1>5
        DEF Next, vars, handleSubInfoForCli, handleSyncSubInfo, handleSubInfoForSrv,
            handleTopicNeedSubAndUnSub, Login, OnDisconnected, SvcStart, SvcCrash, Tick

\* CandleIsWhole: a candle nobody of whose symbol unsubscribes is the one of the latest
\* interval seen, and counts every trade of it once.  (DynCandleSvc: handle, which filters
\* and queues in one thread, and handleAsyncTask in another; sub and unSub in others.)
THEOREM CandlesAreWhole == Spec => []CandleIsWhole
<1>1. Init => RouteInv /\ CandleInv
  BY NoCandles, InitRoute DEF Init, CandleInit
<1>2. RouteInv /\ CandleInv /\ [Next]_vars => RouteInv' /\ CandleInv'
  BY RouteKept, CandleStepKept
<1>3. CandleInv => CandleIsWhole
  <2> SUFFICES ASSUME CandleInv, NEW i \in DOMAIN dynCandleKey2Candle, NEW c, c = dynCandleKey2Candle[i], c.standing
               PROVE  /\ c.startTsOfCandle = Max({0} \cup {StartOfTick(c, n) : n \in Started(c)})
                      /\ c.startTsOfCandle # 0 =>
                           /\ IsInjective(c.vol)
                           /\ ToSet(c.vol) = {n \in Started(c) : StartOfTick(c, n) = c.startTsOfCandle}
    BY DEF CandleIsWhole
  <2>1. TicksTyped /\ CandlesOk /\ i \in 1 .. Len(dynCandleKey2Candle)
    BY DEF CandleInv, TicksTyped
  <2>2. c \in CandleRec /\ CandleOk(c)
    BY <2>1, CandleAt DEF CandlesOk
  <2>3. c.startTsOfCandle \in Nat /\ c.key \in Key
    BY <2>2 DEF CandleRec
  <2>4. ASSUME NEW n \in Started(c) PROVE StartOfTick(c, n) \in Nat
    <3>1. c.from \in Nat /\ handled \in 0 .. Len(ticks) /\ Len(ticks) \in Nat
      BY <2>1, <2>2 DEF TicksTyped, CandleRec
    <3>2. n \in 1 .. Len(ticks)
      BY <3>1 DEF Started, Meant
    <3> QED BY <2>1, <2>3, <3>2, TickIs, StartOfIs DEF StartOfTick
  <2> DEFINE S == {0} \cup {StartOfTick(c, n) : n \in Started(c)}
  <2>5. c.startTsOfCandle \in S /\ S \subseteq Nat /\ \A y \in S : y <= c.startTsOfCandle
    BY <2>2, <2>3, <2>4 DEF CandleOk
  <2> HIDE DEF S
  <2>6. Max(S) = c.startTsOfCandle
    <3>1. \A y \in S : c.startTsOfCandle >= y
      BY <2>3, <2>5
    <3>2. \A x \in S : (\A y \in S : x >= y) => x = c.startTsOfCandle
      BY <2>3, <2>5
    <3> QED BY <2>5, <3>1, <3>2 DEF Max
  <2> QED BY <2>2, <2>6 DEF CandleOk, S
<1> QED BY <1>1, <1>2, <1>3, PTL DEF Spec
=============================================================================
