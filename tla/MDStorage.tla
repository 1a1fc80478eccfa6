------------------------------ MODULE MDStorage ------------------------------
(***************************************************************************)
(* The recording of market data: the handler publishes what is legal and    *)
(* hands it to MDStorageSvc, whose threads make the time stamps of a topic  *)
(* differ (the time series database keeps one row per table and time),      *)
(* collect the records and write them in batches; and the end of the        *)
(* service, which writes what is collected and then stops the threads.      *)
(***************************************************************************)
EXTENDS Naturals, Sequences, FiniteSets, FiniteSetsExt, SequencesExt

-----------------------------------------------------------------------------
(***************************************************************************)
(* RawMDHandler of the market data services of the Chinese exchanges: which *)
(* raw messages are legal and what is published of each, by the type of     *)
(* the message, the market and the configuration; and TaskDispatcher, the   *)
(* queues and threads it and every other service works with.                *)
(***************************************************************************)
MsgType == {"Tickers", "Trades", "Orders", "Books"}

\* handleMDBid1Ask1ByTickers, ByBooks, handleMDLastPriceByTickers, ByTrades.
Bid1Ask1ByTickers(futures, createBid1Ask1ByTickers) == futures \/ createBid1Ask1ByTickers
Bid1Ask1ByBooks(futures, createBid1Ask1ByTickers) == ~futures /\ ~createBid1Ask1ByTickers
LastPriceByTickers(futures, createLastPriceByTickers) == futures \/ createLastPriceByTickers
LastPriceByTrades(futures, createLastPriceByTickers) == ~futures /\ ~createLastPriceByTickers

\* handle: what is published of a message that is legal.
PublishedOf(msgType, futures, bid1Ask1, lastPrice) ==
  {msgType}
    \cup (IF \/ msgType = "Tickers" /\ Bid1Ask1ByTickers(futures, bid1Ask1)
             \/ msgType = "Books" /\ Bid1Ask1ByBooks(futures, bid1Ask1)
          THEN {"Bid1Ask1"} ELSE {})
    \cup (IF \/ msgType = "Tickers" /\ LastPriceByTickers(futures, lastPrice)
             \/ msgType = "Trades" /\ LastPriceByTrades(futures, lastPrice)
          THEN {"LastPrice"} ELSE {})

\* Whatever is configured, each made type comes from one type of message.
ASSUME OneSource ==
  \A futures, bid1Ask1, lastPrice \in BOOLEAN : \A made \in {"Bid1Ask1", "LastPrice"} :
    \E m \in MsgType : \A n \in MsgType :
      (made \in PublishedOf(n, futures, bid1Ask1, lastPrice)) <=> (n = m)

\* checkIfMDIsLegal, of the last time stamp of the topic.
checkIfMDIsLegal(lastExchTs, exchTs) == lastExchTs <= exchTs

\* handleMDTickers, Trades, Orders and Books: a message that is in order but has a zero
\* in one of these fields is not published; its time stamp has been noted by then.
FieldsOfTickers == {"open", "high", "low", "last"}
FieldsOfTrades == {"price", "size"}
FieldsOfOrders == {"price", "size"}
FieldsOfBooks == {"last"}

handleMD(msgType, zeroFields) ==
  zeroFields \cap [Tickers |-> FieldsOfTickers, Trades |-> FieldsOfTrades,
                   Orders |-> FieldsOfOrders, Books |-> FieldsOfBooks][msgType] = {}

-----------------------------------------------------------------------------
\* TaskDispatcher: a queue and a thread for each thread number; a task goes to the
\* end of its queue, a thread ends when it was stopped and its queue is empty.
dispatch(queues, threadNo, task) == [queues EXCEPT ![threadNo] = Append(@, task)]
Dequeue(queues, threadNo) == [queues EXCEPT ![threadNo] = Tail(@)]
Runs(stopped, queues, threadNo) == ~stopped \/ queues[threadNo] # << >>

-----------------------------------------------------------------------------
CONSTANTS
  Topic,                           \* topics of market data; a table of the database each
  TypeOf,                          \* the type of the messages of each
  ZeroFields,                      \* the fields of a message that are zero
  Thread, ThreadOf,                \* the threads of MDStorageSvc, topicHash % their number
  numOfMDWrittenToTDEngAtOneTime,
  MaxMD,                           \* bound: messages recorded
  MaxTs,                           \* bound: time stamps of messages
  MaxFailures                      \* bound: statements and queries that fail

ASSUME MDStorageAssumption ==
  /\ TypeOf \in [Topic -> MsgType] /\ ThreadOf \in [Topic -> Thread] /\ MaxMD \in Nat /\ MaxTs \in Nat /\ MaxFailures \in Nat
  /\ numOfMDWrittenToTDEngAtOneTime \in Nat \ {0}

VARIABLES
  phase,                  \* "live", "flushing", "flushed", "stopped": how far doExit is
  published,              \* ghost: every message published, by number: [topic, exchTs, localTs]
  topic2LastExchTs,       \* RawMDHandler
  queue,                  \* MDStorageSvc: numbers of messages
  last,                   \* topic2LastExchTsGroup_, topic2LastLocalTsGroup_
  topic2AsyncTaskGroup,   \* the records collected: [id, topic, exchTs, localTs]
  flushing,               \* what each thread, and doExit, took and has not yet written
  tdeng,                  \* the rows of the database
  late,                   \* ghost: what was queued when doExit took what was collected
  unwritten,              \* ghost: what a failed statement was to write
  failures

storageVars == <<phase, published, topic2LastExchTs, queue, last, topic2AsyncTaskGroup, flushing,
                 tdeng, late, unwritten, failures>>

NoTs == [exchTs |-> 0, localTs |-> 0]
Main == "doExit"

StorageInit ==
  /\ phase = "live" /\ published = << >> /\ topic2LastExchTs = [t \in Topic |-> 0]
  /\ queue = [w \in Thread |-> << >>] /\ last = [t \in Topic |-> NoTs]
  /\ topic2AsyncTaskGroup = {} /\ flushing = [w \in Thread \cup {Main} |-> {}]
  /\ tdeng = {} /\ late = {} /\ unwritten = {} /\ failures = 0

-----------------------------------------------------------------------------
\* A message of a topic: its local time is that of the API thread that took it, the
\* thread of the topic checks it, publishes it and hands it on.  (Bounds: MaxMD, MaxTs.)
Publish(topic, exchTs, localTs, zeroFields) ==
  /\ phase = "live" /\ Len(published) < MaxMD
  /\ checkIfMDIsLegal(topic2LastExchTs[topic], exchTs)
  /\ \A n \in DOMAIN published : published[n].topic = topic => published[n].localTs <= localTs
  /\ topic2LastExchTs' = [topic2LastExchTs EXCEPT ![topic] = exchTs]
  /\ IF handleMD(TypeOf[topic], zeroFields)
     THEN /\ published' = Append(published, [topic |-> topic, exchTs |-> exchTs, localTs |-> localTs])
          /\ queue' = dispatch(queue, ThreadOf[topic], Len(published) + 1)
     ELSE UNCHANGED <<published, queue>>
  /\ UNCHANGED <<phase, last, topic2AsyncTaskGroup, flushing, tdeng, late, unwritten, failures>>

\* checkAndUpdateTsToAvoidDulplication, for either time stamp of a message.
Later(inCache, ts) == IF inCache >= ts THEN inCache + 1 ELSE ts

checkAndUpdateTsToAvoidDulplication(topic, md) ==
  [exchTs |-> Later(last[topic].exchTs, md.exchTs), localTs |-> Later(last[topic].localTs, md.localTs)]

\* getTopic2AsyncTaskGroupWrittenToTDEng: <<what stays collected, what is to be written>>
WrittenToTDEng(group) ==
  IF Cardinality(group) >= numOfMDWrittenToTDEngAtOneTime THEN <<{}, group>> ELSE <<group, {}>>

\* The row of the table of the original data, which is keyed by the local time.
RowOf(id, ts) == [id |-> id, topic |-> published[id].topic, exchTs |-> ts.exchTs, localTs |-> ts.localTs]

\* handle of MDStorageSvc, up to the statement.
Store(w) ==
  /\ flushing[w] = {} /\ queue[w] # << >> /\ queue' = Dequeue(queue, w)
  /\ LET id == Head(queue[w])
         topic == published[id].topic
         ts == checkAndUpdateTsToAvoidDulplication(topic, published[id])
         split == WrittenToTDEng(topic2AsyncTaskGroup \cup {RowOf(id, ts)})
     IN  /\ last' = [last EXCEPT ![topic] = ts]
         /\ topic2AsyncTaskGroup' = split[1] /\ flushing' = [flushing EXCEPT ![w] = split[2]]
  /\ UNCHANGED <<phase, published, topic2LastExchTs, tdeng, late, unwritten, failures>>

\* makeSql and the statement: a row of a table replaces that of the same time.
Insert(rows) ==
  {r \in tdeng : \A n \in rows : <<r.topic, r.localTs>> # <<n.topic, n.localTs>>} \cup rows

flushMDToTDEng(w) ==
  /\ flushing[w] # {} /\ flushing' = [flushing EXCEPT ![w] = {}]
  /\ \/ tdeng' = Insert(flushing[w]) /\ UNCHANGED <<unwritten, failures>>
     \/ /\ failures < MaxFailures /\ failures' = failures + 1
        /\ unwritten' = unwritten \cup {r.id : r \in flushing[w]} /\ UNCHANGED tdeng
  /\ UNCHANGED <<phase, published, topic2LastExchTs, queue, last, topic2AsyncTaskGroup, late>>

\* doExit: the handler is stopped, what is collected is taken and written, then the
\* threads are stopped, which end when their queues are empty.
ExitTakes ==
  /\ phase = "live" /\ phase' = "flushing"
  /\ flushing' = [flushing EXCEPT ![Main] = topic2AsyncTaskGroup] /\ topic2AsyncTaskGroup' = {}
  /\ late' = UNION {ToSet(queue[w]) : w \in Thread}
  /\ UNCHANGED <<published, topic2LastExchTs, queue, last, tdeng, unwritten, failures>>

ExitStops ==
  /\ phase = "flushing" /\ flushing[Main] = {} /\ phase' = "flushed"
  /\ UNCHANGED <<published, topic2LastExchTs, queue, last, topic2AsyncTaskGroup, flushing, tdeng,
                 late, unwritten, failures>>

ExitJoins ==
  /\ phase = "flushed" /\ phase' = "stopped"
  /\ \A w \in Thread : ~Runs(TRUE, queue, w) /\ flushing[w] = {}
  /\ UNCHANGED <<published, topic2LastExchTs, queue, last, topic2AsyncTaskGroup, flushing, tdeng,
                 late, unwritten, failures>>

StorageNext ==
  \/ \E t \in Topic, e, l \in 1 .. MaxTs, z \in ZeroFields : Publish(t, e, l, z)
  \/ \E w \in Thread : Store(w)
  \/ \E w \in Thread \cup {Main} : flushMDToTDEng(w)
  \/ ExitTakes
  \/ ExitStops
  \/ ExitJoins

-----------------------------------------------------------------------------
\* When the service has ended, everything it published is in the database, but what a
\* failed statement was to write and, of what was still queued when it began to end,
\* less than a batch: nothing is written over, nothing falls between two threads.
StoredUnlessLate ==
  phase = "stopped" =>
    LET lost == (1 .. Len(published)) \ ({r.id : r \in tdeng} \cup unwritten)
    IN  lost \subseteq late /\ Cardinality(lost) < numOfMDWrittenToTDEngAtOneTime
=============================================================================
