------------------------------- MODULE MustSub -------------------------------
(***************************************************************************)
(* Which topics a crypto market data service is subscribed to at the        *)
(* exchange: the maintenance round (TopicGroupMustSubMaint) compares what    *)
(* the configuration asks for with what it takes to be subscribed, the      *)
(* thread of SubAndUnSubSvc sends the requests, and the thread of the web   *)
(* socket clears what is taken to be subscribed when a connection opens.    *)
(***************************************************************************)
EXTENDS Naturals, FiniteSets, Sequences, SequencesExt

CONSTANTS
  ConfTopic,           \* topics as the configuration names them
  Merged(_),           \* RemoveDepthInTopicOfBooks: the topic without the depth of books
  InBlackList(_, _),   \* whether a topic contains a pattern of the black list
  MustSubOfConf,       \* what the files may ask for: [must, black]
  MaxEdits,            \* bound: changes of the files
  MaxFailures,         \* bound: rounds, requests and answers that fail
  MaxOpens,            \* bound: connections
  MaxQueue             \* bound: tasks queued for SubAndUnSubSvc

ASSUME MustSubAssumption ==
  /\ {MaxEdits, MaxFailures, MaxOpens, MaxQueue} \subseteq Nat
  /\ \A c \in MustSubOfConf : c.must \subseteq ConfTopic

VARIABLES
  conf,            \* the files: [must |-> topics to subscribe to, black |-> patterns]
  conn,            \* the status of the connection
  opens, edits, fails,
  already,         \* topicGroupAlreadySub_
  silent,          \* those whose active time is older than the threshold
  maint,           \* the round: [pc, must, needSub, needUnSub]
  svcQueue,        \* SubAndUnSubSvc: tasks [needSub, needUnSub, active]
  sending,         \* the requests of its task that are left
  exchSubs,        \* the exchange: what this connection is subscribed to
  blind,           \* ghost: taken to be subscribed although the last word was another, or will be
  forgotten        \* ghost: taken out of already for a new request, while one was sent or queued,
                   \* or refused to be unsubscribed

subVars == <<conf, conn, opens, edits, fails, already, silent, maint, svcQueue, sending,
             exchSubs, blind, forgotten>>

Topic == {Merged(t) : t \in ConfTopic}
NoTask == [needSub |-> {}, needUnSub |-> {}, active |-> {}]
Idle == [pc |-> "idle", must |-> {}, needSub |-> {}, needUnSub |-> {}]

\* The topics of an edition of the files, as a round sees them.
removeTopicInBlackList(topics, black) == {t \in topics : ~\E p \in black : InBlackList(t, p)}
mergeSameTypeTopicToAvoidDupSub(topics) == {Merged(t) : t \in topics}
MustSubOfAll(c) == mergeSameTypeTopicToAvoidDupSub(removeTopicInBlackList(c.must, c.black))

\* Requests to subscribe that are still to be sent.
Queued(t) == \/ \E n \in DOMAIN svcQueue : t \in svcQueue[n].needSub
             \/ maint.pc = "updated" /\ t \in maint.needSub
OnItsWay(t) == t \in sending.needSub \/ Queued(t)
UnSubQueued(t) == \/ \E n \in DOMAIN svcQueue : t \in svcQueue[n].needUnSub
                  \/ maint.pc = "updated" /\ t \in maint.needUnSub

SubInit ==
  /\ conf \in MustSubOfConf /\ conn = "Closed" /\ opens = 0 /\ edits = 0 /\ fails = 0
  /\ already = {} /\ silent = {} /\ maint = Idle /\ svcQueue = << >>
  /\ sending = NoTask /\ exchSubs = {} /\ blind = {} /\ forgotten = {}

-----------------------------------------------------------------------------
\* The environment: the files, the connection, time.
EditConf ==
  /\ edits < MaxEdits /\ edits' = edits + 1 /\ conf' \in MustSubOfConf \ {conf}
  /\ UNCHANGED <<conn, opens, fails, already, silent, maint, svcQueue, sending, exchSubs, blind, forgotten>>

\* WSCli: a connection is closed or fails, and after a while another is made.  Its status
\* is set before the callback, which clears what is taken to be subscribed; a round or
\* a task that is under way goes on.
onClose ==
  /\ conn = "Open" /\ opens < MaxOpens /\ conn' = "Closed" /\ exchSubs' = {}
  /\ UNCHANGED <<conf, opens, edits, fails, already, silent, maint, svcQueue, sending, blind, forgotten>>

onOpen ==
  /\ conn = "Closed" /\ opens' = opens + 1 /\ conn' = "Opening"
  /\ UNCHANGED <<conf, edits, fails, already, silent, maint, svcQueue, sending, exchSubs, blind, forgotten>>

OnWSCliOpen ==
  /\ conn = "Opening" /\ conn' = "Open" /\ already' = {} /\ silent' = {} /\ blind' = {}
  /\ forgotten' = exchSubs \cup {t \in Topic : OnItsWay(t)}
  /\ UNCHANGED <<conf, opens, edits, fails, maint, svcQueue, sending, exchSubs>>

Connected == conn \in {"Opening", "Open"}   \* the status the requests are guarded by

TimePasses(t) ==
  /\ t \in already \ silent /\ silent' = silent \cup {t}
  /\ UNCHANGED <<conf, conn, opens, edits, fails, already, maint, svcQueue, sending, exchSubs, blind, forgotten>>

-----------------------------------------------------------------------------
\* execTopicGroupMustSubMaint: the topics without market data for too long are taken out,
\* then, in lock sections of their own, the difference is taken and written back; only
\* then the task is handed over.  (A file that cannot be read ends the round at once.)
\* (KeepsSilent: they are not.)
removeTopicThatHaveNotRecvMDForALongTimeForReSub(topics) == topics \ silent

StartRound ==
  /\ maint = Idle
  /\ LET must == MustSubOfAll(conf)
         left == removeTopicThatHaveNotRecvMDForALongTimeForReSub(already)
         needSub == must \ left
         needUnSub == left \ must
     IN  /\ already' = left /\ silent' = {} /\ forgotten' = forgotten \cup silent
         /\ maint' = IF needSub \cup needUnSub # {}
                     THEN [pc |-> "diffed", must |-> must, needSub |-> needSub, needUnSub |-> needUnSub] ELSE Idle
  /\ UNCHANGED <<conf, conn, opens, edits, fails, svcQueue, sending, exchSubs, blind>>

updateTopicGroupAlreadySub ==
  /\ maint.pc = "diffed" /\ maint' = [maint EXCEPT !.pc = "updated"]
  /\ already' = maint.must /\ silent' = silent \cap maint.must
  /\ forgotten' = (forgotten \ maint.must) \cup ((already \ maint.must) \ maint.needUnSub)
  /\ blind' = (((blind \cap already) \cup (maint.must \ already)) \cap maint.must) \ maint.needSub
  /\ UNCHANGED <<conf, conn, opens, edits, fails, svcQueue, sending, exchSubs>>

DispatchTask ==
  /\ maint.pc = "updated" /\ Len(svcQueue) < MaxQueue /\ maint' = Idle
  /\ svcQueue' = Append(svcQueue, [needSub |-> maint.needSub, needUnSub |-> maint.needUnSub, active |-> {}])
  /\ UNCHANGED <<conf, conn, opens, edits, fails, already, silent, sending, exchSubs, blind, forgotten>>

\* handleAsyncTask of SubAndUnSubSvc: its thread takes a task; the active times come last.
HandleTask ==
  /\ sending = NoTask /\ svcQueue # << >> /\ svcQueue' = Tail(svcQueue)
  /\ sending' = [Head(svcQueue) EXCEPT !.active = {}]
  /\ silent' = silent \ mergeSameTypeTopicToAvoidDupSub(Head(svcQueue).active)
  /\ UNCHANGED <<conf, conn, opens, edits, fails, already, maint, exchSubs, blind, forgotten>>

\* doSubOrUnSub, one request: over the limit, not connected or not sent, the topic is put
\* back for the next round.  The exchange may refuse it: its answer is only logged.
Asked == IF sending.needSub # {} THEN sending.needSub ELSE sending.needUnSub

\* (NotPutBack: it is not.)
NotPutBack(t) == UNCHANGED <<already, silent, forgotten, blind>>

removeTopicForSubAgain(t) ==
  /\ already' = already \ {t} /\ silent' = silent \ {t} /\ blind' = blind \ {t}
  /\ forgotten' = IF t \in exchSubs \/ Queued(t) THEN forgotten \cup {t} ELSE forgotten

addTopicForUnSubAgain(t) ==
  /\ already' = already \cup {t} /\ UNCHANGED <<silent, forgotten>>
  /\ blind' = IF t \in already THEN blind ELSE blind \cup {t}

updateTopicGroupForSubOrUnSubAgain(t) ==
  IF sending.needSub # {} THEN removeTopicForSubAgain(t) ELSE addTopicForUnSubAgain(t)

Sent(t) ==
  /\ sending' = IF sending.needSub # {} THEN [sending EXCEPT !.needSub = @ \ {t}]
                                        ELSE [sending EXCEPT !.needUnSub = @ \ {t}]
  /\ UNCHANGED <<conf, conn, opens, edits, maint, svcQueue>>

doSubOrUnSubFails(t) ==
  /\ \/ ~Connected /\ UNCHANGED fails
     \/ Connected /\ fails < MaxFailures /\ fails' = fails + 1
  /\ updateTopicGroupForSubOrUnSubAgain(t) /\ UNCHANGED exchSubs

doSubOrUnSubSends(t) ==
  /\ Connected
  /\ \/ /\ exchSubs' = IF sending.needSub # {} THEN exchSubs \cup {t} ELSE exchSubs \ {t}
        /\ blind' = IF sending.needSub # {} /\ ~UnSubQueued(t) THEN blind \ {t} ELSE blind
        /\ UNCHANGED <<fails, forgotten>>
     \/ /\ fails < MaxFailures /\ fails' = fails + 1 /\ UNCHANGED exchSubs
        /\ IF sending.needSub # {} THEN blind' = blind \cup {t} /\ UNCHANGED forgotten
                                   ELSE forgotten' = forgotten \cup {t} /\ UNCHANGED blind
  /\ UNCHANGED <<already, silent>>

doSubOrUnSub(t) ==
  /\ t \in Asked /\ Sent(t)
  /\ doSubOrUnSubFails(t) \/ doSubOrUnSubSends(t)

\* updateActiveTimeOfTopic: the topics market data came of in a batch of time; the message
\* that ends a batch is in none.  (Bound: handed over while nothing else is queued.)
updateActiveTimeOfTopic(batch) ==
  /\ batch # {} /\ mergeSameTypeTopicToAvoidDupSub(batch) \subseteq exchSubs
  /\ maint = Idle /\ svcQueue = << >> /\ svcQueue' = <<[needSub |-> {}, needUnSub |-> {}, active |-> batch]>>
  /\ UNCHANGED <<conf, conn, opens, edits, fails, already, silent, maint, sending, exchSubs, blind, forgotten>>

SubNext ==
  \/ EditConf
  \/ onClose
  \/ onOpen
  \/ OnWSCliOpen
  \/ \E t \in Topic : TimePasses(t)
  \/ StartRound
  \/ updateTopicGroupAlreadySub
  \/ DispatchTask
  \/ HandleTask
  \/ \E t \in Topic : doSubOrUnSub(t)
  \/ \E batch \in SUBSET ConfTopic : updateActiveTimeOfTopic(batch)

-----------------------------------------------------------------------------
\* What is taken to be subscribed while the connection is open is subscribed, or the
\* request is on its way - the reason updateTopicGroupAlreadySub comes before the
\* hand-over - but for requests the exchange refused, requests put back (by a
\* failure or a new connection) between the two lock sections of a round, which writes
\* over that, and a failed request to unsubscribe (until a request to subscribe is sent that
\* none to unsubscribe follows).
AssumedIsRequested == \A t \in already \ exchSubs : conn = "Open" => t \in blind \/ OnItsWay(t)
=============================================================================
