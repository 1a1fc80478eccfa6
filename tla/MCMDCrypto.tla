----------------------------- MODULE MCMDCrypto -----------------------------
(***************************************************************************)
(* A crypto market data service: what it is subscribed to, the books it     *)
(* makes, the flow control of its requests and its files.  Of each other they only see  *)
(* what the models of them let happen at any time (a connection opens, a    *)
(* topic is subscribed again, a request is refused), so a behaviour is one  *)
(* of a part.                                                               *)
(***************************************************************************)
\* MDCrypto with books and trades of one symbol, six changes of its book, and a flow
\* control of two kinds of tasks; files of two days of two minutes.
EXTENDS MustSub, BooksCache, FlowCtrlSvc, SymbolTable, HisMD, TLC

VARIABLE part   \* see Part

vars == <<part, subVars, bookVars, flowVars, symbolVars, hisVars>>

Part == {"subscriptions", "books", "flow", "symbols", "history"}

InitOf(p) ==
  /\ part = p /\ SubInit /\ BookInit /\ FlowInit /\ SymbolInit /\ HisInit
  /\ p # "subscriptions" => conf = CHOOSE c \in MustSubOfConf : TRUE
  /\ p # "symbols" => listed = CHOOSE e \in Editions : TRUE
  /\ p # "history" => isCandle

Init == \E p \in Part : InitOf(p)

\* execTopicGroupMustSubMaint and SubAndUnSubSvc, WSCliOfExch; BooksCache; FlowCtrlSvc;
\* SymbolTableMaint and TBLMonitorOfSymbolInfo; MDStorageSvc and MDHis.
SubStep == part = "subscriptions" /\ SubNext /\ UNCHANGED <<part, bookVars, flowVars, symbolVars, hisVars>>
BookStep == part = "books" /\ BookNext /\ UNCHANGED <<part, subVars, flowVars, symbolVars, hisVars>>
FlowStep == part = "flow" /\ FlowNext /\ UNCHANGED <<part, subVars, bookVars, symbolVars, hisVars>>
SymbolStep == part = "symbols" /\ SymbolNext /\ UNCHANGED <<part, subVars, bookVars, flowVars, hisVars>>
HisStep == part = "history" /\ HisNext /\ UNCHANGED <<part, subVars, bookVars, flowVars, symbolVars>>

Next == SubStep \/ BookStep \/ FlowStep \/ SymbolStep \/ HisStep

SubPart == part = "subscriptions" /\ UNCHANGED <<part, bookVars, flowVars, symbolVars, hisVars>>
SymbolPart == part = "symbols" /\ UNCHANGED <<part, subVars, bookVars, flowVars, hisVars>>

\* The schedulers (of TopicGroupMustSubMaint and SymbolTableMaint), the thread of
\* SubAndUnSubSvc and that of the web socket run on; a topic the exchange does not send is
\* silent for too long in the end.
Fairness ==
  /\ WF_vars(SubPart /\ (StartRound \/ updateTopicGroupAlreadySub \/ DispatchTask))
  /\ WF_vars(SubPart /\ (HandleTask \/ \E t \in Topic : doSubOrUnSub(t)))
  /\ WF_vars(SubPart /\ (onOpen \/ OnWSCliOpen))
  /\ \A t \in Topic : WF_vars(SubPart /\ t \notin exchSubs /\ TimePasses(t))
  /\ WF_vars(SymbolPart /\ (execSymbolTableMaint \/ syncRecToTable))

Spec == Init /\ [][Next]_vars /\ Fairness

-----------------------------------------------------------------------------
\* A topic the configuration asks for for good is subscribed in the end, whatever
\* connections, requests and answers failed before.
EventuallySubscribed ==
  \A t \in Topic : <>[](part = "subscriptions" /\ t \in MustSubOfAll(conf)) => <>[](t \in exchSubs)

\* A topic nobody asks for any more is unsubscribed in the end, unless it was taken out for
\* a new request in between, the exchange refused, or a round wrote over that the request
\* had failed: no round looks at what the exchange sends.
EventuallyUnsubscribed ==
  \A t \in Topic : <>[](t \notin MustSubOfAll(conf)) => <>[](t \notin exchSubs \/ t \in forgotten)

\* Once the exchange lists the same symbols for good (it changes a bounded number of times),
\* the rows of the table of symbols are its listings in the end, whatever statements failed
\* and whatever changed while a round was under way.
EventuallyListed ==
  <>[](part = "symbols" => querySymbolTableFromDB = convertSymbolTableFromExch(listed))

\* All three: the service comes to agree with its configuration and with the exchange.
EventuallyInAgreement == EventuallySubscribed /\ EventuallyUnsubscribed /\ EventuallyListed

\* At any time: what is taken for subscribed was asked for (MustSub), requests are within
\* the limit (FlowCtrlSvc), and what is looked up is what was first read (SymbolTable).
ServiceIsConsistent == AssumedIsRequested /\ WithinLimit /\ LookedUpIsFirstRead

\* What is read of the files is what was written, in whole minutes (HisMD).
HistoryIsWhole == AnswerIsTheFiles /\ WholeMinutes

-----------------------------------------------------------------------------
MCMerged(t) == IF t = "books20" THEN "books" ELSE t
MCInBlackList(t, p) == p = t
MCMustSubOfConf == {[must |-> {"books20", "trades"}, black |-> {}],
                    [must |-> {"books20", "trades"}, black |-> {"trades"}]}
MCChange == << [price |-> "p", size |-> 1], [price |-> "q", size |-> 2], [price |-> "p", size |-> 0],
               [price |-> "p", size |-> 3], [price |-> "q", size |-> 4], [price |-> "q", size |-> 0] >>
MCListing(code, alias, state) == [code |-> code, alias |-> alias, usd |-> FALSE, state |-> state]
MCEditions == {
  {MCListing("a", "ThisQuarter", "TRADING"), MCListing("b", "NextQuarter", "TRADING")},
  {MCListing("b", "ThisQuarter", "TRADING"), MCListing("c", "NextQuarter", "TRADING"), MCListing("d", "PERPETUAL", "TRADING")},
  {MCListing("b", "ThisQuarter", "PENDING"), MCListing("c", "NextMonth", "PRE_TRADING"), MCListing("e", "", "TRADING")}}
MCBetweenQuery == {<<3, 5>>, <<2, 4>>, <<3, 6>>, <<5, 3>>}
MCNumQuery == {<<4, 2>>, <<3, 1>>, <<1, 1>>, <<5, 3>>}
MCWeight == ("Sub" :> 1) @@ ("UnSub" :> 2)
=============================================================================
