------------------------------ MODULE MCConsole ------------------------------
(***************************************************************************)
(* The web server and the engines it starts: the processes of the engines,  *)
(* the users and what they are pushed, the results of statements, the       *)
(* engine's timers, its task dispatcher and its orders.  None of them reads  *)
(* what another keeps, so a behaviour is one of a part.                      *)
(***************************************************************************)
\* Console with two strategies and two threads of the web server, a user with two
\* connections and another one, a timer of a fixed time and one of an interval, a dispatcher
\* of two threads, and an engine of two instances with an order of a callback and one that a
\* user places (twice) and cancels.
EXTENDS StgMgr, WebSrv, StgTimers, TaskDispatcher, StgEng, TLC

VARIABLE part   \* "procs", "users", "sql", "timers", "dispatcher", "callbacks" or "requests"

vars == <<part, procVars, userVars, sqlVars, timerVars, dispatcherVars, engVars>>

Init ==
  /\ part \in {"procs", "users", "sql", "timers", "dispatcher", "callbacks", "requests"}
  /\ ProcInit /\ UserInit /\ SqlInit /\ TimerInit /\ DispatcherInit /\ EngInit
  /\ part # "dispatcher" => thread = [n \in ThreadNo |-> "none"]

ProcStep ==
  part = "procs" /\ ProcNext /\ UNCHANGED <<part, userVars, sqlVars, timerVars, dispatcherVars, engVars>>
UserStep ==
  part = "users" /\ UserNext /\ UNCHANGED <<part, procVars, sqlVars, timerVars, dispatcherVars, engVars>>
SqlStep ==
  part = "sql" /\ SqlNext /\ UNCHANGED <<part, procVars, userVars, timerVars, dispatcherVars, engVars>>
TimerStep ==
  part = "timers" /\ TimerNext /\ UNCHANGED <<part, procVars, userVars, sqlVars, dispatcherVars, engVars>>
DispatcherStep ==
  part = "dispatcher" /\ DispatcherNext /\ UNCHANGED <<part, procVars, userVars, sqlVars, timerVars, engVars>>
OtherVars == <<part, procVars, userVars, sqlVars, timerVars, dispatcherVars>>
\* The orders of callbacks and those of users' requests are told apart to keep instances small.
CallbackStep == part = "callbacks" /\ (EngCommon \/ EngCallbacks) /\ UNCHANGED OtherVars
RequestStep == part = "requests" /\ (EngCommon \/ EngRequests) /\ UNCHANGED OtherVars

Next ==
  \/ ProcStep \/ UserStep \/ SqlStep \/ TimerStep \/ DispatcherStep \/ CallbackStep \/ RequestStep

\* The threads of the engine, of its dispatcher and of the web server go on; engines are
\* started, killed and stopped by chance.
Fairness ==
  /\ WF_vars(part \in {"callbacks", "requests"} /\ EngProceeds /\ UNCHANGED OtherVars)
  /\ WF_vars(/\ part = "dispatcher" /\ DispatcherProceeds
             /\ UNCHANGED <<part, procVars, userVars, sqlVars, timerVars, engVars>>)

Spec == Init /\ [][Next]_vars /\ Fairness

-----------------------------------------------------------------------------
\* The risk manager is told of every order the trade server was sent, unless the engine ended
\* before (what is left in syncTaskGroup is lost) or never got past its start because
\* instance 1 was deleted meanwhile.
EventuallyTold ==
  \A o \in Ord : SentOf(o) # {} ~> (<<"order", o>> \in told \/ o \in forgotten \/ StuckAtBarrier)

\* A user's order or cancellation is answered, unless a request with the same body was
\* waiting already, or the engine was not there or ended (no request times out).
EventuallyAnswered ==
  \A r \in Req : reqState[r] = "waiting" ~> (reqState[r] = "answered" \/ r \in unanswerable)

\* A dispatcher that is stopped has stopped in the end, unless stop waits for a thread whose
\* handler dispatches a task and waits for the lock stop holds.
EventuallyStopped == stopped ~> (HasStopped \/ StuckInStop)

\* All three: nothing that was sent, asked or stopped is left hanging.
EventuallyServed == EventuallyTold /\ EventuallyAnswered /\ EventuallyStopped

\* An order is sent once, a task of the dispatcher is handled once, and a timer of a fixed
\* time runs once, whichever threads are at work.
HandledOnce == SentOnce /\ DrainedOnce /\ TimerOnce

-----------------------------------------------------------------------------
CONSTANTS
  alice, bob, c1, c2, c3, producer1, producer2, fixedTimer, intervalTimer,
  callbackOrder, manualOrder, r1, r2, r3

MCUserOf == (c1 :> alice) @@ (c2 :> alice) @@ (c3 :> bob)
MCPattern == (fixedTimer :> {1, 2})
MCInterval == (intervalTimer :> 1)
MCMaxExecTimes == (intervalTimer :> 2)
MCTaskOf == (producer1 :> <<"t1", "t2">>) @@ (producer2 :> <<"t3">>)
MCFollow == ("t1" :> "none") @@ ("t2" :> "none") @@ ("t3" :> "t4") @@ ("t4" :> "none")
MCThreadForTask == ("t1" :> 0) @@ ("t2" :> 1) @@ ("t3" :> 0) @@ ("t4" :> 1)
MCInstOf == (callbackOrder :> 2) @@ (manualOrder :> 1)
MCBodyOf ==
  (r1 :> <<"order", manualOrder>>) @@ (r2 :> <<"cancel", manualOrder>>) @@ (r3 :> <<"order", manualOrder>>)
=============================================================================
