------------------------------- MODULE StgTimers ------------------------------
(***************************************************************************)
(* The timers of the instances of a strategy (StgEngImpl): timers of a fixed *)
(* time are looked for second by second, timers of an interval are tasks of  *)
(* a scheduler.  Strategies install and uninstall them in threads of their   *)
(* own while the scheduler's thread goes round.                              *)
(***************************************************************************)
EXTENDS Naturals, FiniteSets

CONSTANTS
  StgThread,   \* threads strategies run in
  Fixed,       \* timers of a fixed time, each installed once at most
  Pattern,     \* their seconds: the time stamps that contain execTime_
  Periodic,    \* timers of an interval
  Interval, MaxExecTimes, \* theirs
  NoTime,      \* not_a_date_time
  MaxSec,      \* the last second
  MaxBack,     \* the clock is set back so many times
  MaxOps       \* timers are installed and uninstalled so many times

ASSUME TimersApart == Fixed \cap Periodic = {} /\ NoTime \notin Nat /\ MaxSec \in Nat

VARIABLES
  sec,         \* the clock
  prevExecTaskBunndleOfTimer,
  taskOfFixedTimeGroup, scheduleTaskBundleOfTimer,
  task,        \* timer of an interval -> when it was executed last and how often
  round,       \* what the scheduler's thread is doing
  op,          \* thread -> what it is doing to scheduleTaskBundleOfTimer
  fired,       \* timer of a fixed time -> second -> how often it was fired
  since,       \* timer of a fixed time -> when it was installed
  missed,      \* timer of a fixed time -> seconds before the first round, and seconds a round
               \* looked for that had begun without it
  lateFired,   \* timer of an interval -> how often it was fired since it was uninstalled
  repeated,    \* seconds the clock went over again
  back, ops,
  raced        \* scheduleTaskBundleOfTimer was written in two threads at once

timerVars == <<sec, prevExecTaskBunndleOfTimer, taskOfFixedTimeGroup, scheduleTaskBundleOfTimer, task,
               round, op, fired, since, missed, lateFired, repeated, back, ops, raced>>

Resting == [pc |-> "rest", clone |-> {}]
NoOp == [kind |-> "none"]

TimerInit ==
  /\ sec = 0 /\ prevExecTaskBunndleOfTimer = NoTime
  /\ taskOfFixedTimeGroup = {} /\ scheduleTaskBundleOfTimer = {}
  /\ task = [t \in Periodic |-> [last |-> 0, execTimes |-> 0]]
  /\ round = Resting
  /\ op = [w \in StgThread |-> NoOp]
  /\ fired = [t \in Fixed |-> [s \in 0 .. MaxSec |-> 0]]
  /\ since = [t \in Fixed |-> NoTime]
  /\ missed = [t \in Fixed |-> {}]
  /\ lateFired = [t \in Periodic |-> 0]
  /\ repeated = {} /\ back = 0 /\ ops = 0 /\ raced = FALSE

ghosts == <<fired, since, missed, lateFired, repeated, back, ops>>

Tick ==
  /\ sec < MaxSec /\ sec' = sec + 1
  /\ UNCHANGED <<prevExecTaskBunndleOfTimer, taskOfFixedTimeGroup, scheduleTaskBundleOfTimer, task, round,
                 op, ghosts, raced>>

ClockIsSetBack ==
  /\ back < MaxBack /\ sec > 0
  /\ back' = back + 1
  /\ sec' = sec - 1
  /\ repeated' = repeated \cup {sec}
  /\ UNCHANGED <<prevExecTaskBunndleOfTimer, taskOfFixedTimeGroup, scheduleTaskBundleOfTimer, task, round,
                 op, fired, since, missed, lateFired, ops, raced>>

-----------------------------------------------------------------------------
\* installStgInstTimer for a fixed time, under mtxTaskOfFixedTimeGroup_.
installFixed(t) ==
  /\ since[t] = NoTime
  /\ taskOfFixedTimeGroup' = taskOfFixedTimeGroup \cup {t}
  /\ since' = [since EXCEPT ![t] = sec]
  /\ ops < MaxOps /\ ops' = ops + 1
  /\ UNCHANGED <<sec, prevExecTaskBunndleOfTimer, scheduleTaskBundleOfTimer, task, round, op, fired, missed,
                 lateFired, repeated, back, raced>>

\* Who is writing scheduleTaskBundleOfTimer: installStgInstTimer and the scheduler hold
\* mtxScheduleTaskBundleOfTimer_, uninstallStgInstTimer holds mtxTaskOfFixedTimeGroup_.
Uninstalling == \E w \in StgThread : op[w].kind = "uninstall"
Installing == \E w \in StgThread : op[w].kind = "install"

BeginInstall(w, t) ==
  /\ op[w] = NoOp /\ ~Installing /\ round.pc # "erase"
  /\ t \notin scheduleTaskBundleOfTimer
  /\ op' = [op EXCEPT ![w] = [kind |-> "install", timer |-> t]]
  /\ raced' = (raced \/ Uninstalling)
  /\ ops < MaxOps /\ ops' = ops + 1
  /\ UNCHANGED <<sec, prevExecTaskBunndleOfTimer, taskOfFixedTimeGroup, scheduleTaskBundleOfTimer, task, round,
                 fired, since, missed, lateFired, repeated, back>>

\* The vector after a write: what was meant, or anything when two threads wrote it.
Written(meant) == IF raced THEN SUBSET Periodic ELSE {meant}

EndInstall(w) ==
  /\ op[w].kind = "install"
  /\ LET t == op[w].timer IN
     /\ scheduleTaskBundleOfTimer' \in Written(scheduleTaskBundleOfTimer \cup {t})
     /\ \E last \in {0, sec} :   \* ExecAtStartup
          task' = [task EXCEPT ![t] = [last |-> last, execTimes |-> 0]]
     /\ lateFired' = [lateFired EXCEPT ![t] = 0]
  /\ op' = [op EXCEPT ![w] = NoOp]
  /\ UNCHANGED <<sec, prevExecTaskBunndleOfTimer, taskOfFixedTimeGroup, round, fired, since, missed, repeated,
                 back, ops, raced>>

\* uninstallStgInstTimer erases the timer from both groups under one lock.
BeginUninstall(w, t) ==
  /\ op[w] = NoOp /\ ~Uninstalling
  /\ op' = [op EXCEPT ![w] = [kind |-> "uninstall", timer |-> t]]
  /\ raced' = (raced \/ Installing \/ round.pc = "erase")
  /\ ops < MaxOps /\ ops' = ops + 1
  /\ UNCHANGED <<sec, prevExecTaskBunndleOfTimer, taskOfFixedTimeGroup, scheduleTaskBundleOfTimer, task, round,
                 fired, since, missed, lateFired, repeated, back>>

EndUninstall(w) ==
  /\ op[w].kind = "uninstall"
  /\ scheduleTaskBundleOfTimer' \in Written(scheduleTaskBundleOfTimer \ {op[w].timer})
  /\ taskOfFixedTimeGroup' = taskOfFixedTimeGroup \ {op[w].timer}
  /\ op' = [op EXCEPT ![w] = NoOp]
  /\ UNCHANGED <<sec, prevExecTaskBunndleOfTimer, task, round, ghosts, raced>>

-----------------------------------------------------------------------------
\* getScheduleTaskBundleOfTimer: what has been executed often enough is erased and the rest
\* is copied.
BeginRound ==
  /\ round.pc = "rest" /\ ~Installing
  /\ round' = [round EXCEPT !.pc = "erase"]
  /\ raced' = (raced \/ Uninstalling)
  /\ UNCHANGED <<sec, prevExecTaskBunndleOfTimer, taskOfFixedTimeGroup, scheduleTaskBundleOfTimer, task, op,
                 ghosts>>

getScheduleTaskBundleOfTimer ==
  /\ round.pc = "erase"
  /\ \E group \in Written({t \in scheduleTaskBundleOfTimer : task[t].execTimes # MaxExecTimes[t]}) :
       /\ scheduleTaskBundleOfTimer' = group
       /\ round' = [pc |-> "clone", clone |-> group]
  /\ UNCHANGED <<sec, prevExecTaskBunndleOfTimer, taskOfFixedTimeGroup, task, op, ghosts, raced>>

\* execTaskBunndleOfTimer, the first task of the bundle, copies the timers of a fixed time, ...
CloneFixed ==
  /\ round.pc = "clone"
  /\ round' = [pc |-> "scan", clone |-> round.clone, fixed |-> taskOfFixedTimeGroup]
  /\ UNCHANGED <<sec, prevExecTaskBunndleOfTimer, taskOfFixedTimeGroup, scheduleTaskBundleOfTimer, task, op,
                 ghosts, raced>>

\* ... and fires those whose second is one of those from the last round to now.
Scanned ==
  {s \in 0 .. MaxSec : /\ s <= sec
                       /\ s >= IF prevExecTaskBunndleOfTimer = NoTime THEN sec ELSE prevExecTaskBunndleOfTimer}
execTaskBunndleOfTimer ==
  /\ round.pc = "scan"
  /\ fired' = [t \in Fixed |-> [s \in 0 .. MaxSec |->
       fired[t][s] + IF t \in round.fixed /\ s \in Scanned \cap Pattern[t] THEN 1 ELSE 0]]
  /\ missed' = [t \in Fixed |-> missed[t]
       \cup (IF t \in round.fixed THEN {} ELSE Scanned)
       \cup (IF prevExecTaskBunndleOfTimer = NoTime THEN 0 .. (sec - 1) ELSE {})]
  /\ prevExecTaskBunndleOfTimer' = sec + 1
  /\ round' = [pc |-> "exec", clone |-> round.clone]
  /\ UNCHANGED <<sec, taskOfFixedTimeGroup, scheduleTaskBundleOfTimer, task, op, since, lateFired, repeated,
                 back, ops, raced>>

\* ExecScheduleTaskBundle goes on with the other tasks: one is executed when its interval is
\* over (the difference is unsigned: a clock that was set back makes it huge).
Due(t) ==
  /\ task[t].execTimes < MaxExecTimes[t]
  /\ sec < task[t].last \/ sec - task[t].last >= Interval[t]
ExecScheduleTask(t) ==
  /\ round.pc = "exec" /\ t \in round.clone
  /\ IF Due(t)
     THEN /\ task' = [task EXCEPT ![t] = [last |-> sec, execTimes |-> @.execTimes + 1]]
          /\ lateFired' = [lateFired EXCEPT ![t] = IF t \in scheduleTaskBundleOfTimer THEN 0 ELSE @ + 1]
     ELSE UNCHANGED <<task, lateFired>>
  /\ round' = [round EXCEPT !.clone = @ \ {t}]
  /\ UNCHANGED <<sec, prevExecTaskBunndleOfTimer, taskOfFixedTimeGroup, scheduleTaskBundleOfTimer, op, fired,
                 since, missed, repeated, back, ops, raced>>

EndRound ==
  /\ round.pc = "exec" /\ round.clone = {}
  /\ round' = Resting
  /\ UNCHANGED <<sec, prevExecTaskBunndleOfTimer, taskOfFixedTimeGroup, scheduleTaskBundleOfTimer, task, op,
                 ghosts, raced>>

TimerNext ==
  \/ Tick \/ ClockIsSetBack
  \/ \E t \in Fixed : installFixed(t)
  \/ \E w \in StgThread : \/ \E t \in Periodic : BeginInstall(w, t)
                          \/ \E t \in Fixed \cup Periodic : BeginUninstall(w, t)
                          \/ EndInstall(w) \/ EndUninstall(w)
  \/ BeginRound \/ getScheduleTaskBundleOfTimer \/ CloneFixed \/ execTaskBunndleOfTimer
  \/ \E t \in Periodic : ExecScheduleTask(t)
  \/ EndRound

-----------------------------------------------------------------------------
\* A timer of a fixed time is fired once for each of its seconds, however late the scheduler
\* is, unless it is before the first round, a round that had begun without the timer looked for
\* it or the clock went over it again; a timer of an interval is fired once more at most after it was uninstalled,
\* unless two threads wrote the vector at once.
TimerOnce ==
  /\ \A t \in taskOfFixedTimeGroup, s \in 0 .. MaxSec :
       /\ since[t] < s /\ prevExecTaskBunndleOfTimer # NoTime /\ s < prevExecTaskBunndleOfTimer
       /\ s \in Pattern[t] \ (missed[t] \cup repeated)
       => fired[t][s] = 1
  /\ raced \/ \A t \in Periodic : lateFired[t] <= 1
=============================================================================
