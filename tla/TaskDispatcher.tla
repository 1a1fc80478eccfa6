---------------------------- MODULE TaskDispatcher ----------------------------
(***************************************************************************)
(* The task dispatcher most processes are built around: a queue and a thread *)
(* per number, threads that start with their first task, and a stop that     *)
(* waits for the threads while it holds the lock a dispatch needs.           *)
(***************************************************************************)
EXTENDS Integers, Sequences

CONSTANTS
  taskSpecificThreadPoolSize,
  Producer,         \* threads that dispatch tasks and are not of the dispatcher
  TaskOf,           \* producer -> the tasks it dispatches, in order
  Follow,           \* task -> the task its handler dispatches, or NoTask
  getThreadForTask, \* task -> number of its thread
  NoTask

ASSUME SomeThread == taskSpecificThreadPoolSize \in Nat \ {0}

ThreadNo == 0 .. (taskSpecificThreadPoolSize - 1)
Task == DOMAIN Follow

\* A dispatch makes a task of its own: none is dispatched by two producers or handlers, or
\* twice by one.
ASSUME TasksApart ==
  /\ NoTask \notin Task
  /\ \A k \in Task : Follow[k] \in Task \cup {NoTask} /\ getThreadForTask[k] \in ThreadNo
  /\ \A p \in Producer : TaskOf[p] \in Seq(Task)
  /\ \A p, q \in Producer : \A i \in 1 .. Len(TaskOf[p]), j \in 1 .. Len(TaskOf[q]) :
       TaskOf[p][i] = TaskOf[q][j] => p = q /\ i = j
  /\ \A k, l \in Task : Follow[k] = Follow[l] /\ Follow[k] # NoTask => k = l
  /\ \A k \in Task, p \in Producer : \A i \in 1 .. Len(TaskOf[p]) : Follow[k] # TaskOf[p][i]

VARIABLES
  queue,     \* thread -> tasks
  thread,    \* thread -> "none" (a null pointer), "running" or "exited"
  doing,     \* thread -> the task it handles and how far it is
  next,      \* producer -> how many tasks it has dispatched, and whether it is about to enqueue
  stopped,   \* the flag of that name
  joining,   \* the thread stop waits for: -1 before, one past the last afterwards
  handled,   \* tasks that have been handled, in order
  inTime     \* tasks that were enqueued before the dispatcher was stopped

dispatcherVars == <<queue, thread, doing, next, stopped, joining, handled, inTime>>

Free == [task |-> NoTask, pc |-> "wait"]

DispatcherInit ==
  /\ queue = [n \in ThreadNo |-> <<>>]
  /\ thread \in {[n \in ThreadNo |-> st] : st \in {"none", "running"}}   \* preCreateTaskSpecificThreadPool
  /\ doing = [n \in ThreadNo |-> Free]
  /\ next = [p \in Producer |-> [done |-> 0, pc |-> "lock"]]
  /\ stopped = FALSE /\ joining = -1
  /\ handled = <<>> /\ inTime = {}

\* mtxTaskSpecificThreadPool_ is held by stop from before it joins a thread until it has.
Locked == joining \in ThreadNo /\ thread[joining] = "running"

\* dispatchToSpecifiedThread starts the thread of the task if there is none, under the lock, ...
StartThread(k) ==
  /\ ~Locked
  /\ thread' = [thread EXCEPT ![getThreadForTask[k]] = IF @ = "none" THEN "running" ELSE @]

\* ... and enqueues the task after it.
Enqueue(k, q) ==
  /\ queue' = [q EXCEPT ![getThreadForTask[k]] = Append(@, k)]
  /\ inTime' = IF stopped THEN inTime ELSE inTime \cup {k}

ProducerLocks(p) ==
  /\ next[p].pc = "lock" /\ next[p].done < Len(TaskOf[p])
  /\ StartThread(TaskOf[p][next[p].done + 1])
  /\ next' = [next EXCEPT ![p].pc = "enqueue"]
  /\ UNCHANGED <<queue, doing, stopped, joining, handled, inTime>>

ProducerEnqueues(p) ==
  /\ next[p].pc = "enqueue"
  /\ Enqueue(TaskOf[p][next[p].done + 1], queue)
  /\ next' = [next EXCEPT ![p] = [done |-> @.done + 1, pc |-> "lock"]]
  /\ UNCHANGED <<thread, doing, stopped, joining, handled>>

\* doStart of a thread: take the next task, ...
Dequeue(n) ==
  /\ thread[n] = "running" /\ doing[n] = Free /\ queue[n] # <<>>
  /\ doing' = [doing EXCEPT ![n] = [task |-> Head(queue[n]),
                                    pc |-> IF Follow[Head(queue[n])] = NoTask THEN "handle" ELSE "lock"]]
  /\ queue' = [queue EXCEPT ![n] = Tail(@)]
  /\ UNCHANGED <<thread, next, stopped, joining, handled, inTime>>

\* ... whose handler may dispatch another one, ...
HandlerLocks(n) ==
  /\ doing[n].pc = "lock"
  /\ StartThread(Follow[doing[n].task])
  /\ doing' = [doing EXCEPT ![n].pc = "enqueue"]
  /\ UNCHANGED <<queue, next, stopped, joining, handled, inTime>>

HandlerEnqueues(n) ==
  /\ doing[n].pc = "enqueue"
  /\ Enqueue(Follow[doing[n].task], queue)
  /\ doing' = [doing EXCEPT ![n].pc = "handle"]
  /\ UNCHANGED <<thread, next, stopped, joining, handled>>

Handle(n) ==
  /\ doing[n].pc = "handle"
  /\ handled' = Append(handled, doing[n].task)
  /\ doing' = [doing EXCEPT ![n] = Free]
  /\ UNCHANGED <<queue, thread, next, stopped, joining, inTime>>

\* Mutant: a thread ends whatever its queue holds.
ExitsAtOnce(n) ==
  /\ thread[n] = "running" /\ doing[n] = Free /\ stopped
  /\ thread' = [thread EXCEPT ![n] = "exited"]
  /\ UNCHANGED <<queue, doing, next, stopped, joining, handled, inTime>>

\* ... and end when the dispatcher is stopped and the queue is empty.
ThreadExits(n) ==
  /\ thread[n] = "running" /\ doing[n] = Free /\ stopped /\ queue[n] = <<>>
  /\ thread' = [thread EXCEPT ![n] = "exited"]
  /\ UNCHANGED <<queue, doing, next, stopped, joining, handled, inTime>>

\* stop sets the flag without a lock, then takes the lock for one thread after the other and
\* joins it: a thread that is not there (yet) is passed over.
Stop ==
  /\ ~stopped /\ stopped' = TRUE
  /\ joining' = 0
  /\ UNCHANGED <<queue, thread, doing, next, handled, inTime>>

Joined ==
  /\ joining \in ThreadNo /\ thread[joining] # "running"
  /\ joining' = joining + 1
  /\ UNCHANGED <<queue, thread, doing, next, stopped, handled, inTime>>

DispatcherProceeds ==
  \/ \E n \in ThreadNo : Dequeue(n) \/ HandlerLocks(n) \/ HandlerEnqueues(n) \/ Handle(n) \/ ThreadExits(n)
  \/ Joined

DispatcherNext ==
  \/ \E p \in Producer : ProducerLocks(p) \/ ProducerEnqueues(p)
  \/ Stop \/ DispatcherProceeds

HasStopped == joining = taskSpecificThreadPoolSize

\* stop waits for a thread whose handler waits for the lock stop holds.
StuckInStop == Locked /\ doing[joining].pc = "lock"

-----------------------------------------------------------------------------
\* What was enqueued before the dispatcher was stopped has been handled, each task once, when
\* stop returns (a task enqueued later may be left in the queue of a thread that has ended, or
\* of one stop passed over and nobody joins).
DrainedOnce ==
  /\ HasStopped => \A k \in inTime : \E i \in 1 .. Len(handled) : handled[i] = k
  /\ \A i, j \in 1 .. Len(handled) : handled[i] = handled[j] => i = j
=============================================================================
