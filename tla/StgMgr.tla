-------------------------------- MODULE StgMgr --------------------------------
(***************************************************************************)
(* The web server's manager of the processes of strategy engines (StgMgr):   *)
(* requests to start and to stop a strategy come from several threads, and   *)
(* each does three things under one lock at most.                            *)
(***************************************************************************)
EXTENDS Naturals, FiniteSets

CONSTANTS
  Stg,          \* strategies
  Worker,       \* threads that handle requests (threads_num of config.json)
  NoStg, NoPid, \* no strategy, no process
  MaxPid,       \* at most so many processes are started
  MaxOutside    \* at most so many processes die of themselves or the web server does

ASSUME NoneOfStg == NoStg \notin Stg /\ MaxPid \in Nat /\ NoPid \notin 1 .. MaxPid

VARIABLES
  proc,      \* pid -> the strategy it runs and whether it is running, asked to stop or gone
  stgId2ProcGroup,
  req,       \* worker -> the request it is handling and how far it is
  outside,   \* deaths that nobody asked for
  unsettled  \* strategies two requests were about at once, whose engine outlived the
             \* ten seconds it was given, or whose web server was killed

procVars == <<proc, stgId2ProcGroup, req, outside, unsettled>>

Idle == [pc |-> "idle", stg |-> NoStg, pid |-> NoPid]

ProcInit ==
  /\ proc = [p \in {} |-> NoPid]
  /\ stgId2ProcGroup = [s \in Stg |-> NoPid]
  /\ req = [w \in Worker |-> Idle]
  /\ outside = 0
  /\ unsettled = {}

processExists(p) == p # NoPid /\ proc[p].st # "gone"

\* A request about a strategy that another thread is still handling a request about.
Overlaps(s) == IF \E w \in Worker : req[w].stg = s THEN unsettled \cup {s} ELSE unsettled

\* Mutant: whether the process of the entry exists is not looked at.
StartsAnyway(w, s) ==
  /\ req[w].pc = "idle" /\ Cardinality(DOMAIN proc) < MaxPid
  /\ unsettled' = Overlaps(s)
  /\ stgId2ProcGroup' = [stgId2ProcGroup EXCEPT ![s] = NoPid]
  /\ req' = [req EXCEPT ![w] = [pc |-> "spawn", stg |-> s, pid |-> NoPid]]
  /\ UNCHANGED <<proc, outside>>

\* checkIfStgAlreadyStarted, under the lock: an entry whose process is gone is dropped.
checkIfStgAlreadyStarted(w, s) ==
  /\ req[w].pc = "idle" /\ Cardinality(DOMAIN proc) < MaxPid
  /\ unsettled' = Overlaps(s)
  /\ IF processExists(stgId2ProcGroup[s])
     THEN UNCHANGED <<stgId2ProcGroup, req>>
     ELSE /\ stgId2ProcGroup' = [stgId2ProcGroup EXCEPT ![s] = NoPid]
          /\ req' = [req EXCEPT ![w] = [pc |-> "spawn", stg |-> s, pid |-> NoPid]]
  /\ UNCHANGED <<proc, outside>>

\* The process is started with no lock held, or the command is refused or cannot be run.
Spawn(w) ==
  /\ req[w].pc = "spawn"
  /\ \/ /\ Cardinality(DOMAIN proc) < MaxPid
        /\ LET pid == Cardinality(DOMAIN proc) + 1 IN
           /\ proc' = [p \in DOMAIN proc \cup {pid} |->
                        IF p = pid THEN [stg |-> req[w].stg, st |-> "running"] ELSE proc[p]]
           /\ req' = [req EXCEPT ![w] = [pc |-> "emplace", stg |-> req[w].stg, pid |-> pid]]
     \/ /\ req' = [req EXCEPT ![w] = Idle]
        /\ UNCHANGED proc
  /\ UNCHANGED <<stgId2ProcGroup, outside, unsettled>>

\* The end of startStg: emplace does nothing when there is an entry by now.
Emplace(w) ==
  /\ req[w].pc = "emplace"
  /\ stgId2ProcGroup' = IF stgId2ProcGroup[req[w].stg] = NoPid
                        THEN [stgId2ProcGroup EXCEPT ![req[w].stg] = req[w].pid]
                        ELSE stgId2ProcGroup
  /\ req' = [req EXCEPT ![w] = Idle]
  /\ UNCHANGED <<proc, outside, unsettled>>

\* checkIfStgNotStarted, under the lock.
checkIfStgNotStarted(w, s) ==
  /\ req[w].pc = "idle"
  /\ unsettled' = Overlaps(s)
  /\ IF processExists(stgId2ProcGroup[s])
     THEN /\ req' = [req EXCEPT ![w] = [pc |-> "kill", stg |-> s, pid |-> stgId2ProcGroup[s]]]
          /\ UNCHANGED stgId2ProcGroup
     ELSE /\ stgId2ProcGroup' = [stgId2ProcGroup EXCEPT ![s] = NoPid]
          /\ UNCHANGED req
  /\ UNCHANGED <<proc, outside>>

\* stopStg asks the process to stop, ...
Kill(w) ==
  /\ req[w].pc = "kill"
  /\ proc' = IF processExists(req[w].pid) THEN [proc EXCEPT ![req[w].pid].st = "stopping"] ELSE proc
  /\ req' = [req EXCEPT ![w].pc = "wait"]
  /\ UNCHANGED <<stgId2ProcGroup, outside, unsettled>>

\* ... waits until it is gone or ten seconds are over ...
WaitFor(w) ==
  /\ req[w].pc = "wait"
  /\ unsettled' = IF processExists(req[w].pid) THEN unsettled \cup {req[w].stg} ELSE unsettled
  /\ req' = [req EXCEPT ![w].pc = "erase"]
  /\ UNCHANGED <<proc, stgId2ProcGroup, outside>>

\* ... and drops the entry of the strategy, whichever process it is of by now.
Erase(w) ==
  /\ req[w].pc = "erase"
  /\ stgId2ProcGroup' = [stgId2ProcGroup EXCEPT ![req[w].stg] = NoPid]
  /\ req' = [req EXCEPT ![w] = Idle]
  /\ UNCHANGED <<proc, outside, unsettled>>

\* An engine ends: as it was asked to, or of itself.
ProcEnds(p) ==
  /\ proc[p].st # "gone"
  /\ \/ proc[p].st = "stopping" /\ UNCHANGED outside
     \/ proc[p].st = "running" /\ outside < MaxOutside /\ outside' = outside + 1
  /\ proc' = [proc EXCEPT ![p].st = "gone"]
  /\ UNCHANGED <<stgId2ProcGroup, req, unsettled>>

\* The web server is killed and starts again: it has no record of the engines it started.
WebSrvRestarts ==
  /\ outside < MaxOutside /\ outside' = outside + 1
  /\ unsettled' = unsettled \cup {proc[p].stg : p \in {q \in DOMAIN proc : processExists(q)}}
  /\ stgId2ProcGroup' = [s \in Stg |-> NoPid]
  /\ req' = [w \in Worker |-> Idle]
  /\ UNCHANGED proc

ProcNext ==
  \/ \E w \in Worker, s \in Stg : checkIfStgAlreadyStarted(w, s) \/ checkIfStgNotStarted(w, s)
  \/ \E w \in Worker : Spawn(w) \/ Emplace(w) \/ Kill(w) \/ WaitFor(w) \/ Erase(w)
  \/ \E p \in DOMAIN proc : ProcEnds(p)
  \/ WebSrvRestarts

ProcOf(s) == {p \in DOMAIN proc : proc[p].stg = s /\ processExists(p)}

-----------------------------------------------------------------------------
\* A strategy has one engine at most, and the manager knows it or is about to, so that the
\* strategy can be stopped: unless two requests were about it at once, an engine took more
\* than ten seconds to stop or the web server was killed (two engines of a strategy would
\* both send its orders).
OneEngine ==
  \A s \in Stg \ unsettled :
    /\ Cardinality(ProcOf(s)) <= 1
    /\ \A p \in ProcOf(s) : stgId2ProcGroup[s] = p \/ \E w \in Worker : req[w].pid = p
=============================================================================
