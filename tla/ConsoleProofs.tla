----------------------------- MODULE ConsoleProofs -----------------------------
(****************************************************************************)
(* Proofs about the console and what stands beside it: the engines of the   *)
(* strategies, what is pushed to users, the timers of instances, the task   *)
(* dispatcher and the orders an engine sends.                               *)
(****************************************************************************)
EXTENDS MCConsole, FiniteSetTheorems, TLAPS

\* Processes are numbered from 1.
ProcTypeOK ==
  /\ IsFiniteSet(DOMAIN proc) /\ DOMAIN proc = 1 .. Cardinality(DOMAIN proc)
  /\ Cardinality(DOMAIN proc) <= MaxPid
  /\ proc \in [DOMAIN proc -> [stg : Stg, st : {"running", "stopping", "gone"}]]
  /\ stgId2ProcGroup \in [Stg -> DOMAIN proc \cup {NoPid}]
  /\ req \in [Worker -> [pc : {"idle", "spawn", "emplace", "kill", "wait", "erase"},
                         stg : Stg \cup {NoStg}, pid : DOMAIN proc \cup {NoPid}]]

\* A thread that handles a request knows the strategy it is about, and the process once
\* there is one.
RequestsTyped ==
  \A w \in Worker :
    /\ req[w].pc = "idle" => req[w].stg = NoStg /\ req[w].pid = NoPid
    /\ req[w].pc # "idle" => req[w].stg \in Stg
    /\ req[w].pc = "emplace" => req[w].pid # NoPid /\ proc[req[w].pid].stg = req[w].stg

EntriesTrue == \A s \in Stg : stgId2ProcGroup[s] # NoPid => proc[stgId2ProcGroup[s]].stg = s

\* One request is about a settled strategy, and the map is as far as it is.
OneRequest ==
  \A v, w \in Worker : req[v].pc # "idle" /\ req[v].stg = req[w].stg /\ req[v].stg \notin unsettled => v = w

EntryOfRequest ==
  \A w \in Worker : req[w].stg \in Stg \ unsettled =>
    /\ req[w].pc \in {"spawn", "emplace"} => stgId2ProcGroup[req[w].stg] = NoPid
    /\ req[w].pc \in {"kill", "wait"} => stgId2ProcGroup[req[w].stg] = req[w].pid

\* An engine of a settled strategy is that of the request about it, if there is one, and
\* that of the map otherwise.
Settled(p) == processExists(p) /\ proc[p].stg \notin unsettled
EngineOfRequest ==
  \A p \in DOMAIN proc, w \in Worker : Settled(p) /\ req[w].stg = proc[p].stg =>
    req[w].pc \in {"emplace", "kill", "wait"} /\ req[w].pid = p
EngineOfEntry ==
  \A p \in DOMAIN proc : Settled(p) =>
    stgId2ProcGroup[proc[p].stg] = p \/ \E w \in Worker : req[w].stg = proc[p].stg

ProcInv ==
  /\ ProcTypeOK /\ RequestsTyped /\ EntriesTrue /\ OneRequest
  /\ EntryOfRequest /\ EngineOfRequest /\ EngineOfEntry

\* A step of the console leaves the processes of the engines alone, or is theirs.
LEMMA ProcStepOrNot == Next => ProcNext \/ UNCHANGED procVars
BY DEF Next, ProcStep, UserStep, SqlStep, TimerStep, DispatcherStep, CallbackStep, RequestStep,
       OtherVars

LEMMA ProcInitInv == ProcInit => ProcInv
<1> SUFFICES ASSUME ProcInit PROVE ProcInv
  OBVIOUS
<1>1. DOMAIN proc = {}
  BY DEF ProcInit
<1>2. /\ IsFiniteSet(DOMAIN proc) /\ Cardinality(DOMAIN proc) = 0 /\ 1 .. 0 = {}
  BY <1>1, FS_EmptySet
<1>3. ProcTypeOK
  BY <1>1, <1>2, NoneOfStg DEF ProcInit, ProcTypeOK, Idle
<1> QED
  BY <1>1, <1>3, NoneOfStg DEF ProcInit, ProcInv, RequestsTyped, EntriesTrue, OneRequest,
     EntryOfRequest, EngineOfRequest, EngineOfEntry, Idle, Settled, processExists

\* The bounds of the model are natural numbers, and no process is NoPid.
LEMMA PidsAreNumbers == ProcTypeOK => NoPid \notin DOMAIN proc /\ Cardinality(DOMAIN proc) \in Nat
<1> SUFFICES ASSUME ProcTypeOK PROVE NoPid \notin DOMAIN proc /\ Cardinality(DOMAIN proc) \in Nat
  OBVIOUS
<1>1. Cardinality(DOMAIN proc) \in Nat
  BY FS_CardinalityType DEF ProcTypeOK
<1> QED
  BY <1>1, NoneOfStg DEF ProcTypeOK

LEMMA StartRequestInv ==
  ASSUME ProcInv, NEW w \in Worker, NEW s \in Stg, checkIfStgAlreadyStarted(w, s)
  PROVE  ProcInv'
<1> USE DEF ProcInv
<1>0. NoPid \notin DOMAIN proc /\ proc' = proc /\ req[w].pc = "idle"
      /\ req[w].stg = NoStg /\ unsettled \subseteq unsettled'
  BY PidsAreNumbers DEF checkIfStgAlreadyStarted, Overlaps, RequestsTyped
<1>1. CASE processExists(stgId2ProcGroup[s])
  <2>1. UNCHANGED <<proc, stgId2ProcGroup, req>>
    BY <1>1 DEF checkIfStgAlreadyStarted
  <2> QED
    BY <2>1, <1>0 DEF ProcTypeOK, RequestsTyped, EntriesTrue, OneRequest, EntryOfRequest,
       EngineOfRequest, EngineOfEntry, Settled, processExists
<1>2. CASE ~processExists(stgId2ProcGroup[s])
  <2> DEFINE r == [pc |-> "spawn", stg |-> s, pid |-> NoPid]
  <2>1. stgId2ProcGroup' = [stgId2ProcGroup EXCEPT ![s] = NoPid] /\ req' = [req EXCEPT ![w] = r]
    BY <1>2 DEF checkIfStgAlreadyStarted
  <2>2. s \notin unsettled' => \A v \in Worker : req[v].stg # s
    BY DEF checkIfStgAlreadyStarted, Overlaps
  <2>3. ProcTypeOK'
    BY <1>0, <2>1 DEF ProcTypeOK
  <2>4. r.pc = "spawn" /\ r.stg = s /\ r.pid = NoPid
    OBVIOUS
  <2> HIDE DEF r
  <2>5. \A v \in Worker : req'[v] = IF v = w THEN r ELSE req[v]
    BY <2>1 DEF ProcTypeOK
  <2>6. \A x \in Stg : stgId2ProcGroup'[x] = IF x = s THEN NoPid ELSE stgId2ProcGroup[x]
    BY <2>1 DEF ProcTypeOK
  <2>7. RequestsTyped' /\ EntriesTrue'
    BY <1>0, <2>4, <2>5, <2>6 DEF RequestsTyped, EntriesTrue
  <2>8. OneRequest' /\ EntryOfRequest'
    BY <1>0, <2>2, <2>4, <2>5, <2>6, NoneOfStg DEF RequestsTyped, OneRequest, EntryOfRequest
  <2>9. \A q \in DOMAIN proc : Settled(q)' => Settled(q) /\ proc[q].stg # s
    <3> SUFFICES ASSUME NEW q \in DOMAIN proc, Settled(q)' PROVE Settled(q) /\ proc[q].stg # s
      OBVIOUS
    <3>1. Settled(q)
      BY <1>0 DEF Settled, processExists
    <3>2. proc[q].stg = s => stgId2ProcGroup[s] = q
      BY <1>0, <2>2, <3>1 DEF EngineOfEntry, Settled
    <3> QED BY <1>2, <3>1, <3>2 DEF Settled, processExists
  <2>10. EngineOfRequest' /\ EngineOfEntry'
    BY <1>0, <2>4, <2>5, <2>6, <2>9, NoneOfStg DEF EngineOfRequest, EngineOfEntry, ProcTypeOK
  <2> QED BY <2>3, <2>7, <2>8, <2>10
<1> QED BY <1>1, <1>2

LEMMA SpawnInv ==
  ASSUME ProcInv, NEW w \in Worker, Spawn(w)
  PROVE  ProcInv'
<1> USE DEF ProcInv
<1>0. /\ NoPid \notin DOMAIN proc /\ Cardinality(DOMAIN proc) \in Nat /\ DOMAIN proc \subseteq Nat
      /\ req[w].pc = "spawn" /\ req[w].stg \in Stg
      /\ stgId2ProcGroup' = stgId2ProcGroup /\ unsettled' = unsettled
      /\ NoStg \notin Stg
  BY PidsAreNumbers, NoneOfStg DEF Spawn, RequestsTyped, ProcTypeOK
<1>1. CASE proc' = proc /\ req' = [req EXCEPT ![w] = Idle]
  <2> DEFINE r == Idle
  <2>1. r.pc = "idle" /\ r.stg = NoStg /\ r.pid = NoPid
    BY DEF Idle
  <2>2. ProcTypeOK'
    BY <1>0, <1>1 DEF ProcTypeOK, Idle
  <2>3. \A v \in Worker : req'[v] = IF v = w THEN r ELSE req[v]
    BY <1>1 DEF ProcTypeOK
  <2> HIDE DEF r
  <2>4. RequestsTyped' /\ EntriesTrue' /\ OneRequest' /\ EntryOfRequest'
    BY <1>0, <1>1, <2>1, <2>3 DEF RequestsTyped, EntriesTrue, OneRequest, EntryOfRequest
  <2>5. \A q \in DOMAIN proc : Settled(q)' => Settled(q) /\ proc[q].stg # req[w].stg
    BY <1>0, <1>1 DEF Settled, processExists, EngineOfRequest
  <2>6. EngineOfRequest' /\ EngineOfEntry'
    BY <1>0, <1>1, <2>1, <2>3, <2>5 DEF EngineOfRequest, EngineOfEntry, ProcTypeOK
  <2> QED BY <2>2, <2>4, <2>6
<1>2. CASE Cardinality(DOMAIN proc) < MaxPid /\ ~(proc' = proc /\ req' = [req EXCEPT ![w] = Idle])
  <2> DEFINE pid == Cardinality(DOMAIN proc) + 1
             eng == [stg |-> req[w].stg, st |-> "running"]
             r == [pc |-> "emplace", stg |-> req[w].stg, pid |-> pid]
  <2>1. /\ proc' = [q \in DOMAIN proc \cup {pid} |-> IF q = pid THEN eng ELSE proc[q]]
        /\ req' = [req EXCEPT ![w] = r]
    BY <1>2 DEF Spawn
  <2>2. pid \notin DOMAIN proc /\ pid \in 1 .. MaxPid /\ pid # NoPid
    BY <1>0, <1>2, NoneOfStg DEF ProcTypeOK
  <2>4. IsFiniteSet(DOMAIN proc') /\ Cardinality(DOMAIN proc') = pid /\ DOMAIN proc' = DOMAIN proc \cup {pid}
    BY <2>1, <2>2, FS_AddElement DEF ProcTypeOK
  <2>5. DOMAIN proc' = 1 .. pid
    BY <1>0, <2>4 DEF ProcTypeOK
  <2>6. eng \in [stg : Stg, st : {"running", "stopping", "gone"}] /\ eng.stg = req[w].stg /\ eng.st = "running"
    BY <1>0
  <2>7. r \in [pc : {"idle", "spawn", "emplace", "kill", "wait", "erase"},
               stg : Stg \cup {NoStg}, pid : DOMAIN proc \cup {pid} \cup {NoPid}]
        /\ r.pc = "emplace" /\ r.stg = req[w].stg /\ r.pid = pid
    BY <1>0
  <2> HIDE DEF eng, r
  <2>8. \A q \in DOMAIN proc' : proc'[q] = IF q = pid THEN eng ELSE proc[q]
    BY <2>1, <2>4
  <2>9. \A v \in Worker : req'[v] = IF v = w THEN r ELSE req[v]
    BY <2>1 DEF ProcTypeOK
  <2>10. pid \in Nat /\ Cardinality(DOMAIN proc') <= MaxPid
    BY <1>0, <1>2, <2>4, NoneOfStg
  <2> HIDE DEF pid
  <2>11. ProcTypeOK'
    <3>1. proc' \in [DOMAIN proc' -> [stg : Stg, st : {"running", "stopping", "gone"}]]
      BY <2>1, <2>4, <2>6, <2>8 DEF ProcTypeOK
    <3>2. req' \in [Worker -> [pc : {"idle", "spawn", "emplace", "kill", "wait", "erase"},
                               stg : Stg \cup {NoStg}, pid : DOMAIN proc' \cup {NoPid}]]
      BY <2>1, <2>4, <2>7 DEF ProcTypeOK
    <3> QED BY <1>0, <2>4, <2>5, <2>10, <3>1, <3>2 DEF ProcTypeOK
  <2>12. RequestsTyped' /\ EntriesTrue'
    <3>1. \A q \in DOMAIN proc : proc'[q].stg = proc[q].stg
      BY <2>2, <2>4, <2>8
    <3>2. RequestsTyped'
      <4> SUFFICES ASSUME NEW v \in Worker
                   PROVE  /\ req'[v].pc = "idle" => req'[v].stg = NoStg /\ req'[v].pid = NoPid
                          /\ req'[v].pc # "idle" => req'[v].stg \in Stg
                          /\ req'[v].pc = "emplace" => req'[v].pid # NoPid /\ proc'[req'[v].pid].stg = req'[v].stg
        BY DEF RequestsTyped
      <4>1. CASE v = w
        <5>1. /\ req'[v] = r /\ r.pc = "emplace" /\ r.pid = pid /\ r.stg = req[w].stg /\ req[w].stg \in Stg
              /\ proc'[pid] = eng /\ eng.stg = req[w].stg /\ pid # NoPid
          BY <1>0, <2>2, <2>4, <2>6, <2>7, <2>8, <2>9, <4>1
        <5> QED BY <5>1
      <4>2. CASE v # w
        <5>1. req'[v] = req[v] /\ (req[v].pid \in DOMAIN proc \/ req[v].pid = NoPid)
          BY <2>9, <4>2 DEF ProcTypeOK
        <5> QED BY <3>1, <5>1 DEF RequestsTyped
      <4> QED BY <4>1, <4>2
    <3>3. EntriesTrue'
      <4>1. \A s \in Stg : stgId2ProcGroup'[s] = stgId2ProcGroup[s] /\ stgId2ProcGroup[s] \in DOMAIN proc \cup {NoPid}
        BY <1>0 DEF ProcTypeOK
      <4> QED BY <3>1, <4>1 DEF EntriesTrue
    <3> QED BY <3>2, <3>3
  <2>13. OneRequest' /\ EntryOfRequest'
    BY <1>0, <2>7, <2>9 DEF OneRequest, EntryOfRequest, RequestsTyped
  <2>14. \A q \in DOMAIN proc : Settled(q)' => Settled(q) /\ proc[q].stg # req[w].stg /\ proc'[q].stg = proc[q].stg
    BY <1>0, <2>2, <2>4, <2>8 DEF Settled, processExists, EngineOfRequest
  <2>15. \A v \in Worker : req[v].stg = req[w].stg /\ req[w].stg \notin unsettled => v = w
    BY <1>0 DEF OneRequest
  <2>16. EngineOfRequest'
    BY <1>0, <2>4, <2>6, <2>7, <2>8, <2>9, <2>14, <2>15 DEF EngineOfRequest, Settled
  <2>17. EngineOfEntry'
    BY <1>0, <2>4, <2>6, <2>7, <2>8, <2>9, <2>14 DEF EngineOfEntry, Settled
  <2> QED BY <2>11, <2>12, <2>13, <2>16, <2>17
<1> QED BY <1>1, <1>2 DEF Spawn

LEMMA EmplaceInv ==
  ASSUME ProcInv, NEW w \in Worker, Emplace(w)
  PROVE  ProcInv'
<1> USE DEF ProcInv
<1> DEFINE s == req[w].stg
<1>0. /\ NoPid \notin DOMAIN proc /\ proc' = proc /\ unsettled' = unsettled /\ NoStg \notin Stg
      /\ req[w].pc = "emplace" /\ s \in Stg /\ req[w].pid \in DOMAIN proc /\ proc[req[w].pid].stg = s
      /\ req' = [req EXCEPT ![w] = Idle]
  BY PidsAreNumbers, NoneOfStg DEF Emplace, RequestsTyped, ProcTypeOK
<1>1. Idle.pc = "idle" /\ Idle.stg = NoStg /\ Idle.pid = NoPid
  BY DEF Idle
<1>2. \A v \in Worker : req'[v] = IF v = w THEN Idle ELSE req[v]
  BY <1>0 DEF ProcTypeOK
<1>3. /\ stgId2ProcGroup' \in [Stg -> DOMAIN proc \cup {NoPid}]
      /\ \A x \in Stg : stgId2ProcGroup'[x] = IF x = s /\ stgId2ProcGroup[s] = NoPid THEN req[w].pid
                                               ELSE stgId2ProcGroup[x]
  BY <1>0 DEF Emplace, ProcTypeOK
<1>4. ProcTypeOK'
  BY <1>0, <1>3 DEF ProcTypeOK, Idle
<1>5. RequestsTyped' /\ EntriesTrue'
  BY <1>0, <1>1, <1>2, <1>3 DEF RequestsTyped, EntriesTrue
<1>6. \A v \in Worker : req[v].stg = s /\ s \notin unsettled => v = w
  BY <1>0 DEF OneRequest
<1>7. OneRequest' /\ EntryOfRequest'
  BY <1>0, <1>1, <1>2, <1>3, <1>6 DEF OneRequest, EntryOfRequest, RequestsTyped
<1>8. \A q \in DOMAIN proc : Settled(q)' <=> Settled(q)
  BY <1>0 DEF Settled, processExists
<1>9. EngineOfRequest'
  BY <1>0, <1>1, <1>2, <1>8 DEF EngineOfRequest, ProcTypeOK
<1>10. EngineOfEntry'
  <2> SUFFICES ASSUME NEW q \in DOMAIN proc, Settled(q)
               PROVE stgId2ProcGroup'[proc[q].stg] = q \/ \E v \in Worker : req'[v].stg = proc[q].stg
    BY <1>0, <1>8 DEF EngineOfEntry
  <2>1. CASE proc[q].stg = s
    <3>1. req[w].pid = q /\ stgId2ProcGroup[s] = NoPid
      BY <1>0, <2>1 DEF EngineOfRequest, EntryOfRequest, Settled
    <3> QED BY <1>0, <1>3, <2>1, <3>1
  <2>2. CASE proc[q].stg # s
    <3>1. proc[q].stg \in Stg
      BY DEF ProcTypeOK
    <3> QED BY <1>0, <1>2, <1>3, <2>2, <3>1 DEF EngineOfEntry
  <2> QED BY <2>1, <2>2
<1> QED BY <1>4, <1>5, <1>7, <1>9, <1>10

LEMMA StopRequestInv ==
  ASSUME ProcInv, NEW w \in Worker, NEW s \in Stg, checkIfStgNotStarted(w, s)
  PROVE  ProcInv'
<1> USE DEF ProcInv
<1>0. /\ NoPid \notin DOMAIN proc /\ proc' = proc /\ req[w].pc = "idle" /\ NoStg \notin Stg
      /\ req[w].stg = NoStg /\ unsettled \subseteq unsettled'
  BY PidsAreNumbers, NoneOfStg DEF checkIfStgNotStarted, Overlaps, RequestsTyped
<1>1. s \notin unsettled' => \A v \in Worker : req[v].stg # s
  BY DEF checkIfStgNotStarted, Overlaps
<1>2. \A q \in DOMAIN proc : Settled(q)' => Settled(q)
  BY <1>0 DEF Settled, processExists
<1>3. CASE processExists(stgId2ProcGroup[s])
  <2> DEFINE r == [pc |-> "kill", stg |-> s, pid |-> stgId2ProcGroup[s]]
  <2>1. stgId2ProcGroup' = stgId2ProcGroup /\ req' = [req EXCEPT ![w] = r]
    BY <1>3 DEF checkIfStgNotStarted
  <2>2. stgId2ProcGroup[s] \in DOMAIN proc
    BY <1>3 DEF processExists, ProcTypeOK
  <2>3. r.pc = "kill" /\ r.stg = s /\ r.pid = stgId2ProcGroup[s]
    OBVIOUS
  <2>4. ProcTypeOK'
    BY <1>0, <2>1, <2>2 DEF ProcTypeOK
  <2> HIDE DEF r
  <2>5. \A v \in Worker : req'[v] = IF v = w THEN r ELSE req[v]
    BY <2>1 DEF ProcTypeOK
  <2>6. RequestsTyped' /\ EntriesTrue'
    BY <1>0, <2>1, <2>3, <2>5 DEF RequestsTyped, EntriesTrue
  <2>7. OneRequest' /\ EntryOfRequest'
    BY <1>0, <1>1, <2>1, <2>3, <2>5 DEF RequestsTyped, OneRequest, EntryOfRequest
  <2>8. EngineOfRequest'
    <3> SUFFICES ASSUME NEW q \in DOMAIN proc, NEW v \in Worker, Settled(q)', req'[v].stg = proc[q].stg
                 PROVE  req'[v].pc \in {"emplace", "kill", "wait"} /\ req'[v].pid = q
      BY <1>0 DEF EngineOfRequest
    <3>1. CASE v = w
      <4>1. proc[q].stg = s /\ s \notin unsettled'
        BY <1>0, <2>3, <2>5, <3>1 DEF Settled
      <4> QED BY <1>1, <1>2, <2>3, <2>5, <3>1, <4>1 DEF EngineOfEntry
    <3>2. CASE v # w
      BY <1>2, <2>5, <3>2 DEF EngineOfRequest
    <3> QED BY <3>1, <3>2
  <2>9. EngineOfEntry'
    BY <1>0, <1>2, <2>1, <2>3, <2>5 DEF EngineOfEntry, ProcTypeOK
  <2> QED BY <2>4, <2>6, <2>7, <2>8, <2>9
<1>4. CASE ~processExists(stgId2ProcGroup[s])
  <2>1. stgId2ProcGroup' = [stgId2ProcGroup EXCEPT ![s] = NoPid] /\ req' = req
    BY <1>4 DEF checkIfStgNotStarted
  <2>2. \A x \in Stg : stgId2ProcGroup'[x] = IF x = s THEN NoPid ELSE stgId2ProcGroup[x]
    BY <2>1 DEF ProcTypeOK
  <2>3. ProcTypeOK' /\ RequestsTyped' /\ EntriesTrue'
    BY <1>0, <2>1, <2>2 DEF ProcTypeOK, RequestsTyped, EntriesTrue
  <2>4. OneRequest' /\ EntryOfRequest'
    BY <1>0, <1>1, <2>1, <2>2 DEF OneRequest, EntryOfRequest
  <2>5. EngineOfRequest'
    BY <1>0, <1>2, <2>1 DEF EngineOfRequest
  <2>6. EngineOfEntry'
    <3> SUFFICES ASSUME NEW q \in DOMAIN proc, Settled(q)'
                 PROVE stgId2ProcGroup'[proc[q].stg] = q \/ \E v \in Worker : req[v].stg = proc[q].stg
      BY <1>0, <2>1 DEF EngineOfEntry
    <3>1. Settled(q) /\ processExists(q) /\ proc[q].stg \in Stg
      BY <1>2 DEF Settled, ProcTypeOK
    <3> QED BY <1>0, <1>4, <2>2, <3>1 DEF EngineOfEntry
  <2> QED BY <2>3, <2>4, <2>5, <2>6
<1> QED BY <1>3, <1>4

LEMMA KillInv ==
  ASSUME ProcInv, NEW w \in Worker, Kill(w)
  PROVE  ProcInv'
<1> USE DEF ProcInv
<1>0. /\ NoPid \notin DOMAIN proc /\ NoStg \notin Stg /\ req[w].pc = "kill" /\ req[w].stg \in Stg
      /\ unsettled' = unsettled /\ stgId2ProcGroup' = stgId2ProcGroup
  BY PidsAreNumbers, NoneOfStg DEF Kill, RequestsTyped
<1> DEFINE r == [req[w] EXCEPT !.pc = "wait"]
<1>1. req' = [req EXCEPT ![w] = r] /\ r.pc = "wait" /\ r.stg = req[w].stg /\ r.pid = req[w].pid
  BY DEF Kill, ProcTypeOK
<1>2. ProcTypeOK'
  BY <1>0 DEF Kill, processExists, ProcTypeOK
<1> HIDE DEF r
<1>3. \A v \in Worker : req'[v] = IF v = w THEN r ELSE req[v]
  BY <1>1 DEF ProcTypeOK
<1>4. /\ DOMAIN proc' = DOMAIN proc
      /\ \A q \in DOMAIN proc : proc'[q].stg = proc[q].stg /\ (proc'[q].st = "gone" <=> proc[q].st = "gone")
  BY <1>0 DEF Kill, processExists, ProcTypeOK
<1>5. RequestsTyped' /\ EntriesTrue' /\ OneRequest' /\ EntryOfRequest'
  BY <1>0, <1>1, <1>3, <1>4 DEF RequestsTyped, EntriesTrue, OneRequest, EntryOfRequest, ProcTypeOK
<1>6. \A q \in DOMAIN proc : Settled(q)' <=> Settled(q)
  BY <1>0, <1>4 DEF Settled, processExists
<1>7. EngineOfRequest' /\ EngineOfEntry'
  BY <1>0, <1>1, <1>3, <1>4, <1>6 DEF EngineOfRequest, EngineOfEntry
<1> QED BY <1>2, <1>5, <1>7

LEMMA WaitForInv ==
  ASSUME ProcInv, NEW w \in Worker, WaitFor(w)
  PROVE  ProcInv'
<1> USE DEF ProcInv
<1>0. /\ NoPid \notin DOMAIN proc /\ NoStg \notin Stg /\ req[w].pc = "wait" /\ req[w].stg \in Stg
      /\ proc' = proc /\ stgId2ProcGroup' = stgId2ProcGroup /\ unsettled \subseteq unsettled'
      /\ req[w].stg \notin unsettled' => ~processExists(req[w].pid)
  BY PidsAreNumbers, NoneOfStg DEF WaitFor, RequestsTyped
<1> DEFINE r == [req[w] EXCEPT !.pc = "erase"]
<1>1. req' = [req EXCEPT ![w] = r] /\ r.pc = "erase" /\ r.stg = req[w].stg
  BY DEF WaitFor, ProcTypeOK
<1>2. ProcTypeOK'
  BY <1>0 DEF WaitFor, ProcTypeOK
<1> HIDE DEF r
<1>3. \A v \in Worker : req'[v] = IF v = w THEN r ELSE req[v]
  BY <1>1 DEF ProcTypeOK
<1>4. RequestsTyped' /\ EntriesTrue' /\ OneRequest' /\ EntryOfRequest'
  BY <1>0, <1>1, <1>3 DEF RequestsTyped, EntriesTrue, OneRequest, EntryOfRequest
<1>5. \A q \in DOMAIN proc : Settled(q)' => Settled(q) /\ processExists(q)
  BY <1>0 DEF Settled, processExists
<1>6. EngineOfRequest'
  <2> SUFFICES ASSUME NEW q \in DOMAIN proc, NEW v \in Worker, Settled(q)', req'[v].stg = proc[q].stg
               PROVE  req'[v].pc \in {"emplace", "kill", "wait"} /\ req'[v].pid = q
    BY <1>0 DEF EngineOfRequest
  <2>1. v # w
    <3> SUFFICES ASSUME v = w PROVE FALSE
      OBVIOUS
    <3>1. req[w].stg = proc[q].stg /\ req[w].stg \notin unsettled'
      BY <1>0, <1>1, <1>3 DEF Settled
    <3> QED BY <1>0, <1>5, <3>1 DEF EngineOfRequest
  <2> QED BY <1>3, <1>5, <2>1 DEF EngineOfRequest
<1>7. EngineOfEntry'
  BY <1>0, <1>1, <1>3, <1>5 DEF EngineOfEntry
<1> QED BY <1>2, <1>4, <1>6, <1>7

LEMMA EraseInv ==
  ASSUME ProcInv, NEW w \in Worker, Erase(w)
  PROVE  ProcInv'
<1> USE DEF ProcInv
<1> DEFINE s == req[w].stg
<1>0. /\ NoPid \notin DOMAIN proc /\ NoStg \notin Stg /\ req[w].pc = "erase" /\ s \in Stg
      /\ proc' = proc /\ unsettled' = unsettled /\ req' = [req EXCEPT ![w] = Idle]
  BY PidsAreNumbers, NoneOfStg DEF Erase, RequestsTyped
<1>1. Idle.pc = "idle" /\ Idle.stg = NoStg /\ Idle.pid = NoPid
  BY DEF Idle
<1>2. \A v \in Worker : req'[v] = IF v = w THEN Idle ELSE req[v]
  BY <1>0 DEF ProcTypeOK
<1>3. \A x \in Stg : stgId2ProcGroup'[x] = IF x = s THEN NoPid ELSE stgId2ProcGroup[x]
  BY <1>0 DEF Erase, ProcTypeOK
<1>4. ProcTypeOK'
  BY <1>0 DEF Erase, ProcTypeOK, Idle
<1>5. \A v \in Worker : req[v].stg = s /\ s \notin unsettled => v = w
  BY <1>0 DEF OneRequest
<1>6. RequestsTyped' /\ EntriesTrue'
  BY <1>0, <1>1, <1>2, <1>3 DEF RequestsTyped, EntriesTrue
<1>7. OneRequest' /\ EntryOfRequest'
  BY <1>0, <1>1, <1>2, <1>3, <1>5 DEF OneRequest, EntryOfRequest, RequestsTyped
<1>8. \A q \in DOMAIN proc : (Settled(q)' <=> Settled(q)) /\ proc[q].stg \in Stg
  BY <1>0 DEF Settled, processExists, ProcTypeOK
<1>9. \A q \in DOMAIN proc : Settled(q) => proc[q].stg # s
  BY <1>0 DEF EngineOfRequest
<1>10. EngineOfRequest'
  BY <1>0, <1>1, <1>2, <1>8 DEF EngineOfRequest
<1>11. EngineOfEntry'
  BY <1>0, <1>2, <1>3, <1>8, <1>9 DEF EngineOfEntry
<1> QED BY <1>4, <1>6, <1>7, <1>10, <1>11

LEMMA ProcEndsInv ==
  ASSUME ProcInv, NEW p \in DOMAIN proc, ProcEnds(p)
  PROVE  ProcInv'
<1> USE DEF ProcInv
<1>1. stgId2ProcGroup' = stgId2ProcGroup /\ req' = req /\ unsettled' = unsettled /\ NoPid \notin DOMAIN proc
  BY PidsAreNumbers DEF ProcEnds
<1>2. /\ DOMAIN proc' = DOMAIN proc
      /\ \A q \in DOMAIN proc : proc'[q].stg = proc[q].stg /\ (proc[q].st = "gone" => proc'[q].st = "gone")
  BY DEF ProcEnds, ProcTypeOK
<1>3. ProcTypeOK'
  BY <1>1 DEF ProcEnds, ProcTypeOK
<1>4. RequestsTyped' /\ EntriesTrue' /\ OneRequest' /\ EntryOfRequest'
  BY <1>1, <1>2 DEF RequestsTyped, EntriesTrue, OneRequest, EntryOfRequest, ProcTypeOK
<1>5. \A q \in DOMAIN proc : Settled(q)' => Settled(q)
  BY <1>1, <1>2 DEF Settled, processExists
<1>6. EngineOfRequest' /\ EngineOfEntry'
  BY <1>1, <1>2, <1>5 DEF EngineOfRequest, EngineOfEntry
<1> QED BY <1>3, <1>4, <1>6

LEMMA WebSrvRestartsInv ==
  ASSUME ProcInv, WebSrvRestarts
  PROVE  ProcInv'
<1> USE DEF ProcInv
<1>1. /\ proc' = proc /\ stgId2ProcGroup' = [s \in Stg |-> NoPid] /\ req' = [w \in Worker |-> Idle]
      /\ unsettled' = unsettled \cup {proc[p].stg : p \in {q \in DOMAIN proc : processExists(q)}}
      /\ Idle.pc = "idle" /\ Idle.stg = NoStg /\ Idle.pid = NoPid /\ NoStg \notin Stg
  BY NoneOfStg DEF WebSrvRestarts, Idle
<1>2. ProcTypeOK'
  BY <1>1 DEF ProcTypeOK, Idle
<1>3. RequestsTyped' /\ EntriesTrue' /\ OneRequest' /\ EntryOfRequest'
  BY <1>1 DEF RequestsTyped, EntriesTrue, OneRequest, EntryOfRequest
<1>4. \A q \in DOMAIN proc : ~Settled(q)'
  BY <1>1 DEF Settled, processExists
<1> QED BY <1>1, <1>2, <1>3, <1>4 DEF EngineOfRequest, EngineOfEntry

LEMMA ProcNextInv == ProcInv /\ ProcNext => ProcInv'
BY StartRequestInv, StopRequestInv, SpawnInv, EmplaceInv, KillInv, WaitForInv, EraseInv, ProcEndsInv,
   WebSrvRestartsInv DEF ProcNext

LEMMA ProcUnchangedInv == ProcInv /\ UNCHANGED procVars => ProcInv'
BY DEF ProcInv, procVars, ProcTypeOK, RequestsTyped, EntriesTrue, OneRequest, EntryOfRequest,
   EngineOfRequest, EngineOfEntry, Settled, processExists

\* A set all members of which are the same has one at most.
LEMMA OneAtMost ==
  ASSUME NEW S, \A x, y \in S : x = y
  PROVE  Cardinality(S) <= 1
<1>1. CASE S = {}
  BY <1>1, FS_EmptySet
<1>2. CASE S # {}
  <2>1. PICK x \in S : S = {x}
    BY <1>2
  <2> QED BY <2>1, FS_Singleton
<1> QED BY <1>1, <1>2

LEMMA ProcInvOneEngine == ProcInv => OneEngine
<1> SUFFICES ASSUME ProcInv, NEW s \in Stg \ unsettled
             PROVE  /\ Cardinality(ProcOf(s)) <= 1
                    /\ \A p \in ProcOf(s) : stgId2ProcGroup[s] = p \/ \E w \in Worker : req[w].pid = p
  BY DEF OneEngine
<1>1. \A p \in ProcOf(s) : p \in DOMAIN proc /\ Settled(p) /\ proc[p].stg = s
  BY DEF ProcOf, Settled
<1>2. \A p, q \in ProcOf(s) : p = q
  BY <1>1 DEF ProcInv, EngineOfRequest, EngineOfEntry
<1>3. Cardinality(ProcOf(s)) <= 1
  BY <1>2, OneAtMost
<1>4. \A p \in ProcOf(s) : stgId2ProcGroup[s] = p \/ \E w \in Worker : req[w].pid = p
  BY <1>1 DEF ProcInv, EngineOfRequest, EngineOfEntry
<1> QED BY <1>3, <1>4

\* A strategy whose requests came one after another has one engine at most, and the manager
\* knows it or is about to (StgMgr: startStg and stopStg take the lock of the map three times
\* and hold it for none of the waits).
THEOREM EngineIsOne == Spec => []OneEngine
<1>1. Init => ProcInv
  BY ProcInitInv DEF Init
<1>2. ProcInv /\ [Next]_vars => ProcInv'
  BY ProcStepOrNot, ProcNextInv, ProcUnchangedInv DEF vars, procVars
<1>3. ProcInv => OneEngine
  BY ProcInvOneEngine
<1> QED BY <1>1, <1>2, <1>3, PTL DEF Spec

-----------------------------------------------------------------------------
UserTypeOK ==
  /\ wsConn \in [WSConn -> {"new", "open", "closing", "closed"}]
  /\ userId2WSConnGroup \in [User -> WSConn \cup {NoConn}]
  /\ closedUser \in [WSConn -> User \cup {NoUser}]
  /\ asked \in [User -> SUBSET Topic]
  /\ half \in [WSConn -> {NoHalf} \cup ({"add", "remove"} \X User \X Topic)]

\* A request is of the user of its connection, which stays open until it has been handled.
HalvesAreUsers ==
  \A c \in WSConn : half[c] # NoHalf => half[c][2] = UserOf[c] /\ wsConn[c] = "open"

\* A user is registered with an open connection of its own; one that is not closed has ended
\* nobody's registration.
RegisteredIsOpen ==
  \A u \in User, c \in WSConn : userId2WSConnGroup[u] = c => UserOf[c] = u /\ wsConn[c] = "open"
ClosesItsUser ==
  \A c \in WSConn : /\ closedUser[c] \in {NoUser, UserOf[c]}
                    /\ wsConn[c] \in {"new", "open"} => closedUser[c] = NoUser

\* An undisturbed user has requests on the connection it is registered with, one after the
\* other, and none while a connection of its is being closed.
Closing(u) == \E c \in WSConn : wsConn[c] = "closing" /\ closedUser[c] = u
OneAtATime ==
  \A u \in User \ disturbed :
    /\ Closing(u) => userId2WSConnGroup[u] = NoConn
    /\ \A c \in WSConn : half[c] # NoHalf /\ UserOf[c] = u => userId2WSConnGroup[u] = c
    /\ userId2WSConnGroup[u] = NoConn => asked[u] = {}

\* What it asked for is what SubMgr has, but for what a closed connection leaves to be dropped,
\* and what TopicMgr has, but for the half of a request that is left to do.
SubsAreAsked ==
  \A u \in User \ disturbed : Closing(u) \/ \A t \in Topic : <<u, t>> \in subMgr <=> t \in asked[u]
Adds(u, t) == \E c \in WSConn : half[c] = <<"add", u, t>>
TopicsAreAsked ==
  \A u \in User \ disturbed, t \in Topic :
    /\ t \in asked[u] => <<u, t>> \in topicMgr \/ Adds(u, t)
    /\ \A c \in WSConn : half[c] = <<"remove", u, t>> => t \notin asked[u]

UserInv ==
  /\ UserTypeOK /\ HalvesAreUsers /\ RegisteredIsOpen /\ ClosesItsUser
  /\ OneAtATime /\ SubsAreAsked /\ TopicsAreAsked

LEMMA UserStepOrNot == Next => UserNext \/ UNCHANGED userVars
BY DEF Next, ProcStep, UserStep, SqlStep, TimerStep, DispatcherStep, CallbackStep, RequestStep,
       OtherVars

LEMMA UserInitInv == UserInit => UserInv
BY NoneOfUsers DEF UserInit, UserInv, UserTypeOK, HalvesAreUsers, RegisteredIsOpen, ClosesItsUser,
   Closing, OneAtATime, SubsAreAsked, Adds, TopicsAreAsked

LEMMA UserUnchangedInv == UserInv /\ UNCHANGED userVars => UserInv'
<1> SUFFICES ASSUME UserInv, UNCHANGED userVars PROVE UserInv'
  OBVIOUS
<1> USE DEF userVars
<1>1. UserTypeOK'
  BY DEF UserInv, UserTypeOK
<1>2. HalvesAreUsers' /\ RegisteredIsOpen' /\ ClosesItsUser'
  BY DEF UserInv, HalvesAreUsers, RegisteredIsOpen, ClosesItsUser
<1>3. OneAtATime' /\ SubsAreAsked'
  BY DEF UserInv, Closing, OneAtATime, SubsAreAsked
<1>4. TopicsAreAsked'
  BY DEF UserInv, Adds, TopicsAreAsked
<1> QED BY <1>1, <1>2, <1>3, <1>4 DEF UserInv

\* A half of a request is the kind of it, the user and the topic.
LEMMA HalvesApart ==
  /\ \A k, u, t : <<k, u, t>> # NoHalf /\ <<k, u, t>>[1] = k /\ <<k, u, t>>[2] = u /\ <<k, u, t>>[3] = t
  /\ UserTypeOK => \A c \in WSConn : half[c] = NoHalf \/ \E k \in {"add", "remove"}, u \in User, t \in Topic :
                                                            half[c] = <<k, u, t>>
BY DEF NoHalf, UserTypeOK

LEMMA NewConnectionInv ==
  ASSUME UserInv, NEW c \in WSConn, handleNewConnection(c)
  PROVE  UserInv'
<1> USE DEF UserInv
<1>1. /\ userId2WSConnGroup' = userId2WSConnGroup /\ closedUser' = closedUser /\ subMgr' = subMgr
      /\ topicMgr' = topicMgr /\ half' = half /\ asked' = asked /\ disturbed' = disturbed
      /\ wsConn[c] = "new" /\ UserTypeOK'
      /\ \A d \in WSConn : wsConn'[d] = IF d = c THEN "open" ELSE wsConn[d]
  BY DEF handleNewConnection, UserTypeOK
<1>2. HalvesAreUsers' /\ RegisteredIsOpen' /\ ClosesItsUser'
  BY <1>1 DEF HalvesAreUsers, RegisteredIsOpen, ClosesItsUser
<1>3. \A u \in User : Closing(u)' <=> Closing(u)
  BY <1>1 DEF Closing
<1>4. OneAtATime' /\ SubsAreAsked'
  BY <1>1, <1>3 DEF OneAtATime, SubsAreAsked
<1>5. TopicsAreAsked'
  BY <1>1 DEF TopicsAreAsked, Adds
<1> QED BY <1>1, <1>2, <1>4, <1>5

LEMMA RegisterInv ==
  ASSUME UserInv, NEW c \in WSConn, handleMsgRegister(c)
  PROVE  UserInv'
<1> USE DEF UserInv
<1> DEFINE u == UserOf[c]
<1>1. /\ wsConn' = wsConn /\ closedUser' = closedUser /\ subMgr' = subMgr
      /\ topicMgr' = topicMgr /\ half' = half /\ asked' = asked
      /\ wsConn[c] = "open" /\ half[c] = NoHalf /\ u \in User /\ UserTypeOK'
      /\ \A v \in User : userId2WSConnGroup'[v] = IF v = u THEN c ELSE userId2WSConnGroup[v]
  BY NoneOfUsers DEF handleMsgRegister, UserTypeOK, Serves
<1>2. disturbed \subseteq disturbed' /\ (u \notin disturbed' => ~Overlapped(u, c))
  BY DEF handleMsgRegister
<1>3. HalvesAreUsers' /\ RegisteredIsOpen' /\ ClosesItsUser'
  BY <1>1 DEF HalvesAreUsers, RegisteredIsOpen, ClosesItsUser
<1>4. \A v \in User : Closing(v)' <=> Closing(v)
  BY <1>1 DEF Closing
<1>5. u \notin disturbed' => ~Closing(u) /\ \A d \in WSConn : half[d] # NoHalf => UserOf[d] # u
  BY <1>1, <1>2 DEF Overlapped, Closing
<1>6. c # NoConn
  BY NoneOfUsers
<1>7. OneAtATime'
  BY <1>1, <1>2, <1>4, <1>5, <1>6 DEF OneAtATime
<1>8. SubsAreAsked' /\ TopicsAreAsked'
  BY <1>1, <1>2, <1>4 DEF SubsAreAsked, TopicsAreAsked, Adds
<1> QED BY <1>1, <1>3, <1>7, <1>8

\* An undisturbed user that asks is registered with the connection it asks on, and nothing
\* else of its is under way.
LEMMA AsksAlone ==
  ASSUME UserInv, NEW c \in WSConn, Serves(c), Disturb(UserOf[c], c), UserOf[c] \notin disturbed'
  PROVE  /\ userId2WSConnGroup[UserOf[c]] = c /\ ~Closing(UserOf[c])
         /\ \A d \in WSConn : half[d] # NoHalf => UserOf[d] # UserOf[c]
BY DEF UserInv, Disturb, Overlapped, Closing, Serves

LEMMA SubInv ==
  ASSUME UserInv, NEW c \in WSConn, NEW t \in Topic, handleMsgSub(c, t)
  PROVE  UserInv'
<1> USE DEF UserInv
<1> DEFINE u == UserOf[c]
           h == <<"add", u, t>>
<1>1. /\ wsConn' = wsConn /\ userId2WSConnGroup' = userId2WSConnGroup /\ closedUser' = closedUser
      /\ topicMgr' = topicMgr /\ subMgr' = subMgr \cup {<<u, t>>}
      /\ wsConn[c] = "open" /\ half[c] = NoHalf /\ u \in User /\ disturbed \subseteq disturbed'
  BY NoneOfUsers DEF handleMsgSub, Serves, Disturb
<1>2. UserTypeOK'
  BY <1>1 DEF UserTypeOK, handleMsgSub
<1>3. \A d \in WSConn : half'[d] = IF d = c THEN h ELSE half[d]
  BY DEF handleMsgSub, UserTypeOK
<1>4. \A v \in User : asked'[v] = IF v = u THEN asked[u] \cup {t} ELSE asked[v]
  BY DEF handleMsgSub, UserTypeOK
<1>5. h # NoHalf /\ h[2] = u /\ h # <<"remove", u, t>>
  BY HalvesApart
<1>6. \A v, s : (h = <<"add", v, s>> <=> v = u /\ s = t) /\ h # <<"remove", v, s>>
  BY HalvesApart
<1> HIDE DEF h
<1>7. HalvesAreUsers' /\ RegisteredIsOpen' /\ ClosesItsUser'
  BY <1>1, <1>3, <1>5 DEF HalvesAreUsers, RegisteredIsOpen, ClosesItsUser
<1>8. u \notin disturbed' => /\ userId2WSConnGroup[u] = c /\ ~Closing(u)
                             /\ \A d \in WSConn : half[d] # NoHalf => UserOf[d] # u
  BY AsksAlone DEF handleMsgSub
<1>9. \A v \in User : Closing(v)' <=> Closing(v)
  BY <1>1 DEF Closing
<1>10. OneAtATime'
  BY <1>1, <1>3, <1>4, <1>8, <1>9, NoneOfUsers DEF OneAtATime
<1>11. SubsAreAsked'
  BY <1>1, <1>4, <1>9 DEF SubsAreAsked
<1>12. TopicsAreAsked'
  <2> SUFFICES ASSUME NEW v \in User \ disturbed', NEW s \in Topic
               PROVE  /\ s \in asked'[v] => <<v, s>> \in topicMgr \/ Adds(v, s)'
                      /\ \A d \in WSConn : half'[d] = <<"remove", v, s>> => s \notin asked'[v]
    BY <1>1 DEF TopicsAreAsked
  <2>1. Adds(v, s) => Adds(v, s)'
    <3> SUFFICES ASSUME NEW d \in WSConn, half[d] = <<"add", v, s>> PROVE half'[d] = half[d]
      BY DEF Adds
    <3>1. half[d] # NoHalf
      BY HalvesApart
    <3> QED BY <1>1, <1>3, <3>1
  <2>2. v = u /\ s = t => Adds(v, s)'
    BY <1>3, <1>6 DEF Adds
  <2>3. \A d \in WSConn : half'[d] = <<"remove", v, s>> => s \notin asked'[v]
    <3> SUFFICES ASSUME NEW d \in WSConn, half'[d] = <<"remove", v, s>> PROVE s \notin asked'[v]
      OBVIOUS
    <3>1. half[d] = <<"remove", v, s>> /\ half[d] # NoHalf /\ half[d][2] = v
      BY <1>3, <1>6, HalvesApart
    <3>2. v # u
      BY <1>8, <3>1 DEF HalvesAreUsers
    <3> QED BY <1>1, <1>4, <3>1, <3>2 DEF TopicsAreAsked
  <2> QED BY <1>1, <1>4, <2>1, <2>2, <2>3 DEF TopicsAreAsked
<1> QED BY <1>2, <1>7, <1>10, <1>11, <1>12

LEMMA UnSubInv ==
  ASSUME UserInv, NEW c \in WSConn, NEW t \in Topic, handleMsgUnSub(c, t)
  PROVE  UserInv'
<1> USE DEF UserInv
<1> DEFINE u == UserOf[c]
           h == <<"remove", u, t>>
<1>1. /\ wsConn' = wsConn /\ userId2WSConnGroup' = userId2WSConnGroup /\ closedUser' = closedUser
      /\ topicMgr' = topicMgr /\ subMgr' = subMgr \ {<<u, t>>}
      /\ wsConn[c] = "open" /\ half[c] = NoHalf /\ u \in User /\ disturbed \subseteq disturbed'
  BY NoneOfUsers DEF handleMsgUnSub, Serves, Disturb
<1>2. UserTypeOK'
  BY <1>1 DEF UserTypeOK, handleMsgUnSub
<1>3. \A d \in WSConn : half'[d] = IF d = c THEN h ELSE half[d]
  BY DEF handleMsgUnSub, UserTypeOK
<1>4. \A v \in User : asked'[v] = IF v = u THEN asked[u] \ {t} ELSE asked[v]
  BY DEF handleMsgUnSub, UserTypeOK
<1>5. h # NoHalf /\ h[2] = u
  BY HalvesApart
<1>6. \A v, s : (h = <<"remove", v, s>> <=> v = u /\ s = t) /\ h # <<"add", v, s>>
  BY HalvesApart
<1> HIDE DEF h
<1>7. HalvesAreUsers' /\ RegisteredIsOpen' /\ ClosesItsUser'
  BY <1>1, <1>3, <1>5 DEF HalvesAreUsers, RegisteredIsOpen, ClosesItsUser
<1>8. u \notin disturbed' => /\ userId2WSConnGroup[u] = c /\ ~Closing(u)
                             /\ \A d \in WSConn : half[d] # NoHalf => UserOf[d] # u
  BY AsksAlone DEF handleMsgUnSub
<1>9. \A v \in User : Closing(v)' <=> Closing(v)
  BY <1>1 DEF Closing
<1>10. OneAtATime'
  BY <1>1, <1>3, <1>4, <1>8, <1>9, NoneOfUsers DEF OneAtATime
<1>11. SubsAreAsked'
  BY <1>1, <1>4, <1>9 DEF SubsAreAsked
<1>12. TopicsAreAsked'
  <2> SUFFICES ASSUME NEW v \in User \ disturbed', NEW s \in Topic
               PROVE  /\ s \in asked'[v] => <<v, s>> \in topicMgr \/ Adds(v, s)'
                      /\ \A d \in WSConn : half'[d] = <<"remove", v, s>> => s \notin asked'[v]
    BY <1>1 DEF TopicsAreAsked
  <2>1. Adds(v, s) => Adds(v, s)'
    <3> SUFFICES ASSUME NEW d \in WSConn, half[d] = <<"add", v, s>> PROVE half'[d] = half[d]
      BY DEF Adds
    <3>1. half[d] # NoHalf
      BY HalvesApart
    <3> QED BY <1>1, <1>3, <3>1
  <2>2. ASSUME NEW d \in WSConn, half'[d] = <<"remove", v, s>> PROVE s \notin asked'[v]
    <3>1. CASE d = c
      <4>1. v = u /\ s = t
        BY <1>3, <1>6, <2>2, <3>1
      <4> QED BY <1>4, <4>1
    <3>2. CASE d # c
      <4>1. half[d] = <<"remove", v, s>>
        BY <1>3, <2>2, <3>2
      <4>2. s \notin asked[v]
        BY <1>1, <4>1 DEF TopicsAreAsked
      <4> QED BY <1>4, <4>2
    <3> QED BY <3>1, <3>2
  <2> QED BY <1>1, <1>4, <2>1, <2>2 DEF TopicsAreAsked
<1> QED BY <1>2, <1>7, <1>10, <1>11, <1>12

LEMMA SecondHalfInv ==
  ASSUME UserInv, NEW c \in WSConn, SecondHalf(c)
  PROVE  UserInv'
<1> USE DEF UserInv
<1>1. /\ wsConn' = wsConn /\ userId2WSConnGroup' = userId2WSConnGroup /\ closedUser' = closedUser
      /\ subMgr' = subMgr /\ asked' = asked /\ disturbed' = disturbed /\ half[c] # NoHalf
      /\ half' = [half EXCEPT ![c] = NoHalf]
  BY DEF SecondHalf
<1>2. UserTypeOK' /\ \A d \in WSConn : half'[d] = IF d = c THEN NoHalf ELSE half[d]
  BY <1>1 DEF UserTypeOK
<1>3. PICK k \in {"add", "remove"}, u \in User, t \in Topic : half[c] = <<k, u, t>>
  BY <1>1, HalvesApart
<1>4. topicMgr' = IF k = "add" THEN topicMgr \cup {<<u, t>>} ELSE topicMgr \ {<<u, t>>}
  BY <1>3 DEF SecondHalf
<1>5. HalvesAreUsers' /\ RegisteredIsOpen' /\ ClosesItsUser'
  BY <1>1, <1>2 DEF HalvesAreUsers, RegisteredIsOpen, ClosesItsUser
<1>6. \A v \in User : Closing(v)' <=> Closing(v)
  BY <1>1 DEF Closing
<1>7. OneAtATime' /\ SubsAreAsked'
  BY <1>1, <1>2, <1>6 DEF OneAtATime, SubsAreAsked
<1>8. TopicsAreAsked'
  <2> SUFFICES ASSUME NEW v \in User \ disturbed, NEW s \in Topic
               PROVE  /\ s \in asked[v] => <<v, s>> \in topicMgr' \/ Adds(v, s)'
                      /\ \A d \in WSConn : half'[d] = <<"remove", v, s>> => s \notin asked[v]
    BY <1>1 DEF TopicsAreAsked
  <2>1. ASSUME NEW d \in WSConn, half'[d] = <<"remove", v, s>> PROVE s \notin asked[v]
    <3>1. half'[d] # NoHalf
      BY <2>1, HalvesApart
    <3>2. half[d] = <<"remove", v, s>>
      BY <1>2, <2>1, <3>1
    <3> QED BY <3>2 DEF TopicsAreAsked
  <2>2. CASE v = u /\ s = t
    <3>1. k = "remove" => s \notin asked[v]
      BY <1>3, <2>2 DEF TopicsAreAsked
    <3> QED BY <1>4, <2>1, <2>2, <3>1
  <2>3. CASE ~(v = u /\ s = t)
    <3>1. <<v, s>> # <<u, t>> /\ half[c] # <<"add", v, s>>
      BY <1>3, <2>3, HalvesApart
    <3>2. Adds(v, s) => Adds(v, s)'
      BY <1>2, <3>1 DEF Adds
    <3> QED BY <1>4, <2>1, <3>1, <3>2 DEF TopicsAreAsked
  <2> QED BY <2>2, <2>3
<1> QED BY <1>2, <1>5, <1>7, <1>8

LEMMA RemoveWSConnInv ==
  ASSUME UserInv, NEW c \in WSConn, removeWSConn(c)
  PROVE  UserInv'
<1> USE DEF UserInv
<1>1. /\ subMgr' = subMgr /\ topicMgr' = topicMgr /\ half' = half /\ disturbed' = disturbed
      /\ wsConn[c] = "open" /\ half[c] = NoHalf /\ closedUser[c] = NoUser
      /\ wsConn' = [wsConn EXCEPT ![c] = "closing"]
  BY DEF removeWSConn, Serves, ClosesItsUser
<1>2. \A d \in WSConn : wsConn'[d] = IF d = c THEN "closing" ELSE wsConn[d]
  BY <1>1 DEF UserTypeOK
<1>3. CASE UNCHANGED <<userId2WSConnGroup, closedUser, asked>> /\ \A u \in User : userId2WSConnGroup[u] # c
  <2>1. UserTypeOK'
    BY <1>1, <1>3 DEF UserTypeOK
  <2>2. HalvesAreUsers' /\ RegisteredIsOpen' /\ ClosesItsUser'
    BY <1>1, <1>2, <1>3 DEF HalvesAreUsers, RegisteredIsOpen, ClosesItsUser
  <2>3. \A u \in User : Closing(u)' <=> Closing(u)
    BY <1>1, <1>2, <1>3, NoneOfUsers DEF Closing
  <2>4. OneAtATime' /\ SubsAreAsked' /\ TopicsAreAsked'
    BY <1>1, <1>3, <2>3 DEF OneAtATime, SubsAreAsked, TopicsAreAsked, Adds
  <2> QED BY <2>1, <2>2, <2>4
<1>4. CASE \E u \in User : /\ userId2WSConnGroup[u] = c
                           /\ userId2WSConnGroup' = [userId2WSConnGroup EXCEPT ![u] = NoConn]
                           /\ closedUser' = [closedUser EXCEPT ![c] = u]
                           /\ asked' = [asked EXCEPT ![u] = {}]
  <2>1. PICK u \in User : /\ userId2WSConnGroup[u] = c
                          /\ userId2WSConnGroup' = [userId2WSConnGroup EXCEPT ![u] = NoConn]
                          /\ closedUser' = [closedUser EXCEPT ![c] = u]
                          /\ asked' = [asked EXCEPT ![u] = {}]
    BY <1>4
  <2>2. UserTypeOK'
    BY <1>1, <2>1 DEF UserTypeOK
  <2>3. /\ \A v \in User : userId2WSConnGroup'[v] = IF v = u THEN NoConn ELSE userId2WSConnGroup[v]
        /\ \A d \in WSConn : closedUser'[d] = IF d = c THEN u ELSE closedUser[d]
        /\ \A v \in User : asked'[v] = IF v = u THEN {} ELSE asked[v]
        /\ UserOf[c] = u
    BY <2>1 DEF UserTypeOK, RegisteredIsOpen
  <2>4. HalvesAreUsers' /\ RegisteredIsOpen' /\ ClosesItsUser'
    BY <1>1, <1>2, <2>3, NoneOfUsers DEF HalvesAreUsers, RegisteredIsOpen, ClosesItsUser
  <2>5. Closing(u)' /\ \A v \in User : v # u => (Closing(v)' <=> Closing(v))
    BY <1>1, <1>2, <2>3, NoneOfUsers DEF Closing
  <2>6. u \notin disturbed => \A d \in WSConn : half[d] # NoHalf => UserOf[d] # u
    BY <1>1, <2>1 DEF OneAtATime
  <2>7. OneAtATime'
    BY <1>1, <2>3, <2>5, <2>6 DEF OneAtATime
  <2>8. SubsAreAsked'
    BY <1>1, <2>3, <2>5 DEF SubsAreAsked
  <2>9. TopicsAreAsked'
    BY <1>1, <2>3 DEF TopicsAreAsked, Adds
  <2> QED BY <2>2, <2>4, <2>7, <2>8, <2>9
<1> QED BY <1>3, <1>4 DEF removeWSConn

LEMMA UnSubAllTopicInv ==
  ASSUME UserInv, NEW c \in WSConn, unSubAllTopic(c)
  PROVE  UserInv'
<1> USE DEF UserInv
<1> DEFINE u == closedUser[c]
<1>1. /\ userId2WSConnGroup' = userId2WSConnGroup /\ closedUser' = closedUser /\ topicMgr' = topicMgr
      /\ half' = half /\ asked' = asked /\ disturbed \subseteq disturbed' /\ wsConn[c] = "closing"
      /\ UserTypeOK'
      /\ \A d \in WSConn : wsConn'[d] = IF d = c THEN "closed" ELSE wsConn[d]
  BY DEF unSubAllTopic, UserTypeOK
<1>2. \A v \in User, t \in Topic : <<v, t>> \in subMgr' <=> <<v, t>> \in subMgr /\ v # u
  BY DEF unSubAllTopic
<1>3. HalvesAreUsers' /\ RegisteredIsOpen' /\ ClosesItsUser'
  BY <1>1 DEF HalvesAreUsers, RegisteredIsOpen, ClosesItsUser
<1>4. \A v \in User : Closing(v)' => Closing(v)
  BY <1>1 DEF Closing
<1>5. \A v \in User : v # u /\ Closing(v) => Closing(v)'
  BY <1>1 DEF Closing
<1>6. OneAtATime' /\ TopicsAreAsked'
  BY <1>1, <1>4 DEF OneAtATime, TopicsAreAsked, Adds
<1>7. SubsAreAsked'
  <2> SUFFICES ASSUME NEW v \in User \ disturbed', ~Closing(v)', NEW t \in Topic
               PROVE  <<v, t>> \in subMgr' <=> t \in asked[v]
    BY <1>1 DEF SubsAreAsked
  <2>1. CASE v = u
    <3>1. Closing(v)
      BY <1>1, <2>1 DEF Closing
    <3> QED BY <1>1, <1>2, <2>1, <3>1 DEF OneAtATime
  <2>2. CASE v # u
    BY <1>1, <1>2, <1>5, <2>2 DEF SubsAreAsked
  <2> QED BY <2>1, <2>2
<1> QED BY <1>1, <1>3, <1>6, <1>7

LEMMA UserNextInv == UserInv /\ UserNext => UserInv'
BY NewConnectionInv, RegisterInv, SubInv, UnSubInv, SecondHalfInv, RemoveWSConnInv, UnSubAllTopicInv
   DEF UserNext

LEMMA UserInvFollows == UserInv => TopicsFollowUsers
<1> SUFFICES ASSUME UserInv, NEW u \in User \ disturbed,
                    \A c \in WSConn : half[c] = NoHalf /\ (wsConn[c] = "closing" => closedUser[c] # u)
             PROVE  /\ {t \in Topic : <<u, t>> \in subMgr} = asked[u]
                    /\ \A t \in asked[u] : userId2WSConnGroup[u] \in pushMarketData(t) /\ <<u, t>> \in topicMgr
  BY DEF TopicsFollowUsers
<1>1. ~Closing(u) /\ asked[u] \subseteq Topic
  BY DEF Closing, UserInv, UserTypeOK
<1>2. {t \in Topic : <<u, t>> \in subMgr} = asked[u]
  BY <1>1 DEF UserInv, SubsAreAsked
<1>3. ASSUME NEW t \in asked[u]
      PROVE  userId2WSConnGroup[u] \in pushMarketData(t) /\ <<u, t>> \in topicMgr
  <2>1. userId2WSConnGroup[u] # NoConn /\ <<u, t>> \in subMgr
    BY <1>2 DEF UserInv, OneAtATime
  <2>2. ~Adds(u, t)
    BY HalvesApart DEF Adds
  <2>3. <<u, t>> \in topicMgr
    BY <1>1, <2>2 DEF UserInv, TopicsAreAsked
  <2> QED BY <2>1, <2>3 DEF pushMarketData
<1> QED BY <1>2, <1>3

\* A user that asks on one connection at a time is pushed what it asked for, on the connection
\* it is registered with, and nothing once that is closed (WebSrv: WSSrv, SubMgr and TopicMgr
\* each have a lock of their own, and a request takes one after the other).
THEOREM PushedIsAsked == Spec => []TopicsFollowUsers
<1>1. Init => UserInv
  BY UserInitInv DEF Init
<1>2. UserInv /\ [Next]_vars => UserInv'
  BY UserStepOrNot, UserNextInv, UserUnchangedInv DEF vars, userVars
<1>3. UserInv => TopicsFollowUsers
  BY UserInvFollows
<1> QED BY <1>1, <1>2, <1>3, PTL DEF Spec

-----------------------------------------------------------------------------
TimerTypeOK ==
  /\ sec \in Nat /\ prevExecTaskBunndleOfTimer \in Nat \cup {NoTime}
  /\ fired \in [Fixed -> [0 .. MaxSec -> Nat]]
  /\ since \in [Fixed -> Nat \cup {NoTime}]
  /\ missed \in [Fixed -> SUBSET Int]
  /\ lateFired \in [Periodic -> Nat]
  /\ op \in [StgThread -> {NoOp} \cup [kind : {"install"}, timer : Periodic]
                                \cup [kind : {"uninstall"}, timer : Fixed \cup Periodic]]

\* A timer of a fixed time that is installed, or that a round looks for, has a time of its
\* installation.
InstalledOnce ==
  /\ taskOfFixedTimeGroup \subseteq Fixed
  /\ \A t \in taskOfFixedTimeGroup : since[t] # NoTime
  /\ round.pc = "scan" => \A t \in round.fixed \cap Fixed : since[t] # NoTime

\* What was looked for and is not over is a second the clock was set back from; what was not
\* looked for has fired nothing, and what was looked for has fired each timer that was there.
Looked(s) == prevExecTaskBunndleOfTimer # NoTime /\ s < prevExecTaskBunndleOfTimer
LookedIsOver == \A s \in 0 .. MaxSec : Looked(s) /\ sec < s => s \in repeated
FiredOnce ==
  \A t \in Fixed, s \in (0 .. MaxSec) \ repeated :
    /\ ~Looked(s) => fired[t][s] = 0
    /\ since[t] # NoTime /\ since[t] < s /\ Looked(s) /\ s \in Pattern[t] \ missed[t] => fired[t][s] = 1

\* As long as no two threads wrote the vector at once: a timer of an interval that is in the
\* vector or that the round is still to execute has not been fired late, any other once at most.
InRound == IF round.pc \in {"clone", "scan", "exec"} THEN round.clone ELSE {}
LateOnce ==
  raced \/ \A t \in Periodic : /\ lateFired[t] <= 1
                               /\ t \in scheduleTaskBundleOfTimer \cup InRound => lateFired[t] = 0

TimerInv == TimerTypeOK /\ InstalledOnce /\ LookedIsOver /\ FiredOnce /\ LateOnce

LEMMA TimerStepOrNot == Next => TimerNext \/ UNCHANGED timerVars
BY DEF Next, ProcStep, UserStep, SqlStep, TimerStep, DispatcherStep, CallbackStep, RequestStep,
       OtherVars

LEMMA TimerInitInv == TimerInit => TimerInv
BY TimersApart DEF TimerInit, TimerInv, TimerTypeOK, InstalledOnce, Looked, LookedIsOver, FiredOnce, LateOnce,
   InRound, Resting, NoOp

\* The timers of a fixed time are left alone by what is about those of an interval, and the
\* other way round.
FixedVars == <<sec, prevExecTaskBunndleOfTimer, taskOfFixedTimeGroup, fired, since, missed, repeated>>
PeriodicVars == <<scheduleTaskBundleOfTimer, lateFired, raced>>

LEMMA FixedKept ==
  ASSUME TimerInv, UNCHANGED FixedVars, round'.pc = "scan" => round'.fixed = round.fixed /\ round.pc = "scan"
  PROVE  InstalledOnce' /\ LookedIsOver' /\ FiredOnce'
<1>1. \A s : Looked(s)' <=> Looked(s)
  BY DEF FixedVars, Looked
<1> QED BY <1>1 DEF TimerInv, FixedVars, InstalledOnce, LookedIsOver, FiredOnce

LEMMA PeriodicKept ==
  ASSUME TimerInv, UNCHANGED PeriodicVars, InRound' \subseteq InRound
  PROVE  LateOnce'
BY DEF TimerInv, PeriodicVars, LateOnce

LEMMA ClockInv == TimerInv /\ (Tick \/ ClockIsSetBack) => TimerInv'
<1> SUFFICES ASSUME TimerInv, Tick \/ ClockIsSetBack PROVE TimerInv'
  OBVIOUS
<1>1. /\ UNCHANGED <<prevExecTaskBunndleOfTimer, taskOfFixedTimeGroup, fired, since, missed, round, op>>
      /\ UNCHANGED PeriodicVars /\ UNCHANGED InRound
  BY DEF Tick, ClockIsSetBack, PeriodicVars, InRound, ghosts
<1>2. /\ sec' \in Nat /\ repeated \subseteq repeated'
      /\ \A s \in 0 .. MaxSec : sec' < s => sec < s \/ s \in repeated'
  BY TimersApart DEF Tick, ClockIsSetBack, ghosts, TimerInv, TimerTypeOK
<1>3. TimerTypeOK' /\ InstalledOnce' /\ LateOnce'
  BY <1>1, <1>2, PeriodicKept DEF TimerInv, TimerTypeOK, InstalledOnce, PeriodicVars
<1>4. LookedIsOver' /\ FiredOnce'
  BY <1>1, <1>2 DEF TimerInv, LookedIsOver, FiredOnce, Looked
<1> QED BY <1>3, <1>4 DEF TimerInv

LEMMA InstallFixedInv ==
  ASSUME TimerInv, NEW t \in Fixed, installFixed(t)
  PROVE  TimerInv'
<1>1. /\ UNCHANGED <<sec, prevExecTaskBunndleOfTimer, fired, missed, repeated, round, op>>
      /\ UNCHANGED PeriodicVars /\ UNCHANGED InRound
      /\ taskOfFixedTimeGroup' = taskOfFixedTimeGroup \cup {t} /\ sec \in Nat
  BY DEF installFixed, PeriodicVars, InRound, TimerInv, TimerTypeOK
<1>2. TimerTypeOK'
  BY <1>1 DEF installFixed, TimerInv, TimerTypeOK, PeriodicVars
<1>3. \A u \in Fixed : since'[u] = IF u = t THEN sec ELSE since[u]
  BY DEF installFixed, TimerInv, TimerTypeOK
<1>4. InstalledOnce'
  BY <1>1, <1>3, TimersApart DEF TimerInv, InstalledOnce
<1>5. LookedIsOver' /\ LateOnce'
  BY <1>1, PeriodicKept DEF TimerInv, LookedIsOver, Looked
<1>6. FiredOnce'
  <2> SUFFICES ASSUME NEW u \in Fixed, NEW s \in (0 .. MaxSec) \ repeated
               PROVE  /\ ~Looked(s) => fired[u][s] = 0
                      /\ since'[u] # NoTime /\ since'[u] < s /\ Looked(s) /\ s \in Pattern[u] \ missed[u]
                         => fired[u][s] = 1
    BY <1>1 DEF FiredOnce, Looked
  <2> QED BY <1>3 DEF TimerInv, FiredOnce, LookedIsOver
<1> QED BY <1>2, <1>4, <1>5, <1>6 DEF TimerInv

LEMMA BeginOpInv ==
  ASSUME TimerInv, NEW w \in StgThread, NEW t \in Fixed \cup Periodic,
         (t \in Periodic /\ BeginInstall(w, t)) \/ BeginUninstall(w, t)
  PROVE  TimerInv'
<1>1. /\ UNCHANGED FixedVars /\ UNCHANGED <<scheduleTaskBundleOfTimer, lateFired, round>>
      /\ raced => raced'
  BY DEF BeginInstall, BeginUninstall, FixedVars
<1>2. \/ op' = [op EXCEPT ![w] = [kind |-> "uninstall", timer |-> t]]
      \/ op' = [op EXCEPT ![w] = [kind |-> "install", timer |-> t]] /\ t \in Periodic
  BY DEF BeginInstall, BeginUninstall
<1>5. TimerTypeOK'
  BY <1>1, <1>2 DEF TimerInv, TimerTypeOK, FixedVars
<1>4. LateOnce'
  BY <1>1 DEF TimerInv, LateOnce, InRound
<1> QED BY <1>1, <1>4, <1>5, FixedKept DEF TimerInv

LEMMA EndInstallInv ==
  ASSUME TimerInv, NEW w \in StgThread, EndInstall(w)
  PROVE  TimerInv'
<1> DEFINE t == op[w].timer
<1>1. /\ UNCHANGED FixedVars /\ UNCHANGED <<round, raced>> /\ t \in Periodic
      /\ lateFired' = [lateFired EXCEPT ![t] = 0]
      /\ ~raced => scheduleTaskBundleOfTimer' = scheduleTaskBundleOfTimer \cup {t}
      /\ op' = [op EXCEPT ![w] = NoOp]
  BY DEF EndInstall, FixedVars, TimerInv, TimerTypeOK, Written, NoOp
<1>2. TimerTypeOK'
  BY <1>1 DEF TimerInv, TimerTypeOK, FixedVars
<1>3. LateOnce'
  BY <1>1 DEF TimerInv, TimerTypeOK, LateOnce, InRound
<1> QED BY <1>1, <1>2, <1>3, FixedKept DEF TimerInv

LEMMA EndUninstallInv ==
  ASSUME TimerInv, NEW w \in StgThread, EndUninstall(w)
  PROVE  TimerInv'
<1>1. /\ UNCHANGED <<sec, prevExecTaskBunndleOfTimer, fired, since, missed, repeated, round, raced, lateFired>>
      /\ ~raced => scheduleTaskBundleOfTimer' \subseteq scheduleTaskBundleOfTimer
      /\ taskOfFixedTimeGroup' \subseteq taskOfFixedTimeGroup
      /\ op' = [op EXCEPT ![w] = NoOp]
  BY DEF EndUninstall, ghosts, Written
<1>2. TimerTypeOK'
  BY <1>1 DEF TimerInv, TimerTypeOK
<1>3. InstalledOnce' /\ LookedIsOver' /\ FiredOnce'
  BY <1>1 DEF TimerInv, InstalledOnce, LookedIsOver, FiredOnce, Looked
<1>4. LateOnce'
  BY <1>1 DEF TimerInv, LateOnce, InRound
<1> QED BY <1>2, <1>3, <1>4 DEF TimerInv

LEMMA RoundInv ==
  ASSUME TimerInv, BeginRound \/ getScheduleTaskBundleOfTimer \/ CloneFixed \/ EndRound
  PROVE  TimerInv'
<1>1. /\ UNCHANGED FixedVars /\ UNCHANGED <<op, lateFired>>
  BY DEF BeginRound, getScheduleTaskBundleOfTimer, CloneFixed, EndRound, FixedVars, ghosts
<1>2. TimerTypeOK'
  BY <1>1 DEF TimerInv, TimerTypeOK, FixedVars
<1>3. LookedIsOver' /\ FiredOnce'
  BY <1>1 DEF FixedVars, TimerInv, LookedIsOver, FiredOnce, Looked
<1>4. CASE BeginRound
  <2>1. round' = [round EXCEPT !.pc = "erase"] /\ round.pc = "rest" /\ (raced => raced')
        /\ scheduleTaskBundleOfTimer' = scheduleTaskBundleOfTimer
    BY <1>4 DEF BeginRound
  <2> QED BY <1>1, <1>2, <1>3, <2>1 DEF TimerInv, FixedVars, LateOnce, InRound, InstalledOnce
<1>5. CASE getScheduleTaskBundleOfTimer
  <2>1. PICK group \in Written({t \in scheduleTaskBundleOfTimer : task[t].execTimes # MaxExecTimes[t]}) :
          /\ scheduleTaskBundleOfTimer' = group /\ round' = [pc |-> "clone", clone |-> group] /\ raced' = raced
    BY <1>5 DEF getScheduleTaskBundleOfTimer
  <2>2. ~raced => group \subseteq scheduleTaskBundleOfTimer
    BY DEF Written
  <2> QED BY <1>1, <1>2, <1>3, <2>1, <2>2 DEF TimerInv, FixedVars, LateOnce, InRound, InstalledOnce
<1>6. CASE CloneFixed
  <2>1. /\ round.pc = "clone" /\ raced' = raced /\ scheduleTaskBundleOfTimer' = scheduleTaskBundleOfTimer
        /\ round' = [pc |-> "scan", clone |-> round.clone, fixed |-> taskOfFixedTimeGroup]
    BY <1>6 DEF CloneFixed
  <2> QED BY <1>1, <1>2, <1>3, <2>1 DEF TimerInv, FixedVars, LateOnce, InRound, InstalledOnce
<1>7. CASE EndRound
  <2>1. raced' = raced /\ scheduleTaskBundleOfTimer' = scheduleTaskBundleOfTimer /\ round' = Resting
    BY <1>7 DEF EndRound
  <2> QED BY <1>1, <1>2, <1>3, <2>1 DEF TimerInv, FixedVars, LateOnce, InRound, InstalledOnce, Resting
<1> QED BY <1>4, <1>5, <1>6, <1>7

LEMMA ExecTimerInv ==
  ASSUME TimerInv, NEW t \in Periodic, ExecScheduleTask(t)
  PROVE  TimerInv'
<1>1. /\ UNCHANGED FixedVars /\ UNCHANGED <<op, raced, scheduleTaskBundleOfTimer>>
      /\ round' = [round EXCEPT !.clone = @ \ {t}] /\ round.pc = "exec" /\ t \in round.clone
      /\ \/ lateFired' = lateFired
         \/ lateFired' = [lateFired EXCEPT ![t] = IF t \in scheduleTaskBundleOfTimer THEN 0 ELSE @ + 1]
  BY DEF ExecScheduleTask, FixedVars
<1>2. round'.pc # "scan"
  BY <1>1
<1>3. TimerTypeOK'
  BY <1>1 DEF TimerInv, TimerTypeOK, FixedVars
<1>4. InRound = round.clone /\ InRound' \subseteq round.clone \ {t}
  BY <1>1 DEF InRound
<1>5. LateOnce'
  BY <1>1, <1>4 DEF TimerInv, TimerTypeOK, LateOnce
<1> QED BY <1>1, <1>2, <1>3, <1>5, FixedKept DEF TimerInv

LEMMA ScanInv ==
  ASSUME TimerInv, execTaskBunndleOfTimer
  PROVE  TimerInv'
<1> DEFINE first == prevExecTaskBunndleOfTimer = NoTime
<1>0. /\ sec \in Nat /\ NoTime \notin Nat /\ sec + 1 # NoTime
      /\ (first \/ prevExecTaskBunndleOfTimer \in Nat)
  BY TimersApart DEF TimerInv, TimerTypeOK
<1>1. /\ UNCHANGED <<sec, taskOfFixedTimeGroup, since, repeated, op, lateFired, raced, scheduleTaskBundleOfTimer>>
      /\ prevExecTaskBunndleOfTimer' = sec + 1
      /\ round.pc = "scan" /\ round' = [pc |-> "exec", clone |-> round.clone]
  BY DEF execTaskBunndleOfTimer
<1>2. \A s \in 0 .. MaxSec : s \in Scanned <=> s <= sec /\ (IF first THEN s = sec ELSE ~Looked(s))
  BY <1>0 DEF Scanned, Looked
<1>3. \A s \in 0 .. MaxSec : Looked(s)' <=> s <= sec
  BY <1>0, <1>1 DEF Looked
<1>4. /\ fired' \in [Fixed -> [0 .. MaxSec -> Nat]]
      /\ \A u \in Fixed, s \in 0 .. MaxSec :
           /\ u \in round.fixed /\ s \in Scanned \cap Pattern[u] => fired'[u][s] = fired[u][s] + 1
           /\ ~(u \in round.fixed /\ s \in Scanned \cap Pattern[u]) => fired'[u][s] = fired[u][s]
  <2> DEFINE e(u, s) == IF u \in round.fixed /\ s \in Scanned \cap Pattern[u] THEN 1 ELSE 0
  <2>1. fired' = [u \in Fixed |-> [s \in 0 .. MaxSec |-> fired[u][s] + e(u, s)]]
    BY DEF execTaskBunndleOfTimer
  <2>2. \A u, s : e(u, s) \in {0, 1} /\ (e(u, s) = 1 <=> u \in round.fixed /\ s \in Scanned \cap Pattern[u])
    OBVIOUS
  <2> HIDE DEF e
  <2>3. ASSUME NEW u \in Fixed, NEW s \in 0 .. MaxSec PROVE fired[u][s] \in Nat /\ fired[u][s] + e(u, s) \in Nat
    <3>1. fired[u][s] \in Nat
      BY DEF TimerInv, TimerTypeOK
    <3>2. e(u, s) \in {0, 1}
      BY <2>2
    <3> QED BY <3>1, <3>2
  <2>4. fired' \in [Fixed -> [0 .. MaxSec -> Nat]]
    BY <2>1, <2>3
  <2>5. \A u \in Fixed, s \in 0 .. MaxSec : fired'[u][s] = fired[u][s] + e(u, s)
    BY <2>1
  <2>6. ASSUME NEW u \in Fixed, NEW s \in 0 .. MaxSec
        PROVE  /\ u \in round.fixed /\ s \in Scanned \cap Pattern[u] => fired'[u][s] = fired[u][s] + 1
               /\ ~(u \in round.fixed /\ s \in Scanned \cap Pattern[u]) => fired'[u][s] = fired[u][s]
    <3>1. e(u, s) \in {0, 1} /\ (e(u, s) = 1 <=> u \in round.fixed /\ s \in Scanned \cap Pattern[u])
      BY <2>2
    <3> QED BY <2>3, <2>5, <3>1
  <2> QED BY <2>4, <2>6
<1>5. /\ missed' \in [Fixed -> SUBSET Int]
      /\ \A u \in Fixed : /\ missed[u] \subseteq missed'[u]
                          /\ u \notin round.fixed => Scanned \subseteq missed'[u]
                          /\ first => 0 .. (sec - 1) \subseteq missed'[u]
  BY <1>0 DEF execTaskBunndleOfTimer, TimerInv, TimerTypeOK, Scanned
<1>6. TimerTypeOK'
  BY <1>0, <1>1, <1>4, <1>5 DEF TimerInv, TimerTypeOK
<1>7. InstalledOnce' /\ LookedIsOver'
  BY <1>0, <1>1, <1>3 DEF TimerInv, InstalledOnce, LookedIsOver
<1>8. InRound' = InRound /\ LateOnce'
  BY <1>1 DEF InRound, TimerInv, LateOnce
<1>9. FiredOnce'
  <2> SUFFICES ASSUME NEW u \in Fixed, NEW s \in (0 .. MaxSec) \ repeated
               PROVE  /\ ~Looked(s)' => fired'[u][s] = 0
                      /\ since[u] # NoTime /\ since[u] < s /\ Looked(s)' /\ s \in Pattern[u] \ missed'[u]
                         => fired'[u][s] = 1
    BY <1>1 DEF FiredOnce
  <2>1. fired[u][s] \in Nat /\ (~Looked(s) => fired[u][s] = 0)
    BY DEF TimerInv, TimerTypeOK, FiredOnce
  <2>2. Looked(s) => ~first /\ s \notin Scanned
    BY <1>2 DEF Looked
  <2>3. ~Looked(s)' => ~Looked(s) /\ s \notin Scanned
    BY <1>0, <1>2, <1>3 DEF TimerInv, LookedIsOver
  <2>4. ASSUME since[u] # NoTime, since[u] < s, Looked(s)', s \in Pattern[u] \ missed'[u]
        PROVE  fired'[u][s] = 1
    <3>1. CASE Looked(s)
      <4>1. fired[u][s] = 1
        BY <1>5, <2>4, <3>1 DEF TimerInv, FiredOnce
      <4> QED BY <1>4, <2>2, <3>1, <4>1
    <3>2. CASE ~Looked(s)
      <4>1. s \in Scanned
        BY <1>0, <1>2, <1>3, <1>5, <2>4, <3>2
      <4>2. u \in round.fixed
        BY <1>5, <2>4, <4>1
      <4> QED BY <1>4, <2>1, <2>4, <3>2, <4>1, <4>2
    <3> QED BY <3>1, <3>2
  <2> QED BY <1>4, <2>1, <2>3, <2>4
<1> QED BY <1>6, <1>7, <1>8, <1>9 DEF TimerInv

LEMMA TimerNextInv == TimerInv /\ TimerNext => TimerInv'
BY ClockInv, InstallFixedInv, BeginOpInv, EndInstallInv, EndUninstallInv, RoundInv, ExecTimerInv, ScanInv
   DEF TimerNext

LEMMA TimerUnchangedInv == TimerInv /\ UNCHANGED timerVars => TimerInv'
<1> SUFFICES ASSUME TimerInv, UNCHANGED timerVars PROVE TimerInv'
  OBVIOUS
<1>1. UNCHANGED FixedVars /\ UNCHANGED PeriodicVars /\ UNCHANGED <<round, op, InRound>>
  BY DEF timerVars, FixedVars, PeriodicVars, InRound
<1>2. TimerTypeOK'
  BY <1>1 DEF FixedVars, PeriodicVars, TimerInv, TimerTypeOK
<1> QED BY <1>1, <1>2, FixedKept, PeriodicKept DEF TimerInv

LEMMA TimerInvOnce == TimerInv => TimerOnce
<1> SUFFICES ASSUME TimerInv PROVE TimerOnce
  OBVIOUS
<1>1. ASSUME NEW t \in taskOfFixedTimeGroup, NEW s \in 0 .. MaxSec,
             since[t] < s, prevExecTaskBunndleOfTimer # NoTime, s < prevExecTaskBunndleOfTimer,
             s \in Pattern[t] \ (missed[t] \cup repeated)
      PROVE  fired[t][s] = 1
  BY <1>1 DEF TimerInv, InstalledOnce, FiredOnce, Looked
<1> QED BY <1>1 DEF TimerOnce, TimerInv, LateOnce

-----------------------------------------------------------------------------
\* What is in a sequence, and that nothing is in it twice.
In(k, s) == \E i \in 1 .. Len(s) : s[i] = k
NoneTwice(s) == \A i, j \in 1 .. Len(s) : s[i] = s[j] => i = j

LEMMA InAppend ==
  ASSUME NEW S, NEW s \in Seq(S), NEW x \in S
  PROVE  /\ Append(s, x) \in Seq(S)
         /\ \A k : In(k, Append(s, x)) <=> In(k, s) \/ k = x
         /\ NoneTwice(s) /\ ~In(x, s) => NoneTwice(Append(s, x))
<1> DEFINE q == Append(s, x)
<1>1. q \in Seq(S) /\ Len(q) = Len(s) + 1 /\ Len(s) \in Nat
      /\ \A i \in 1 .. Len(q) : q[i] = IF i = Len(s) + 1 THEN x ELSE s[i]
  OBVIOUS
<1> HIDE DEF q
<1>2. ASSUME NEW k PROVE In(k, q) <=> In(k, s) \/ k = x
  <2>1. k = x => In(k, q)
    BY <1>1 DEF In
  <2>2. In(k, s) => In(k, q)
    BY <1>1 DEF In
  <2>3. In(k, q) => In(k, s) \/ k = x
    BY <1>1 DEF In
  <2> QED BY <2>1, <2>2, <2>3
<1>3. NoneTwice(s) /\ ~In(x, s) => NoneTwice(q)
  BY <1>1 DEF NoneTwice, In
<1> QED BY <1>1, <1>2, <1>3 DEF q

LEMMA InTail ==
  ASSUME NEW S, NEW s \in Seq(S), s # <<>>
  PROVE  /\ Tail(s) \in Seq(S) /\ Head(s) \in S /\ In(Head(s), s)
         /\ \A k : In(k, s) <=> In(k, Tail(s)) \/ k = Head(s)
         /\ NoneTwice(s) => NoneTwice(Tail(s)) /\ ~In(Head(s), Tail(s))
<1> DEFINE q == Tail(s)
<1>1. /\ q \in Seq(S) /\ Len(s) = Len(q) + 1 /\ Len(q) \in Nat
      /\ Head(s) = s[1] /\ Head(s) \in S /\ \A i \in 1 .. Len(q) : q[i] = s[i + 1]
  OBVIOUS
<1> HIDE DEF q
<1>2. In(Head(s), s)
  BY <1>1 DEF In
<1>3. ASSUME NEW k PROVE In(k, s) <=> In(k, q) \/ k = Head(s)
  <2>1. In(k, q) => In(k, s)
    BY <1>1 DEF In
  <2>2. ASSUME NEW i \in 1 .. Len(s), s[i] = k, k # Head(s) PROVE In(k, q)
    <3>1. i - 1 \in 1 .. Len(q) /\ q[i - 1] = s[i]
      BY <1>1, <2>2
    <3> QED BY <2>2, <3>1 DEF In
  <2> QED BY <1>2, <2>1, <2>2 DEF In
<1>4. NoneTwice(s) => NoneTwice(q) /\ ~In(Head(s), q)
  BY <1>1 DEF NoneTwice, In
<1> QED BY <1>1, <1>2, <1>3, <1>4 DEF q

-----------------------------------------------------------------------------
DispatcherTypeOK ==
  /\ queue \in [ThreadNo -> Seq(Task)]
  /\ thread \in [ThreadNo -> {"none", "running", "exited"}]
  /\ doing \in [ThreadNo -> {Free} \cup [task : Task, pc : {"lock", "enqueue", "handle"}]]
  /\ next \in [Producer -> [done : Nat, pc : {"lock", "enqueue"}]]
  /\ joining \in Int /\ inTime \subseteq Task
  /\ handled \in Seq(Task)

\* Where a task is: in the queue of its thread, handled by it, or behind it; nowhere else and
\* nowhere twice.
Queued(k) == In(k, queue[getThreadForTask[k]])
Doing(k) == doing[getThreadForTask[k]].task = k
Handled(k) == In(k, handled)
Entered(k) == Queued(k) \/ Doing(k) \/ Handled(k)
InItsPlace ==
  \A n \in ThreadNo : /\ \A k \in Task : In(k, queue[n]) => getThreadForTask[k] = n
                      /\ doing[n] # Free => getThreadForTask[doing[n].task] = n
InOnePlace ==
  /\ NoneTwice(handled) /\ \A n \in ThreadNo : NoneTwice(queue[n])
  /\ \A k \in Task : ~(Queued(k) /\ Doing(k)) /\ ~(Queued(k) /\ Handled(k)) /\ ~(Doing(k) /\ Handled(k))

\* What is not dispatched yet is nowhere.
Upcoming(p) == TaskOf[p][next[p].done + 1]
ProducedLater ==
  /\ \A p \in Producer : next[p].pc = "enqueue" => next[p].done < Len(TaskOf[p])
  /\ \A p \in Producer, i \in Nat : next[p].done < i /\ i <= Len(TaskOf[p]) => ~Entered(TaskOf[p][i])
FollowsLater ==
  /\ \A n \in ThreadNo : doing[n].pc \in {"lock", "enqueue"} => Follow[doing[n].task] # NoTask
  /\ \A k \in Task : Follow[k] # NoTask /\ Entered(Follow[k]) =>
       Handled(k) \/ (Doing(k) /\ doing[getThreadForTask[k]].pc = "handle")

\* The thread of a task is there before the task is enqueued, and one that has a task of those
\* enqueued in time runs until it is handled: stop waits for it.
Started(k) == thread[getThreadForTask[k]] # "none"
StartedFirst ==
  /\ \A p \in Producer : next[p].pc = "enqueue" => Started(Upcoming(p))
  /\ \A n \in ThreadNo : doing[n].pc = "enqueue" => Started(Follow[doing[n].task])
  /\ stopped \/ (joining = -1 /\ \A n \in ThreadNo : thread[n] # "exited")
RunsForInTime ==
  \A k \in inTime : /\ Started(k)
                    /\ Handled(k) \/ ((Queued(k) \/ Doing(k)) /\ thread[getThreadForTask[k]] = "running")
                    /\ getThreadForTask[k] < joining => Handled(k)

DispatcherInv ==
  /\ DispatcherTypeOK /\ InItsPlace /\ InOnePlace /\ ProducedLater /\ FollowsLater
  /\ StartedFirst /\ RunsForInTime

LEMMA DispatcherStepOrNot == Next => DispatcherNext \/ UNCHANGED dispatcherVars
BY DEF Next, ProcStep, UserStep, SqlStep, TimerStep, DispatcherStep, CallbackStep, RequestStep,
       OtherVars

LEMMA DispatcherInitInv == DispatcherInit => DispatcherInv
<1> SUFFICES ASSUME DispatcherInit PROVE DispatcherInv
  OBVIOUS
<1>1. /\ \A n \in ThreadNo : queue[n] = <<>> /\ doing[n] = Free /\ thread[n] \in {"none", "running"}
      /\ queue = [n \in ThreadNo |-> <<>>] /\ doing = [n \in ThreadNo |-> Free]
      /\ thread \in [ThreadNo -> {"none", "running", "exited"}]
      /\ handled = <<>> /\ inTime = {} /\ joining = -1
      /\ next \in [Producer -> [done : Nat, pc : {"lock", "enqueue"}]]
      /\ \A p \in Producer : next[p].pc = "lock"
  BY DEF DispatcherInit
<1>2. Free.task = NoTask /\ Free.pc = "wait"
  BY DEF Free
<1>3. \A k : ~In(k, <<>>) /\ NoneTwice(<<>>)
  BY DEF In, NoneTwice
<1>4. \A k \in Task : ~Entered(k)
  BY <1>1, <1>2, <1>3, TasksApart DEF Entered, Queued, Doing, Handled
<1>5. \A p \in Producer, i \in Nat : i <= Len(TaskOf[p]) /\ 0 < i => TaskOf[p][i] \in Task
  BY TasksApart
<1>6. DispatcherTypeOK
  BY <1>1 DEF DispatcherTypeOK
<1>7. InItsPlace /\ InOnePlace
  BY <1>1, <1>2, <1>3, <1>4 DEF InItsPlace, InOnePlace, Entered
<1>8. ProducedLater
  BY <1>1, <1>4, <1>5 DEF ProducedLater, DispatcherInit
<1>9. FollowsLater /\ StartedFirst /\ RunsForInTime
  BY <1>1, <1>2, <1>4, TasksApart DEF FollowsLater, StartedFirst, RunsForInTime
<1> QED BY <1>6, <1>7, <1>8, <1>9 DEF DispatcherInv

\* Tasks of producers and of handlers are tasks, of a thread of the dispatcher.
LEMMA TasksOfProducers ==
  /\ \A k \in Task : getThreadForTask[k] \in ThreadNo /\ Follow[k] \in Task \cup {NoTask}
  /\ \A p \in Producer, i \in Nat : 0 < i /\ i <= Len(TaskOf[p]) => TaskOf[p][i] \in Task
  /\ \A p \in Producer : Len(TaskOf[p]) \in Nat
BY TasksApart

\* What a producer is about to enqueue is a task of its own.
LEMMA UpcomingIs ==
  ASSUME DispatcherInv, NEW p \in Producer
  PROVE  /\ next[p].done \in Nat
         /\ next[p].pc = "enqueue" => /\ next[p].done < Len(TaskOf[p]) /\ next[p].done + 1 \in Nat
                                      /\ Upcoming(p) \in Task /\ Started(Upcoming(p))
<1>1. next[p].done \in Nat
  BY DEF DispatcherInv, DispatcherTypeOK
<1>2. ASSUME next[p].pc = "enqueue" PROVE next[p].done < Len(TaskOf[p]) /\ Started(Upcoming(p))
  BY <1>2 DEF DispatcherInv, ProducedLater, StartedFirst
<1>3. ASSUME next[p].pc = "enqueue" PROVE Upcoming(p) \in Task /\ next[p].done + 1 \in Nat
  <2>1. /\ next[p].done + 1 \in Nat /\ 0 < next[p].done + 1
        /\ next[p].done + 1 <= Len(TaskOf[p])
    BY <1>1, <1>2, <1>3, TasksOfProducers
  <2> QED BY <2>1, TasksOfProducers DEF Upcoming
<1> QED BY <1>1, <1>2, <1>3

\* A step that leaves the tasks where they are, starts threads at most, and dispatches nothing.
LEMMA DispatcherKept ==
  ASSUME DispatcherInv, DispatcherTypeOK', UNCHANGED <<queue, handled, inTime, stopped, joining>>,
         \A n \in ThreadNo : /\ doing'[n].task = doing[n].task
                             /\ doing'[n].pc = doing[n].pc \/ (doing[n].pc = "lock" /\ doing'[n].pc = "enqueue")
                             /\ doing'[n] # Free => doing[n] # Free,
         \A n \in ThreadNo : thread'[n] = thread[n] \/ (thread[n] = "none" /\ thread'[n] = "running"),
         \A p \in Producer : next'[p].done = next[p].done
  PROVE  InItsPlace' /\ InOnePlace' /\ RunsForInTime' /\ FollowsLater'
         /\ \A k \in Task : (Entered(k)' <=> Entered(k)) /\ (Started(k) => Started(k)')
<1> USE DEF DispatcherInv
<1>1. \A k \in Task : /\ Queued(k)' <=> Queued(k)
                      /\ Doing(k)' <=> Doing(k)
                      /\ Handled(k)' <=> Handled(k)
                      /\ Entered(k)' <=> Entered(k)
                      /\ Started(k) => Started(k)'
  BY TasksOfProducers DEF Queued, Doing, Handled, Entered, Started
<1>2. InItsPlace'
  BY DEF InItsPlace
<1>3. InOnePlace'
  BY <1>1 DEF InOnePlace
<1>4. RunsForInTime'
  BY <1>1, TasksOfProducers DEF RunsForInTime, DispatcherTypeOK
<1>5. FollowsLater'
  BY <1>1, TasksOfProducers DEF FollowsLater
<1> QED BY <1>1, <1>2, <1>3, <1>4, <1>5

LEMMA ProducerLocksInv ==
  ASSUME DispatcherInv, NEW p \in Producer, ProducerLocks(p)
  PROVE  DispatcherInv'
<1> USE DEF DispatcherInv
<1> DEFINE k == Upcoming(p)
<1>1. /\ UNCHANGED <<queue, doing, stopped, joining, handled, inTime>>
      /\ next[p].pc = "lock" /\ next[p].done < Len(TaskOf[p])
      /\ next' = [next EXCEPT ![p].pc = "enqueue"]
      /\ thread' = [thread EXCEPT ![getThreadForTask[k]] = IF @ = "none" THEN "running" ELSE @]
  BY DEF ProducerLocks, StartThread, Upcoming
<1>2. next[p].done \in Nat /\ k \in Task /\ getThreadForTask[k] \in ThreadNo
  <2>1. next[p].done \in Nat
    BY DEF DispatcherTypeOK
  <2>2. TaskOf[p][next[p].done + 1] \in Task
    BY <1>1, <2>1, TasksOfProducers
  <2> QED BY <2>1, <2>2, TasksOfProducers DEF Upcoming
<1>3. /\ DispatcherTypeOK'
      /\ \A q \in Producer : next'[q].done = next[q].done /\ (q # p => next'[q] = next[q])
      /\ next'[p].pc = "enqueue" /\ Upcoming(p)' = k
  BY <1>1, <1>2 DEF DispatcherTypeOK, Upcoming
<1>4. /\ \A n \in ThreadNo : thread'[n] = thread[n] \/ (thread[n] = "none" /\ thread'[n] = "running")
      /\ thread'[getThreadForTask[k]] # "none"
  BY <1>1, <1>2 DEF DispatcherTypeOK
<1>5. InItsPlace' /\ InOnePlace' /\ RunsForInTime' /\ FollowsLater'
      /\ \A x \in Task : (Entered(x)' <=> Entered(x)) /\ (Started(x) => Started(x)')
  BY <1>1, <1>3, <1>4, DispatcherKept
<1>6. ProducedLater'
  BY <1>1, <1>3, <1>5, TasksOfProducers DEF ProducedLater, DispatcherTypeOK
<1>7. StartedFirst'
  <2>1. \A q \in Producer : next'[q].pc = "enqueue" => Started(Upcoming(q))'
    <3> SUFFICES ASSUME NEW q \in Producer, next'[q].pc = "enqueue" PROVE Started(Upcoming(q))'
      OBVIOUS
    <3>1. CASE q = p
      BY <1>3, <1>4, <3>1 DEF Started
    <3>2. CASE q # p
      <4>1. next'[q] = next[q]
        BY <1>1, <3>2 DEF DispatcherTypeOK
      <4>2. Started(Upcoming(q)) /\ Upcoming(q)' = Upcoming(q) /\ Upcoming(q) \in Task
        <5>1. Upcoming(q)' = Upcoming(q)
          BY <4>1 DEF Upcoming
        <5> QED BY <4>1, <5>1, UpcomingIs
      <4> QED BY <1>5, <4>2 DEF Started
    <3> QED BY <3>1, <3>2
  <2>2. ASSUME NEW n \in ThreadNo, doing[n].pc = "enqueue" PROVE Started(Follow[doing[n].task])'
    <3>1. Started(Follow[doing[n].task]) /\ Follow[doing[n].task] \in Task
      BY <2>2, TasksOfProducers DEF StartedFirst, FollowsLater, DispatcherTypeOK, Free
    <3> QED BY <1>1, <1>5, <3>1 DEF Started
  <2>3. stopped \/ (joining = -1 /\ \A n \in ThreadNo : thread'[n] # "exited")
    BY <1>4 DEF StartedFirst
  <2> QED BY <1>1, <2>1, <2>2, <2>3 DEF StartedFirst
<1> QED BY <1>3, <1>5, <1>6, <1>7

LEMMA HandlerLocksInv ==
  ASSUME DispatcherInv, NEW n \in ThreadNo, HandlerLocks(n)
  PROVE  DispatcherInv'
<1> USE DEF DispatcherInv
<1> DEFINE k == Follow[doing[n].task]
           r == [doing[n] EXCEPT !.pc = "enqueue"]
<1>1. /\ UNCHANGED <<queue, next, stopped, joining, handled, inTime>>
      /\ doing[n].pc = "lock" /\ doing' = [doing EXCEPT ![n] = r]
      /\ thread' = [thread EXCEPT ![getThreadForTask[k]] = IF @ = "none" THEN "running" ELSE @]
  BY DEF HandlerLocks, StartThread
<1>2. /\ doing[n] \in [task : Task, pc : {"lock", "enqueue", "handle"}]
      /\ doing[n] # Free
  BY <1>1 DEF DispatcherTypeOK, Free
<1>3. k \in Task /\ getThreadForTask[k] \in ThreadNo
  BY <1>1, <1>2, TasksOfProducers DEF FollowsLater
<1>4. r \in [task : Task, pc : {"lock", "enqueue", "handle"}] /\ r.task = doing[n].task /\ r.pc = "enqueue"
  BY <1>2
<1> HIDE DEF r
<1>5. DispatcherTypeOK' /\ \A m \in ThreadNo : doing'[m] = IF m = n THEN r ELSE doing[m]
  BY <1>1, <1>3, <1>4 DEF DispatcherTypeOK
<1>6. /\ \A m \in ThreadNo : thread'[m] = thread[m] \/ (thread[m] = "none" /\ thread'[m] = "running")
      /\ thread'[getThreadForTask[k]] # "none"
  BY <1>1, <1>3 DEF DispatcherTypeOK
<1>7. InItsPlace' /\ InOnePlace' /\ RunsForInTime' /\ FollowsLater'
      /\ \A x \in Task : (Entered(x)' <=> Entered(x)) /\ (Started(x) => Started(x)')
  BY <1>1, <1>2, <1>4, <1>5, <1>6, DispatcherKept
<1>8. ProducedLater'
  <2>1. \A q \in Producer, i \in Nat : next[q].done < i /\ i <= Len(TaskOf[q]) => ~Entered(TaskOf[q][i])'
    <3> SUFFICES ASSUME NEW q \in Producer, NEW i \in Nat, next[q].done < i, i <= Len(TaskOf[q])
                 PROVE  ~Entered(TaskOf[q][i])'
      OBVIOUS
    <3>1. TaskOf[q][i] \in Task
      BY UpcomingIs, TasksOfProducers
    <3> QED BY <1>7, <3>1 DEF ProducedLater
  <2> QED BY <1>1, <2>1 DEF ProducedLater
<1>9. StartedFirst'
  <2>1. \A q \in Producer : next[q].pc = "enqueue" => Started(Upcoming(q))'
    <3> SUFFICES ASSUME NEW q \in Producer, next[q].pc = "enqueue" PROVE Started(Upcoming(q))'
      OBVIOUS
    <3>1. Started(Upcoming(q)) /\ Upcoming(q)' = Upcoming(q) /\ Upcoming(q) \in Task
      BY <1>1, UpcomingIs DEF Upcoming
    <3> QED BY <1>7, <3>1 DEF Started
  <2>2. \A m \in ThreadNo : doing'[m].pc = "enqueue" => Started(Follow[doing[m].task])'
    <3> SUFFICES ASSUME NEW m \in ThreadNo, doing'[m].pc = "enqueue" PROVE Started(Follow[doing[m].task])'
      OBVIOUS
    <3>1. CASE m = n
      BY <1>4, <1>5, <1>6, <3>1 DEF Started
    <3>2. CASE m # n
      <4>1. doing'[m] = doing[m] /\ Started(Follow[doing[m].task]) /\ Follow[doing[m].task] \in Task
        BY <1>5, <3>2, TasksOfProducers DEF StartedFirst, FollowsLater, DispatcherTypeOK, Free
      <4> QED BY <1>7, <4>1 DEF Started
    <3> QED BY <3>1, <3>2
  <2>3. stopped \/ (joining = -1 /\ \A m \in ThreadNo : thread'[m] # "exited")
    BY <1>6 DEF StartedFirst
  <2> QED BY <1>1, <2>1, <2>2, <2>3 DEF StartedFirst
<1> QED BY <1>5, <1>7, <1>8, <1>9

\* A task that is nowhere yet is put into the queue of its thread, which has been started.
LEMMA EnqueueInv ==
  ASSUME DispatcherInv, NEW k \in Task, ~Entered(k), Started(k), Enqueue(k, queue),
         UNCHANGED <<thread, stopped, joining, handled>>,
         \A n \in ThreadNo : doing'[n].task = doing[n].task /\ (doing'[n] # Free => doing[n] # Free)
  PROVE  /\ queue' \in [ThreadNo -> Seq(Task)] /\ inTime' \subseteq Task
         /\ InItsPlace' /\ InOnePlace' /\ RunsForInTime'
         /\ \A x \in Task : /\ Entered(x)' <=> Entered(x) \/ x = k
                            /\ Handled(x)' <=> Handled(x)
                            /\ Doing(x)' <=> Doing(x)
<1> USE DEF DispatcherInv
<1> DEFINE n == getThreadForTask[k]
           q == Append(queue[n], k)
<1>1. n \in ThreadNo /\ queue[n] \in Seq(Task)
  BY TasksOfProducers DEF DispatcherTypeOK
<1>2. queue' = [queue EXCEPT ![n] = q] /\ inTime' = IF stopped THEN inTime ELSE inTime \cup {k}
  BY DEF Enqueue
<1>3. /\ q \in Seq(Task) /\ \A x : In(x, q) <=> In(x, queue[n]) \/ x = k
      /\ NoneTwice(queue[n]) /\ ~In(k, queue[n]) => NoneTwice(q)
  BY <1>1, InAppend
<1> HIDE DEF q
<1>4. queue' \in [ThreadNo -> Seq(Task)] /\ \A m \in ThreadNo : queue'[m] = IF m = n THEN q ELSE queue[m]
  BY <1>1, <1>2, <1>3 DEF DispatcherTypeOK
<1>5. inTime' \subseteq Task
  BY <1>2 DEF DispatcherTypeOK
<1>6. \A x \in Task : /\ Queued(x)' <=> Queued(x) \/ x = k
                      /\ Handled(x)' <=> Handled(x)
                      /\ Doing(x)' <=> Doing(x)
                      /\ Started(x)' <=> Started(x)
  <2> SUFFICES ASSUME NEW x \in Task
               PROVE  /\ Queued(x)' <=> Queued(x) \/ x = k
                      /\ Handled(x)' <=> Handled(x)
                      /\ Doing(x)' <=> Doing(x)
                      /\ Started(x)' <=> Started(x)
    OBVIOUS
  <2>1. getThreadForTask[x] \in ThreadNo
    BY TasksOfProducers
  <2>2. In(x, q) /\ x # k => getThreadForTask[x] = n
    BY <1>1, <1>3 DEF InItsPlace
  <2>3. Queued(x)' <=> Queued(x) \/ x = k
    BY <1>3, <1>4, <2>1, <2>2 DEF Queued
  <2> QED BY <2>1, <2>3 DEF Handled, Doing, Started
<1>7. InItsPlace'
  BY <1>1, <1>3, <1>4 DEF InItsPlace
<1>8. InOnePlace'
  BY <1>1, <1>3, <1>4, <1>6 DEF InOnePlace, Entered, Queued
<1>9. RunsForInTime'
  <2> SUFFICES ASSUME NEW x \in inTime'
               PROVE  /\ Started(x)
                      /\ Handled(x) \/ ((Queued(x)' \/ Doing(x)) /\ thread[getThreadForTask[x]] = "running")
                      /\ getThreadForTask[x] < joining => Handled(x)
    BY <1>5, <1>6 DEF RunsForInTime
  <2>1. CASE x \in inTime
    BY <1>5, <1>6, <2>1 DEF RunsForInTime
  <2>2. CASE x \notin inTime
    <3>1. x = k /\ ~stopped
      BY <1>2, <2>2
    <3>2. thread[n] = "running" /\ joining = -1
      BY <1>1, <3>1 DEF StartedFirst, Started, DispatcherTypeOK
    <3>3. ~(n < joining)
      BY <1>1, <3>2, SomeThread DEF ThreadNo
    <3>4. Queued(x)'
      BY <1>6, <3>1
    <3> QED BY <3>1, <3>2, <3>3, <3>4
  <2> QED BY <2>1, <2>2
<1> QED BY <1>4, <1>5, <1>6, <1>7, <1>8, <1>9 DEF Entered

LEMMA ProducerEnqueuesInv ==
  ASSUME DispatcherInv, NEW p \in Producer, ProducerEnqueues(p)
  PROVE  DispatcherInv'
<1> USE DEF DispatcherInv
<1> DEFINE k == Upcoming(p)
           r == [done |-> next[p].done + 1, pc |-> "lock"]
<1>1. /\ UNCHANGED <<thread, doing, stopped, joining, handled>> /\ next[p].pc = "enqueue"
      /\ Enqueue(k, queue) /\ next' = [next EXCEPT ![p] = r]
  BY DEF ProducerEnqueues, Upcoming
<1>2. next[p].done \in Nat /\ next[p].done < Len(TaskOf[p]) /\ k \in Task
  BY <1>1, UpcomingIs
<1>3. ~Entered(k) /\ Started(k)
  BY <1>1, <1>2 DEF ProducedLater, StartedFirst, Upcoming
<1>4. /\ queue' \in [ThreadNo -> Seq(Task)] /\ inTime' \subseteq Task
      /\ InItsPlace' /\ InOnePlace' /\ RunsForInTime'
      /\ \A x \in Task : /\ Entered(x)' <=> Entered(x) \/ x = k
                         /\ Handled(x)' <=> Handled(x)
                         /\ Doing(x)' <=> Doing(x)
  BY <1>1, <1>2, <1>3, EnqueueInv
<1>5. r \in [done : Nat, pc : {"lock", "enqueue"}] /\ r.done = next[p].done + 1 /\ r.pc = "lock"
  BY <1>2
<1> HIDE DEF r
<1>6. DispatcherTypeOK' /\ \A q \in Producer : next'[q] = IF q = p THEN r ELSE next[q]
  BY <1>1, <1>4, <1>5 DEF DispatcherTypeOK
<1>7. ProducedLater'
  <2>1. \A q \in Producer : next'[q].pc = "enqueue" => next'[q].done < Len(TaskOf[q])
    BY <1>5, <1>6 DEF ProducedLater
  <2>2. ASSUME NEW q \in Producer, NEW i \in Nat, next'[q].done < i, i <= Len(TaskOf[q])
        PROVE  ~Entered(TaskOf[q][i])'
    <3>1. next[q].done < i /\ 0 < i /\ next[q].done \in Nat /\ (q = p => next[p].done + 1 < i)
      BY <1>2, <1>5, <1>6, <2>2 DEF DispatcherTypeOK
    <3>2. ~Entered(TaskOf[q][i]) /\ TaskOf[q][i] \in Task
      BY <2>2, <3>1, TasksOfProducers DEF ProducedLater
    <3>3. TaskOf[q][i] # k
      BY <1>2, <2>2, <3>1, TasksApart, TasksOfProducers DEF Upcoming
    <3> QED BY <1>4, <3>2, <3>3
  <2> QED BY <2>1, <2>2 DEF ProducedLater
<1>8. FollowsLater'
  <2>1. \A x \in Task : Follow[x] # k
    BY <1>2, TasksApart, TasksOfProducers DEF Upcoming
  <2> QED BY <1>1, <1>4, <2>1, TasksOfProducers DEF FollowsLater
<1>9. StartedFirst'
  BY <1>1, <1>5, <1>6 DEF StartedFirst, Started, Upcoming
<1> QED BY <1>4, <1>6, <1>7, <1>8, <1>9

LEMMA HandlerEnqueuesInv ==
  ASSUME DispatcherInv, NEW n \in ThreadNo, HandlerEnqueues(n)
  PROVE  DispatcherInv'
<1> USE DEF DispatcherInv
<1> DEFINE t == doing[n].task
           k == Follow[t]
           r == [doing[n] EXCEPT !.pc = "handle"]
<1>1. /\ UNCHANGED <<thread, next, stopped, joining, handled>> /\ doing[n].pc = "enqueue"
      /\ Enqueue(k, queue) /\ doing' = [doing EXCEPT ![n] = r]
  BY DEF HandlerEnqueues
<1>2. doing[n] \in [task : Task, pc : {"lock", "enqueue", "handle"}] /\ doing[n] # Free
  BY <1>1 DEF DispatcherTypeOK, Free
<1>3. k \in Task /\ k # NoTask /\ Started(k) /\ t \in Task /\ getThreadForTask[t] = n /\ Doing(t)
  BY <1>1, <1>2, TasksOfProducers DEF FollowsLater, StartedFirst, InItsPlace, Doing
<1>4. ~Entered(k)
  BY <1>1, <1>3 DEF FollowsLater, InOnePlace
<1>5. r \in [task : Task, pc : {"lock", "enqueue", "handle"}] /\ r.task = t /\ r.pc = "handle"
  BY <1>2
<1> HIDE DEF r
<1>6. \A m \in ThreadNo : doing'[m] = IF m = n THEN r ELSE doing[m]
  BY <1>1 DEF DispatcherTypeOK
<1>7. /\ queue' \in [ThreadNo -> Seq(Task)] /\ inTime' \subseteq Task
      /\ InItsPlace' /\ InOnePlace' /\ RunsForInTime'
      /\ \A x \in Task : /\ Entered(x)' <=> Entered(x) \/ x = k
                         /\ Handled(x)' <=> Handled(x)
                         /\ Doing(x)' <=> Doing(x)
  BY <1>1, <1>2, <1>3, <1>4, <1>5, <1>6, EnqueueInv
<1>8. DispatcherTypeOK'
  BY <1>1, <1>5, <1>7 DEF DispatcherTypeOK
<1>9. ProducedLater'
  <2>1. ASSUME NEW q \in Producer, NEW i \in Nat, next[q].done < i, i <= Len(TaskOf[q])
        PROVE  ~Entered(TaskOf[q][i])'
    <3>1. next[q].done \in Nat
      BY DEF DispatcherTypeOK
    <3>2. TaskOf[q][i] \in Task /\ TaskOf[q][i] # k /\ ~Entered(TaskOf[q][i])
      BY <1>3, <2>1, <3>1, TasksApart, TasksOfProducers DEF ProducedLater
    <3> QED BY <1>7, <3>2
  <2> QED BY <1>1, <2>1 DEF ProducedLater
<1>10. FollowsLater'
  <2>1. ASSUME NEW x \in Task, Follow[x] # NoTask, Entered(Follow[x])'
        PROVE  Handled(x)' \/ (Doing(x)' /\ doing'[getThreadForTask[x]].pc = "handle")
    <3>1. CASE x = t
      BY <1>3, <1>5, <1>6, <1>7, <3>1
    <3>2. CASE x # t
      <4>1. Follow[x] # k /\ Follow[x] \in Task
        BY <1>3, <2>1, <3>2, TasksApart, TasksOfProducers
      <4>2. Handled(x) \/ (Doing(x) /\ doing[getThreadForTask[x]].pc = "handle")
        BY <1>7, <2>1, <4>1 DEF FollowsLater
      <4>3. Doing(x) => getThreadForTask[x] # n
        BY <1>3, <3>2 DEF Doing
      <4> QED BY <1>6, <1>7, <4>2, <4>3, TasksOfProducers
    <3> QED BY <3>1, <3>2
  <2>2. \A m \in ThreadNo : doing'[m].pc \in {"lock", "enqueue"} => Follow[doing'[m].task] # NoTask
    BY <1>5, <1>6 DEF FollowsLater
  <2> QED BY <2>1, <2>2 DEF FollowsLater
<1>11. StartedFirst'
  BY <1>1, <1>5, <1>6 DEF StartedFirst, Started, Upcoming
<1> QED BY <1>7, <1>8, <1>9, <1>10, <1>11

LEMMA DequeueInv ==
  ASSUME DispatcherInv, NEW n \in ThreadNo, Dequeue(n)
  PROVE  DispatcherInv'
<1> USE DEF DispatcherInv
<1> DEFINE t == Head(queue[n])
           q == Tail(queue[n])
           r == [task |-> t, pc |-> IF Follow[t] = NoTask THEN "handle" ELSE "lock"]
<1>1. /\ UNCHANGED <<thread, next, stopped, joining, handled, inTime>>
      /\ doing[n] = Free /\ queue[n] # <<>> /\ queue[n] \in Seq(Task)
      /\ doing' = [doing EXCEPT ![n] = r] /\ queue' = [queue EXCEPT ![n] = q]
  BY DEF Dequeue, DispatcherTypeOK
<1>2. /\ q \in Seq(Task) /\ t \in Task /\ \A x : In(x, queue[n]) <=> In(x, q) \/ x = t
      /\ NoneTwice(queue[n]) => NoneTwice(q) /\ ~In(t, q)
  BY <1>1, InTail
<1>3. /\ r \in [task : Task, pc : {"lock", "enqueue", "handle"}] /\ r.task = t /\ r # Free
      /\ r.pc \in {"lock", "handle"} /\ (r.pc = "lock" => Follow[t] # NoTask)
      /\ Free.task = NoTask /\ NoTask \notin Task
  BY <1>2, TasksApart DEF Free
<1> HIDE DEF r, q, t
<1>4. /\ \A m \in ThreadNo : /\ doing'[m] = IF m = n THEN r ELSE doing[m]
                             /\ queue'[m] = IF m = n THEN q ELSE queue[m]
      /\ DispatcherTypeOK'
  BY <1>1, <1>2, <1>3 DEF DispatcherTypeOK
<1>5. getThreadForTask[t] = n /\ Queued(t) /\ ~Doing(t) /\ ~Handled(t)
  BY <1>1, <1>2 DEF InItsPlace, InOnePlace, Queued
<1>6. \A x \in Task : /\ Queued(x)' <=> Queued(x) /\ x # t
                      /\ Doing(x)' <=> Doing(x) \/ x = t
                      /\ Handled(x)' <=> Handled(x)
                      /\ Entered(x)' <=> Entered(x)
  <2> SUFFICES ASSUME NEW x \in Task
               PROVE  /\ Queued(x)' <=> Queued(x) /\ x # t
                      /\ Doing(x)' <=> Doing(x) \/ x = t
                      /\ Handled(x)' <=> Handled(x)
    BY <1>5 DEF Entered
  <2>1. getThreadForTask[x] \in ThreadNo
    BY TasksOfProducers
  <2>2. Queued(x)' <=> Queued(x) /\ x # t
    BY <1>2, <1>4, <1>5, <2>1 DEF Queued, InOnePlace
  <2>3. Doing(x)' <=> Doing(x) \/ x = t
    BY <1>1, <1>3, <1>4, <1>5, <2>1 DEF Doing
  <2>4. Handled(x)' <=> Handled(x)
    BY <1>1 DEF Handled
  <2> QED BY <2>2, <2>3, <2>4
<1>7. InItsPlace'
  BY <1>2, <1>3, <1>4, <1>5 DEF InItsPlace
<1>8. InOnePlace'
  BY <1>1, <1>2, <1>4, <1>5, <1>6 DEF InOnePlace
<1>9. ProducedLater'
  BY <1>1, <1>6, TasksOfProducers DEF ProducedLater, DispatcherTypeOK
<1>10. FollowsLater'
  <2>1. ASSUME NEW x \in Task, Follow[x] # NoTask, Entered(Follow[x])'
        PROVE  Handled(x)' \/ (Doing(x)' /\ doing'[getThreadForTask[x]].pc = "handle")
    <3>1. Handled(x) \/ (Doing(x) /\ doing[getThreadForTask[x]].pc = "handle")
      BY <1>6, <2>1, TasksOfProducers DEF FollowsLater
    <3>2. Doing(x) => getThreadForTask[x] # n
      BY <1>1, <1>3 DEF Doing
    <3> QED BY <1>4, <1>6, <3>1, <3>2, TasksOfProducers
  <2>2. \A m \in ThreadNo : doing'[m].pc \in {"lock", "enqueue"} => Follow[doing'[m].task] # NoTask
    BY <1>3, <1>4 DEF FollowsLater
  <2> QED BY <2>1, <2>2 DEF FollowsLater
<1>11. StartedFirst'
  BY <1>1, <1>3, <1>4 DEF StartedFirst, Started, Upcoming
<1>12. RunsForInTime'
  BY <1>1, <1>6 DEF RunsForInTime, Started, DispatcherTypeOK
<1> QED BY <1>4, <1>7, <1>8, <1>9, <1>10, <1>11, <1>12

LEMMA HandleInv ==
  ASSUME DispatcherInv, NEW n \in ThreadNo, Handle(n)
  PROVE  DispatcherInv'
<1> USE DEF DispatcherInv
<1> DEFINE t == doing[n].task
           h == Append(handled, t)
<1>1. /\ UNCHANGED <<queue, thread, next, stopped, joining, inTime>>
      /\ doing[n].pc = "handle" /\ handled' = h /\ doing' = [doing EXCEPT ![n] = Free]
  BY DEF Handle
<1>2. doing[n] \in [task : Task, pc : {"lock", "enqueue", "handle"}] /\ doing[n] # Free
  BY <1>1 DEF DispatcherTypeOK, Free
<1>3. t \in Task /\ getThreadForTask[t] = n /\ Doing(t) /\ ~Handled(t) /\ ~Queued(t)
  BY <1>2 DEF InItsPlace, InOnePlace, Doing
<1>4. /\ h \in Seq(Task) /\ \A x : In(x, h) <=> In(x, handled) \/ x = t
      /\ NoneTwice(handled) /\ ~In(t, handled) => NoneTwice(h)
  BY <1>3, InAppend DEF DispatcherTypeOK
<1> HIDE DEF h
<1>5. /\ \A m \in ThreadNo : doing'[m] = IF m = n THEN Free ELSE doing[m]
      /\ DispatcherTypeOK' /\ Free.task = NoTask /\ Free.pc = "wait" /\ NoTask \notin Task
  BY <1>1, <1>4, TasksApart DEF DispatcherTypeOK, Free
<1>6. \A x \in Task : /\ Queued(x)' <=> Queued(x)
                      /\ Doing(x)' <=> Doing(x) /\ x # t
                      /\ Handled(x)' <=> Handled(x) \/ x = t
                      /\ Entered(x)' <=> Entered(x)
  <2> SUFFICES ASSUME NEW x \in Task
               PROVE  /\ Queued(x)' <=> Queued(x)
                      /\ Doing(x)' <=> Doing(x) /\ x # t
                      /\ Handled(x)' <=> Handled(x) \/ x = t
    BY <1>3 DEF Entered
  <2>1. getThreadForTask[x] \in ThreadNo
    BY TasksOfProducers
  <2> QED BY <1>1, <1>3, <1>4, <1>5, <2>1 DEF Queued, Doing, Handled
<1>7. InItsPlace'
  BY <1>1, <1>5 DEF InItsPlace
<1>8. InOnePlace'
  BY <1>1, <1>3, <1>4, <1>6 DEF InOnePlace, Handled
<1>9. ProducedLater'
  BY <1>1, <1>6, TasksOfProducers DEF ProducedLater, DispatcherTypeOK
<1>10. FollowsLater'
  <2>1. ASSUME NEW x \in Task, Follow[x] # NoTask, Entered(Follow[x])'
        PROVE  Handled(x)' \/ (Doing(x)' /\ doing'[getThreadForTask[x]].pc = "handle")
    <3>1. Handled(x) \/ (Doing(x) /\ doing[getThreadForTask[x]].pc = "handle")
      BY <1>6, <2>1, TasksOfProducers DEF FollowsLater
    <3>2. Doing(x) /\ x # t => getThreadForTask[x] # n
      BY DEF Doing
    <3> QED BY <1>5, <1>6, <3>1, <3>2, TasksOfProducers
  <2>2. \A m \in ThreadNo : doing'[m].pc \in {"lock", "enqueue"} => Follow[doing'[m].task] # NoTask
    BY <1>5 DEF FollowsLater
  <2> QED BY <2>1, <2>2 DEF FollowsLater
<1>11. StartedFirst'
  BY <1>1, <1>5 DEF StartedFirst, Started, Upcoming
<1>12. RunsForInTime'
  BY <1>1, <1>6 DEF RunsForInTime, Started, DispatcherTypeOK
<1> QED BY <1>5, <1>7, <1>8, <1>9, <1>10, <1>11, <1>12

LEMMA ThreadExitsInv ==
  ASSUME DispatcherInv, NEW n \in ThreadNo, ThreadExits(n)
  PROVE  DispatcherInv'
<1> USE DEF DispatcherInv
<1>1. /\ UNCHANGED <<queue, doing, next, stopped, joining, handled, inTime>>
      /\ doing[n] = Free /\ stopped /\ queue[n] = <<>> /\ thread[n] = "running"
      /\ thread' = [thread EXCEPT ![n] = "exited"]
  BY DEF ThreadExits
<1>2. DispatcherTypeOK' /\ \A m \in ThreadNo : thread'[m] = IF m = n THEN "exited" ELSE thread[m]
  BY <1>1 DEF DispatcherTypeOK
<1>3. \A x \in Task : getThreadForTask[x] = n => ~Queued(x) /\ ~Doing(x)
  BY <1>1, TasksApart DEF Queued, Doing, In, Free
<1>4. \A x : /\ Queued(x)' <=> Queued(x)
             /\ Doing(x)' <=> Doing(x)
             /\ Handled(x)' <=> Handled(x)
             /\ Entered(x)' <=> Entered(x)
  BY <1>1 DEF Queued, Doing, Handled, Entered
<1>5. InItsPlace' /\ InOnePlace' /\ ProducedLater' /\ FollowsLater'
  BY <1>1, <1>4 DEF InItsPlace, InOnePlace, ProducedLater, FollowsLater
<1>6. \A x : Started(x) => Started(x)'
  BY <1>1, <1>2 DEF Started, DispatcherTypeOK
<1>7. StartedFirst'
  BY <1>1, <1>6 DEF StartedFirst, Started, Upcoming
<1>8. RunsForInTime'
  BY <1>1, <1>2, <1>3, <1>4, <1>6, TasksOfProducers DEF RunsForInTime, DispatcherTypeOK
<1> QED BY <1>2, <1>5, <1>7, <1>8

LEMMA StopInv ==
  ASSUME DispatcherInv, Stop \/ Joined
  PROVE  DispatcherInv'
<1> USE DEF DispatcherInv
<1>1. /\ UNCHANGED <<queue, thread, doing, next, handled, inTime>> /\ stopped'
      /\ joining' \in Int /\ DispatcherTypeOK'
  BY DEF Stop, Joined, DispatcherTypeOK, StartedFirst, ThreadNo
<1>2. \A x : /\ Queued(x)' <=> Queued(x)
             /\ Doing(x)' <=> Doing(x)
             /\ Handled(x)' <=> Handled(x)
             /\ Entered(x)' <=> Entered(x)
             /\ Started(x)' <=> Started(x)
  BY <1>1 DEF Queued, Doing, Handled, Entered, Started
<1>3. InItsPlace' /\ InOnePlace' /\ ProducedLater' /\ FollowsLater'
  BY <1>1, <1>2 DEF InItsPlace, InOnePlace, ProducedLater, FollowsLater
<1>4. StartedFirst'
  BY <1>1 DEF StartedFirst, Started, Upcoming
<1>5. RunsForInTime'
  <2> SUFFICES ASSUME NEW k \in inTime, getThreadForTask[k] < joining' PROVE Handled(k)
    BY <1>1, <1>2 DEF RunsForInTime
  <2>1. getThreadForTask[k] \in ThreadNo
    BY TasksOfProducers DEF DispatcherTypeOK
  <2>2. CASE Stop
    BY <2>1, <2>2 DEF Stop, ThreadNo
  <2>3. CASE Joined
    <3>1. CASE getThreadForTask[k] = joining
      BY <2>3, <3>1 DEF Joined, RunsForInTime
    <3>2. CASE getThreadForTask[k] # joining
      BY <2>1, <2>3, <3>2 DEF Joined, RunsForInTime, ThreadNo
    <3> QED BY <3>1, <3>2
  <2> QED BY <2>2, <2>3
<1> QED BY <1>1, <1>3, <1>4, <1>5

LEMMA DispatcherNextInv == DispatcherInv /\ DispatcherNext => DispatcherInv'
BY ProducerLocksInv, ProducerEnqueuesInv, DequeueInv, HandlerLocksInv, HandlerEnqueuesInv, HandleInv,
   ThreadExitsInv, StopInv DEF DispatcherNext, DispatcherProceeds

LEMMA DispatcherUnchangedInv == DispatcherInv /\ UNCHANGED dispatcherVars => DispatcherInv'
<1> SUFFICES ASSUME DispatcherInv, UNCHANGED dispatcherVars PROVE DispatcherInv'
  OBVIOUS
<1> USE DEF dispatcherVars, DispatcherInv
<1>1. \A x : /\ Queued(x)' <=> Queued(x)
             /\ Doing(x)' <=> Doing(x)
             /\ Handled(x)' <=> Handled(x)
             /\ Entered(x)' <=> Entered(x)
             /\ Started(x)' <=> Started(x)
  BY DEF Queued, Doing, Handled, Entered, Started
<1>2. InItsPlace' /\ InOnePlace' /\ ProducedLater' /\ FollowsLater'
  BY <1>1 DEF InItsPlace, InOnePlace, ProducedLater, FollowsLater
<1>3. StartedFirst' /\ RunsForInTime'
  BY <1>1 DEF StartedFirst, RunsForInTime, Started, Upcoming
<1>4. DispatcherTypeOK'
  BY DEF DispatcherTypeOK
<1> QED BY <1>2, <1>3, <1>4

LEMMA DispatcherInvDrained == DispatcherInv => DrainedOnce
<1> SUFFICES ASSUME DispatcherInv PROVE DrainedOnce
  OBVIOUS
<1>1. ASSUME HasStopped, NEW k \in inTime PROVE Handled(k)
  <2>1. getThreadForTask[k] \in ThreadNo
    BY TasksOfProducers DEF DispatcherInv, DispatcherTypeOK
  <2> QED BY <1>1, <2>1, SomeThread DEF HasStopped, ThreadNo, DispatcherInv, RunsForInTime
<1> QED BY <1>1 DEF DrainedOnce, Handled, In, DispatcherInv, InOnePlace, NoneTwice

-----------------------------------------------------------------------------
Said == {"order", "cancel"} \X Ord
EngTask == {<<"start">>} \cup {<<"ret", o>> : o \in Ord}
EngTypeOK ==
  /\ engMain \in {"down", "init", "barrier", "running", "exit", "drain"}
  /\ toTDSrv \in Seq(Said)
  /\ doingOfEng \in [Actor -> {NoDoing} \cup [pc : {"send", "cache"}, what : Said, req : Req \cup {NoReq}]]
  /\ queueOfInst \in [Thread -> Seq(EngTask)]
  /\ ordMgr \in [Ord -> {"none", "open", "closed"}]
  /\ row \in [Ord -> {"none", "open", "closed"}]
  /\ webMsgs \in Seq(Req)

\* An engine that does not run yet is in the middle of nothing.
DownIsIdle == engMain \in {"down", "init"} => ~connected /\ doingOfEng = NothingDone

\* Whatever says that an order was sent is right: a return of it, its row, a sync task.
Sent(o) == SentOf(o) # {}
RetQueued(o) == \E t \in Thread : In(<<"ret", o>>, queueOfInst[t])
SentIfKnown ==
  \A o \in Ord : \/ Sent(o)
                 \/ /\ ~RetQueued(o) /\ row[o] = "none"
                    /\ <<"order", o>> \notin syncTaskGroup \cup syncing
                    /\ \A a \in Actor : ~(doingOfEng[a].pc = "cache" /\ doingOfEng[a].what = <<"order", o>>)

\* An order that is not placed again is about to be sent by one thread at most and was not
\* before; it was sent once at most.
Sends(a, o) == doingOfEng[a].pc = "send" /\ doingOfEng[a].what = <<"order", o>>
SendsOnce ==
  \A o \in Ord \ reused :
    /\ \A m, n \in SentOf(o) : m = n
    /\ \A a \in Actor : Sends(a, o) => /\ ~Sent(o) /\ ordMgr[o] = "open"
                                       /\ \A b \in Actor : Sends(b, o) => b = a

\* An order the engine takes for open was sent or is about to be; so was one of which a
\* cancellation is about to be sent, unless it was cancelled in between.
OpenIsSent ==
  engMain # "down" => \A o \in Ord : ordMgr[o] = "open" => Sent(o) \/ \E a \in Actor : Sends(a, o)
CancelsSent ==
  \A a \in Actor, o \in Ord \ crossed : doingOfEng[a].pc = "send" /\ doingOfEng[a].what = <<"cancel", o>> => Sent(o)
CancelledAfter ==
  \A o \in Ord \ crossed, n \in 1 .. Len(toTDSrv) :
    toTDSrv[n] = <<"cancel", o>> => \E m \in SentOf(o) : m < n

EngInv ==
  /\ EngTypeOK /\ DownIsIdle /\ SentIfKnown /\ SendsOnce /\ OpenIsSent /\ CancelsSent /\ CancelledAfter

EngNext == EngCommon \/ EngCallbacks \/ EngRequests
LEMMA EngStepOrNot == Next => EngNext \/ UNCHANGED engVars
BY DEF Next, ProcStep, UserStep, SqlStep, TimerStep, DispatcherStep, CallbackStep, RequestStep,
       OtherVars, EngNext

LEMMA EngFacts ==
  /\ NoDoing.pc = "none" /\ \A o : NoDoing.what # <<"order", o>>
  /\ \A a \in Actor : NothingDone[a] = NoDoing
  /\ \A t \in Thread : NoQueue[t] = <<>> /\ t \in Actor
  /\ Web \in Actor
BY DEF NoDoing, NothingDone, NoQueue, Actor

LEMMA EngInitInv == EngInit => EngInv
<1> SUFFICES ASSUME EngInit PROVE EngInv
  OBVIOUS
<1>1. /\ engMain = "down" /\ connected = FALSE /\ toTDSrv = <<>> /\ webMsgs = <<>>
      /\ doingOfEng = NothingDone /\ queueOfInst = NoQueue
      /\ ordMgr = [o \in Ord |-> "none"] /\ row = [o \in Ord |-> "none"]
      /\ syncTaskGroup = {} /\ syncing = {}
  BY DEF EngInit
<1>2. EngTypeOK
  BY <1>1 DEF EngTypeOK, NothingDone, NoQueue
<1>3. \A o : ~Sent(o) /\ ~RetQueued(o) /\ SentOf(o) = {}
  BY <1>1, EngFacts DEF Sent, SentOf, RetQueued, In
<1>4. \A a \in Actor : \A o : doingOfEng[a].pc = "none" /\ ~Sends(a, o)
  BY <1>1, EngFacts DEF Sends
<1>5. DownIsIdle /\ SentIfKnown /\ SendsOnce /\ OpenIsSent
  BY <1>1, <1>3, <1>4 DEF DownIsIdle, SentIfKnown, SendsOnce, OpenIsSent
<1>6. CancelsSent /\ CancelledAfter
  BY <1>1, <1>4 DEF CancelsSent, CancelledAfter
<1> QED BY <1>2, <1>5, <1>6 DEF EngInv

LEMMA SentKept == ASSUME UNCHANGED toTDSrv PROVE \A o : SentOf(o)' = SentOf(o) /\ (Sent(o)' <=> Sent(o))
BY DEF SentOf, Sent

\* A step that sends nothing and begins nothing, and learns of orders that were sent only.
LEMMA EngKept ==
  ASSUME EngInv, EngTypeOK', DownIsIdle', UNCHANGED <<doingOfEng, toTDSrv, reused, crossed>>,
         engMain' # "down" => engMain # "down",
         \A o \in Ord : \/ Sent(o)
                        \/ /\ RetQueued(o)' => RetQueued(o)
                           /\ row'[o] = row[o] /\ ordMgr'[o] = ordMgr[o]
                           /\ <<"order", o>> \in syncTaskGroup' \cup syncing' =>
                              <<"order", o>> \in syncTaskGroup \cup syncing,
         \A o \in Ord : ordMgr'[o] = "open" => ordMgr[o] = "open"
  PROVE  EngInv'
<1> USE DEF EngInv
<1>1. \A o : SentOf(o)' = SentOf(o) /\ (Sent(o)' <=> Sent(o))
  BY SentKept
<1>2. \A a, o : Sends(a, o)' <=> Sends(a, o)
  BY DEF Sends
<1>3. SentIfKnown'
  BY <1>1 DEF SentIfKnown
<1>4. SendsOnce'
  BY <1>1, <1>2 DEF SendsOnce
<1>5. OpenIsSent'
  BY <1>1, <1>2 DEF OpenIsSent
<1>6. CancelsSent' /\ CancelledAfter'
  BY <1>1 DEF CancelsSent, CancelledAfter
<1> QED BY <1>3, <1>4, <1>5, <1>6

LEMMA StgInitInv == EngInv /\ doInit => EngInv'
<1> SUFFICES ASSUME EngInv, doInit PROVE EngInv'
  OBVIOUS
<1> USE DEF EngInv
<1>1. /\ engMain = "down" /\ engMain' = "init" /\ ordMgr' = [o \in Ord |-> IF row[o] = "open" THEN "open" ELSE "none"]
      /\ UNCHANGED <<connected, queueOfInst, doingOfEng, syncTaskGroup, syncing, row, toTDSrv, webMsgs,
                     reused, crossed>>
  BY DEF doInit, webVars, ghostVars
<1>2. EngTypeOK' /\ DownIsIdle'
  BY <1>1 DEF EngTypeOK, DownIsIdle
<1>3. /\ \A a \in Actor : doingOfEng[a].pc = "none"
      /\ \A o : RetQueued(o)' <=> RetQueued(o)
      /\ \A o : SentOf(o)' = SentOf(o) /\ (Sent(o)' <=> Sent(o))
  BY <1>1, EngFacts, SentKept DEF DownIsIdle, RetQueued
<1>4. SentIfKnown'
  BY <1>1, <1>3 DEF SentIfKnown
<1>5. \A a \in Actor : \A o : ~Sends(a, o)'
  BY <1>1, <1>3 DEF Sends
<1>6. SendsOnce'
  BY <1>1, <1>3, <1>5 DEF SendsOnce
<1>7. OpenIsSent'
  BY <1>1, <1>3 DEF OpenIsSent, SentIfKnown
<1>8. CancelsSent' /\ CancelledAfter'
  BY <1>1, <1>3 DEF CancelsSent, CancelledAfter
<1> QED BY <1>2, <1>4, <1>6, <1>7, <1>8

LEMMA EndsInv == EngInv /\ Ends => EngInv'
<1> SUFFICES ASSUME EngInv, Ends PROVE EngInv'
  OBVIOUS
<1> USE DEF EngInv
<1>1. /\ engMain' = "down" /\ connected' = FALSE /\ queueOfInst' = NoQueue /\ doingOfEng' = NothingDone
      /\ syncTaskGroup' = {} /\ syncing' = {} /\ webMsgs' = <<>>
      /\ UNCHANGED <<ordMgr, row, toTDSrv, reused, crossed>>
  BY DEF Ends
<1>2. EngTypeOK' /\ DownIsIdle'
  BY <1>1 DEF EngTypeOK, DownIsIdle, NoQueue, NothingDone
<1>3. /\ \A a \in Actor : doingOfEng'[a].pc = "none"
      /\ \A o : ~RetQueued(o)'
      /\ \A o : SentOf(o)' = SentOf(o) /\ (Sent(o)' <=> Sent(o))
  BY <1>1, EngFacts, SentKept DEF RetQueued, In
<1>4. SentIfKnown'
  BY <1>1, <1>3 DEF SentIfKnown
<1>5. \A a \in Actor : \A o : ~Sends(a, o)'
  BY <1>3 DEF Sends
<1>6. SendsOnce' /\ OpenIsSent'
  BY <1>1, <1>3, <1>5 DEF SendsOnce, OpenIsSent
<1>7. CancelsSent' /\ CancelledAfter'
  BY <1>1, <1>3 DEF CancelsSent, CancelledAfter
<1> QED BY <1>2, <1>4, <1>6, <1>7

\* A task is put at the end of a queue.
LEMMA DispatchAppends ==
  ASSUME NEW q \in [Thread -> Seq(EngTask)], NEW todo \in EngTask
  PROVE  /\ dispatch(q, todo) \in [Thread -> Seq(EngTask)]
         /\ \A t \in Thread : \A k : In(k, dispatch(q, todo)[t]) => In(k, q[t]) \/ k = todo
<1> DEFINE n == threadOf(InstOfTask(todo))
<1>1. dispatch(q, todo) = [q EXCEPT ![n] = Append(q[n], todo)]
  BY DEF dispatch
<1> HIDE DEF n
<1>2. ASSUME NEW t \in Thread
      PROVE  /\ dispatch(q, todo)[t] \in Seq(EngTask)
             /\ \A k : In(k, dispatch(q, todo)[t]) => In(k, q[t]) \/ k = todo
  <2>1. CASE t = n
    <3>1. dispatch(q, todo)[t] = Append(q[t], todo)
      BY <1>1, <1>2, <2>1
    <3> QED BY <3>1, <1>2, InAppend
  <2>2. CASE t # n
    <3>1. dispatch(q, todo)[t] = q[t]
      BY <1>1, <1>2, <2>2
    <3> QED BY <3>1, <1>2
  <2> QED BY <2>1, <2>2
<1>3. dispatch(q, todo) = [t \in Thread |-> dispatch(q, todo)[t]]
  BY <1>1
<1> QED BY <1>2, <1>3

LEMMA StgRunInv == EngInv /\ doRun => EngInv'
<1> SUFFICES ASSUME EngInv, doRun PROVE EngInv'
  OBVIOUS
<1>1. /\ engMain = "init" /\ engMain' \in {"barrier", "down"} /\ (engMain' = "down" => connected' = connected)
      /\ UNCHANGED <<doingOfEng, ordMgr, syncTaskGroup, syncing, row, toTDSrv, webMsgs, reused, crossed>>
      /\ queueOfInst' = queueOfInst \/ queueOfInst' = dispatch(queueOfInst, <<"start">>)
  BY DEF doRun, webVars, ghostVars
<1>2. queueOfInst' \in [Thread -> Seq(EngTask)] /\ \A o : RetQueued(o)' => RetQueued(o)
  <2>1. <<"start">> \in EngTask /\ \A o : <<"ret", o>> # <<"start">>
    BY DEF EngTask
  <2>2. queueOfInst \in [Thread -> Seq(EngTask)]
    BY DEF EngInv, EngTypeOK
  <2> QED BY <1>1, <2>1, <2>2, DispatchAppends DEF RetQueued
<1>3. EngTypeOK' /\ DownIsIdle'
  BY <1>1, <1>2 DEF EngInv, EngTypeOK, DownIsIdle
<1> QED BY <1>1, <1>2, <1>3, EngKept

LEMMA EngThreadsInv ==
  ASSUME EngInv,
         \/ \E i \in StgInst : StgInstIsDeleted(i)
         \/ handleSyncTaskGroup \/ SyncToDB \/ doExit \/ StopClients
         \/ \E r \in Req : handleMsgOrder(r)
         \/ handleMsgIdOnManualOrderRet
  PROVE  EngInv'
<1>1. /\ UNCHANGED <<queueOfInst, doingOfEng, ordMgr, toTDSrv, reused, crossed>>
      /\ engMain' = engMain \/ (engMain \in {"running", "exit"} /\ engMain' \in {"exit", "drain"})
      /\ connected' => connected
      /\ row' = row \/ row' = [o \in Ord |-> IF <<"order", o>> \in syncing /\ row[o] = "none" THEN "open" ELSE row[o]]
      /\ syncTaskGroup' \cup syncing' \subseteq syncTaskGroup \cup syncing
  BY DEF StgInstIsDeleted, handleSyncTaskGroup, SyncToDB, doExit, StopClients, handleMsgOrder,
         handleMsgIdOnManualOrderRet, webVars, ghostVars
<1>2. webMsgs' \in Seq(Req)
  <2>1. webMsgs \in Seq(Req)
    BY DEF EngInv, EngTypeOK
  <2>2. CASE \E r \in Req : handleMsgOrder(r)
    <3>1. PICK r \in Req : handleMsgOrder(r)
      BY <2>2
    <3>2. webMsgs' = webMsgs \/ webMsgs' = Append(webMsgs, r)
      BY <3>1 DEF handleMsgOrder
    <3>3. Append(webMsgs, r) \in Seq(Req)
      BY <2>1
    <3> QED BY <2>1, <3>2, <3>3
  <2>3. CASE ~\E r \in Req : handleMsgOrder(r)
    <3>1. webMsgs' = webMsgs \/ webMsgs' = <<>>
      BY <2>3 DEF StgInstIsDeleted, handleSyncTaskGroup, SyncToDB, doExit, StopClients,
             handleMsgIdOnManualOrderRet, webVars
    <3>2. <<>> \in Seq(Req)
      OBVIOUS
    <3> QED BY <2>1, <3>1, <3>2
  <2> QED BY <2>2, <2>3
<1>3. EngTypeOK' /\ DownIsIdle'
  BY <1>1, <1>2 DEF EngInv, EngTypeOK, DownIsIdle
<1>4. \A o \in Ord : /\ RetQueued(o)' <=> RetQueued(o)
                     /\ row'[o] # row[o] => <<"order", o>> \in syncing
  BY <1>1 DEF RetQueued, EngInv, EngTypeOK
<1>5. engMain' # "down" => engMain # "down"
  BY <1>1
<1>6. \A o \in Ord : \/ Sent(o)
                     \/ /\ RetQueued(o)' => RetQueued(o)
                        /\ row'[o] = row[o] /\ ordMgr'[o] = ordMgr[o]
                        /\ <<"order", o>> \in syncTaskGroup' \cup syncing' =>
                           <<"order", o>> \in syncTaskGroup \cup syncing
  BY <1>1, <1>4 DEF EngInv, SentIfKnown
<1> QED BY <1>1, <1>3, <1>5, <1>6, EngKept

LEMMA HandleTaskInv ==
  ASSUME EngInv, NEW t \in Thread, handleAsyncTask(t)
  PROVE  EngInv'
<1> DEFINE todo == Head(queueOfInst[t])
<1>1. /\ UNCHANGED <<connected, doingOfEng, syncTaskGroup, syncing, row, toTDSrv, webMsgs, reused, crossed>>
      /\ engMain \in {"barrier", "running", "exit", "drain"}
      /\ engMain' \in {"barrier", "running", "exit", "drain"}
      /\ queueOfInst[t] # <<>> /\ queueOfInst' = [queueOfInst EXCEPT ![t] = Tail(queueOfInst[t])]
      /\ \/ ordMgr' = ordMgr
         \/ /\ todo[1] # "start"
            /\ ordMgr' = [ordMgr EXCEPT ![todo[2]] = IF @ = "open" THEN "closed" ELSE @]
  BY DEF handleAsyncTask, Works, webVars, ghostVars
<1>2. queueOfInst[t] \in Seq(EngTask) /\ queueOfInst \in [Thread -> Seq(EngTask)]
  BY DEF EngInv, EngTypeOK
<1>3. /\ Tail(queueOfInst[t]) \in Seq(EngTask) /\ todo \in EngTask /\ In(todo, queueOfInst[t])
      /\ \A k : In(k, queueOfInst[t]) <=> In(k, Tail(queueOfInst[t])) \/ k = todo
  BY <1>1, <1>2, InTail
<1> HIDE DEF todo
<1>4. todo[1] # "start" => \E o \in Ord : todo = <<"ret", o>>
  BY <1>3 DEF EngTask
<1>5. \/ ordMgr' = ordMgr
      \/ \E o \in Ord : /\ RetQueued(o)
                        /\ ordMgr' = [ordMgr EXCEPT ![o] = IF @ = "open" THEN "closed" ELSE @]
  <2>1. CASE ordMgr' = ordMgr
    BY <2>1
  <2>2. CASE /\ todo[1] # "start"
             /\ ordMgr' = [ordMgr EXCEPT ![todo[2]] = IF @ = "open" THEN "closed" ELSE @]
    <3>1. PICK o \in Ord : todo = <<"ret", o>>
      BY <1>4, <2>2
    <3>2. todo[2] = o
      BY <3>1
    <3>3. RetQueued(o)
      BY <1>3, <3>1 DEF RetQueued
    <3> QED BY <2>2, <3>2, <3>3
  <2> QED BY <1>1, <2>1, <2>2
<1>6. \A o : RetQueued(o) => Sent(o) \/ o \notin Ord
  BY DEF EngInv, SentIfKnown
<1>7. /\ queueOfInst' \in [Thread -> Seq(EngTask)]
      /\ \A o : RetQueued(o)' => RetQueued(o)
  <2>1. queueOfInst' \in [Thread -> Seq(EngTask)]
    BY <1>1, <1>2, <1>3
  <2>2. \A u \in Thread : \A k : In(k, queueOfInst'[u]) => In(k, queueOfInst[u])
    BY <1>1, <1>2, <1>3
  <2> QED BY <2>1, <2>2 DEF RetQueued
<1>8. EngTypeOK' /\ DownIsIdle'
  BY <1>1, <1>5, <1>7 DEF EngInv, EngTypeOK, DownIsIdle
<1>9. \A o \in Ord : /\ ordMgr'[o] = ordMgr[o] \/ Sent(o)
                     /\ ordMgr'[o] = "open" => ordMgr[o] = "open"
  BY <1>5, <1>6 DEF EngInv, EngTypeOK
<1> QED BY <1>1, <1>7, <1>8, <1>9, EngKept

LEMMA TDSrvFinishesInv ==
  ASSUME EngInv, NEW o \in Ord, TDSrvFinishes(o)
  PROVE  EngInv'
<1>1. /\ UNCHANGED <<engMain, connected, doingOfEng, ordMgr, syncTaskGroup, syncing, toTDSrv, webMsgs, reused, crossed>>
      /\ Sent(o) /\ row' = [row EXCEPT ![o] = "closed"]
      /\ queueOfInst' = queueOfInst \/ queueOfInst' = dispatch(queueOfInst, <<"ret", o>>)
  BY DEF TDSrvFinishes, Sent, webVars, ghostVars
<1>2. queueOfInst' \in [Thread -> Seq(EngTask)] /\ \A x \in Ord : RetQueued(x)' => RetQueued(x) \/ x = o
  <2>1. <<"ret", o>> \in EngTask /\ \A x : <<"ret", x>> = <<"ret", o>> => x = o
    BY DEF EngTask
  <2>2. queueOfInst \in [Thread -> Seq(EngTask)]
    BY DEF EngInv, EngTypeOK
  <2> QED BY <1>1, <2>1, <2>2, DispatchAppends DEF RetQueued
<1>3. EngTypeOK' /\ DownIsIdle' /\ \A x \in Ord : x = o \/ row'[x] = row[x]
  BY <1>1, <1>2 DEF EngInv, EngTypeOK, DownIsIdle
<1> QED BY <1>1, <1>2, <1>3, EngKept

LEMMA OrderInv ==
  ASSUME EngInv, NEW a \in Actor, NEW o \in Ord, NEW r \in Req \cup {NoReq}, order(a, o, r), Calls(a),
         engMain \notin {"down", "init"}, webMsgs' \in Seq(Req),
         UNCHANGED <<engMain, connected, queueOfInst, syncTaskGroup, syncing, row, toTDSrv>>
  PROVE  EngInv'
<1> USE DEF EngInv
<1>1. CASE UNCHANGED <<ordMgr, reused, crossed, doingOfEng>>
  <2>1. EngTypeOK' /\ DownIsIdle' /\ \A x : RetQueued(x)' <=> RetQueued(x)
    BY <1>1 DEF EngTypeOK, DownIsIdle, RetQueued
  <2> QED BY <1>1, <2>1, EngKept
<1>2. CASE ~UNCHANGED <<ordMgr, reused, crossed, doingOfEng>>
  <2> DEFINE b == [pc |-> "send", what |-> <<"order", o>>, req |-> r]
  <2>1. /\ ordMgr[o] # "open" /\ ordMgr' = [ordMgr EXCEPT ![o] = "open"]
        /\ reused' = IF SentOf(o) # {} THEN reused \cup {o} ELSE reused
        /\ doingOfEng' = [doingOfEng EXCEPT ![a] = b] /\ crossed' = crossed
    BY <1>2 DEF order, Begin
  <2>2. /\ b \in [pc : {"send", "cache"}, what : Said, req : Req \cup {NoReq}]
        /\ b.pc = "send" /\ b.what = <<"order", o>>
    BY DEF Said
  <2> HIDE DEF b
  <2>3. /\ \A c \in Actor : doingOfEng'[c] = IF c = a THEN b ELSE doingOfEng[c]
        /\ \A x \in Ord : ordMgr'[x] = IF x = o THEN "open" ELSE ordMgr[x]
        /\ EngTypeOK' /\ DownIsIdle'
    BY <2>1, <2>2 DEF EngTypeOK, DownIsIdle
  <2>4. /\ \A x : SentOf(x)' = SentOf(x) /\ (Sent(x)' <=> Sent(x))
        /\ \A x : RetQueued(x)' <=> RetQueued(x)
    BY SentKept DEF RetQueued
  <2>5. \A x : <<"order", x>> # <<"cancel", o>> /\ <<"cancel", x>> # <<"order", o>>
        /\ (<<"order", x>> = <<"order", o>> <=> x = o)
    OBVIOUS
  <2>6. \A c \in Actor : \A x : Sends(c, x)' <=> (IF c = a THEN x = o ELSE Sends(c, x))
    BY <2>2, <2>3, <2>5 DEF Sends
  <2>7. \A x : ~Sends(a, x)
    BY DEF Calls, Sends
  <2>8. SentIfKnown'
    BY <2>2, <2>3, <2>4 DEF SentIfKnown
  <2>9. SendsOnce'
    <3> SUFFICES ASSUME NEW x \in Ord \ reused'
                 PROVE  /\ \A m, n \in SentOf(x) : m = n
                        /\ \A c \in Actor : Sends(c, x)' => /\ ~Sent(x) /\ ordMgr'[x] = "open"
                                                            /\ \A d \in Actor : Sends(d, x)' => d = c
      BY <2>4 DEF SendsOnce
    <3>1. x \notin reused /\ (x = o => ~Sent(o))
      BY <2>1 DEF Sent
    <3>2. x = o => \A c \in Actor : ~Sends(c, o)
      BY <2>1, <3>1 DEF SendsOnce
    <3> QED BY <2>3, <2>6, <3>1, <3>2 DEF SendsOnce
  <2>10. OpenIsSent'
    BY <2>3, <2>4, <2>6, <2>7 DEF OpenIsSent
  <2>11. CancelsSent' /\ CancelledAfter'
    BY <2>1, <2>2, <2>3, <2>4, <2>5 DEF CancelsSent, CancelledAfter
  <2> QED BY <2>3, <2>8, <2>9, <2>10, <2>11
<1> QED BY <1>1, <1>2

LEMMA CancelOrderInv ==
  ASSUME EngInv, NEW a \in Actor, NEW o \in Ord, NEW r \in Req \cup {NoReq}, cancelOrder(a, o, r), Calls(a),
         engMain \notin {"down", "init"}, webMsgs' \in Seq(Req),
         UNCHANGED <<engMain, connected, queueOfInst, syncTaskGroup, syncing, row, toTDSrv>>
  PROVE  EngInv'
<1> USE DEF EngInv
<1>1. CASE UNCHANGED <<ordMgr, reused, crossed, doingOfEng>>
  <2>1. EngTypeOK' /\ DownIsIdle' /\ \A x : RetQueued(x)' <=> RetQueued(x)
    BY <1>1 DEF EngTypeOK, DownIsIdle, RetQueued
  <2> QED BY <1>1, <2>1, EngKept
<1>2. CASE ~UNCHANGED <<ordMgr, reused, crossed, doingOfEng>>
  <2> DEFINE b == [pc |-> "send", what |-> <<"cancel", o>>, req |-> r]
  <2>1. /\ ordMgr[o] = "open" /\ UNCHANGED <<ordMgr, reused>>
        /\ crossed \subseteq crossed' /\ (o \notin crossed' => \A c \in Actor : ~Sends(c, o))
        /\ doingOfEng' = [doingOfEng EXCEPT ![a] = b]
    BY <1>2 DEF cancelOrder, Begin, Sends
  <2>2. /\ b \in [pc : {"send", "cache"}, what : Said, req : Req \cup {NoReq}]
        /\ b.pc = "send" /\ b.what = <<"cancel", o>>
    BY DEF Said
  <2> HIDE DEF b
  <2>3. /\ \A c \in Actor : doingOfEng'[c] = IF c = a THEN b ELSE doingOfEng[c]
        /\ EngTypeOK' /\ DownIsIdle'
    BY <2>1, <2>2 DEF EngTypeOK, DownIsIdle
  <2>4. /\ \A x : SentOf(x)' = SentOf(x) /\ (Sent(x)' <=> Sent(x))
        /\ \A x : RetQueued(x)' <=> RetQueued(x)
    BY SentKept DEF RetQueued
  <2>5. \A x : <<"order", x>> # <<"cancel", o>> /\ (<<"cancel", x>> = <<"cancel", o>> <=> x = o)
    OBVIOUS
  <2>6. \A x : ~Sends(a, x)
    BY DEF Calls, Sends
  <2>7. \A c \in Actor : \A x : Sends(c, x)' <=> Sends(c, x)
    BY <2>2, <2>3, <2>5, <2>6 DEF Sends
  <2>8. SentIfKnown'
    BY <2>2, <2>3, <2>4 DEF SentIfKnown
  <2>9. SendsOnce' /\ OpenIsSent'
    BY <2>1, <2>4, <2>7 DEF SendsOnce, OpenIsSent
  <2>10. CancelsSent'
    <3> SUFFICES ASSUME NEW c \in Actor, NEW x \in Ord \ crossed', doingOfEng'[c].pc = "send",
                        doingOfEng'[c].what = <<"cancel", x>>
                 PROVE  Sent(x)
      BY <2>4 DEF CancelsSent
    <3>1. CASE c = a
      <4>1. x = o
        BY <2>2, <2>3, <2>5, <3>1
      <4> QED BY <2>1, <4>1 DEF OpenIsSent
    <3>2. CASE c # a
      BY <2>1, <2>3, <3>2 DEF CancelsSent
    <3> QED BY <3>1, <3>2
  <2>11. CancelledAfter'
    BY <2>1, <2>4 DEF CancelledAfter
  <2> QED BY <2>3, <2>8, <2>9, <2>10, <2>11
<1> QED BY <1>1, <1>2

LEMMA AsyncSendInv ==
  ASSUME EngInv, NEW a \in Actor, asyncSendMsgWithZeroCopy(a)
  PROVE  EngInv'
<1> USE DEF EngInv
<1> DEFINE w == doingOfEng[a].what
           q == Append(toTDSrv, w)
           b == [doingOfEng[a] EXCEPT !.pc = "cache"]
<1>1. /\ doingOfEng[a].pc = "send" /\ connected /\ toTDSrv' = q /\ doingOfEng' = [doingOfEng EXCEPT ![a] = b]
      /\ UNCHANGED <<engMain, connected, queueOfInst, ordMgr, syncTaskGroup, syncing, row, webMsgs, reused, crossed>>
  BY DEF asyncSendMsgWithZeroCopy, webVars, ghostVars
<1>2. doingOfEng[a] \in [pc : {"send", "cache"}, what : Said, req : Req \cup {NoReq}]
  BY <1>1, EngFacts DEF EngTypeOK
<1>3. /\ b \in [pc : {"send", "cache"}, what : Said, req : Req \cup {NoReq}]
      /\ b.pc = "cache" /\ b.what = w /\ w \in Said
  BY <1>2
<1>4. /\ q \in Seq(Said) /\ Len(q) = Len(toTDSrv) + 1 /\ Len(toTDSrv) \in Nat
      /\ \A n \in 1 .. Len(q) : q[n] = IF n = Len(toTDSrv) + 1 THEN w ELSE toTDSrv[n]
  BY <1>3 DEF EngTypeOK
<1> HIDE DEF b, q
<1>5. \A c \in Actor : doingOfEng'[c] = IF c = a THEN b ELSE doingOfEng[c]
  BY <1>1 DEF EngTypeOK
<1>6. EngTypeOK' /\ DownIsIdle'
  BY <1>1, <1>3, <1>4 DEF EngTypeOK, DownIsIdle
<1>7. \A o : SentOf(o)' = SentOf(o) \cup (IF w = <<"order", o>> THEN {Len(toTDSrv) + 1} ELSE {})
  BY <1>1, <1>4 DEF SentOf
<1>8. \A o : (Sent(o)' <=> Sent(o) \/ w = <<"order", o>>) /\ (RetQueued(o)' <=> RetQueued(o))
  BY <1>1, <1>7 DEF Sent, RetQueued
<1>9. \A c \in Actor : \A o : Sends(c, o)' <=> Sends(c, o) /\ c # a
  BY <1>3, <1>5 DEF Sends
<1>10. \A o : Sends(a, o) <=> w = <<"order", o>>
  BY <1>1 DEF Sends
<1>11. SentIfKnown'
  <2> SUFFICES ASSUME NEW o \in Ord, ~Sent(o)'
               PROVE  /\ ~RetQueued(o)' /\ row'[o] = "none" /\ <<"order", o>> \notin syncTaskGroup' \cup syncing'
                      /\ \A c \in Actor : ~(doingOfEng'[c].pc = "cache" /\ doingOfEng'[c].what = <<"order", o>>)
    BY DEF SentIfKnown
  <2>1. ~Sent(o) /\ w # <<"order", o>>
    BY <1>8
  <2>2. /\ ~RetQueued(o) /\ row[o] = "none" /\ <<"order", o>> \notin syncTaskGroup \cup syncing
        /\ \A c \in Actor : ~(doingOfEng[c].pc = "cache" /\ doingOfEng[c].what = <<"order", o>>)
    BY <2>1 DEF SentIfKnown
  <2> HIDE DEF w
  <2> QED BY <1>1, <1>3, <1>5, <1>8, <2>1, <2>2
<1>12. SendsOnce'
  <2> SUFFICES ASSUME NEW o \in Ord \ reused
               PROVE  /\ \A m, n \in SentOf(o)' : m = n
                      /\ \A c \in Actor : Sends(c, o)' => /\ ~Sent(o)' /\ ordMgr[o] = "open"
                                                          /\ \A d \in Actor : Sends(d, o)' => d = c
    BY <1>1 DEF SendsOnce
  <2>1. CASE w = <<"order", o>>
    <3>1. ~Sent(o) /\ \A c \in Actor : Sends(c, o) => c = a
      BY <1>10, <2>1 DEF SendsOnce
    <3>2. SentOf(o) = {} /\ SentOf(o)' = {Len(toTDSrv) + 1}
      BY <1>7, <2>1, <3>1 DEF Sent
    <3> QED BY <1>9, <3>1, <3>2
  <2>2. CASE w # <<"order", o>>
    <3>1. SentOf(o)' = SentOf(o)
      BY <1>7, <2>2
    <3> QED BY <1>8, <1>9, <2>2, <3>1 DEF SendsOnce
  <2> QED BY <2>1, <2>2
<1>13. OpenIsSent'
  BY <1>1, <1>8, <1>9, <1>10 DEF OpenIsSent
<1>14. CancelsSent'
  BY <1>1, <1>3, <1>5, <1>8 DEF CancelsSent
<1>15. CancelledAfter'
  <2> SUFFICES ASSUME NEW o \in Ord \ crossed, NEW n \in 1 .. Len(q), q[n] = <<"cancel", o>>
               PROVE  \E m \in SentOf(o)' : m < n
    BY <1>1 DEF CancelledAfter
  <2>1. CASE n = Len(toTDSrv) + 1
    <3>1. Sent(o)
      BY <1>1, <1>4, <2>1 DEF CancelsSent
    <3>2. PICK m \in SentOf(o) : TRUE
      BY <3>1 DEF Sent
    <3>3. m \in SentOf(o)'
      BY <1>7, <3>2
    <3>4. m \in 1 .. Len(toTDSrv)
      BY <3>2 DEF SentOf
    <3>5. m < n
      BY <1>4, <2>1, <3>4
    <3> QED BY <3>3, <3>5
  <2>2. CASE n # Len(toTDSrv) + 1
    <3>1. n \in 1 .. Len(toTDSrv) /\ toTDSrv[n] = <<"cancel", o>>
      BY <1>4, <2>2
    <3> QED BY <1>7, <3>1 DEF CancelledAfter
  <2> QED BY <2>1, <2>2
<1> QED BY <1>6, <1>11, <1>12, <1>13, <1>14, <1>15

LEMMA CacheSyncTaskInv ==
  ASSUME EngInv, NEW a \in Actor, cacheSyncTaskGroup(a)
  PROVE  EngInv'
<1> USE DEF EngInv
<1>1. /\ doingOfEng[a].pc = "cache" /\ doingOfEng' = [doingOfEng EXCEPT ![a] = NoDoing]
      /\ syncTaskGroup' = syncTaskGroup \cup {doingOfEng[a].what}
      /\ UNCHANGED <<engMain, connected, queueOfInst, ordMgr, syncing, row, toTDSrv, webMsgs, reused, crossed>>
  BY DEF cacheSyncTaskGroup, ghostVars
<1>2. \A c \in Actor : doingOfEng'[c] = IF c = a THEN NoDoing ELSE doingOfEng[c]
  BY <1>1 DEF EngTypeOK
<1>3. EngTypeOK' /\ DownIsIdle'
  BY <1>1, EngFacts DEF EngTypeOK, DownIsIdle
<1>4. /\ \A x : SentOf(x)' = SentOf(x) /\ (Sent(x)' <=> Sent(x))
      /\ \A x : RetQueued(x)' <=> RetQueued(x)
  BY <1>1, SentKept DEF RetQueued
<1>5. \A c \in Actor : \A o : Sends(c, o)' <=> Sends(c, o)
  BY <1>1, <1>2, EngFacts DEF Sends
<1>6. SentIfKnown'
  <2> SUFFICES ASSUME NEW o \in Ord, ~Sent(o)'
               PROVE  /\ ~RetQueued(o)' /\ row'[o] = "none" /\ <<"order", o>> \notin syncTaskGroup' \cup syncing'
                      /\ \A c \in Actor : ~(doingOfEng'[c].pc = "cache" /\ doingOfEng'[c].what = <<"order", o>>)
    BY DEF SentIfKnown
  <2>1. ~Sent(o)
    BY <1>4
  <2>2. /\ ~RetQueued(o) /\ row[o] = "none" /\ <<"order", o>> \notin syncTaskGroup \cup syncing
        /\ \A c \in Actor : ~(doingOfEng[c].pc = "cache" /\ doingOfEng[c].what = <<"order", o>>)
    BY <2>1 DEF SentIfKnown
  <2> QED BY <1>1, <1>2, <1>4, <2>2, EngFacts
<1>7. SendsOnce' /\ OpenIsSent'
  BY <1>1, <1>4, <1>5 DEF SendsOnce, OpenIsSent
<1>8. CancelsSent' /\ CancelledAfter'
  BY <1>1, <1>2, <1>4, EngFacts DEF CancelsSent, CancelledAfter
<1> QED BY <1>3, <1>6, <1>7, <1>8

LEMMA ManualInv == EngInv /\ handleStgManualOrder => EngInv'
<1> SUFFICES ASSUME EngInv, handleStgManualOrder PROVE EngInv'
  OBVIOUS
<1> DEFINE r == Head(webMsgs)
<1>1. webMsgs \in Seq(Req) /\ webMsgs # <<>> /\ Calls(Web) /\ connected /\ webMsgs' = Tail(webMsgs)
      /\ UNCHANGED <<engMain, connected, queueOfInst, syncTaskGroup, syncing, row, toTDSrv>>
  BY DEF EngInv, EngTypeOK, handleStgManualOrder
<1>2. r \in Req /\ webMsgs' \in Seq(Req) /\ engMain \notin {"down", "init"}
  BY <1>1 DEF EngInv, DownIsIdle
<1>3. BodyOf[r][2] \in Ord /\ Web \in Actor
  BY <1>2, OrdersApart DEF Actor
<1>4. order(Web, BodyOf[r][2], r) \/ cancelOrder(Web, BodyOf[r][2], r)
  BY DEF handleStgManualOrder
<1> QED BY <1>1, <1>2, <1>3, <1>4, OrderInv, CancelOrderInv

LEMMA CallbackInv ==
  ASSUME EngInv, NEW t \in Thread, NEW o \in Ord, CallbackOrders(t, o) \/ CallbackCancels(t, o)
  PROVE  EngInv'
<1>1. /\ engMain \notin {"down", "init"} /\ Calls(t) /\ webMsgs' = webMsgs /\ webMsgs \in Seq(Req) /\ t \in Actor
      /\ UNCHANGED <<engMain, connected, queueOfInst, syncTaskGroup, syncing, row, toTDSrv>>
      /\ order(t, o, NoReq) \/ cancelOrder(t, o, NoReq)
  BY DEF CallbackOrders, CallbackCancels, Works, EngInv, EngTypeOK, Actor
<1> QED BY <1>1, OrderInv, CancelOrderInv

LEMMA EngNextInv == EngInv /\ EngNext => EngInv'
<1> SUFFICES ASSUME EngInv, EngNext PROVE EngInv'
  OBVIOUS
<1>1. CASE EngWorks
  <2>1. CASE doRun
    BY <2>1, StgRunInv
  <2>2. CASE handleSyncTaskGroup \/ SyncToDB \/ StopClients
    BY <2>2, EngThreadsInv
  <2>3. CASE DispatcherStopped
    BY <2>3, EndsInv DEF DispatcherStopped
  <2>4. CASE \E t \in Thread : handleAsyncTask(t)
    BY <2>4, HandleTaskInv
  <2>5. CASE \E a \in Actor : asyncSendMsgWithZeroCopy(a) \/ SendsThroughNoClient(a) \/ cacheSyncTaskGroup(a)
    BY <2>5, AsyncSendInv, EndsInv, CacheSyncTaskInv DEF SendsThroughNoClient
  <2> QED BY <1>1, <2>1, <2>2, <2>3, <2>4, <2>5 DEF EngWorks
<1>2. CASE EngCommon /\ ~EngWorks
  <2>1. CASE doInit \/ doExit
    BY <2>1, StgInitInv, EngThreadsInv
  <2>2. CASE KillEng
    BY <2>2, EndsInv DEF KillEng
  <2>3. CASE \E o \in Ord : TDSrvFinishes(o)
    BY <2>3, TDSrvFinishesInv
  <2> QED BY <1>2, <2>1, <2>2, <2>3 DEF EngCommon
<1>3. CASE EngCallbacks
  BY <1>3, CallbackInv, EngThreadsInv DEF EngCallbacks
<1>4. CASE EngRequests
  BY <1>4, ManualInv, EngThreadsInv DEF EngRequests
<1> QED BY <1>1, <1>2, <1>3, <1>4 DEF EngNext

LEMMA EngUnchangedInv == EngInv /\ UNCHANGED engVars => EngInv'
<1> SUFFICES ASSUME EngInv, UNCHANGED engVars PROVE EngInv'
  OBVIOUS
<1>1. UNCHANGED <<engMain, connected, queueOfInst, doingOfEng, ordMgr, syncTaskGroup, syncing, row, toTDSrv,
                  webMsgs, reused, crossed>>
  BY DEF engVars
<1>2. EngTypeOK' /\ DownIsIdle' /\ \A x : RetQueued(x)' <=> RetQueued(x)
  BY <1>1 DEF EngInv, EngTypeOK, DownIsIdle, RetQueued
<1> QED BY <1>1, <1>2, EngKept

LEMMA EngInvOnce == EngInv => SentOnce
<1> SUFFICES ASSUME EngInv PROVE SentOnce
  OBVIOUS
<1>1. ASSUME NEW o \in Ord \ reused PROVE Cardinality(SentOf(o)) <= 1
  BY OneAtMost DEF EngInv, SendsOnce
<1>2. ASSUME NEW n \in 1 .. Len(toTDSrv), toTDSrv[n][1] = "cancel", toTDSrv[n][2] \notin crossed
      PROVE  \E m \in SentOf(toTDSrv[n][2]) : m < n
  <2>1. toTDSrv[n] \in Said
    BY DEF EngInv, EngTypeOK
  <2>2. toTDSrv[n] = <<"cancel", toTDSrv[n][2]>> /\ toTDSrv[n][2] \in Ord
    BY <1>2, <2>1 DEF Said
  <2> QED BY <1>2, <2>2 DEF EngInv, CancelledAfter
<1> QED BY <1>1, <1>2 DEF SentOnce

-----------------------------------------------------------------------------
\* An order is sent once and a cancellation after it (StgEngImpl: the strategy's thread and
\* the web server's place them); a task of a dispatcher is handled once, and all that was
\* enqueued before the stop has been when it returns (TaskDispatcher.hpp); a timer of a fixed
\* time fires once, and one of an interval at most once after it was uninstalled.
THEOREM ServedOnce == Spec => []HandledOnce
<1> DEFINE OnceInv == EngInv /\ DispatcherInv /\ TimerInv
<1>1. Init => OnceInv
  BY EngInitInv, DispatcherInitInv, TimerInitInv DEF Init
<1>2. OnceInv /\ [Next]_vars => OnceInv'
  <2>1. ASSUME OnceInv, [Next]_vars PROVE EngInv'
    BY <2>1, EngStepOrNot, EngNextInv, EngUnchangedInv DEF vars
  <2>2. ASSUME OnceInv, [Next]_vars PROVE DispatcherInv'
    BY <2>2, DispatcherStepOrNot, DispatcherNextInv, DispatcherUnchangedInv DEF vars
  <2>3. ASSUME OnceInv, [Next]_vars PROVE TimerInv'
    BY <2>3, TimerStepOrNot, TimerNextInv, TimerUnchangedInv DEF vars
  <2> QED BY <2>1, <2>2, <2>3
<1>3. OnceInv => HandledOnce
  BY EngInvOnce, DispatcherInvDrained, TimerInvOnce DEF HandledOnce
<1> QED BY <1>1, <1>2, <1>3, PTL DEF Spec
=============================================================================
