------------------------------- MODULE RiskConf -------------------------------
(***************************************************************************)
(* How a change of the risk control tables reaches the threads of the      *)
(* trade server.  At the start every thread of every risk control module   *)
(* loads the rows of its step.  A monitor then reads the tables from time  *)
(* to time, compares them with what it read last and tells the first       *)
(* module of the rows added, deleted and changed; a thread gives what it   *)
(* is told to the managers of its step, and thread 0 passes it on to the   *)
(* next module.  The accounts that share positions are read again by       *)
(* OrderPreProc when the latest updateTime differs.                        *)
(*                                                                         *)
(* Three things are as the code has them: the first comparison of the      *)
(* monitor, with nothing, tells nobody, so a change between the load and   *)
(* it is missed for good; the manager of the pnl ranges has one entry per  *)
(* condition although the key of its table has the type of the pnl too;    *)
(* and deleting an account that is not the latest goes unnoticed.          *)
(*                                                                         *)
(* A row is a key and a value.  The monitor reads its tables one after the *)
(* other; nothing relates them, so a check is one step.  A query that      *)
(* fails, or an order with a monitored condition before the first pnl,     *)
(* is a null pointer: the process dies and is started again.               *)
(***************************************************************************)
EXTENDS Integers, Sequences, FiniteSets, FiniteSetsExt, SequencesExt

CONSTANTS
  FlowCtrlRule, TrdSymbolList, SelfTradeCtrlRange, PnlMonitorRange,  \* keys of the rows
  StepOf,       \* StepOf[k]: the step of a row
  Condition,    \* Condition[k]: what a row of PnlMonitorRange is about
  Value,        \* Value[k]: what else the row may have
  Step,         \* Step[m]: the step of module m, the modules being numbered from 1
  ThreadNum,    \* ThreadNum[m]: threads of module m, numbered from 0
  Acct,         \* accounts that may share positions
  InitDB,       \* the rows there are at the beginning, a function of their keys
  MaxChgs,      \* bound: changes of the tables
  MaxCrashes    \* bound: crashes

Key == FlowCtrlRule \cup TrdSymbolList \cup SelfTradeCtrlRange \cup PnlMonitorRange
ListKey == TrdSymbolList \cup SelfTradeCtrlRange

IsRows(rows) == DOMAIN rows \subseteq Key /\ \A k \in DOMAIN rows : rows[k] \in Value[k]

\* What the constants are; a module that instantiates this one assumes it.
RiskConfAssumption ==
  /\ StepOf \in [Key -> Range(Step)] /\ PnlMonitorRange = DOMAIN Condition
  /\ Step # << >> /\ ThreadNum \in [DOMAIN Step -> Nat \ {0}]
  /\ IsRows(InitDB) /\ MaxChgs \in Nat /\ MaxCrashes \in Nat

Module == DOMAIN Step
Thread == UNION {{m} \X (0 .. ThreadNum[m] - 1) : m \in Module}

VARIABLES
  db,         \* the rows in the database: a function of their keys
  accts,      \* the accounts in the database, each with its updateTime
  clock,      \* latest updateTime given
  snap,       \* tblRecSetOf...: the rows the monitor read last
  checkTimes, \* 1 once there was a check since the start
  updateTime, \* the latest updateTime the monitor knows
  queue,      \* queue[mt]: what thread mt has still to handle
  mgr,        \* mgr[mt]: the managers of thread mt; known holds the conditions that
              \* have a pnl once there was a snapshot, and nothing before
  acctGrp,    \* the accounts OrderPreProc knows
  reload,     \* tasks to reload them in the queue of OrderPreProc
  loaded,     \* ghost: the rows at the last start, until the first check
  missed,     \* ghost: rows that changed between the start and the first check
  clashed,    \* ghost: conditions that had two rows, at once or one after another
  bare,       \* ghost: steps that had no rule of flow control when the rows were read
  chgs, crashes

database == <<db, accts, clock, chgs>>
monitor == <<snap, checkTimes, updateTime>>
ghosts == <<loaded, missed, clashed, bare>>
vars == <<database, monitor, queue, mgr, acctGrp, reload, ghosts, crashes>>

Conds == {Condition[k] : k \in PnlMonitorRange}
OfCond(c, keys) == {k \in keys \cap PnlMonitorRange : Condition[k] = c}

\* What the managers of a thread may be loaded with from the rows of some keys: of
\* the pnl ranges of a condition the first counts, and any may be the first.
DBRow(k) == [key |-> k, value |-> db[k]]
LoadedRules(keys) == SetToSeq({DBRow(k) : k \in keys \cap FlowCtrlRule})
LoadedList(keys) == keys \cap ListKey
LoadedPnls(keys) ==
  LET conds == {c \in Conds : OfCond(c, keys) # {}}
  IN  {[c \in conds |-> DBRow(f[c])] :
         f \in {g \in [conds -> PnlMonitorRange] : \A c \in conds : g[c] \in OfCond(c, keys)}}

\* The managers of a thread of step s as they may be loaded.
Loaded(s) ==
  LET keys == {k \in DOMAIN db : StepOf[k] = s}
  IN  {[rules |-> LoadedRules(keys), list |-> LoadedList(keys), pnl |-> pnl,
        subscribed |-> DOMAIN pnl # {}, known |-> {}] : pnl \in LoadedPnls(keys)}

Bare(keys) == {s \in Range(Step) : ~\E k \in keys \cap FlowCtrlRule : StepOf[k] = s}
Clashing(keys) == {c \in Conds : Cardinality(OfCond(c, keys)) > 1}

\* What a start makes of the process.
Starts(mgrs) ==
  \E choice \in [Range(Step) -> UNION {Loaded(s) : s \in Range(Step)}] :
    /\ \A s \in Range(Step) : choice[s] \in Loaded(s)
    /\ mgrs = [mt \in Thread |-> choice[Step[mt[1]]]]

Init ==
  /\ db = InitDB /\ accts = << >> /\ clock = 0 /\ chgs = 0 /\ crashes = 0
  /\ snap = << >> /\ checkTimes = 0 /\ updateTime = 0
  /\ queue = [mt \in Thread |-> << >>] /\ Starts(mgr)
  /\ acctGrp = {} /\ reload = 0
  /\ loaded = db /\ missed = {} /\ clashed = Clashing(DOMAIN db) /\ bare = Bare(DOMAIN db)

-----------------------------------------------------------------------------
\* One notification [chg, key, value] given to the managers of a thread.
Row(n) == [key |-> n.key, value |-> n.value]
Notification(chg, k, value) == [chg |-> chg, key |-> k, value |-> value]

\* FlowCtrlRuleMgr: a multimap; the first rule that matches is erased.
EraseRule(rules, k) ==
  LET at == {i \in DOMAIN rules : rules[i].key = k}
  IN  IF at = {} THEN rules ELSE RemoveAt(rules, Min(at))

UpdateRules(m, n) ==
  CASE n.chg = "Add" -> [m EXCEPT !.rules = Append(@, Row(n))]
    [] n.chg = "Del" -> [m EXCEPT !.rules = EraseRule(@, n.key)]
    [] n.chg = "Chg" -> [m EXCEPT !.rules = Append(EraseRule(@, n.key), Row(n))]

\* TrdSymbolListMgr and SelfTradeCtrlRangeMgr: a set; a change deletes and adds.
UpdateList(m, n) ==
  CASE n.chg = "Add" -> [m EXCEPT !.list = @ \cup {n.key}]
    [] n.chg = "Del" -> [m EXCEPT !.list = @ \ {n.key}]
    [] n.chg = "Chg" -> m

\* PnlMonitorRangeMgr: one entry for a condition; what is there stays, and the
\* row that is deleted need not be the one that is there.
AddPnl(m, n) ==
  LET c == Condition[n.key]
  IN  [m EXCEPT !.pnl = @ @@ (c :> Row(n)), !.subscribed = TRUE]
DelPnl(m, n) == [m EXCEPT !.pnl = [c \in DOMAIN @ \ {Condition[n.key]} |-> @[c]]]

UpdatePnl(m, n) ==
  CASE n.chg = "Add" -> AddPnl(m, n)
    [] n.chg = "Del" -> DelPnl(m, n)
    [] n.chg = "Chg" -> IF Condition[n.key] \in DOMAIN m.pnl THEN AddPnl(DelPnl(m, n), n) ELSE m

Update(m, n) ==
  CASE n.key \in FlowCtrlRule -> UpdateRules(m, n)
    [] n.key \in ListKey -> UpdateList(m, n)
    [] n.key \in PnlMonitorRange -> UpdatePnl(m, n)

\* Every thread of module m is told.
dispatchToAllThread(q, m, ns) == [mt \in Thread |-> IF mt[1] = m THEN q[mt] \o ns ELSE q[mt]]

-----------------------------------------------------------------------------
\* The database is changed.
ChangeRows(rows) ==
  /\ chgs < MaxChgs /\ chgs' = chgs + 1 /\ db' = rows
  /\ UNCHANGED <<accts, clock, monitor, queue, mgr, acctGrp, reload, ghosts, crashes>>

AddRow(k, value) == k \notin DOMAIN db /\ ChangeRows(db @@ (k :> value))
DelRow(k) == k \in DOMAIN db /\ ChangeRows([j \in DOMAIN db \ {k} |-> db[j]])
ChgRow(k, value) == k \in DOMAIN db /\ db[k] # value /\ ChangeRows([db EXCEPT ![k] = value])
\* One row takes the place of another in one transaction.
MoveRow(k, j) ==
  /\ k \in DOMAIN db /\ j \notin DOMAIN db /\ db[k] \in Value[j]
  /\ ChangeRows([i \in DOMAIN db \ {k} |-> db[i]] @@ (j :> db[k]))

ChangeAccts(rows) ==
  /\ chgs < MaxChgs /\ chgs' = chgs + 1 /\ accts' = rows
  /\ UNCHANGED <<db, monitor, queue, mgr, acctGrp, reload, ghosts, crashes>>
AddAcct(a) == a \notin DOMAIN accts /\ clock' = clock + 1 /\ ChangeAccts(accts @@ (a :> clock + 1))
DelAcct(a) ==
  /\ a \in DOMAIN accts /\ ChangeAccts([b \in DOMAIN accts \ {a} |-> accts[b]])
  /\ UNCHANGED clock

\* check: what is added is told first, then what is deleted, then what changed.
Told(keys, chg, rows) == SetToSeq({Notification(chg, k, rows[k]) : k \in keys})
DelFirst(new, old) ==   \* mutant: what is deleted is told first
  Told(DOMAIN old \ DOMAIN new, "Del", old) \o Told(DOMAIN new \ DOMAIN old, "Add", new)
    \o Told({k \in DOMAIN new \cap DOMAIN old : new[k] # old[k]}, "Chg", new)
TBLRecSetCompare(new, old) ==
  Told(DOMAIN new \ DOMAIN old, "Add", new) \o Told(DOMAIN old \ DOMAIN new, "Del", old)
    \o Told({k \in DOMAIN new \cap DOMAIN old : new[k] # old[k]}, "Chg", new)

LatestOf(t) == Max({t[a] : a \in DOMAIN t} \cup {0})

Differs(k, f, g) ==
  \/ (k \in DOMAIN f) # (k \in DOMAIN g)
  \/ k \in DOMAIN f \cap DOMAIN g /\ f[k] # g[k]

NotAtFirst(latest) ==   \* mutant: the first check tells nobody of the accounts either
  IF checkTimes = 0 \/ latest = updateTime THEN reload ELSE reload + 1
notifyChgToOrderPreProc(latest) == IF latest = updateTime THEN reload ELSE reload + 1

Check ==
  /\ checkTimes' = 1
  /\ queue' = IF checkTimes = 0 THEN queue
              ELSE dispatchToAllThread(queue, 1, TBLRecSetCompare(db, snap))
  /\ snap' = db
  /\ updateTime' = LatestOf(accts)
  /\ reload' = notifyChgToOrderPreProc(LatestOf(accts))
  /\ missed' = IF checkTimes > 0 THEN missed ELSE {k \in Key : Differs(k, db, loaded)}
  /\ clashed' = clashed \cup Clashing(DOMAIN db \cup DOMAIN snap)
  /\ bare' = bare \cup Bare(DOMAIN db)
  /\ loaded' = << >>
  /\ UNCHANGED <<database, mgr, acctGrp, crashes>>

\* A thread handles a notification; thread 0 passes it on.
IsFirst(mt) == mt[2] = 0

HandleConfChg(mt) ==
  /\ queue[mt] # << >>
  /\ LET n == Head(queue[mt])
         rest == [queue EXCEPT ![mt] = Tail(@)]
     IN  /\ mgr' = IF StepOf[n.key] = Step[mt[1]] THEN [mgr EXCEPT ![mt] = Update(@, n)] ELSE mgr
         /\ queue' = IF mt[1] < Len(Step) /\ IsFirst(mt)
                     THEN dispatchToAllThread(rest, mt[1] + 1, <<n>>) ELSE rest
  /\ UNCHANGED <<database, monitor, acctGrp, reload, ghosts, crashes>>

\* OrderPreProc reads the accounts again.
HandleAcctInfoChg ==
  /\ reload > 0 /\ reload' = reload - 1 /\ acctGrp' = DOMAIN accts
  /\ UNCHANGED <<database, monitor, queue, mgr, ghosts, crashes>>

\* A snapshot of all positions comes to a thread that has subscribed to it:
\* every condition of the moment gets its pnl.
OnPosSnapshot(mt) ==
  /\ mgr[mt].subscribed
  /\ mgr' = [mgr EXCEPT ![mt].known = {DOMAIN mgr[mt].pnl}]
  /\ UNCHANGED <<database, monitor, queue, acctGrp, reload, ghosts, crashes>>

\* A null pointer is enough: the result of a query that failed, or the pnls before
\* the first snapshot when an order has a condition that is monitored.
CrashRestart ==
  /\ crashes < MaxCrashes /\ crashes' = crashes + 1
  /\ snap' = << >> /\ checkTimes' = 0 /\ updateTime' = 0
  /\ queue' = [mt \in Thread |-> << >>] /\ Starts(mgr')
  /\ acctGrp' = DOMAIN accts /\ reload' = 0
  /\ loaded' = db /\ missed' = {} /\ clashed' = Clashing(DOMAIN db) /\ bare' = Bare(DOMAIN db)
  /\ UNCHANGED database

-----------------------------------------------------------------------------
Changes ==
  \/ \E k \in Key : \/ \E value \in Value[k] : AddRow(k, value) \/ ChgRow(k, value)
                   \/ DelRow(k) \/ \E j \in Key : MoveRow(k, j)
  \/ \E a \in Acct : AddAcct(a) \/ DelAcct(a)

Next ==
  \/ Changes \/ Check \/ HandleAcctInfoChg \/ CrashRestart
  \/ \E mt \in Thread : HandleConfChg(mt) \/ OnPosSnapshot(mt)

\* The scheduler repeats the check, every thread handles its queue, and the
\* risk manager publishes the positions for ever.
Fairness ==
  /\ WF_vars(Check) /\ WF_vars(HandleAcctInfoChg)
  /\ \A mt \in Thread : WF_vars(HandleConfChg(mt)) /\ WF_vars(OnPosSnapshot(mt))

Spec == Init /\ [][Next]_vars /\ Fairness

-----------------------------------------------------------------------------
\* Types.
TypeOK ==
  /\ IsRows(db) /\ IsRows(snap)
  /\ acctGrp \subseteq Acct /\ reload \in 0 .. MaxChgs + 1 /\ checkTimes \in 0 .. 1
  /\ \A mt \in Thread :
       /\ \A r \in ToSet(mgr[mt].rules) : r.key \in FlowCtrlRule
       /\ mgr[mt].list \subseteq ListKey /\ DOMAIN mgr[mt].pnl \subseteq Conds
       /\ mgr[mt].known # {} => mgr[mt].subscribed

\* Does thread mt have row k exactly as rows has it?
HasRow(mt, k, rows) ==
  CASE k \in FlowCtrlRule ->
         SelectSeq(mgr[mt].rules, LAMBDA r : r.key = k)
           = IF k \in DOMAIN rows THEN <<[key |-> k, value |-> rows[k]]>> ELSE << >>
    [] k \in ListKey -> (k \in mgr[mt].list) = (k \in DOMAIN rows)
    [] k \in PnlMonitorRange ->
         LET c == Condition[k]
         IN  IF k \in DOMAIN rows
             THEN c \in DOMAIN mgr[mt].pnl /\ mgr[mt].pnl[c] = [key |-> k, value |-> rows[k]]
             ELSE c \in DOMAIN mgr[mt].pnl => mgr[mt].pnl[c].key # k

Reliable(k) ==
  /\ k \notin missed
  /\ k \in PnlMonitorRange => /\ Condition[k] \notin clashed
                              /\ OfCond(Condition[k], missed) = {}

\* A rule that takes the place of another is there before the other goes: as
\* long as every set of rows that was read has one of a step, its threads have
\* one at any time.
NeverUncovered ==
  \A mt \in Thread : missed = {} /\ Step[mt[1]] \notin bare => mgr[mt].rules # << >>

\* Every thread enforces the database, an account that has come to share its positions
\* is known to OrderPreProc, and a condition that is monitored, whose orders are refused
\* for want of a pnl, has got one, also when it is the first of the thread.
Enforced ==
  /\ DOMAIN accts \subseteq acctGrp
  /\ \A mt \in Thread, k \in Key : StepOf[k] = Step[mt[1]] /\ Reliable(k) => HasRow(mt, k, db)
  /\ \A mt \in Thread : DOMAIN mgr[mt].pnl \subseteq UNION mgr[mt].known

=============================================================================
