------------------------------- MODULE Assets -------------------------------
(***************************************************************************)
(* The assets of one account, from the exchange to a strategy: the gateway's *)
(* AssetsMgr, which a poll of the exchange (thread of the trade server's     *)
(* tasks) and the exchange's updates (websocket thread) both change, the     *)
(* tasks that tell the risk manager and write the database, the statements'  *)
(* queue with its threads, the risk manager's AssetsMgr, and what it         *)
(* publishes.  An asset is its amount; 0 is an asset nobody holds.           *)
(***************************************************************************)
EXTENDS Integers, Sequences, SequencesExt

CONSTANTS
  Asset,
  Steady,      \* the assets whose amount does not change in an instance
  MaxVol,      \* bound: amounts
  MaxChg,      \* bound: changes on the exchange
  MaxRestarts  \* bound: restarts of the gateway and of the risk manager

ASSUME AssetsAssumption == Steady \subseteq Asset /\ MaxVol \in Nat \ {0} /\ MaxChg \in Nat /\ MaxRestarts \in Nat

VARIABLES
  exchAssets,      \* what the exchange holds for the account
  wsUpdates,       \* its updates on their way, oldest first
  httpThread,      \* the poll: its step, the snapshot, the changes found
  wsThread,        \* the handling of an update: its step, the changes found
  assetInfoGroup,  \* the gateway's AssetsMgr
  syncTaskGroup,   \* changes the gateway has yet to tell and to write
  toRiskMgr,       \* changes on their way to the risk manager
  dbTasks,         \* statements the database threads have yet to execute
  assetDB,         \* the rows of the table of assets
  riskAssets,      \* the risk manager's AssetsMgr
  published,       \* what PubSvc saw when it published last
  shown,           \* what a strategy was pushed last
  mayDiffer,       \* assets whose copies may differ until their next change, and why
  chgs, restarts   \* bounded counters

assetVars == <<exchAssets, wsUpdates, httpThread, wsThread, assetInfoGroup, syncTaskGroup, toRiskMgr,
               dbTasks, assetDB, riskAssets, published, shown, mayDiffer, chgs, restarts>>

None == [x \in Asset |-> 0]
NoUpdate == [x \in {} |-> {}]   \* an UpdateInfoOfAssetGroup: the kind and the amount of each change
IdleThread == [step |-> "idle", snapshot |-> None, update |-> NoUpdate]

AssetInit ==
  /\ exchAssets \in {None, [a \in Asset |-> IF a \in Steady THEN 1 ELSE 0]} /\ wsUpdates = << >>
  /\ httpThread = IdleThread /\ wsThread = IdleThread
  /\ assetDB = exchAssets /\ assetInfoGroup = assetDB /\ riskAssets = assetDB
  /\ published = assetDB /\ shown = assetDB
  /\ syncTaskGroup = << >> /\ toRiskMgr = << >> /\ dbTasks = << >>
  /\ mayDiffer = {} /\ chgs = 0 /\ restarts = 0

\* The exchange changes an amount and says so; the message is lost when the connection is
\* down.
ExchChanges(a, vol) ==
  /\ chgs < MaxChg /\ a \notin Steady /\ vol # exchAssets[a] /\ chgs' = chgs + 1
  /\ exchAssets' = [exchAssets EXCEPT ![a] = vol]
  /\ wsUpdates' \in {wsUpdates, Append(wsUpdates, <<a, vol>>)}
  /\ UNCHANGED <<httpThread, wsThread, assetInfoGroup, syncTaskGroup, toRiskMgr, dbTasks, assetDB,
                 riskAssets, published, shown, mayDiffer, restarts>>

-----------------------------------------------------------------------------
\* The poll asks the exchange, which answers with what it holds then: for spot, what is
\* free and what orders lock, which make up the amount; for contracts the balance.
SpotBalances ==
  {[a \in Asset |-> [free |-> free[a], locked |-> exchAssets[a] - free[a]]] :
     free \in {f \in [Asset -> 0..MaxVol] : \A a \in Asset : f[a] <= exchAssets[a]}}
ContractBalances == [a \in Asset |-> [balance |-> exchAssets[a]]]

makeAssetInfoGroupOfSpot(balances) == [a \in Asset |-> balances[a].free + balances[a].locked]
makeAssetInfoGroupUBasedContracts(balances) == [a \in Asset |-> balances[a].balance]
makeAssetInfoGroupCBasedContracts(balances) == [a \in Asset |-> balances[a].balance]

doSyncAssetsSnapshot ==
  /\ httpThread.step = "idle"
  /\ \E snapshot \in {makeAssetInfoGroupOfSpot(b) : b \in SpotBalances}
                    \cup {makeAssetInfoGroupUBasedContracts(ContractBalances),
                          makeAssetInfoGroupCBasedContracts(ContractBalances)} :
       httpThread' = [httpThread EXCEPT !.step = "answered", !.snapshot = snapshot]
  /\ UNCHANGED <<exchAssets, wsUpdates, wsThread, assetInfoGroup, syncTaskGroup, toRiskMgr, dbTasks,
                 assetDB, riskAssets, published, shown, mayDiffer, chgs, restarts>>

\* An answer without an asset is taken for a query that failed.
SnapshotIsEmpty ==
  /\ httpThread.step = "answered" /\ httpThread.snapshot = None
  /\ httpThread' = IdleThread
  /\ UNCHANGED <<exchAssets, wsUpdates, wsThread, assetInfoGroup, syncTaskGroup, toRiskMgr, dbTasks,
                 assetDB, riskAssets, published, shown, mayDiffer, chgs, restarts>>

Change(old, new) == IF old = 0 THEN <<"add", new>> ELSE <<"chg", new>>

\* What the first pass of compareWithAssetsSnapshot finds new or changed, and what the
\* second one finds missing.
AddedOrChanged(group, snapshot) ==
  [a \in {x \in Asset : snapshot[x] # 0 /\ snapshot[x] # group[x]} |-> Change(group[a], snapshot[a])]
Missing(group, snapshot) ==
  [a \in {x \in Asset : group[x] # 0 /\ snapshot[x] = 0} |-> <<"del", 0>>]

Both(u, v) == [a \in DOMAIN u \cup DOMAIN v |-> IF a \in DOMAIN v THEN v[a] ELSE u[a]]
After(group, update) == [a \in Asset |-> IF a \in DOMAIN update THEN update[a][2] ELSE group[a]]

\* The two passes run without a lock, and the websocket thread may come between them.
compareWithAssetsSnapshot ==
  /\ \/ /\ httpThread.step = "answered" /\ httpThread.snapshot # None
        /\ LET u == AddedOrChanged(assetInfoGroup, httpThread.snapshot)
           IN  /\ httpThread' = [httpThread EXCEPT !.step = "compared", !.update = u]
               /\ assetInfoGroup' = After(assetInfoGroup, u)
     \/ /\ httpThread.step = "compared"
        /\ LET u == Missing(assetInfoGroup, httpThread.snapshot)
           IN  /\ httpThread' = [httpThread EXCEPT !.step = "notify", !.update = Both(@, u)]
               /\ assetInfoGroup' = After(assetInfoGroup, u)
  /\ UNCHANGED <<exchAssets, wsUpdates, wsThread, syncTaskGroup, toRiskMgr, dbTasks, assetDB,
                 riskAssets, published, shown, mayDiffer, chgs, restarts>>

\* compareWithAssetsUpdate: an amount of 0 is a deletion, also of what is not there, and
\* an asset that is there has changed, also when it has not.
compareWithAssetsUpdate ==
  /\ wsThread.step = "idle" /\ wsUpdates # << >>
  /\ LET a == Head(wsUpdates)[1]
         vol == Head(wsUpdates)[2]
     IN  /\ wsThread' = [wsThread EXCEPT !.step = "notify", !.update =
                           [x \in {a} |-> IF vol = 0 THEN <<"del", 0>>
                                          ELSE Change(assetInfoGroup[a], vol)]]
         /\ assetInfoGroup' = [assetInfoGroup EXCEPT ![a] = vol]
  /\ wsUpdates' = Tail(wsUpdates)
  /\ UNCHANGED <<exchAssets, httpThread, syncTaskGroup, toRiskMgr, dbTasks, assetDB, riskAssets,
                 published, shown, mayDiffer, chgs, restarts>>

\* The changes one thread found are queued after those the other one found later: the
\* tasks about these assets are in the wrong order.
Overtaken(thread, other) ==
  IF other.step \in {"compared", "notify"}
  THEN {<<a, "queued">> : a \in DOMAIN thread.update \cap DOMAIN other.update} ELSE {}

Notified(thread) ==
  /\ thread.step = "notify"
  /\ syncTaskGroup' = IF thread.update = NoUpdate THEN syncTaskGroup
                      ELSE Append(syncTaskGroup, thread.update)
  /\ UNCHANGED <<exchAssets, wsUpdates, assetInfoGroup, toRiskMgr, dbTasks, assetDB, riskAssets,
                 published, shown, chgs, restarts>>

cacheSyncTaskGroup ==
  \/ /\ Notified(httpThread) /\ httpThread' = IdleThread
     /\ mayDiffer' = mayDiffer \cup Overtaken(httpThread, wsThread) /\ UNCHANGED wsThread
  \/ /\ Notified(wsThread) /\ wsThread' = IdleThread
     /\ mayDiffer' = mayDiffer \cup Overtaken(wsThread, httpThread) /\ UNCHANGED httpThread

-----------------------------------------------------------------------------
\* The statements of a group of changes: insertions, deletions, updates.
StatementsOfAdded(update) ==   \* mutant: changed amounts are not written
  SetToSeq({<<update[a][1], a, update[a][2]>> : a \in {x \in DOMAIN update : update[x][1] # "chg"}})
StatementsOf(update) ==
  LET of(kind) == SetToSeq({<<kind, a, update[a][2]>> : a \in {x \in DOMAIN update : update[x][1] = kind}})
  IN  of("add") \o of("del") \o of("chg")

syncUpdateInfoOfAssetGroupToDB(updates) ==
  dbTasks' = dbTasks \o FlattenSeq([i \in DOMAIN updates |-> StatementsOf(updates[i])])

NotifyAssetInfo(updates) == toRiskMgr' = toRiskMgr \o updates

\* The scheduler's task: all changes are told to the risk manager first, then their
\* statements are given to the database.
handleSyncTaskGroup ==
  /\ syncTaskGroup # << >> /\ syncTaskGroup' = << >>
  /\ NotifyAssetInfo(syncTaskGroup)
  /\ syncUpdateInfoOfAssetGroupToDB(syncTaskGroup)
  /\ UNCHANGED <<exchAssets, wsUpdates, httpThread, wsThread, assetInfoGroup, assetDB, riskAssets,
                 published, shown, mayDiffer, chgs, restarts>>

\* An insertion of a row that is there and an update of one that is not do nothing; both
\* assets' managers and the table behave so.
Applied(held, kind, a, vol) ==
  IF (kind = "add" /\ held[a] # 0) \/ (kind = "chg" /\ held[a] = 0) THEN held
  ELSE [held EXCEPT ![a] = vol]

\* Two threads of DBEngAsync each take a statement; the second may execute before the first.
ExecStatement(n) ==
  /\ n \in DOMAIN dbTasks
  /\ assetDB' = Applied(assetDB, dbTasks[n][1], dbTasks[n][2], dbTasks[n][3])
  /\ dbTasks' = RemoveAt(dbTasks, n)
  /\ mayDiffer' = mayDiffer \cup
       {<<dbTasks[i][2], "executed">> : i \in {j \in 1..(n - 1) : dbTasks[j][2] = dbTasks[n][2]}}
  /\ UNCHANGED <<exchAssets, wsUpdates, httpThread, wsThread, assetInfoGroup, syncTaskGroup,
                 toRiskMgr, riskAssets, published, shown, chgs, restarts>>

\* TDGWTaskHandler of the risk manager: one message applies its additions, its deletions
\* and its changes.
handleMsgIdSyncAssets ==
  /\ toRiskMgr # << >>
  /\ riskAssets' = FoldSeq(LAMBDA t, held : Applied(held, t[1], t[2], t[3]),
                           riskAssets, StatementsOf(Head(toRiskMgr)))
  /\ toRiskMgr' = Tail(toRiskMgr)
  /\ UNCHANGED <<exchAssets, wsUpdates, httpThread, wsThread, assetInfoGroup, syncTaskGroup, dbTasks,
                 assetDB, published, shown, mayDiffer, chgs, restarts>>

\* getAcctId2Key2AssetInfoGroupUpdate: the account's group is published when it differs
\* from the one seen last; when its last asset is gone it is published as an empty one.
IsUpdateOfHeld(old, new) == new # old /\ new # None   \* mutant: accounts gone are left out
isEqual(lhs, rhs) == \A a \in Asset : lhs[a] = rhs[a]
IsUpdate(old, new) == ~isEqual(new, old)

pubAssetsUpdate ==
  /\ published # riskAssets
  /\ published' = riskAssets
  /\ shown' = IF IsUpdate(published, riskAssets) THEN riskAssets ELSE shown
  /\ UNCHANGED <<exchAssets, wsUpdates, httpThread, wsThread, assetInfoGroup, syncTaskGroup, toRiskMgr,
                 dbTasks, assetDB, riskAssets, mayDiffer, chgs, restarts>>

\* pubAssetsSnapshot publishes accounts with at least one asset, and does not note what it
\* published: an account it showed first and that has no asset when the next update is
\* looked for is never shown empty.
pubAssetsSnapshot ==
  /\ riskAssets # None /\ shown # riskAssets
  /\ shown' = riskAssets
  /\ mayDiffer' = mayDiffer \cup {<<a, "shown">> : a \in {x \in Asset : published[x] # riskAssets[x]}}
  /\ UNCHANGED <<exchAssets, wsUpdates, httpThread, wsThread, assetInfoGroup, syncTaskGroup, toRiskMgr,
                 dbTasks, assetDB, riskAssets, published, chgs, restarts>>

-----------------------------------------------------------------------------
\* The gateway ends: what it had to tell and to write is lost, also in doExit, which stops
\* the scheduler first.  It starts from the table.  What it told but did not write, it
\* finds changed again, or not.
RestartGateway ==
  /\ restarts < MaxRestarts /\ restarts' = restarts + 1
  /\ wsUpdates' = << >> /\ httpThread' = IdleThread /\ wsThread' = IdleThread
  /\ syncTaskGroup' = << >> /\ dbTasks' = << >> /\ assetInfoGroup' = assetDB
  /\ mayDiffer' = mayDiffer \cup {<<dbTasks[i][2], "unwritten">> : i \in DOMAIN dbTasks}
  /\ UNCHANGED <<exchAssets, toRiskMgr, assetDB, riskAssets, published, shown, chgs>>

\* The risk manager starts from the table; what it was told and is not written yet is
\* lost to it.
RestartRiskMgr ==
  /\ restarts < MaxRestarts /\ restarts' = restarts + 1
  /\ riskAssets' = assetDB /\ toRiskMgr' = << >> /\ published' = None
  /\ mayDiffer' = mayDiffer \cup {<<dbTasks[i][2], "missed">> : i \in DOMAIN dbTasks}
                             \cup {<<a, "shown">> : a \in {x \in Asset : shown[x] # 0}}
  /\ UNCHANGED <<exchAssets, wsUpdates, httpThread, wsThread, assetInfoGroup, syncTaskGroup, dbTasks,
                 assetDB, shown, chgs>>

\* The gateway tells a change of one asset, whichever: the environment of the publication
\* when the rest is left aside.
AnyUpdate(a, kind, vol) ==
  /\ chgs < MaxChg /\ chgs' = chgs + 1 /\ kind \in {"add", "chg", "del"} /\ (kind = "del" <=> vol = 0)
  /\ toRiskMgr' = Append(toRiskMgr, [x \in {a} |-> <<kind, vol>>])
  /\ UNCHANGED <<exchAssets, wsUpdates, httpThread, wsThread, assetInfoGroup, syncTaskGroup, dbTasks,
                 assetDB, riskAssets, published, shown, mayDiffer, restarts>>

Downstream == handleSyncTaskGroup \/ handleMsgIdSyncAssets \/ ExecStatement(1)
Poll == doSyncAssetsSnapshot \/ SnapshotIsEmpty \/ compareWithAssetsSnapshot \/ cacheSyncTaskGroup
Publish == handleMsgIdSyncAssets \/ pubAssetsUpdate \/ pubAssetsSnapshot

\* The copies, and what is published of them.
CopyNext ==
  \/ \E a \in Asset, vol \in 0..MaxVol : ExchChanges(a, vol)
  \/ Poll \/ compareWithAssetsUpdate \/ Downstream \/ ExecStatement(2)
  \/ RestartGateway \/ RestartRiskMgr
PubNext ==
  \/ \E a \in Asset, kind \in {"add", "chg", "del"}, vol \in 0..MaxVol : AnyUpdate(a, kind, vol)
  \/ Publish \/ RestartRiskMgr
=============================================================================
