------------------------------ MODULE Positions ------------------------------
(***************************************************************************)
(* How positions are kept across a crash of the trade server, and of a     *)
(* gateway.  A gateway numbers the deals of its account and writes a row   *)
(* for each of them, and counts on from its last row when it starts; the   *)
(* first risk control module puts each into its book and caches copies of  *)
(* the records that changed; a scheduler turns what is cached into one     *)
(* statement per record; and a thread of the database engine executes the  *)
(* statements in order.  At the start PosMgrRestorer looks for deals that  *)
(* are in the table of trades and later than the last one in the table of  *)
(* positions, computes what the records should be, and caches them to be   *)
(* written once the server runs; but the modules load their books from the *)
(* table before that, so the next deal writes over what was restored.      *)
(*                                                                         *)
(* Two more things are as the code has them: a record in memory has the    *)
(* currency of the fee in its key and the row in the table has not; and    *)
(* the statement with which the risk manager notes an unrealised profit    *)
(* makes a row without a position where there is none yet, on which the    *)
(* next start of the server fails.                                         *)
(***************************************************************************)
EXTENDS PosMgr, SequencesExt, FiniteSetsExt

CONSTANTS
  AcctOf,       \* AcctOf[grp]: the account
  Deal,         \* the deals there may be, without their numbers
  PnlNoted,     \* the grps whose unrealised profit the risk manager notes
  MayFail,      \* which queries of the restorer may fail: "lastNo", "trades"
  MaxDeals,     \* bound: deals
  MaxCrashes,   \* bound: crashes of the trade server
  MaxGWCrashes  \* bound: crashes of the gateways

Grp == DOMAIN AcctOf
Acct == Range(AcctOf)

\* What the constants are; a module that instantiates this one assumes it.
PositionsAssumption ==
  /\ CoinBased \subseteq Grp /\ \A t \in Deal : t.grp \in Grp /\ t.price > 0
  /\ \A t \in Deal : t.size # 0 /\ (t.side = "Bid" <=> t.size > 0)
  /\ PnlNoted \subseteq Grp /\ MayFail \subseteq {"lastNo", "trades"}
  /\ MaxDeals \in Nat /\ MaxCrashes \in Nat /\ MaxGWCrashes \in Nat

VARIABLES
  deals,          \* the deals so far: no is the number a deal was given, id its place
  gwNo,           \* maxNoUsedToCalcPos_ of the gateway of each account
  unstored,       \* the deals whose row a gateway has still to write
  tradeRows,      \* the deals that have their row in the table of trades
  srvAt,          \* how many of them the server has handled or will never get
  srvUp,          \* the server runs
  modBook,        \* the book of the first risk control module
  syncTaskGroup,  \* the copies of changed records to be written, a sequence for each deal
  dbTasks,        \* the statements queued in the database engine
  posDB,          \* the table of positions
  restored,       \* ghost: deals the last restart restored
  excused,        \* ghost: deals the table may lack
  torn,           \* ghost: grps of which one record was written without the other
  crashes, gwCrashes

srvVars == <<srvAt, srvUp, modBook, syncTaskGroup, dbTasks>>
gwVars == <<deals, gwNo, unstored, tradeRows, gwCrashes>>
vars == <<gwVars, srvVars, posDB, restored, excused, torn, crashes>>

-------------------------------------------------------------------------------
(* The table of positions *)

Executed(table, statements) == FoldLeft(Replaced, table, statements)

\* A row made for an unrealised profit: it has neither a position nor a currency.
BareRow == [cur |-> "none", rec |-> NoPos]
IsBare(row) == row.cur = "none"

LoadedBook == BookOfRows(posDB)

OfTasks(tasks) == FlattenSeq(tasks)
InTable == UNION {posDB[rk].rec.of : rk \in DOMAIN posDB}
GrpsOf(nos) == {deals[i].grp : i \in nos}
Unwritten == dbTasks \o OfTasks(syncTaskGroup)

-------------------------------------------------------------------------------
(* The deals and their rows *)

Init ==
  /\ deals = << >> /\ gwNo = [a \in Acct |-> 0] /\ unstored = {} /\ tradeRows = {} /\ gwCrashes = 0
  /\ srvAt = 0 /\ srvUp = TRUE
  /\ modBook = << >> /\ syncTaskGroup = << >> /\ dbTasks = << >> /\ posDB = << >>
  /\ restored = {} /\ excused = {} /\ torn = {} /\ crashes = 0

GatewayReports ==
  /\ Len(deals) < MaxDeals
  /\ \E t \in Deal :
       LET a == AcctOf[t.grp]
       IN  /\ gwNo' = [gwNo EXCEPT ![a] = @ + 1]
           /\ deals' = Append(deals, [id |-> Len(deals) + 1, no |-> gwNo[a] + 1] @@ t)
  /\ unstored' = unstored \cup {Len(deals) + 1}
  /\ UNCHANGED <<tradeRows, gwCrashes, srvVars, posDB, restored, excused, torn, crashes>>

GatewayWritesTrade ==
  /\ \E i \in unstored :
       /\ \A j \in unstored : AcctOf[deals[j].grp] = AcctOf[deals[i].grp] => i <= j
       /\ unstored' = unstored \ {i}
       /\ tradeRows' = tradeRows \cup {i}
  /\ UNCHANGED <<deals, gwNo, gwCrashes, srvVars, posDB, restored, excused, torn, crashes>>

\* A gateway dies with the statements it has not executed and is started again; the
\* returns it sent are on their way.  With nothing to lose it would be as before.
queryMaxNoUsedToCalcPos(a) == Max({deals[i].no : i \in {j \in tradeRows : AcctOf[deals[j].grp] = a}} \cup {0})

GatewayRestarts ==
  /\ unstored # {} /\ gwCrashes < MaxGWCrashes
  /\ gwCrashes' = gwCrashes + 1
  /\ \E a \in Acct :
       /\ gwNo' = [gwNo EXCEPT ![a] = queryMaxNoUsedToCalcPos(a)]
       /\ unstored' = {i \in unstored : AcctOf[deals[i].grp] # a}
  /\ UNCHANGED <<deals, tradeRows, srvVars, posDB, restored, excused, torn, crashes>>

\* The risk manager notes the unrealised profit of the records in its book, those
\* without a position included.  One row of that kind at a time is enough.
RiskMgrNotesPnl ==
  /\ \A rk \in DOMAIN posDB : ~IsBare(posDB[rk])
  /\ \E i \in {j \in DOMAIN deals : deals[j].grp \in PnlNoted} :
       \E k \in DOMAIN updateByOrderInfoFromTDGW(<< >>, deals[i]).book :
         /\ RowKey(k) \notin DOMAIN posDB
         /\ posDB' = Put(posDB, RowKey(k), BareRow)
  /\ UNCHANGED <<gwVars, srvVars, restored, excused, torn, crashes>>

-------------------------------------------------------------------------------
(* The server *)

SrvHandlesRet ==
  /\ srvUp /\ srvAt < Len(deals)
  /\ LET d == deals[srvAt + 1]
         u == updateByOrderInfoFromTDGW(modBook, d)
     IN  /\ modBook' = u.book
         /\ syncTaskGroup' = Append(syncTaskGroup, Statements(u))
         /\ LET stale == {i \in restored : deals[i].grp = d.grp}
            IN  /\ excused' = excused \cup stale \cup (IF u.chg = << >> THEN {d.id} ELSE {})
                /\ torn' = torn \cup GrpsOf(stale)
  /\ srvAt' = srvAt + 1
  /\ UNCHANGED <<gwVars, srvUp, dbTasks, posDB, restored, crashes>>

handleSyncTaskGroup ==
  /\ srvUp /\ syncTaskGroup # << >>
  /\ dbTasks' = Unwritten
  /\ syncTaskGroup' = << >>
  /\ UNCHANGED <<gwVars, srvAt, srvUp, modBook, posDB, restored, excused, torn, crashes>>

\* Another currency writes over the row and leaves the row of the other side.
ExecStatement ==
  /\ srvUp /\ dbTasks # << >>
  /\ LET s == Head(dbTasks)
         row == RecOf(posDB, RowKey(s.key))
         differs == RowKey(s.key) \in DOMAIN posDB /\ ~IsBare(row) /\ row.cur # s.key.cur
     IN  /\ posDB' = Replaced(posDB, s)
         /\ torn' = IF differs THEN torn \cup {s.key.grp} ELSE torn
  /\ dbTasks' = Tail(dbTasks)
  /\ UNCHANGED <<gwVars, srvAt, srvUp, modBook, syncTaskGroup, restored, excused, crashes>>

-------------------------------------------------------------------------------
(* The crash of the server and its start *)

\* The last deal in the rows of an account, and the deals later than that.  Whether
\* the query of the last deals failed is not looked at: then there are none.
acctId2lastNoUsedToCalcPos(a, known) ==
  IF ~known THEN 0
  ELSE Max({posDB[rk].rec.lastNo : rk \in {k \in DOMAIN posDB : AcctOf[k.grp] = a}} \cup {0})

\* Mutant: the first of them is left out.
notCalcButTheFirst(a, known) ==
  {i \in tradeRows : /\ AcctOf[deals[i].grp] = a
                     /\ deals[i].no > acctId2lastNoUsedToCalcPos(a, known) + 1}
orderInfoForPosNotCalc(a, known) ==
  {i \in tradeRows : /\ AcctOf[deals[i].grp] = a
                     /\ deals[i].no > acctId2lastNoUsedToCalcPos(a, known)}

\* What the restorer does with the deals it found: it counts them in a book of its own
\* and caches the records.
restorePosMgr(nos) ==
  LET step(acc, i) ==
        LET u == updateByOrderInfoFromTDGW(acc.book, deals[i])
        IN  [book |-> u.book, tasks |-> Append(acc.tasks, Statements(u))]
  IN  FoldLeft(step, [book |-> LoadedBook, tasks |-> << >>], SetToSortSeq(nos, <))

\* The deals under way to the server, what it has cached and its queue are lost.
SrvDies ==
  /\ srvUp /\ crashes < MaxCrashes
  /\ crashes' = crashes + 1
  /\ srvAt' = Len(deals)
  /\ dbTasks' = << >>
  /\ UNCHANGED <<gwVars, posDB>>
CutInHalf == IF dbTasks # << >> /\ Head(dbTasks).second THEN {Head(dbTasks).key.grp} ELSE {}

\* The query of the deals is asked for each account, and an account for which it fails
\* is passed over.
SrvRestarts ==
  /\ SrvDies
  /\ \A rk \in DOMAIN posDB : ~IsBare(posDB[rk])
  /\ \E known \in {TRUE} \cup (IF "lastNo" \in MayFail THEN {FALSE} ELSE {}),
        passed \in IF "trades" \in MayFail THEN SUBSET Acct ELSE {{}} :
       LET nos == UNION {orderInfoForPosNotCalc(a, known) : a \in Acct \ passed}
           tasks == restorePosMgr(nos).tasks
       IN  /\ syncTaskGroup' = tasks
           /\ restored' = nos
           /\ torn' = torn \cup CutInHalf \cup GrpsOf(nos \cap InTable)
           /\ excused' = excused \cup (DOMAIN deals \ tradeRows)
                                 \cup {i \in DOMAIN deals : AcctOf[deals[i].grp] \in passed}
                                 \cup {i \in nos : tasks[Cardinality({j \in nos : j <= i})] = << >>}
  /\ modBook' = LoadedBook
  /\ UNCHANGED srvUp

\* MakePosInfo throws on a row without a position, and the start fails for good.
SrvFailsToRestart ==
  /\ SrvDies
  /\ \E rk \in DOMAIN posDB : IsBare(posDB[rk])
  /\ srvUp' = FALSE
  /\ syncTaskGroup' = << >> /\ modBook' = << >> /\ restored' = {}
  /\ torn' = torn \cup CutInHalf
  /\ excused' = excused \cup DOMAIN deals

Next == \/ GatewayReports \/ GatewayWritesTrade \/ GatewayRestarts \/ RiskMgrNotesPnl
        \/ SrvHandlesRet \/ handleSyncTaskGroup \/ ExecStatement
        \/ SrvRestarts \/ SrvFailsToRestart

Spec == Init /\ [][Next]_vars

-------------------------------------------------------------------------------
(* Properties *)

IsRec(r) ==
  /\ r.pos \in Int /\ r.totalBidSize >= 0 /\ r.totalAskSize <= 0 /\ r.totalOpenSize \in Int
  /\ r.avgOpenPrice[2] > 0 /\ r.avgOpenPrice[1] >= 0 /\ r.pnlReal[2] > 0
  /\ r.of \subseteq DOMAIN deals /\ r.lastNo \in {0} \cup {deals[i].no : i \in r.of}

TypeOK ==
  /\ \A i \in DOMAIN deals : deals[i].id = i /\ deals[i].no \in 1 .. i
  /\ \A a \in Acct : gwNo[a] \in 0 .. Len(deals)
  /\ unstored \cup tradeRows \subseteq DOMAIN deals /\ unstored \cap tradeRows = {}
  /\ srvAt \in 0 .. Len(deals) /\ srvUp \in BOOLEAN
  /\ \A k \in DOMAIN modBook : IsRec(modBook[k]) /\ k.grp \in Grp
  /\ \A rk \in DOMAIN posDB : IsRec(posDB[rk].rec)
  /\ \A i \in DOMAIN Unwritten : IsRec(Unwritten[i].rec)
  /\ restored \cup excused \subseteq DOMAIN deals /\ torn \subseteq Grp
  /\ crashes \in 0 .. MaxCrashes

FracSum(f(_), set) == FoldSet(LAMBDA x, acc : Plus(f(x), acc), Zero, set)
SizeSum(nos) == MapThenSumSet(LAMBDA i : deals[i].size, nos)
ValueOf(d) == IF d.grp \in CoinBased THEN Over(Frac(d.size), Frac(d.price))
                                     ELSE Frac(-(d.size * d.price))
ValueOfRec(k, r) == IF r.pos = 0 THEN Zero
                    ELSE IF k.grp \in CoinBased THEN Over(Frac(r.pos), r.avgOpenPrice)
                    ELSE Minus(Zero, Times(Frac(r.pos), r.avgOpenPrice))

\* A holding of one side with the record it is in and the other one, and a holding of
\* Long or Short with its one record.
Holdings == {{k \in DOMAIN modBook : /\ k.grp = j.grp /\ k.cur = j.cur /\ k.posSide = j.posSide}
               : j \in DOMAIN modBook}
MadeOf(h) == UNION {modBook[k].of : k \in h}
ClosedBeyond(h) == \E k \in h, n \in MadeOf(h) :
                     /\ k.posSide # "Both"
                     /\ LET s == SizeSum({i \in MadeOf(h) : i <= n})
                        IN  IF k.posSide = "Long" THEN s < 0 ELSE s > 0
NotTorn(h) == \A k \in h : k.grp \notin torn

\* Through any deals, flips from one side to the other and restarts included, what a
\* book holds is the sum of the deals it was made of; of the two records of a holding
\* of one side at most one has a position; and closing more than there is of a Long or
\* Short leaves nothing.  Where one record of a flip was written without the other, or
\* the restorer counted from the beginning again, that is lost.
NetFollowsDeals ==
  \A h \in Holdings : NotTorn(h) =>
    /\ Cardinality({k \in h : modBook[k].pos # 0}) <= 1
    /\ \A k \in h : IF k.side = "Bid" THEN modBook[k].pos >= 0 ELSE modBook[k].pos <= 0
    /\ ~ClosedBeyond(h) =>
         SizeSum(MadeOf(h)) = MapThenSumSet(LAMBDA k : modBook[k].pos, h)

\* The realised profit of a holding and what it is worth at its average price add up to
\* what its deals cost, exactly: no profit is made or lost by averaging, by closing a
\* part or by a flip, for contracts margined in the quote and in the coin.
PnlFollowsDeals ==
  \A h \in Holdings : NotTorn(h) /\ ~ClosedBeyond(h) =>
    FracSum(LAMBDA i : ValueOf(deals[i]), MadeOf(h)) =
      FracSum(LAMBDA k : Plus(modBook[k].pnlReal, ValueOfRec(k, modBook[k])), h)

\* Once everything cached is written the table has every deal the server got, or whose
\* row it found at a start, except the deals excused: those whose row of the trade
\* was not written at the crash, those restored and then written over by a book that
\* had not been, those of a contract with fees in two currencies, those of an account whose
\* query failed, those that closed nothing, and those a gateway gave a number that it
\* had given before, when it died between reporting a deal and writing its row.
LostOnlyIfExcused ==
  LET table == Executed(posDB, Unwritten)
      twoCurs(i) == \E j \in DOMAIN deals : deals[j].grp = deals[i].grp /\ deals[j].cur # deals[i].cur
      twice(i) == \E j \in 1 .. i - 1 : /\ AcctOf[deals[j].grp] = AcctOf[deals[i].grp]
                                      /\ deals[j].no >= deals[i].no
  IN  \A i \in 1 .. srvAt : \/ i \in excused \/ twoCurs(i) \/ twice(i)
                            \/ \E rk \in DOMAIN table : i \in table[rk].rec.of

===============================================================================
