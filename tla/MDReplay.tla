------------------------------ MODULE MDReplay ------------------------------
(***************************************************************************)
(* QueryHisMD of the web server: a strategy asks its engine for records of  *)
(* a topic, the engine the web server, the web server the time series       *)
(* database that MDStorage writes.  A client reads a table page by page,    *)
(* either so many records at a time or so much time.                        *)
(*                                                                         *)
(* The replay of what MDStorage recorded, by the same service in simulated  *)
(* mode: MDCache reads the records batch by batch of local time, ahead of   *)
(* MDPlayback, which hands them to the handler again.                       *)
(***************************************************************************)
EXTENDS MDStorage, TLC

CONSTANTS
  maxNumOfRecReturned,
  NumOfPage, TimeOfPage      \* records, and time, a client asks for at a time

ASSUME QueryHisMDAssumption ==
  {maxNumOfRecReturned, NumOfPage, TimeOfPage} \subseteq Nat \ {0} /\ NumOfPage <= maxNumOfRecReturned

VARIABLES
  page,        \* the client: its table, the way it reads, where its next page begins, whether it is done
  pages,       \* what it has read
  pageFailed   \* ghost: a query failed

pageVars == <<page, pages, pageFailed>>

NoPage == [topic |-> "", by |-> "none", ts |-> 0, over |-> TRUE]
PageInit == page = NoPage /\ pages = << >> /\ pageFailed = FALSE

\* The table of a topic, which has the rows in the order of the time of the exchange.
TableOf(topic) == SetToSortSeq({r \in tdeng : r.topic = topic}, LAMBDA r, s : r.exchTs < s.exchTs)

\* The statements of queryBetween2Ts, queryBeforeTs and queryAfterTs.  Without an order,
\* that of queryBeforeTs has the oldest rows.
\* (SelectAfterLater: a mistake PagedIsWhole must notice.)
Limit(rows, num) == SubSeq(rows, 1, IF Len(rows) > num THEN num ELSE Len(rows))
SelectAfterLater(rows, ts, num) == Limit(SelectSeq(rows, LAMBDA r : r.exchTs > ts), num)
SelectBetween(rows, tsBegin, tsEnd) == SelectSeq(rows, LAMBDA r : r.exchTs >= tsBegin /\ r.exchTs < tsEnd)
SelectBefore(rows, ts, num) == Limit(SelectSeq(rows, LAMBDA r : r.exchTs <= ts), num)
SelectAfter(rows, ts, num) == Limit(SelectSeq(rows, LAMBDA r : r.exchTs >= ts), num)

\* QueryDataFromTDEng: a statement may fail, a result that is too large is cleared, but
\* counted.
QueryDataFromTDEng(rows) ==
  IF Len(rows) > maxNumOfRecReturned
  THEN [status |-> "HIS_MD_NUM_OF_RECORDS_GREATER_THAN_LIMIT", recNum |-> maxNumOfRecReturned + 1, recSet |-> << >>]
  ELSE [status |-> "ok", recNum |-> Len(rows), recSet |-> rows]
QueryFailed == [status |-> "TDENG_EXEC_SQL_FAILED", recNum |-> 0, recSet |-> << >>]

\* What queryAfterTs makes of it (queryBetween2Ts hands it on): the number of records is
\* looked at before the status, so that a failure is told as too few of them.
RspAfterTs(ret, num) ==
  IF ret.recNum < num THEN [ret EXCEPT !.status = "HIS_MD_RECORDS_LESS_THAN_NUM_OF_QURIES"] ELSE ret

\* (While the recording goes on rows may come in behind the reader: it begins afterwards.)
StartPages(topic, by) ==
  /\ page.by = "none" /\ phase = "stopped" /\ page' = [topic |-> topic, by |-> by, ts |-> 0, over |-> FALSE]
  /\ UNCHANGED <<storageVars, pages, pageFailed>>

\* A page: what the database has, or a failure of it.  The client reads on behind the
\* last record it got, and is done when it is told there are no more.
AfterPage(ret) ==
  \E rsp \in {RspAfterTs(ret, NumOfPage)} :
    /\ pages' = pages \o rsp.recSet
    /\ page' = [page EXCEPT !.ts = IF rsp.recSet = << >> THEN @ ELSE Last(rsp.recSet).exchTs + 1,
                            !.over = rsp.status # "ok"]

BetweenPage(ret) ==
  /\ pages' = pages \o ret.recSet
  /\ page' = [page EXCEPT !.ts = IF ret.status = "ok" THEN @ + TimeOfPage ELSE @,
                          !.over = page.ts + TimeOfPage > MaxTs + MaxMD]

queryHisMD ==
  /\ ~page.over
  /\ \E rows \in {TableOf(page.topic)} :
       \/ /\ \/ page.by = "after" /\ AfterPage(QueryDataFromTDEng(SelectAfter(rows, page.ts, NumOfPage)))
             \/ /\ page.by = "between"
                /\ BetweenPage(QueryDataFromTDEng(SelectBetween(rows, page.ts, page.ts + TimeOfPage)))
          /\ UNCHANGED <<pageFailed, failures>>
       \/ /\ failures < MaxFailures /\ failures' = failures + 1 /\ pageFailed' = TRUE
          /\ \/ page.by = "after" /\ AfterPage(QueryFailed)
             \/ page.by = "between" /\ BetweenPage(QueryFailed)
  /\ UNCHANGED <<phase, published, topic2LastExchTs, queue, last, topic2AsyncTaskGroup, flushing, tdeng,
                 late, unwritten>>

PageNext == (\E t \in Topic, by \in {"after", "between"} : StartPages(t, by)) \/ queryHisMD

-----------------------------------------------------------------------------
\* A client that reads a table page by page has every row of it exactly once when it is
\* told that there are no more, whichever rows end a page: the time of a row is its own
\* (checkAndUpdateTsToAvoidDulplication).  After a failed query it is told the same: that
\* is the excuse.
PagedIsWhole ==
  page.by # "none" /\ page.over /\ ~pageFailed => pages = TableOf(page.topic)

-----------------------------------------------------------------------------
CONSTANTS
  exchTsStart, exchTsEnd,   \* playbackDateTimeStart, playbackDateTimeEnd
  OffsetOfExchAndLocalTs,   \* secOffsetOfExchAndLocalTs
  TimeOfCacheMD,            \* secOfCacheMD: the local time a batch is long
  cacheNumLimit             \* batches read ahead

ASSUME MDReplayAssumption ==
  /\ {exchTsStart, exchTsEnd, OffsetOfExchAndLocalTs} \subseteq Nat /\ exchTsStart < exchTsEnd
  /\ {TimeOfCacheMD, cacheNumLimit} \subseteq Nat \ {0}

VARIABLES
  tsStartOfCurCache,    \* MDCache: how far it has read, 0 before it starts
  mdCache,              \* MDCache: the batches, each a sequence of rows
  playing,              \* MDPlayback: the rest of its batch
  replayed,             \* the numbers of the records handed to the handler, in order
  refused,              \* ghost: those of them the handler found illegal
  lastExchTsOfReplay,   \* RawMDHandler of the replaying service
  skipped               \* ghost: the local times of the batches whose query failed

replayVars == <<tsStartOfCurCache, mdCache, playing, replayed, refused, lastExchTsOfReplay, skipped>>
vars == <<storageVars, pageVars, replayVars>>

\* MDCache::start: the local times may be off from those of the exchange.
tsStart == IF exchTsStart > OffsetOfExchAndLocalTs THEN exchTsStart - OffsetOfExchAndLocalTs ELSE 0
tsEnd == exchTsEnd + OffsetOfExchAndLocalTs

Init ==
  /\ StorageInit /\ PageInit
  /\ tsStartOfCurCache = tsStart /\ mdCache = << >> /\ playing = << >> /\ replayed = << >>
  /\ refused = {} /\ lastExchTsOfReplay = [t \in Topic |-> 0] /\ skipped = {}

-----------------------------------------------------------------------------
\* makeMDCacheOfCurBatch: the rows of [from, to) within the times of the exchange, in the
\* order of their local time.  The map it returns has one entry per local time: of
\* rows of several topics with the same one, the first the database returned stays.
\* (RowsOfNone, a mistake ReplayIsComplete must notice: boundaries that are in no batch.)
RowsOfNone(from, to) == {r \in tdeng : /\ r.localTs > from /\ r.localTs < to
                                       /\ r.exchTs >= exchTsStart /\ r.exchTs <= exchTsEnd}
RowsOf(from, to) == {r \in tdeng : /\ r.localTs >= from /\ r.localTs < to
                                   /\ r.exchTs >= exchTsStart /\ r.exchTs <= exchTsEnd}

Maps(rows) == {m \in SUBSET rows : \A r \in rows : Cardinality({n \in m : n.localTs = r.localTs}) = 1}

InOrder(rows) == SetToSortSeq(rows, LAMBDA r, s : r.localTs < s.localTs)

\* cacheHisMDOf1Batch.  (A behaviour replays the records or reads them by page.)
TsEndOfCurCache == IF tsStartOfCurCache + TimeOfCacheMD > tsEnd THEN tsEnd ELSE tsStartOfCurCache + TimeOfCacheMD

cacheHisMDOf1Batch ==
  /\ phase = "stopped" /\ page.by = "none" /\ tsStartOfCurCache < tsEnd /\ Len(mdCache) < cacheNumLimit
  /\ tsStartOfCurCache' = TsEndOfCurCache
  /\ \/ /\ \E m \in Maps(RowsOf(tsStartOfCurCache, TsEndOfCurCache)) :
             mdCache' = IF m = {} THEN mdCache ELSE Append(mdCache, InOrder(m))
        /\ UNCHANGED <<skipped, failures>>
     \/ /\ failures < MaxFailures /\ failures' = failures + 1
        /\ skipped' = skipped \cup tsStartOfCurCache .. (TsEndOfCurCache - 1) /\ UNCHANGED mdCache
  /\ UNCHANGED <<phase, published, topic2LastExchTs, queue, last, topic2AsyncTaskGroup, flushing, tdeng,
                 late, unwritten, pageVars, playing, replayed, refused, lastExchTsOfReplay>>

\* MDCache::pop and MDPlayback::playback: the handler checks the time stamp in the
\* original data, not the one the record was given.
pop ==
  /\ playing = << >> /\ mdCache # << >> /\ playing' = Head(mdCache) /\ mdCache' = Tail(mdCache)
  /\ UNCHANGED <<storageVars, pageVars, tsStartOfCurCache, replayed, refused, lastExchTsOfReplay, skipped>>

playback ==
  /\ playing # << >> /\ playing' = Tail(playing)
  /\ LET r == Head(playing)
         exchTs == published[r.id].exchTs
     IN  /\ replayed' = Append(replayed, r)
         /\ IF checkIfMDIsLegal(lastExchTsOfReplay[r.topic], exchTs)
            THEN /\ lastExchTsOfReplay' = [lastExchTsOfReplay EXCEPT ![r.topic] = exchTs]
                 /\ UNCHANGED refused
            ELSE refused' = refused \cup {r.id} /\ UNCHANGED lastExchTsOfReplay
  /\ UNCHANGED <<storageVars, pageVars, tsStartOfCurCache, mdCache, skipped>>

Next ==
  \/ StorageNext /\ UNCHANGED <<pageVars, replayVars>>
  \/ tsStartOfCurCache = tsStart /\ PageNext /\ UNCHANGED replayVars
  \/ cacheHisMDOf1Batch
  \/ pop
  \/ playback

\* The threads of the recording run until they end; those of the replay run on.
Fairness ==
  /\ WF_vars(StorageNext /\ UNCHANGED <<pageVars, replayVars>>) /\ WF_vars(cacheHisMDOf1Batch)
  /\ WF_vars(pop) /\ WF_vars(playback)

Spec == Init /\ [][Next]_vars /\ Fairness

-----------------------------------------------------------------------------
\* The replay is the recording again: no record twice, those of a topic in the order
\* they were published in, so that the handler refuses none of them, and none from
\* outside of the time asked for, whichever threads wrote the records in whichever
\* batches.
ReplayIsTheRecording ==
  /\ refused = {}
  /\ \A n \in DOMAIN replayed : \A m \in 1 .. (n - 1) :
       /\ replayed[m].localTs < replayed[n].localTs
       /\ replayed[m].topic = replayed[n].topic => replayed[m].id < replayed[n].id
  /\ \A n \in DOMAIN replayed : replayed[n] \in RowsOf(tsStart, tsEnd)

\* What was published is stored unless it came late, is paged without a gap or a repetition,
\* and is replayed as it was recorded.
RecordingIsKept == StoredUnlessLate /\ PagedIsWhole /\ ReplayIsTheRecording

\* In the end every record of the time asked for is replayed, but those of a local time
\* another topic has a record of, and those of a batch whose query failed.
ReplayIsComplete ==
  (phase = "stopped") ~>
    \/ page.by # "none"
    \/ \A r \in RowsOf(tsStart, tsEnd) :
         r.localTs \in skipped \/ \E n \in DOMAIN replayed : replayed[n].localTs = r.localTs

-----------------------------------------------------------------------------
\* For TLC: a thread for each of two topics, one of tickers and one of trades.
MCTypeOf == ("a" :> "Tickers") @@ ("b" :> "Trades")
MCThreadOf == ("a" :> "t1") @@ ("b" :> "t2")
=============================================================================
