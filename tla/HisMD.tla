-------------------------------- MODULE HisMD --------------------------------
(***************************************************************************)
(* The history of a topic in files: MDStorageSvc of the crypto services     *)
(* collects lines by file and writes them in batches, a candle of each      *)
(* minute among them; MDHis answers queries from the files of the days of a *)
(* query, through an index of each file that it makes again when the file   *)
(* is newer.  QueryHisMD of the web server asks the time series database    *)
(* the same questions.                                                      *)
(*                                                                          *)
(* A line is its time stamp: the queries look at nothing else of it.        *)
(***************************************************************************)
EXTENDS Naturals, FiniteSets, Sequences, SequencesExt, FiniteSetsExt

CONSTANTS
  MAX_DATE,                               \* the days of the files: 1 .. MAX_DATE (today and MAX_DATE_OFFSET)
  TicksOfMinute, MinutesOfDay,            \* how long a minute and a day are
  MaxLines,                               \* bound: lines the service is given
  MaxSeconds,                             \* bound: seconds of the clock
  MaxStarts,                              \* bound: restarts of the service
  thresholdOfMDRowNumInCache,
  maxNumOfHisMD,                          \* maxNumOfHisMDCanBeQeuryEachTime
  LineTs,                                 \* the time stamps of lines
  BetweenQuery, NumQuery                  \* pairs of times, and of a time and a number, asked for

ASSUME HisMDAssumption ==
  /\ {MAX_DATE, MaxLines, MaxSeconds, MaxStarts} \subseteq Nat
  /\ {TicksOfMinute, MinutesOfDay, thresholdOfMDRowNumInCache} \subseteq Nat \ {0}
  /\ maxNumOfHisMD \in Nat /\ LineTs \subseteq Nat /\ (BetweenQuery \cup NumQuery) \subseteq Nat \X Nat

MIN_DATE == 1
Day == MIN_DATE .. MAX_DATE
MinuteOf(ts) == ts \div TicksOfMinute
DayOf(ts) == MinuteOf(ts) \div MinutesOfDay
HisTs == {ts \in LineTs : DayOf(ts) \in Day}

NoMinute == 0        \* no line is that old
NoIdx == [exists |-> FALSE, lines |-> << >>, time |-> 0]

VARIABLES
  isCandle,                  \* the type of the topic: candles, or anything else
  candleTopic2CandleData,    \* the time stamp of the candle that waits for its minute to end
  filename2MDGroup,          \* the lines collected, by the day of the file they are for
  otherRows,                 \* how many lines are collected for other files (detail, original)
  mdFile,                    \* each day's file: its lines and when it was written last
  idxFile,                   \* its index, if there is one, and when that was written
  second,                    \* the clock
  minutesMade,               \* ghost: the minutes a candle was made for since the start
  given, starts,             \* lines given, restarts
  answer                     \* ghost: the last query and what was answered

hisVars == <<isCandle, candleTopic2CandleData, filename2MDGroup, otherRows, mdFile, idxFile, second,
             minutesMade, given, starts, answer>>

NoAnswer == [kind |-> "none", a |-> 0, b |-> 0, status |-> "none", lines |-> << >>, stale |-> FALSE, astray |-> FALSE, all |-> << >>]

HisInit ==
  /\ isCandle \in BOOLEAN /\ candleTopic2CandleData = NoMinute * TicksOfMinute
  /\ filename2MDGroup = [d \in Day |-> << >>] /\ otherRows = 0
  /\ mdFile = [d \in Day |-> NoIdx] /\ idxFile = [d \in Day |-> NoIdx]
  /\ second = 0 /\ minutesMade = << >> /\ given = 0 /\ starts = 0 /\ answer = NoAnswer

-----------------------------------------------------------------------------
\* handleLastRecOfCandleInOneMinute: the candle in the cache is written once for its
\* minute and for each minute up to that of the candle that ends it, all of them to the
\* file of the day of that candle.  An earlier candle only replaces what is cached.
NoCandle == candleTopic2CandleData = NoMinute * TicksOfMinute
CandlesOfMinutes(ts) ==
  IF NoCandle \/ MinuteOf(ts) <= MinuteOf(candleTopic2CandleData) THEN << >>
  ELSE [i \in 1 .. (MinuteOf(ts) - MinuteOf(candleTopic2CandleData)) |->
          MinuteOf(candleTopic2CandleData) + i - 1]

\* What cacheMDOfUnifiedFmt adds to the file of the day of a line.
LinesFor(ts) ==
  IF isCandle THEN [i \in DOMAIN CandlesOfMinutes(ts) |-> CandlesOfMinutes(ts)[i] * TicksOfMinute]
  ELSE << ts >>

NumOfLines(group) == FoldFunction(LAMBDA s, n : Len(s) + n, 0, group)

\* handleAsyncTask: cacheFilename2MDGroup, then flushMDInCacheToDisk, which writes
\* everything once there are enough lines.  (A candle has a line of its own in the
\* file of details; every message has one in the file of the original format.)
handleMDLine(ts) ==
  /\ given < MaxLines /\ given' = given + 1
  /\ \E lines \in {LinesFor(ts)} :
       \E group \in {[filename2MDGroup EXCEPT ![DayOf(ts)] = @ \o lines]} :
       \E other \in {otherRows + (IF isCandle THEN 2 ELSE 1)} :
         /\ IF NumOfLines(group) + other < thresholdOfMDRowNumInCache
            THEN filename2MDGroup' = group /\ otherRows' = other /\ UNCHANGED mdFile
            ELSE /\ filename2MDGroup' = [d \in Day |-> << >>] /\ otherRows' = 0
                 /\ mdFile' = [d \in Day |-> IF group[d] = << >> THEN mdFile[d]
                                             ELSE [exists |-> TRUE, lines |-> mdFile[d].lines \o group[d],
                                                   time |-> second]]
         /\ minutesMade' = minutesMade \o IF isCandle THEN CandlesOfMinutes(ts) ELSE << >>
         /\ candleTopic2CandleData' = IF isCandle /\ (NoCandle \/ CandlesOfMinutes(ts) # << >>)
                                      THEN ts ELSE candleTopic2CandleData
  /\ answer' = NoAnswer /\ UNCHANGED <<isCandle, idxFile, second, starts>>

\* The service ends, or crashes, and starts again: nothing that is collected is written.
RestartStorage ==
  /\ starts < MaxStarts /\ starts' = starts + 1
  /\ candleTopic2CandleData' = NoMinute * TicksOfMinute /\ minutesMade' = << >>
  /\ filename2MDGroup' = [d \in Day |-> << >>] /\ otherRows' = 0
  /\ answer' = NoAnswer /\ UNCHANGED <<isCandle, mdFile, idxFile, second, given>>

NextSecond ==
  /\ second < MaxSeconds /\ second' = second + 1 /\ answer' = NoAnswer
  /\ UNCHANGED <<isCandle, candleTopic2CandleData, filename2MDGroup, otherRows, mdFile, idxFile,
                 minutesMade, given, starts>>

-----------------------------------------------------------------------------
\* CreateIdxFileIfNotExists with MakeIndexGroup and SaveIndexGroupToFile.
\* (IdxIsThere: a mistake AnswerIsTheFiles must notice.)
IdxIsThere(d) == FALSE
IdxIsOld(d) == mdFile[d].time > idxFile[d].time
CreateIdxFileIfNotExists(d) ==
  IF mdFile[d].exists /\ (~idxFile[d].exists \/ IdxIsOld(d))
  THEN [exists |-> TRUE, lines |-> mdFile[d].lines, time |-> second] ELSE idxFile[d]

\* LoadIndexGroupFromFile: the lines of a file in the order of their times.
Ascending(lines) == SortSeq(lines, LAMBDA x, y : x < y)
From(lines, ts) == SelectSeq(lines, LAMBDA x : x >= ts)
Until(lines, ts) == SelectSeq(lines, LAMBDA x : x < ts)

\* The loops of LoadHisMDBetweenTs, Before and After over the files of the days, up to a
\* day: only the file of the day of a time asked for is cut at that time.
LinesOn(idx, d) == IF d \in Day THEN idx[d].lines ELSE << >>
LinesOver(idx, first, last) ==
  FlattenSeq([i \in 1 .. (IF last < first THEN 0 ELSE last - first + 1) |-> LinesOn(idx, first + i - 1)])

LoadBetween(idx, b, e, last) ==
  LET first == From(LinesOn(idx, DayOf(b)), b)
  IN  IF last < DayOf(e) THEN first \o LinesOver(idx, DayOf(b) + 1, last)
      ELSE IF DayOf(b) = DayOf(e) THEN Until(first, e)
      ELSE first \o LinesOver(idx, DayOf(b) + 1, DayOf(e) - 1) \o Until(LinesOn(idx, DayOf(e)), e)

LoadBefore(idx, ts, first) == LinesOver(idx, first, DayOf(ts) - 1) \o Until(LinesOn(idx, DayOf(ts)), ts + 1)
LoadAfter(idx, ts, last) == From(LinesOn(idx, DayOf(ts)), ts) \o LinesOver(idx, DayOf(ts) + 1, last)

\* The day at which a loop stops: of those it could stop at the first it comes to.
FirstOf(days, otherwise) == IF days = {} THEN otherwise ELSE Min(days)
LastOf(days, otherwise) == IF days = {} THEN otherwise ELSE Max(days)

\* What a query answers, and the ghosts: whether an index it read lacks lines written in the
\* second it was made in, whether a line is in the file of another day, and all there is in the files.
Answer(kind, a, b, status, lines, idx, days) ==
  /\ answer' = [kind |-> kind, a |-> a, b |-> b, status |-> status, lines |-> lines,
                stale |-> \E d \in days \cap Day : idx[d].lines # mdFile[d].lines /\ idx[d].time = mdFile[d].time,
                astray |-> \E d \in Day : \E i \in DOMAIN mdFile[d].lines : DayOf(mdFile[d].lines[i]) # d,
                all |-> Ascending(LinesOver(mdFile, MIN_DATE, MAX_DATE))]
  /\ idxFile' = [d \in Day |-> IF d \in days THEN idx[d] ELSE idxFile[d]]
  /\ UNCHANGED <<isCandle, candleTopic2CandleData, filename2MDGroup, otherRows, mdFile, second,
                 minutesMade, given, starts>>

IdxGroup == [d \in Day |-> CreateIdxFileIfNotExists(d)]

LoadHisMDBetweenTs(b, e) ==
  IF b > e \/ DayOf(b) > MAX_DATE \/ DayOf(e) < MIN_DATE
  THEN Answer("between", b, e, "HIS_MD_INVALID_TS", << >>, idxFile, {})
  ELSE \E idx \in {IdxGroup} :
         LET tooMany == {d \in DayOf(b) .. DayOf(e) : Len(LoadBetween(idx, b, e, d)) > maxNumOfHisMD}
             last == FirstOf(tooMany, DayOf(e))
         IN  IF tooMany # {}
             THEN Answer("between", b, e, "RECORDS_GREATER_THAN_LIMIT", << >>, idx, DayOf(b) .. last)
             ELSE Answer("between", b, e, "ok", Ascending(LoadBetween(idx, b, e, last)), idx, DayOf(b) .. last)

\* The last n lines of a sequence, and the first n.
LastN(s, n) == SubSeq(s, IF Len(s) > n THEN Len(s) - n + 1 ELSE 1, Len(s))
FirstN(s, n) == SubSeq(s, 1, IF Len(s) > n THEN n ELSE Len(s))
StatusOf(lines, n) == IF Len(lines) < n THEN "RECORDS_LESS_THAN_NUM" ELSE "ok"

LoadHisMDBeforeTs(ts, n) ==
  IF n > maxNumOfHisMD THEN Answer("before", ts, n, "RECORDS_GREATER_THAN_LIMIT", << >>, idxFile, {})
  ELSE IF DayOf(ts) < MIN_DATE \/ DayOf(ts) > MAX_DATE
  THEN Answer("before", ts, n, "HIS_MD_INVALID_TS", << >>, idxFile, {})
  ELSE \E idx \in {IdxGroup} :
         LET first == LastOf({d \in MIN_DATE .. DayOf(ts) : Len(LoadBefore(idx, ts, d)) >= n}, MIN_DATE)
             lines == LastN(Ascending(LoadBefore(idx, ts, first)), n)
         IN  Answer("before", ts, n, StatusOf(lines, n), lines, idx, first .. DayOf(ts))

LoadHisMDAfterTs(ts, n) ==
  IF n > maxNumOfHisMD THEN Answer("after", ts, n, "RECORDS_GREATER_THAN_LIMIT", << >>, idxFile, {})
  ELSE IF DayOf(ts) < MIN_DATE \/ DayOf(ts) > MAX_DATE
  THEN Answer("after", ts, n, "HIS_MD_INVALID_TS", << >>, idxFile, {})
  ELSE \E idx \in {IdxGroup} :
         LET last == FirstOf({d \in DayOf(ts) .. MAX_DATE : Len(LoadAfter(idx, ts, d)) >= n}, MAX_DATE)
             lines == FirstN(Ascending(LoadAfter(idx, ts, last)), n)
         IN  Answer("after", ts, n, StatusOf(lines, n), lines, idx, DayOf(ts) .. last)

HisNext ==
  \/ \E ts \in HisTs : handleMDLine(ts)
  \/ RestartStorage
  \/ NextSecond
  \/ \E q \in BetweenQuery : LoadHisMDBetweenTs(q[1], q[2])
  \/ \E q \in NumQuery : LoadHisMDBeforeTs(q[1], q[2])
  \/ \E q \in NumQuery : LoadHisMDAfterTs(q[1], q[2])

-----------------------------------------------------------------------------
\* Each minute from the first candle of a service to the last complete one has one line,
\* in order, whatever minutes no candle came in and whatever candles came late.
WholeMinutes == \A i \in 2 .. Len(minutesMade) : minutesMade[i] = minutesMade[i - 1] + 1

\* A query that is answered is answered with what the files hold: between two times all
\* of it, before and after a time the lines next to that time; and it says that there are
\* fewer lines only when there are.  Excepted are an index made in the second in which its
\* file was written again, and the candle of a day's last minute, which
\* handleLastRecOfCandleInOneMinute writes to the file of the next day, where a query of
\* the day does not look for it.
AnswerIsTheFiles ==
  answer.status \in {"ok", "RECORDS_LESS_THAN_NUM"} /\ ~answer.stale /\ ~answer.astray =>
    /\ answer.lines = CASE answer.kind = "between" -> Until(From(answer.all, answer.a), answer.b)
                        [] answer.kind = "before"  -> LastN(Until(answer.all, answer.a + 1), answer.b)
                        [] answer.kind = "after"   -> FirstN(From(answer.all, answer.a), answer.b)
    /\ answer.status = "RECORDS_LESS_THAN_NUM" <=>
         answer.kind # "between" /\ Len(answer.lines) < answer.b
=============================================================================
