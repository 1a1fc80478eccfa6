----------------------------- MODULE DynCandle -----------------------------
(***************************************************************************)
(* DynCandleSvc of the strategy engine: candles of any start and interval, *)
(* made in the engine from the last prices of the symbols somebody has     *)
(* asked a candle of.                                                      *)
(*                                                                         *)
(* The thread of the shared memory filters the last prices by symbol and   *)
(* puts them in a queue; the thread of the service takes them from there.  *)
(* dynCandleKey2Candle_ is a map ordered by the addresses of its keys, and *)
(* each call makes a key of its own: a search in it never succeeds, so     *)
(* every subscription adds a candle and nothing takes one out.             *)
(***************************************************************************)
EXTENDS Naturals, Sequences, FiniteSets, SequencesExt

CONSTANTS
  Inst,      \* the instances of the strategy
  Key        \* DynCandleKey: [symbol, startTs, interval]

VARIABLES
  symbolGroupUsedToGenCandle,
  dynCandleKey2Subscriber,
  dynCandleKey2Candle,   \* sequence of candles: [key, startTsOfCandle, vol], vol as the
                         \* trades it sums, by number, and the ghosts from and standing
  taskQueue,             \* the last prices the filter let pass, by number
  ticks,                 \* ghost: every last price that came to the engine, with
                         \* whether the filter let it pass
  handled,               \* ghost: the number of the last one taken from the queue
  since                  \* ghost: how many had come when the symbol passed the filter

candleVars == <<symbolGroupUsedToGenCandle, dynCandleKey2Subscriber, dynCandleKey2Candle,
                taskQueue, ticks, handled, since>>

Symbol == {k.symbol : k \in Key}

CandleInit ==
  /\ symbolGroupUsedToGenCandle = {} /\ dynCandleKey2Subscriber = [k \in Key |-> {}]
  /\ dynCandleKey2Candle = << >> /\ taskQueue = << >>
  /\ ticks = << >> /\ handled = 0 /\ since = [k \in Symbol |-> 0]

\* The engine starts again with nothing of it.
CandleReset ==
  /\ symbolGroupUsedToGenCandle' = {} /\ dynCandleKey2Subscriber' = [k \in Key |-> {}]
  /\ dynCandleKey2Candle' = << >> /\ taskQueue' = << >>
  /\ ticks' = << >> /\ handled' = 0 /\ since' = [k \in Symbol |-> 0]

-----------------------------------------------------------------------------
\* sub and unSub, one step for each of the three locks they take in turn.  When
\* one candle of a symbol is unsubscribed the symbol no longer passes, whoever
\* else has a candle of it: no candle of the symbol stands any more.
resetSymbolGroupUsedToGenCandle(key, isSub) ==
  /\ IF isSub
     THEN /\ symbolGroupUsedToGenCandle' = symbolGroupUsedToGenCandle \cup {key.symbol}
          /\ since' = IF key.symbol \in symbolGroupUsedToGenCandle THEN since
                      ELSE [since EXCEPT ![key.symbol] = Len(ticks)]
          /\ UNCHANGED dynCandleKey2Candle
     ELSE /\ symbolGroupUsedToGenCandle' = symbolGroupUsedToGenCandle \ {key.symbol}
          /\ dynCandleKey2Candle' = [n \in DOMAIN dynCandleKey2Candle |->
               [dynCandleKey2Candle[n] EXCEPT !.standing = @ /\ dynCandleKey2Candle[n].key.symbol # key.symbol]]
          /\ UNCHANGED since
  /\ UNCHANGED <<dynCandleKey2Subscriber, taskQueue, ticks, handled>>

resetDynCandleKey2Subscriber(subscriber, key, isSub) ==
  dynCandleKey2Subscriber' =
       [dynCandleKey2Subscriber EXCEPT ![key] = IF isSub THEN @ \cup {subscriber} ELSE @ \ {subscriber}]

\* A candle is added by each subscription and erased by none.
initDynCandleKey2Candle(key, isSub) ==
  dynCandleKey2Candle' =
       IF isSub
       THEN Append(dynCandleKey2Candle,
                   [key |-> key, startTsOfCandle |-> 0, vol |-> << >>, from |-> handled,
                    standing |-> key.symbol \in symbolGroupUsedToGenCandle])
       ELSE dynCandleKey2Candle

-----------------------------------------------------------------------------
\* handle: only the last prices of the symbols asked for are queued.
handleLastPrice(symbol, ts) ==
  /\ ticks' = Append(ticks, [symbol |-> symbol, exchTs |-> ts,
                             passed |-> symbol \in symbolGroupUsedToGenCandle])
  /\ taskQueue' = IF symbol \in symbolGroupUsedToGenCandle
                  THEN Append(taskQueue, Len(ticks) + 1) ELSE taskQueue
  /\ UNCHANGED <<symbolGroupUsedToGenCandle, dynCandleKey2Subscriber, dynCandleKey2Candle, handled, since>>

StartOf(ts, interval) == (ts \div interval) * interval

\* One candle takes the last price of a number: it begins, goes on or gives way to
\* the next; a price of an earlier candle, or one before the start, changes
\* nothing.  (BeginsAgain: each price begins a candle, a mistake CandleIsWhole
\* must notice.)
BeginsAgain(candle, n) ==
  IF ticks[n].symbol # candle.key.symbol \/ ticks[n].exchTs < candle.key.startTs THEN candle
  ELSE [candle EXCEPT !.startTsOfCandle = StartOf(ticks[n].exchTs, candle.key.interval), !.vol = <<n>>]

TakeLastPrice(candle, n) ==
  LET start == StartOf(ticks[n].exchTs, candle.key.interval)
      never == candle.startTsOfCandle = 0
      begins == IF never THEN ticks[n].exchTs >= candle.key.startTs ELSE start > candle.startTsOfCandle
      goesOn == ~never /\ start = candle.startTsOfCandle
  IN  IF ticks[n].symbol # candle.key.symbol THEN candle
      ELSE IF begins THEN [candle EXCEPT !.startTsOfCandle = start, !.vol = <<n>>]
      ELSE IF goesOn THEN [candle EXCEPT !.vol = Append(@, n)]
      ELSE candle

\* handleAsyncTask
handleAsyncTask ==
  /\ taskQueue # << >>
  /\ taskQueue' = Tail(taskQueue) /\ handled' = Head(taskQueue)
  /\ dynCandleKey2Candle' = [n \in DOMAIN dynCandleKey2Candle |->
                               TakeLastPrice(dynCandleKey2Candle[n], Head(taskQueue))]
  /\ UNCHANGED <<symbolGroupUsedToGenCandle, dynCandleKey2Subscriber, ticks, since>>

-----------------------------------------------------------------------------
\* The last prices of a candle: those handled since it was made that came since
\* its symbol passes, or that had passed before somebody unsubscribed the symbol.
Meant(candle) ==
  {n \in (candle.from + 1) .. handled :
     /\ ticks[n].symbol = candle.key.symbol
     /\ n > since[candle.key.symbol] \/ ticks[n].passed}

\* From the first of them on that is not before its start.
Started(candle) ==
  {n \in Meant(candle) : \E m \in Meant(candle) : m <= n /\ ticks[m].exchTs >= candle.key.startTs}

StartOfTick(candle, n) == StartOf(ticks[n].exchTs, candle.key.interval)

\* As long as nobody unsubscribes a candle of the symbol, a candle is the one of the
\* latest interval seen and counts every trade of it, once, whatever is queued,
\* filtered or subscribed meanwhile.
CandleIsWhole ==
  \A i \in DOMAIN dynCandleKey2Candle :
    LET c == dynCandleKey2Candle[i]
    IN  c.standing =>
          /\ c.startTsOfCandle = Max({0} \cup {StartOfTick(c, n) : n \in Started(c)})
          /\ c.startTsOfCandle # 0 =>
               /\ IsInjective(c.vol)
               /\ ToSet(c.vol) = {n \in Started(c) : StartOfTick(c, n) = c.startTsOfCandle}
=============================================================================
