-------------------------------- MODULE PosMgr --------------------------------
(***************************************************************************)
(* The book of positions (PosMgr.hpp) and what one deal does to it.  A     *)
(* record is found by what the deal is about (grp: account, strategy,      *)
(* algo, symbol), the posSide, the side and the currency of the fee.       *)
(* Holdings of a posSide Both are two records of which one is not zero,    *)
(* and a deal beyond the holding flips from one to the other; holdings of  *)
(* Long and of Short are opened and closed each in a record of its own.    *)
(*                                                                         *)
(* Sizes are signed as in the code: those of an Ask are negative.  Prices  *)
(* and profits are exact fractions <<n, d>>.  Fees, the par value and the  *)
(* figures of yesterday are left out.  The field of is a ghost: the deals  *)
(* a record was made from.                                                 *)
(***************************************************************************)
EXTENDS Integers, Sequences, FiniteSets

CONSTANT CoinBased   \* the grps whose symbol is a contract margined in its coin

gcd[a \in Nat, b \in Nat] == IF b = 0 THEN a ELSE gcd[b, a % b]
Abs(n) == IF n < 0 THEN -n ELSE n

\* Functions, so that TLC computes what they are applied to once.
Fraction == Int \X Int
reduced[x \in Fraction] ==
  LET g == gcd[Abs(x[1]), Abs(x[2])] * (IF x[2] < 0 THEN -1 ELSE 1)
  IN  <<x[1] \div g, x[2] \div g>>
plus[x \in Fraction, y \in Fraction] == reduced[<<x[1] * y[2] + y[1] * x[2], x[2] * y[2]>>]
times[x \in Fraction, y \in Fraction] == reduced[<<x[1] * y[1], x[2] * y[2]>>]
inverse[y \in Fraction] == reduced[<<y[2], y[1]>>]
minus[y \in Fraction] == <<-y[1], y[2]>>

Zero == <<0, 1>>
Frac(n) == <<n, 1>>
Plus(x, y) == plus[x, y]
Minus(x, y) == plus[x, minus[y]]
Times(x, y) == times[x, y]
Over(x, y) == times[x, inverse[y]]

-------------------------------------------------------------------------------

KeyOf(d, side) == [grp |-> d.grp, posSide |-> d.posSide, side |-> side, cur |-> d.cur]

\* A record without a position, as made for the side a deal is not of.
NoPos == [pos |-> 0, avgOpenPrice |-> Zero, pnlReal |-> Zero, totalBidSize |-> 0,
          totalAskSize |-> 0, totalOpenSize |-> 0, lastNo |-> 0, of |-> {}]

RecOf(book, k) == IF k \in DOMAIN book THEN book[k] ELSE NoPos
Put(book, k, r) == [j \in DOMAIN book \cup {k} |-> IF j = k THEN r ELSE book[j]]

\* What every change of a record by a deal sets alike.
Totalled(r, d, opens) ==
  [r EXCEPT !.totalBidSize = @ + (IF d.side = "Bid" THEN d.size ELSE 0),
            !.totalAskSize = @ + (IF d.side = "Ask" THEN d.size ELSE 0),
            !.totalOpenSize = @ + (IF opens THEN d.size ELSE 0)]
Numbered(r, d) == [r EXCEPT !.lastNo = d.no, !.of = @ \cup {d.id}]

recalcAvgOpenPrice(d, r, newPos) ==
  LET size == Frac(d.size)
      price == Frac(d.price)
      pos == Frac(r.pos)
  IN  IF d.grp \notin CoinBased
      THEN Over(Plus(Times(pos, r.avgOpenPrice), Times(size, price)), Frac(newPos))
      ELSE Over(Frac(newPos),
                Plus(IF r.avgOpenPrice = Zero THEN Zero ELSE Over(pos, r.avgOpenPrice),
                     Over(size, price)))

\* The profit of closing closePos, a positive number, of a holding opened at open:
\* of a long one, and, the other way round, of a short one.
calcPnlOfCloseLong(d, open, closePos) ==
  LET close == Frac(d.price)
  IN  Times(Frac(closePos), IF d.grp \in CoinBased
                            THEN Minus(Over(Frac(1), open), Over(Frac(1), close))
                            ELSE Minus(close, open))
calcPnlOfCloseShort(d, open, closePos) ==
  LET close == Frac(d.price)
  IN  Times(Frac(closePos), IF d.grp \in CoinBased
                            THEN Minus(Over(Frac(1), close), Over(Frac(1), open))
                            ELSE Minus(open, close))

calcCurPnlRealOfCloseShort(d, r, newPos) ==
  calcPnlOfCloseShort(d, r.avgOpenPrice, IF newPos > 0 THEN -r.pos ELSE d.size)
calcCurPnlRealOfCloseLong(d, r, newPos) ==
  calcPnlOfCloseLong(d, r.avgOpenPrice, IF newPos < 0 THEN r.pos ELSE -d.size)

ClosePnl(d, r, newPos) == IF d.side = "Bid" THEN calcCurPnlRealOfCloseShort(d, r, newPos)
                                            ELSE calcCurPnlRealOfCloseLong(d, r, newPos)

-------------------------------------------------------------------------------
(* Each of the following gives the new book and the keys of the records    *)
(* that changed, in the order in which they are reported.                  *)

Changed(book, keys) == [book |-> book, chg |-> keys]

\* Add to the holding of the side of the deal.
Increase(book, d, k, opens) ==
  LET r == RecOf(book, k)
      newPos == r.pos + d.size
  IN  Changed(Put(book, k, Numbered(Totalled(
                [r EXCEPT !.avgOpenPrice = recalcAvgOpenPrice(d, r, newPos),
                          !.pos = newPos], d, opens), d)), <<k>>)

\* Close a part of the holding of the other side, or all of it.
Decrease(book, d, k, newPos, opens) ==
  LET r == book[k]
  IN  Changed(Put(book, k, Numbered(Totalled(
                [r EXCEPT !.pnlReal = Plus(@, ClosePnl(d, r, newPos)),
                          !.pos = newPos], d, opens), d)), <<k>>)

\* Mutant: the record that was closed keeps its position.
FlipWithoutReset(book, d, closed, opened, newPos) ==
  LET c == Numbered(Totalled([book[closed] EXCEPT !.pnlReal = Plus(@, ClosePnl(d, book[closed], newPos))],
                             d, d.opens), d)
      o == Numbered([book[opened] EXCEPT !.avgOpenPrice = Frac(d.price), !.pos = newPos], d)
  IN  Changed(Put(Put(book, closed, c), opened, o), <<closed, opened>>)

\* Close all of it and hold what is left of the deal on its own side.  The totals
\* are counted in the record that was closed.
Flip(book, d, closed, opened, newPos) ==
  LET c == book[closed]
      o == book[opened]
      c2 == Numbered(Totalled([c EXCEPT !.pnlReal = Plus(@, ClosePnl(d, c, newPos)),
                                        !.pos = 0], d, d.opens), d)
      o2 == Numbered([o EXCEPT !.avgOpenPrice = Frac(d.price), !.pos = newPos], d)
  IN  Changed(Put(Put(book, closed, c2), opened, o2), <<closed, opened>>)

\* One side: the deal is of the side mine, the holding may be on either.
SinglePosSide(book0, d, mine, other) ==
  LET book == Put(Put(book0, mine, RecOf(book0, mine)), other, RecOf(book0, other))
      newPos == book[other].pos + d.size
      beyond == IF d.side = "Bid" THEN newPos > 0 ELSE newPos < 0
  IN  IF Abs(book[mine].pos) >= Abs(book[other].pos) THEN Increase(book, d, mine, d.opens)
      ELSE IF beyond THEN Flip(book, d, other, mine, newPos)
      ELSE Decrease(book, d, other, newPos, d.opens)

updateByOrderInfoSinglePosSideOfBid(book, d) ==
  SinglePosSide(book, d, KeyOf(d, "Bid"), KeyOf(d, "Ask"))
updateByOrderInfoSinglePosSideOfAsk(book, d) ==
  SinglePosSide(book, d, KeyOf(d, "Ask"), KeyOf(d, "Bid"))

\* Two sides, opening.
updateByOrderInfoDoublePosSideOfBidLong(book, d) == Increase(book, d, KeyOf(d, "Bid"), TRUE)
updateByOrderInfoDoublePosSideOfAskShort(book, d) == Increase(book, d, KeyOf(d, "Ask"), TRUE)

\* Two sides, closing: nothing without a position; beyond it nothing is left, but the
\* whole deal counts as closed.
updateByOrderInfoDoublePosSideOfAskLong(book, d) ==
  LET k == KeyOf(d, "Bid")
      newPos == RecOf(book, k).pos + d.size
  IN  IF RecOf(book, k).pos = 0 THEN Changed(book, << >>)
      ELSE Decrease(book, d, k, IF newPos < 0 THEN 0 ELSE newPos, FALSE)
updateByOrderInfoDoublePosSideOfBidShort(book, d) ==
  LET k == KeyOf(d, "Ask")
      newPos == RecOf(book, k).pos + d.size
  IN  IF RecOf(book, k).pos = 0 THEN Changed(book, << >>)
      ELSE Decrease(book, d, k, IF newPos > 0 THEN 0 ELSE newPos, FALSE)

updateByOrderInfoFromTDGW(book, d) ==
  CASE d.posSide = "Both" /\ d.side = "Bid" -> updateByOrderInfoSinglePosSideOfBid(book, d)
    [] d.posSide = "Both" /\ d.side = "Ask" -> updateByOrderInfoSinglePosSideOfAsk(book, d)
    [] d.posSide = "Long" /\ d.side = "Bid" -> updateByOrderInfoDoublePosSideOfBidLong(book, d)
    [] d.posSide = "Long" /\ d.side = "Ask" -> updateByOrderInfoDoublePosSideOfAskLong(book, d)
    [] d.posSide = "Short" /\ d.side = "Ask" -> updateByOrderInfoDoublePosSideOfAskShort(book, d)
    [] d.posSide = "Short" /\ d.side = "Bid" -> updateByOrderInfoDoublePosSideOfBidShort(book, d)

-------------------------------------------------------------------------------
(* The rows of the table: without the currency of the fee in their key *)

RowKey(k) == [grp |-> k.grp, posSide |-> k.posSide, side |-> k.side]
Replaced(table, s) == Put(table, RowKey(s.key), [cur |-> s.key.cur, rec |-> s.rec])

\* The book made of the rows; lastNo is not read.
BookOfRows(table) ==
  LET keyOf(rk) == [grp |-> rk.grp, posSide |-> rk.posSide, side |-> rk.side,
                    cur |-> table[rk].cur]
  IN  [k \in {keyOf(rk) : rk \in DOMAIN table} |-> [table[RowKey(k)].rec EXCEPT !.lastNo = 0]]

\* The copies of the records a deal changed, to be written.
Statements(u) ==
  [i \in DOMAIN u.chg |-> [key |-> u.chg[i], rec |-> u.book[u.chg[i]], second |-> i > 1]]

===============================================================================
