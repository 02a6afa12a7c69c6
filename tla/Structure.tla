----------------------------- MODULE Structure -----------------------------
(***************************************************************************)
(* What the evaluators and the scorer read off candles: fractal swings and *)
(* breaks of structure, rejection bars, order blocks and fair value gaps,  *)
(* the clustered book of levels.  Code: src/src/structure_state.py,        *)
(* patterns.py, order_blocks.py, level_book.py.                            *)
(*                                                                         *)
(* A bar is a record of whole prices; bars are counted from one.  A price  *)
(* that may be missing is a sequence of at most one price, so a list of    *)
(* candidates is a concatenation.                                          *)
(***************************************************************************)
EXTENDS Integers, Sequences, FiniteSetsExt

None == <<>>
Dist(p, q) == IF p < q THEN q - p ELSE p - q

\* min((list[i] for i in S), key=...): the first of the best.
FirstMin(list, S, key(_)) ==
  LET best == {i \in S : \A j \in S : key(list[i]) <= key(list[j])}
  IN IF S = {} THEN None ELSE <<list[Min(best)]>>

Bar(o, h, l, c) == [open |-> o, high |-> h, low |-> l, close |-> c]

(***************************************************************************)
(* Swings: a pivot exceeds the bars before it and is not exceeded by the   *)
(* bars after it, width bars on each side.                                 *)
(***************************************************************************)
SwingHighs(bars, width) ==
  {i \in (width + 1)..(Len(bars) - width) :
     \A j \in 1..width : /\ bars[i].high > bars[i - j].high
                         /\ bars[i].high >= bars[i + j].high}
SwingLows(bars, width) ==
  {i \in (width + 1)..(Len(bars) - width) :
     \A j \in 1..width : /\ bars[i].low < bars[i - j].low
                         /\ bars[i].low <= bars[i + j].low}

LastSwingHigh(bars, lookback, width) ==
  LET S == {i \in SwingHighs(bars, width) : i > Len(bars) - lookback}
  IN IF S = {} THEN None ELSE <<bars[Max(S)].high>>
LastSwingLow(bars, lookback, width) ==
  LET S == {i \in SwingLows(bars, width) : i > Len(bars) - lookback}
  IN IF S = {} THEN None ELSE <<bars[Max(S)].low>>

\* Mutation: a bar is judged by swings its own future confirms.
ConfirmedEarly(S, i, width) == {s \in S : s <= i}

\* The swings already confirmed at bar i.
Confirmed(S, i, width) == {s \in S : s <= i - width}

\* The break bar i's close makes: a continuation, or the first break against
\* the last two highs and lows.
BreakAt(bars, i, width) ==
  LET highs == Confirmed(SwingHighs(bars, width), i, width)
      lows  == Confirmed(SwingLows(bars, width), i, width)
      h1 == bars[Max(highs)].high   h2 == bars[Max(highs \ {Max(highs)})].high
      l1 == bars[Max(lows)].low     l2 == bars[Max(lows \ {Max(lows)})].low
  IN IF Cardinality(highs) < 2 \/ Cardinality(lows) < 2 THEN "none"
     ELSE IF bars[i].close > h1
          THEN IF h1 < h2 /\ l1 < l2 THEN "CHOCH_UP" ELSE "BOS_UP"
     ELSE IF bars[i].close < l1
          THEN IF h1 > h2 /\ l1 > l2 THEN "CHOCH_DOWN" ELSE "BOS_DOWN"
     ELSE "none"

LastStructureEvent(bars, width, lookback) ==
  LET from == Max({width, Len(bars) - lookback}) + 1
      S == {i \in from..Len(bars) : BreakAt(bars, i, width) # "none"}
  IN IF S = {} THEN "none" ELSE BreakAt(bars, Max(S), width)

(***************************************************************************)
(* Rejection bars: a pin bar, or an engulfing of the previous bar.         *)
(***************************************************************************)
Body(b) == Dist(b.close, b.open)
UpperWick(b) == b.high - Max({b.open, b.close})
LowerWick(b) == Min({b.open, b.close}) - b.low

BullishEngulfing(prev, cur) ==
  /\ cur.close > cur.open /\ prev.close < prev.open
  /\ cur.close >= prev.open /\ cur.open <= prev.close
BearishEngulfing(prev, cur) ==
  /\ cur.close < cur.open /\ prev.close > prev.open
  /\ cur.open >= prev.close /\ cur.close <= prev.open

BullishPin(b) == /\ Body(b) > 0 /\ LowerWick(b) >= 2 * Body(b)
                 /\ UpperWick(b) <= Body(b) /\ b.close >= b.open
BearishPin(b) == /\ Body(b) > 0 /\ UpperWick(b) >= 2 * Body(b)
                 /\ LowerWick(b) <= Body(b) /\ b.close <= b.open

BullishRejection(cur, prev, minRange) ==
  /\ ~(minRange > 0 /\ cur.high - cur.low < minRange)
  /\ BullishPin(cur) \/ BullishEngulfing(prev, cur)
BearishRejection(cur, prev, minRange) ==
  /\ ~(minRange > 0 /\ cur.high - cur.low < minRange)
  /\ BearishPin(cur) \/ BearishEngulfing(prev, cur)

(***************************************************************************)
(* Zones: an order block is the last opposing bar before a close through   *)
(* it, a fair value gap the imbalance of three bars.  A zone is mitigated  *)
(* once a later bar trades back into it.                                   *)
(***************************************************************************)
Zone(i, top, bottom, bullish) ==
  [index |-> i, top |-> top, bottom |-> bottom, bullish |-> bullish]

FairValueGaps(bars) ==
  LET mid == 2..(Len(bars) - 1) IN
  {Zone(i, bars[i + 1].low, bars[i - 1].high, TRUE) :
     i \in {k \in mid : bars[k + 1].low > bars[k - 1].high}}
  \cup
  {Zone(i, bars[i - 1].low, bars[i + 1].high, FALSE) :
     i \in {k \in mid : bars[k - 1].low > bars[k + 1].high}}

OrderBlocks(bars) ==
  LET before == 1..(Len(bars) - 1)
      Block(i, bullish) == Zone(i, bars[i].high, bars[i].low, bullish) IN
  {Block(i, TRUE) : i \in {k \in before : /\ bars[k].close < bars[k].open
                                          /\ bars[k + 1].close > bars[k].high}}
  \cup
  {Block(i, FALSE) : i \in {k \in before : /\ bars[k].close > bars[k].open
                                           /\ bars[k + 1].close < bars[k].low}}

Mitigated(zone, bars) ==
  \E k \in (zone.index + 2)..Len(bars) :
    bars[k].low <= zone.top /\ bars[k].high >= zone.bottom

Unmitigated(zones, bars) == {z \in zones : ~Mitigated(z, bars)}

(***************************************************************************)
(* The level book.  Levels closer than the tolerance to the next one merge *)
(* into their average, each touch counting once.                           *)
(***************************************************************************)
\* round(p / step) * step, halves to the even multiple.
RoundTo(p, step) ==
  LET q == p \div step  r == 2 * (p % step)
  IN step * (IF r < step \/ (r = step /\ q % 2 = 0) THEN q ELSE q + 1)

\* The round numbers strictly inside the range of the bars.
RoundLevels(bars, step) ==
  LET lo == Min({bars[i].low : i \in DOMAIN bars})
      hi == Max({bars[i].high : i \in DOMAIN bars})
  IN {p \in {step * k : k \in (lo \div step + 1)..(hi \div step)} : p < hi}

\* A touch is a pair of its source and its price.
Touches(bars, step, extra, width) ==
  {<<"high", i, bars[i].high>> : i \in SwingHighs(bars, width)}
  \cup {<<"low", i, bars[i].low>> : i \in SwingLows(bars, width)}
  \cup {<<"extra", i, extra[i]>> : i \in DOMAIN extra}
  \cup {<<"round", p, p>> : p \in RoundLevels(bars, step)}

\* The average price of each cluster.
LevelBook(bars, step, extra, width, tol) ==
  LET touches == Touches(bars, step, extra, width)
      prices  == {t[3] : t \in touches}
      starts  == {p \in prices : \A q \in prices : q < p => p - q > tol}
      Group(s) == {t \in touches :
                     t[3] >= s /\ \A r \in starts : r > s => t[3] < r}
      Average(T) == MapThenSumSet(LAMBDA t : t[3], T) \div Cardinality(T)
  IN {Average(Group(s)) : s \in starts}

NearestSupport(book, price) ==
  LET below == {p \in book : p < price} IN IF below = {} THEN None ELSE <<Max(below)>>
NearestResistance(book, price) ==
  LET above == {p \in book : p > price} IN IF above = {} THEN None ELSE <<Min(above)>>
=============================================================================
