----------------------------- MODULE Evaluators -----------------------------
(***************************************************************************)
(* The fourteen setup evaluators: when each one finds its setup in the     *)
(* scan context of an instrument, and the entry, stop and targets it draws *)
(* up.  Code: src/src/channels/india_scalp.py, src/config/__init__.py.     *)
(*                                                                         *)
(* A context is a record; its fields are named in the model of the run.    *)
(* Indicator values (averages, RSI, bands, ATR) are fields, not computed   *)
(* from candles.  Prices and ATR are whole points; shares of the ATR, R:R  *)
(* ratios, volume ratios and RSI are percents, and shares of the price     *)
(* hundredths of a percent, as the configuration has them by default; open *)
(* interest is in tens of thousands, its change in tenths of a percent.    *)
(***************************************************************************)
EXTENDS Structure, Tape

CONSTANT LongFlips   \* SRF_LONG_ENABLED

ASSUME EvaluatorsAssumption == LongFlips \in BOOLEAN

MinTriggerRange == 50
MaxChase == 50
LSR == [lookback |-> 30, volume |-> 120, pad |-> 50, minSl |-> 6, maxSl |-> 100,
        minRR |-> 150, near |-> 25]
ORB == [minRange |-> 10, maxRange |-> 150, buffer |-> 10, volume |-> 130,
        minSl |-> 6, maxSl |-> 120, rr |-> 200, until |-> 660]
VSB == [lookback |-> 20, volume |-> 150, oi |-> 0, entry |-> 5, pad |-> 50,
        minSl |-> 6, maxSl |-> 100, rr |-> 200]
VIX == [high |-> 20, drop |-> 150, rsi |-> 35, pad |-> 30, minSl |-> 15, maxSl |-> 150]
PCR == [near |-> 100, pad |-> 50, minSl |-> 6, maxSl |-> 100, minRR |-> 150]
TPE == [pullback |-> 150, rsiMin |-> 35, rsiMax |-> 60, pad |-> 50, points |-> 8,
        minSl |-> 6, maxSl |-> 80, rr |-> 200, minRR |-> 150]
OIS == [spike |-> 30, oi |-> 500, near |-> 100, pad |-> 50, minSl |-> 6,
        maxSl |-> 100, minRR |-> 150]
SRF == [flip |-> 50, retest |-> 30, pad |-> 50, minSl |-> 6, maxSl |-> 150, minRR |-> 150]
FAR == [volume |-> 120, minSl |-> 6, maxSl |-> 100, minRR |-> 150]
DIV == [extreme |-> 60, margin |-> 5, pad |-> 50, minSl |-> 6, maxSl |-> 120, minRR |-> 150]
QCB == [squeeze |-> 6, volume |-> 150, pad |-> 10, minSl |-> 6, maxSl |-> 60, minRR |-> 200]
MAC == [volume |-> 120, pad |-> 50, minSl |-> 6, maxSl |-> 100, minRR |-> 150]
EGS == [minGap |-> 20, maxGap |-> 100, pad |-> 100, minSl |-> 6, maxSl |-> 80]
TP1MinRR == 120
TP2Mult == 200
TP2MinMult == 150
TP2MaxMult == 300

(***************************************************************************)
(* Geometry shared by the evaluators.                                      *)
(***************************************************************************)
Sign(d) == IF d = Long THEN 1 ELSE -1
OfAtr(ctx, percent) == (ctx.atr * percent) \div 100
Tick == 1   \* tick_size, in points

\* round_step_for: 50 points on NIFTY, 100 on a stock of this price.
RoundStep(ctx) == IF ctx.index THEN 50 ELSE 100

\* A share of a price, in hundredths of a percent, lies in a band.
ShareIn(part, price, least, most) ==
  part * 10000 >= least * price /\ part * 10000 <= most * price

\* Every _build refuses a stop on the entry or outside the setup's band.
StopFits(entry, sl, cfg) ==
  entry > 0 /\ sl # entry /\ ShareIn(Dist(entry, sl), entry, cfg.minSl, cfg.maxSl)

\* rr >= MIN_RR.
Pays(entry, sl, tp1, minRR) == Dist(tp1, entry) * 100 >= minRR * Dist(entry, sl)

\* The target a multiple of the stop distance away.
Multiple(d, entry, sl, rr) == entry + Sign(d) * ((Dist(entry, sl) * rr) \div 100)

OiLevels(ctx) == ctx.callWall \o ctx.putWall \o ctx.maxPain

\* Previous day, session VWAP, option walls and a locked opening range.
KeyLevels(ctx) ==
  <<ctx.pdh, ctx.pdl, ctx.pdc>> \o ctx.vwap \o OiLevels(ctx)
    \o (IF ctx.orLocked THEN ctx.orh \o ctx.orl ELSE None)

\* The places of the levels beyond entry by a distance in the band, in
\* hundredths.
LevelsBeyond(levels, d, entry, least, most) ==
  {i \in DOMAIN levels : /\ levels[i] > 0
                         /\ least <= 100 * Sign(d) * (levels[i] - entry)
                         /\ 100 * Sign(d) * (levels[i] - entry) <= most}

\* Mutation: the nearest level beyond entry, short of TP1 or not.
Tp2AnyLevel(ctx, d, entry, tp1) ==
  LET dist == Dist(tp1, entry)
      anchor == entry + Sign(d) * ((dist * TP2Mult) \div 100)
      mapped == LevelsBeyond(KeyLevels(ctx), d, entry, 0, TP2MaxMult * dist)
  IN IF dist = 0 THEN None
     ELSE IF mapped = {} THEN <<anchor>>
     ELSE FirstMin(KeyLevels(ctx), mapped, LAMBDA p : Dist(p, entry))

\* The level nearest the anchor in the band past TP1, else the anchor.
DeriveTp2(ctx, d, entry, tp1) ==
  LET dist == Dist(tp1, entry)
      anchor == entry + Sign(d) * ((dist * TP2Mult) \div 100)
      mapped == LevelsBeyond(KeyLevels(ctx), d, entry,
                             TP2MinMult * dist, TP2MaxMult * dist)
  IN IF entry <= 0 \/ dist = 0 THEN None
     ELSE IF mapped = {} THEN <<anchor>>
     ELSE FirstMin(KeyLevels(ctx), mapped, LAMBDA p : Dist(p, anchor))

\* The grid of round numbers the breakout targets may snap to.
RoundGrid(ctx, entry) ==
  [k \in 1..5 |-> RoundTo(entry, RoundStep(ctx)) + (k - 2) * RoundStep(ctx)]

\* The nearest level between the least R:R and the setup's multiple.
StructuralTp1(ctx, d, entry, sl, rr) ==
  LET dist == Dist(entry, sl)
      levels == KeyLevels(ctx) \o RoundGrid(ctx, entry)
      mapped == LevelsBeyond(levels, d, entry, TP1MinRR * dist, rr * dist)
  IN IF entry <= 0 \/ dist = 0 \/ mapped = {} THEN Multiple(d, entry, sl, rr)
     ELSE FirstMin(levels, mapped, LAMBDA p : Dist(p, entry))[1]

Nearest(price, levels) == FirstMin(levels, DOMAIN levels, LAMBDA p : Dist(p, price))
NearestAbove(price, levels) ==
  FirstMin(levels, {i \in DOMAIN levels : levels[i] > price}, LAMBDA p : p)
NearestBelow(price, levels) ==
  FirstMin(levels, {i \in DOMAIN levels : levels[i] < price}, LAMBDA p : -p)

\* A candidate; volume is zero unless the setup is scored on its breakout.
Signal(ctx, setup, d, entry, sl, tp1, type, htf, volume) ==
  <<[setup |-> setup, dir |-> d, entry |-> entry, sl |-> sl, tp1 |-> tp1,
     tp2 |-> DeriveTp2(ctx, d, entry, tp1), type |-> type, htf |-> htf,
     volume |-> volume]>>

TrendMatches(ctx, d) == ctx.r60 = (IF d = Long THEN "UP" ELSE "DOWN")

\* Mutation: the short half is aligned with a rising hour.
AlignedWithRise(ctx, d) == ctx.r60 \in {"UP", "RANGING"}

ReversalAligned(ctx, d) == ctx.r60 \in (IF d = Long THEN {"UP", "RANGING"}
                                        ELSE {"DOWN", "RANGING"})
NotAgainst(ctx, d) == ctx.r60 # (IF d = Long THEN "DOWN" ELSE "UP")

MinRange(ctx) == OfAtr(ctx, MinTriggerRange)
SwingHigh(ctx, lookback) == LastSwingHigh(ctx.c15, lookback, 1)
SwingLow(ctx, lookback) == LastSwingLow(ctx.c15, lookback, 1)

(***************************************************************************)
(* LIQUIDITY_SWEEP_REVERSAL: a 15m swing on a key level is swept and       *)
(* reclaimed by one 5m bar.                                                *)
(***************************************************************************)
NearKeyLevel(ctx, price) ==
  LET tol == OfAtr(ctx, LSR.near)
      levels == <<ctx.pdh, ctx.pdl, ctx.pdc>> \o ctx.vwap
                  \o (IF ctx.orLocked THEN ctx.orh \o ctx.orl ELSE None)
  IN tol > 0 /\ \E i \in DOMAIN levels : levels[i] > 0 /\ Dist(price, levels[i]) <= tol

\* The next swing if it pays, else twice the stop.
LsrTarget(d, entry, sl, swing) ==
  LET beyond == IF d = Long THEN NearestAbove(entry, swing) ELSE NearestBelow(entry, swing)
  IN IF beyond # None /\ Pays(entry, sl, beyond[1], LSR.minRR) THEN beyond[1]
     ELSE Multiple(d, entry, sl, 200)

LsrBuild(ctx, d, swing) ==
  LET entry == ctx.cur.close
      pad == OfAtr(ctx, LSR.pad)
      sl == IF d = Long THEN Min({ctx.cur.low - pad, ctx.cur.low - Tick})
            ELSE Max({ctx.cur.high + pad, ctx.cur.high + Tick})
      tp1 == LsrTarget(d, entry, sl, swing)
  IN IF StopFits(entry, sl, LSR) /\ Pays(entry, sl, tp1, LSR.minRR)
     THEN Signal(ctx, "LSR", d, entry, sl, tp1, "MARKET", ReversalAligned(ctx, d), 0)
     ELSE None

LiquiditySweepReversal(ctx) ==
  LET low == SwingLow(ctx, LSR.lookback)   high == SwingHigh(ctx, LSR.lookback)
      ready == /\ ctx.n5 >= 2 /\ Len(ctx.c15) >= 3 /\ ctx.ready
               /\ ctx.cur.high - ctx.cur.low >= MinRange(ctx)
               /\ ctx.volume >= LSR.volume
      sweptLow == low # None /\ ctx.cur.low < low[1] /\ ctx.cur.close > low[1]
      sweptHigh == high # None /\ ctx.cur.high > high[1] /\ ctx.cur.close < high[1]
  IN IF ready /\ sweptLow
     THEN IF NearKeyLevel(ctx, low[1]) THEN LsrBuild(ctx, Long, high) ELSE None
     ELSE IF ready /\ sweptHigh /\ NearKeyLevel(ctx, high[1])
     THEN LsrBuild(ctx, Short, low)
     ELSE None

(***************************************************************************)
(* OPENING_RANGE_BREAKOUT: a close beyond the locked opening range.        *)
(***************************************************************************)
OrbBuild(ctx, d, entry, sl) ==
  LET tp1 == StructuralTp1(ctx, d, entry, sl, ORB.rr)
  IN IF StopFits(entry, sl, ORB)
     THEN Signal(ctx, "ORB", d, entry, sl, tp1, "LEVEL", TrendMatches(ctx, d), ctx.volume)
     ELSE None

OpeningRangeBreakout(ctx) ==
  LET last == ctx.cur.close
      buffer == OfAtr(ctx, ORB.buffer)
      top == ctx.orh[1] + buffer   bottom == ctx.orl[1] - buffer
      ready == /\ ctx.orLocked /\ ctx.time <= ORB.until
               /\ ctx.orh # None /\ ctx.orl # None /\ last > 0
               /\ ShareIn(ctx.orh[1] - ctx.orl[1], last, ORB.minRange, ORB.maxRange)
               /\ ctx.volume >= ORB.volume
  IN IF ~ready THEN None
     ELSE IF last > top
     THEN IF last - top > OfAtr(ctx, MaxChase) THEN None
          ELSE OrbBuild(ctx, Long, top, bottom)
     ELSE IF last < bottom
     THEN IF bottom - last > OfAtr(ctx, MaxChase) THEN None
          ELSE OrbBuild(ctx, Short, bottom, top)
     ELSE None

(***************************************************************************)
(* VOLUME_SURGE_BREAKOUT and BREAKDOWN_SHORT: a close beyond a 15m swing   *)
(* with volume and open interest.                                          *)
(***************************************************************************)
VolumeBreakout(ctx, d, setup) ==
  LET swing == IF d = Long THEN SwingHigh(ctx, VSB.lookback)
               ELSE SwingLow(ctx, VSB.lookback)
      level == swing[1]
      broken == IF d = Long THEN ctx.cur.high > level /\ ctx.cur.close > level
                ELSE ctx.cur.low < level /\ ctx.cur.close < level
      entry == IF d = Long THEN level + OfAtr(ctx, VSB.entry)
               ELSE level - OfAtr(ctx, VSB.entry)
      chased == IF d = Long THEN ctx.cur.close - entry > OfAtr(ctx, MaxChase)
                ELSE entry - ctx.cur.close > OfAtr(ctx, MaxChase)
      sl == IF d = Long
            THEN LET base == level - OfAtr(ctx, VSB.pad) IN
                   IF ctx.cur.open < level THEN Min({ctx.cur.open, base}) ELSE base
            ELSE LET base == level + OfAtr(ctx, VSB.pad) IN
                   IF ctx.cur.open > level THEN Max({ctx.cur.open, base}) ELSE base
  IN IF /\ Len(ctx.c15) >= 3 /\ ctx.volume >= VSB.volume /\ ctx.oiChange >= VSB.oi
        /\ swing # None /\ broken /\ ~chased /\ StopFits(entry, sl, VSB)
     THEN Signal(ctx, setup, d, entry, sl, StructuralTp1(ctx, d, entry, sl, VSB.rr),
                 "LEVEL", TrendMatches(ctx, d), ctx.volume)
     ELSE None

VolumeSurgeBreakout(ctx) == VolumeBreakout(ctx, Long, "VSB")
BreakdownShort(ctx) == VolumeBreakout(ctx, Short, "BDS")

(***************************************************************************)
(* INDIA_VIX_EXTREME: a rejection after a fall of the day in a fear spike. *)
(***************************************************************************)
IndiaVixExtreme(ctx) ==
  LET entry == ctx.cur.close
      sl == ctx.dayLow - OfAtr(ctx, VIX.pad)
  IN IF /\ ctx.n5 >= 16 /\ ctx.vix > VIX.high /\ ctx.dayOpen > 0
        /\ ctx.r60 # "DOWN" /\ ctx.ready
        /\ (ctx.dayOpen - entry) * 10000 >= VIX.drop * ctx.dayOpen
        /\ BullishRejection(ctx.cur, ctx.prev, MinRange(ctx))
        /\ ctx.rsi < VIX.rsi
        /\ entry > sl /\ ctx.pdc > entry
        /\ StopFits(entry, sl, VIX)
     THEN Signal(ctx, "VIX", Long, entry, sl, ctx.pdc, "MARKET", FALSE, 0)
     ELSE None

(***************************************************************************)
(* PCR_EXTREME and OI_SPIKE_REVERSAL: a rejection at the level nearest the *)
(* price, above it or below it.                                            *)
(***************************************************************************)
LevelBuild(ctx, setup, cfg, d, level, target, htf) ==
  LET entry == ctx.cur.close
      pad == OfAtr(ctx, cfg.pad)
      sl == IF d = Long THEN level - pad ELSE level + pad
  IN IF /\ target # None /\ StopFits(entry, sl, cfg)
        /\ Pays(entry, sl, target[1], cfg.minRR)
     THEN Signal(ctx, setup, d, entry, sl, target[1], "MARKET", htf, 0)
     ELSE None

PcrExtreme(ctx) ==
  LET last == ctx.cur.close
      low == SwingLow(ctx, 20)   high == SwingHigh(ctx, 20)
      support == Nearest(last, low \o <<ctx.pdl, ctx.pdc>>)
      resistance == Nearest(last, high \o <<ctx.pdh, ctx.pdc>>)
      Near(level) == Dist(last, level[1]) <= OfAtr(ctx, PCR.near)
      ready == ctx.n5 >= 2 /\ Len(ctx.c15) >= 3 /\ ctx.ready
  IN IF ready /\ ctx.pcr = "BEARISH"
     THEN IF /\ Near(support) /\ ctx.oiChange > 0
             /\ BullishRejection(ctx.cur, ctx.prev, MinRange(ctx))
          THEN LevelBuild(ctx, "PCR", PCR, Long, support[1],
                          NearestAbove(last, high \o ctx.orh), FALSE)
          ELSE None
     ELSE IF /\ ready /\ ctx.pcr = "BULLISH" /\ Near(resistance) /\ ctx.oiChange > 0
             /\ BearishRejection(ctx.cur, ctx.prev, MinRange(ctx))
     THEN LevelBuild(ctx, "PCR", PCR, Short, resistance[1],
                     NearestBelow(last, low \o ctx.orl), FALSE)
     ELSE None

OiSpikeReversal(ctx) ==
  LET last == ctx.cur.close
      low == SwingLow(ctx, 20)   high == SwingHigh(ctx, 20)
      round == RoundTo(last, RoundStep(ctx))
      support == Nearest(last, low \o <<ctx.pdl, ctx.pdc, round - RoundStep(ctx), round>>)
      resistance == Nearest(last, high \o <<ctx.pdh, ctx.pdc, round, round + RoundStep(ctx)>>)
      Near(level) == Dist(last, level[1]) <= OfAtr(ctx, OIS.near)
      ready == /\ ctx.n5 >= 2 /\ Len(ctx.c15) >= 3 /\ ctx.ready
               /\ ctx.oiChange >= OIS.spike /\ ctx.oi >= OIS.oi
  IN IF ready /\ Near(support) /\ BullishRejection(ctx.cur, ctx.prev, MinRange(ctx))
     THEN LevelBuild(ctx, "OIS", OIS, Long, support[1],
                     NearestAbove(last, high \o ctx.orh \o <<ctx.pdh>>),
                     ReversalAligned(ctx, Long))
     ELSE IF ready /\ Near(resistance)
             /\ BearishRejection(ctx.cur, ctx.prev, MinRange(ctx))
     THEN LevelBuild(ctx, "OIS", OIS, Short, resistance[1],
                     NearestBelow(last, low \o ctx.orl \o <<ctx.pdl>>),
                     ReversalAligned(ctx, Short))
     ELSE None

(***************************************************************************)
(* TREND_PULLBACK_EMA: with the 60m trend, a pullback to the nearer 5m     *)
(* average and its reclaim.                                                *)
(***************************************************************************)
TpeStop(ctx, d) ==
  LET entry == ctx.cur.close
      least == IF ctx.index THEN TPE.points ELSE (entry * TPE.minSl) \div 10000
      pad == OfAtr(ctx, TPE.pad)
  IN IF d = Long THEN Min({ctx.cur.low - pad, entry - least})
     ELSE Max({ctx.cur.high + pad, entry + least})

TpeBuild(ctx, d) ==
  LET entry == ctx.cur.close
      sl == TpeStop(ctx, d)
      swing == IF d = Long THEN NearestAbove(entry, SwingHigh(ctx, 20))
               ELSE NearestBelow(entry, SwingLow(ctx, 20))
      tp1 == IF swing # None /\ Pays(entry, sl, swing[1], TPE.minRR) THEN swing[1]
             ELSE Multiple(d, entry, sl, TPE.rr)
  IN IF StopFits(entry, sl, TPE) /\ Pays(entry, sl, tp1, TPE.minRR)
     THEN Signal(ctx, "TPE", d, entry, sl, tp1, "MARKET", TRUE, 0)
     ELSE None

TrendPullbackEma(ctx) ==
  LET d == IF ctx.r60 = "UP" THEN Long ELSE Short
      last == ctx.cur.close
      ref == IF Dist(last, ctx.ema21) <= Dist(last, ctx.ema55) THEN ctx.ema21 ELSE ctx.ema55
      reclaim == IF d = Long THEN ctx.cur.low < ref /\ last > ref
                 ELSE ctx.cur.high > ref /\ last < ref
  IN IF /\ ctx.r60 \in {"UP", "DOWN"} /\ ctx.n5 >= 56 /\ ctx.n60 >= 56
        /\ IF d = Long THEN ctx.hourly21 > ctx.hourly55 ELSE ctx.hourly21 < ctx.hourly55
        /\ TPE.rsiMin <= ctx.rsi /\ ctx.rsi <= TPE.rsiMax
        /\ Dist(last, ref) <= OfAtr(ctx, TPE.pullback)
        /\ reclaim
     THEN TpeBuild(ctx, d) ELSE None

(***************************************************************************)
(* SR_FLIP_RETEST: a broken level of the book is retested from the other   *)
(* side and rejects the price; the target is the nearest level that pays.  *)
(***************************************************************************)
SrfBuild(ctx, d, book) ==
  LET entry == ctx.cur.close
      pad == OfAtr(ctx, SRF.pad)
      sl == IF d = Short THEN ctx.cur.high + pad ELSE ctx.cur.low - pad
      paying == {p \in book : Pays(entry, sl, p, SRF.minRR)}
      targets == IF d = Short THEN {p \in paying : p <= entry} ELSE {p \in paying : p >= entry}
      tp1 == IF d = Short THEN Max(targets) ELSE Min(targets)
  IN IF StopFits(entry, sl, SRF) /\ targets # {}
     THEN Signal(ctx, "SRF", d, entry, sl, tp1, "MARKET", ReversalAligned(ctx, d), 0)
     ELSE None

SrFlipRetest(ctx) ==
  LET last == ctx.cur.close
      book == LevelBook(ctx.c15, RoundStep(ctx), <<ctx.pdh, ctx.pdl, ctx.pdc>>, 1,
                        OfAtr(ctx, 20))
      resistance == NearestResistance(book, last)
      support == NearestSupport(book, last)
      recent == {ctx.c15[i].close : i \in Max({1, Len(ctx.c15) - 9})..Len(ctx.c15)}
      flip == (ctx.atr15 * SRF.flip) \div 100
      Retest(level) == Dist(last, level) <= OfAtr(ctx, SRF.retest)
      ready == ctx.n5 >= 2 /\ Len(ctx.c15) >= 6 /\ ctx.ready /\ ctx.atr > 0
      short == /\ ready /\ resistance # None /\ Retest(resistance[1])
               /\ \E c \in recent : c < resistance[1] - flip
               /\ BearishRejection(ctx.cur, ctx.prev, MinRange(ctx))
      long == /\ LongFlips /\ ready /\ support # None /\ Retest(support[1])
              /\ \E c \in recent : c > support[1] + flip
              /\ BullishRejection(ctx.cur, ctx.prev, MinRange(ctx))
  IN IF short THEN SrfBuild(ctx, Short, book)
     ELSE IF long THEN SrfBuild(ctx, Long, book) ELSE None

(***************************************************************************)
(* FAILED_AUCTION_RECLAIM: a false break of the opening range or of the    *)
(* previous day's extreme, then a close beyond it.                         *)
(***************************************************************************)
FarBuild(ctx, d, sl) ==
  LET entry == ctx.cur.close
      swing == IF Len(ctx.c15) < 3 THEN None
               ELSE IF d = Long THEN NearestAbove(entry, SwingHigh(ctx, 20))
               ELSE NearestBelow(entry, SwingLow(ctx, 20))
      tp1 == IF swing # None THEN swing[1] ELSE Multiple(d, entry, sl, 200)
  IN IF StopFits(entry, sl, FAR) /\ Pays(entry, sl, tp1, FAR.minRR)
     THEN Signal(ctx, "FAR", d, entry, sl, tp1, "MARKET", TrendMatches(ctx, d), 0)
     ELSE None

FailedAuctionReclaim(ctx) ==
  LET last == ctx.cur.close
      bars == {ctx.look[i] : i \in DOMAIN ctx.look}
      tops == (IF ctx.orLocked THEN ctx.orh ELSE None) \o <<ctx.pdh>>
      bottoms == (IF ctx.orLocked THEN ctx.orl ELSE None) \o <<ctx.pdl>>
      above == \E i \in DOMAIN tops :
                 /\ tops[i] > 0 /\ last > tops[i]
                 /\ \E b \in bars : b.high > tops[i] /\ b.close < tops[i]
      below == \E i \in DOMAIN bottoms :
                 /\ bottoms[i] > 0 /\ last < bottoms[i]
                 /\ \E b \in bars : b.low < bottoms[i] /\ b.close > bottoms[i]
      ready == ctx.n5 >= 4 /\ ctx.volume >= FAR.volume
  IN IF ready /\ above THEN FarBuild(ctx, Long, Min({b.low : b \in bars}))
     ELSE IF ready /\ below THEN FarBuild(ctx, Short, Max({b.high : b \in bars}))
     ELSE None

(***************************************************************************)
(* DIVERGENCE_CONTINUATION: a new extreme with a fading RSI and a          *)
(* rejection bar.                                                          *)
(***************************************************************************)
DivBuild(ctx, d, extreme) ==
  LET entry == ctx.cur.close
      pad == OfAtr(ctx, DIV.pad)
      sl == IF d = Short THEN extreme + pad ELSE extreme - pad
      target == IF d = Short THEN NearestBelow(entry, <<ctx.pdl>> \o ctx.orl)
                ELSE NearestAbove(entry, <<ctx.pdh>> \o ctx.orh)
      tp1 == IF target = None THEN Multiple(d, entry, sl, 200) ELSE target[1]
  IN IF StopFits(entry, sl, DIV) /\ Pays(entry, sl, tp1, DIV.minRR)
     THEN Signal(ctx, "DIV", d, entry, sl, tp1, "MARKET", NotAgainst(ctx, d), 0)
     ELSE None

DivergenceContinuation(ctx) ==
  LET h == ctx.highs   l == ctx.lows
      ready == ctx.ready /\ ctx.n5 >= 25
      bearish == /\ h.recent > h.prior /\ h.rsi # None
                 /\ h.rsi[1] >= DIV.extreme /\ ctx.rsi <= h.rsi[1] - DIV.margin
                 /\ ctx.rsi > 40
                 /\ BearishRejection(ctx.cur, ctx.prev, MinRange(ctx))
      bullish == /\ l.recent < l.prior /\ l.rsi # None
                 /\ l.rsi[1] <= 100 - DIV.extreme /\ ctx.rsi >= l.rsi[1] + DIV.margin
                 /\ ctx.rsi < 60
                 /\ BullishRejection(ctx.cur, ctx.prev, MinRange(ctx))
  IN IF ready /\ bearish THEN DivBuild(ctx, Short, h.recent)
     ELSE IF ready /\ bullish THEN DivBuild(ctx, Long, l.recent) ELSE None

(***************************************************************************)
(* QUIET_COMPRESSION_BREAK: a close outside the bands after a squeeze, in  *)
(* the middle of the session.                                              *)
(***************************************************************************)
QcbTarget(ctx, d, entry, sl) ==
  LET least == Multiple(d, entry, sl, QCB.minRR)
      swing == IF Len(ctx.c15) < 3 THEN None
               ELSE IF d = Long THEN NearestAbove(entry, SwingHigh(ctx, 20))
               ELSE NearestBelow(entry, SwingLow(ctx, 20))
      first == IF swing # None THEN swing[1] ELSE least
      range == IF d = Long THEN NearestAbove(entry, ctx.orh) ELSE NearestBelow(entry, ctx.orl)
      nearer == IF range = None THEN first
                ELSE IF d = Long THEN Min({first, range[1]}) ELSE Max({first, range[1]})
  IN IF d = Long THEN Max({nearer, least}) ELSE Min({nearer, least})

QuietCompressionBreak(ctx) ==
  LET entry == ctx.cur.close
      pad == OfAtr(ctx, QCB.pad)
      d == IF entry > ctx.bands.upper THEN Long ELSE Short
      sl == IF d = Long THEN ctx.bands.mid - pad ELSE ctx.bands.mid + pad
  IN IF /\ 600 <= ctx.time /\ ctx.time <= 840
        /\ ctx.n5 >= 26 /\ ctx.volume >= QCB.volume
        /\ ctx.bands.mid > 0 /\ ctx.squeezed >= QCB.squeeze
        /\ entry > ctx.bands.upper \/ entry < ctx.bands.lower
        /\ StopFits(entry, sl, QCB)
     THEN Signal(ctx, "QCB", d, entry, sl, QcbTarget(ctx, d, entry, sl), "MARKET",
                 TrendMatches(ctx, d), ctx.volume)
     ELSE None

(***************************************************************************)
(* MA_CROSS_TREND_SHIFT: the averages cross on the last completed 15m bar. *)
(***************************************************************************)
MacBuild(ctx, d, x) ==
  LET entry == x.close
      pad == (x.atr * MAC.pad) \div 100
      sl == IF d = Long THEN x.now55 - pad ELSE x.now55 + pad
      target == IF d = Long THEN NearestAbove(entry, SwingHigh(ctx, 20) \o <<ctx.pdh>>)
                ELSE NearestBelow(entry, SwingLow(ctx, 20) \o <<ctx.pdl>>)
      tp1 == IF target = None THEN Multiple(d, entry, sl, 200) ELSE target[1]
  IN IF StopFits(entry, sl, MAC) /\ Pays(entry, sl, tp1, MAC.minRR)
     THEN Signal(ctx, "MAC", d, entry, sl, tp1, "MARKET", NotAgainst(ctx, d), 0)
     ELSE None

MaCrossTrendShift(ctx) ==
  LET x == ctx.cross[1]
      up == x.was21 < x.was55 /\ x.now21 > x.now55
      down == x.was21 > x.was55 /\ x.now21 < x.now55
      d == IF up THEN Long ELSE Short
  IN IF /\ ctx.cross # None
        /\ up \/ down
        /\ NotAgainst(ctx, d)
        /\ x.volume # None => x.volume[1] >= MAC.volume
     THEN MacBuild(ctx, d, x) ELSE None

(***************************************************************************)
(* EXPIRY_GAMMA_SQUEEZE: on an expiry afternoon, toward max pain.          *)
(***************************************************************************)
ExpiryGammaSqueeze(ctx) ==
  LET entry == ctx.cur.close
      pain == ctx.maxPain[1]
      d == IF pain > entry THEN Long ELSE Short
      pad == OfAtr(ctx, EGS.pad)
      sl == IF d = Long THEN entry - pad ELSE entry + pad
  IN IF /\ ctx.expiry /\ 810 <= ctx.time /\ ctx.time <= 900
        /\ ctx.maxPain # None /\ entry > 0
        /\ ShareIn(Dist(entry, pain), entry, EGS.minGap, EGS.maxGap)
        /\ StopFits(entry, sl, EGS)
     THEN Signal(ctx, "EGS", d, entry, sl, pain, "MARKET", FALSE, 0)
     ELSE None

(***************************************************************************)
(* The evaluators, in the order of the scan.                               *)
(***************************************************************************)
SetupClasses == {"LSR", "ORB", "TPE", "VSB", "BDS", "SRF", "VIX", "PCR", "FAR",
                 "DIV", "QCB", "MAC", "OIS", "EGS"}
IndexOnly == {"PCR", "EGS"}

Evaluate(setup, ctx) ==
  CASE setup \in IndexOnly /\ ~ctx.index -> None
    [] setup = "LSR" -> LiquiditySweepReversal(ctx)
    [] setup = "ORB" -> OpeningRangeBreakout(ctx)
    [] setup = "TPE" -> TrendPullbackEma(ctx)
    [] setup = "VSB" -> VolumeSurgeBreakout(ctx)
    [] setup = "BDS" -> BreakdownShort(ctx)
    [] setup = "SRF" -> SrFlipRetest(ctx)
    [] setup = "VIX" -> IndiaVixExtreme(ctx)
    [] setup = "PCR" /\ ctx.index -> PcrExtreme(ctx)
    [] setup = "FAR" -> FailedAuctionReclaim(ctx)
    [] setup = "DIV" -> DivergenceContinuation(ctx)
    [] setup = "QCB" -> QuietCompressionBreak(ctx)
    [] setup = "MAC" -> MaCrossTrendShift(ctx)
    [] setup = "OIS" -> OiSpikeReversal(ctx)
    [] setup = "EGS" /\ ctx.index -> ExpiryGammaSqueeze(ctx)
=============================================================================
