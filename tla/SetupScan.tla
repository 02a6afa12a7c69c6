----------------------------- MODULE SetupScan -----------------------------
(***************************************************************************)
(* The pure half of a scan: it reads the tape off the index contexts, runs *)
(* an evaluator on the context of an instrument, gates the candidate by    *)
(* its market and scores it.  What the emission stage does with the        *)
(* survivors is in GateChain.                                              *)
(* Code: src/src/scanner/__init__.py and the modules it calls.             *)
(*                                                                         *)
(* A scan keeps nothing from one candidate to the next, so each behaviour  *)
(* judges one input at a time; the inputs are parameters.                  *)
(***************************************************************************)
EXTENDS Confidence

CONSTANTS
  ScanTapes,      \* tapes
  ScanContexts,   \* the contexts each evaluator is run on
  ScoreInputs,    \* sets of: a candidate, its context, age of the label, ordinal
  BarTapes        \* completed 15m bars

(***************************************************************************)
(* The contexts a scan builds (signals/model.py, IndiaContext).  A candle  *)
(* reaches from its low to its high; the recent extremes are taken over a  *)
(* window that ends in the last bar; the bands lie about their mean.       *)
(***************************************************************************)
Optional(S) == {s \in Seq(S) : Len(s) <= 1}
Candles ==
  {b \in [open : Nat, high : Nat, low : Nat, close : Nat] :
     b.low <= b.open /\ b.open <= b.high /\ b.low <= b.close /\ b.close <= b.high}

\* An average ends a bar between where it began and the close of the bar, a
\* fast one after a larger part of the way than a slow one.
Between(x, p, q) == (p <= x /\ x <= q) \/ (q <= x /\ x <= p)
Averages(x) ==
  /\ Between(x.now21, x.was21, x.close) /\ Between(x.now55, x.was55, x.close)
  /\ Dist(x.now21, x.close) * Dist(x.was55, x.close)
       <= Dist(x.now55, x.close) * Dist(x.was21, x.close)
Crosses ==
  {x \in [was21 : Nat, was55 : Nat, now21 : Nat, now55 : Nat, close : Nat,
          volume : Optional(Nat), atr : Nat] : Averages(x)}
Extremes == [prior : Nat, recent : Nat, rsi : Optional(Nat)]
Bands == {b \in [upper : Int, mid : Int, lower : Int] : b.lower <= b.mid /\ b.mid <= b.upper}

Contexts ==
  {ctx \in [index : BOOLEAN, base : Bases, atr : Nat, atr15 : Nat, ready : BOOLEAN,
            volume : Nat, cur : Candles, prev : Candles, look : Seq(Candles),
            c15 : Seq(Candles), n5 : Nat, n60 : Nat, pdh : Nat, pdl : Nat, pdc : Nat,
            orh : Optional(Nat), orl : Optional(Nat), orLocked : BOOLEAN,
            vwap : Optional(Nat), callWall : Optional(Nat), putWall : Optional(Nat),
            maxPain : Optional(Nat), oiChange : Int, oi : Nat, dayOpen : Nat,
            dayLow : Nat, vix : Nat, pcr : {"NONE", "BEARISH", "BULLISH"},
            r60 : Regimes, daily : Regimes, rsi : Nat, ema21 : Nat, ema55 : Nat,
            hourly21 : Nat, hourly55 : Nat, bands : Bands, squeezed : Nat,
            highs : Extremes, lows : Extremes, cross : Optional(Crosses), time : Nat,
            expiry : BOOLEAN, tickAge : Optional(Nat), event : BOOLEAN,
            earnings : BOOLEAN, indexBias : Sides \cup {Neutral},
            direction : Sides \cup {Neutral}, back : Optional(Nat), edge : Optional(Int)] :
     /\ ctx.highs.rsi # None => ctx.highs.recent >= ctx.cur.high
     /\ ctx.lows.rsi # None => ctx.lows.recent <= ctx.cur.low}

Judgements ==
  [sig : [setup : SetupClasses, dir : Sides, entry : Nat, sl : Nat, tp1 : Nat,
          tp2 : Optional(Nat), type : {"MARKET", "LEVEL"}, htf : BOOLEAN, volume : Nat],
   ctx : Contexts, age : Nat, nth : Nat \ {0}]

ASSUME TapesAssumption == \A tape \in ScanTapes : tape \in Tapes
ASSUME BarsAssumption ==
  \A bars \in BarTapes : bars \in Seq([open : Int, high : Int, low : Int, close : Int])
ASSUME ContextsAssumption ==
  \A setup \in SetupClasses : \A ctx \in ScanContexts[setup] : ctx \in Contexts
ASSUME InputsAssumption ==
  \A k \in DOMAIN ScoreInputs : \A in \in ScoreInputs[k] : in \in Judgements

VARIABLE scan     \* what the scan is looking at

Idle == [at |-> "idle"]

Init == scan = Idle

\* Pass one: the direction of the market and of the index of every base.
ReadTape ==
  /\ scan = Idle
  /\ \E tape \in ScanTapes : scan' = [at |-> "tape", tape |-> tape]

\* Pass two: an evaluator, and the gates that need no memory.
EvaluateSetup(setup) ==
  /\ scan = Idle
  /\ \E ctx \in ScanContexts[setup] :
       LET found == Evaluate(setup, ctx) IN
       scan' = [at |-> "candidate", setup |-> setup, ctx |-> ctx, found |-> found,
                passes |-> found # None /\ PassesMarket(found[1], ctx)]

ScoreCandidate ==
  /\ scan = Idle
  /\ \E k \in DOMAIN ScoreInputs : \E in \in ScoreInputs[k] :
       LET score == Score(in.sig, in.ctx) IN
       scan' = [at |-> "scored", in |-> in, score |-> score, tier |-> Tier(score),
                v2 |-> ScoreV2(in.sig, in.ctx, in.age, in.nth),
                survives |-> AboveFloor(score, in.ctx)]

\* The scorer reads the break of structure off the completed bars.
ReadStructure ==
  /\ scan = Idle
  /\ \E bars \in BarTapes : scan' = [at |-> "bars", bars |-> bars]

\* The next candidate.
Continue == scan # Idle /\ scan' = Idle

Next ==
  \/ ReadTape
  \/ \E setup \in SetupClasses : EvaluateSetup(setup)
  \/ ScoreCandidate
  \/ ReadStructure
  \/ Continue

Spec == Init /\ [][Next]_scan

(***************************************************************************)
(* The tape.                                                               *)
(***************************************************************************)
\* The direction measured beside the one in force never contradicts it, so
\* switching to it cannot turn a gate round (market_context.py).
ShadowNeverOpposes == scan.at = "tape" => NeverOpposed(scan.tape)

\* The index-conflict and the direction gate never silence a base in both
\* directions at once, but for the finance companies, whose index does not
\* vote (dependency.py, scanner/__init__.py).
OneSideOpen == scan.at = "tape" => OpenToOneSide(scan.tape)

(***************************************************************************)
(* Candidates.                                                             *)
(***************************************************************************)
RightSide(d, a, b) == Sign(d) * (b - a) > 0

\* Two setups measure the distance to a level on either side of the price
\* without asking on which side it is.
UnsidedSetups == {"PCR", "OIS"}

\* Every candidate stops on the side it loses on, and its targets follow the
\* direction, the second beyond the first, each at 1.2 times the stop or
\* more but for the two that aim at a fixed level; the unsided setups are
\* the exception (india_scalp.py).
StopsAndTargets ==
  (scan.at = "candidate" /\ scan.found # None) =>
    LET sig == scan.found[1] IN
    /\ scan.setup \notin UnsidedSetups => RightSide(sig.dir, sig.sl, sig.entry)
    /\ RightSide(sig.dir, sig.entry, sig.tp1)
    /\ sig.tp2 # None /\ RightSide(sig.dir, sig.tp1, sig.tp2[1])
    /\ scan.setup \notin {"VIX", "EGS"} => Pays(sig.entry, sig.sl, sig.tp1, TP1MinRR)

\* A candidate that passed the gates stops on the losing side of its entry.
StopBelowEntry ==
  (scan.at = "candidate" /\ scan.passes) =>
    RightSide(scan.found[1].dir, scan.found[1].sl, scan.found[1].entry)

(***************************************************************************)
(* The long and the short half of an evaluator and of the scorer are       *)
(* written apart.  Reflected in the price axis, one is the other.  A price *)
(* p is reflected to a - p.                                                *)
(***************************************************************************)
FlipAll(a, list) == [i \in DOMAIN list |-> a - list[i]]
FlipBar(a, b) == Bar(a - b.open, a - b.low, a - b.high, a - b.close)
FlipBars(a, bars) == [i \in DOMAIN bars |-> FlipBar(a, bars[i])]
FlipSide(d) == CASE d = Long -> Short [] d = Short -> Long [] OTHER -> d
FlipTrend(r) == CASE r = "UP" -> "DOWN" [] r = "DOWN" -> "UP" [] OTHER -> r
FlipCrowd(c) == CASE c = "BEARISH" -> "BULLISH" [] c = "BULLISH" -> "BEARISH" [] OTHER -> c
FlipExtremes(a, e) == [prior |-> a - e.prior, recent |-> a - e.recent,
                       rsi |-> FlipAll(100, e.rsi)]
FlipCross(a, x) == [was21 |-> a - x.was21, was55 |-> a - x.was55, now21 |-> a - x.now21,
                    now55 |-> a - x.now55, close |-> a - x.close,
                    volume |-> x.volume, atr |-> x.atr]

FlipContext(a, ctx) ==
  [ctx EXCEPT !.cur = FlipBar(a, @), !.prev = FlipBar(a, @), !.look = FlipBars(a, @),
              !.c15 = FlipBars(a, @), !.pdh = a - ctx.pdl, !.pdl = a - ctx.pdh,
              !.pdc = a - @, !.orh = FlipAll(a, ctx.orl), !.orl = FlipAll(a, ctx.orh),
              !.vwap = FlipAll(a, @), !.callWall = FlipAll(a, ctx.putWall),
              !.putWall = FlipAll(a, ctx.callWall), !.maxPain = FlipAll(a, @),
              !.pcr = FlipCrowd(@), !.r60 = FlipTrend(@), !.daily = FlipTrend(@),
              !.rsi = 100 - @, !.ema21 = a - @, !.ema55 = a - @, !.hourly21 = a - @,
              !.hourly55 = a - @,
              !.bands = [upper |-> a - ctx.bands.lower, mid |-> a - ctx.bands.mid,
                         lower |-> a - ctx.bands.upper],
              !.highs = FlipExtremes(a, ctx.lows), !.lows = FlipExtremes(a, ctx.highs),
              !.cross = [i \in DOMAIN @ |-> FlipCross(a, @[i])], !.back = FlipAll(a, @),
              !.indexBias = FlipSide(@), !.direction = FlipSide(@)]

FlipSetup(setup) ==
  CASE setup = "VSB" -> "BDS" [] setup = "BDS" -> "VSB" [] OTHER -> setup

FlipSignal(a, sig) ==
  [setup |-> FlipSetup(sig.setup), dir |-> FlipSide(sig.dir), entry |-> a - sig.entry,
   sl |-> a - sig.sl, tp1 |-> a - sig.tp1, tp2 |-> FlipAll(a, sig.tp2),
   type |-> sig.type, htf |-> sig.htf, volume |-> sig.volume]

\* Shares of a price are kept by a reflection in that price: an evaluator is
\* reflected in the entry it would take, and where it looks at round numbers
\* in one of them.
RoundSetups == {"SRF", "OIS"}
MirrorOf(setup, ctx) ==
  LET top == SwingHigh(ctx, VSB.lookback)   bottom == SwingLow(ctx, VSB.lookback) IN
  CASE setup = "VSB" /\ top # None -> top[1] + OfAtr(ctx, VSB.entry)
    [] setup = "BDS" /\ bottom # None -> bottom[1] - OfAtr(ctx, VSB.entry)
    [] setup = "MAC" /\ ctx.cross # None -> ctx.cross[1].close
    [] setup \in RoundSetups -> RoundTo(ctx.cur.close, RoundStep(ctx))
    [] OTHER -> ctx.cur.close
AxisOf(setup, ctx) == 2 * MirrorOf(setup, ctx)

\* A level at zero or less stands for none.
Quoted(a, ctx) ==
  \A i \in DOMAIN KeyLevels(ctx) : 0 < KeyLevels(ctx)[i] /\ KeyLevels(ctx)[i] < a

\* One side is tried first: a bar that sweeps both swings is a long, and so
\* may be one after a gap, above the opening range and below yesterday's.
BothSides(setup, ctx) ==
  LET low == SwingLow(ctx, LSR.lookback)  high == SwingHigh(ctx, LSR.lookback)
      last == ctx.cur.close IN
  CASE setup = "LSR" -> /\ low # None /\ high # None
                        /\ ctx.cur.low < low[1] /\ ctx.cur.high > high[1]
    [] setup = "FAR" -> \/ ctx.pdh < last /\ last < ctx.pdl
                        \/ /\ ctx.orLocked
                           /\ \/ ctx.orh # None /\ ctx.orh[1] < last /\ last < ctx.pdl
                              \/ ctx.orl # None /\ ctx.orl[1] > last /\ last > ctx.pdh
                              \/ /\ ctx.orh # None /\ ctx.orl # None
                                 /\ ctx.orh[1] < last /\ last < ctx.orl[1]
    [] OTHER -> FALSE

\* Where the code is lopsided: the fear spike is bought only, the pullback is
\* judged by one RSI band in both directions, a flip may be sold only, and
\* halfway between two round numbers the lower one is the first of its list.
InPullback(rsi) == TPE.rsiMin <= rsi /\ rsi <= TPE.rsiMax
Lopsided(setup, ctx) ==
  CASE setup = "VIX" -> TRUE
    [] setup = "TPE" -> InPullback(ctx.rsi) # InPullback(100 - ctx.rsi)
    [] setup = "SRF" -> ~LongFlips
    [] setup = "OIS" -> 2 * (ctx.cur.close % RoundStep(ctx)) = RoundStep(ctx)
    [] OTHER -> FALSE

\* The book of levels is averaged down to whole points.
BookOf(ctx) ==
  LevelBook(ctx.c15, RoundStep(ctx), <<ctx.pdh, ctx.pdl, ctx.pdc>>, 1, OfAtr(ctx, 20))
SameBook(setup, a, ctx) ==
  setup = "SRF" => BookOf(FlipContext(a, ctx)) = {a - p : p \in BookOf(ctx)}

\* Three setups judge their stop by a price other than the one they are
\* reflected in: the share it is of the entry may leave the band.
Band(setup) == CASE setup = "ORB" -> ORB [] setup = "SRF" -> SRF [] setup = "OIS" -> OIS
Refits(a, found) ==
  found # None /\ found[1].setup \in {"ORB"} \cup RoundSetups =>
    StopFits(a - found[1].entry, a - found[1].sl, Band(found[1].setup))

\* The round numbers a breakout may take for its target are not reflected,
\* and reach further up than down.
OnGrid(found, ctx) ==
  /\ found # None /\ found[1].setup \in {"ORB", "VSB", "BDS"}
  /\ found[1].tp1 % RoundStep(ctx) = 0

\* Of two levels as far from the anchor as each other the first listed is the
\* second target.
SameSecond(a, ctx, sig, image) ==
  LET levels == {KeyLevels(ctx)[i] : i \in DOMAIN KeyLevels(ctx)}
      anchor == sig.entry + Sign(sig.dir) * ((Dist(sig.tp1, sig.entry) * TP2Mult) \div 100)
  IN \/ image.tp2 = FlipAll(a, sig.tp2)
     \/ /\ sig.tp2 # None /\ image.tp2 # None
        /\ {sig.tp2[1], a - image.tp2[1]} \subseteq levels
        /\ Dist(sig.tp2[1], anchor) = Dist(a - image.tp2[1], anchor)

SameSignal(a, ctx, sig, image) ==
  LET flipped == FlipSignal(a, sig)
      Agree(fields) == \A f \in DOMAIN sig \ fields : image[f] = flipped[f] IN
  IF OnGrid(<<sig>>, ctx) \/ OnGrid(<<image>>, ctx) THEN Agree({"tp1", "tp2"})
  ELSE Agree({"tp2"}) /\ SameSecond(a, ctx, sig, image)

SameImage(setup, ctx, found) ==
  LET a == AxisOf(setup, ctx)
      image == Evaluate(FlipSetup(setup), FlipContext(a, ctx))
  IN Quoted(a, ctx) /\ SameBook(setup, a, ctx) /\ Refits(a, found) /\ Refits(a, image) =>
       IF found = None THEN image = None
       ELSE image # None /\ SameSignal(a, ctx, found[1], image[1])

\* A bar may close above the last high and below a later, higher low: the
\* break up is looked for first.
BreaksBothWays(bars, i, width) ==
  LET highs == Confirmed(SwingHighs(bars, width), i, width)
      lows  == Confirmed(SwingLows(bars, width), i, width)
  IN /\ Cardinality(highs) >= 2 /\ Cardinality(lows) >= 2
     /\ bars[i].close > bars[Max(highs)].high /\ bars[i].close < bars[Max(lows)].low

\* The scores of an entry at the last price, reflected in it.
SameScore(in, score, v2) ==
  LET a == 2 * in.sig.entry
      sig == [FlipSignal(a, in.sig) EXCEPT !.setup = in.sig.setup]
      ctx == FlipContext(a, in.ctx)
  IN /\ in.ctx.cur.close = in.sig.entry
     /\ \A i \in DOMAIN in.ctx.c15 : ~BreaksBothWays(in.ctx.c15, i, 2)
     => score = Score(sig, ctx) /\ v2 = ScoreV2(sig, ctx, in.age, in.nth)

\* An evaluator finds in the reflected context the reflected candidate, and
\* the scorer gives it the same scores, where the code is not lopsided.
MirrorImage ==
  /\ scan.at = "candidate" =>
       \/ BothSides(scan.setup, scan.ctx)
       \/ Lopsided(scan.setup, scan.ctx)
       \/ SameImage(scan.setup, scan.ctx, scan.found)
  /\ scan.at = "scored" => SameScore(scan.in, scan.score, scan.v2)

(***************************************************************************)
(* The score.                                                              *)
(***************************************************************************)
\* The context with one of its reads turned to the side of the candidate.
Aligned(ctx, side) ==
  {[ctx EXCEPT !.r60 = With(side)], [ctx EXCEPT !.daily = With(side)],
   [ctx EXCEPT !.indexBias = side],
   [ctx EXCEPT !.pcr = IF side = Long THEN "BEARISH" ELSE "BULLISH"],
   [ctx EXCEPT !.back = <<ctx.cur.close - Sign(side)>>]}

\* A read that turns to the side of the candidate never lowers its score, in
\* either model; in the second one the label of the market may, when it is
\* more than two hours old (signal_quality.py).
AlignmentNeverCosts ==
  scan.at = "scored" =>
    LET in == scan.in
        V2(ctx) == ScoreV2(in.sig, ctx, in.age, in.nth) IN
    /\ \A ctx \in Aligned(in.ctx, in.sig.dir) :
         Score(in.sig, ctx) >= scan.score /\ V2(ctx) >= scan.v2
    /\ in.age <= 120 => V2([in.ctx EXCEPT !.direction = in.sig.dir]) >= scan.v2

\* A break of structure at a bar is what it was when the bar completed: no
\* later bar changes it (structure_state.py).
NoRepaint ==
  scan.at = "bars" =>
    \A n \in DOMAIN scan.bars : \A i \in 1..n :
      BreakAt(SubSeq(scan.bars, 1, n), i, 2) = BreakAt(scan.bars, i, 2)
=============================================================================
