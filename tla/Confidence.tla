----------------------------- MODULE Confidence -----------------------------
(***************************************************************************)
(* The confidence of a candidate by the model in force and by the one      *)
(* measured beside it, and its tier.  Code: src/src/signal_quality.py.     *)
(*                                                                         *)
(* Components are whole points in the first model, and tenths of a point   *)
(* where the second has fractions; its extension penalty is rounded up.    *)
(* Further fields of a context: back (the close two bars before the last,  *)
(* optional) and edge (tenths of a point the ledger's expectancy of the    *)
(* cohort is worth, optional: absent until the cohort is large enough).    *)
(***************************************************************************)
EXTENDS SetupGates

EmitFloor == 55
TierA == 65
TierAPlus == 80
ExpiryBump == 5
EdgeCap == 8
StructureLookback == 12
ZoneWindow == 40
PowerHourEnd == 630
MiddayEnd == 810

\* REGIME_AFFINITY: points with the trend, without one, against it.
RegimeAffinity(setup) ==
  CASE setup \in {"LSR", "FAR"} -> <<13, 9, 6>>
    [] setup = "ORB" -> <<12, 10, 6>>
    [] setup = "TPE" -> <<15, 6, 0>>
    [] setup \in {"VSB", "BDS", "QCB"} -> <<11, 10, 8>>
    [] setup \in {"SRF", "DIV"} -> <<12, 9, 6>>
    [] setup \in {"VIX", "PCR"} -> <<8, 8, 8>>
    [] setup = "MAC" -> <<12, 10, 0>>
    [] setup = "OIS" -> <<11, 9, 6>>
    [] setup = "EGS" -> <<9, 9, 9>>

BreakoutSetups == {"VSB", "BDS", "ORB"}
LowVixFavoured == {"ORB", "TPE", "VSB", "BDS", "MAC"}
HighVixFavoured == {"LSR", "VIX", "PCR", "FAR", "OIS"}

Family(setup) ==
  CASE setup \in TrendFamily -> "TREND"
    [] setup \in {"LSR", "SRF", "FAR", "OIS"} -> "REVERSION"
    [] setup \in {"ORB", "VSB", "QCB"} -> "BREAKOUT"
    [] OTHER -> "NEUTRAL"

\* The points of the first step that is reached, of steps in falling order.
Steps(value, table, least) ==
  LET reached == {i \in DOMAIN table : value >= table[i][1]}
  IN IF reached = {} THEN least ELSE table[Min(reached)][2]

Clamp(x, lo, hi) == Max({lo, Min({hi, x})})
With(side) == IF side = Long THEN "UP" ELSE "DOWN"
Flat == {"RANGING", "QUIET"}

(***************************************************************************)
(* Components the two models share.                                        *)
(***************************************************************************)
MeasuredEdge(ctx) == IF ctx.edge = None THEN 0 ELSE Clamp(ctx.edge[1], -10 * EdgeCap, 10 * EdgeCap)

\* A breakout is scored on the volume of its break.
ScoreVolume(sig, ctx) ==
  LET ratio == IF sig.setup \in BreakoutSetups /\ sig.volume > 0 THEN sig.volume ELSE ctx.volume
  IN IF ratio <= 0 THEN 8
     ELSE Steps(ratio, <<<<300, 15>>, <<200, 13>>, <<150, 11>>, <<120, 9>>, <<100, 8>>>>, 5)

\* The reward and the risk after the costs of the round trip.
ScoreRr(sig) ==
  LET cost == sig.entry * CostShare
      reward == 10000 * Dist(sig.tp1, sig.entry) - cost
      risk == 10000 * Dist(sig.entry, sig.sl) + cost
  IN Steps((100 * reward) \div risk,
           <<<<200, 15>>, <<160, 13>>, <<130, 11>>, <<100, 9>>, <<70, 6>>>>, 3)

\* The zone is judged on the bars before the one that trades into it.
InAlignedZone(sig, ctx, tol) ==
  LET n == Len(ctx.c15)
      bars == SubSeq(ctx.c15, Max({1, n - ZoneWindow + 1}), n - 1)
      zones == Unmitigated(OrderBlocks(bars) \cup FairValueGaps(bars), bars)
  IN /\ Len(bars) >= 3
     /\ \E z \in zones : /\ z.bullish = (sig.dir = Long)
                         /\ z.bottom - tol <= sig.entry /\ sig.entry <= z.top + tol

ScoreConfluence(sig, ctx) ==
  LET tol == OfAtr(ctx, 50)
      round == RoundTo(sig.entry, RoundStep(ctx))
      levels == ctx.orh \o ctx.orl
                  \o <<ctx.pdh, ctx.pdl, ctx.pdc, round - RoundStep(ctx), round,
                       round + RoundStep(ctx)>> \o ctx.vwap \o OiLevels(ctx)
      near == Cardinality({i \in DOMAIN levels : Dist(sig.entry, levels[i]) <= tol})
      met == near + IF InAlignedZone(sig, ctx, tol) THEN 1 ELSE 0
  IN Steps(met, <<<<3, 10>>, <<2, 8>>, <<1, 5>>>>, 2)

\* Price over two bars against the change of open interest.
ScoreOi(sig, ctx) ==
  LET priceSide == IF ctx.cur.close > ctx.back[1] THEN Long ELSE Short
      backs == priceSide = sig.dir
  IN IF Dist(ctx.oiChange, 0) < 2 \/ ctx.back = None \/ ctx.back = <<ctx.cur.close>> THEN 5
     ELSE IF ctx.oiChange > 0 THEN IF backs THEN 10 ELSE 0
     ELSE IF backs THEN 6 ELSE 3

\* Mutation: the two extremes of the put/call ratio are taken for each other.
PcrSwapped(sig, ctx) ==
  LET crowd == IF ctx.pcr = "NONE" THEN 0
               ELSE IF (ctx.pcr = "BULLISH") = (sig.dir = Long) THEN 2 ELSE -2
  IN Clamp(4 + crowd, 0, 8)

\* The volatility the setup likes, and a crowd on the other side.
ScoreVixPcr(sig, ctx) ==
  LET vix == IF ctx.vix > 0 /\ ctx.vix < 14 /\ sig.setup \in LowVixFavoured THEN 2
             ELSE IF ctx.vix > 18 /\ sig.setup \in HighVixFavoured THEN 2 ELSE 0
      crowd == IF ctx.pcr = "NONE" THEN 0
               ELSE IF (ctx.pcr = "BEARISH") = (sig.dir = Long) THEN 2 ELSE -2
  IN Clamp(4 + vix + crowd, 0, 8)

\* The ATR against what is normal for the instrument.
AtrNormality(ctx) ==
  LET atr == 1000000 * ctx.atr
      tenth == ctx.cur.close * (IF ctx.index THEN 35 ELSE 120)
  IN IF atr > 30 * tenth THEN 0
     ELSE IF 8 * tenth <= atr /\ atr <= 20 * tenth THEN 3
     ELSE IF atr < 5 * tenth THEN 1 ELSE 2

Event15(ctx) ==
  IF Len(ctx.c15) >= 7 THEN LastStructureEvent(ctx.c15, 2, StructureLookback) ELSE "none"

(***************************************************************************)
(* The model in force.                                                     *)
(***************************************************************************)
ScoreRegime(sig, ctx) ==
  LET points == RegimeAffinity(sig.setup) IN
  IF ctx.r60 = With(sig.dir) THEN points[1]
  ELSE IF ctx.r60 \in Flat THEN points[2] ELSE points[3]

ScoreHtf(sig, ctx) ==
  IF sig.htf THEN 12
  ELSE IF ctx.daily = With(sig.dir) THEN 8
  ELSE IF ctx.daily \in Flat THEN 6 ELSE 3

ScoreStructure(sig, ctx) ==
  LET event == Event15(ctx)
      structure == IF event = "none" THEN 3
                   ELSE IF event = (IF sig.dir = Long THEN "BOS_UP" ELSE "BOS_DOWN") THEN 7
                   ELSE IF event = (IF sig.dir = Long THEN "CHOCH_UP" ELSE "CHOCH_DOWN") THEN 5
                   ELSE 0
  IN structure + AtrNormality(ctx)

ScoreIndexAlignment(sig, ctx) ==
  IF ctx.indexBias = Neutral THEN 3 ELSE IF ctx.indexBias = sig.dir THEN 5 ELSE 0

\* In tenths of a point.
Score(sig, ctx) ==
  Clamp(10 * ( ScoreRegime(sig, ctx) + ScoreHtf(sig, ctx) + ScoreVolume(sig, ctx)
             + ScoreRr(sig) + ScoreConfluence(sig, ctx) + ScoreOi(sig, ctx)
             + ScoreVixPcr(sig, ctx) + ScoreStructure(sig, ctx)
             + ScoreIndexAlignment(sig, ctx)) + MeasuredEdge(ctx), 0, 1000)

Tier(score) ==
  IF score >= 10 * TierAPlus THEN "A+" ELSE IF score >= 10 * TierA THEN "A"
  ELSE IF score >= 10 * EmitFloor THEN "B" ELSE "FILTERED"

\* _confidence_floor_gate: five more points on an expiry day.
AboveFloor(score, ctx) ==
  score >= 10 * (EmitFloor + IF ctx.expiry THEN ExpiryBump ELSE 0)

(***************************************************************************)
(* The model measured beside it: the four reads of an established trend    *)
(* count once, and the phase, the age of the market's label, repetition    *)
(* and extension are priced in.  In tenths.                                *)
(***************************************************************************)
TrendEstablishment(sig, ctx) ==
  LET event == Event15(ctx)
      regime == 10 * ScoreRegime(sig, ctx)
      htf == IF sig.htf \/ ctx.daily = With(sig.dir) THEN 150 ELSE 60
      structure == IF event = "none" THEN 60
                   ELSE IF event = (IF sig.dir = Long THEN "BOS_UP" ELSE "BOS_DOWN") THEN 150
                   ELSE IF event = (IF sig.dir = Long THEN "CHOCH_UP" ELSE "CHOCH_DOWN") THEN 105
                   ELSE 0
      index == IF ctx.indexBias = Neutral THEN 90
               ELSE IF ctx.indexBias = sig.dir THEN 150 ELSE 0
  IN Max({regime, htf, structure, index})

Phase(time) == IF time < PowerHourEnd THEN "POWER_HOUR"
               ELSE IF time < MiddayEnd THEN "MIDDAY_CHOP" ELSE "CLOSING"

PhaseAffinity(setup, phase) ==
  LET row == CASE Family(setup) = "BREAKOUT" -> <<80, 20, 50>>
               [] Family(setup) = "REVERSION" -> <<30, 80, 50>>
               [] Family(setup) = "TREND" -> <<50, 20, 80>>
               [] OTHER -> <<50, 50, 50>>
  IN CASE phase = "POWER_HOUR" -> row[1] [] phase = "MIDDAY_CHOP" -> row[2]
       [] OTHER -> row[3]

\* biasAge is in minutes; a label is worth less than none after two hours.
Freshness(sig, ctx, biasAge) ==
  IF ctx.direction # sig.dir THEN 35
  ELSE IF biasAge <= 30 THEN 70 ELSE IF biasAge <= 120 THEN 50 ELSE 20

ExtensionPenalty(sig, ctx) ==
  LET beyond == Sign(sig.dir) * (sig.entry - ctx.vwap[1])
  IN IF ctx.vwap = None \/ ctx.atr <= 0 \/ 2 * beyond <= ctx.atr THEN 0
     ELSE -Min({100, (25 * (2 * beyond - ctx.atr)) \div ctx.atr})

ScoreV2(sig, ctx, biasAge, nth) ==
  Clamp(TrendEstablishment(sig, ctx)
        + 10 * ( AtrNormality(ctx) + ScoreVolume(sig, ctx) + ScoreRr(sig)
               + ScoreConfluence(sig, ctx) + ScoreOi(sig, ctx) + ScoreVixPcr(sig, ctx))
        + PhaseAffinity(sig.setup, Phase(ctx.time)) + Freshness(sig, ctx, biasAge)
        - 30 * Min({2, nth - 1}) + ExtensionPenalty(sig, ctx) + MeasuredEdge(ctx), 0, 1000)
=============================================================================
