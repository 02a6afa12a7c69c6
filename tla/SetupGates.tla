----------------------------- MODULE SetupGates -----------------------------
(***************************************************************************)
(* The gates that judge a candidate by its market alone, in the order of   *)
(* the chain; the ones with a memory are in GateChain.                     *)
(* Code: src/src/scanner/__init__.py.                                      *)
(*                                                                         *)
(* A context has, besides what the evaluators read: base, tickAge (seconds,*)
(* optional), event and earnings (whether the day is blacked out), daily   *)
(* (the daily regime), indexBias and direction (stamped by the scan).      *)
(***************************************************************************)
EXTENDS Evaluators

WarmupEnd == 570          \* minutes of the day
MarketClose == 930
MaxTickAge == 120         \* seconds
VixEvent == 25
CircuitMove == 500        \* hundredths of a percent of the day's open
MinAtrPoints == 3
MinAtrIndex == 2          \* hundredths of a percent of the price
MinAtrStock == 5
MinSlAtr == 45            \* percent of the ATR
MinOi == 10               \* tens of thousands
Efficiency == 30          \* percent of the ATR a 5m bar makes good
CostShare == 6            \* round trip, hundredths of a percent
MinScalpCost == 150       \* percent of the cost
MinScalpStock == 10       \* hundredths of a percent
MinScalpPoints == 15      \* NIFTY

TrendFamily == {"TPE", "MAC", "BDS", "DIV"}

WarmingUp(ctx) == ctx.time < WarmupEnd
Stale(ctx) == ctx.tickAge = None \/ ctx.tickAge[1] > MaxTickAge
EventRisk(ctx) == ctx.vix > VixEvent \/ ctx.event
Blackout(ctx) == ~ctx.index /\ ctx.earnings
Circuit(ctx) ==
  ctx.dayOpen > 0 /\ Dist(ctx.cur.close, ctx.dayOpen) * 10000 > CircuitMove * ctx.dayOpen

\* An index has a floor in points as well; a stock a share of its price.
DeadTape(ctx) ==
  IF ctx.index
  THEN ctx.atr < MinAtrPoints \/ ctx.atr * 10000 < MinAtrIndex * ctx.cur.close
  ELSE ctx.atr * 10000 < MinAtrStock * ctx.cur.close

InNoise(sig, ctx) == ctx.atr > 0 /\ Dist(sig.entry, sig.sl) * 100 < MinSlAtr * ctx.atr

\* min_scalp_points_for: the floor of the instrument, and of the costs.
ThinScalp(sig, ctx) ==
  LET reward == Dist(sig.tp1, sig.entry) IN
  \/ reward * 10000 < (sig.entry * CostShare * MinScalpCost) \div 100
  \/ IF ctx.index THEN reward < MinScalpPoints
     ELSE reward * 10000 < sig.entry * MinScalpStock

Illiquid(ctx) == ctx.oi > 0 /\ ctx.oi < MinOi
Chop(ctx) == ctx.r60 \in {"RANGING", "QUIET"} /\ ctx.daily \in {"RANGING", "QUIET"}
NoTrend(sig, ctx) == sig.setup \in TrendFamily /\ ctx.daily \in {"RANGING", "QUIET"}

\* The whole 5m bars left, and parts of one, at a share of the ATR each.
OutOfReach(sig, ctx) ==
  LET left == Max({0, MarketClose - ctx.time}) IN
  ctx.atr > 0 /\ Dist(sig.tp1, sig.entry) * 500 > ctx.atr * left * Efficiency

\* The gates that refuse a candidate before it is scored.
Refusals(sig, ctx) ==
  LET refuse == [warmup |-> WarmingUp(ctx),
                 stale_data |-> Stale(ctx),
                 event_risk |-> EventRisk(ctx),
                 earnings_blackout |-> Blackout(ctx),
                 circuit_check |-> Circuit(ctx),
                 min_atr |-> DeadTape(ctx),
                 sl_noise |-> InNoise(sig, ctx),
                 min_scalp |-> ThinScalp(sig, ctx),
                 oi_liquidity |-> Illiquid(ctx),
                 index_conflict |-> FightsIndex(ctx.base, ctx.indexBias, sig.dir),
                 direction_bias |-> FightsMarket(ctx.direction, sig.dir),
                 chop |-> Chop(ctx),
                 regime_setup |-> NoTrend(sig, ctx),
                 tp_feasibility |-> OutOfReach(sig, ctx)]
  IN {g \in DOMAIN refuse : refuse[g]}

\* The phase gate is off and its blocklist empty by default.
PassesMarket(sig, ctx) == Refusals(sig, ctx) = {}
=============================================================================
