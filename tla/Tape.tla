-------------------------------- MODULE Tape --------------------------------
(***************************************************************************)
(* What one scan reads off the index futures: the intraday bias of each    *)
(* index, the direction of the whole market by the rule in force and by    *)
(* the rule measured beside it, the index a base is anchored to, and the   *)
(* two gates that suppress a signal for its direction.                     *)
(* Code: src/src/dependency.py, market_context.py, scanner/__init__.py.    *)
(*                                                                         *)
(* A read is what the context of an index holds; prices are whole points,  *)
(* zero when unavailable.  An index without candles has no context: its    *)
(* entry in the tape is the empty sequence.                                *)
(***************************************************************************)
EXTENDS Integers, Sequences, FiniteSets

Long == "LONG"
Short == "SHORT"
Neutral == "NEUTRAL"
Sides == {Long, Short}

\* INDIA_INDEX_BASES, in the order of the scan.
Indices == <<"NIFTY", "BANKNIFTY", "FINNIFTY", "NIFTYNXT50">>
IndexBases == {"NIFTY", "BANKNIFTY", "FINNIFTY", "NIFTYNXT50"}
Voting == {"NIFTY", "BANKNIFTY"}   \* _DIRECTION_INDICES

\* The indices, and a stock of each sort of anchor.
Bases == IndexBases \cup {"BANK", "NBFC", "STOCK"}

BiasMinPct == 10   \* INDEX_BIAS_MIN_PCT, hundredths of a percent
GapMinPct == 30    \* OPEN_GAP_MIN_PCT
FlowMin == 500     \* FII_DII_MIN_CR, crores

Regimes == {"UP", "DOWN", "RANGING", "QUIET"}
Reads == [open : Nat, last : Nat, ema : Nat, vwap : Nat, pdc : Nat,
          many : BOOLEAN, daily : Regimes]
OptionalRead == {s \in Seq(Reads) : Len(s) <= 1}
Tapes == [reads : [IndexBases -> OptionalRead], flow : Int]

Count(votes, side) == Cardinality({v \in DOMAIN votes : votes[v] = side})

\* Two aligned votes and none opposed.
Unopposed(votes) ==
  IF Count(votes, Long) >= 2 /\ Count(votes, Short) = 0 THEN Long
  ELSE IF Count(votes, Short) >= 2 /\ Count(votes, Long) = 0 THEN Short
  ELSE Neutral

\* Two aligned votes and more than are opposed.
Majority(votes) ==
  IF Count(votes, Long) >= 2 /\ Count(votes, Long) > Count(votes, Short) THEN Long
  ELSE IF Count(votes, Short) >= 2 /\ Count(votes, Short) > Count(votes, Long) THEN Short
  ELSE Neutral

(***************************************************************************)
(* The intraday bias of an index.                                          *)
(***************************************************************************)
\* The change from one price to another, beyond a share of the first.
Moved(from, to, share) ==
  IF 10000 * (to - from) >= share * from THEN Long
  ELSE IF 10000 * (from - to) >= share * from THEN Short
  ELSE Neutral

\* market_bias: the day's change, confirmed by the 5m average.
Bias(r) ==
  LET move == Moved(r.open, r.last, BiasMinPct) IN
  IF r.open <= 0 \/ ~r.many THEN Neutral
  ELSE IF move = Long /\ r.last > r.ema THEN Long
  ELSE IF move = Short /\ r.last < r.ema THEN Short
  ELSE Neutral

\* Which side of an anchor the price is on; no vote without the anchor.
Side(last, anchor) ==
  IF anchor <= 0 THEN Neutral ELSE IF last > anchor THEN Long ELSE Short

\* Mutation: an average that has to be confirmed from the other side.
InvertedAnchor(r) == Side(IF r.many THEN r.ema ELSE r.pdc, r.last)

\* The 5m average, until it exists the close of the previous day.
Anchor(r) == Side(r.last, IF r.many THEN r.ema ELSE r.pdc)

\* market_bias_v2.
BiasV2(r) ==
  IF r.open <= 0 THEN Neutral
  ELSE Majority([vwap |-> Side(r.last, r.vwap), anchor |-> Anchor(r),
                 move |-> Moved(r.open, r.last, BiasMinPct)])

(***************************************************************************)
(* The direction of the market.                                            *)
(***************************************************************************)
\* NIFTY, without it the first index there is.
Primary(tape) ==
  LET there == {i \in DOMAIN Indices : tape.reads[Indices[i]] # <<>>}
      first == CHOOSE i \in there : \A j \in there : i <= j
  IN IF there = {} THEN <<>> ELSE tape.reads[Indices[first]]

DailyVote(r) == IF r.daily = "UP" THEN Long ELSE IF r.daily = "DOWN" THEN Short ELSE Neutral
FlowVote(flow) == IF flow >= FlowMin THEN Long ELSE IF flow <= -FlowMin THEN Short ELSE Neutral
GapVote(r) == IF r.pdc > 0 /\ r.open > 0 THEN Moved(r.pdc, r.open, GapMinPct) ELSE Neutral

\* The five votes; an index that is missing does not vote.
Votes(tape, nifty, bank) ==
  LET primary == Primary(tape)
      Macro(vote) == IF primary = <<>> THEN Neutral ELSE vote
  IN [nifty |-> IF tape.reads["NIFTY"] = <<>> THEN Neutral ELSE nifty,
      bank |-> IF tape.reads["BANKNIFTY"] = <<>> THEN Neutral ELSE bank,
      daily |-> Macro(DailyVote(primary[1])),
      flow |-> Macro(FlowVote(tape.flow)),
      gap |-> Macro(GapVote(primary[1]))]

ReadOf(tape, index) == tape.reads[index][1]

\* classify_market_direction.
Direction(tape) ==
  Unopposed(Votes(tape, Bias(ReadOf(tape, "NIFTY")), Bias(ReadOf(tape, "BANKNIFTY"))))

\* classify_market_direction_v2.
DirectionV2(tape) ==
  Majority(Votes(tape, BiasV2(ReadOf(tape, "NIFTY")), BiasV2(ReadOf(tape, "BANKNIFTY"))))

(***************************************************************************)
(* The anchor of a base and the gates.                                     *)
(***************************************************************************)
\* Mutation: the anchors of a bank are those of a finance company.
BanksFollowFinance(base) ==
  CASE base = "NIFTY" -> <<"BANKNIFTY">>
    [] base \in IndexBases \ {"NIFTY"} -> <<"NIFTY">>
    [] base \in {"BANK", "NBFC"} -> <<"FINNIFTY", "NIFTY">>
    [] OTHER -> <<"NIFTY">>

\* proxy_candidates.
Proxies(base) ==
  CASE base = "NIFTY" -> <<"BANKNIFTY">>
    [] base \in IndexBases \ {"NIFTY"} -> <<"NIFTY">>
    [] base = "BANK" -> <<"BANKNIFTY", "NIFTY">>
    [] base = "NBFC" -> <<"FINNIFTY", "NIFTY">>
    [] OTHER -> <<"NIFTY">>

\* The bias of the first proxy that has a context.
IndexBias(tape, base) ==
  LET there == {i \in DOMAIN Proxies(base) : tape.reads[Proxies(base)[i]] # <<>>}
      first == CHOOSE i \in there : \A j \in there : i <= j
  IN IF there = {} THEN Neutral ELSE Bias(ReadOf(tape, Proxies(base)[first]))

\* _index_conflict_gate; the indices are exempt.
FightsIndex(base, bias, side) == base \notin IndexBases /\ bias \notin {Neutral, side}

\* _direction_bias_gate; no setup is exempt by default.
FightsMarket(direction, side) == direction \notin {Neutral, side}

(***************************************************************************)
(* What the reads promise.                                                 *)
(***************************************************************************)
\* The label measured for the future never contradicts the one in force: it
\* may be silent, or speak where that one is silent.
NeverOpposed(tape) ==
  ~ (Direction(tape) \in Sides /\ DirectionV2(tape) \in Sides \ {Direction(tape)})

\* The two gates together never close both directions of a base, unless it
\* is anchored to an index that does not vote.
OpenToOneSide(tape) ==
  \A base \in Bases \ {"NBFC"} :
    \E side \in Sides : /\ ~FightsIndex(base, IndexBias(tape, base), side)
                        /\ ~FightsMarket(Direction(tape), side)
=============================================================================
