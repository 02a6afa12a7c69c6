----------------------------- MODULE SignalPlan -----------------------------
(***************************************************************************)
(* The two-target trade plan of one signal, without prices: the stages a   *)
(* tracked signal passes through, and what one call of the trade monitor   *)
(* may make of each stage.  The price walk that picks one of these results *)
(* is module TradeMonitor.  Code: src/src/trade_monitor.py.                *)
(***************************************************************************)

\* Not tracked; a LEVEL entry waiting for its fill; filled; TP1 banked.
Untracked == "UNTRACKED"
Pending == "PENDING"
Live == "LIVE"
Banked == "BANKED"
TrackedStages == {Pending, Live, Banked}
Stages == TrackedStages \cup {Untracked}

\* No decision yet (walk_signal's None), and the seven recorded outcomes.
Undecided == "OPEN"
NotTriggered == "NOT_TRIGGERED"
Outcomes == {"TP1_HIT", "SL_HIT", "EXPIRED", "TP1_BE", "TP2_HIT",
             "TP1_EXPIRED", NotTriggered}
\* The outcomes of a filled trade, and those that keep a banked first target.
FilledOutcomes == Outcomes \ {NotTriggered}
BankedOutcomes == {"TP1_BE", "TP2_HIT", "TP1_EXPIRED"}

\* A LEVEL signal starts unfilled, a MARKET signal is filled when registered.
FirstStage(level) == IF level THEN Pending ELSE Live

\* What may still happen to a trade after its TP1.  walk_signal looks at the
\* stop on the fill candle of a LEVEL entry before it looks at tp1_touched_at,
\* so a fill candle of a coarser timeframe can stop a banked trade.
AfterTp1(level) == BankedOutcomes \cup (IF level THEN {"SL_HIT"} ELSE {})

(***************************************************************************)
(* One call of check() on a tracked signal re-walks every candle it has,   *)
(* so a single call may fill, bank and decide it: the results are pairs of *)
(* the stage reached and the decision.  `level` is a signal with a resting *)
(* entry, `legacy` one with tp2 = 0.                                       *)
(***************************************************************************)
WalkFromBanked(level) ==
  {<<Banked, d>> : d \in {Undecided} \cup (AfterTp1(level) \ {"TP1_EXPIRED"})}

WalkFromLive(level, legacy) ==
  {<<Live, Undecided>>, <<Live, "SL_HIT">>}
    \cup (IF legacy THEN {<<Live, "TP1_HIT">>} ELSE WalkFromBanked(level))

WalkFrom(stage, level, legacy) ==
  (IF stage = Pending THEN {<<Pending, Undecided>>, <<Pending, NotTriggered>>} ELSE {})
    \cup (IF stage = Banked THEN WalkFromBanked(level) ELSE WalkFromLive(level, legacy))

\* force_close_all: what the session's end makes of a signal still open.
ForcedOutcome(stage) ==
  IF stage = Pending THEN NotTriggered
  ELSE IF stage = Banked THEN "TP1_EXPIRED" ELSE "EXPIRED"

\* resume: the stage rebuilt from a stored row's two marks.  A LEVEL row
\* without its fill mark is pending whatever else the row says.
ResumedStage(level, triggered, tp1Touched) ==
  IF level /\ ~triggered THEN Pending
  ELSE IF tp1Touched THEN Banked ELSE Live
=============================================================================
