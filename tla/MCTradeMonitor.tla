--------------------------- MODULE MCTradeMonitor ---------------------------
(***************************************************************************)
(* TradeMonitor for the kinds of signal the engine emits: resting entries  *)
(* and entries at market with two targets, in both directions, and the     *)
(* legacy single-target plan.                                              *)
(***************************************************************************)
EXTENDS TradeMonitor

Plan(long, level, legacy) == [long |-> long, level |-> level, legacy |-> legacy]

SomePlans == {Plan(TRUE, TRUE, FALSE), Plan(FALSE, FALSE, FALSE), Plan(FALSE, TRUE, TRUE)}

LevelEntry == {Plan(TRUE, TRUE, FALSE)}
=============================================================================
