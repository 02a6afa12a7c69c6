---------------------------- MODULE MCContracts ----------------------------
(* The calendar for TLC: three months, the clock on both sides of each of  *)
(* its limits.                                                             *)
EXTENDS Contracts
MonthStartDef == <<0, 31, 59, 90>>
=============================================================================
