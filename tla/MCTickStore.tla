---------------------------- MODULE MCTickStore ----------------------------
(* The candle store for TLC: bar widths in units of one 5m bar, a session  *)
(* of six units with the opening range in the first two.                   *)
EXTENDS TickStore, TLC

WidthDef == [tf \in Frames |->
              CASE tf = "15m" -> 2 [] tf = "60m" -> 4 [] OTHER -> 1]
Interchangeable == Permutations(Symbols)
=============================================================================
