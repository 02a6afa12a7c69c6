----------------------------- MODULE MCGateChain -----------------------------
(***************************************************************************)
(* GateChain on two setups and two instruments of one correlation group.   *)
(* Setups, instruments and directions are interchangeable: the only CHOOSE *)
(* (Newest) ties on rows of one scan and base, which agree on what is read.*)
(***************************************************************************)
EXTENDS GateChain, TLC

OneGroup == [b \in Bases |-> "BANKS"]

Symmetry == Permutations(Setups) \cup Permutations(Bases) \cup Permutations(Directions)
=============================================================================
