--------------------------- MODULE MC_PaperPositions ---------------------------
(***************************************************************************)
(* Instances of PaperPositions for TLC: one strong position of ten lots,   *)
(* the smallest whose 10% runner is a whole lot.                           *)
(***************************************************************************)
EXTENDS PaperPositions, TLC

CONSTANT p1

MCOne    == {p1}
MCTen    == p1 :> 10
MCStrong == p1 :> "STRONG"
MCLimits == [t \in Tiers |-> IF t = "STRONG" THEN 2 ELSE 1]
================================================================================
