--------------------------- MODULE MCHybridExperts ---------------------------
(* Two mixed layers and one of another mix, or uniform like the drafter's.   *)
(* Decode steps, and a size beyond what is planned unless the first call has *)
(* it.                                                                       *)
EXTENDS HybridExperts, TLC

Names == {"first", "second", "third"}
Mixes == {[l \in Names |-> IF l = "third" THEN k ELSE "mixed"] : k \in {"odd", "uniform"}}
=============================================================================
