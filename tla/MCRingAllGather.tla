--------------------------- MODULE MCRingAllGather ---------------------------
(* The deployed group of four ranks.                                         *)
EXTENDS RingAllGather
=============================================================================
