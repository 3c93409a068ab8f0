------------------------------ MODULE MCMoeCall ------------------------------
(* Three CTAs, two tokens of two routes, three experts of which the tiers    *)
(* share two and one.  With these tile counts FC1 and FC2 have both whole    *)
(* waves and cut tails, and one tile is cut into two and into three slices.  *)
EXTENDS MoeCall, TLC

Ids4(a, b, c, d) == 0 :> a @@ 1 :> b @@ 2 :> c @@ 3 :> d
Ids2(a, b) == 0 :> a @@ 1 :> b

TopkIds == {Ids4(0, 1, 1, 2), Ids2(0, 1)}
Tiers == [t \in {"a", "b"} |-> IF t = "a" THEN 0 :> 0 @@ 1 :> 1 @@ 2 :> -1
                                          ELSE 0 :> -1 @@ 1 :> -1 @@ 2 :> 0]
Tilings == {[k1 |-> 2, n1 |-> 2, k2 |-> 3, n2 |-> 1]}
SharedBy == {{"packed", "direct"}, {"hybrid"}}

\* Every way of cutting up to nine tiles over up to four CTAs is a partition.
ASSUME SharesAreExact ==
  \A T \in 0..9, K \in 1..4, G \in 1..4, m8 \in BOOLEAN : ShareExact(T, K, G, m8)
=============================================================================
