----------------------------- MODULE PrefixSums -----------------------------
(***************************************************************************)
(* Exclusive and inclusive sums of a batch's numbers: where the rows or    *)
(* the packed blocks of each request start (np.cumsum into an array that   *)
(* begins with 0).                                                         *)
(***************************************************************************)
EXTENDS Integers, Sequences

\* The sums of the first i numbers of a sequence, i from 0 on.
PrefixSum(a) ==
  LET sum[i \in 0..Len(a)] == IF i = 0 THEN 0 ELSE sum[i - 1] + a[i]
  IN sum
=============================================================================
