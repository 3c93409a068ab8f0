---------------------------- MODULE MCChannelVote ----------------------------
(* Four ranks, as deployed.                                                  *)
EXTENDS ChannelVote, TLC
CONSTANTS r1, r2, r3, r4
Group == {r1, r2, r3, r4}
=============================================================================
