-------------------------- MODULE MCDraftSpeculator --------------------------
(* Two request states and two rows, three drafts as deployed.  The model     *)
(* length of five lets drafts run into the clamp from every start.           *)
EXTENDS DraftSpeculator, TLC
CONSTANTS r1, r2
States == {r1, r2}
Interchangeable == Permutations(States)
=============================================================================
