-------------------------- MODULE MCPrefillDispatch --------------------------
(* Rows scaled down: 1025 is 4, 3072 is 9, 1024 is 3 and 16 is 2; a chunk   *)
(* has 4 rows and an MTP verification 2.                                    *)
EXTENDS PrefillDispatch
LOCAL INSTANCE SequencesExt

CONSTANT MaxLen   \* requests in a batch of any kinds

Kind(s, c, p) == [sched |-> s, computed |-> c, prompt |-> p]
Kinds == {Kind(1, 8, 6),   \* decode
          Kind(2, 8, 6),   \* MTP verification
          Kind(1, 5, 6),   \* last row of a prompt
          Kind(4, 2, 6),   \* chunk of a prompt
          Kind(4, 0, 6),   \* first chunk
          Kind(1, 0, 1)}   \* prompt of one row

\* As many rows as the scheduler may give a batch.
Fits(b) == FoldLeft(LAMBDA n, k : n + k.sched, 0, b) <= MaxRows

\* One request of every region, in every order: cycles of four positions.
OneOfEach == {f \in [1..4 -> {Kind(1, 8, 6), Kind(1, 5, 6), Kind(2, 8, 6), Kind(1, 0, 1)}] :
                \A i, j \in 1..4 : f[i] = f[j] => i = j}

Numbered(b) ==
  [i \in DOMAIN b |-> [id |-> i, sched |-> b[i].sched, computed |-> b[i].computed, prompt |-> b[i].prompt]]

AllBatches ==
  {Numbered(b) : b \in {f \in UNION {[1..n -> Kinds] : n \in 1..MaxLen} \cup OneOfEach : Fits(f)}}

\* The deployed process, one without the hybrid dispatch, and the query route.
Processes ==
  {[transport |-> "ckv", comm |-> "b12x", large |-> "ag_rs", gather |-> TRUE],
   [transport |-> "ckv", comm |-> "ag_rs", large |-> "ag_rs", gather |-> TRUE],
   [transport |-> "query", comm |-> "a2a", large |-> "a2a", gather |-> TRUE],
   [transport |-> "query", comm |-> "b12x", large |-> "ag_rs", gather |-> TRUE]}
Deployed ==
  {[transport |-> "ckv", comm |-> "b12x", large |-> "ag_rs", gather |-> TRUE]}
=============================================================================
