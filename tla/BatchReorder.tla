---------------------------- MODULE BatchReorder ----------------------------
(***************************************************************************)
(* The order of a batch (vllm/v1/attention/backends/utils.py): requests    *)
(* are swapped in place until decodes come first, then short extends, long *)
(* extends and first chunks, and the attention backends find the           *)
(* boundaries again from the query lengths alone.                          *)
(*                                                                         *)
(* A request is the part of the input batch's state that the order depends *)
(* on; swap_states moves all of it.                                        *)
(***************************************************************************)
EXTENDS Integers, Sequences, FiniteSets, PrefixSums

CONSTANTS
  Threshold,  \* decode_threshold
  Batches     \* the batches a step may be given

\* The scheduler gives every request of a batch at least one row.
Requests == [id : Nat, sched : Nat \ {0}, computed : Nat, prompt : Nat]

ASSUME ThresholdAssumption == Threshold \in Nat
ASSUME BatchesAssumption ==
  \A b \in Batches : b \in Seq(Requests) /\ Len(b) > 0

VARIABLES
  given,        \* the batch of this step as it was
  batch,        \* the input batch
  pc,           \* "reorder", "walk", "swap", then the steps that follow
  destination,  \* src_dest_map
  todo,         \* its keys still to be visited
  src, dst      \* the swap about to be made

orderVars == <<given, batch, pc, destination, todo, src, dst>>

-----------------------------------------------------------------------------
HasContext(q)     == q.computed > 0
BelowThreshold(q) == q.sched <= Threshold
DonePrefilling(q) == q.computed >= q.prompt

\* 0 decode, 1 short extend, 2 long extend, 3 first chunk.
Region(q) ==
  CASE ~HasContext(q) -> 3
    [] HasContext(q) /\ ~BelowThreshold(q) -> 2
    [] HasContext(q) /\ BelowThreshold(q) /\ ~DonePrefilling(q) -> 1
    [] HasContext(q) /\ BelowThreshold(q) /\ DonePrefilling(q) -> 0

UpTo(b, k) == Cardinality({j \in DOMAIN b : Region(b[j]) <= k})

\* The region that should be at position i.
Target(b, i) == CHOOSE k \in 0..3 : UpTo(b, k - 1) < i /\ i <= UpTo(b, k)

NeedsSwap(b) == {i \in DOMAIN b : Region(b[i]) # Target(b, i)}

\* The misplaced positions in the order of their regions (a stable sort), and
\* where each goes: the k-th of them to the k-th misplaced position.
Before(b, i) == {j \in NeedsSwap(b) : \/ Region(b[j]) < Region(b[i])
                                      \/ Region(b[j]) = Region(b[i]) /\ j < i}

Destination(b) ==
  [i \in NeedsSwap(b) |->
     CHOOSE d \in NeedsSwap(b) :
       Cardinality({j \in NeedsSwap(b) : j < d}) = Cardinality(Before(b, i))]

Swapped(b, i, j) == [b EXCEPT ![i] = b[j], ![j] = b[i]]

\* Faulty variant: a filled position keeps its destination.
UnmarkedDone(d) == destination

\* A position that has its request is not visited again.
MarkedDone(d) == [destination EXCEPT ![d] = d]

\* Faulty variant: the next destination is read after the mark.
NextOfMarked(d) == d

\* Where the request that stood at d, now at src, goes.
NextOf(d) == destination[d]

-----------------------------------------------------------------------------
OrderInit ==
  /\ given \in Batches
  /\ batch = given
  /\ pc = "reorder"
  /\ destination = <<>> /\ todo = {} /\ src = 0 /\ dst = 0

\* An ordered batch is left alone.
Reorder ==
  /\ pc = "reorder"
  /\ destination' = Destination(batch)
  /\ todo' = NeedsSwap(batch)
  /\ pc' = IF todo' = {} THEN "ordered" ELSE "walk"
  /\ UNCHANGED <<given, batch, src, dst>>

\* The next key of the map, in the order of its insertion.
Walk ==
  /\ pc = "walk" /\ todo # {}
  /\ \E s \in todo :
       /\ \A t \in todo : Cardinality(Before(given, s)) <= Cardinality(Before(given, t))
       /\ src' = s
       /\ dst' = destination[s]
       /\ todo' = todo \ {s}
       /\ pc' = IF destination[s] # s THEN "swap" ELSE "walk"
  /\ UNCHANGED <<given, batch, destination>>

Walked ==
  /\ pc = "walk" /\ todo = {}
  /\ pc' = "ordered"
  /\ UNCHANGED <<given, batch, destination, todo, src, dst>>

Swap ==
  /\ pc = "swap"
  /\ batch' = Swapped(batch, src, dst)
  /\ destination' = MarkedDone(dst)
  /\ dst' = NextOf(dst)
  /\ pc' = IF dst' = src THEN "walk" ELSE "swap"
  /\ UNCHANGED <<given, todo, src>>

OrderNext == Reorder \/ Walk \/ Walked \/ Swap

-----------------------------------------------------------------------------
(* Query lengths and what the backends make of them.                       *)

\* query_start_loc: the rows of the first i requests.
Rows(b) == PrefixSum([i \in DOMAIN b |-> b[i].sched])

MaxQueryLen(b) == CHOOSE m \in {b[i].sched : i \in DOMAIN b} : \A i \in DOMAIN b : b[i].sched <= m

\* Faulty variant: a request at the threshold is a prefill.
LongOrEqual(b) == {i \in DOMAIN b : b[i].sched >= Threshold}

Long(b) == {i \in DOMAIN b : b[i].sched > Threshold}
First(S) == CHOOSE i \in S : \A j \in S : i <= j

\* split_decodes_and_prefills with short extends as decodes, no uniformity
\* required: the batch is cut before the first request above the threshold.
\* tokens counts padding too, which falls to the last part.
Split(b, tokens) ==
  IF Long(b) = {}
  THEN [decodes |-> Len(b), prefills |-> 0, decodeTokens |-> tokens, prefillTokens |-> 0]
  ELSE LET cut == First(Long(b)) IN
       [decodes |-> cut - 1, prefills |-> Len(b) - cut + 1,
        decodeTokens |-> Rows(b)[cut - 1], prefillTokens |-> tokens - Rows(b)[cut - 1]]
=============================================================================
