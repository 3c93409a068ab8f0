--------------------------- MODULE PrefillDispatch ---------------------------
(***************************************************************************)
(* From a batch to the route its attention takes: the ordered batch, the   *)
(* counts and packed-CKV metadata of the sparse-MLA builder, the choice of *)
(* route in MLAAttention.forward_impl and the entry checks of the routes,  *)
(* which the layer's choice must satisfy: a refused call is fatal.         *)
(*                                                                         *)
(* A captured step replays the same code, so capturing is an input here.   *)
(***************************************************************************)
EXTENDS BatchReorder

CONSTANTS
  Configs,        \* process configurations: see ConfigsAssumption
  MinRows,        \* rows of the large prefill routes (1025 and 3072)
  MaxRows,
  MinPrefill,     \* VLLM_DCP_PROJECT_BEFORE_MERGE_MIN_PREFILL_TOKENS
  A2AMax,         \* VLLM_DCP_A2A_MAX_TOKENS
  VirtualBlock,   \* tokens of a virtual block
  MaxBlocks,      \* max_ckv_packed_blocks
  MaxPad          \* rows a batch may be padded by

ASSUME ConfigsAssumption ==
  Configs \subseteq [transport : {"query", "ckv"},   \* dcp_prefill_transport
                     comm      : {"ag_rs", "a2a", "b12x"},
                     large     : {"ag_rs", "a2a"},   \* dcp_a2a_large_backend
                     gather    : BOOLEAN]            \* gather in workspace
ASSUME RowsAssumption ==
  /\ MinRows \in Nat \ {0} /\ MaxRows \in Nat /\ A2AMax \in Nat /\ MinPrefill \in Nat
  /\ VirtualBlock \in Nat \ {0} /\ MaxBlocks \in Nat /\ MaxPad \in Nat

VARIABLES
  config,     \* of this process
  capturing,  \* the step is being captured in a CUDA graph
  meta,       \* what build() returned
  route       \* how the layer gathers, and how it merges

vars == <<orderVars, config, capturing, meta, route>>

NoMeta  == [tokens |-> 0]
NoRoute == [gather |-> "none"]

-----------------------------------------------------------------------------
(* The builder.                                                            *)

BlocksOf(q) == (q.computed + q.sched + VirtualBlock - 1) \div VirtualBlock
PackedBlocks(b) == PrefixSum([i \in DOMAIN b |-> BlocksOf(b[i])])[Len(b)]

\* One row per request: the lengths are copied on the device, without arrays.
PureDecode(b, tokens) == MaxQueryLen(b) <= 1 /\ tokens = Len(b)

Meta(b, tokens) ==
  LET split == Split(b, tokens) IN
  [tokens |-> tokens, maxQuery |-> MaxQueryLen(b),
   decodeTokens |-> split.decodeTokens, prefillTokens |-> split.prefillTokens,
   ckv |-> config.transport = "ckv" /\ ~PureDecode(b, tokens),
   blocks |-> IF PureDecode(b, tokens) THEN 0 ELSE PackedBlocks(b)]

\* Faulty variant: the block after the last one is let in.
RefusesLate(m) == m.ckv /\ m.blocks > MaxBlocks + 1

\* More blocks than the packed capacity.
Refuses(m) == m.ckv /\ m.blocks > MaxBlocks

-----------------------------------------------------------------------------
(* The layer.                                                              *)

SmallBatch(m)  == A2AMax = 0 \/ m.tokens <= A2AMax
UseB12x(m)     == config.comm = "b12x" /\ SmallBatch(m)
UseA2A(m)      == config.comm \in {"a2a", "b12x"} /\ (SmallBatch(m) \/ config.large # "ag_rs")
PersistentW(m) == m.maxQuery > 1 /\ m.prefillTokens > MinPrefill

GatherRows == MinRows..MaxRows

GatherEligible(m) ==
  /\ config.gather /\ ~UseB12x(m) /\ ~UseA2A(m)
  /\ m.tokens \in GatherRows
  /\ PersistentW(m)
  /\ ~capturing

\* Faulty variant: any batch that has prefill rows.
SomePrefill(m) == m.prefillTokens > 0

PurePrefill(m) == m.decodeTokens = 0 /\ m.prefillTokens = m.tokens /\ m.tokens > 0

PackedEligible(m) == GatherEligible(m) /\ config.transport = "ckv" /\ PurePrefill(m)

\* How the query is gathered, whether heads are projected before the merge,
\* and what merges the partials.
RouteOf(m) ==
  [gather  |-> IF UseB12x(m) THEN "b12x"
               ELSE IF PackedEligible(m) THEN "packed"
               ELSE IF GatherEligible(m) THEN "workspace" ELSE "plain",
   project |-> PersistentW(m),
   merge   |-> IF PackedEligible(m) THEN "none" ELSE IF UseA2A(m) THEN "a2a" ELSE "rs"]

-----------------------------------------------------------------------------
Init ==
  /\ OrderInit
  /\ config \in Configs
  /\ capturing \in BOOLEAN
  /\ meta = NoMeta /\ route = NoRoute

Order == OrderNext /\ UNCHANGED <<config, capturing, meta, route>>

Build ==
  /\ pc = "ordered"
  /\ \E pad \in 0..MaxPad :
       LET m == Meta(batch, Rows(batch)[Len(batch)] + pad) IN
       /\ meta' = m
       /\ pc' = IF Refuses(m) THEN "refused" ELSE "built"
  /\ UNCHANGED <<given, batch, destination, todo, src, dst, config, capturing, route>>

Dispatch ==
  /\ pc = "built"
  /\ route' = RouteOf(meta)
  /\ pc' = "dispatched"
  /\ UNCHANGED <<given, batch, destination, todo, src, dst, config, capturing, meta>>

Done == pc \in {"dispatched", "refused"} /\ UNCHANGED vars

Next == Order \/ Build \/ Dispatch \/ Done

Spec == Init /\ [][Next]_vars

FairSpec == Spec /\ WF_vars(Next)

-----------------------------------------------------------------------------
(* Properties.                                                             *)

TypeOK ==
  /\ given \in Batches /\ batch \in Seq(Requests) /\ Len(batch) = Len(given)
  /\ config \in Configs /\ capturing \in BOOLEAN
  /\ pc \in {"reorder", "walk", "swap", "ordered", "built", "refused", "dispatched"}
  /\ todo \subseteq NeedsSwap(given)
  /\ pc \in {"walk", "swap"} => destination \in [NeedsSwap(given) -> NeedsSwap(given)]
  /\ pc = "swap" => {src, dst} \subseteq NeedsSwap(given)
  /\ pc = "dispatched" => route.gather \in {"b12x", "packed", "workspace", "plain"}

\* At every point of the swapping the batch holds the requests it was given,
\* each once, and at its end they stand in the order of their regions.
BatchOrdered ==
  /\ \A i \in DOMAIN given : Cardinality({j \in DOMAIN batch : batch[j] = given[i]})
                               = Cardinality({j \in DOMAIN given : given[j] = given[i]})
  /\ pc \in {"ordered", "built", "dispatched"} =>
       \A i, j \in DOMAIN batch : i < j => Region(batch[i]) <= Region(batch[j])

\* The counts the builder takes from the query lengths are those of the
\* regions: no row above the threshold is a decode, no short row of a request
\* with context is a prefill, and every row is one or the other.
SplitSound ==
  meta # NoMeta =>
    LET n == Split(batch, meta.tokens).decodes IN
    /\ \A i \in 1..n : BelowThreshold(batch[i])
    /\ \A i \in n+1..Len(batch) : HasContext(batch[i]) => ~BelowThreshold(batch[i])
    /\ meta.decodeTokens + meta.prefillTokens = meta.tokens
    /\ meta.prefillTokens > 0 => meta.decodeTokens = Rows(batch)[n]

\* A route the layer chooses does not refuse the call: the packed forward and
\* the workspace gather have their own checks of rows, counts, capture and
\* metadata, and both raise.
EntryAccepts ==
  pc = "dispatched" =>
    /\ route.gather = "packed" =>
         /\ config.transport = "ckv"
         /\ MinRows <= meta.tokens /\ meta.tokens <= MaxRows
         /\ meta.decodeTokens = 0 /\ meta.prefillTokens = meta.tokens
         /\ ~capturing
         /\ meta.ckv /\ 0 < meta.blocks /\ meta.blocks <= MaxBlocks
    /\ route.gather = "workspace" =>
         /\ meta.tokens <= MaxRows
         /\ route.project /\ route.merge = "rs"

\* A packed call has no request with context whose rows are within the builder's
\* threshold: no decode of one row and no short extend, alone or in a mixed batch.
ShortRowsQueryOwned ==
  pc = "dispatched" /\ route.gather = "packed" =>
    \A i \in DOMAIN batch : ~(HasContext(batch[i]) /\ BelowThreshold(batch[i]))

\* "Decode, MTP verification, ... and mixed prefill/decode invocations remain
\* query-owned": a packed call has no request past its prompt.  (The code does not
\* keep this: the rows of a verification are above the threshold.)
VerificationQueryOwned ==
  pc = "dispatched" /\ route.gather = "packed" =>
    \A i \in DOMAIN batch : ~(HasContext(batch[i]) /\ DonePrefilling(batch[i]))

\* Every batch is ordered, built and dispatched (or refused).
Dispatched == <>(pc \in {"dispatched", "refused"})
=============================================================================
