------------------------------ MODULE RoutePack ------------------------------
(***************************************************************************)
(* The kernels that group the routes of a call by expert: count, padded    *)
(* prefix, initialisation of the packed arrays, and the sort that hands    *)
(* out slots by atomic adds on the prefix.  The kernels run one after      *)
(* another, the routes of the sort in any order.  The arrays belong to the *)
(* workspace: beyond what a call initialises they hold what an earlier one *)
(* has left.                                                               *)
(***************************************************************************)
EXTENDS Integers, Sequences, FiniteSetsExt, PrefixSums

CONSTANTS
  Experts,     \* NUM_EXPERTS
  BlockSize,   \* rows of a block
  MaxRoutes    \* routes of the largest call

ASSUME PackAssumption ==
  Experts \in Nat \ {0} /\ BlockSize \in Nat \ {0} /\ MaxRoutes \in Nat \ {0}

VARIABLES
  pack,       \* the kernel to run next, "idle" without a call, "packed" at the end
  ids,        \* topk_ids of the call, flat
  expertMap,  \* expert_map: an id's expert in this tier, or -1
  counts,     \* expert_counts
  offsets,    \* expert_offsets
  total,      \* packed_route_count
  slots,      \* packed_route_indices
  blockOf,    \* block_expert_ids
  unsorted    \* routes the sort has not come to

packVars == <<pack, ids, expertMap, counts, offsets, total, slots, blockOf,
              unsorted>>

Slots  == 0..(MaxRoutes * BlockSize - 1)
Blocks == 0..(MaxRoutes - 1)
Ids    == 0..(Experts - 1)
Live   == Cardinality(DOMAIN ids)

PackInit ==
  /\ pack = "idle"
  /\ ids = <<>> /\ expertMap = <<>> /\ counts = <<>>
  /\ offsets = [e \in 0..Experts |-> 0]
  /\ total = 0
  /\ slots = [s \in Slots |-> 0]
  /\ blockOf = [b \in Blocks |-> -1]
  /\ unsorted = {}

-----------------------------------------------------------------------------

\* The expert of route r, -1 if none: the id must be in range, and so must what
\* the map makes of it.
Resolve(r) ==
  IF ids[r] \in Ids /\ expertMap[ids[r]] \in Ids THEN expertMap[ids[r]] ELSE -1

Mapped == {r \in DOMAIN ids : Resolve(r) # -1}

Histogram == [e \in Ids |-> Cardinality({r \in Mapped : Resolve(r) = e})]

Padded(n) == ((n + BlockSize - 1) \div BlockSize) * BlockSize

\* expert_offsets: where each expert's padded range starts, and the total.
Prefix(count) == PrefixSum([e \in 1..Experts |-> Padded(count[e - 1])])

\* The expert in whose range a block starts.
Owner(prefix, b) ==
  LET owners == {e \in Ids : b * BlockSize \in prefix[e]..prefix[e + 1] - 1}
  IN IF owners = {} THEN -1 ELSE Max(owners)

\* The slots a call of n routes may need (max_packed_route_slots).
SlotCapacity(n) == n + Min({n, Experts}) * (BlockSize - 1)

\* Faulty variant: only the slots of live routes get the sentinel.
SlotsPaddedShort ==
  [s \in Slots |-> IF s < Live THEN Live ELSE slots[s]]

\* Every slot the call may use holds the sentinel until the sort fills it.
SlotsEmptied ==
  [s \in Slots |-> IF s < SlotCapacity(Live) THEN Live ELSE slots[s]]

BlocksOwned(prefix) ==
  [b \in Blocks |-> IF b * BlockSize < SlotCapacity(Live) THEN Owner(prefix, b)
                                                          ELSE blockOf[b]]
-----------------------------------------------------------------------------
\* A call; route says which kernels it takes: "small", "count" or "prefix".
PackCall(topk, map, route) ==
  /\ pack \in {"idle", "packed"}
  /\ ids' = topk
  /\ expertMap' = map
  /\ pack' = route
  /\ UNCHANGED <<counts, offsets, total, slots, blockOf, unsorted>>

Offset(prefix) == offsets' = prefix /\ total' = prefix[Experts]
ToSort == pack' = "sort" /\ unsorted' = Mapped

\* One kernel does it all for a call of decode size.
SmallPrefix ==
  /\ pack = "small"
  /\ Offset(Prefix(Histogram))
  /\ slots' = SlotsEmptied
  /\ blockOf' = BlocksOwned(Prefix(Histogram))
  /\ ToSort
  /\ UNCHANGED <<ids, expertMap, counts>>

\* Eager prefill: counts of their own, zeroed, then the prefix over them.
Count ==
  /\ pack = "count"
  /\ counts' = Histogram
  /\ pack' = "counted"
  /\ UNCHANGED <<ids, expertMap, offsets, total, slots, blockOf, unsorted>>

PrefixFromCounts ==
  /\ pack = "counted"
  /\ Offset(Prefix(counts))
  /\ pack' = "prefixed"
  /\ UNCHANGED <<ids, expertMap, counts, slots, blockOf, unsorted>>

\* In a capture a single CTA counts and sums.
PrefixCaptured ==
  /\ pack = "prefix"
  /\ Offset(Prefix(Histogram))
  /\ pack' = "prefixed"
  /\ UNCHANGED <<ids, expertMap, counts, slots, blockOf, unsorted>>

PostPrefix ==
  /\ pack = "prefixed"
  /\ slots' = SlotsEmptied
  /\ blockOf' = BlocksOwned(offsets)
  /\ ToSort
  /\ UNCHANGED <<ids, expertMap, counts, offsets, total>>

\* The atomic add on the expert's offset gives the route its slot.
SortRoute(r) ==
  /\ pack = "sort" /\ r \in unsorted
  /\ slots' = [slots EXCEPT ![offsets[Resolve(r)]] = r]
  /\ offsets' = [offsets EXCEPT ![Resolve(r)] = @ + 1]
  /\ unsorted' = unsorted \ {r}
  /\ UNCHANGED <<pack, ids, expertMap, counts, total, blockOf>>

SortEnd ==
  /\ pack = "sort" /\ unsorted = {}
  /\ pack' = "packed"
  /\ UNCHANGED <<ids, expertMap, counts, offsets, total, slots, blockOf, unsorted>>

PackKernel ==
  \/ SmallPrefix \/ Count \/ PrefixFromCounts \/ PrefixCaptured \/ PostPrefix
  \/ \E r \in unsorted : SortRoute(r)
  \/ SortEnd

-----------------------------------------------------------------------------
RouteBlocks == total \div BlockSize
SlotOf(b, i) == slots[b * BlockSize + i]

\* The rows of a block a GEMM runs: it counts the live routes in the block and
\* takes that many from its front.
BlockRows(b) ==
  LET rows == {i \in 0..BlockSize-1 : SlotOf(b, i) < Live}
  IN {SlotOf(b, i) : i \in 0..Cardinality(rows)-1}

\* Every route of the call with an expert in this tier is in exactly one slot,
\* in a block of its expert and in front of the padding; no block holds
\* anything else, whatever earlier calls have left in the arrays.
PackExact ==
  pack = "packed" =>
    /\ \A b \in 0..RouteBlocks-1 :
         \A i \in 0..BlockSize-1 :
           \/ SlotOf(b, i) \in Mapped /\ blockOf[b] = Resolve(SlotOf(b, i))
           \/ SlotOf(b, i) = Live /\ \A j \in i..BlockSize-1 : SlotOf(b, j) = Live
    /\ \A r \in Mapped :
         Cardinality({s \in 0..total-1 : slots[s] = r}) = 1
=============================================================================
