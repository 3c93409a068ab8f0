# A TLA+ model of the packed-CKV serving overlays

The repository patches vLLM and b12x so that GLM-5.2 with a 480k context runs on four PCIe
GPUs (TP4 with DCP4: the KV cache of a sequence is spread token by token over the four ranks).
What is hard about it is in the overlays: collectives built from DMA copies and device flags,
memory that several operations use one after the other, and decisions that four processes take
on their own and that have to agree. These modules specify that part. They are written from
the overlays of the shipped set:

| Path (under `src/`) | Short name here |
|---|---|
| `patches/phase2-fullcontext/overlays/b12x/distributed/pcie_dma.py` | DMA |
| `patches/phase2-fullcontext/overlays/vllm/v1/attention/backends/mla/b12x_mla_sparse.py` | MLA |
| `patches/phase2-fullcontext/overlays/vllm/v1/worker/gpu_worker.py` | WRK |
| `patches/stage3-packed-ckv/overlays/vllm/v1/attention/ops/common.py` | OPS |
| `patches/stage3-packed-ckv/overlays/vllm/model_executor/layers/attention/mla_attention.py` | ATT |
| `docker/overlays/v14/vllm/v1/attention/backends/utils.py` | UTL |
| `docker/overlays/v14/b12x/moe/fused/w4a16/kernel.py`, `.../route_pack.py` | KER, RPK |
| `docker/overlays/v14/hybrid_loader.py` | HYB |
| `docker/overlays/v14/vllm/v1/worker/gpu/spec_decode/autoregressive/speculator.py` | SPEC |

`patches/stage1-*` and `overlays-flat` are earlier generations or copies of the same files.

## 1. Inventory

### Components, their state and their operations

**Byte ring all-gather** (DMA `PCIeDmaAllGather`; the phase-1 CKV channel). State: three IPC
slots per rank, flags in the neighbours' memory, device counters, three streams (main, copy,
flag). One operation, `all_gather`: W-1 hops around the ring, then a handshake that keeps a
neighbour from refilling the slots. Correct when every returned call has the payloads of that
call, no slot is refilled while it is read, and nobody waits for ever.

**Ring all_reduce and reduce_scatter** (DMA `PCIeDmaAllReduce`). State: a tensor reduced in
place, scratch slots and staging, one counter and flag per (step, piece), copy, flag and main
streams. Operations: `all_reduce`, `reduce_scatter`, with up to eight pieces (`MAX_PIECES`; one or two unless overridden) and three wires
(BF16; FP8 on the gather phase, `ag`; FP8 on both, `ring`). Correct when every rank's input
is in the sum once and no memory is written while it is read, across calls of different kinds on one channel.

**FP8 all-to-all all_reduce** (DMA `_all_reduce_fp8`). Five streams per rank, no handshake at
its end: scratch is protected from the next call by data dependencies only.

**Communicator initialisation** (OPS `_get_dcp_rs_ring`, MLA `_get_ckv_all_gather`). State: a
process-wide singleton (unset, present, absent). Each rank builds its channel, the group takes
the minimum of the votes, all use the channel or none does. Correct when two ranks never use
different transports and no channel is freed under a peer. (It is not: a rank whose own vote of the ring raises falls back alone, see section 5.)

**Headroom escrow** (DMA `_CKVHeadroomEscrow`, armed by WRK). State: an allocation and its
state word. Armed by a vote after warmup, freed after the first packed attention, with two
optional probes of free memory, each a group minimum. Correct when the memory is held until the rank's device has run the first
attention, freed once, and every verdict is the group's.

**Packed CKV** (MLA builder `build`, `dcp_packed_ckv_forward` and its kernels). State:
persistent pinned and device metadata arrays, the record pages, the gathered records. Per
step: metadata; per layer: pack, gather, remap, attend, over one of two routes ("active"
records, or the whole "pool" with owner tables). Correct when attention reads exactly the
records it selected, of this step, from their owners, and when ranks agree on every collective.

**Query transport and the borrowed workspaces** (MLA `dcp_all_gather_query_in_workspace`,
`dcp_project_before_merge_in_workspace`, OPS `cp_lse_ag_out_rs_into`). State: two
workspaces shared by all layers and both routes. Correct when every use begins where the one
before it is dead, also between the two streams of the double-buffered gather.

**Dispatch** (UTL reordering and splits, MLA `build` counts, ATT `forward_impl`).
Pure decisions per step. Correct when the reordered batch loses nothing, the counts are right,
the route accepts what it is given, and the decision is a function of things all ranks share.

**Mixture of experts on the device** (KER, RPK). State: a lock workspace (turn locks, barrier
count and sense), partial sums, intermediate buffers and packed route arrays, all of which
outlive the launch that wrote them. Operations: route packing (count, prefix, initialise, sort by
atomic adds), one persistent grid for FC1, activation and FC2 with grid barriers between them and with
tiles split over CTAs that add in turn, then the sum over a token's routes. Correct when each
route is summed once over all its k tiles, when the workspace is as the next launch of another
grid expects it, and when no CTA waits for ever.

**Mixture of experts on the host** (HYB `HybridNvFp4MoE`). State: per layer the prepared
weights of two tiers, per process a runtime of launches, buffers, the one-grid launch and its
mapped variant, planned at the first call of each layer. Every step may fail and demote, for a
layer or for all. Correct when each call still adds every tier, when captured graphs keep the
addresses they have, and when a retry never finds half of something.

**Speculative decoding** (SPEC `propose`). State: persistent input buffers, request states, the
draft model's cache slots. One forward over the target's rows, rejected ones included, then one
row per request and step, with in-place kernels and full graphs that run more rows than there
are requests. Correct when drafts and the logits kept for rejection sampling depend on kept
tokens only and lengths stay within the model.

**Others**: autotuning of the all-reduce sizes, the DCP profiler, the worker's life cycle,
sampling, the FP8 linear layer, loading, container and harness. See section 6.

### How they interact

`build()` fixes counts and packed layout for a step; `forward_impl` picks a route for each
layer's call; the packed route enters the escrow's gate, gathers over PyNCCL, the process group
or the byte ring, and releases the escrow after its first attention; the query route uses the
workspaces and ends in a reduce-scatter over NCCL or the DMA ring. The channels are built at the
first use (ring) or at startup (CKV), by vote.
After attention each layer calls the host side of its experts, which launches the kernels of one tier
after the other, or of both in one grid, on workspaces all layers share. After the target model's step
the speculator runs the draft model, which takes the same routes.

### What is hard here

- Up to five streams per rank and four ranks, ordered by events, by flags written over PCIe and by
  nothing else. A wrong event or flag number gives sums that are slightly off, once in a while.
- No timeouts on the device: a missing flag is a hang.
- Failures on one rank of four: an allocation, an exception inside a vote, a probe.
- Two buffers used by eight things.
- Workspaces that are never cleared between launches, but put back by whoever is last.
- CUDA graphs: addresses and row counts frozen at capture, replayed on what later calls left there.
- Fallbacks below fallbacks, taken at planning or in the call, with state shared by all layers.
- Integer layouts (owner, block, offset, piece, slot) whose errors show only at boundaries.
- Conditions checked twice, by a caller and by a callee that raises.

`PROJECT.json` lists each hazard at its line with the properties that cover it.

## 2. Modules

| Module | Models | Composes |
|---|---|---|
| `GatherBarrier` | what an all-gather promises: enter, and copy everyone's payload once all have entered | |
| `RingAllGather` | the byte ring, hop by hop | refines `GatherBarrier` |
| `RingAllGatherProofs` | its theorems | extends `RingAllGather` |
| `RingReduce`, `RingReduceProofs` | ring all_reduce and reduce_scatter, any sequence of calls on a channel; theorems | |
| `AllToAllReduce`, `AllToAllReduceProofs` | the FP8 all-to-all; theorems | |
| `HeadroomEscrow`, `HeadroomEscrowProofs` | the escrow and its theorems | |
| `ChannelVote`, `ChannelVoteProofs` | construction by vote, use of the channel, theorems | |
| `DcpGroup`, `PrefixSums` | the ranks of a decode-context-parallel group; sums of a batch's numbers | |
| `PackedCkv` | metadata, pinned buffers, both packed routes | relies on the barrier of `GatherBarrier` |
| `LayerWorkspace` | both routes of a layer on the two workspaces | extends `DcpGroup` |
| `BatchReorder` | reordering of a batch and the split of its counts | extends `PrefixSums` |
| `PrefillDispatch` | builder counts, route choice, entry checks | extends `BatchReorder` |
| `MCMlaLayer` | one run for dispatch, workspaces and vote, which share no state: the first choice of a behaviour is which of them it is about | `PrefillDispatch`, `LayerWorkspace`, `ChannelVote` |
| `MlaLayerProofs` | theorems about the layer: order, route, workspaces and packed reads | extends `PrefillDispatch`, `LayerWorkspace` and `PackedCkv` |
| `GridBarrier` | the counter-and-sense barrier of a grid, over launches of different grids | |
| `FusedMoe` | the fused kernel: phases, split tiles, turns, buffers | extends `GridBarrier` |
| `RoutePack` | the kernels that sort routes by expert | extends `PrefixSums` |
| `MoeCall` | calls on one workspace | extends `FusedMoe` and `RoutePack` |
| `HybridExperts` | preparing, planning and calling expert layers on the host | |
| `ExpertProofs` | theorems about the kernel, its calls and the host | extends `MoeCall` and `HybridExperts` |
| `DraftSpeculator`, `DraftSpeculatorProofs` | `propose`, call after call; theorems | |

Every `MC...` module gives the constants of one of them small values. Definitions headed
*Faulty variant* are not part of a model: each is a plausible mistake in the operator that
follows it, and putting it in that operator's place makes a property fail, which is how every
property here has been shown to have something to say.

### Correspondence with the code

*Streams.* A stream is a program counter per rank (a pair of call and position where several
calls can overlap), and an action is one enqueued operation as it executes. An event recorded on one stream and waited
for on another is a condition on the other stream's position. What the host enqueues for one call
it enqueues without waiting, so host order does not appear except through stream order.

*Flags.* `dma_set_flag` and `dma_wait_flag` live in `pcie_dma.cu`, which is not in the
repository. From their use: a set increments a device counter and stores its value in the
peer's flag, a wait increments the matching counter and spins until the flag is at least
that. Copy and flag set are on different streams, joined by an event.

*Data.* A payload is named by who sent it in which call; a sum is the record of who was added,
and in which order where the order is what a property is about. FP8 is a tag on a value.

*RingAllGather*: `Enter` is the host's part of `all_gather`, `CopyStep`, `FlagStep`, `WaitData`,
`Unpack`, `Handshake`, `Finish` the operations of its loop.
*RingReduce*: the same with pieces, and `Land` for what main does with an arrived piece (add,
dequantize, store). *AllToAllReduce*: `Quant`, `CopyStep`, `Accumulate`, `FlagStep`,
`Place`, `Join` on five streams.
*HeadroomEscrow*: each reduction is a `Join` (a rank contributes and blocks) and a completion that needs
everyone; arming, release and probes follow `_CKVHeadroomEscrow`, with failure actions
where the code can raise. The device runs the first packed layer behind the host (`StartGather`, `FinishGather`, which needs every
peer's, `RunAttention`); the host only enqueues it, and `torch.cuda.synchronize` in the release waits for it. *ChannelVote*: constructor, vote, decision, then chunks of work over the
chosen transport. `VoteRaised` is the `except` around the vote: the rank logs the exception (`raised`) and takes it for "not agreed",
before or after its peers have seen its vote. *PackedCkv*: the host thread (`BuildStep`) writes pinned buffers while device copies enqueued
from them (`Upload`) are still due; layers pack, gather and attend. *LayerWorkspace*: a
main stream and the process group's own stream per rank, and the two workspaces as arrays of cells
(a cell holds one rank's heads of one token). *BatchReorder*, *PrefillDispatch*: one step, from
the batch to the route, with the swap loop one swap at a time.
*GridBarrier*: `ReadSense`, `Arrive`, `ResetCount`, `ReleaseAll`, `SpinOut` are the accesses of `_grid_barrier` one by one.
*FusedMoe*: a CTA is a program counter over the phases of its launch; a segment (a range of k tiles of an
output tile) is computed in registers, waits its turn, adds, passes the lock on, and the last one
stores. *RoutePack*: one action per kernel, and one per route in the sort.
*MoeCall*: which kernels a call launches, with the grid that each gets.
*HybridExperts*: `Build` per layer; `PlanLaunch`, `PlanBuffers`, `PlanOneGrid`, `PlanMapped` are the parts
of `_ensure_b12x_nf3_runtime`, each with success and failure (`EscapeOneGrid`: the failure's handler raises itself, on an exception without text); `Apply` and the `Run...` and `...Raises`
actions are `apply` and `_apply_b12x_nf3`. The mix of a layer, hidden sizes and the deployed flags are
its kind. *DraftSpeculator*: `Propose` starts from a batch that the target model has
verified with any number of rejections; `Prefill`, `PrepareDecode`, `DraftStep` and `Return` follow
`propose` and its kernels. A token is named by its request and position, so a token taken from a wrong place is
not the one that belongs there.

## 3. Runs

| Run | Instance | Shows |
|---|---|---|
| `ring_gather` | 4 ranks, 2 calls | exact contents, no slot race, skew at most one call, refinement of `GatherBarrier`, every call returns |
| `ring_reduce` | 3 ranks, pairs of different calls | sums, no memory race, with differently numbered flags in the two calls; every call returns |
| `ring_reduce_growing` | 4 ranks, one then two pieces | **violated**, see section 5 |
| `a2a` | 4 ranks, one call; 3 ranks, 3 calls; 2 ranks, 3 calls of 2 and 2 of 3 pipelined chunks | exact sums and no race, without a closing handshake |
| `headroom_escrow` | 4 ranks, 3 layers, every failure | held until the device has run the first attention, freed once, group verdicts, matched reductions |
| `packed_ckv` | 2 ranks, all pairs of four batches and one beyond capacity, 2 layers, phase 1 and phase 2 | reads are exact on every route, collectives match in kind and sizes |
| `mla_layer` | dispatch: every batch of up to 3 requests of 6 kinds, one of each region in every order, 4 configurations; workspaces: 3 ranks, sequences of query and packed calls, three gather modes; vote: 3 ranks, both channels, construction failures and raising votes | nothing lost, the cycle walk ends, counts right, the chosen route accepts, no short row is packed; outputs exact, no race between the streams, every call returns; only a raised vote splits the group, slabs outlive their use, and the group settles unless a rank deserts it |
| `ring_vote_raises` | 4 ranks | **violated**, see section 5 |
| `mtp_verification_packed` | every batch of up to 2 requests | **violated**, see section 5 |
| `moe` | 3 CTAs, 2 calls of up to 2 tokens and 2 routes each, 3 experts in 2 tiers | barriers separate the phases, routes are packed once each, sums exact, workspace clean after every launch, every call returns |
| `hybrid_experts` | 3 layers of two kinds, up to 4 calls, every failure | output exact, graphs keep their addresses, retries are clean |
| `draft_steps` | 2 requests, 3 drafts, model length 5, up to 3 calls | drafts from kept tokens, the draft cache's prefix intact, lengths bounded |

### Bounds, and why they are enough

*Ranks.* Four is what is deployed, and what the byte ring and the escrow are checked with. The votes have three: one to raise,
one to fail and one to adopt. The reductions and the layer have three, the smallest ring in which predecessor, successor and a third rank
differ (and the largest that leaves room for two pieces). The all-to-all takes its group from the program of the run:
pipelined chunks are exhausted with two ranks only, since three ranks with two chunks (665,000 states for one call; it passes) outgrow
the time set for a run. Packed metadata has two: there ranks
meet only in collectives that everyone enters, and what differs between ranks is which tokens they own.

*Calls.* `BoundedSkew` (proved for every ring) says that no rank is more than one call ahead, so two calls
show every overlap of the all-gather. For the reductions two consecutive calls of every listed pair of kinds
are tried, as a rank cannot leave a call before its neighbours have entered it.

*Sizes.* Pieces per shard are one or two, as the code chooses by size (an override allows up to eight; the numbering of flags and events
depends on "more than one"). Records per page and blocks per request are chosen so that a
request ends inside, at and beyond a block boundary, that a table has holes, and that one batch exceeds
the active capacity and one the startup capacity. `LayerWorkspace` has the deployed sizes (3072 rows,
2730 rows of all ranks in the scratch prefix, 1536 FP8 rows) divided by about 700: a full call then takes two
synchronous chunks or three double-buffered ones, so that a slot is reused. `PrefillDispatch` maps 1025,
3072, 1024 and 16 rows to 4, 9, 3 and 2; three requests of any kind meet every combination of regions, and
four in every order make the longest cycles of swaps.

*Experts.* In `moe` two calls share a workspace, as the second starts from what the first has left and
leaves the same; grids of a direct launch and of a packed one differ. The tile counts (FC1: 2 by 2, FC2: 3 by 1) make
whole waves and split tails, tiles shared by two CTAs and by three. That the shares of the CTAs partition the k tiles is an
`ASSUME` of the MC module, evaluated for up to nine tiles over up to four CTAs, and a theorem for all (section 4). `hybrid_experts` has two
layers that may take one grid, so that one publishes what the other shares, and one that may not, of another
mix or uniform; a call is a decode step or larger than planned; four calls let each layer plan and one retry or replay.

*Drafts.* Two requests fill the rows or leave a padding row; three drafts as deployed; with five positions and prompts of up to two, drafts run
into the clamp from every start, and three calls show what a rejection leaves to the call after the next.

*Bounds in guards.* `MaxCalls` in `HybridExperts` and `DraftSpeculator`, `CallBound` in `MoeCall`, and `Chunks` in `ChannelVote`, bound the calls of a behaviour.
The other models have a fixed number of calls; their counters are not bounded.

### Fairness

`FairSpec` has weak fairness per stream: an operation at the head of an in-order GPU stream whose
waits are satisfied executes. Flag and event waits stay satisfied once they are (counters only grow), so weak
fairness is enough. The host is fair in entering calls, because every rank runs the same model on the same
batch; this is what the scheduler broadcasts and it is assumed, not modelled. Nothing is assumed about relative speed.
`MoeCall` has weak fairness of all device work together: the device goes on while any CTA it holds can. That is
enough because a CTA that spins changes nothing, and it claims nothing about which CTA runs; the device
holds `Resident` CTAs at once, and no grid is larger, as the launches see to.
`HybridExperts` and `DraftSpeculator` are sequential and state safety only.

## 4. Proofs

`tlapm` checks the eight proof modules from nothing.

**RingAllGatherProofs**, for every `W >= 2` (`WorldAssumption`) and every number of calls. The
invariant `RingInv` says that every counter, flag, slot and output is the one its stream positions
imply: counters and flags are counts of the positions passed, a slot holds the payload of the last copy into it, and the positions of
neighbours are ordered by the flags. Types alone are not inductive, and neither is
`GatherExact`: that a slot still holds its payload when unpacked needs the handshake of the *previous* call, that is, the order of positions
of two neighbours. From `RingInv`: `TypeCorrect`, `GatherIsExact`, `SlotsAreRaceFree`,
`SkewIsBounded` (ordering of neighbours, all around the ring), and `RingImplementsBarrier`, which maps every step to a step of
`GatherBarrier` or a stutter.

**HeadroomEscrowProofs**, for every non-empty set of ranks and every number of layers. `EscrowInv`
relates a rank's state word, pointer and allocation to what it has joined and
what the group has completed, with "completed means every rank had joined with its value". From it:
`TypeCorrect`, `EscrowIsHeld`, `EscrowIsFreedOnce`, `ArmIsGroupDecision`,
`ReductionsAreMatched`, `GateIsHonoured`, `VerdictIsUnanimous`, `ReleaseFollowsAttention`. The last needs `OnDevice`: a device has attended only after
its gather, which ends only when every peer's has begun, and a rank that joins Probe A has synchronized.

**ChannelVoteProofs**, for every group and number of chunks, with votes that may raise anywhere. `VoteInv` says that a rank which goes on
has either seen every vote and cached what they say, or raised in its own vote and cached the failure, and has entered only that
transport; votes never change once all are cast. From it: `TypeCorrect`, `SplitsNeedARaise` (in a mixed collective every rank on NCCL has raised
in its vote), `DecisionIsTheGroups` (while nobody has raised, the transport is the group's; without that it is false, section 5), `SlabsAreThere`.

**ExpertProofs**. *Barrier*, for every bound on the grid, every sequence of launches and every grid of each.
`BarrierInv` says that the counter is the number of CTAs that have arrived and not left, that
each CTA's sense is the word's or, while it spins after the release, the one before it, and that when the last
has arrived all others spin. From it: `BarrierTypeCorrect`, `BarrierIsSeparating`, `CounterIsExact` (so the counter is 0
for the next launch, whatever its grid).

*Packed routes*, for every routing, tier map, number of experts, block size and sequence of calls. `PackInv` says what the arrays
hold before each kernel: the offsets start as the sums of the padded counts, and while the sort runs the
offset of an expert has advanced by its sorted routes, each of which sits in one of the slots passed. That a block has one owner and
that blocks, not just slots, suffice (`SlotCapacity`) are lemmas about sums of padded counts, by a least counterexample as
everywhere here. From it: `PackIsExact`.

*Shares*, for every number of tiles and k tiles, every grid and both tile kinds. `Share` is a formula each CTA evaluates for itself.
The lemmas give every cut tile its first and last CTA and the edges between theirs (`LowOf`, `HighOf`, `EdgeOf`), and show that
what a CTA computes, its k range, number of slices, place among them and lock slot, is what these say. In a tail of a wave or more a tile has
two holders at most, and the slot each finds by counting the tiles it opens is one more than the first of them. From it: `SharesAreExact`.

*Launches*, for every sequence of calls of all modes, routings, tile shapes and grids. `FusedInv` says that a CTA's place among the phases less the
barriers it has passed is the same for all; that what it has left of a GEMM are segments of its share; and that until the first CTA of a cut tile has
published, the lock counts those that have, which are the last ones: whoever holds a turn is the one the lock names. Locks of tiles done or
not begun are 0. The barrier's invariant keeps the two GEMMs of a launch apart, which is needed because they use the same locks.
From it: `PhasesAreSeparated`, `WorkspaceIsClean`.

*Results of calls*, for the same calls. `CallExact` speaks of `out` alone, and `ExactInv` adds what the results rest on; it is proved
under `PackInv`, `BarrierInv` and `FusedInv`. `LaunchExact` says of the blocks of a launch that every route to the tier is in one of them, under its
expert: a packed launch has it from `PackInv`, the others have a block per route. `SumInv` and `PartialInv` follow the k tiles of a cut tile: a CTA holds its
own range, and once its turn has come also those of all CTAs after it, so that the partial sum in a lock slot always runs from the last to publish up to the
end of the tile, and the first CTA stores the whole. `PartialInv` needs the edges of the shares (*Shares*) and the order of the turns (`FusedInv`): without either a slot could hold the sum of another tile.
`BuffersInv` says what each buffer holds. A cell of FC1 or FC2 is good once its tile is stored, an
activated cell once the CTA of its stride is past the activation, and FC2's rows of dropped routes are zero once cleared. The packed path writes FC2 over FC1, and
the others add FC2 to `out` after clearing it; that neither goes on while another CTA is still in the phase before is `BarrierSeparates`. From it: `CallsAreExact`.

*Host runtime*, for every set of layers and kinds, all sizes and any number of calls. `RuntimeInv` says
what a failure may leave: the shared buffers and the second output exist together and before any layer is ready; what is published
of the one-grid path is all there and borrows the buffers that are there; a layer that was not prepared
has its checkpoint tensors; what graphs have captured is still owned. `OwnedKept` (no step replaces an allocation) carries the
last. From it: `TypeCorrect`, `OutputIsExact`, `GraphsStayIntact`, `RetriesAreClean`.

**RingReduceProofs**, for every ring of two ranks or more and every sequence of calls of both kinds, all wires and one
or two pieces, if handshakes are late (`HandshakesLate`): where a call has more slots than the one before it, the
handshake slot of the earlier call is not a data slot of one of the first W-2 steps of the later. Without it `NoRace` is false (section
5), and `OnlyGrowingCallsLeftOut` says what it costs: on up to three ranks nothing, on more exactly the
sequences in which a one-piece `reduce_scatter` comes directly before a two-piece call. `Inv` is needed in full because its parts
hold each other up. `Counters` and `FlagsTrue` say that a slot counts the calls that use it and that a flag which
has reached the number of a call was set in that call by the rank that sets it there, data by the predecessor and handshakes by the successor.
`Chain` follows a piece backwards: a rank that has waited for a pair of step k knows that the rank d places behind it has copied
the pair of the same piece d-1 steps before, or is in a later call already. At W-1 places every rank has entered the call, which gives `Skew` (nobody two calls ahead, and a
rank is ahead of its successor only when that has reached its handshake) and through it the meaning of the flags. At W places the rank is behind
itself: its copy stream has sent what its main stream is about to overwrite. `Contents` names what every cell holds
that is still to be read: the sum of a run of ranks that ends with the sender. From it: `TypeCorrect`, `ReduceIsExact`,
`RingIsRaceFree`, `RanksStayTogether`.

**AllToAllReduceProofs**, for every group of two ranks or more, one to four chunks and any number of calls, if the calls
of a run have the same chunk count (`SameChunks`; section 5 says why). `Counters` says that every flag has been set and waited
for once per call, and `Arrived` that what has been received has been sent. In place of an end handshake stands `Skew`: a call ends with
the broadcasts of all peers received, and a peer sends its broadcast of a chunk only after it has summed the scatters of
all, so nobody is two calls ahead and nobody overwrites what a peer has still to read. From it: `TypeCorrect`, `ReduceIsExact`,
`ScratchIsRaceFree` (the scratch slots a main stream is reading; the staging cells a copy still reads are not in it), `RanksStayTogether`.

**MlaLayerProofs** has three parts. *Order and route*, for every set of batches, decode threshold, configuration and bound of the routes.
The destinations of the misplaced requests are a permutation, because as many requests of a region are misplaced as foreign ones stand in
its place (a count of finite sets, region by region). `WalkInv` says that while a cycle is walked, everything
outside it is either where it was or where it belongs. From it the walk never asks for a destination that is
not there (`TypeCorrect`) and `BatchIsOrdered`. In an ordered batch the first request that is no decode splits the batch
where the regions do (`SplitIsSound`), and from the counts follow the entry checks of the chosen route (`EntryIsAccepted`)
and `ShortRowsStayQueryOwned` (rows within the builder's threshold; a verification is above it, section 5). The prefix sums of query lengths are shown to exist for every batch from a least
counterexample, since the library's induction theorems cannot be used.

*Workspaces*, for every number of ranks, size of the two workspaces and of the chunks that fit (`SizesAssumption`: no chunk larger than
the scratch prefix, and room for two), every mode and every sequence of calls of both routes that fit the query workspace. `PositionInv` says where a rank can
be: no operation after the gather begins before every chunk is placed, and at most `Depth` chunks are in flight. The chunks tile the
rows of a call (all full but the last), and two chunks in flight have slots apart, because the two slots of the double-buffered mode fit the prefix
that one synchronous chunk fills. That gives `StreamsDoNotRace`. `OutputExact` says something only of a call that is over, so `WorkspaceInv`
says what the workspaces hold before each operation: which rows are in place, which local rows wait for their gather and which
gathered chunks wait to be placed; then the attention's output, its transpose, its projection; on the packed route nothing outlives an operation but
the result. A rank takes what it waits for by number, the n-th gather or collective of each peer. `GathersSentBy` and `EntriesSentBy` say that every rank sends the
same sequence, so that the n-th is the same chunk or collective of the same call everywhere however far ahead a peer is
(`GatherArrived`, `ExchangeArrived`; the sums over earlier calls are the prefix sums again). From it: `WorkspaceTypeCorrect`,
`CallsAreExact`.

*Packed reads*, for every number of ranks, size of pages and pools, capacities, selection of the indexer, number of layers and set of
sequences of batches. `CacheAssumption` says that the sizes are sizes; `WorkloadsAssumption` that a request's rows are its last
tokens and that its column in every rank's table reaches its last block, as the scheduler sees to (`WellFormed`; the tables of the ranks are equally wide, being
the same allocation, but a page may still be missing, on any rank). The argument has an arithmetic and a protocol half. `TokenPlace`: what the remap computes as owner and offset is
where the owner's own numbering of its tokens has the token. `BlockOfToken`: the ranges of packed blocks of the requests are apart, so
the block the remap looks in leads the pack kernel back to the same request and the same column. With both, `SlotExact` says of
either route that a selected id has a slot exactly when the owner has the page, and that the slot holds the owner's
record. `PackedInv` is the protocol: a layer has the same number of collectives on every rank (`Turns`) and so has a step (`PerStep`), so the number of a collective
tells its step, and what was contributed to it, with its kind, records, validity entries and table shape, is a function of that number (`SentBy`), although
a peer may be a collective ahead and its buffers may belong to a later step. Nothing in `ReadsExact` speaks
of the pinned buffers or of what was gathered; `StageOf` and `Has` say what they hold at every stage (`pinned` is not
overwritten before its copies ran because the host waits, `HostMayBuild`). From it: `PackedTypeCorrect`, `ReadsAreExact`,
`CollectivesAgree`.

**DraftSpeculatorProofs**, for every set of requests, number of rows and draft steps, model length, prompt length and number of calls.
None of the three properties is inductive. `Inv` follows a request through its call. A live request has room for its next token (`Host`: a
request that reaches the model length is ended), so an entry always ends inside the model. `Prefilling` says what the first
forward finds for the rows that are kept, and `PrefillCacheFacts` that it writes the kept tokens, that rejected rows,
whose inputs are anything, only spoil slots at or after the end of the kept tokens, and that other requests are left alone; this
needs that a token row has one owner (`RowFacts`, `RowOwner`), that is, the sums of `query_start_loc`, shown to exist by a least counterexample.
`Drafting` says that in step s the row of a request is at the position s-1 places after its new token, or, held back by the
clamp, at the last of the model, and that up to there its inputs and the cache before it are right. A clamped row writes only
the last slot, which no kept token and no usable draft depends on. `DraftsOf` needs one draft more than `DraftsExact`
promises: the draft made at the last position is right though it cannot be used. `LogitsFacts` holds because no two rows of a call have
one state and rows beyond the batch write nothing. From `Inv`: `TypeCorrect`, `DraftsAreExact`, `PrefixStaysIntact`, `LengthsAreBounded`.

Each invariant's consequences are what the runs check on their instances. The type invariant is proved where there are
proofs.

*Only model-checked*: liveness under fairness (`CallsReturn`, `CallReturns`, `BatchDispatched`, `VoteSettles`), which is beyond the prover, as is `ENABLED`. Every
invariant of a passing run is stated by a theorem.

## 5. Where code and documentation disagree

**One flag slot, two meanings** (`ring_reduce_growing`, `pcie_dma.py:1160`). The closing handshake
uses slot `steps * pieces`, which depends on the call. After a one-piece `reduce_scatter` on four ranks
the handshake slot 3 is a data slot of a two-piece one, and handshakes are published by the successor,
data by the predecessor. The wait of the first call can be satisfied by the second call of the
predecessor, and scratch is overwritten while it is read, against the comment "protect scratch from reuse
while peers read". The caller of this repository never has one piece (its rows are 1025..3072), so this limits the class, not the deployment.
`OnlyGrowingCallsLeftOut` shows that with one or two pieces this is the only such pair of calls: every sequence without it is proved free of races.

**One rank falls back alone** (`ring_vote_raises`, `ops/common.py:186`). The docstring says "ring-vs-NCCL must be a GROUP decision" (line 147).
The vote's tensor, reduction and `item()` are in a `try` whose handler logs and goes on with "not agreed". If that happens on one rank
when the reduction has gone through for the others, they use the ring and it issues NCCL reduce-scatters. The packed-CKV vote raises
to its caller in the same place. `SplitsNeedARaise` shows that nothing else splits the group.

**Verification goes packed** (`mtp_verification_packed`, `b12x_mla_sparse.py:1083`). "Decode, MTP verification, ... and mixed prefill/decode
invocations remain query-owned", says the design note (`packed-ckv-v1-design.md:100`). The builder splits at one row, so a speculative
verification of several rows counts as prefill, and the layer takes the packed route with it when no one-row decode is in the batch. Reads are
exact either way: `ReadsExact` does not depend on who is past its prompt. What holds is `ShortRowsQueryOwned`.

Limits of what the passing runs say, each from reading the code while modelling it:

- `a2a` has calls of one chunk count. Flags of the all-to-all are numbered with the chunk count of the call
  (`pcie_dma.py:1224`), which follows from its payload, so between calls of different counts one flag has
  different publishers and a wait can be satisfied by the wrong one. The docstring's "No end handshake is needed" holds for calls of one count, which is proved for
  every group (`SameChunks` is the hypothesis). The
  all-to-all wire is opt-in and not deployed.
- `packed_ckv` assumes that the runner waits for the copies of a step before the next is built (`HostMayBuild`), so it cannot show the loss of that
  wait; its batches have exact lengths, where asynchronous scheduling has upper bounds.
- `headroom_escrow` arms once, in warmup. Sleep, wake-up and reload around it are not in the model.
- `mla_layer` takes `AttendPacked` as one step on the main stream: that the query overwrites the payload and the projection the gathered records only when
  they are dead is stream order inside that step.
- `OutputExact` of `hybrid_experts` takes the result as the set of tiers added: a tier added twice would not be seen.
- `draft_steps` takes the slots of the first forward from the target's metadata. With `rebuild_prefill_attn_metadata`, which nothing in
  the repository sets, slots of rejected rows would come from the positions an earlier call left (the faulty variant
  `PrefillSlotRebuilt` shows that this would be seen).

## 6. What is not modelled, and why

- `pcie_dma.cu`, NCCL, the process group, allocators and vLLM's runner: not in the
  repository, and modelled only as their callers here use them. `HostMayBuild` in `PackedCkv` is such an assumption:
  the runner waits for the copies of a step before it prepares the buffers of the next.
- The exchange of IPC handles inside the channels' constructor: external, one local step in `ChannelVote`.
- All-to-all and ring calls on one channel: each is modelled alone; the deployed wire mode (`ag`) never mixes them.
- Numerical values: FP8 rounding, softmax, sampling, dequantization, the linear kernels. Of the expert kernels, which tile and
  thread layout a launch is compiled with, the small-M direct kernel, the calibration epilogue, and the validation of compiled launches (a
  launch that fails it is a failure of `PlanLaunch` or `PlanOneGrid`).
- HYB's reading and sharding of tensors, its legacy backends, debugging and profiling modes, and transforms of weights that are not experts'.
- SPEC's multimodal inputs, data-parallel padding, dummy runs, and the subclasses that do not advance positions.
- Shape, stride, dtype and alignment checks: they guard against a miswired caller.
- In `LayerWorkspace` the collectives of the main stream and the gathers of the process group are independent,
  as they are in the code on different communicators; with the FP8 all-gather the owner keeps its exact rows.
- The dense attention branch, output quantization, loading, container and harness.
- Earlier generations and flat copies of DMA, MLA, OPS and ATT: the same classes again, older or identical. Together with the code generators of KER
  they are more than half of the repository's implementation lines, which is why the share of lines the models stand for stays low.

## 7. Plan

Done, in this order: `GatherBarrier` and `RingAllGather` with proofs; `HeadroomEscrow` with proofs; `RingReduce`;
`AllToAllReduce`; `PackedCkv`; `ChannelVote`; `LayerWorkspace`; `BatchReorder` and `PrefillDispatch`; `GridBarrier` with proofs,
`FusedMoe`, `RoutePack` and `MoeCall`; `DraftSpeculator`; `HybridExperts` with proofs; the proofs of `ChannelVote`,
`PrefillDispatch`, `AllToAllReduce`, `RingReduce`, `DraftSpeculator`, `LayerWorkspace`, `PackedCkv` and `MoeCall`.

To come, in order of importance:

1. `WorkerLifecycle` (WRK): initialisation, profiling, warmup, arming, sleep and wake-up, reload, shutdown, composed with
   `HeadroomEscrow`; property: the escrow is never armed over a slept or unmapped pool, and memory accounting matches.
2. `SharedChannel`: ring and all-to-all calls on one `PCIeDmaAllReduce`, composing `RingReduce` and `AllToAllReduce`.
3. `TilePipeline`: the staging ring of the k loop in KER, its waits and its last iterations, under `FusedMoe`'s tiles.
4. `StartupPlan`: capacities chosen in `B12xMLASparseImpl.__init__`, whether workspaces hold what the routes put in them, and the choice of collective backend per rank.
5. `PhaseProfiler`: the one-shot window of `_DcpPhaseProf` and its thresholds.

Abstract specifications still worth stating: an all-reduce as a barrier and a sum, implemented by `RingReduce` and
`AllToAllReduce`; a "group decision" implemented by `ChannelVote` and by the votes of `HeadroomEscrow`.

Theorems to prove next: an abstract reduction that `RingReduce` and `AllToAllReduce` implement would state `ReduceIsExact` once for both.
