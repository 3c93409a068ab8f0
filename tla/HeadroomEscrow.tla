--------------------------- MODULE HeadroomEscrow ---------------------------
(***************************************************************************)
(* The phase-2 headroom escrow: one direct cudaMalloc per process, armed   *)
(* by a group vote after warmup, held through the first packed-CKV         *)
(* attention, freed once, then two group-minimum memory probes.            *)
(*                                                                         *)
(* Every rank runs the same calls on its own; they meet only in the MIN    *)
(* all-reduce of the DCP group and in the CKV gathers.  Ranks' reductions  *)
(* are matched in the order each rank issues them, whatever they are for,  *)
(* so a reduction is an entry of its rank's sequence `joined'.  An         *)
(* exception leaves the worker (nothing catches it): the rank is "raised"  *)
(* for good, and what it leaves in the state is what a peer or a           *)
(* post-mortem sees.                                                       *)
(***************************************************************************)
EXTENDS Integers, Sequences

CONSTANTS
  Ranks,      \* the DCP group (the code accepts four)
  MaxLayers   \* packed-CKV layers each rank runs (bounds the model)

ASSUME RanksAssumption == Ranks # {}
ASSUME LayersAssumption == MaxLayers \in Nat /\ MaxLayers >= 1

\* A vote joins 1 or 0; a probe joins 1 if the rank's free memory is at least
\* the 150 MiB gate, else 0.  MIN compares with the gate after the reduction,
\* which gives the same verdict.
Entry(tag, value) == [tag |-> tag, value |-> value]
Entries == [tag : {"vote", "A", "B"}, value : {0, 1}]

VARIABLES
  probes,    \* _CKV_HEADROOM_PROBES, the same environment on every rank
  pc,        \* pc[r]: where rank r is
  state,     \* state[r]: _CKVHeadroomEscrow.state ("absent" before the arm)
  pointer,   \* pointer[r]: the escrow is allocated
  freed,     \* freed[r]: calls of cudaFree that succeeded
  joined,    \* joined[r]: the reductions r has entered, in order
  gathered,  \* gathered[r]: packed-CKV layers whose gather r has enqueued
  layer,     \* layer[r]: packed-CKV layers r has completed
  device     \* device[r]: r's device, with the first packed layer's work

vars == <<probes, pc, state, pointer, freed, joined, gathered, layer, device>>

PCs == {"warm", "vote", "ready", "body", "tail", "released", "probeA", "probeB", "raised"}
States == {"absent", "arming", "armed", "probe_a", "complete", "dead"}
Devices == {"idle", "gathering", "gathered", "attended"}

TypeOK ==
  /\ probes   \in BOOLEAN
  /\ pc       \in [Ranks -> PCs]
  /\ state    \in [Ranks -> States]
  /\ pointer  \in [Ranks -> BOOLEAN]
  /\ freed    \in [Ranks -> {0, 1}]
  /\ joined   \in [Ranks -> Seq(Entries)]
  /\ gathered \in [Ranks -> 0..MaxLayers]
  /\ layer    \in [Ranks -> 0..MaxLayers]
  /\ device   \in [Ranks -> Devices]

Init ==
  /\ probes   \in BOOLEAN
  /\ pc       = [r \in Ranks |-> "warm"]
  /\ state    = [r \in Ranks |-> "absent"]
  /\ pointer  = [r \in Ranks |-> FALSE]
  /\ freed    = [r \in Ranks |-> 0]
  /\ joined   = [r \in Ranks |-> <<>>]
  /\ gathered = [r \in Ranks |-> 0]
  /\ layer    = [r \in Ranks |-> 0]
  /\ device   = [r \in Ranks |-> "idle"]

-----------------------------------------------------------------------------
(* Building blocks.                                                        *)

\* An exception leaves the rank: only pc changes beyond what `body' did.
Raise(r) == pc' = [pc EXCEPT ![r] = "raised"]

Join(r, tag, value) == joined' = [joined EXCEPT ![r] = Append(@, Entry(tag, value))]

\* The reduction r waits in is complete: every rank has entered it.
Complete(r) == \A s \in Ranks : Len(joined[s]) >= Len(joined[r])

\* Faulty variant: the rank looks at its own contribution only.
MinLocal(r) == joined[r][Len(joined[r])].value = 1

\* The minimum of the reduction r waits in is 1.
MinOK(r) == \A s \in Ranks : joined[s][Len(joined[r])].value = 1

\* Faulty variant: the pointer is not cleared.
FreeLocalKeeps(r) ==
  /\ freed' = [freed EXCEPT ![r] = IF pointer[r] THEN @ + 1 ELSE @]
  /\ UNCHANGED pointer

\* _free_local
FreeLocal(r) ==
  /\ pointer' = [pointer EXCEPT ![r] = FALSE]
  /\ freed'   = [freed EXCEPT ![r] = IF pointer[r] THEN @ + 1 ELSE @]

-----------------------------------------------------------------------------
(* Arming.                                                                 *)

\* A local check of the constructor or of arm_ckv_headroom_escrow refuses.
ArmRefused(r) ==
  /\ pc[r] = "warm"
  /\ Raise(r)
  /\ UNCHANGED <<probes, state, pointer, freed, joined, gathered, layer, device>>

\* cudaMalloc succeeds or not; either way the rank votes.  (Errors of the two
\* mem_get_info calls are only logged.)
Allocate(r) ==
  /\ pc[r] = "warm"
  /\ \E ok \in BOOLEAN :
       /\ pointer' = [pointer EXCEPT ![r] = ok]
       /\ Join(r, "vote", IF ok THEN 1 ELSE 0)
  /\ state' = [state EXCEPT ![r] = "arming"]
  /\ pc' = [pc EXCEPT ![r] = "vote"]
  /\ UNCHANGED <<probes, freed, gathered, layer, device>>

\* Faulty variant: the verdict of the vote is not looked at.
ArmedBlind(r) ==
  /\ pc[r] = "vote"
  /\ Complete(r)
  /\ state' = [state EXCEPT ![r] = "armed"]
  /\ pc' = [pc EXCEPT ![r] = "ready"]
  /\ UNCHANGED <<probes, pointer, freed, joined, gathered, layer, device>>

\* Every rank has its allocation.
Armed(r) ==
  /\ pc[r] = "vote"
  /\ Complete(r) /\ MinOK(r)
  /\ state' = [state EXCEPT ![r] = "armed"]
  /\ pc' = [pc EXCEPT ![r] = "ready"]
  /\ UNCHANGED <<probes, pointer, freed, joined, gathered, layer, device>>

\* The vote failed, or the reduction itself raised (at any time: a peer is
\* gone, the watchdog fired): free, mark dead, raise.
ArmFailed(r) ==
  /\ pc[r] = "vote"
  /\ FreeLocal(r)
  /\ state' = [state EXCEPT ![r] = "dead"]
  /\ Raise(r)
  /\ UNCHANGED <<probes, joined, gathered, layer, device>>

-----------------------------------------------------------------------------
(* The device, which runs the first packed layer's work behind the host's  *)
(* back.  An exception of the host does not stop what it has enqueued.     *)

Advance(r, from, to) ==
  /\ device[r] = from
  /\ device' = [device EXCEPT ![r] = to]
  /\ UNCHANGED <<probes, pc, state, pointer, freed, joined, gathered, layer>>

\* The stream reaches the first CKV gather.
StartGather(r) == gathered[r] >= 1 /\ Advance(r, "idle", "gathering")

\* NCCL: the gather completes when it runs on every rank.
FinishGather(r) ==
  (\A s \in Ranks : device[s] # "idle") /\ Advance(r, "gathering", "gathered")

\* The attention and the projection of the layer are over.
RunAttention(r) == Advance(r, "gathered", "attended")

-----------------------------------------------------------------------------
(* A packed-CKV layer: entry, gather and attention, release.               *)

\* layer_entry, in a state that lets the layer run.
EnterLayer(r) ==
  /\ pc[r] = "ready"
  /\ layer[r] < MaxLayers
  /\ state[r] \in {"armed", "complete"}
  /\ pc' = [pc EXCEPT ![r] = "body"]
  /\ UNCHANGED <<probes, state, pointer, freed, joined, gathered, layer, device>>

\* layer_entry after Probe A: the rank reads its free memory and joins Probe B.
\* (Between the layers TP and MoE transients have taken what they take.)
EnterProbeB(r) ==
  /\ pc[r] = "ready"
  /\ layer[r] < MaxLayers
  /\ state[r] = "probe_a"
  /\ \E enough \in {0, 1} : Join(r, "B", enough)
  /\ pc' = [pc EXCEPT ![r] = "probeB"]
  /\ UNCHANGED <<probes, state, pointer, freed, gathered, layer, device>>

\* layer_entry raises in every other state, mem_get_info may raise in Probe B,
\* and dcp_packed_ckv_forward may refuse the call before it gathers.
LayerRefused(r) ==
  /\ \/ pc[r] = "ready" /\ layer[r] < MaxLayers /\ state[r] \notin {"armed", "complete"}
     \/ pc[r] = "body"
  /\ Raise(r)
  /\ UNCHANGED <<probes, state, pointer, freed, joined, gathered, layer, device>>

\* Pack, enqueue the gathers, attention and projection.
Attend(r) ==
  /\ pc[r] = "body"
  /\ gathered' = [gathered EXCEPT ![r] = @ + 1]
  /\ pc' = [pc EXCEPT ![r] = "tail"]
  /\ UNCHANGED <<probes, state, pointer, freed, joined, layer, device>>

LayerDone(r) ==
  /\ layer' = [layer EXCEPT ![r] = @ + 1]
  /\ pc'    = [pc EXCEPT ![r] = "ready"]

\* release_ckv_headroom_after_first_attention outside "armed": nothing to do.
NoRelease(r) ==
  /\ pc[r] = "tail"
  /\ state[r] # "armed"
  /\ LayerDone(r)
  /\ UNCHANGED <<probes, state, pointer, freed, joined, gathered, device>>

\* Faulty variant: the escrow is freed without synchronizing the device.
NotSynchronized(r) == gathered[r] >= 1

\* torch.cuda.synchronize returns: the device has run all that is enqueued,
\* which in state "armed" is the first packed layer.
Synchronized(r) == device[r] = "attended"

\* Synchronize the device, then free.
Release(r) ==
  /\ pc[r] = "tail"
  /\ state[r] = "armed" /\ pointer[r]
  /\ Synchronized(r)
  /\ FreeLocal(r)
  /\ pc' = [pc EXCEPT ![r] = "released"]
  /\ UNCHANGED <<probes, state, joined, gathered, layer, device>>

\* The synchronize or the free raises.
ReleaseFailed(r) ==
  /\ pc[r] = "tail"
  /\ state[r] = "armed"
  /\ Raise(r)
  /\ UNCHANGED <<probes, state, pointer, freed, joined, gathered, layer, device>>

-----------------------------------------------------------------------------
(* Probes.                                                                 *)

\* Faulty variant: a rank skips Probe A but still takes Probe B.
UnprobedHalf(r) ==
  /\ pc[r] = "released"
  /\ state' = [state EXCEPT ![r] = IF probes THEN "probe_a" ELSE "complete"]
  /\ LayerDone(r)
  /\ UNCHANGED <<probes, pointer, freed, joined, gathered, device>>

\* With probes off, one mem_get_info for the log ends the release.
Unprobed(r) ==
  /\ pc[r] = "released"
  /\ ~probes
  /\ state' = [state EXCEPT ![r] = "complete"]
  /\ LayerDone(r)
  /\ UNCHANGED <<probes, pointer, freed, joined, gathered, device>>

StartProbeA(r) ==
  /\ pc[r] = "released"
  /\ probes
  /\ \E enough \in {0, 1} : Join(r, "A", enough)
  /\ pc' = [pc EXCEPT ![r] = "probeA"]
  /\ UNCHANGED <<probes, state, pointer, freed, gathered, layer, device>>

PassProbeA(r) ==
  /\ pc[r] = "probeA"
  /\ Complete(r) /\ MinOK(r)
  /\ state' = [state EXCEPT ![r] = "probe_a"]
  /\ LayerDone(r)
  /\ UNCHANGED <<probes, pointer, freed, joined, gathered, device>>

PassProbeB(r) ==
  /\ pc[r] = "probeB"
  /\ Complete(r) /\ MinOK(r)
  /\ state' = [state EXCEPT ![r] = "complete"]
  /\ pc' = [pc EXCEPT ![r] = "body"]
  /\ UNCHANGED <<probes, pointer, freed, joined, gathered, layer, device>>

\* The group minimum is below the gate.
FailProbe(r) ==
  /\ pc[r] \in {"probeA", "probeB"}
  /\ Complete(r) /\ ~MinOK(r)
  /\ state' = [state EXCEPT ![r] = "dead"]
  /\ Raise(r)
  /\ UNCHANGED <<probes, pointer, freed, joined, gathered, layer, device>>

\* mem_get_info or the reduction raises: nothing records it in the state.
ProbeRaises(r) ==
  /\ pc[r] \in {"released", "probeA", "probeB"}
  /\ Raise(r)
  /\ UNCHANGED <<probes, state, pointer, freed, joined, gathered, layer, device>>

-----------------------------------------------------------------------------
Step(r) ==
  \/ ArmRefused(r) \/ Allocate(r) \/ Armed(r) \/ ArmFailed(r)
  \/ EnterLayer(r) \/ EnterProbeB(r) \/ LayerRefused(r) \/ Attend(r)
  \/ NoRelease(r) \/ Release(r) \/ ReleaseFailed(r)
  \/ Unprobed(r) \/ StartProbeA(r) \/ PassProbeA(r) \/ PassProbeB(r)
  \/ FailProbe(r) \/ ProbeRaises(r)
  \/ StartGather(r) \/ FinishGather(r) \/ RunAttention(r)

\* Every rank has raised or has no further layer to run.
Stopped ==
  /\ \A r \in Ranks : pc[r] = "raised" \/ (pc[r] = "ready" /\ layer[r] = MaxLayers)
  /\ UNCHANGED vars

Next == (\E r \in Ranks : Step(r)) \/ Stopped

Spec == Init /\ [][Next]_vars

-----------------------------------------------------------------------------
(* Properties.                                                             *)

\* Until its first packed attention is over, a rank that was armed runs no
\* packed layer without the allocation ("retain the pointer while ... the
\* first NCCL CKV gathers, the sparse-attention plan, and projection execute").
EscrowHeld ==
  \A r \in Ranks :
    state[r] = "armed" /\ pc[r] \in {"ready", "body", "tail"} => pointer[r] /\ freed[r] = 0

\* Freed exactly once: never while another copy of the pointer stays, always
\* by the time the state says released or dead.
FreedOnce ==
  \A r \in Ranks :
    /\ pointer[r] => freed[r] = 0
    /\ state[r] \in {"probe_a", "complete", "dead"} => ~pointer[r]
    /\ state[r] \in {"probe_a", "complete"} => freed[r] = 1

\* No rank gets past the arm unless every rank has made its allocation ("fail
\* startup on every rank if any rank cannot hold it").
GroupArmed ==
  \A r, s \in Ranks :
    state[r] \in {"armed", "probe_a", "complete"} =>
      Len(joined[s]) >= 1 /\ joined[s][1] = Entry("vote", 1)

\* The reductions two ranks have issued are, in order, the same ones: a free-
\* memory value is never compared with a vote or with the other probe.
ReductionsMatch ==
  \A r, s \in Ranks : \A i \in 1..Len(joined[r]) :
    i <= Len(joined[s]) => joined[r][i].tag = joined[s][i].tag

\* With probes on, serving goes on only if every rank was above the gate in
\* both probes.
GateHonoured ==
  \A r, s \in Ranks :
    probes /\ state[r] = "complete" =>
      /\ Len(joined[s]) >= 3
      /\ joined[s][2] = Entry("A", 1) /\ joined[s][3] = Entry("B", 1)

\* The verdict of a probe is the group's: when it kills one rank, no rank has
\* passed that probe.
Passed(s) == CASE state[s] = "complete" -> IF probes THEN 3 ELSE 1
               [] state[s] = "probe_a"  -> 2
               [] state[s] = "armed"    -> 1
               [] OTHER -> 0
UnanimousVerdict ==
  \A r, s \in Ranks :
    state[r] = "dead" /\ Len(joined[r]) >= 2 => Passed(s) < Len(joined[r])

\* The memory goes back only when nothing of the first layer can need it: on
\* the rank itself the gather, attention and projection have run on the device,
\* not merely been enqueued; on every peer the gather has started, so NCCL has
\* its buffers; and Probe A, whose minimum is the group's, passes nobody while
\* some device is still in its first layer.
ReleasedAfterAttention ==
  \A r, s \in Ranks :
    /\ gathered[r] >= 1 /\ device[r] # "attended" => pointer[r] /\ freed[r] = 0
    /\ gathered[r] >= 1 /\ freed[r] = 1 => device[s] # "idle"
    /\ Passed(r) >= 2 => device[s] = "attended"
=============================================================================
