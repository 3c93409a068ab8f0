---------------------------- MODULE HybridExperts ----------------------------
(***************************************************************************)
(* The host side of the mixture-of-experts layers on one rank: weights in  *)
(* two tiers, "a" (NVFP4, kept) and "b" (NF3, demoted), prepared layer by  *)
(* layer, and a runtime shared by all layers that the first call of each   *)
(* layer plans: launches, buffers, the one-grid launch and its mapped      *)
(* variant.  Each of these may fail.  A failure to plan launches or        *)
(* buffers raises and the next call plans again; the others demote to the  *)
(* path below.  Captured calls are replayed, on the addresses they had.    *)
(*                                                                         *)
(* As deployed: both tiers, all direct paths enabled, no debugging and no  *)
(* profiling.  An allocation is a number, 0 for none.                      *)
(***************************************************************************)
EXTENDS Integers

CONSTANTS
  Layers,
  Kinds,     \* the kinds the layers may have: functions from Layers to "mixed"
             \* (64 + 192 experts), "odd" (another mix) and "uniform" (tier a)
  Sizes,     \* tokens of a call
  Planned,   \* HYBRID_B12X_MAX_TOKENS
  MaxCalls   \* bound of the model: calls of one behaviour

DecodeM == 4  \* the tokens direct launches are selected for
DirectM == 8  \* the tokens they are compiled for

ASSUME HybridAssumption ==
  /\ Layers # {}
  /\ Kinds \subseteq [Layers -> {"mixed", "odd", "uniform"}]
  /\ Sizes \subseteq Nat \ {0} /\ Planned \in Nat /\ Planned >= DirectM
  /\ MaxCalls \in Nat

VARIABLES
  kind,       \* the checkpoint's bit map, by layer
  built,      \* by layer: "loaded", "b12x" or "triton"
  original,   \* by layer: tiers whose checkpoint tensors are still there
  tierMap,    \* by layer: whether its combined tier map was made
  maxM,       \* max_m, 0 before the first call
  launches,   \* shared: the decode launch by key, "direct" or "packed"
  serial,     \* shared: the packed buffers and the tiers' outputs
  oneGrid,    \* shared: whether the launch is there, its scratch, its workspace
  oneGridFailed, mapped, mappedFailed,   \* shared
  output,     \* by layer: its own one-grid output, 0 without resources
  mapArmed,   \* by layer: whether the mapped launch was armed for it
  ready,      \* by layer: _rt_ready
  call, pc,   \* the call and where it is
  fault,      \* whether something has failed in this call
  result,     \* the tiers in the output of the call
  captured,   \* the captured launches: the allocations each uses
  allocs, calls

modelVars   == <<kind, built, original, tierMap>>
sharedVars  == <<maxM, launches, serial, oneGrid, oneGridFailed, mapped, mappedFailed>>
layerVars   == <<output, mapArmed, ready>>
vars == <<modelVars, sharedVars, layerVars, call, pc, fault, result, captured,
          allocs, calls>>

Places == {"idle", "launchA", "launchB", "buffers", "oneGrid", "mapped", "run",
           "returned", "raised"}

TypeOK ==
  /\ kind \in Kinds
  /\ built \in [Layers -> {"loaded", "b12x", "triton"}]
  /\ original \in [Layers -> SUBSET {"a", "b"}]
  /\ tierMap \in [Layers -> BOOLEAN]
  /\ maxM \in Nat
  /\ serial \in [buffers : Nat, outputs : Nat]
  /\ oneGrid \in [published : BOOLEAN, scratch : Nat, workspace : Nat]
  /\ oneGridFailed \in BOOLEAN /\ mapped \in BOOLEAN /\ mappedFailed \in BOOLEAN
  /\ output \in [Layers -> Nat]
  /\ mapArmed \in [Layers -> BOOLEAN]
  /\ ready \in [Layers -> BOOLEAN]
  /\ call \in [layer : Layers, m : Nat, capturing : BOOLEAN]
  /\ pc \in Places
  /\ fault \in BOOLEAN
  /\ result \subseteq {"a", "b"}
  /\ captured \subseteq SUBSET Nat
  /\ allocs \in Nat /\ calls \in Nat

TiersOf(l) == IF kind[l] = "uniform" THEN {"a"} ELSE {"a", "b"}
NoCall == [layer |-> CHOOSE l \in Layers : TRUE, m |-> 0, capturing |-> FALSE]

Init ==
  /\ kind \in Kinds
  /\ built = [l \in Layers |-> "loaded"]
  /\ original = [l \in Layers |-> TiersOf(l)]
  /\ tierMap = [l \in Layers |-> FALSE]
  /\ maxM = 0
  /\ launches = <<>>
  /\ serial = [buffers |-> 0, outputs |-> 0]
  /\ oneGrid = [published |-> FALSE, scratch |-> 0, workspace |-> 0]
  /\ oneGridFailed = FALSE /\ mapped = FALSE /\ mappedFailed = FALSE
  /\ output = [l \in Layers |-> 0]
  /\ mapArmed = [l \in Layers |-> FALSE]
  /\ ready = [l \in Layers |-> FALSE]
  /\ call = NoCall /\ pc = "idle" /\ fault = FALSE
  /\ result = {} /\ captured = {}
  /\ allocs = 0 /\ calls = 0

-----------------------------------------------------------------------------
\* Loading.  Either tier may fail to repack: the originals are freed after both
\* have been, and otherwise the layer falls back to kernels that read them.
Build(l, ok) ==
  /\ built[l] = "loaded"
  /\ built' = [built EXCEPT ![l] = IF ok THEN "b12x" ELSE "triton"]
  /\ original' = [original EXCEPT ![l] = IF ok THEN {} ELSE @]
  /\ \E made \in BOOLEAN :
       /\ made => kind[l] = "mixed"
       /\ tierMap' = [tierMap EXCEPT ![l] = made]
  /\ UNCHANGED <<kind, sharedVars, layerVars, call, pc, fault, result, captured,
                 allocs, calls>>

-----------------------------------------------------------------------------
\* Planning: the first call of a layer, and every one until it has succeeded.

\* Launches are shared by layers of the same experts and weight layout.
Key(l, t) == <<kind[l], t>>

\* A direct launch is compiled only for layers with an NF3 tier.
DecodeLaunches(l) == IF kind[l] = "uniform" THEN {"packed"} ELSE {"direct", "packed"}

With(table, key, launch) ==
  [k \in DOMAIN table \union {key} |-> IF k \in DOMAIN table THEN table[k] ELSE launch]

\* The launch of a tier is compiled unless some layer has it.  A packed launch
\* that does not compile raises; a direct one that does not is left out.
PlanLaunch(t, at, next) ==
  LET l == call.layer
  IN /\ pc = at
     /\ \/ /\ t \notin TiersOf(l) \/ Key(l, t) \in DOMAIN launches
           /\ pc' = next
           /\ UNCHANGED <<launches, fault>>
        \/ /\ t \in TiersOf(l) /\ Key(l, t) \notin DOMAIN launches
           /\ \E dec \in DecodeLaunches(l) : launches' = With(launches, Key(l, t), dec)
           /\ pc' = next
           /\ UNCHANGED fault
        \/ /\ t \in TiersOf(l) /\ Key(l, t) \notin DOMAIN launches
           /\ pc' = "raised" /\ fault' = TRUE
           /\ UNCHANGED launches
     /\ UNCHANGED <<modelVars, maxM, serial, oneGrid, oneGridFailed, mapped,
                    mappedFailed, layerVars, call, result, captured, allocs, calls>>

\* Faulty variant: the buffers are published before the second output exists.
SerialAfterEarly(ok, new) == [buffers |-> new, outputs |-> IF ok THEN new ELSE 0]

\* What is published when the allocations have succeeded, and when one has not.
SerialAfter(ok, new) == IF ok THEN [buffers |-> new, outputs |-> new] ELSE serial

\* Faulty variant: every layer allocates the shared buffers.
NeedsBuffersAlways(l) == TRUE

NeedsBuffers(l) == serial.buffers = 0

PlanBuffers ==
  /\ pc = "buffers"
  /\ \/ /\ ~NeedsBuffers(call.layer)
        /\ pc' = "oneGrid"
        /\ UNCHANGED <<serial, fault, allocs>>
     \/ /\ NeedsBuffers(call.layer)
        /\ serial' = SerialAfter(TRUE, allocs + 1) /\ allocs' = allocs + 1
        /\ pc' = "oneGrid"
        /\ UNCHANGED fault
     \/ /\ NeedsBuffers(call.layer)
        /\ serial' = SerialAfter(FALSE, allocs + 1) /\ allocs' = allocs + 1
        /\ pc' = "raised" /\ fault' = TRUE
  /\ UNCHANGED <<modelVars, maxM, launches, oneGrid, oneGridFailed, mapped,
                 mappedFailed, layerVars, call, result, captured, calls>>

\* What layers share of the one-grid path: the launch is compiled once, borrows
\* its scratch from the serial buffers and has a workspace of its own.
SharedGrid(new) ==
  IF oneGrid.published THEN oneGrid
  ELSE [published |-> TRUE, scratch |-> serial.buffers, workspace |-> new]

WantsOneGrid(l) == kind[l] # "uniform" /\ output[l] = 0 /\ ~oneGridFailed

\* Each layer has its own output, and nothing is published unless all of it is
\* there.
PublishOneGrid(l) ==
  /\ WantsOneGrid(l) /\ kind[l] = "mixed" /\ ~call.capturing
  /\ oneGrid' = SharedGrid(allocs + 1)
  /\ output' = [output EXCEPT ![l] = allocs + 1]
  /\ allocs' = allocs + 1
  /\ UNCHANGED oneGridFailed

\* One failure, another mix or a capture disables the path for all layers.
DemoteOneGrid(l) ==
  /\ WantsOneGrid(l)
  /\ oneGridFailed' = TRUE
  /\ UNCHANGED <<oneGrid, output, allocs>>

\* The handler reads the first line of the exception's message.  If the message
\* is empty the handler raises in turn, before it has disabled anything.
EscapeOneGrid(l) ==
  /\ WantsOneGrid(l) /\ kind[l] = "mixed" /\ ~call.capturing
  /\ UNCHANGED <<oneGrid, oneGridFailed, output, allocs>>

PlanOneGrid ==
  /\ pc = "oneGrid"
  /\ \/ /\ \/ PublishOneGrid(call.layer) \/ DemoteOneGrid(call.layer)
           \/ ~WantsOneGrid(call.layer) /\ UNCHANGED <<oneGrid, oneGridFailed, output, allocs>>
        /\ pc' = "mapped"
        /\ UNCHANGED fault
     \/ /\ EscapeOneGrid(call.layer)
        /\ pc' = "raised" /\ fault' = TRUE
  /\ UNCHANGED <<modelVars, maxM, launches, serial, mapped, mappedFailed,
                 mapArmed, ready, call, result, captured, calls>>

\* The mapped launch takes global ids and everything else from the one-grid
\* resources; a failure disables it alone, for all layers.
MayMap(l) == output[l] # 0 /\ tierMap[l] /\ ~mappedFailed

ArmMapped(l) ==
  /\ MayMap(l)
  /\ mapped' = TRUE /\ mapArmed' = [mapArmed EXCEPT ![l] = TRUE]
  /\ UNCHANGED mappedFailed

DemoteMapped(l) ==
  /\ MayMap(l)
  /\ mappedFailed' = TRUE
  /\ UNCHANGED <<mapped, mapArmed>>

PlanMapped ==
  /\ pc = "mapped"
  /\ \/ ArmMapped(call.layer) \/ DemoteMapped(call.layer)
     \/ ~MayMap(call.layer) /\ UNCHANGED <<mapped, mappedFailed, mapArmed>>
  /\ ready' = [ready EXCEPT ![call.layer] = TRUE]
  /\ pc' = "run"
  /\ UNCHANGED <<modelVars, maxM, launches, serial, oneGrid, oneGridFailed,
                 output, call, fault, result, captured, allocs, calls>>

-----------------------------------------------------------------------------
\* A call: planned if the layer is not ready, then launched.
Apply(l, m, capturing) ==
  /\ pc \in {"idle", "returned", "raised"} /\ calls < MaxCalls
  /\ \A x \in Layers : built[x] # "loaded"
  /\ call' = [layer |-> l, m |-> m, capturing |-> capturing]
  /\ fault' = FALSE /\ calls' = calls + 1
  /\ \/ /\ built[l] = "triton"
        /\ result' = original[l] /\ pc' = "returned"
        /\ UNCHANGED maxM
     \/ /\ built[l] = "b12x"
        /\ pc' = IF ready[l] THEN "run" ELSE "launchA"
        /\ maxM' = IF maxM # 0 THEN maxM ELSE IF m > Planned THEN m ELSE Planned
        /\ result' = {}
  /\ UNCHANGED <<modelVars, launches, serial, oneGrid, oneGridFailed, mapped,
                 mappedFailed, layerVars, captured, allocs>>

\* Faulty variant: the direct launch is taken for every size.
UsesDirectAlways(l, t) == launches[Key(l, t)] = "direct"

\* Direct launches are for exactly the tokens of a decode step.
UsesDirect(l, t) == call.m = DecodeM /\ launches[Key(l, t)] = "direct"

\* A tier's launch covers the call's tokens, direct or packed.
Covers(l, t) == call.m <= (IF UsesDirect(l, t) THEN DirectM ELSE maxM)

TooLarge ==
  /\ pc = "run" /\ call.m > maxM
  /\ pc' = "raised"
  /\ UNCHANGED <<modelVars, sharedVars, layerVars, call, fault, result, captured,
                 allocs, calls>>

Returns(tiers, uses) ==
  /\ result' = tiers
  /\ captured' = IF call.capturing THEN captured \union {uses} ELSE captured
  /\ pc' = "returned"
  /\ UNCHANGED <<modelVars, maxM, launches, serial, oneGrid, oneGridFailed, mapped,
                 layerVars, call, calls, allocs>>

\* One grid only in captured decode steps, and only with the layer's resources.
TakesOneGrid ==
  /\ call.capturing /\ call.m = DecodeM
  /\ kind[call.layer] = "mixed"
  /\ oneGrid.published /\ ~oneGridFailed /\ output[call.layer] # 0

TakesMapped == TakesOneGrid /\ mapped /\ ~mappedFailed /\ mapArmed[call.layer]

OneGridUses == {oneGrid.scratch, oneGrid.workspace, output[call.layer]}

\* The mapped launch, if the ids are compact, and if that raises the one-grid
\* launch in the same call, which then overwrites the output.
RunOneGrid ==
  /\ pc = "run" /\ call.m <= maxM /\ TakesOneGrid
  /\ \/ UNCHANGED <<mappedFailed, fault>>
     \/ TakesMapped /\ mappedFailed' = TRUE /\ UNCHANGED fault
  /\ Returns({"a", "b"}, OneGridUses)

\* The one-grid launch itself has nothing to fall back to.
OneGridRaises ==
  /\ pc = "run" /\ call.m <= maxM /\ TakesOneGrid
  /\ fault' = TRUE /\ pc' = "raised"
  /\ \/ UNCHANGED mappedFailed
     \/ TakesMapped /\ mappedFailed' = TRUE
  /\ UNCHANGED <<modelVars, maxM, launches, serial, oneGrid, oneGridFailed, mapped,
                 layerVars, call, result, captured, allocs, calls>>

HasBuffers ==
  serial.buffers # 0 /\ (kind[call.layer] = "uniform" \/ serial.outputs # 0)

\* One tier after the other on the shared buffers, each into its own output;
\* what is returned is a new tensor.
RunSerial ==
  /\ pc = "run" /\ call.m <= maxM /\ ~TakesOneGrid /\ HasBuffers
  /\ Returns({t \in TiersOf(call.layer) : Covers(call.layer, t)}, {serial.buffers})
  /\ UNCHANGED <<mappedFailed, fault>>

\* A launch fails, or finds a buffer that was never published.
SerialRaises ==
  /\ pc = "run" /\ call.m <= maxM /\ ~TakesOneGrid
  /\ pc' = "raised"
  /\ \/ HasBuffers /\ fault' = TRUE
     \/ ~HasBuffers /\ UNCHANGED fault
  /\ UNCHANGED <<modelVars, sharedVars, layerVars, call, result, captured,
                 allocs, calls>>

Finished == pc \in {"idle", "returned", "raised"} /\ calls = MaxCalls /\ UNCHANGED vars

Next ==
  \/ \E l \in Layers, ok \in BOOLEAN : Build(l, ok)
  \/ \E l \in Layers, m \in Sizes, capturing \in BOOLEAN : Apply(l, m, capturing)
  \/ PlanLaunch("a", "launchA", "launchB") \/ PlanLaunch("b", "launchB", "buffers")
  \/ PlanBuffers \/ PlanOneGrid \/ PlanMapped
  \/ TooLarge \/ RunOneGrid \/ OneGridRaises \/ RunSerial \/ SerialRaises
  \/ Finished

Spec == Init /\ [][Next]_vars

-----------------------------------------------------------------------------
\* A call that returns has each of its layer's tiers in its output, whatever has
\* failed to build, compile, allocate or launch in this call and before, in
\* this layer and in others.
OutputExact == pc = "returned" => result = TiersOf(call.layer)

\* What a captured launch uses is still owned by the runtime or its layer when
\* the graph is replayed, however many calls have planned since.  (One-grid
\* scratch is part of the serial buffers.)
Owned == {serial.buffers, oneGrid.workspace} \union {output[l] : l \in Layers}
GraphsIntact == \A uses \in captured : uses \subseteq Owned

\* A call raises only because something failed in it or because it is larger
\* than what the first call has planned: an earlier failure leaves no shared
\* state behind that a retry, or another layer, stumbles over.
RetryIsClean == pc = "raised" => fault \/ call.m > maxM
=============================================================================
