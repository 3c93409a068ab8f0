---------------------------- MODULE ExpertProofs ----------------------------
(***************************************************************************)
(* Proofs about the mixture of experts: the barrier of the fused kernel    *)
(* (GridBarrier), for every MaxGrid, every sequence of launches and every  *)
(* grid size of each; the host runtime (HybridExperts), for every set of   *)
(* layers of all kinds, all sizes of calls and any number of them; and     *)
(* calls of the fused kernel (MoeCall): its packed routes (RoutePack), its *)
(* split of the work and its workspace (FusedMoe) and what a call returns, *)
(* for every routing, tier map, tile shape, grid size and number of calls. *)
(***************************************************************************)
EXTENDS MoeCall, HybridExperts, FiniteSetTheorems, WellFoundedInduction, TLAPS

USE GridAssumption, HybridAssumption

-----------------------------------------------------------------------------
(* The barrier.  BarrierInv is inductive relative to the type invariant.   *)

Released == \E d \in Running : bar[d] = "release"

\* A CTA carries the sense of its last barrier: the current one, or, left
\* spinning by a barrier that has been released, the one before it.
InStep(c) ==
  IF bar[c] = "spin" THEN old[c] = passed[c] /\ passed[c] \in {sense - 1, sense}
  ELSE passed[c] = sense /\ (bar[c] # "out" => old[c] = sense)

\* Once the last arrival is known, everybody else spins in its barrier.
AllWait(c) ==
  bar[c] \in {"reset", "release"} =>
    \A d \in Running \ {c} : bar[d] = "spin" /\ old[d] = sense

BarrierInv ==
  /\ \A c \in CTAs \ Running : bar[c] = "out"
  /\ \A c \in Running : InStep(c) /\ AllWait(c)
  /\ CounterIsWaiters

-----------------------------------------------------------------------------
LEMMA RunningFinite ==
  ASSUME BarrierTypeOK
  PROVE  /\ Running \subseteq CTAs /\ grid \in Nat
         /\ IsFiniteSet(Running) /\ Cardinality(Running) = grid
         /\ Waiters \subseteq Running /\ IsFiniteSet(Waiters)
<1>1. grid \in 1..MaxGrid /\ MaxGrid \in Nat /\ grid \in Nat
  BY DEF BarrierTypeOK
<1>2. Running \subseteq CTAs
  BY <1>1 DEF Running, CTAs
<1>3. IsFiniteSet(Running) /\ Cardinality(Running) = grid
  BY <1>1, FS_Interval, 0 \in Int, grid - 1 \in Int DEF Running
<1>4. Waiters \subseteq Running
  BY DEF Waiters
<1> QED BY <1>1, <1>2, <1>3, <1>4, FS_Subset

LEMMA BarrierTypeInit == BarrierInit => BarrierTypeOK
  BY DEF BarrierInit, BarrierTypeOK, BarrierPlaces

LEMMA BarrierTypeStep == BarrierTypeOK /\ [BarrierNext]_barrierVars => BarrierTypeOK'
<1> SUFFICES ASSUME BarrierTypeOK, [BarrierNext]_barrierVars
             PROVE  BarrierTypeOK'
  OBVIOUS
<1> USE DEF BarrierTypeOK, BarrierPlaces
<1>1. ASSUME NEW c \in Running, ReadSense(c) PROVE BarrierTypeOK'
  BY <1>1 DEF ReadSense
<1>2. ASSUME NEW c \in Running, Arrive(c) PROVE BarrierTypeOK'
  <2>1. bar' \in [CTAs -> BarrierPlaces]
    <3>1. CASE count = grid - 1
      BY <1>2, <3>1 DEF Arrive
    <3>2. CASE count # grid - 1
      BY <1>2, <3>2 DEF Arrive
    <3> QED BY <3>1, <3>2
  <2> QED BY <1>2, <2>1 DEF Arrive
<1>3. ASSUME NEW c \in Running, ResetCount(c) PROVE BarrierTypeOK'
  BY <1>3 DEF ResetCount
<1>4. ASSUME NEW c \in Running, ReleaseAll(c) PROVE BarrierTypeOK'
  <2>1. sense + 1 \in Nat
    OBVIOUS
  <2>2. passed' \in [CTAs -> Nat]
    BY <1>4, <2>1 DEF ReleaseAll
  <2>3. bar' \in [CTAs -> BarrierPlaces]
    BY <1>4 DEF ReleaseAll
  <2> QED BY <1>4, <2>1, <2>2, <2>3 DEF ReleaseAll
<1>5. ASSUME NEW c \in Running, SpinOut(c) PROVE BarrierTypeOK'
  BY <1>5 DEF SpinOut
<1>6. ASSUME NEW g \in 1..MaxGrid, Relaunch(g) PROVE BarrierTypeOK'
  BY <1>6 DEF Relaunch
<1>7. CASE UNCHANGED barrierVars
  BY <1>7 DEF barrierVars
<1> QED BY <1>1, <1>2, <1>3, <1>4, <1>5, <1>6, <1>7 DEF BarrierNext, BarrierStep

\* The barrier words and the CTAs' registers keep their types, however many
\* launches there are.
THEOREM BarrierTypeCorrect == BarrierSpec => []BarrierTypeOK
  BY BarrierTypeInit, BarrierTypeStep, PTL DEF BarrierSpec

-----------------------------------------------------------------------------
(* The inductive invariant.                                                *)

LEMMA BarrierInvInit == BarrierInit => BarrierInv
<1> SUFFICES ASSUME BarrierInit PROVE BarrierInv
  OBVIOUS
<1>1. Running \subseteq CTAs
  BY DEF BarrierInit, Running, CTAs
<1>2. Waiters = {} /\ Cardinality({}) = 0
  BY <1>1, FS_EmptySet DEF BarrierInit, Waiters
<1>3. CounterIsWaiters
  BY <1>1, <1>2 DEF BarrierInit, CounterIsWaiters
<1> QED BY <1>1, <1>3 DEF BarrierInit, BarrierInv, InStep, AllWait

LEMMA ReadSenseInv ==
  ASSUME BarrierTypeOK, BarrierInv, NEW c \in Running, ReadSense(c)
  PROVE  BarrierInv'
<1>1. c \in CTAs /\ Running' = Running
  BY RunningFinite DEF ReadSense, Running
<1>2. Waiters' = Waiters /\ Released' = Released
  BY <1>1 DEF ReadSense, Waiters, Released, BarrierTypeOK
<1>3. CounterIsWaiters'
  BY <1>2 DEF ReadSense, CounterIsWaiters, Released, BarrierInv
<1>4. \A d \in Running : InStep(d)'
  BY <1>1 DEF ReadSense, InStep, BarrierInv, BarrierTypeOK
<1>5. \A d \in Running : AllWait(d)'
  BY <1>1 DEF ReadSense, AllWait, BarrierInv, BarrierTypeOK
<1>6. \A d \in CTAs \ Running : bar'[d] = "out"
  BY <1>1 DEF ReadSense, BarrierInv, BarrierTypeOK
<1> QED BY <1>1, <1>3, <1>4, <1>5, <1>6 DEF BarrierInv

LEMMA ArriveInv ==
  ASSUME BarrierTypeOK, BarrierInv, NEW c \in Running, Arrive(c)
  PROVE  BarrierInv'
<1>1. c \in CTAs /\ Running' = Running /\ c \notin Waiters
  BY RunningFinite DEF Arrive, Running, Waiters
<1>2. ~Released /\ ~Released'
  BY <1>1 DEF Arrive, BarrierInv, AllWait, Released, BarrierTypeOK
<1>3. old[c] = sense /\ passed[c] = sense
  BY DEF Arrive, BarrierInv, InStep
<1>4. Waiters' = Waiters \union {c}
  BY <1>1, <1>3 DEF Arrive, Waiters, BarrierTypeOK
<1>5. count = Cardinality(Waiters) /\ Cardinality(Waiters') = count + 1
  BY <1>1, <1>2, <1>4, RunningFinite, FS_AddElement
     DEF BarrierInv, CounterIsWaiters, Released
<1>6. CounterIsWaiters'
  BY <1>2, <1>5 DEF Arrive, CounterIsWaiters, Released
<1>7. ASSUME count = grid - 1
      PROVE  \A d \in Running \ {c} : bar[d] = "spin" /\ old[d] = sense
  <2>1. Waiters' = Running
    BY <1>1, <1>4, <1>5, <1>7, RunningFinite, FS_Subset
  <2>2. \A d \in Running \ {c} : d \in Waiters
    BY <2>1, <1>4
  <2>3. \A d \in Running : bar[d] # "reset"
    BY <1>1 DEF Arrive, BarrierInv, AllWait
  <2> QED BY <2>2, <2>3 DEF Waiters
<1>8. \A d \in Running : AllWait(d)'
  <2> SUFFICES ASSUME NEW d \in Running, bar'[d] \in {"reset", "release"},
                      NEW e \in Running \ {d}
               PROVE  bar'[e] = "spin" /\ old'[e] = sense'
    BY <1>1 DEF AllWait
  <2>1. d = c
    BY <1>1 DEF Arrive, BarrierInv, AllWait, BarrierTypeOK
  <2>2. count = grid - 1
    BY <2>1, <1>1 DEF Arrive, BarrierTypeOK
  <2> QED BY <1>1, <1>7, <2>1, <2>2 DEF Arrive, BarrierTypeOK
<1>9. \A d \in Running : InStep(d)'
  BY <1>1, <1>3 DEF Arrive, InStep, BarrierInv, BarrierTypeOK
<1>10. \A d \in CTAs \ Running : bar'[d] = "out"
  BY <1>1 DEF Arrive, BarrierInv, BarrierTypeOK
<1> QED BY <1>1, <1>6, <1>8, <1>9, <1>10 DEF BarrierInv

LEMMA ResetCountInv ==
  ASSUME BarrierTypeOK, BarrierInv, NEW c \in Running, ResetCount(c)
  PROVE  BarrierInv'
<1>1. c \in CTAs /\ Running' = Running
  BY RunningFinite DEF ResetCount, Running
<1>2. bar'[c] = "release" /\ c \in Running'
  BY <1>1 DEF ResetCount, BarrierTypeOK
<1>3. CounterIsWaiters'
  BY <1>2 DEF ResetCount, CounterIsWaiters
<1>4. \A d \in Running : InStep(d)' /\ AllWait(d)'
  BY <1>1 DEF ResetCount, InStep, AllWait, BarrierInv, BarrierTypeOK
<1>5. \A d \in CTAs \ Running : bar'[d] = "out"
  BY <1>1 DEF ResetCount, BarrierInv, BarrierTypeOK
<1> QED BY <1>1, <1>3, <1>4, <1>5 DEF BarrierInv

LEMMA ReleaseAllInv ==
  ASSUME BarrierTypeOK, BarrierInv, NEW c \in Running, ReleaseAll(c)
  PROVE  BarrierInv'
<1>1. c \in CTAs /\ Running' = Running
  BY RunningFinite DEF ReleaseAll, Running
<1>2. \A d \in Running \ {c} : bar[d] = "spin" /\ old[d] = sense
  BY DEF ReleaseAll, BarrierInv, AllWait
<1>3. count = 0
  BY DEF ReleaseAll, BarrierInv, CounterIsWaiters
<1>4. \A d \in Running : (bar'[d] \in {"out", "spin"} /\ old'[d] # sense') \/ d = c
  BY <1>1, <1>2 DEF ReleaseAll, BarrierTypeOK
<1>5. bar'[c] = "out"
  BY <1>1 DEF ReleaseAll, BarrierTypeOK
<1>6. Waiters' = {} /\ ~Released'
  BY <1>1, <1>2, <1>4, <1>5 DEF Waiters, Released
<1>7. CounterIsWaiters'
  BY <1>3, <1>6, FS_EmptySet DEF ReleaseAll, CounterIsWaiters, Released
<1>8. InStep(c)' /\ AllWait(c)'
  BY <1>1, <1>5 DEF ReleaseAll, InStep, AllWait, BarrierTypeOK
<1>9. ASSUME NEW d \in Running \ {c} PROVE InStep(d)' /\ AllWait(d)'
  <2>1. d \in CTAs /\ bar'[d] = "spin" /\ old'[d] = sense /\ passed'[d] = passed[d]
    BY <1>1, <1>2, RunningFinite DEF ReleaseAll, BarrierTypeOK
  <2>2. passed[d] = sense
    BY <1>2 DEF BarrierInv, InStep
  <2> QED BY <2>1, <2>2 DEF ReleaseAll, InStep, AllWait, BarrierTypeOK
<1>10. \A d \in CTAs \ Running : bar'[d] = "out"
  BY <1>1 DEF ReleaseAll, BarrierInv, BarrierTypeOK
<1> QED BY <1>1, <1>7, <1>8, <1>9, <1>10 DEF BarrierInv

LEMMA SpinOutInv ==
  ASSUME BarrierTypeOK, BarrierInv, NEW c \in Running, SpinOut(c)
  PROVE  BarrierInv'
<1>1. c \in CTAs /\ Running' = Running /\ bar'[c] = "out"
  BY RunningFinite DEF SpinOut, Running, BarrierTypeOK
<1>2. Waiters' = Waiters
  BY <1>1 DEF SpinOut, Waiters, BarrierTypeOK
<1>3. Released' = Released
  BY <1>1 DEF SpinOut, Released, BarrierTypeOK
<1>4. CounterIsWaiters'
  BY <1>2, <1>3 DEF SpinOut, CounterIsWaiters, Released, BarrierInv
\* Nobody is last while c still spins on an older sense.
<1>5. \A d \in Running : bar[d] \notin {"reset", "release"}
  <2> SUFFICES ASSUME NEW d \in Running, bar[d] \in {"reset", "release"}
               PROVE  FALSE
    OBVIOUS
  <2>1. d # c
    BY DEF SpinOut
  <2> QED BY <2>1 DEF SpinOut, BarrierInv, AllWait
<1>6. \A d \in Running : InStep(d)' /\ AllWait(d)'
  BY <1>1, <1>5 DEF SpinOut, InStep, AllWait, BarrierInv, BarrierTypeOK
<1>7. \A d \in CTAs \ Running : bar'[d] = "out"
  BY <1>1 DEF SpinOut, BarrierInv, BarrierTypeOK
<1> QED BY <1>1, <1>4, <1>6, <1>7 DEF BarrierInv

LEMMA RelaunchInv ==
  ASSUME BarrierTypeOK, BarrierInv, NEW g \in 1..MaxGrid, Relaunch(g)
  PROVE  BarrierInv'
<1>1. Running \subseteq CTAs /\ Running' \subseteq CTAs
  BY RunningFinite DEF Relaunch, Running, CTAs
<1>2. \A d \in CTAs : bar[d] = "out"
  BY DEF Relaunch, BarrierInv
<1>3. Waiters = {} /\ Waiters' = {}
  BY <1>1, <1>2 DEF Relaunch, Waiters
<1>4. count = 0
  BY <1>1, <1>2, <1>3, FS_EmptySet DEF BarrierInv, CounterIsWaiters
<1>5. CounterIsWaiters'
  BY <1>3, <1>4, FS_EmptySet DEF Relaunch, CounterIsWaiters
<1>6. \A d \in CTAs : InStep(d)' /\ AllWait(d)'
  BY <1>2 DEF Relaunch, InStep, AllWait
<1> QED BY <1>1, <1>2, <1>5, <1>6 DEF Relaunch, BarrierInv

LEMMA BarrierInvStep ==
  BarrierTypeOK /\ BarrierInv /\ [BarrierNext]_barrierVars => BarrierInv'
<1> SUFFICES ASSUME BarrierTypeOK, BarrierInv, [BarrierNext]_barrierVars
             PROVE  BarrierInv'
  OBVIOUS
<1>1. CASE \E c \in Running : BarrierStep(c)
  BY <1>1, ReadSenseInv, ArriveInv, ResetCountInv, ReleaseAllInv, SpinOutInv
     DEF BarrierStep
<1>2. CASE \E g \in 1..MaxGrid : Relaunch(g)
  BY <1>2, RelaunchInv
<1>3. CASE UNCHANGED barrierVars
  BY <1>3 DEF barrierVars, BarrierInv, InStep, AllWait, CounterIsWaiters,
              Waiters, Running, CTAs
<1> QED BY <1>1, <1>2, <1>3 DEF BarrierNext

\* Everybody who is not spinning carries the current sense; whoever spins
\* carries it or the one before; and the last arrival has everybody waiting.
THEOREM BarrierInvariant == BarrierSpec => []BarrierInv
  BY BarrierTypeInit, BarrierTypeStep, BarrierInvInit, BarrierInvStep, PTL DEF BarrierSpec

LEMMA InvIsSeparating == BarrierTypeOK /\ BarrierInv => BarrierSeparates
<1> SUFFICES ASSUME BarrierTypeOK, BarrierInv,
                    NEW c \in Running, NEW d \in Running, passed[c] > passed[d]
             PROVE  bar[d] = "spin" /\ passed[c] = passed[d] + 1
  BY DEF BarrierSeparates
<1>1. InStep(c) /\ InStep(d) /\ sense \in Nat
  BY DEF BarrierInv, BarrierTypeOK
<1>2. passed[c] \in {sense - 1, sense} /\ passed[d] \in {sense - 1, sense}
  BY <1>1 DEF InStep
<1>3. passed[c] = sense /\ passed[d] = sense - 1
  BY <1>1, <1>2
<1> QED BY <1>1, <1>3 DEF InStep

\* No CTA leaves a barrier before all have entered it, for every grid size,
\* whatever sense and grid the launches before have left (_grid_barrier).
THEOREM BarrierIsSeparating == BarrierSpec => []BarrierSeparates
  BY InvIsSeparating, BarrierTypeCorrect, BarrierInvariant, PTL

\* The counter is 0 whenever a barrier, or a launch of any grid, starts from
\* it with nobody waiting.
THEOREM CounterIsExact == BarrierSpec => []CounterIsWaiters
<1>1. BarrierInv => CounterIsWaiters
  BY DEF BarrierInv
<1> QED BY <1>1, BarrierInvariant, PTL

-----------------------------------------------------------------------------
(* The host runtime.  RuntimeInv says what a failure may leave behind.     *)

\* Buffers and outputs are published together, and before a layer is ready.
SerialWhole ==
  /\ serial.buffers = serial.outputs
  /\ \A l \in Layers : ready[l] => serial.buffers # 0
  /\ pc \in {"oneGrid", "mapped", "run"} => serial.buffers # 0

\* What is published of the one-grid path is all there, its scratch in the
\* buffers that are there.
GridWhole ==
  /\ oneGrid.published => oneGrid.scratch = serial.buffers /\ serial.buffers # 0
  /\ oneGrid.published <=> oneGrid.workspace # 0

\* A layer that is not prepared still has its checkpoint tensors.
OriginalsKept ==
  \A l \in Layers : built[l] # "b12x" => original[l] = TiersOf(l)

\* Captured launches use allocations that have been published.
CapturedOwned == \A uses \in captured : uses \subseteq Owned \ {0}

RuntimeInv ==
  /\ SerialWhole /\ GridWhole /\ OriginalsKept /\ CapturedOwned
  /\ OutputExact /\ RetryIsClean

-----------------------------------------------------------------------------
LEMMA TypeInit == Init => TypeOK
<1> SUFFICES ASSUME Init PROVE TypeOK
  OBVIOUS
<1>1. call \in [layer : Layers, m : Nat, capturing : BOOLEAN]
  BY DEF Init, NoCall
<1>2. original \in [Layers -> SUBSET {"a", "b"}]
  BY DEF Init, TiersOf
<1> QED
  BY <1>1, <1>2 DEF Init, TypeOK, Places

LEMMA TypeStep == TypeOK /\ [Next]_vars => TypeOK'
<1> SUFFICES ASSUME TypeOK, [Next]_vars PROVE TypeOK'
  OBVIOUS
<1> USE DEF TypeOK, Places, modelVars, sharedVars, layerVars
<1>1. ASSUME NEW l \in Layers, NEW ok \in BOOLEAN, Build(l, ok) PROVE TypeOK'
  <2>1. built' \in [Layers -> {"loaded", "b12x", "triton"}]
    BY <1>1 DEF Build
  <2>2. original' \in [Layers -> SUBSET {"a", "b"}]
    BY <1>1 DEF Build
  <2>3. tierMap' \in [Layers -> BOOLEAN]
    BY <1>1 DEF Build
  <2> QED BY <1>1, <2>1, <2>2, <2>3 DEF Build
<1>2. ASSUME NEW l \in Layers, NEW m \in Sizes, NEW capturing \in BOOLEAN,
             Apply(l, m, capturing)
      PROVE  TypeOK'
  <2>1. call' \in [layer : Layers, m : Nat, capturing : BOOLEAN] /\ fault' = FALSE
    BY <1>2 DEF Apply
  <2>2. calls' \in Nat
    BY <1>2 DEF Apply
  <2>3. maxM' \in Nat /\ result' \subseteq {"a", "b"} /\ pc' \in Places
    <3>1. CASE built[l] = "triton"
      BY <1>2, <3>1 DEF Apply
    <3>2. CASE built[l] # "triton"
      BY <1>2, <3>2 DEF Apply
    <3> QED BY <3>1, <3>2
  <2> QED BY <1>2, <2>1, <2>2, <2>3 DEF Apply
<1>3. ASSUME PlanLaunch("a", "launchA", "launchB") \/ PlanLaunch("b", "launchB", "buffers")
      PROVE  TypeOK'
  <2>1. pc' \in Places /\ fault' \in BOOLEAN
    BY <1>3 DEF PlanLaunch
  <2>2. UNCHANGED <<modelVars, maxM, serial, oneGrid, oneGridFailed, mapped,
                    mappedFailed, layerVars, call, result, captured, allocs, calls>>
    BY <1>3 DEF PlanLaunch
  <2> QED BY <2>1, <2>2
<1>4. CASE PlanBuffers
  <2>1. serial' \in [buffers : Nat, outputs : Nat] /\ allocs' \in Nat
    BY <1>4 DEF PlanBuffers, SerialAfter
  <2>2. pc' \in Places /\ fault' \in BOOLEAN
    BY <1>4 DEF PlanBuffers
  <2> QED BY <1>4, <2>1, <2>2 DEF PlanBuffers
<1>5. CASE PlanOneGrid
  <2>1. SharedGrid(allocs + 1) \in [published : BOOLEAN, scratch : Nat, workspace : Nat]
    <3>1. CASE oneGrid.published
      BY <3>1 DEF SharedGrid
    <3>2. CASE ~oneGrid.published
      BY <3>2 DEF SharedGrid
    <3> QED BY <3>1, <3>2
  <2>2. CASE PublishOneGrid(call.layer)
    <3>1. oneGrid' = SharedGrid(allocs + 1) /\ UNCHANGED oneGridFailed
      BY <2>2 DEF PublishOneGrid
    <3>2. output' \in [Layers -> Nat] /\ allocs' \in Nat
      BY <2>2 DEF PublishOneGrid
    <3> QED BY <1>5, <2>1, <3>1, <3>2 DEF PlanOneGrid
  <2>3. CASE DemoteOneGrid(call.layer)
    BY <1>5, <2>3 DEF PlanOneGrid, DemoteOneGrid
  <2>4. CASE UNCHANGED <<oneGrid, oneGridFailed, output, allocs>>
    BY <1>5, <2>4 DEF PlanOneGrid
  <2> QED BY <1>5, <2>2, <2>3, <2>4 DEF PlanOneGrid, EscapeOneGrid
<1>6. CASE PlanMapped
  <2>1. mapped' \in BOOLEAN /\ mappedFailed' \in BOOLEAN
    BY <1>6 DEF PlanMapped, ArmMapped, DemoteMapped
  <2>2. mapArmed' \in [Layers -> BOOLEAN] /\ ready' \in [Layers -> BOOLEAN]
    BY <1>6 DEF PlanMapped, ArmMapped, DemoteMapped
  <2> QED BY <1>6, <2>1, <2>2 DEF PlanMapped
<1>7. CASE TooLarge
  BY <1>7 DEF TooLarge
<1>8. CASE RunOneGrid
  <2>1. captured' \subseteq SUBSET Nat
    <3>1. OneGridUses \subseteq Nat
      BY DEF OneGridUses
    <3> QED BY <1>8, <3>1 DEF RunOneGrid, Returns
  <2>2. mappedFailed' \in BOOLEAN /\ fault' \in BOOLEAN
    BY <1>8 DEF RunOneGrid
  <2> QED BY <1>8, <2>1, <2>2 DEF RunOneGrid, Returns
<1>9. CASE OneGridRaises
  <2>1. mappedFailed' \in BOOLEAN
    BY <1>9 DEF OneGridRaises
  <2> QED BY <1>9, <2>1 DEF OneGridRaises
<1>10. CASE RunSerial
  <2>1. result' \subseteq {"a", "b"}
    BY <1>10 DEF RunSerial, Returns, TiersOf
  <2>2. captured' \subseteq SUBSET Nat
    <3>1. {serial.buffers} \in SUBSET Nat
      OBVIOUS
    <3>2. captured' = captured \/ captured' = captured \union {{serial.buffers}}
      <4>1. CASE call.capturing
        BY <1>10, <4>1 DEF RunSerial, Returns
      <4>2. CASE ~call.capturing
        BY <1>10, <4>2 DEF RunSerial, Returns
      <4> QED BY <4>1, <4>2
    <3> QED BY <3>1, <3>2
  <2> QED BY <1>10, <2>1, <2>2 DEF RunSerial, Returns
<1>11. CASE SerialRaises
  <2>1. fault' = TRUE \/ fault' = fault
    BY <1>11 DEF SerialRaises
  <2> QED BY <1>11, <2>1 DEF SerialRaises
<1>12. CASE Finished \/ UNCHANGED vars
  BY <1>12 DEF Finished, vars
<1> QED
  BY <1>1, <1>2, <1>3, <1>4, <1>5, <1>6, <1>7, <1>8, <1>9, <1>10, <1>11, <1>12
     DEF Next

-----------------------------------------------------------------------------
LEMMA RuntimeInit == Init => RuntimeInv
  BY DEF Init, RuntimeInv, SerialWhole, GridWhole, OriginalsKept, CapturedOwned,
         OutputExact, RetryIsClean

\* Only planning changes what is owned, and it never replaces anything.
LEMMA BuffersKept ==
  ASSUME TypeOK, [Next]_vars
  PROVE  serial' = serial \/ (serial.buffers = 0 /\ PlanBuffers)
<1> USE DEF modelVars, sharedVars, layerVars
<1>1. CASE PlanBuffers
  <2>1. CASE serial.buffers = 0
    BY <1>1, <2>1
  <2>2. CASE serial.buffers # 0
    BY <1>1, <2>2 DEF PlanBuffers, NeedsBuffers
  <2> QED BY <2>1, <2>2
<1>2. CASE ~PlanBuffers
  BY <1>2 DEF Next, vars, Build, Apply, PlanLaunch, PlanOneGrid, PlanMapped, TooLarge,
              RunOneGrid, OneGridRaises, RunSerial, SerialRaises, Returns, Finished
<1> QED BY <1>1, <1>2

LEMMA GridKept ==
  ASSUME TypeOK, [Next]_vars
  PROVE  \/ UNCHANGED <<oneGrid, output>>
         \/ /\ pc = "oneGrid" /\ output[call.layer] = 0
            /\ oneGrid' = SharedGrid(allocs + 1)
            /\ output' = [output EXCEPT ![call.layer] = allocs + 1]
<1> USE DEF modelVars, sharedVars, layerVars
<1>1. CASE PlanOneGrid
  BY <1>1 DEF PlanOneGrid, PublishOneGrid, DemoteOneGrid, EscapeOneGrid, WantsOneGrid
<1>2. CASE ~PlanOneGrid
  BY <1>2 DEF Next, vars, Build, Apply, PlanLaunch, PlanBuffers, PlanMapped, TooLarge,
              RunOneGrid, OneGridRaises, RunSerial, SerialRaises, Returns, Finished
<1> QED BY <1>1, <1>2

LEMMA OwnedKept ==
  ASSUME TypeOK, RuntimeInv, [Next]_vars
  PROVE  Owned \ {0} \subseteq Owned'
<1>1. serial.buffers # 0 => serial'.buffers = serial.buffers
  BY BuffersKept
<1>2. oneGrid.workspace # 0 => oneGrid'.workspace = oneGrid.workspace
  BY GridKept DEF SharedGrid, RuntimeInv, GridWhole
<1>3. ASSUME NEW l \in Layers, output[l] # 0
      PROVE  output'[l] = output[l]
  BY <1>3, GridKept DEF TypeOK
<1> QED
  BY <1>1, <1>2, <1>3 DEF Owned

-----------------------------------------------------------------------------
\* What is captured stays owned.
LEMMA CapturedSame ==
  ASSUME TypeOK, RuntimeInv, [Next]_vars, captured' = captured
  PROVE  CapturedOwned'
  BY OwnedKept DEF RuntimeInv, CapturedOwned

LEMMA RuntimeStep == TypeOK /\ RuntimeInv /\ [Next]_vars => RuntimeInv'
<1> SUFFICES ASSUME TypeOK, RuntimeInv, [Next]_vars PROVE RuntimeInv'
  OBVIOUS
<1> USE DEF modelVars, sharedVars, layerVars
<1>0. SerialWhole /\ GridWhole /\ OriginalsKept /\ CapturedOwned /\ OutputExact /\ RetryIsClean
  BY DEF RuntimeInv
<1>1. ASSUME NEW l \in Layers, NEW ok \in BOOLEAN, Build(l, ok) PROVE RuntimeInv'
  <2>1. UNCHANGED <<kind, sharedVars, layerVars, call, pc, fault, result, captured>>
    BY <1>1 DEF Build
  <2>2. SerialWhole' /\ GridWhole'
    BY <1>0, <2>1 DEF SerialWhole, GridWhole
  <2>3. OriginalsKept'
    <3> SUFFICES ASSUME NEW x \in Layers, built'[x] # "b12x"
                 PROVE  original'[x] = TiersOf(x)'
      BY DEF OriginalsKept
    <3>1. TiersOf(x)' = TiersOf(x)
      BY <2>1 DEF TiersOf
    <3>2. CASE x = l
      BY <1>0, <1>1, <3>1, <3>2 DEF Build, OriginalsKept, TypeOK
    <3>3. CASE x # l
      BY <1>0, <1>1, <3>1, <3>3 DEF Build, OriginalsKept, TypeOK
    <3> QED BY <3>2, <3>3
  <2>4. OutputExact' /\ RetryIsClean'
    BY <1>0, <2>1 DEF OutputExact, RetryIsClean, TiersOf
  <2> QED BY <2>1, <2>2, <2>3, <2>4, CapturedSame DEF RuntimeInv
<1>2. ASSUME NEW l \in Layers, NEW m \in Sizes, NEW capturing \in BOOLEAN,
             Apply(l, m, capturing)
      PROVE  RuntimeInv'
  <2>1. UNCHANGED <<modelVars, serial, oneGrid, layerVars, captured>> /\ call'.layer = l
    BY <1>2 DEF Apply
  <2>2. CASE built[l] = "triton"
    <3>1. pc' = "returned" /\ result' = TiersOf(l)
      BY <1>0, <1>2, <2>2 DEF Apply, OriginalsKept
    <3>2. SerialWhole' /\ GridWhole' /\ OriginalsKept'
      BY <1>0, <2>1, <3>1 DEF SerialWhole, GridWhole, OriginalsKept, TiersOf
    <3>3. OutputExact' /\ RetryIsClean'
      BY <2>1, <3>1 DEF OutputExact, RetryIsClean, TiersOf
    <3> QED BY <2>1, <3>2, <3>3, CapturedSame DEF RuntimeInv
  <2>3. CASE built[l] # "triton"
    <3>1. pc' = IF ready[l] THEN "run" ELSE "launchA"
      BY <1>2, <2>3 DEF Apply
    <3>2. SerialWhole' /\ GridWhole' /\ OriginalsKept'
      BY <1>0, <2>1, <3>1 DEF SerialWhole, GridWhole, OriginalsKept, TiersOf
    <3>3. OutputExact' /\ RetryIsClean'
      BY <3>1 DEF OutputExact, RetryIsClean
    <3> QED BY <2>1, <3>2, <3>3, CapturedSame DEF RuntimeInv
  <2> QED BY <2>2, <2>3
<1>3. ASSUME PlanLaunch("a", "launchA", "launchB") \/ PlanLaunch("b", "launchB", "buffers")
      PROVE  RuntimeInv'
  <2>1. UNCHANGED <<modelVars, serial, oneGrid, layerVars, captured>>
    BY <1>3 DEF PlanLaunch
  <2>2. pc' \in {"launchB", "buffers"} \/ (pc' = "raised" /\ fault' = TRUE)
    BY <1>3 DEF PlanLaunch
  <2>3. SerialWhole' /\ GridWhole' /\ OriginalsKept'
    BY <1>0, <2>1, <2>2 DEF SerialWhole, GridWhole, OriginalsKept, TiersOf
  <2>4. OutputExact' /\ RetryIsClean'
    BY <2>2 DEF OutputExact, RetryIsClean
  <2> QED BY <2>1, <2>3, <2>4, CapturedSame DEF RuntimeInv
<1>4. CASE PlanBuffers
  <2>1. UNCHANGED <<modelVars, oneGrid, layerVars, captured>>
    BY <1>4 DEF PlanBuffers
  <2>2. pc' = "oneGrid" \/ (pc' = "raised" /\ fault' = TRUE)
    BY <1>4 DEF PlanBuffers
  <2>3. \/ serial' = serial /\ (pc' = "oneGrid" => serial.buffers # 0)
        \/ serial.buffers = 0 /\ serial' = [buffers |-> allocs + 1, outputs |-> allocs + 1]
    BY <1>4 DEF PlanBuffers, NeedsBuffers, SerialAfter
  <2>4. SerialWhole'
    BY <1>0, <2>1, <2>2, <2>3 DEF SerialWhole, TypeOK
  <2>5. GridWhole'
    BY <1>0, <2>1, <2>3 DEF GridWhole
  <2>6. OriginalsKept' /\ OutputExact' /\ RetryIsClean'
    BY <1>0, <2>1, <2>2 DEF OriginalsKept, TiersOf, OutputExact, RetryIsClean
  <2> QED BY <2>1, <2>4, <2>5, <2>6, CapturedSame DEF RuntimeInv
<1>5. CASE PlanOneGrid
  <2>1. /\ UNCHANGED <<modelVars, serial, ready, captured>> /\ pc = "oneGrid"
        /\ pc' = "mapped" \/ (pc' = "raised" /\ fault' = TRUE)
    BY <1>5 DEF PlanOneGrid
  <2>2. SerialWhole' /\ OriginalsKept' /\ OutputExact' /\ RetryIsClean'
    BY <1>0, <2>1 DEF SerialWhole, OriginalsKept, TiersOf, OutputExact, RetryIsClean
  <2>3. GridWhole'
    <3>1. CASE oneGrid' = oneGrid
      BY <1>0, <2>1, <3>1 DEF GridWhole
    <3>2. CASE oneGrid' # oneGrid
      <4>1. oneGrid' = [published |-> TRUE, scratch |-> serial.buffers, workspace |-> allocs + 1]
        BY <3>2, GridKept DEF SharedGrid
      <4> QED BY <1>0, <2>1, <4>1 DEF GridWhole, SerialWhole, TypeOK
    <3> QED BY <3>1, <3>2
  <2> QED BY <2>1, <2>2, <2>3, CapturedSame DEF RuntimeInv
<1>6. CASE PlanMapped
  <2>1. UNCHANGED <<modelVars, serial, oneGrid, captured>> /\ pc = "mapped" /\ pc' = "run"
    BY <1>6 DEF PlanMapped
  <2>2. SerialWhole'
    BY <1>0, <2>1 DEF SerialWhole
  <2>3. GridWhole' /\ OriginalsKept' /\ OutputExact' /\ RetryIsClean'
    BY <1>0, <2>1 DEF GridWhole, OriginalsKept, TiersOf, OutputExact, RetryIsClean
  <2> QED BY <2>1, <2>2, <2>3, CapturedSame DEF RuntimeInv
<1>7. CASE TooLarge
  <2>1. UNCHANGED <<modelVars, sharedVars, layerVars, call, captured>>
        /\ pc' = "raised" /\ call.m > maxM
    BY <1>7 DEF TooLarge
  <2>2. SerialWhole' /\ GridWhole' /\ OriginalsKept'
    BY <1>0, <2>1 DEF SerialWhole, GridWhole, OriginalsKept, TiersOf
  <2>3. OutputExact' /\ RetryIsClean'
    BY <2>1 DEF OutputExact, RetryIsClean
  <2> QED BY <2>1, <2>2, <2>3, CapturedSame DEF RuntimeInv
<1>8. CASE RunOneGrid
  <2>1. UNCHANGED <<modelVars, maxM, serial, oneGrid, layerVars, call>>
        /\ pc' = "returned" /\ result' = {"a", "b"}
    BY <1>8 DEF RunOneGrid, Returns
  <2>2. oneGrid.published /\ output[call.layer] # 0 /\ kind[call.layer] = "mixed"
    BY <1>8 DEF RunOneGrid, TakesOneGrid
  <2>3. SerialWhole' /\ GridWhole' /\ OriginalsKept'
    BY <1>0, <2>1 DEF SerialWhole, GridWhole, OriginalsKept, TiersOf
  <2>4. OutputExact' /\ RetryIsClean'
    BY <2>1, <2>2 DEF OutputExact, RetryIsClean, TiersOf
  <2>5. CapturedOwned'
    <3>1. OneGridUses \subseteq Owned \ {0}
      BY <1>0, <2>2 DEF OneGridUses, Owned, GridWhole, TypeOK
    <3>2. captured' \subseteq captured \union {OneGridUses}
      <4>1. CASE call.capturing
        BY <1>8, <4>1 DEF RunOneGrid, Returns
      <4>2. CASE ~call.capturing
        BY <1>8, <4>2 DEF RunOneGrid, Returns
      <4> QED BY <4>1, <4>2
    <3> QED BY <1>0, <3>1, <3>2, OwnedKept DEF CapturedOwned
  <2> QED BY <2>3, <2>4, <2>5 DEF RuntimeInv
<1>9. CASE OneGridRaises
  <2>1. UNCHANGED <<modelVars, maxM, serial, oneGrid, layerVars, call, captured>>
        /\ pc' = "raised" /\ fault' = TRUE
    BY <1>9 DEF OneGridRaises
  <2>2. SerialWhole' /\ GridWhole' /\ OriginalsKept'
    BY <1>0, <2>1 DEF SerialWhole, GridWhole, OriginalsKept, TiersOf
  <2>3. OutputExact' /\ RetryIsClean'
    BY <2>1 DEF OutputExact, RetryIsClean
  <2> QED BY <2>1, <2>2, <2>3, CapturedSame DEF RuntimeInv
<1>10. CASE RunSerial
  <2>1. UNCHANGED <<modelVars, maxM, serial, oneGrid, layerVars, call>>
        /\ pc' = "returned" /\ call.m <= maxM /\ serial.buffers # 0
        /\ result' = {t \in TiersOf(call.layer) : Covers(call.layer, t)}
    BY <1>10 DEF RunSerial, Returns, HasBuffers
  <2>2. \A t \in TiersOf(call.layer) : Covers(call.layer, t)
    BY <2>1 DEF Covers, UsesDirect, DecodeM, DirectM
  <2>3. SerialWhole' /\ GridWhole' /\ OriginalsKept'
    BY <1>0, <2>1 DEF SerialWhole, GridWhole, OriginalsKept, TiersOf
  <2>4. OutputExact' /\ RetryIsClean'
    BY <2>1, <2>2 DEF OutputExact, RetryIsClean, TiersOf
  <2>5. CapturedOwned'
    <3>1. {serial.buffers} \subseteq Owned \ {0}
      BY <2>1 DEF Owned
    <3>2. captured' \subseteq captured \union {{serial.buffers}}
      <4>1. CASE call.capturing
        BY <1>10, <4>1 DEF RunSerial, Returns
      <4>2. CASE ~call.capturing
        BY <1>10, <4>2 DEF RunSerial, Returns
      <4> QED BY <4>1, <4>2
    <3> QED BY <1>0, <3>1, <3>2, OwnedKept DEF CapturedOwned
  <2> QED BY <2>3, <2>4, <2>5 DEF RuntimeInv
<1>11. CASE SerialRaises
  <2>1. UNCHANGED <<modelVars, sharedVars, layerVars, call, captured>> /\ pc' = "raised"
    BY <1>11 DEF SerialRaises
  <2>2. HasBuffers
    BY <1>0, <1>11 DEF SerialRaises, HasBuffers, SerialWhole
  <2>3. fault' = TRUE
    BY <1>11, <2>2 DEF SerialRaises
  <2>4. SerialWhole' /\ GridWhole' /\ OriginalsKept'
    BY <1>0, <2>1 DEF SerialWhole, GridWhole, OriginalsKept, TiersOf
  <2>5. OutputExact' /\ RetryIsClean'
    BY <2>1, <2>3 DEF OutputExact, RetryIsClean
  <2> QED BY <2>1, <2>4, <2>5, CapturedSame DEF RuntimeInv
<1>12. CASE Finished \/ UNCHANGED vars
  <2>1. UNCHANGED vars
    BY <1>12 DEF Finished
  <2> QED
    BY <2>1 DEF vars, RuntimeInv, SerialWhole, GridWhole, OriginalsKept, CapturedOwned,
                Owned, OutputExact, RetryIsClean, TiersOf
<1> QED
  BY <1>1, <1>2, <1>3, <1>4, <1>5, <1>6, <1>7, <1>8, <1>9, <1>10, <1>11, <1>12
     DEF Next

-----------------------------------------------------------------------------
\* Every variable keeps its type.
THEOREM TypeCorrect == Spec => []TypeOK
  BY TypeInit, TypeStep, PTL DEF Spec

\* What is published of the runtime is whole, in every reachable state.
THEOREM RuntimeInvariant == Spec => []RuntimeInv
  BY TypeInit, TypeStep, RuntimeInit, RuntimeStep, PTL DEF Spec

\* A call that returns has added each of its layer's tiers.
THEOREM OutputIsExact == Spec => []OutputExact
<1>1. RuntimeInv => OutputExact
  BY DEF RuntimeInv
<1> QED BY <1>1, RuntimeInvariant, PTL

\* What a captured launch uses stays owned by the runtime or its layer.
THEOREM GraphsStayIntact == Spec => []GraphsIntact
<1>1. RuntimeInv => GraphsIntact
  BY DEF RuntimeInv, CapturedOwned, GraphsIntact
<1> QED BY <1>1, RuntimeInvariant, PTL

\* A call raises only if something fails in it or it is too large.
THEOREM RetriesAreClean == Spec => []RetryIsClean
<1>1. RuntimeInv => RetryIsClean
  BY DEF RuntimeInv
<1> QED BY <1>1, RuntimeInvariant, PTL

LEMMA LeastNumber ==
  ASSUME NEW T \in SUBSET Nat, T # {}
  PROVE  \E x \in T : \A y \in T : x <= y
<1> DEFINE R == {p \in Nat \X Nat : p[1] < p[2]}
<1>1. IsWellFoundedOn(R, Nat)
  BY NatLessThanWellFounded, Zenon DEF OpToRel
<1>2. PICK x \in T : \A y \in T : ~(<<y, x>> \in R)
  <2> HIDE DEF R
  <2> QED BY <1>1, WFMin
<1>3. ASSUME NEW y \in T, y < x PROVE FALSE
  <2>1. <<y, x>> \in Nat \X Nat
    OBVIOUS
  <2>2. <<y, x>> \in R
    BY <2>1, <1>3
  <2> QED BY <1>2, <2>2
<1> QED BY <1>3

\* s is the sequence of sums of a up to n.
IsSumTo(s, a, n) ==
  s \in [0..n -> Nat] /\ s = [i \in 0..n |-> IF i = 0 THEN 0 ELSE s[i-1] + a[i]]

LEMMA SumsExist ==
  ASSUME NEW a \in Seq(Nat)
  PROVE  \A n \in 0..Len(a) : \E s : IsSumTo(s, a, n)
<1> DEFINE T == {n \in 0..Len(a) : ~ \E s : IsSumTo(s, a, n)}
<1>1. SUFFICES ASSUME T # {} PROVE FALSE
  OBVIOUS
<1>2. PICK n \in T : \A m \in T : n <= m
  <2>1. T \in SUBSET Nat
    OBVIOUS
  <2> HIDE DEF T
  <2> QED BY <1>1, <2>1, LeastNumber
<1>3. CASE n = 0
  <2> DEFINE s == [i \in 0..0 |-> 0]
  <2>1. s \in [0..0 -> Nat] /\ s = [i \in 0..0 |-> IF i = 0 THEN 0 ELSE s[i-1] + a[i]]
    OBVIOUS
  <2>2. IsSumTo(s, a, 0)
    BY <2>1 DEF IsSumTo
  <2> QED BY <1>3, <2>2
<1>4. CASE n # 0
  <2>1. n-1 \in 0..Len(a) /\ n-1 \notin T /\ n \in 1..Len(a)
    BY <1>2, <1>4
  <2>2. PICK t : IsSumTo(t, a, n-1)
    BY <2>1
  <2> DEFINE s == [i \in 0..n |-> IF i = n THEN t[n-1] + a[n] ELSE t[i]]
  <2>3. a[n] \in Nat
    BY <2>1
  <2>4. s \in [0..n -> Nat]
    <3>1. ASSUME NEW i \in 0..n
          PROVE  (IF i = n THEN t[n-1] + a[n] ELSE t[i]) \in Nat
      <4>1. \A j \in 0..n-1 : t[j] \in Nat
        BY <2>2 DEF IsSumTo
      <4>2. n-1 \in 0..n-1 /\ (i # n => i \in 0..n-1)
        BY <2>1
      <4> QED BY <2>3, <4>1, <4>2
    <3> QED BY <3>1
  <2>5. ASSUME NEW i \in 0..n
        PROVE  s[i] = IF i = 0 THEN 0 ELSE s[i-1] + a[i]
    <3>1. CASE i = n
      BY <2>1, <3>1
    <3>2. CASE i # n
      <4>1. i \in 0..n-1 /\ (i # 0 => i-1 \in 0..n-1 /\ i-1 # n)
        BY <2>1, <3>2
      <4>2. t = [j \in 0..n-1 |-> IF j = 0 THEN 0 ELSE t[j-1] + a[j]]
        BY <2>2 DEF IsSumTo
      <4>3. t[i] = IF i = 0 THEN 0 ELSE t[i-1] + a[i]
        <5> HIDE DEF T
        <5> QED BY <4>1, <4>2
      <4> QED BY <2>1, <3>2, <4>1, <4>3
    <3> QED BY <3>1, <3>2
  <2> HIDE DEF s
  <2>6. s = [i \in 0..n |-> IF i = 0 THEN 0 ELSE s[i-1] + a[i]]
    BY <2>4, <2>5
  <2>7. IsSumTo(s, a, n)
    BY <2>4, <2>6 DEF IsSumTo
  <2> QED BY <2>7
<1> QED BY <1>3, <1>4

LEMMA PrefixSumDef ==
  ASSUME NEW a \in Seq(Nat)
  PROVE  IsSumTo(PrefixSum(a), a, Len(a))
<1>1. PICK s : IsSumTo(s, a, Len(a))
  <2>1. Len(a) \in 0..Len(a)
    OBVIOUS
  <2> QED BY <2>1, SumsExist
<1>2. PrefixSum(a) = [i \in 0..Len(a) |-> IF i = 0 THEN 0 ELSE PrefixSum(a)[i-1] + a[i]]
  BY <1>1 DEF PrefixSum, IsSumTo
<1> DEFINE f == PrefixSum(a)
    T == {n \in 0..Len(a) : f[n] \notin Nat}
<1>3. f[0] = 0 /\ \A i \in 1..Len(a) : f[i] = f[i-1] + a[i]
  <2>1. f = [i \in 0..Len(a) |-> IF i = 0 THEN 0 ELSE f[i-1] + a[i]]
    BY <1>2
  <2>2. Len(a) \in Nat
    OBVIOUS
  <2> HIDE DEF f
  <2>3. \A i \in 0..Len(a) : f[i] = IF i = 0 THEN 0 ELSE f[i-1] + a[i]
    BY <2>1
  <2>4. 0 \in 0..Len(a) /\ \A i \in 1..Len(a) : i \in 0..Len(a) /\ i # 0
    BY <2>2
  <2> QED BY <2>3, <2>4
<1> HIDE DEF f
<1>4. ASSUME T # {} PROVE FALSE
  <2>1. T \in SUBSET Nat
    OBVIOUS
  <2>2. PICK n \in T : \A m \in T : n <= m
    <3> HIDE DEF T
    <3> QED BY <1>4, <2>1, LeastNumber
  <2>3. n # 0
    BY <1>3
  <2>4. n-1 \in 0..Len(a) /\ n-1 \notin T
    BY <2>2, <2>3
  <2>5. n \in 1..Len(a) /\ f[n-1] \in Nat
    BY <2>3, <2>4
  <2>6. a[n] \in Nat /\ f[n] = f[n-1] + a[n]
    BY <1>3, <2>5
  <2> QED BY <2>5, <2>6
<1>5. f \in [0..Len(a) -> Nat]
  BY <1>2, <1>4 DEF f
<1> QED BY <1>2, <1>5 DEF IsSumTo, f

\* Sums of the first numbers do not shrink.
LEMMA PrefixSumGrows ==
  ASSUME NEW a \in Seq(Nat), NEW i \in 0..Len(a)
  PROVE  \A n \in i..Len(a) : PrefixSum(a)[i] <= PrefixSum(a)[n]
<1>1. /\ PrefixSum(a) \in [0..Len(a) -> Nat]
      /\ \A n \in 1..Len(a) : PrefixSum(a)[n] = PrefixSum(a)[n-1] + a[n]
  BY PrefixSumDef DEF IsSumTo
<1> DEFINE f == PrefixSum(a)
           T == {n \in i..Len(a) : ~(f[i] <= f[n])}
<1>2. \A n \in 0..Len(a) : f[n] \in Nat
  BY <1>1
<1>3. \A n \in 1..Len(a) : f[n] = f[n-1] + a[n] /\ a[n] \in Nat
  BY <1>1
<1> HIDE DEF f
<1>4. ASSUME T # {} PROVE FALSE
  <2>1. T \in SUBSET Nat
    OBVIOUS
  <2>2. PICK n \in T : \A m \in T : n <= m
    <3> HIDE DEF T
    <3> QED BY <1>4, <2>1, LeastNumber
  <2>3. n # i
    BY <1>2
  <2>4. n-1 \in i..Len(a) /\ n-1 \notin T
    BY <2>2, <2>3
  <2>5. n \in 1..Len(a) /\ n-1 \in 0..Len(a) /\ f[i] <= f[n-1]
    BY <2>4
  <2>6. f[n] = f[n-1] + a[n] /\ a[n] \in Nat /\ f[n-1] \in Nat /\ f[i] \in Nat
    BY <1>2, <1>3, <2>5
  <2> QED BY <2>5, <2>6
<1> QED BY <1>4 DEF f

LEMMA ProductMonotone ==
  ASSUME NEW a \in Nat, NEW b \in Nat, NEW m \in Nat, a <= b
  PROVE  a * m \in Nat /\ b * m \in Nat /\ a * m <= b * m
  OBVIOUS

LEMMA ProductStrict ==
  ASSUME NEW a \in Nat, NEW b \in Nat, NEW m \in Nat, a < b
  PROVE  a * m + m <= b * m /\ a * m \in Nat /\ b * m \in Nat
<1>1. (a + 1) * m <= b * m /\ a * m \in Nat /\ b * m \in Nat
  BY ProductMonotone
<1>2. (a + 1) * m = a * m + m
  OBVIOUS
<1> QED BY <1>1, <1>2

LEMMA DivMod ==
  ASSUME NEW n \in Nat, NEW m \in Nat, m > 0
  PROVE  /\ n \div m \in Nat /\ n % m \in 0..m-1 /\ (n \div m) * m \in Nat
         /\ n = (n \div m) * m + (n % m)
<1>1. n \div m \in Nat /\ n % m \in 0..m-1
  OBVIOUS
<1>2. n = m * (n \div m) + (n % m)
  OBVIOUS
<1> QED BY <1>1, <1>2

\* The quotient and the remainder of a number given by its parts.
LEMMA PartsUnique ==
  ASSUME NEW a \in Nat, NEW i \in Nat, NEW m \in Nat, i < m
  PROVE  /\ a * m + i \in Nat
         /\ (a * m + i) \div m = a /\ (a * m + i) % m = i
<1> DEFINE n == a * m + i
<1>1. a * m \in Nat
  BY ProductMonotone
<1>2. n \in Nat
  BY <1>1
<1>3. /\ n \div m \in Nat /\ n % m \in 0..m-1 /\ (n \div m) * m \in Nat
      /\ n = (n \div m) * m + (n % m)
  BY <1>2, DivMod
<1> DEFINE q == n \div m
           j == n % m
<1>4. q \in Nat /\ j \in 0..m-1 /\ q * m \in Nat /\ a * m + i = q * m + j
  BY <1>3
<1> HIDE DEF q, j
<1>5. ASSUME a < q PROVE FALSE
  <2>1. a * m + m <= q * m
    BY <1>4, <1>5, ProductStrict
  <2> QED BY <1>1, <1>4, <2>1
<1>6. ASSUME q < a PROVE FALSE
  <2>1. q * m + m <= a * m
    BY <1>4, <1>6, ProductStrict
  <2> QED BY <1>1, <1>4, <2>1
<1>7. a = q
  BY <1>4, <1>5, <1>6
<1>8. i = j
  BY <1>1, <1>4, <1>7
<1> QED BY <1>2, <1>7, <1>8 DEF q, j, n

\* A cell of an n-by-m layout is one of its n*m cells.
LEMMA CellInside ==
  ASSUME NEW n \in Nat, NEW m \in Nat, NEW a \in 0..n-1, NEW i \in 0..m-1
  PROVE  a * m + i \in 0..n*m-1 /\ a * m \in Nat /\ n * m \in Nat
<1>1. a \in Nat /\ a < n
  OBVIOUS
<1>2. a * m + m <= n * m /\ a * m \in Nat /\ n * m \in Nat
  BY <1>1, ProductStrict
<1> QED BY <1>2

LEMMA CellParts ==
  ASSUME NEW n \in Nat, NEW m \in Nat, NEW j \in 0..n*m-1
  PROVE  /\ j \div m \in 0..n-1 /\ j % m \in 0..m-1
         /\ (j \div m) * m \in Nat /\ j = (j \div m) * m + (j % m)
<1>0. n * m \in Nat
  BY ProductMonotone
<1>1. j \in Nat /\ j < n * m
  BY <1>0
<1>2. m > 0
  <2>1. ASSUME m = 0 PROVE FALSE
    <3>1. n * 0 = 0
      OBVIOUS
    <3> QED BY <1>1, <2>1, <3>1
  <2> QED BY <2>1
<1> DEFINE q == j \div m
           i == j % m
<1>3. q \in Nat /\ i \in 0..m-1 /\ q * m \in Nat /\ j = q * m + i
  BY <1>1, <1>2, DivMod
<1> HIDE DEF q, i
<1>4. ASSUME n <= q PROVE FALSE
  <2>1. n * m <= q * m
    BY <1>3, <1>4, ProductMonotone
  <2> QED BY <1>0, <1>1, <1>3, <2>1
<1>5. q \in 0..n-1
  BY <1>3, <1>4
<1> QED BY <1>3, <1>5 DEF q, i

\* A sum grows by each number, so the ranges between successive sums are apart.
LEMMA SumRange ==
  ASSUME NEW a \in Seq(Nat), NEW q \in 1..Len(a)
  PROVE  /\ PrefixSum(a)[q-1] \in Nat /\ PrefixSum(a)[q] \in Nat /\ a[q] \in Nat
         /\ PrefixSum(a)[q] = PrefixSum(a)[q-1] + a[q]
         /\ PrefixSum(a)[Len(a)] \in Nat /\ PrefixSum(a)[q] <= PrefixSum(a)[Len(a)]
         /\ \A p \in 1..Len(a) : p < q => PrefixSum(a)[p] <= PrefixSum(a)[q-1]
         /\ \A p \in 1..Len(a) : q < p => PrefixSum(a)[q] <= PrefixSum(a)[p-1]
<1>1. /\ PrefixSum(a) \in [0..Len(a) -> Nat]
      /\ \A n \in 1..Len(a) : PrefixSum(a)[n] = PrefixSum(a)[n-1] + a[n]
  BY PrefixSumDef DEF IsSumTo
<1>2. Len(a) \in Nat /\ q-1 \in 0..Len(a) /\ q \in 0..Len(a) /\ Len(a) \in q..Len(a) /\ a[q] \in Nat
  OBVIOUS
<1>0. /\ PrefixSum(a)[q-1] \in Nat /\ PrefixSum(a)[q] \in Nat /\ PrefixSum(a)[Len(a)] \in Nat
      /\ PrefixSum(a)[q] = PrefixSum(a)[q-1] + a[q]
  <2> DEFINE s == PrefixSum(a)
             n == Len(a)
  <2>1. s \in [0..n -> Nat] /\ s[q] = s[q-1] + a[q]
    BY <1>1
  <2> HIDE DEF s, n
  <2>2. q-1 \in 0..n /\ q \in 0..n /\ n \in 0..n
    BY <1>2 DEF n
  <2>3. s[q-1] \in Nat /\ s[q] \in Nat /\ s[n] \in Nat
    BY <2>1, <2>2
  <2> QED BY <2>1, <2>3 DEF s, n
<1>3. PrefixSum(a)[q] <= PrefixSum(a)[Len(a)]
  BY <1>2, PrefixSumGrows
<1>4. \A p \in 1..Len(a) : p < q => PrefixSum(a)[p] <= PrefixSum(a)[q-1]
  <2> TAKE p \in 1..Len(a)
  <2> HAVE p < q
  <2>1. p \in 0..Len(a) /\ q-1 \in p..Len(a)
    OBVIOUS
  <2> QED BY <2>1, PrefixSumGrows
<1>5. \A p \in 1..Len(a) : q < p => PrefixSum(a)[q] <= PrefixSum(a)[p-1]
  <2> TAKE p \in 1..Len(a)
  <2> HAVE q < p
  <2>1. p-1 \in q..Len(a)
    OBVIOUS
  <2> QED BY <1>2, <2>1, PrefixSumGrows
<1> QED BY <1>0, <1>2, <1>3, <1>4, <1>5

-----------------------------------------------------------------------------
(* Route packing.                                                          *)

LEMMA MinOfTwo ==
  ASSUME NEW a \in Nat, NEW b \in Nat
  PROVE  Min({a, b}) \in {a, b} /\ Min({a, b}) <= a /\ Min({a, b}) <= b
<1>1. \E x \in {a, b} : \A y \in {a, b} : x =< y
  OBVIOUS
<1> QED BY <1>1 DEF Min

LEMMA PaddedFacts ==
  ASSUME NEW n \in Nat
  PROVE  /\ Padded(n) \in Nat /\ n <= Padded(n) /\ Padded(n) <= n + BlockSize - 1
         /\ n = 0 => Padded(n) = 0
         /\ \E k \in Nat : Padded(n) = k * BlockSize
<1>0. BlockSize \in Nat /\ BlockSize > 0
  BY PackAssumption
<1> DEFINE m == n + BlockSize - 1
           q == m \div BlockSize
<1>1. m \in Nat
  BY <1>0
<1>2. q \in Nat /\ m % BlockSize \in 0..BlockSize-1 /\ q * BlockSize \in Nat
      /\ m = q * BlockSize + (m % BlockSize)
  BY <1>0, <1>1, DivMod
<1>3. Padded(n) = q * BlockSize
  BY DEF Padded
<1>4. n = 0 => q = 0
  BY <1>0, <1>1, PartsUnique, 0 * BlockSize + (BlockSize - 1) = BlockSize - 1
<1>5. q = 0 => q * BlockSize = 0
  BY <1>0
<1> HIDE DEF q
<1> QED BY <1>0, <1>1, <1>2, <1>3, <1>4, <1>5

\* The inputs of a call of packing.
PackTyped ==
  /\ \E m \in 1..MaxTokens : ids \in [0..m*TopK-1 -> Ids]
  /\ expertMap \in [Ids -> Ids \cup {-1}]

RoutesTo(e) == {r \in Mapped : Resolve(r) = e}

LEMMA LiveFacts ==
  ASSUME PackTyped
  PROVE  /\ Live \in 1..MaxRoutes /\ DOMAIN ids = 0..Live-1
         /\ \A r \in 0..Live-1 : ids[r] \in Ids /\ Resolve(r) = expertMap[ids[r]]
                                 /\ Resolve(r) \in Ids \cup {-1}
         /\ Mapped \subseteq 0..Live-1 /\ IsFiniteSet(Mapped)
         /\ Cardinality(Mapped) \in Nat /\ Cardinality(Mapped) <= Live
         /\ \A r \in Mapped : Resolve(r) \in Ids
         /\ \A e \in Ids : /\ IsFiniteSet(RoutesTo(e))
                           /\ Histogram[e] = Cardinality(RoutesTo(e))
                           /\ Histogram[e] \in Nat
         /\ \E m \in 1..MaxTokens : Live = m * TopK /\ ids \in [0..Live-1 -> Ids]
<1>0. /\ TopK \in Nat \ {0} /\ MaxTokens \in Nat /\ MaxRoutes = MaxTokens * TopK
      /\ Experts \in Nat \ {0}
  BY FusedAssumption, CallAssumption, PackAssumption
<1>1. PICK m \in 1..MaxTokens : ids \in [0..m*TopK-1 -> Ids]
  BY DEF PackTyped
<1>2. m \in Nat /\ m * TopK \in Nat /\ m * TopK <= MaxTokens * TopK /\ 1 * TopK <= m * TopK
  BY <1>0, ProductMonotone
<1>3. IsFiniteSet(0..m*TopK-1) /\ Cardinality(0..m*TopK-1) = m*TopK
  <2> DEFINE n == m * TopK
  <2>1. n \in Nat
    BY <1>2
  <2> HIDE DEF n
  <2>2. IsFiniteSet(0..n-1) /\ Cardinality(0..n-1) = n
    BY <2>1, FS_Interval, 0 \in Int, n - 1 \in Int
  <2> QED BY <2>2 DEF n
<1>4. DOMAIN ids = 0..m*TopK-1 /\ Live = m*TopK
  BY <1>1, <1>3 DEF Live
<1>5. Live \in 1..MaxRoutes
  BY <1>0, <1>2, <1>4
<1>6. \A r \in 0..Live-1 : ids[r] \in Ids /\ Resolve(r) = expertMap[ids[r]]
                           /\ Resolve(r) \in Ids \cup {-1}
  <2> TAKE r \in 0..Live-1
  <2>1. ids[r] \in Ids
    BY <1>1, <1>4
  <2>2. expertMap[ids[r]] \in Ids \cup {-1}
    BY <2>1 DEF PackTyped
  <2> QED BY <2>1, <2>2 DEF Resolve
<1>7. Mapped \subseteq 0..Live-1 /\ IsFiniteSet(Mapped)
      /\ Cardinality(Mapped) \in Nat /\ Cardinality(Mapped) <= Live
  <2>1. Mapped \subseteq 0..Live-1
    BY <1>4 DEF Mapped
  <2>2. IsFiniteSet(0..Live-1) /\ Cardinality(0..Live-1) = Live
    BY <1>3, <1>4
  <2>3. IsFiniteSet(Mapped) /\ Cardinality(Mapped) <= Cardinality(0..Live-1)
    BY <2>1, <2>2, FS_Subset
  <2>4. Cardinality(Mapped) \in Nat
    BY <2>3, FS_CardinalityType
  <2> QED BY <2>1, <2>2, <2>3, <2>4
<1>8. \A r \in Mapped : Resolve(r) \in Ids
  BY <1>6, <1>7 DEF Mapped
<1>9. \A e \in Ids : /\ IsFiniteSet(RoutesTo(e))
                     /\ Histogram[e] = Cardinality(RoutesTo(e))
                     /\ Histogram[e] \in Nat
  <2> TAKE e \in Ids
  <2>1. IsFiniteSet(RoutesTo(e))
    BY <1>7, FS_Subset DEF RoutesTo
  <2>2. Histogram[e] = Cardinality(RoutesTo(e))
    BY DEF Histogram, RoutesTo
  <2> QED BY <2>1, <2>2, FS_CardinalityType
<1> QED BY <1>1, <1>4, <1>5, <1>6, <1>7, <1>8, <1>9

\* Where each expert's padded range starts.
Starts == Prefix(Histogram)

\* Experts below e with a route.
Wanted(e) == {x \in 0..e-1 : Histogram[x] > 0}
Below(e) == {r \in Mapped : Resolve(r) < e}

LEMMA StartsAreSums ==
  ASSUME PackTyped
  PROVE  /\ Starts \in [0..Experts -> Nat] /\ Starts[0] = 0
         /\ \A e \in Ids : /\ Starts[e + 1] = Starts[e] + Padded(Histogram[e])
                           /\ e \in 0..Experts /\ e + 1 \in 0..Experts
         /\ \A e, x \in 0..Experts : e <= x => Starts[e] <= Starts[x]
<1> DEFINE a == [e \in 1..Experts |-> Padded(Histogram[e - 1])]
<1>0. Experts \in Nat \ {0}
  BY PackAssumption
<1>1. \A e \in 1..Experts : Padded(Histogram[e - 1]) \in Nat
  <2> TAKE e \in 1..Experts
  <2>1. e - 1 \in Ids
    BY <1>0 DEF Ids
  <2>2. Histogram[e - 1] \in Nat
    BY <2>1, LiveFacts
  <2> QED BY <2>2, PaddedFacts
<1>2. a \in Seq(Nat) /\ Len(a) = Experts
  BY <1>0, <1>1
<1>3. Starts = PrefixSum(a)
  BY DEF Starts, Prefix
<1>4. \A e \in 1..Experts : a[e] = Padded(Histogram[e - 1])
  OBVIOUS
<1> HIDE DEF a
<1>5. /\ Starts \in [0..Experts -> Nat]
      /\ Starts[0] = 0
      /\ \A n \in 1..Experts : Starts[n] = Starts[n-1] + a[n]
  <2>1. IsSumTo(Starts, a, Experts)
    BY <1>2, <1>3, PrefixSumDef
  <2> QED BY <1>0, <2>1 DEF IsSumTo
<1>6. ASSUME NEW e \in Ids
      PROVE  /\ Starts[e + 1] = Starts[e] + Padded(Histogram[e])
             /\ e \in 0..Experts /\ e + 1 \in 0..Experts
  <2>1. e + 1 \in 1..Experts /\ e \in 0..Experts /\ e + 1 - 1 = e
    BY <1>0 DEF Ids
  <2> QED BY <1>4, <1>5, <2>1
<1>7. \A e, x \in 0..Experts : e <= x => Starts[e] <= Starts[x]
  BY <1>2, <1>3, PrefixSumGrows
<1> QED BY <1>5, <1>6, <1>7

\* The range of an expert holds its routes, begins and ends with a block, and
\* the padding of those before it is less than a block each.
LEMMA StartsBounded ==
  ASSUME PackTyped, NEW e \in 0..Experts
  PROVE  /\ \E k \in Nat : Starts[e] = k * BlockSize
         /\ IsFiniteSet(Wanted(e)) /\ IsFiniteSet(Below(e))
         /\ Starts[e] <= Cardinality(Below(e)) + Cardinality(Wanted(e)) * (BlockSize - 1)
<1> DEFINE Ok(x) == /\ \E k \in Nat : Starts[x] = k * BlockSize
                    /\ IsFiniteSet(Wanted(x)) /\ IsFiniteSet(Below(x))
                    /\ Starts[x] <= Cardinality(Below(x)) + Cardinality(Wanted(x)) * (BlockSize - 1)
           Bad == {x \in 0..Experts : ~Ok(x)}
<1>0. /\ Experts \in Nat \ {0} /\ BlockSize \in Nat \ {0}
      /\ BlockSize - 1 \in Nat
  BY PackAssumption
<1>1. SUFFICES Bad = {}
  OBVIOUS
<1>2. SUFFICES ASSUME Bad # {} PROVE FALSE
  OBVIOUS
<1>3. PICK x \in Bad : \A y \in Bad : x <= y
  <2>1. Bad \in SUBSET Nat
    OBVIOUS
  <2> HIDE DEF Bad
  <2> QED BY <1>2, <2>1, LeastNumber
<1>4. CASE x = 0
  <2>1. Wanted(0) = {}
    BY DEF Wanted
  <2>2. Below(0) = {}
    <3>1. \A r \in Mapped : Resolve(r) \in Nat
      BY LiveFacts DEF Ids
    <3> QED BY <3>1 DEF Below
  <2>3. Starts[0] = 0 * BlockSize /\ Starts[0] = 0
    BY <1>0, StartsAreSums
  <2>4. 0 <= 0 + 0 * (BlockSize - 1)
    BY <1>0
  <2>5. Ok(0)
    <3>1. /\ Cardinality(Wanted(0)) = 0 /\ Cardinality(Below(0)) = 0
          /\ IsFiniteSet(Wanted(0)) /\ IsFiniteSet(Below(0))
      BY <2>1, <2>2, FS_EmptySet
    <3>2. \E k \in Nat : Starts[0] = k * BlockSize
      BY <2>3
    <3> QED BY <2>3, <2>4, <3>1, <3>2
  <2> QED BY <1>3, <1>4, <2>5
<1>5. CASE x # 0
  <2> DEFINE y == x - 1
  <2>1. y \in Ids /\ y \in 0..Experts /\ x = y + 1 /\ y \notin Bad
    BY <1>0, <1>3, <1>5 DEF Ids
  <2>2. Ok(y)
    BY <2>1
  <2>3. ~Ok(y + 1)
    BY <1>3, <2>1
  <2> HIDE DEF Ok, Bad, y
  <2> DEFINE h == Histogram[y]
  <2>4. Starts[y + 1] = Starts[y] + Padded(h) /\ Starts[y] \in Nat /\ Starts[y + 1] \in Nat
    BY <2>1, StartsAreSums
  <2>5. h \in Nat /\ IsFiniteSet(RoutesTo(y)) /\ Cardinality(RoutesTo(y)) = h
    BY <2>1, LiveFacts
  <2> HIDE DEF h
  <2>6. /\ Padded(h) \in Nat /\ Padded(h) <= h + BlockSize - 1
        /\ h = 0 => Padded(h) = 0
    BY <2>5, PaddedFacts
  <2>7. \E k \in Nat : Starts[y + 1] = k * BlockSize
    <3>1. PICK i \in Nat : Starts[y] = i * BlockSize
      BY <2>2 DEF Ok
    <3>2. PICK j \in Nat : Padded(h) = j * BlockSize
      BY <2>5, PaddedFacts
    <3>3. (i + j) * BlockSize = i * BlockSize + j * BlockSize
      BY <1>0
    <3> QED BY <2>4, <3>1, <3>2, <3>3
  <2>8. /\ IsFiniteSet(Below(y)) /\ IsFiniteSet(Wanted(y))
        /\ Cardinality(Below(y)) \in Nat /\ Cardinality(Wanted(y)) \in Nat
        /\ Starts[y] <= Cardinality(Below(y)) + Cardinality(Wanted(y)) * (BlockSize - 1)
    BY <2>2, FS_CardinalityType DEF Ok
  <2>9. /\ IsFiniteSet(Below(y + 1))
        /\ Cardinality(Below(y + 1)) = Cardinality(Below(y)) + h
    <3>1. Below(y + 1) = Below(y) \cup RoutesTo(y) /\ Below(y) \cap RoutesTo(y) = {}
      <4>1. \A r \in Mapped : Resolve(r) \in Int
        BY LiveFacts DEF Ids
      <4>2. y \in Int
        BY <2>1 DEF Ids
      <4>3. \A r \in Mapped : Resolve(r) < y + 1 <=> Resolve(r) < y \/ Resolve(r) = y
        BY <4>1, <4>2
      <4>4. \A r \in Mapped : Resolve(r) < y => Resolve(r) # y
        BY <4>1, <4>2
      <4> QED BY <4>3, <4>4 DEF Below, RoutesTo
    <3>2. Cardinality({}) = 0 /\ Cardinality(Below(y)) + h - 0 = Cardinality(Below(y)) + h
      BY <2>5, <2>8, FS_EmptySet
    <3> DEFINE B == Below(y)
               R == RoutesTo(y)
    <3>3. IsFiniteSet(B \cup R) /\ Cardinality(B \cup R) = Cardinality(B) + Cardinality(R) - Cardinality(B \cap R)
      <4> HIDE DEF B, R
      <4>1. ASSUME IsFiniteSet(B), IsFiniteSet(R)
            PROVE  IsFiniteSet(B \cup R) /\ Cardinality(B \cup R) = Cardinality(B) + Cardinality(R) - Cardinality(B \cap R)
        BY <4>1, FS_Union
      <4> QED BY <2>5, <2>8, <4>1 DEF B, R
    <3> QED BY <3>1, <3>2, <3>3, <2>5
  <2>10. CASE h = 0
    <3>1. Wanted(y + 1) = Wanted(y)
      <4>1. \A z \in 0..y : z \in 0..y-1 \/ z = y
        BY <2>1 DEF Ids
      <4> QED BY <2>1, <2>10, <4>1 DEF Wanted, h, Ids
    <3>2. Starts[y + 1] = Starts[y] /\ Cardinality(Below(y + 1)) = Cardinality(Below(y))
      BY <2>4, <2>6, <2>8, <2>9, <2>10
    <3> QED BY <2>3, <2>7, <2>8, <2>9, <3>1, <3>2 DEF Ok
  <2>11. CASE h # 0
    <3>1. Wanted(y + 1) = Wanted(y) \cup {y} /\ y \notin Wanted(y)
      <4>1. \A z \in 0..y : z \in 0..y-1 \/ z = y
        BY <2>1 DEF Ids
      <4>2. Histogram[y] > 0
        BY <2>5, <2>11 DEF h
      <4> QED BY <2>1, <4>1, <4>2 DEF Wanted, Ids
    <3>2. IsFiniteSet(Wanted(y + 1)) /\ Cardinality(Wanted(y + 1)) = Cardinality(Wanted(y)) + 1
      BY <3>1, <2>8, FS_AddElement
    <3>3. (Cardinality(Wanted(y)) + 1) * (BlockSize - 1)
            = Cardinality(Wanted(y)) * (BlockSize - 1) + (BlockSize - 1)
      BY <1>0, <2>8
    <3> DEFINE cw == Cardinality(Wanted(y)) * (BlockSize - 1)
               cw1 == Cardinality(Wanted(y + 1)) * (BlockSize - 1)
    <3>4. cw \in Nat /\ cw1 = cw + (BlockSize - 1)
      BY <1>0, <2>8, <3>2, <3>3, ProductMonotone
    <3>5. Starts[y] <= Cardinality(Below(y)) + cw
      BY <2>8
    <3>6. Starts[y + 1] <= Cardinality(Below(y + 1)) + cw1
      <4> HIDE DEF cw, cw1
      <4> QED BY <1>0, <2>4, <2>5, <2>6, <2>8, <2>9, <3>4, <3>5
    <3> QED BY <2>3, <2>7, <2>9, <3>2, <3>6 DEF Ok
  <2> QED BY <2>10, <2>11
<1> QED BY <1>4, <1>5

\* All the ranges fit in the slots the call initialises, and those in the array.
LEMMA CapacitySuffices ==
  ASSUME PackTyped
  PROVE  /\ Starts[Experts] <= SlotCapacity(Live)
         /\ SlotCapacity(Live) \in Nat /\ SlotCapacity(Live) <= MaxRoutes * BlockSize
<1>0. /\ Experts \in Nat \ {0} /\ BlockSize \in Nat \ {0} /\ MaxRoutes \in Nat
      /\ BlockSize - 1 \in Nat /\ Experts \in 0..Experts
  BY PackAssumption
<1> DEFINE W == Wanted(Experts)
           m == Min({Live, Experts})
<1>1. /\ IsFiniteSet(W) /\ IsFiniteSet(Below(Experts))
      /\ Cardinality(W) \in Nat /\ Cardinality(Below(Experts)) \in Nat
      /\ Starts[Experts] <= Cardinality(Below(Experts)) + Cardinality(W) * (BlockSize - 1)
  BY <1>0, StartsBounded, FS_CardinalityType
<1>2. /\ Live \in Nat /\ Live <= MaxRoutes /\ IsFiniteSet(Mapped)
      /\ Cardinality(Mapped) \in Nat /\ Cardinality(Mapped) <= Live
  BY <1>0, LiveFacts
<1>3. Cardinality(Below(Experts)) <= Live
  <2>1. Below(Experts) \subseteq Mapped
    BY DEF Below
  <2>2. Cardinality(Below(Experts)) <= Cardinality(Mapped)
    BY <2>1, <1>2, FS_Subset
  <2> QED BY <1>1, <1>2, <2>2
<1>4. Cardinality(W) <= Experts
  <2>1. W \subseteq 0..Experts-1
    BY DEF Wanted
  <2>2. IsFiniteSet(0..Experts-1) /\ Cardinality(0..Experts-1) = Experts
    BY <1>0, FS_Interval, 0 \in Int, Experts - 1 \in Int
  <2>3. Cardinality(W) <= Cardinality(0..Experts-1)
    <3> HIDE DEF W
    <3> QED BY <2>1, <2>2, FS_Subset
  <2> QED BY <2>2, <2>3
<1>5. Cardinality(W) <= Live
  <2> DEFINE Image == {Resolve(r) : r \in Mapped}
  <2>1. W \subseteq Image
    <3> SUFFICES ASSUME NEW x \in W PROVE x \in Image
      OBVIOUS
    <3>1. x \in Ids /\ Histogram[x] > 0
      BY DEF Wanted, Ids
    <3>2. IsFiniteSet(RoutesTo(x)) /\ Cardinality(RoutesTo(x)) > 0
      BY <3>1, LiveFacts
    <3>3. RoutesTo(x) # {}
      BY <3>2, FS_EmptySet
    <3> QED BY <3>3 DEF RoutesTo
  <2>2. IsFiniteSet(Image) /\ Cardinality(Image) <= Cardinality(Mapped)
    <3> DEFINE f == [r \in Mapped |-> Resolve(r)]
    <3>1. f \in Surjection(Mapped, Image)
      BY DEF Surjection
    <3> HIDE DEF f, Image
    <3> QED BY <3>1, <1>2, FS_Surjection
  <2>3. Cardinality(W) <= Cardinality(Image)
    <3> HIDE DEF W, Image
    <3> QED BY <2>1, <2>2, FS_Subset
  <2>4. Cardinality(Image) \in Nat
    BY <2>2, FS_CardinalityType
  <2> HIDE DEF W, Image
  <2> QED BY <1>1, <1>2, <2>2, <2>3, <2>4
<1>6. m \in Nat /\ m <= Live /\ Cardinality(W) <= m
  BY <1>0, <1>1, <1>2, <1>4, <1>5, MinOfTwo
<1> DEFINE w == Cardinality(W)
<1>7. /\ w * (BlockSize - 1) \in Nat /\ w * (BlockSize - 1) <= m * (BlockSize - 1)
      /\ m * (BlockSize - 1) \in Nat
  <2> HIDE DEF m, W
  <2> QED BY <1>0, <1>1, <1>6, ProductMonotone
<1>8. /\ Live * (BlockSize - 1) \in Nat /\ m * (BlockSize - 1) <= Live * (BlockSize - 1)
  <2> HIDE DEF m
  <2> QED BY <1>0, <1>2, <1>6, ProductMonotone
<1>9. Live + Live * (BlockSize - 1) = Live * BlockSize
  BY <1>0, <1>2
<1>10. Live * BlockSize \in Nat /\ Live * BlockSize <= MaxRoutes * BlockSize
       /\ MaxRoutes * BlockSize \in Nat
  BY <1>0, <1>2, ProductMonotone
<1>11. SlotCapacity(Live) = Live + m * (BlockSize - 1)
  BY DEF SlotCapacity
<1> DEFINE wb == w * (BlockSize - 1)
           mb == m * (BlockSize - 1)
           lb == Live * (BlockSize - 1)
           LB == Live * BlockSize
           RB == MaxRoutes * BlockSize
<1>12. Starts[Experts] \in Nat
  BY <1>0, StartsAreSums
<1> HIDE DEF wb, mb, lb, LB, RB
<1>13. /\ Starts[Experts] <= Cardinality(Below(Experts)) + wb
       /\ wb \in Nat /\ wb <= mb /\ mb \in Nat /\ lb \in Nat /\ mb <= lb
       /\ Live + lb = LB /\ LB \in Nat /\ LB <= RB /\ RB \in Nat
       /\ SlotCapacity(Live) = Live + mb
  BY <1>1, <1>7, <1>8, <1>9, <1>10, <1>11 DEF wb, mb, lb, LB, RB
<1>14. /\ Starts[Experts] <= SlotCapacity(Live)
       /\ SlotCapacity(Live) \in Nat /\ SlotCapacity(Live) <= RB
  <2> HIDE DEF m, W
  <2> QED BY <1>1, <1>2, <1>3, <1>12, <1>13
<1> QED BY <1>14 DEF RB

\* Every slot below the total is in the range of exactly one expert.
LEMMA SlotHasExpert ==
  ASSUME PackTyped, NEW s \in 0..Starts[Experts]-1
  PROVE  \E e \in Ids : s \in Starts[e]..Starts[e+1]-1
<1> DEFINE T == {e \in 0..Experts : s < Starts[e]}
<1>0. Experts \in Nat \ {0} /\ Experts \in 0..Experts
  BY PackAssumption
<1>1. Starts \in [0..Experts -> Nat] /\ Starts[0] = 0
  BY StartsAreSums
<1>2. Starts[Experts] \in Nat /\ s \in Nat /\ s < Starts[Experts]
  BY <1>0, <1>1
<1>3. PICK x \in T : \A y \in T : x <= y
  <2>1. T \in SUBSET Nat /\ T # {}
    BY <1>0, <1>2
  <2> HIDE DEF T
  <2> QED BY <2>1, LeastNumber
<1>4. x # 0
  BY <1>1, <1>2, <1>3
<1>5. x - 1 \in Ids /\ x - 1 \in 0..Experts /\ x - 1 \notin T /\ (x - 1) + 1 = x
  BY <1>0, <1>3, <1>4 DEF Ids
<1>6. Starts[x-1] <= s /\ s < Starts[x] /\ Starts[x] \in Nat /\ Starts[x-1] \in Nat
  BY <1>1, <1>2, <1>3, <1>5
<1>7. s \in Starts[x-1]..Starts[(x-1)+1]-1
  BY <1>2, <1>5, <1>6
<1> QED BY <1>5, <1>7

LEMMA ExpertOfSlotUnique ==
  ASSUME PackTyped, NEW e \in Ids, NEW x \in Ids, NEW s \in Nat,
         s \in Starts[e]..Starts[e+1]-1, s \in Starts[x]..Starts[x+1]-1
  PROVE  e = x
<1>1. /\ e \in 0..Experts /\ e + 1 \in 0..Experts /\ x \in 0..Experts /\ x + 1 \in 0..Experts
      /\ e \in Nat /\ x \in Nat
  BY StartsAreSums DEF Ids
<1>2. /\ Starts[e] \in Nat /\ Starts[x] \in Nat /\ Starts[e+1] \in Nat /\ Starts[x+1] \in Nat
  BY <1>1, StartsAreSums
<1>3. e + 1 <= x => Starts[e+1] <= Starts[x]
  BY <1>1, StartsAreSums
<1>4. x + 1 <= e => Starts[x+1] <= Starts[e]
  BY <1>1, StartsAreSums
<1> QED BY <1>1, <1>2, <1>3, <1>4

\* A block begins and ends in the range of its owner.
LEMMA BlockInRange ==
  ASSUME PackTyped, NEW b \in Nat, NEW e \in Ids,
         b * BlockSize \in Starts[e]..Starts[e+1]-1
  PROVE  /\ Owner(Starts, b) = e
         /\ \A i \in 0..BlockSize-1 : b * BlockSize + i \in Starts[e]..Starts[e+1]-1
<1>0. BlockSize \in Nat \ {0}
  BY PackAssumption
<1>1. /\ e \in 0..Experts /\ e + 1 \in 0..Experts
      /\ Starts[e] \in Nat /\ Starts[e+1] \in Nat /\ b * BlockSize \in Nat
  BY <1>0, StartsAreSums, ProductMonotone
<1>2. PICK k \in Nat : Starts[e+1] = k * BlockSize
  BY <1>1, StartsBounded
<1>3. b < k
  <2>1. k <= b => k * BlockSize <= b * BlockSize
    BY <1>0, ProductMonotone
  <2> DEFINE kb == k * BlockSize
             bb == b * BlockSize
  <2>2. kb \in Nat /\ bb \in Nat /\ bb < kb
    BY <1>1, <1>2
  <2> HIDE DEF kb, bb
  <2>3. ~(kb <= bb)
    BY <2>2
  <2> QED BY <2>1, <2>3 DEF kb, bb
<1>4. b * BlockSize + BlockSize <= k * BlockSize
  BY <1>0, <1>3, ProductStrict
<1>5. \A i \in 0..BlockSize-1 : b * BlockSize + i \in Starts[e]..Starts[e+1]-1
  <2> DEFINE bb == b * BlockSize
  <2>1. bb + BlockSize <= Starts[e+1] /\ bb \in Nat /\ Starts[e] <= bb
    BY <1>1, <1>2, <1>4
  <2> HIDE DEF bb
  <2>2. \A i \in 0..BlockSize-1 : bb + i \in Starts[e]..Starts[e+1]-1
    BY <1>0, <1>1, <2>1
  <2> QED BY <2>2 DEF bb
<1>6. {x \in Ids : b * BlockSize \in Starts[x]..Starts[x+1]-1} = {e}
  <2>1. \A x \in Ids : b * BlockSize \in Starts[x]..Starts[x+1]-1 => x = e
    BY <1>1, ExpertOfSlotUnique
  <2> QED BY <2>1
<1>7. Max({e}) = e
  BY DEF Max, Ids
<1> QED BY <1>5, <1>6, <1>7, {e} # {} DEF Owner

\* The sort: of each expert's range the front holds the routes that have been
\* sorted into it, each once, and the rest the sentinel.
SortedTo(e) == {r \in Mapped : r \notin unsorted /\ Resolve(r) = e}

RangeSorted(e) ==
  /\ offsets[e] = Starts[e] + Cardinality(SortedTo(e))
  /\ \A s \in Starts[e]..offsets[e]-1 : slots[s] \in SortedTo(e)
  /\ \A s \in offsets[e]..Starts[e+1]-1 : slots[s] = Live
  /\ \A s, u \in Starts[e]..offsets[e]-1 : slots[s] = slots[u] => s = u
  /\ \A r \in SortedTo(e) : \E s \in Starts[e]..offsets[e]-1 : slots[s] = r

SortInv ==
  /\ offsets \in [0..Experts -> Nat]
  /\ unsorted \subseteq Mapped
  /\ total = Starts[Experts]
  /\ \A e \in Ids : RangeSorted(e)
  /\ \A b \in Blocks : b * BlockSize < total => blockOf[b] = Owner(Starts, b)

PackPlaces ==
  {"idle", "small", "count", "counted", "prefix", "prefixed", "sort", "packed"}

PackInv ==
  /\ pack \in PackPlaces
  /\ slots \in [Slots -> Int]
  /\ DOMAIN blockOf = Blocks
  /\ pack # "idle" => PackTyped
  /\ pack = "counted" => counts = Histogram
  /\ pack = "prefixed" => offsets = Starts /\ total = Starts[Experts]
  /\ pack \in {"sort", "packed"} => SortInv
  /\ pack = "packed" => unsorted = {}

\* What a step of the system does to the arrays of the packing.
PackMove ==
  \/ \E topk \in Routings, t \in {"a", "b"}, route \in {"small", "count", "prefix"} :
       PackCall(topk, TierMap[t], route)
  \/ PackKernel
  \/ UNCHANGED packVars

LEMMA PackMoves == [MoeNext]_moeVars => PackMove
<1>1. DOMAIN TierMap = {"a", "b"}
  BY CallAssumption
<1>2. ASSUME Call PROVE PackMove
  BY <1>1, <1>2 DEF Call, CallDirect, CallPacked, PackMove
<1>3. ASSUME Work PROVE PackMove
  BY <1>3 DEF Work, PackStep, LaunchPacked, KernelStep, KernelEnd, TopKSum, PackMove
<1>4. ASSUME UNCHANGED moeVars PROVE PackMove
  BY <1>4 DEF moeVars, PackMove
<1> QED BY <1>2, <1>3, <1>4 DEF MoeNext, Exhausted

LEMMA SameCall ==
  ASSUME UNCHANGED <<ids, expertMap>>
  PROVE  /\ Live' = Live /\ Mapped' = Mapped /\ Histogram' = Histogram
         /\ Starts' = Starts /\ (PackTyped <=> PackTyped')
         /\ \A r : Resolve(r)' = Resolve(r)
         /\ \A b : Owner(Starts, b)' = Owner(Starts, b)
<1>1. Live' = Live
  BY DEF Live
<1>2. \A r : Resolve(r)' = Resolve(r)
  BY DEF Resolve
<1>3. Mapped' = Mapped
  BY <1>2 DEF Mapped
<1>4. Histogram' = Histogram
  BY <1>2, <1>3 DEF Histogram
<1>5. Starts' = Starts
  BY <1>4 DEF Starts
<1>6. PackTyped <=> PackTyped'
  BY DEF PackTyped
<1>7. \A b : Owner(Starts, b)' = Owner(Starts, b)
  BY <1>5 DEF Owner
<1> QED BY <1>1, <1>2, <1>3, <1>4, <1>5, <1>6, <1>7

LEMMA PackInvInit == PackInit => PackInv
<1> SUFFICES ASSUME PackInit PROVE PackInv
  OBVIOUS
<1>1. MaxRoutes * BlockSize \in Nat
  BY PackAssumption, ProductMonotone
<1>2. slots \in [Slots -> Int]
  BY <1>1 DEF PackInit, Slots
<1> QED BY <1>2 DEF PackInit, PackInv, PackPlaces

\* The initialisation of the arrays makes every range empty.
LEMMA ToSortInv ==
  ASSUME PackTyped, UNCHANGED <<ids, expertMap>>, slots \in [Slots -> Int],
         offsets' = Starts, total' = Starts[Experts],
         slots' = SlotsEmptied, blockOf' = BlocksOwned(Starts), ToSort
  PROVE  PackInv'
<1>1. /\ Live' = Live /\ Mapped' = Mapped /\ Starts' = Starts /\ PackTyped'
      /\ \A r : Resolve(r)' = Resolve(r)
      /\ \A b : Owner(Starts, b)' = Owner(Starts, b)
  BY SameCall
<1>2. /\ Starts[Experts] <= SlotCapacity(Live)
      /\ SlotCapacity(Live) \in Nat /\ SlotCapacity(Live) <= MaxRoutes * BlockSize
  BY CapacitySuffices
<1>3. /\ Starts \in [0..Experts -> Nat] /\ Experts \in 0..Experts /\ Live \in Nat
      /\ MaxRoutes * BlockSize \in Nat
  BY StartsAreSums, LiveFacts, PackAssumption, ProductMonotone
<1>4. slots' \in [Slots -> Int]
  BY <1>3 DEF SlotsEmptied
<1>5. ASSUME NEW e \in Ids PROVE RangeSorted(e)'
  <2>1. SortedTo(e)' = {}
    BY <1>1 DEF SortedTo, ToSort
  <2>2. /\ e \in 0..Experts /\ e+1 \in 0..Experts /\ Starts[e] \in Nat /\ Starts[e+1] \in Nat
        /\ Starts[e+1] <= Starts[Experts] /\ Starts[Experts] \in Nat
    BY <1>3, StartsAreSums
  <2>3. offsets'[e] = Starts'[e] + 0 /\ offsets'[e] = Starts[e] /\ Starts'[e] = Starts[e]
        /\ Starts'[e+1] = Starts[e+1]
    BY <1>1, <2>2
  <2>4. Starts[e]..Starts[e]-1 = {}
    BY <2>2
  <2>5. \A s \in Starts[e]..Starts[e+1]-1 : slots'[s] = Live
    <3> TAKE s \in Starts[e]..Starts[e+1]-1
    <3> DEFINE cap == MaxRoutes * BlockSize
    <3>1. cap \in Nat /\ SlotCapacity(Live) <= cap
      BY <1>2, <1>3
    <3> HIDE DEF cap
    <3>2. s \in Nat /\ s < SlotCapacity(Live) /\ s \in 0..cap-1
      BY <1>2, <2>2, <3>1
    <3>3. s \in Slots
      BY <3>2 DEF Slots, cap
    <3> QED BY <3>2, <3>3 DEF SlotsEmptied
  <2> QED BY <1>1, <2>1, <2>3, <2>4, <2>5, FS_EmptySet DEF RangeSorted
<1>6. \A b \in Blocks : b * BlockSize < total' => blockOf'[b] = Owner(Starts, b)
  <2> TAKE b \in Blocks
  <2> HAVE b * BlockSize < total'
  <2> DEFINE bb == b * BlockSize
  <2>1. bb \in Nat /\ bb < Starts[Experts] /\ Starts[Experts] \in Nat
    BY <1>3, PackAssumption, ProductMonotone DEF Blocks
  <2> HIDE DEF bb
  <2>2. bb < SlotCapacity(Live)
    BY <1>2, <2>1
  <2> QED BY <2>2 DEF BlocksOwned, bb
<1>7. DOMAIN blockOf' = Blocks
  BY DEF BlocksOwned
<1>8. SortInv'
  BY <1>1, <1>3, <1>5, <1>6 DEF SortInv, ToSort
<1> QED BY <1>1, <1>4, <1>7, <1>8 DEF PackInv, PackPlaces, ToSort

LEMMA SortRouteInv ==
  ASSUME PackInv, NEW r \in unsorted, SortRoute(r)
  PROVE  PackInv'
<1>0. pack = "sort" /\ PackTyped /\ SortInv /\ slots \in [Slots -> Int]
  BY DEF PackInv, SortRoute
<1>1. /\ Live' = Live /\ Mapped' = Mapped /\ Starts' = Starts /\ PackTyped'
      /\ \A x : Resolve(x)' = Resolve(x)
      /\ \A b : Owner(Starts, b)' = Owner(Starts, b)
  BY <1>0, SameCall DEF SortRoute
<1>2. /\ offsets \in [0..Experts -> Nat] /\ unsorted \subseteq Mapped
      /\ total = Starts[Experts] /\ \A e \in Ids : RangeSorted(e)
      /\ \A b \in Blocks : b * BlockSize < total => blockOf[b] = Owner(Starts, b)
  BY <1>0 DEF SortInv
<1>x. PICK x : x = Resolve(r)
  OBVIOUS
<1> DEFINE p == offsets[x]
<1>3. r \in Mapped /\ x \in Ids /\ x \in 0..Experts /\ x+1 \in 0..Experts
      /\ r \in 0..Live-1 /\ Live \in Nat
  BY <1>0, <1>2, <1>x, LiveFacts, StartsAreSums
<1>4. /\ Starts \in [0..Experts -> Nat] /\ Starts[x] \in Nat /\ Starts[x+1] \in Nat
      /\ p \in Nat /\ Starts[Experts] \in Nat /\ Starts[x+1] <= Starts[Experts]
  BY <1>0, <1>2, <1>3, StartsAreSums, PackAssumption
<1>5. IsFiniteSet(SortedTo(x)) /\ Cardinality(SortedTo(x)) \in Nat
      /\ Cardinality(SortedTo(x)) + 1 <= Histogram[x] /\ Histogram[x] \in Nat
      /\ SortedTo(x)' = SortedTo(x) \cup {r} /\ r \notin SortedTo(x)
  <2>1. SortedTo(x)' = SortedTo(x) \cup {r} /\ r \notin SortedTo(x)
    BY <1>1, <1>2, <1>3, <1>x DEF SortedTo, SortRoute
  <2>2. IsFiniteSet(RoutesTo(x)) /\ Histogram[x] = Cardinality(RoutesTo(x)) /\ Histogram[x] \in Nat
    BY <1>0, <1>3, LiveFacts
  <2>3. SortedTo(x) \cup {r} \subseteq RoutesTo(x)
    BY <1>3, <1>x DEF SortedTo, RoutesTo
  <2>4. IsFiniteSet(SortedTo(x))
    BY <2>2, <2>3, FS_Subset
  <2>5. IsFiniteSet(SortedTo(x) \cup {r}) /\ Cardinality(SortedTo(x) \cup {r}) = Cardinality(SortedTo(x)) + 1
    BY <2>1, <2>4, FS_AddElement
  <2>6. Cardinality(SortedTo(x) \cup {r}) <= Cardinality(RoutesTo(x))
    BY <2>2, <2>3, FS_Subset
  <2> QED BY <2>1, <2>2, <2>4, <2>5, <2>6, FS_CardinalityType
<1>6. p < Starts[x+1] /\ p = Starts[x] + Cardinality(SortedTo(x)) /\ Starts[x] <= p
  <2>1. Starts[x+1] = Starts[x] + Padded(Histogram[x])
    BY <1>0, <1>3, StartsAreSums
  <2>2. Histogram[x] <= Padded(Histogram[x]) /\ Padded(Histogram[x]) \in Nat
    BY <1>5, PaddedFacts
  <2>3. p = Starts[x] + Cardinality(SortedTo(x))
    BY <1>2, <1>3 DEF RangeSorted
  <2> HIDE DEF p
  <2> QED BY <1>4, <1>5, <2>1, <2>2, <2>3
<1>7. p \in Slots
  <2> DEFINE cap == MaxRoutes * BlockSize
  <2>1. /\ Starts[Experts] <= SlotCapacity(Live)
        /\ SlotCapacity(Live) \in Nat /\ SlotCapacity(Live) <= cap
    BY <1>0, CapacitySuffices
  <2>2. cap \in Nat
    BY PackAssumption, ProductMonotone
  <2> HIDE DEF p, cap
  <2>3. p \in 0..cap-1
    BY <1>4, <1>6, <2>1, <2>2
  <2> QED BY <2>3 DEF Slots, cap
<1>8. /\ slots' = [slots EXCEPT ![p] = r] /\ offsets' = [offsets EXCEPT ![x] = @ + 1]
      /\ unsorted' = unsorted \ {r} /\ UNCHANGED <<pack, counts, total, blockOf>>
  BY <1>x DEF SortRoute
<1>9. slots' \in [Slots -> Int] /\ slots'[p] = r /\ \A s \in Slots \ {p} : slots'[s] = slots[s]
  BY <1>0, <1>3, <1>7, <1>8
<1>10. offsets' \in [0..Experts -> Nat] /\ offsets'[x] = p + 1
       /\ \A e \in 0..Experts : e # x => offsets'[e] = offsets[e]
  BY <1>2, <1>3, <1>4, <1>8
<1> HIDE DEF p
<1>11. ASSUME NEW e \in Ids, NEW s \in Starts[e]..Starts[e+1]-1
       PROVE  s \in Slots /\ (e # x => s # p)
  <2>1. e \in 0..Experts /\ e+1 \in 0..Experts /\ Starts[e] \in Nat /\ Starts[e+1] \in Nat
    BY <1>0, StartsAreSums
  <2>2. Starts[e+1] <= Starts[Experts]
    BY <1>0, <2>1, StartsAreSums, PackAssumption
  <2> DEFINE cap == MaxRoutes * BlockSize
  <2>3. /\ Starts[Experts] <= SlotCapacity(Live)
        /\ SlotCapacity(Live) \in Nat /\ SlotCapacity(Live) <= cap
    BY <1>0, CapacitySuffices
  <2>4. cap \in Nat
    BY PackAssumption, ProductMonotone
  <2> HIDE DEF cap
  <2>5. s \in 0..cap-1 /\ s \in Nat
    BY <1>4, <2>1, <2>2, <2>3, <2>4
  <2>6. p \in Starts[x]..Starts[x+1]-1
    BY <1>4, <1>6
  <2>7. s = p => e = x
    BY <1>0, <1>3, <2>5, <2>6, ExpertOfSlotUnique
  <2> QED BY <2>5, <2>7 DEF Slots, cap
<1>12. ASSUME NEW e \in Ids, e # x PROVE RangeSorted(e)'
  <2>1. RangeSorted(e) /\ e \in 0..Experts /\ e+1 \in 0..Experts
    BY <1>0, <1>2, StartsAreSums
  <2>2. SortedTo(e)' = SortedTo(e)
    BY <1>1, <1>8, <1>12, <1>x DEF SortedTo
  <2>3. /\ offsets'[e] = offsets[e] /\ offsets[e] \in Nat
        /\ Starts'[e] = Starts[e] /\ Starts'[e+1] = Starts[e+1]
    BY <1>1, <1>2, <1>10, <1>12, <2>1
  <2>4. IsFiniteSet(SortedTo(e)) /\ Cardinality(SortedTo(e)) <= Histogram[e] /\ Histogram[e] \in Nat
        /\ Cardinality(SortedTo(e)) \in Nat
    <3>1. SortedTo(e) \subseteq RoutesTo(e)
      BY DEF SortedTo, RoutesTo
    <3>2. IsFiniteSet(RoutesTo(e)) /\ Histogram[e] = Cardinality(RoutesTo(e)) /\ Histogram[e] \in Nat
      BY <1>0, LiveFacts
    <3> QED BY <3>1, <3>2, FS_Subset, FS_CardinalityType
  <2>5. Starts[e] <= offsets[e] /\ offsets[e] <= Starts[e+1]
        /\ Starts[e] \in Nat /\ Starts[e+1] \in Nat
    <3>1. Starts[e+1] = Starts[e] + Padded(Histogram[e])
      BY <1>0, StartsAreSums
    <3>2. Histogram[e] <= Padded(Histogram[e]) /\ Padded(Histogram[e]) \in Nat
      BY <2>4, PaddedFacts
    <3>3. offsets[e] = Starts[e] + Cardinality(SortedTo(e))
      BY <2>1 DEF RangeSorted
    <3>4. Starts[e] \in Nat /\ Starts[e+1] \in Nat
      BY <1>0, <2>1, StartsAreSums
    <3>5. PICK n \in Nat, h \in Nat, m \in Nat, d \in Nat :
            /\ n = Starts[e] /\ m = Padded(Histogram[e]) /\ h = Histogram[e]
            /\ d = Cardinality(SortedTo(e))
      BY <2>4, <3>2, <3>4
    <3>6. n <= n + d /\ n + d <= n + m
      BY <2>4, <3>2, <3>5
    <3> QED BY <3>1, <3>3, <3>4, <3>5, <3>6
  <2>6. \A s \in Starts[e]..Starts[e+1]-1 : slots'[s] = slots[s]
    BY <1>9, <1>11, <1>12
  <2>7. /\ \A s \in Starts[e]..offsets[e]-1 : s \in Starts[e]..Starts[e+1]-1
        /\ \A s \in offsets[e]..Starts[e+1]-1 : s \in Starts[e]..Starts[e+1]-1
    BY <2>3, <2>5
  <2> QED BY <1>1, <2>1, <2>2, <2>3, <2>6, <2>7 DEF RangeSorted
<1>13. RangeSorted(x)'
  <2>1. RangeSorted(x) /\ Starts'[x] = Starts[x] /\ Starts'[x+1] = Starts[x+1]
    BY <1>1, <1>2, <1>3
  <2>2. Cardinality(SortedTo(x)') = Cardinality(SortedTo(x)) + 1
    BY <1>5, FS_AddElement
  <2>3. offsets'[x] = Starts[x] + Cardinality(SortedTo(x)')
    <3>1. p = Starts[x] + Cardinality(SortedTo(x)) /\ offsets'[x] = p + 1
      BY <1>6, <1>10
    <3>2. Cardinality(SortedTo(x)) \in Nat /\ Starts[x] \in Nat
      BY <1>4, <1>5, FS_CardinalityType
    <3> QED BY <2>2, <3>1, <3>2
  <2>4. /\ \A s \in Starts[x]..p : s \in Starts[x]..Starts[x+1]-1 /\ (s # p => s \in Starts[x]..p-1)
        /\ \A s \in p+1..Starts[x+1]-1 : s \in Starts[x]..Starts[x+1]-1 /\ s # p /\ s \in p..Starts[x+1]-1
        /\ \A s \in Starts[x]..p-1 : s \in Starts[x]..p /\ s # p
        /\ p \in Starts[x]..p
    BY <1>4, <1>6
  <2>5. \A s \in Starts[x]..p-1 : slots'[s] = slots[s]
    BY <1>3, <1>9, <1>11, <2>4
  <2>6. \A s \in p+1..Starts[x+1]-1 : slots'[s] = slots[s]
    BY <1>3, <1>9, <1>11, <2>4
  <2>7. offsets'[x]-1 = p /\ offsets'[x] = p + 1 /\ offsets[x] = p
    BY <1>4, <1>10 DEF p
  <2>8. \A s \in Starts[x]..p : slots'[s] \in SortedTo(x)'
    BY <1>5, <1>9, <2>1, <2>4, <2>5, <2>7 DEF RangeSorted
  <2>9. \A s \in p+1..Starts[x+1]-1 : slots'[s] = Live'
    BY <1>1, <2>1, <2>4, <2>6, <2>7 DEF RangeSorted
  <2>10. \A s, u \in Starts[x]..p : slots'[s] = slots'[u] => s = u
    <3>1. \A s, u \in Starts[x]..p-1 : slots'[s] = slots'[u] => s = u
      BY <2>1, <2>5, <2>7 DEF RangeSorted
    <3>2. \A s \in Starts[x]..p-1 : slots'[s] # r
      BY <1>5, <2>1, <2>5, <2>7 DEF RangeSorted
    <3> QED BY <1>9, <2>4, <3>1, <3>2
  <2>11. \A q \in SortedTo(x)' : \E s \in Starts[x]..p : slots'[s] = q
    BY <1>5, <1>9, <2>1, <2>4, <2>5, <2>7 DEF RangeSorted
  <2> QED BY <2>1, <2>3, <2>7, <2>8, <2>9, <2>10, <2>11 DEF RangeSorted
<1>14. SortInv'
  BY <1>1, <1>2, <1>8, <1>10, <1>12, <1>13 DEF SortInv
<1> QED BY <1>0, <1>1, <1>8, <1>9, <1>14 DEF PackInv, PackPlaces

LEMMA PackInvStep == PackInv /\ PackMove => PackInv'
<1> SUFFICES ASSUME PackInv, PackMove PROVE PackInv'
  OBVIOUS
<1>1. ASSUME NEW topk \in Routings, NEW t \in {"a", "b"},
             NEW route \in {"small", "count", "prefix"}, PackCall(topk, TierMap[t], route)
      PROVE  PackInv'
  <2>1. PackTyped'
    BY <1>1, CallAssumption DEF PackCall, PackTyped
  <2> QED BY <1>1, <2>1 DEF PackCall, PackInv, PackPlaces
<1>2. CASE SmallPrefix
  <2>1. PackTyped /\ slots \in [Slots -> Int] /\ Prefix(Histogram) = Starts
    BY <1>2 DEF SmallPrefix, PackInv, Starts
  <2> QED BY <1>2, <2>1, ToSortInv DEF SmallPrefix, Offset
<1>3. CASE Count
  <2>1. PackTyped /\ UNCHANGED <<ids, expertMap>>
    BY <1>3 DEF Count, PackInv
  <2>2. PackTyped' /\ Histogram' = Histogram
    BY <2>1, SameCall
  <2> QED BY <1>3, <2>2 DEF Count, PackInv, PackPlaces
<1>4. CASE PrefixFromCounts
  <2>1. PackTyped /\ UNCHANGED <<ids, expertMap>> /\ counts = Histogram
    BY <1>4 DEF PrefixFromCounts, PackInv
  <2>2. PackTyped' /\ Starts' = Starts
    BY <2>1, SameCall
  <2> QED BY <1>4, <2>1, <2>2 DEF PrefixFromCounts, PackInv, PackPlaces, Offset, Starts
<1>5. CASE PrefixCaptured
  <2>1. PackTyped /\ UNCHANGED <<ids, expertMap>>
    BY <1>5 DEF PrefixCaptured, PackInv
  <2>2. PackTyped' /\ Starts' = Starts
    BY <2>1, SameCall
  <2> QED BY <1>5, <2>2 DEF PrefixCaptured, PackInv, PackPlaces, Offset, Starts
<1>6. CASE PostPrefix
  <2>1. /\ PackTyped /\ slots \in [Slots -> Int] /\ UNCHANGED <<ids, expertMap>>
        /\ offsets = Starts /\ total = Starts[Experts]
    BY <1>6 DEF PostPrefix, PackInv
  <2> QED BY <1>6, <2>1, ToSortInv DEF PostPrefix
<1>7. CASE \E r \in unsorted : SortRoute(r)
  BY <1>7, SortRouteInv
<1>8. ASSUME SortEnd \/ UNCHANGED packVars PROVE PackInv'
  <2>1. UNCHANGED <<ids, expertMap, counts, offsets, total, slots, blockOf, unsorted>>
    BY <1>8 DEF SortEnd, packVars
  <2>2. /\ Live' = Live /\ Mapped' = Mapped /\ Histogram' = Histogram
        /\ Starts' = Starts /\ (PackTyped <=> PackTyped')
        /\ \A r : Resolve(r)' = Resolve(r)
        /\ \A b : Owner(Starts, b)' = Owner(Starts, b)
    BY <2>1, SameCall
  <2>3. SortInv => SortInv'
    <3>1. \A e : SortedTo(e)' = SortedTo(e)
      BY <2>1, <2>2 DEF SortedTo
    <3>2. \A e \in Ids : RangeSorted(e) => RangeSorted(e)'
      BY <2>1, <2>2, <3>1 DEF RangeSorted
    <3> QED BY <2>1, <2>2, <3>2 DEF SortInv
  <2> QED BY <1>8, <2>1, <2>2, <2>3 DEF PackInv, PackPlaces, SortEnd, packVars
<1> QED BY <1>1, <1>2, <1>3, <1>4, <1>5, <1>6, <1>7, <1>8 DEF PackMove, PackKernel

\* A packed block lies in the range of one expert, and is marked with it.
LEMMA PackedBlock ==
  ASSUME PackInv, pack = "packed", NEW b \in 0..RouteBlocks-1
  PROVE  /\ b \in Blocks
         /\ \E e \in Ids : /\ blockOf[b] = e
                           /\ \A i \in 0..BlockSize-1 : b * BlockSize + i \in Starts[e]..Starts[e+1]-1
<1>0. PackTyped /\ SortInv /\ unsorted = {}
  BY DEF PackInv
<1>1. /\ offsets \in [0..Experts -> Nat] /\ total = Starts[Experts]
      /\ \A e \in Ids : RangeSorted(e)
      /\ \A x \in Blocks : x * BlockSize < total => blockOf[x] = Owner(Starts, x)
  BY <1>0 DEF SortInv
<1>2. /\ BlockSize \in Nat \ {0} /\ Experts \in 0..Experts /\ MaxRoutes \in Nat
  BY PackAssumption
<1>3. /\ Live \in 1..MaxRoutes /\ Mapped \subseteq 0..Live-1
      /\ \A r \in Mapped : Resolve(r) \in Ids
  BY <1>0, LiveFacts
<1>4. total \in Nat
  BY <1>0, <1>1, <1>2, StartsAreSums
<1>5. /\ RouteBlocks \in Nat /\ total % BlockSize \in 0..BlockSize-1
      /\ RouteBlocks * BlockSize \in Nat
      /\ total = RouteBlocks * BlockSize + (total % BlockSize)
  BY <1>2, <1>4, DivMod DEF RouteBlocks
<1>6. b \in Nat /\ b < RouteBlocks
  BY <1>5
<1>7. b * BlockSize + BlockSize <= RouteBlocks * BlockSize /\ b * BlockSize \in Nat
  BY <1>2, <1>5, <1>6, ProductStrict
<1>8. b * BlockSize \in 0..total-1
  <2> DEFINE bb == b * BlockSize
             rb == RouteBlocks * BlockSize
  <2>1. bb \in Nat /\ rb \in Nat /\ bb + BlockSize <= rb /\ rb <= total
    BY <1>2, <1>5, <1>7
  <2> HIDE DEF bb, rb
  <2>2. bb \in 0..total-1
    BY <1>2, <1>4, <2>1
  <2> QED BY <2>2 DEF bb
<1>9. b * BlockSize < total
  <2> DEFINE bb == b * BlockSize
  <2>1. bb \in 0..total-1
    BY <1>8
  <2> HIDE DEF bb
  <2>2. bb < total
    BY <1>4, <2>1
  <2> QED BY <2>2 DEF bb
<1>10. b \in Blocks
  <2>1. total <= MaxRoutes * BlockSize /\ MaxRoutes * BlockSize \in Nat
    <3>1. /\ Starts[Experts] <= SlotCapacity(Live)
          /\ SlotCapacity(Live) \in Nat /\ SlotCapacity(Live) <= MaxRoutes * BlockSize
      BY <1>0, CapacitySuffices
    <3>2. MaxRoutes * BlockSize \in Nat
      BY <1>2, ProductMonotone
    <3> DEFINE cap == MaxRoutes * BlockSize
    <3>3. cap \in Nat /\ total <= SlotCapacity(Live) /\ SlotCapacity(Live) <= cap /\ SlotCapacity(Live) \in Nat
      BY <1>1, <3>1, <3>2
    <3> HIDE DEF cap
    <3>4. total <= cap /\ cap \in Nat
      BY <1>4, <3>3
    <3> QED BY <3>4 DEF cap
  <2>2. MaxRoutes <= b => MaxRoutes * BlockSize <= b * BlockSize
    BY <1>2, <1>6, ProductMonotone
  <2> DEFINE bb == b * BlockSize
             cap == MaxRoutes * BlockSize
  <2>3. bb \in Nat /\ bb < total /\ total <= cap /\ cap \in Nat /\ (MaxRoutes <= b => cap <= bb)
    BY <1>7, <1>9, <2>1, <2>2
  <2> HIDE DEF bb, cap
  <2> QED BY <1>2, <1>4, <1>6, <2>3 DEF Blocks
<1>11. PICK e \in Ids : b * BlockSize \in Starts[e]..Starts[e+1]-1
  BY <1>0, <1>1, <1>8, SlotHasExpert
<1>12. /\ Owner(Starts, b) = e
       /\ \A i \in 0..BlockSize-1 : b * BlockSize + i \in Starts[e]..Starts[e+1]-1
  BY <1>0, <1>6, <1>11, BlockInRange
<1> QED BY <1>1, <1>10, <1>12, <1>9

\* Once every route is sorted, the blocks are what PackExact says.
LEMMA PackedIsExact == PackInv => PackExact
<1> SUFFICES ASSUME PackInv, pack = "packed" PROVE PackExact
  BY DEF PackExact
<1>0. PackTyped /\ SortInv /\ unsorted = {}
  BY DEF PackInv
<1>1. /\ offsets \in [0..Experts -> Nat] /\ total = Starts[Experts]
      /\ \A e \in Ids : RangeSorted(e)
      /\ \A b \in Blocks : b * BlockSize < total => blockOf[b] = Owner(Starts, b)
  BY <1>0 DEF SortInv
<1>2. /\ BlockSize \in Nat \ {0} /\ Experts \in 0..Experts /\ MaxRoutes \in Nat
  BY PackAssumption
<1>3. /\ Live \in 1..MaxRoutes /\ Mapped \subseteq 0..Live-1
      /\ \A r \in Mapped : Resolve(r) \in Ids
  BY <1>0, LiveFacts
<1>4. total \in Nat
  BY <1>0, <1>1, <1>2, StartsAreSums
<1>5. \A e : SortedTo(e) = RoutesTo(e)
  BY <1>0 DEF SortedTo, RoutesTo
<1>6. ASSUME NEW e \in Ids
      PROVE  /\ Starts[e] \in Nat /\ Starts[e+1] \in Nat /\ offsets[e] \in Nat
             /\ Starts[e] <= offsets[e] /\ offsets[e] <= Starts[e+1] /\ Starts[e+1] <= total
             /\ \A s \in Starts[e]..Starts[e+1]-1 :
                  s \in Nat /\ (s \in Starts[e]..offsets[e]-1 \/ s \in offsets[e]..Starts[e+1]-1)
             /\ \A s \in Starts[e]..offsets[e]-1 : s \in 0..total-1
  <2>1. /\ e \in 0..Experts /\ e+1 \in 0..Experts /\ Starts \in [0..Experts -> Nat]
        /\ Starts[e+1] = Starts[e] + Padded(Histogram[e])
        /\ Starts[e+1] <= total
    BY <1>0, <1>1, <1>2, StartsAreSums
  <2>2. Histogram[e] \in Nat /\ Cardinality(RoutesTo(e)) = Histogram[e]
    BY <1>0, LiveFacts
  <2>3. Padded(Histogram[e]) \in Nat /\ Histogram[e] <= Padded(Histogram[e])
    BY <2>2, PaddedFacts
  <2>4. offsets[e] = Starts[e] + Histogram[e]
    BY <1>1, <1>5, <2>2 DEF RangeSorted
  <2> DEFINE a == Starts[e]
             o == offsets[e]
             z == Starts[e+1]
  <2>5. /\ a \in Nat /\ z \in Nat /\ o \in Nat
        /\ a <= o /\ o <= z /\ z <= total
    BY <1>4, <2>1, <2>2, <2>3, <2>4
  <2> HIDE DEF a, o, z
  <2>6. \A s \in a..z-1 : s \in Nat /\ (s \in a..o-1 \/ s \in o..z-1)
    BY <2>5
  <2>7. \A s \in a..o-1 : s \in 0..total-1
    BY <1>4, <2>5
  <2> QED BY <2>5, <2>6, <2>7 DEF a, o, z
<1>7. ASSUME NEW e \in Ids, NEW s \in Starts[e]..Starts[e+1]-1
      PROVE  \/ s \in Starts[e]..offsets[e]-1 /\ slots[s] \in Mapped /\ Resolve(slots[s]) = e
             \/ s \in offsets[e]..Starts[e+1]-1 /\ slots[s] = Live
  BY <1>1, <1>5, <1>6 DEF RangeSorted, RoutesTo
<1>8. ASSUME NEW b \in 0..RouteBlocks-1
      PROVE  /\ b \in Blocks
             /\ \E e \in Ids : /\ blockOf[b] = e
                               /\ \A i \in 0..BlockSize-1 : b * BlockSize + i \in Starts[e]..Starts[e+1]-1
  BY PackedBlock
<1>9. ASSUME NEW b \in 0..RouteBlocks-1, NEW i \in 0..BlockSize-1
      PROVE  \/ SlotOf(b, i) \in Mapped /\ blockOf[b] = Resolve(SlotOf(b, i))
             \/ SlotOf(b, i) = Live /\ \A j \in i..BlockSize-1 : SlotOf(b, j) = Live
  <2>1. PICK e \in Ids : /\ blockOf[b] = e
                         /\ \A j \in 0..BlockSize-1 : b * BlockSize + j \in Starts[e]..Starts[e+1]-1
    BY <1>8
  <2>2. CASE b * BlockSize + i \in Starts[e]..offsets[e]-1
    BY <1>1, <1>5, <2>1, <2>2 DEF RangeSorted, RoutesTo, SlotOf
  <2>3. CASE b * BlockSize + i \notin Starts[e]..offsets[e]-1
    <3> SUFFICES ASSUME NEW j \in i..BlockSize-1 PROVE SlotOf(b, j) = Live
      BY <1>2, i \in i..BlockSize-1
    <3> DEFINE bb == b * BlockSize
    <3>1. j \in 0..BlockSize-1 /\ j \in Nat /\ i \in Nat /\ i <= j
      BY <1>2
    <3>2. /\ bb + i \in Starts[e]..Starts[e+1]-1 /\ bb + j \in Starts[e]..Starts[e+1]-1
          /\ bb + i \notin Starts[e]..offsets[e]-1
      BY <2>1, <2>3, <3>1
    <3>3. bb \in Nat
      BY <1>2, ProductMonotone
    <3> HIDE DEF bb
    <3>4. bb + j \in offsets[e]..Starts[e+1]-1
      BY <1>6, <3>1, <3>2, <3>3
    <3> QED BY <1>1, <3>4 DEF RangeSorted, SlotOf, bb
  <2> QED BY <2>2, <2>3
<1>10. ASSUME NEW r \in Mapped
       PROVE  Cardinality({s \in 0..total-1 : slots[s] = r}) = 1
  <2> DEFINE e == Resolve(r)
  <2>1. e \in Ids /\ r \in RoutesTo(e) /\ r # Live
    BY <1>3 DEF RoutesTo
  <2>2. PICK s \in Starts[e]..offsets[e]-1 : slots[s] = r
    BY <1>1, <1>5, <2>1 DEF RangeSorted
  <2>3. s \in 0..total-1
    BY <1>6, <2>1
  <2>4. ASSUME NEW u \in 0..total-1, slots[u] = r PROVE u = s
    <3>1. PICK x \in Ids : u \in Starts[x]..Starts[x+1]-1
      BY <1>0, <1>1, SlotHasExpert
    <3>2. u \in Starts[x]..offsets[x]-1 /\ x = e
      BY <1>7, <2>1, <2>4, <3>1
    <3> HIDE DEF e
    <3> QED BY <1>1, <2>1, <2>2, <2>4, <3>2 DEF RangeSorted
  <2>5. {u \in 0..total-1 : slots[u] = r} = {s}
    BY <2>2, <2>3, <2>4
  <2> QED BY <2>5, FS_Singleton
<1> QED BY <1>9, <1>10 DEF PackExact

LEMMA PackInvariant == MoeSpec => []PackInv
<1>1. MoeInit => PackInv
  BY PackInvInit DEF MoeInit
<1>2. PackInv /\ [MoeNext]_moeVars => PackInv'
  BY PackMoves, PackInvStep
<1> QED BY <1>1, <1>2, PTL DEF MoeSpec

\* The packed arrays of every call hold each of its routes with an expert in
\* this tier once, in a block of that expert and in front of the padding,
\* whatever the calls before it have left in them.
THEOREM PackIsExact == MoeSpec => []PackExact
<1>1. PackInv => PackExact
  BY PackedIsExact
<1> QED BY <1>1, PackInvariant, PTL

\* A set of numbers without gaps from 0 is as long as it has elements.
LEMMA FrontIs ==
  ASSUME NEW n \in Nat, NEW S \in SUBSET (0..n-1),
         \A i \in S : \A j \in 0..i : j \in S
  PROVE  S = 0..Cardinality(S)-1
<1> DEFINE T == {m \in 0..n : m \notin S}
<1>1. PICK m \in T : \A y \in T : m <= y
  <2>1. T \in SUBSET Nat /\ n \in T
    OBVIOUS
  <2> HIDE DEF T
  <2> QED BY <2>1, LeastNumber
<1>2. m \in 0..n /\ m \notin S /\ m \in Nat
  OBVIOUS
<1>3. ASSUME NEW i \in S PROVE i \in 0..m-1
  <2>1. i \in Nat /\ (m <= i => m \in 0..i)
    BY <1>2
  <2>2. ~(m <= i)
    BY <1>2, <2>1
  <2> QED BY <1>2, <2>1, <2>2
<1>4. ASSUME NEW i \in 0..m-1 PROVE i \in S
  <2>1. i \in 0..n /\ ~(m <= i)
    BY <1>2
  <2> QED BY <1>1, <2>1
<1>5. S = 0..m-1
  BY <1>3, <1>4
<1>6. Cardinality(0..m-1) = m
  BY <1>2, FS_Interval, 0 \in Int, m - 1 \in Int
<1> QED BY <1>5, <1>6

\* The rows a GEMM runs of the packed blocks: those of every route with an
\* expert, each in one block, its expert's.
LEMMA PackedBlocks ==
  ASSUME PackInv, pack = "packed"
  PROVE  /\ RouteBlocks \in Nat /\ PackTyped
         /\ \A b \in 0..RouteBlocks-1 :
              /\ blockOf[b] \in Ids /\ BlockRows(b) \subseteq Mapped
              /\ \A r \in BlockRows(b) : Resolve(r) = blockOf[b]
         /\ \A r \in Mapped : \E b \in 0..RouteBlocks-1 : r \in BlockRows(b)
         /\ \A a, b \in 0..RouteBlocks-1 : BlockRows(a) \cap BlockRows(b) # {} => a = b
<1>0. PackTyped /\ SortInv /\ PackExact
  BY PackedIsExact DEF PackInv
<1>1. /\ BlockSize \in Nat \ {0} /\ Experts \in 0..Experts
      /\ Live \in Nat /\ Mapped \subseteq 0..Live-1
  BY <1>0, LiveFacts, PackAssumption
<1>2. PICK k \in Nat : total = k * BlockSize
  BY <1>0, <1>1, StartsBounded DEF SortInv
<1>3. total \in Nat /\ RouteBlocks = k
  <2>1. (k * BlockSize + 0) \div BlockSize = k /\ k * BlockSize + 0 \in Nat
    BY <1>1, PartsUnique, 0 \in Nat, 0 < BlockSize
  <2>2. k * BlockSize + 0 = k * BlockSize
    BY <1>1
  <2> QED BY <1>2, <2>1, <2>2 DEF RouteBlocks
<1>4. ASSUME NEW b \in 0..RouteBlocks-1
      PROVE  /\ blockOf[b] \in Ids
             /\ \A r : r \in BlockRows(b) <=>
                         r \in Mapped /\ \E i \in 0..BlockSize-1 : SlotOf(b, i) = r
             /\ \A r \in BlockRows(b) : Resolve(r) = blockOf[b]
  <2>1. blockOf[b] \in Ids
    BY PackedBlock
  <2>2. \A i \in 0..BlockSize-1 :
           \/ SlotOf(b, i) \in Mapped /\ blockOf[b] = Resolve(SlotOf(b, i))
           \/ SlotOf(b, i) = Live /\ \A j \in i..BlockSize-1 : SlotOf(b, j) = Live
    BY <1>0 DEF PackExact
  <2> DEFINE S == {i \in 0..BlockSize-1 : SlotOf(b, i) < Live}
  <2>3. \A i \in 0..BlockSize-1 : i \in S <=> SlotOf(b, i) \in Mapped
    <3>1. \A r \in Mapped : r < Live
      BY <1>1
    <3>2. ~(Live < Live) /\ Live \notin Mapped
      BY <1>1
    <3> QED BY <2>2, <3>1, <3>2
  <2>4. S = 0..Cardinality(S)-1
    <3>1. ASSUME NEW i \in S, NEW j \in 0..i PROVE j \in S
      <4>1. i \in 0..BlockSize-1 /\ j \in 0..BlockSize-1 /\ i \in j..BlockSize-1
        BY <1>1
      <4>2. SlotOf(b, i) # Live
        BY <1>1, <2>3
      <4>3. SlotOf(b, j) \in Mapped
        BY <2>2, <4>1, <4>2
      <4> QED BY <2>3, <4>1, <4>3
    <3>2. BlockSize \in Nat /\ S \in SUBSET (0..BlockSize-1)
      BY <1>1
    <3> HIDE DEF S
    <3> QED BY <3>1, <3>2, FrontIs
  <2>5. BlockRows(b) = {SlotOf(b, i) : i \in S}
    <3>1. BlockRows(b) = {SlotOf(b, i) : i \in 0..Cardinality(S)-1}
      BY DEF BlockRows
    <3> HIDE DEF S
    <3> QED BY <2>4, <3>1
  <2>6. \A r : r \in BlockRows(b) <=> \E i \in 0..BlockSize-1 : i \in S /\ SlotOf(b, i) = r
    BY <2>5
  <2> HIDE DEF S
  <2>7. \A r : r \in BlockRows(b) <=>
                  r \in Mapped /\ \E i \in 0..BlockSize-1 : SlotOf(b, i) = r
    BY <2>3, <2>6
  <2>8. \A r \in BlockRows(b) : Resolve(r) = blockOf[b]
    BY <1>1, <2>2, <2>7
  <2> QED BY <2>1, <2>7, <2>8
<1>5. ASSUME NEW r \in Mapped
      PROVE  \E s \in 0..total-1 : slots[s] = r /\ \A u \in 0..total-1 : slots[u] = r => u = s
  <2> DEFINE S == {s \in 0..total-1 : slots[s] = r}
  <2>1. Cardinality(S) = 1
    BY <1>0 DEF PackExact, PackInv
  <2>2. IsFiniteSet(S)
    BY <1>3, FS_Interval, FS_Subset, 0 \in Int, total - 1 \in Int
  <2>3. \E s : S = {s}
    <3> HIDE DEF S
    <3> QED BY <2>1, <2>2, FS_Singleton
  <2> QED BY <2>3
<1>6. ASSUME NEW b \in 0..RouteBlocks-1, NEW i \in 0..BlockSize-1
      PROVE  b * BlockSize + i \in 0..total-1
  BY <1>1, <1>2, <1>3, CellInside
<1>7. ASSUME NEW r \in Mapped PROVE \E b \in 0..RouteBlocks-1 : r \in BlockRows(b)
  <2>1. PICK s \in 0..total-1 : slots[s] = r
    BY <1>5
  <2>2. /\ s \div BlockSize \in 0..RouteBlocks-1 /\ s % BlockSize \in 0..BlockSize-1
        /\ s = (s \div BlockSize) * BlockSize + (s % BlockSize)
    BY <1>1, <1>2, <1>3, <2>1, CellParts
  <2>3. SlotOf(s \div BlockSize, s % BlockSize) = r
    BY <2>1, <2>2 DEF SlotOf
  <2> QED BY <1>4, <2>2, <2>3
<1>8. ASSUME NEW a \in 0..RouteBlocks-1, NEW b \in 0..RouteBlocks-1,
             BlockRows(a) \cap BlockRows(b) # {}
      PROVE  a = b
  <2>1. PICK r \in Mapped : r \in BlockRows(a) /\ r \in BlockRows(b)
    BY <1>4, <1>8
  <2>2. PICK i \in 0..BlockSize-1 : SlotOf(a, i) = r
    BY <1>4, <2>1
  <2>3. PICK j \in 0..BlockSize-1 : SlotOf(b, j) = r
    BY <1>4, <2>1
  <2>4. a * BlockSize + i = b * BlockSize + j
    BY <1>5, <1>6, <2>2, <2>3 DEF SlotOf
  <2>5. (a * BlockSize + i) \div BlockSize = a /\ (b * BlockSize + j) \div BlockSize = b
    BY <1>1, <1>3, PartsUnique
  <2> QED BY <2>4, <2>5
<1> QED BY <1>0, <1>3, <1>4, <1>7, <1>8

-----------------------------------------------------------------------------
(* The shares of a GEMM.                                                   *)

\* Quotients and quotients rounded up, by the products they are bounds of.
LEMMA QuotientIs ==
  ASSUME NEW n \in Nat, NEW m \in Nat \ {0}, NEW a \in Nat
  PROVE  /\ n \div m \in Nat /\ a * m \in Nat
         /\ a <= n \div m <=> a * m <= n
<1> DEFINE q == n \div m
           r == n % m
           qm == q * m
           am == a * m
<1>1. q \in Nat /\ r \in 0..m-1 /\ qm \in Nat /\ n = qm + r /\ am \in Nat
  BY DivMod, ProductMonotone
<1>2. a <= q => am <= qm
  BY <1>1, ProductMonotone
<1>3. q < a => qm + m <= am
  BY <1>1, ProductStrict
<1> HIDE DEF q, r, qm, am
<1>4. a <= q <=> am <= n
  BY <1>1, <1>2, <1>3
<1> QED BY <1>1, <1>4 DEF q, am

LEMMA RoundedUpIs ==
  ASSUME NEW n \in Nat, NEW m \in Nat \ {0}, NEW a \in Nat
  PROVE  /\ (n + m - 1) \div m \in Nat /\ a * m \in Nat
         /\ (n + m - 1) \div m <= a <=> n <= a * m
<1> DEFINE q == (n + m - 1) \div m
<1>1. n + m - 1 \in Nat /\ a + 1 \in Nat
  OBVIOUS
<1>2. /\ q \in Nat /\ (a + 1) * m \in Nat /\ a * m \in Nat
      /\ a + 1 <= q <=> (a + 1) * m <= n + m - 1
  BY <1>1, QuotientIs
<1>3. (a + 1) * m = a * m + m
  OBVIOUS
<1> DEFINE am == a * m
<1>4. am \in Nat /\ (a + 1 <= q <=> am + m <= n + m - 1)
  BY <1>2, <1>3
<1> HIDE DEF q, am
<1>5. q \in Nat
  BY <1>2 DEF q
<1>6. q <= a <=> n <= am
  BY <1>4, <1>5
<1> QED BY <1>4, <1>5, <1>6 DEF q, am

\* The CTAs that hold the first and the last k tile of tail tile t, when each
\* has iters of them.
LowCta(t, K, iters)  == (K * t) \div iters
HighCta(t, K, iters) == (K * (t + 1) - 1) \div iters

LEMMA HoldersAre ==
  ASSUME NEW K \in Nat \ {0}, NEW iters \in Nat \ {0}, NEW t \in Nat, NEW c \in Nat
  PROVE  /\ LowCta(t, K, iters) \in Nat /\ HighCta(t, K, iters) \in Nat
         /\ LowCta(t, K, iters) <= HighCta(t, K, iters)
         /\ c * iters \in Nat /\ K * t \in Nat /\ K * (t + 1) \in Nat /\ K * (t + 1) = K * t + K
         /\ c <= LowCta(t, K, iters) <=> c * iters <= K * t
         /\ c <= HighCta(t, K, iters) <=> c * iters < K * (t + 1)
<1> DEFINE kt == K * t
           kt1 == K * (t + 1)
           lo == LowCta(t, K, iters)
           hi == HighCta(t, K, iters)
<1>1. kt \in Nat /\ kt1 \in Nat /\ kt1 = kt + K
  BY ProductMonotone
<1>2. kt1 - 1 \in Nat
  <2> HIDE DEF kt, kt1
  <2> QED BY <1>1
<1>3. \A a \in Nat : lo \in Nat /\ a * iters \in Nat /\ (a <= lo <=> a * iters <= kt)
  <2> HIDE DEF kt
  <2> QED BY <1>1, QuotientIs DEF LowCta, kt
<1>4. \A a \in Nat : hi \in Nat /\ a * iters \in Nat /\ (a <= hi <=> a * iters <= kt1 - 1)
  <2> HIDE DEF kt1
  <2> QED BY <1>2, QuotientIs DEF HighCta, kt1
<1>5. lo \in Nat /\ hi \in Nat
  BY <1>3, <1>4
<1> DEFINE ci == c * iters
           li == lo * iters
<1>6. ci \in Nat /\ (c <= lo <=> ci <= kt) /\ (c <= hi <=> ci <= kt1 - 1)
  BY <1>3, <1>4
<1>7. li \in Nat /\ li <= kt /\ (lo <= hi <=> li <= kt1 - 1)
  BY <1>3, <1>4, <1>5
<1> HIDE DEF kt, kt1, lo, hi, ci, li
<1>8. lo <= hi /\ (c <= hi <=> ci < kt1)
  BY <1>1, <1>5, <1>6, <1>7
<1> QED BY <1>1, <1>5, <1>6, <1>8 DEF kt, kt1, lo, hi, ci

\* What the arithmetic of the slices comes to.
LEMMA SlicingIs ==
  ASSUME NEW K \in Nat \ {0}, NEW iters \in Nat \ {0}, NEW t \in Nat,
         NEW c \in LowCta(t, K, iters)..HighCta(t, K, iters)
  PROVE  Slicing(t, c, K, iters)
           = [slices |-> HighCta(t, K, iters) - LowCta(t, K, iters) + 1,
              index  |-> HighCta(t, K, iters) - c]
<1> DEFINE lo == LowCta(t, K, iters)
           hi == HighCta(t, K, iters)
           kt == K * t
           kt1 == K * (t + 1)
           B == (kt + iters - 1) \div iters
           bi == iters * B
           ci == iters * c
           li == iters * lo
           offset == bi - kt
           extra  == IF offset > 0 THEN 1 ELSE 0
           N == (K - offset + iters - 1) \div iters
           delta == ci - bi
<1>1. Slicing(t, c, K, iters) =
        IF bi > kt1 THEN [slices |-> 1, index |-> 0]
        ELSE [slices |-> N + extra,
              index |-> IF delta < 0 \/ (delta = 0 /\ offset = 0) THEN N + extra - 1
                        ELSE N + extra - 1 - (delta \div iters) - extra]
  BY DEF Slicing
<1>2. \A a \in Nat : /\ lo \in Nat /\ hi \in Nat /\ lo <= hi
                     /\ a * iters \in Nat /\ kt \in Nat /\ kt1 \in Nat /\ kt1 = kt + K
                     /\ a <= lo <=> a * iters <= kt
                     /\ a <= hi <=> a * iters < kt1
  BY HoldersAre
<1>3. /\ lo \in Nat /\ hi \in Nat /\ lo <= hi /\ kt \in Nat /\ kt1 \in Nat /\ kt1 = kt + K
      /\ c \in Nat /\ lo <= c /\ c <= hi
  BY <1>2, 0 \in Nat
<1> HIDE DEF lo, hi, kt, kt1
<1>4. \A a \in Nat : B \in Nat /\ a * iters \in Nat /\ (B <= a <=> kt <= a * iters)
  BY <1>3, RoundedUpIs
<1>5. B \in Nat /\ bi = B * iters /\ ci = c * iters /\ li = lo * iters
  BY <1>3, <1>4
<1> HIDE DEF B
<1>6. bi \in Nat /\ kt <= bi /\ (B <= lo <=> bi <= kt)
  <2>1. B * iters \in Nat /\ (B <= B <=> kt <= B * iters) /\ (B <= lo <=> B * iters <= kt)
    BY <1>2, <1>4, <1>5
  <2>2. B <= B
    BY <1>5
  <2> QED BY <2>1, <2>2, <1>5
<1>7. ci \in Nat /\ ci < kt1 /\ li \in Nat /\ li <= kt
      /\ (c = lo => ci = li)
  BY <1>2, <1>3, <1>5
<1>8. /\ c < B => ci + iters <= bi
      /\ B < c => bi + iters <= ci
      /\ c = B => ci = bi
  BY <1>3, <1>5, ProductStrict
<1>9. /\ lo < B => li + iters <= bi
      /\ B < lo => bi + iters <= li
      /\ lo = B => li = bi
  BY <1>3, <1>5, ProductStrict
<1>10. B = lo + extra /\ offset \in Nat /\ extra \in {0, 1} /\ (extra = 0 <=> offset = 0)
  <2>1. B <= lo + 1
    <3>1. ~(lo + 1 <= lo) /\ lo + 1 \in Nat
      BY <1>3
    <3>2. ~((lo + 1) * iters <= kt) /\ (lo + 1) * iters \in Nat
      BY <1>2, <3>1
    <3> DEFINE x == (lo + 1) * iters
    <3>3. x \in Nat /\ kt < x
      <4> HIDE DEF x
      <4>1. ~(x <= kt) /\ x \in Nat
        BY <3>2 DEF x
      <4> QED BY <4>1, <1>3
    <3>4. kt <= x
      <4> HIDE DEF x
      <4> QED BY <3>3, <1>3
    <3> QED BY <1>4, <3>1, <3>4
  <2> HIDE DEF bi, li, ci
  <2> QED BY <1>3, <1>5, <1>6, <1>7, <1>9, <2>1
<1>11. CASE bi > kt1
  <2>1. ~(B <= hi)
    <3>1. B <= hi <=> bi < kt1
      BY <1>2, <1>5
    <3> HIDE DEF bi
    <3> QED BY <3>1, <1>3, <1>6, <1>11
  <2>2. hi = lo /\ c = hi
    BY <1>3, <1>5, <1>10, <2>1
  <2> HIDE DEF bi
  <2>3. hi - lo + 1 = 1 /\ hi - c = 0
    BY <1>3, <2>2
  <2> QED BY <1>1, <1>11, <2>3 DEF lo, hi
<1>12. CASE ~(bi > kt1)
  <2>1. K - offset \in Nat /\ K - offset = kt1 - bi
    <3> HIDE DEF bi
    <3> QED BY <1>3, <1>6, <1>12
  <2>2. \A a \in Nat : N \in Nat /\ a * iters \in Nat /\ (N <= a <=> K - offset <= a * iters)
    <3> HIDE DEF offset
    <3> QED BY <2>1, RoundedUpIs
  <2>3. N \in Nat
    BY <2>2, 0 \in Nat
  <2> HIDE DEF N
  <2>4. B <= hi + 1
    <3>1. CASE B = 0
      BY <1>3, <3>1
    <3>2. CASE B # 0
      <4>1. B - 1 \in Nat /\ (B - 1) * iters = B * iters - iters
        BY <1>5, <3>2
      <4>2. (B - 1) * iters = bi - iters
        BY <4>1, <1>5
      <4>3. bi - iters < kt1
        <5> HIDE DEF bi
        <5> QED BY <1>3, <1>6, <1>12
      <4>4. B - 1 <= hi
        BY <1>2, <4>1, <4>2, <4>3
      <4> QED BY <4>4, <1>3, <1>5
    <3> QED BY <3>1, <3>2
  <2>5. ASSUME NEW a \in Nat PROVE N <= a <=> hi < a + B
    <3> DEFINE ai == a * iters
               x == (a + B) * iters
    <3>1. x = ai + bi /\ ai \in Nat /\ x \in Nat
      <4>1. (a + B) * iters = a * iters + B * iters
        BY <1>5
      <4>2. a * iters \in Nat /\ (a + B) * iters \in Nat
        BY <1>5, ProductMonotone
      <4> QED BY <4>1, <4>2, <1>5
    <3>2. N <= a <=> K - offset <= ai
      BY <2>2
    <3>3. a + B \in Nat
      BY <1>5
    <3>4. a + B <= hi <=> x < kt1
      BY <1>2, <3>3
    <3>5. K - offset <= ai <=> kt1 <= x
      <4> HIDE DEF offset, ai, x, bi
      <4> QED BY <2>1, <3>1, <1>3, <1>6
    <3> HIDE DEF x, ai, offset
    <3> QED BY <3>1, <3>2, <3>3, <3>4, <3>5, <1>3
  <2>6. N = hi - B + 1
    <3>1. hi - B + 1 \in Nat
      BY <2>4, <1>3, <1>5
    <3>2. N <= hi - B + 1 <=> hi < hi - B + 1 + B
      BY <2>5, <3>1
    <3>3. N <= N <=> hi < N + B
      BY <2>5, <2>3
    <3> QED BY <3>1, <3>2, <3>3, <2>3, <1>3, <1>5
  <2>7. N + extra = hi - lo + 1
    <3> HIDE DEF extra
    <3> QED BY <2>6, <1>10, <1>3, <1>5
  <2>8. CASE c = lo
    <3>1. delta < 0 \/ (delta = 0 /\ offset = 0)
      <4> HIDE DEF bi, ci, li
      <4> QED BY <1>3, <1>5, <1>6, <1>7, <1>8, <1>9, <1>10, <2>8
    <3>2. N + extra - 1 = hi - c
      <4> HIDE DEF extra
      <4> QED BY <2>7, <2>8, <1>3, <2>3, <1>10
    <3> HIDE DEF extra, delta, offset, bi
    <3> QED BY <1>1, <1>12, <2>7, <3>1, <3>2 DEF lo, hi
  <2>9. CASE c # lo
    <3>1. ~(delta < 0 \/ (delta = 0 /\ offset = 0))
      <4> HIDE DEF bi, ci, li
      <4> QED BY <1>3, <1>5, <1>6, <1>7, <1>8, <1>9, <1>10, <2>9
    <3>2. c - B \in Nat
      BY <1>3, <1>5, <1>10, <2>9
    <3>3. delta = (c - B) * iters + 0
      <4>1. (c - B) * iters = c * iters - B * iters
        BY <1>3, <1>5
      <4>2. c * iters \in Nat /\ B * iters \in Nat
        BY <1>3, <1>5, ProductMonotone
      <4> DEFINE x == (c - B) * iters
                 y == c * iters
                 z == B * iters
      <4>3. x = y - z /\ y \in Nat /\ z \in Nat /\ delta = y - z
        BY <4>1, <4>2, <1>5
      <4> HIDE DEF x, y, z, delta
      <4>4. delta = x + 0
        BY <4>3
      <4> QED BY <4>4 DEF x
    <3>4. delta \div iters = c - B
      <4> HIDE DEF delta
      <4> QED BY <3>2, <3>3, PartsUnique
    <3>5. N + extra - 1 - (delta \div iters) - extra = hi - c
      <4> HIDE DEF extra, delta
      <4> QED BY <2>6, <3>4, <1>3, <1>5, <1>10
    <3> HIDE DEF extra, delta, offset, bi
    <3> QED BY <1>1, <1>12, <2>7, <3>1, <3>5 DEF lo, hi
  <2> QED BY <2>8, <2>9
<1> QED BY <1>11, <1>12

\* Tiles follow one another along the CTAs, and a CTA that has as many k tiles
\* as a tile is in no tile's middle.
LEMMA HoldersInOrder ==
  ASSUME NEW K \in Nat \ {0}, NEW iters \in Nat \ {0}, NEW t \in Nat, NEW u \in Nat
  PROVE  /\ u <= t => LowCta(u, K, iters) <= LowCta(t, K, iters)
         /\ u < t => HighCta(u, K, iters) <= LowCta(t, K, iters)
         /\ K <= iters => HighCta(t, K, iters) <= LowCta(t, K, iters) + 1
<1> DEFINE kt == K * t
           ku == K * u
           kt1 == K * (t + 1)
           ku1 == K * (u + 1)
           lot == LowCta(t, K, iters)
           hit == HighCta(t, K, iters)
           lou == LowCta(u, K, iters)
           hiu == HighCta(u, K, iters)
<1>1. \A c \in Nat : /\ lot \in Nat /\ hit \in Nat /\ kt \in Nat /\ kt1 = kt + K
                     /\ c * iters \in Nat
                     /\ c <= lot <=> c * iters <= kt
                     /\ c <= hit <=> c * iters < kt1
  BY HoldersAre
<1>2. \A c \in Nat : /\ lou \in Nat /\ hiu \in Nat /\ ku \in Nat /\ ku1 = ku + K
                     /\ c <= lou <=> c * iters <= ku
                     /\ c <= hiu <=> c * iters < ku1
  BY HoldersAre
<1>3. /\ lot \in Nat /\ hit \in Nat /\ kt \in Nat /\ kt1 = kt + K
      /\ lou \in Nat /\ hiu \in Nat /\ ku \in Nat /\ ku1 = ku + K
  BY <1>1, <1>2, 0 \in Nat
<1>4. u <= t => ku <= kt
  <2>1. u <= t => u * K <= t * K
    BY ProductMonotone
  <2>2. u * K = K * u /\ t * K = K * t
    OBVIOUS
  <2> QED BY <2>1, <2>2
<1>5. u < t => ku + K <= kt
  <2>1. u < t => u * K + K <= t * K
    BY ProductStrict
  <2>2. u * K = K * u /\ t * K = K * t
    OBVIOUS
  <2> QED BY <2>1, <2>2
<1> DEFINE li == lou * iters
           hi == hiu * iters
           gi == hit * iters
           mi == (lot + 1) * iters
<1> HIDE DEF kt, ku, kt1, ku1, lot, hit, lou, hiu
<1>6. li \in Nat /\ hi \in Nat /\ gi \in Nat /\ mi \in Nat
  BY <1>3, ProductMonotone
<1>7. /\ lou <= lot <=> li <= kt
      /\ lou <= lou <=> li <= ku
      /\ hiu <= lot <=> hi <= kt
      /\ hiu <= hiu <=> hi < ku1
      /\ hit <= hit <=> gi < kt1
      /\ lot + 1 <= lot <=> mi <= kt
  BY <1>1, <1>2, <1>3
<1>8. lot + 1 < hit => mi + iters <= gi
  BY <1>3, ProductStrict
<1> HIDE DEF li, hi, gi, mi
<1>9. u <= t => lou <= lot
  BY <1>3, <1>4, <1>6, <1>7
<1>10. u < t => hiu <= lot
  BY <1>3, <1>5, <1>6, <1>7
<1>11. K <= iters => hit <= lot + 1
  BY <1>3, <1>6, <1>7, <1>8
<1> QED BY <1>9, <1>10, <1>11 DEF lot, hit, lou, hiu

\* Tiles that are cut, and the k tiles each CTA has of them.
TailOf(T, G, m8) == IF m8 /\ T <= G THEN 0 ELSE TailTiles(T, G)
WavesOf(T, G, m8) == IF m8 /\ T <= G THEN 1 ELSE (T - TailTiles(T, G)) \div G
ItersOf(T, K, G, m8) == (K * TailOf(T, G, m8) + G - 1) \div G

LEMMA TailIs ==
  ASSUME NEW T \in Nat, NEW K \in Nat \ {0}, NEW G \in Nat \ {0}, NEW m8 \in BOOLEAN
  PROVE  /\ TailOf(T, G, m8) \in 0..T /\ WavesOf(T, G, m8) \in Nat
         /\ \A c \in 0..G-1, i \in Nat :
              /\ c + i * G \in Nat
              /\ i < WavesOf(T, G, m8) /\ c + i * G < T
                   <=> c + i * G < T - TailOf(T, G, m8)
<1> DEFINE single == m8 /\ T <= G
           tail == TailOf(T, G, m8)
           waves == WavesOf(T, G, m8)
           q == T \div G
           r == T % G
<1>1. q \in Nat /\ r \in 0..G-1 /\ q * G \in Nat /\ T = q * G + r
  BY DivMod
<1>2. \A c \in 0..G-1, i \in Nat : c + i * G \in Nat /\ i * G \in Nat
  <2> TAKE c \in 0..G-1, i \in Nat
  <2> DEFINE ig == i * G
  <2>1. ig \in Nat
    BY ProductMonotone
  <2> HIDE DEF ig
  <2>2. c + ig \in Nat
    BY <2>1
  <2> QED BY <2>1, <2>2 DEF ig
<1>3. CASE single
  <2>1. tail = 0 /\ waves = 1
    BY <1>3 DEF TailOf, WavesOf
  <2>2. ASSUME NEW c \in 0..G-1, NEW i \in Nat
        PROVE  i < 1 /\ c + i * G < T <=> c + i * G < T - 0
    <3>1. CASE i = 0
      BY <3>1
    <3>2. CASE i # 0
      <4>1. 1 * G <= i * G /\ i * G \in Nat
        BY <3>2, ProductMonotone
      <4> DEFINE ig == i * G
      <4>2. ig \in Nat /\ G <= ig
        BY <4>1
      <4> HIDE DEF ig
      <4>3. ~(c + ig < T) /\ T - 0 = T /\ ~(i < 1)
        BY <4>2, <1>3, <3>2
      <4> QED BY <4>3 DEF ig
    <3> QED BY <3>1, <3>2
  <2> HIDE DEF tail, waves
  <2> QED BY <1>2, <2>1, <2>2, 0 \in 0..T, 1 \in Nat DEF tail, waves
<1>4. CASE ~single
  <2>0. tail = TailTiles(T, G) /\ waves = (T - tail) \div G
    BY <1>4 DEF TailOf, WavesOf
  <2>1. tail \in 0..T /\ \E w \in Nat : T - tail = w * G
    <3>1. CASE T <= G
      <4>1. tail = T /\ T - tail = 0 * G
        BY <2>0, <3>1 DEF TailTiles
      <4> QED BY <4>1
    <3>2. CASE ~(T <= G)
      <4>1. q # 0
        <5>1. q = 0 => q * G = 0
          OBVIOUS
        <5> DEFINE qg == q * G
        <5> HIDE DEF q, r, qg
        <5>2. qg = 0 => FALSE
          BY <1>1, <3>2 DEF qg
        <5> QED BY <5>1, <5>2 DEF qg
      <4>2. q - 1 \in Nat /\ (q - 1) * G = q * G - G
        <5> HIDE DEF q
        <5> QED BY <1>1, <4>1
      <4>3. 1 * G <= q * G
        <5> HIDE DEF q
        <5> QED BY <1>1, <4>1, ProductMonotone
      <4>4. tail = r + G \/ tail = r
        BY <2>0, <3>2 DEF TailTiles
      <4> DEFINE qg == q * G
                 qg1 == (q - 1) * G
      <4> HIDE DEF q, r, tail
      <4>5. qg \in Nat /\ T = qg + r /\ qg1 = qg - G /\ G <= qg
        BY <1>1, <4>2, <4>3
      <4> HIDE DEF qg, qg1
      <4>6. tail \in 0..T /\ (T - tail = qg \/ T - tail = qg1)
        BY <1>1, <4>4, <4>5
      <4> QED BY <1>1, <4>2, <4>6 DEF qg, qg1
    <3> QED BY <3>1, <3>2
  <2>2. PICK w \in Nat : T - tail = w * G
    BY <2>1
  <2>3. waves = w
    <3>1. (w * G + 0) \div G = w
      BY PartsUnique
    <3>2. w * G + 0 = w * G
      BY ProductMonotone
    <3> QED BY <2>0, <2>2, <3>1, <3>2
  <2>4. ASSUME NEW c \in 0..G-1, NEW i \in Nat
        PROVE  i < w /\ c + i * G < T <=> c + i * G < T - tail
    <3>1. i < w => i * G + G <= w * G
      BY ProductStrict
    <3>2. w <= i => w * G <= i * G
      BY ProductMonotone
    <3> DEFINE ig == i * G
               wg == w * G
    <3>3. ig \in Nat /\ wg \in Nat
      BY ProductMonotone
    <3> HIDE DEF ig, wg, tail
    <3>4. (i < w => ig + G <= wg) /\ (w <= i => wg <= ig) /\ T - tail = wg
      BY <3>1, <3>2, <2>2 DEF ig, wg
    <3>5. i < w /\ c + ig < T <=> c + ig < T - tail
      BY <2>1, <3>3, <3>4
    <3> QED BY <3>5 DEF ig
  <2> HIDE DEF tail, waves
  <2> QED BY <1>2, <2>1, <2>3, <2>4 DEF tail, waves
<1> QED BY <1>3, <1>4

\* Of a tail the CTAs have K k tiles or more each unless there are fewer tiles
\* than CTAs, and no tile needs a CTA beyond the grid.
LEMMA ItersAre ==
  ASSUME NEW T \in Nat, NEW K \in Nat \ {0}, NEW G \in Nat \ {0}, NEW m8 \in BOOLEAN,
         TailOf(T, G, m8) # 0
  PROVE  /\ ItersOf(T, K, G, m8) \in Nat \ {0}
         /\ G <= TailOf(T, G, m8) => K <= ItersOf(T, K, G, m8)
         /\ \A t \in 0..TailOf(T, G, m8)-1 : HighCta(t, K, ItersOf(T, K, G, m8)) \in 0..G-1
<1> DEFINE tail == TailOf(T, G, m8)
           iters == ItersOf(T, K, G, m8)
           kt == K * tail
<1>1. tail \in Nat \ {0}
  BY TailIs
<1> HIDE DEF tail
<1>2. kt \in Nat /\ K <= kt
  <2>1. 1 * K <= tail * K /\ tail * K \in Nat
    BY <1>1, ProductMonotone
  <2>2. tail * K = K * tail
    BY <1>1
  <2> QED BY <2>1, <2>2
<1>3. iters = (kt + G - 1) \div G
  BY DEF iters, ItersOf, tail
<1> HIDE DEF iters, kt
<1>4. \A a \in Nat : iters \in Nat /\ a * G \in Nat /\ (iters <= a <=> kt <= a * G)
  BY <1>2, <1>3, RoundedUpIs
<1>5. iters \in Nat
  BY <1>4, 0 \in Nat
<1>6. iters # 0
  <2>1. 0 * G = 0 /\ (iters <= 0 <=> kt <= 0 * G)
    BY <1>4
  <2> QED BY <1>2, <2>1
<1>7. G <= tail => K <= iters
  <2> HAVE G <= tail
  <2>1. K - 1 \in Nat /\ (K - 1) * G = K * G - G /\ K * G = G * K
    OBVIOUS
  <2>2. G * K <= tail * K /\ G * K \in Nat /\ tail * K = K * tail
    BY <1>1, ProductMonotone
  <2> DEFINE gk == G * K
             x == (K - 1) * G
  <2>3. x = gk - G /\ gk \in Nat /\ gk <= kt
    BY <2>1, <2>2 DEF kt
  <2>4. x \in Nat /\ (iters <= K - 1 <=> kt <= x)
    BY <1>4, <2>1
  <2> HIDE DEF gk, x
  <2>5. ~(iters <= K - 1)
    BY <1>2, <2>3, <2>4
  <2> QED BY <1>5, <2>5
<1>8. ASSUME NEW t \in 0..tail-1 PROVE HighCta(t, K, iters) \in 0..G-1
  <2> DEFINE hi == HighCta(t, K, iters)
  <2>0. t \in Nat /\ t + 1 <= tail
    BY <1>1
  <2>1. hi \in Nat
    BY <1>5, <1>6, <2>0, HoldersAre, 0 \in Nat
  <2>2. G <= hi <=> G * iters < K * (t + 1)
    BY <1>5, <1>6, <2>0, HoldersAre
  <2>3. K * (t + 1) <= kt
    <3>1. (t + 1) * K <= tail * K
      BY <1>1, <2>0, ProductMonotone
    <3>2. (t + 1) * K = K * (t + 1) /\ tail * K = K * tail
      BY <1>1, <2>0
    <3> QED BY <3>1, <3>2 DEF kt
  <2>4. kt <= iters * G /\ iters * G = G * iters /\ iters * G \in Nat
    <3>1. iters <= iters <=> kt <= iters * G
      BY <1>4, <1>5
    <3> QED BY <1>4, <1>5, <3>1
  <2>5. K * (t + 1) \in Nat
    BY <2>0, ProductMonotone
  <2> DEFINE gi == G * iters
             kt1 == K * (t + 1)
  <2>6. gi \in Nat /\ kt1 \in Nat /\ kt <= gi /\ kt1 <= kt /\ (G <= hi <=> gi < kt1)
    BY <2>2, <2>3, <2>4, <2>5
  <2> HIDE DEF gi, kt1, hi
  <2>7. hi \in 0..G-1
    BY <1>2, <2>1, <2>6
  <2> QED BY <2>7 DEF hi
<1> QED BY <1>5, <1>6, <1>7, <1>8 DEF tail, iters

\* The first and the last CTA of a tile, where the part of a CTA in it starts,
\* and the lock of a tile that is cut.
LowOf(t, T, K, G, m8) ==
  LET body == T - TailOf(T, G, m8)
  IN IF t < body THEN t % G ELSE LowCta(t - body, K, ItersOf(T, K, G, m8))

HighOf(t, T, K, G, m8) ==
  LET body == T - TailOf(T, G, m8)
  IN IF t < body THEN t % G ELSE HighCta(t - body, K, ItersOf(T, K, G, m8))

EdgeOf(c, t, T, K, G, m8) ==
  IF c <= LowOf(t, T, K, G, m8) THEN 0
  ELSE IF c > HighOf(t, T, K, G, m8) THEN K
  ELSE c * ItersOf(T, K, G, m8) - K * (t - (T - TailOf(T, G, m8)))

LockOf(t, T, K, G, m8) ==
  IF TailOf(T, G, m8) < G THEN t - (T - TailOf(T, G, m8)) ELSE LowOf(t, T, K, G, m8) + 1

LEMMA TileIsHeld ==
  ASSUME NEW T \in Nat, NEW K \in Nat \ {0}, NEW G \in Nat \ {0}, NEW m8 \in BOOLEAN,
         NEW t \in 0..T-1
  PROVE  /\ LowOf(t, T, K, G, m8) \in 0..G-1 /\ HighOf(t, T, K, G, m8) \in 0..G-1
         /\ LowOf(t, T, K, G, m8) <= HighOf(t, T, K, G, m8)
         /\ EdgeOf(LowOf(t, T, K, G, m8), t, T, K, G, m8) = 0
         /\ EdgeOf(HighOf(t, T, K, G, m8) + 1, t, T, K, G, m8) = K
         /\ \A c \in LowOf(t, T, K, G, m8)..HighOf(t, T, K, G, m8) :
              /\ EdgeOf(c, t, T, K, G, m8) \in 0..K /\ EdgeOf(c+1, t, T, K, G, m8) \in 0..K
              /\ EdgeOf(c, t, T, K, G, m8) < EdgeOf(c+1, t, T, K, G, m8)
<1> DEFINE tail == TailOf(T, G, m8)
           iters == ItersOf(T, K, G, m8)
           body == T - tail
           lo == LowOf(t, T, K, G, m8)
           hi == HighOf(t, T, K, G, m8)
           Edge(c) == EdgeOf(c, t, T, K, G, m8)
<1>1. tail \in 0..T /\ body \in 0..T
  <2>1. tail \in 0..T
    BY TailIs, Zenon
  <2> HIDE DEF tail
  <2> QED BY <2>1
<1> HIDE DEF tail, iters
<1>2. lo = (IF t < body THEN t % G ELSE LowCta(t - body, K, iters))
      /\ hi = (IF t < body THEN t % G ELSE HighCta(t - body, K, iters))
  BY DEF LowOf, HighOf, tail, iters
<1>3. \A c : Edge(c) = IF c <= lo THEN 0 ELSE IF c > hi THEN K ELSE c * iters - K * (t - body)
  BY DEF EdgeOf, tail, iters
<1> HIDE DEF lo, hi, Edge
<1>4. CASE t < body
  <2>1. lo = t % G /\ hi = t % G /\ t % G \in 0..G-1
    BY <1>2, <1>4, DivMod
  <2>2. lo + 1 > lo /\ ~(lo + 1 <= lo) /\ lo..hi = {lo} /\ lo \in 0..G-1 /\ lo <= hi
    BY <2>1
  <2>3. Edge(lo) = 0 /\ Edge(lo + 1) = K /\ 0 < K /\ 0 \in 0..K /\ K \in 0..K
    BY <2>1, <2>2, <1>3
  <2>4. Edge(hi + 1) = K /\ hi = lo
    BY <2>1, <2>3
  <2>5. \A c \in lo..hi : Edge(c) \in 0..K /\ Edge(c+1) \in 0..K /\ Edge(c) < Edge(c+1)
    BY <2>2, <2>3
  <2> QED BY <2>1, <2>2, <2>3, <2>4, <2>5 DEF lo, hi, Edge
<1>5. CASE ~(t < body)
  <2> DEFINE u == t - body
             ku == K * u
             ku1 == K * (u + 1)
  <2>1. u \in Nat /\ u \in 0..tail-1 /\ tail # 0
    BY <1>1, <1>5
  <2>2. lo = LowCta(u, K, iters) /\ hi = HighCta(u, K, iters)
    BY <1>2, <1>5
  <2>3. iters \in Nat \ {0} /\ hi \in 0..G-1
    BY <2>1, <2>2, ItersAre DEF tail, iters
  <2> HIDE DEF u
  <2>4. \A c \in Nat : /\ lo \in Nat /\ hi \in Nat /\ lo <= hi
                       /\ c * iters \in Nat /\ ku \in Nat /\ ku1 = ku + K
                       /\ c <= lo <=> c * iters <= ku
                       /\ c <= hi <=> c * iters < ku1
    BY <2>1, <2>2, <2>3, HoldersAre
  <2> HIDE DEF ku1
  <2>5. lo \in Nat /\ hi \in Nat /\ lo <= hi /\ ku \in Nat /\ ku1 = ku + K /\ lo \in 0..G-1
    BY <2>3, <2>4, 0 \in Nat
  <2>6. \A c : Edge(c) = IF c <= lo THEN 0 ELSE IF c > hi THEN K ELSE c * iters - ku
    BY <1>3 DEF u
  <2> HIDE DEF ku
  <2>7. Edge(lo) = 0 /\ Edge(hi + 1) = K
    BY <2>5, <2>6
  <2>8. ASSUME NEW c \in Nat
        PROVE  /\ Edge(c) \in 0..K
               /\ lo < c /\ c <= hi => Edge(c) = c * iters - ku /\ 0 < Edge(c) /\ Edge(c) < K
    <3> DEFINE ci == c * iters
    <3>1. ci \in Nat /\ (c <= lo <=> ci <= ku) /\ (c <= hi <=> ci < ku1)
      BY <2>4
    <3>2. Edge(c) = IF c <= lo THEN 0 ELSE IF c > hi THEN K ELSE ci - ku
      BY <2>6
    <3> HIDE DEF ci
    <3>3. /\ Edge(c) \in 0..K
          /\ lo < c /\ c <= hi => Edge(c) = ci - ku /\ 0 < Edge(c) /\ Edge(c) < K
      BY <2>5, <3>1, <3>2
    <3> QED BY <3>3 DEF ci
  <2>9. ASSUME NEW c \in lo..hi PROVE Edge(c) < Edge(c+1) /\ Edge(c) \in 0..K /\ Edge(c+1) \in 0..K
    <3>0. c \in Nat /\ c + 1 \in Nat /\ lo <= c /\ c <= hi
      BY <2>5
    <3>1. Edge(c) \in 0..K /\ Edge(c+1) \in 0..K
      BY <2>8, <3>0
    <3>2. CASE c = lo /\ c = hi
      <4>1. Edge(c) = 0 /\ Edge(c+1) = K
        BY <2>7, <3>2
      <4> QED BY <3>1, <4>1
    <3>3. CASE c = lo /\ c # hi
      <4>1. Edge(c) = 0 /\ 0 < Edge(c+1)
        BY <2>5, <2>7, <2>8, <3>0, <3>3
      <4> QED BY <3>1, <4>1
    <3>4. CASE c # lo /\ c = hi
      <4>1. Edge(c) < K /\ Edge(c+1) = K
        BY <2>5, <2>7, <2>8, <3>0, <3>4
      <4> QED BY <3>1, <4>1
    <3>5. CASE c # lo /\ c # hi
      <4>1. lo < c /\ c <= hi /\ lo < c + 1 /\ c + 1 <= hi
        BY <2>5, <3>0, <3>5
      <4>2. Edge(c) = c * iters - ku /\ Edge(c+1) = (c + 1) * iters - ku
        BY <2>8, <3>0, <4>1
      <4>3. (c + 1) * iters = c * iters + iters /\ c * iters \in Nat
        BY <2>3, <3>0, ProductMonotone
      <4> DEFINE ci == c * iters
                 cj == (c + 1) * iters
      <4>4. Edge(c) = ci - ku /\ Edge(c+1) = cj - ku /\ cj = ci + iters /\ ci \in Nat
        BY <4>2, <4>3
      <4> HIDE DEF ci, cj
      <4> QED BY <2>3, <2>5, <3>1, <4>4
    <3> QED BY <3>1, <3>2, <3>3, <3>4, <3>5
  <2> QED BY <2>3, <2>5, <2>7, <2>9 DEF lo, hi, Edge
<1> QED BY <1>4, <1>5

\* Tiles that are cut have locks of their own.
LEMMA LocksAreApart ==
  ASSUME NEW T \in Nat, NEW K \in Nat \ {0}, NEW G \in Nat \ {0}, NEW m8 \in BOOLEAN,
         NEW t \in 0..T-1, LowOf(t, T, K, G, m8) < HighOf(t, T, K, G, m8)
  PROVE  /\ LockOf(t, T, K, G, m8) \in 0..G
         /\ \A u \in 0..T-1 :
              /\ LowOf(u, T, K, G, m8) < HighOf(u, T, K, G, m8)
              /\ LockOf(u, T, K, G, m8) = LockOf(t, T, K, G, m8)
              => u = t
<1> DEFINE tail == TailOf(T, G, m8)
           iters == ItersOf(T, K, G, m8)
           body == T - tail
           lo(u) == LowOf(u, T, K, G, m8)
           hi(u) == HighOf(u, T, K, G, m8)
<1>1. tail \in 0..T /\ body \in 0..T /\ T = body + tail
  BY TailIs
<1> HIDE DEF tail, iters
<1>2. ASSUME NEW u \in 0..T-1, lo(u) < hi(u)
      PROVE  /\ u - body \in 0..tail-1 /\ u - body \in Nat /\ tail # 0
             /\ lo(u) = LowCta(u - body, K, iters)
             /\ hi(u) = HighCta(u - body, K, iters)
             /\ lo(u) \in 0..G-1 /\ hi(u) \in 0..G-1
  <2>1. lo(u) \in 0..G-1 /\ hi(u) \in 0..G-1
    BY TileIsHeld
  <2>2. lo(u) = (IF u < body THEN u % G ELSE LowCta(u - body, K, iters))
        /\ hi(u) = (IF u < body THEN u % G ELSE HighCta(u - body, K, iters))
    BY DEF LowOf, HighOf, tail, iters
  <2> HIDE DEF lo, hi
  <2>3. ~(u < body)
    BY <1>2, <2>1, <2>2
  <2>4. lo(u) = LowCta(u - body, K, iters) /\ hi(u) = HighCta(u - body, K, iters)
    BY <2>2, <2>3
  <2>5. u - body \in 0..tail-1 /\ u - body \in Nat /\ tail # 0
    BY <1>1, <2>3
  <2> QED BY <2>1, <2>4, <2>5
<1>3. ASSUME NEW u \in 0..T-1, NEW v \in 0..T-1, lo(u) < hi(u), lo(v) < hi(v), u < v
      PROVE  lo(u) < lo(v)
  <2>1. u - body \in Nat /\ v - body \in Nat /\ u - body < v - body
    BY <1>1, <1>2, <1>3
  <2>2. iters \in Nat \ {0}
    BY <1>2, <1>3, ItersAre DEF tail, iters
  <2>3. HighCta(u - body, K, iters) <= LowCta(v - body, K, iters)
    BY <2>1, <2>2, HoldersInOrder
  <2>4. hi(u) <= lo(v) /\ hi(u) \in Nat /\ lo(v) \in Nat /\ lo(u) \in Nat
    BY <1>2, <1>3, <2>3
  <2> HIDE DEF lo, hi
  <2> QED BY <1>3, <2>4
<1>4. \A u : LockOf(u, T, K, G, m8) = IF tail < G THEN u - body ELSE lo(u) + 1
  BY DEF LockOf, tail
<1>5. ASSUME NEW u \in 0..T-1, lo(u) < hi(u),
             LockOf(u, T, K, G, m8) = LockOf(t, T, K, G, m8)
      PROVE  u = t
  <2>1. lo(u) \in Nat /\ lo(t) \in Nat
    BY <1>2, <1>5
  <2>2. (u < t => lo(u) < lo(t)) /\ (t < u => lo(t) < lo(u))
    BY <1>3, <1>5
  <2> HIDE DEF lo, hi
  <2> QED BY <1>1, <1>4, <1>5, <2>1, <2>2
<1>6. LockOf(t, T, K, G, m8) \in 0..G
  <2>1. lo(t) < hi(t) /\ lo(t) \in 0..G-1 /\ hi(t) \in 0..G-1 /\ t - body \in 0..tail-1
    BY <1>2
  <2> HIDE DEF lo, hi
  <2> QED BY <1>1, <1>4, <2>1
<1> QED BY <1>5, <1>6

\* The segment of tail tile t in the share of a CTA.
PartOf(t, c, T, K, G, m8) ==
  LET tail  == TailOf(T, G, m8)
      iters == ItersOf(T, K, G, m8)
      first == (iters * c) \div K
      Cut(u) == Slicing(u, c, K, iters)
      k     == IF t = first THEN iters * c - K * t ELSE 0
      left  == iters * (c + 1) - (K * t + k)
  IN [tile |-> T - tail + t, k |-> k,
      len |-> IF k + left > K THEN K - k ELSE left,
      slices |-> Cut(t).slices, index |-> Cut(t).index,
      slot |-> IF tail < G THEN t
               ELSE c + Cardinality({u \in first..t :
                          Cut(u).slices > 1 /\ Cut(u).index = Cut(u).slices - 1})]

LEMMA ShareIs ==
  ASSUME NEW T, NEW K, NEW G, NEW m8, NEW c
  PROVE  Share(c, T, K, G, m8) =
           LET tail  == TailOf(T, G, m8)
               iters == ItersOf(T, K, G, m8)
               first == (iters * c) \div K
               last  == IF iters = 0 THEN first - 1
                        ELSE LET l == (iters * (c + 1) - 1) \div K
                             IN IF l < tail THEN l ELSE tail - 1
           IN {Whole(c + i * G, K) : i \in 0..WavesOf(T, G, m8)-1}
                \union {PartOf(t, c, T, K, G, m8) : t \in first..last}
  BY DEF Share, TailOf, WavesOf, ItersOf, PartOf

\* The tail tiles of a CTA's share are those it holds k tiles of.
LEMMA TailSharesAre ==
  ASSUME NEW T \in Nat, NEW K \in Nat \ {0}, NEW G \in Nat \ {0}, NEW m8 \in BOOLEAN,
         NEW c \in 0..G-1,
         NEW tail, tail = TailOf(T, G, m8), NEW iters, iters = ItersOf(T, K, G, m8),
         tail # 0
  PROVE  LET first == (iters * c) \div K
             l == (iters * (c + 1) - 1) \div K
             last == IF l < tail THEN l ELSE tail - 1
         IN /\ first \in Nat /\ last \in Int
            /\ \A t \in Int : t \in first..last <=>
                  t \in 0..tail-1 /\ LowCta(t, K, iters) <= c /\ c <= HighCta(t, K, iters)
<1> DEFINE first == (iters * c) \div K
           ic == iters * c
           ic1 == iters * (c + 1)
           l == (ic1 - 1) \div K
           last == IF l < tail THEN l ELSE tail - 1
<1>1. iters \in Nat \ {0} /\ tail \in Nat \ {0} /\ c \in Nat
  <2>1. TailOf(T, G, m8) # 0 /\ TailOf(T, G, m8) \in 0..T
    BY TailIs
  <2>2. ItersOf(T, K, G, m8) \in Nat \ {0}
    BY <2>1, ItersAre
  <2> QED BY <2>1, <2>2
<1>2. ic \in Nat /\ ic1 = ic + iters /\ ic1 \in Nat
  <2>1. iters * c \in Nat /\ iters * (c + 1) = iters * c + iters
    BY <1>1, ProductMonotone
  <2> DEFINE x == iters * c
             y == iters * (c + 1)
  <2>2. x \in Nat /\ y = x + iters
    BY <2>1
  <2> HIDE DEF x, y
  <2>3. x \in Nat /\ y = x + iters /\ y \in Nat
    BY <2>2, <1>1
  <2> QED BY <2>3 DEF x, y
<1>3. ic = c * iters /\ ic1 = (c + 1) * iters
  BY <1>1
<1> HIDE DEF ic, ic1
<1>4. \A a \in Nat : first \in Nat /\ a * K \in Nat /\ (a <= first <=> a * K <= ic)
  BY <1>2, QuotientIs DEF ic
<1>5. \A a \in Nat : l \in Nat /\ (a <= l <=> a * K <= ic1 - 1)
  <2>1. ic1 - 1 \in Nat
    BY <1>1, <1>2
  <2> QED BY <2>1, QuotientIs
<1>6. first \in Nat /\ l \in Nat /\ last \in Int
  BY <1>1, <1>4, <1>5, 0 \in Nat
<1> HIDE DEF first, l
<1>7. ASSUME NEW t \in Nat
      PROVE  /\ first <= t <=> c <= HighCta(t, K, iters)
             /\ t <= l <=> LowCta(t, K, iters) <= c
  <2> DEFINE kt == K * t
             kt1 == K * (t + 1)
             hi == HighCta(t, K, iters)
             lo == LowCta(t, K, iters)
  <2>1. \A a \in Nat : /\ lo \in Nat /\ hi \in Nat /\ kt \in Nat /\ kt1 = kt + K /\ kt1 \in Nat
                       /\ a <= lo <=> a * iters <= kt
                       /\ a <= hi <=> a * iters < kt1
    BY <1>1, HoldersAre
  <2>2. (c <= hi <=> ic < kt1) /\ (c + 1 <= lo <=> ic1 <= kt)
        /\ lo \in Nat /\ hi \in Nat /\ kt \in Nat /\ kt1 \in Nat
    BY <1>1, <1>3, <2>1
  <2>3. (t + 1 <= first <=> kt1 <= ic) /\ (t <= l <=> kt <= ic1 - 1)
    <3>1. (t + 1) * K = kt1 /\ t * K = kt
      OBVIOUS
    <3> QED BY <1>4, <1>5, <3>1
  <2> HIDE DEF lo, hi, kt, kt1
  <2>4. (first <= t <=> c <= hi) /\ (t <= l <=> lo <= c)
    BY <1>1, <1>2, <1>6, <2>2, <2>3
  <2> QED BY <2>4 DEF lo, hi
<1>8. \A t \in Int : t \in first..last <=>
         t \in 0..tail-1 /\ LowCta(t, K, iters) <= c /\ c <= HighCta(t, K, iters)
  <2> TAKE t \in Int
  <2>1. t \in first..last <=> t \in Nat /\ first <= t /\ t <= l /\ t < tail
    BY <1>1, <1>6
  <2>2. t \in 0..tail-1 <=> t \in Nat /\ t < tail
    BY <1>1
  <2> HIDE DEF last
  <2> QED BY <1>7, <2>1, <2>2
<1> QED BY <1>6, <1>8 DEF first, l, ic, ic1

\* A segment of the share of CTA c that is in a tile of the GEMM.
IsPart(s, c, T, K, G, m8) ==
  LET t == s.tile
      lo == LowOf(t, T, K, G, m8)
      hi == HighOf(t, T, K, G, m8)
  IN /\ lo <= c /\ c <= hi
     /\ s.slices = hi - lo + 1 /\ s.index = hi - c
     /\ s.k = EdgeOf(c, t, T, K, G, m8)
     /\ s.k + s.len = EdgeOf(c + 1, t, T, K, G, m8) /\ s.len \in Nat
     /\ s.slices > 1 => s.slot = LockOf(t, T, K, G, m8)

\* The part of tail tile u that CTA c has.
LEMMA PartIs ==
  ASSUME NEW T \in Nat, NEW K \in Nat \ {0}, NEW G \in Nat \ {0}, NEW m8 \in BOOLEAN,
         NEW c \in 0..G-1, TailOf(T, G, m8) # 0, NEW u \in 0..TailOf(T, G, m8)-1,
         LowCta(u, K, ItersOf(T, K, G, m8)) <= c, c <= HighCta(u, K, ItersOf(T, K, G, m8))
  PROVE  /\ PartOf(u, c, T, K, G, m8).tile = T - TailOf(T, G, m8) + u
         /\ PartOf(u, c, T, K, G, m8).tile \in 0..T-1
         /\ IsPart(PartOf(u, c, T, K, G, m8), c, T, K, G, m8)
<1> DEFINE tail == TailOf(T, G, m8)
           iters == ItersOf(T, K, G, m8)
           first == (iters * c) \div K
           Cut(v) == Slicing(v, c, K, iters)
           ic == iters * c
           ku == K * u
           ic1 == iters * (c + 1)
           k == IF u = first THEN ic - ku ELSE 0
           left == ic1 - (ku + k)
           S == {v \in first..u : Cut(v).slices > 1 /\ Cut(v).index = Cut(v).slices - 1}
           lo == LowCta(u, K, iters)
           hi == HighCta(u, K, iters)
           part == PartOf(u, c, T, K, G, m8)
           t == T - tail + u
<1>1. part = [tile |-> t, k |-> k,
              len |-> IF k + left > K THEN K - k ELSE left,
              slices |-> Cut(u).slices, index |-> Cut(u).index,
              slot |-> IF tail < G THEN u ELSE c + Cardinality(S)]
  BY DEF PartOf
<1>2. iters \in Nat \ {0} /\ tail \in 0..T /\ tail # 0 /\ c \in Nat /\ u \in Nat /\ u \in 0..tail-1
      /\ (G <= tail => K <= iters)
  <2>1. tail \in 0..T /\ tail # 0
    BY TailIs
  <2>2. iters \in Nat \ {0} /\ (G <= tail => K <= iters)
    BY ItersAre
  <2> QED BY <2>1, <2>2
<1>3. t \in 0..T-1 /\ t \in Nat /\ ~(t < T - tail) /\ t - (T - tail) = u
  <2> HIDE DEF tail
  <2> QED BY <1>2
<1>4. LowOf(t, T, K, G, m8) = lo /\ HighOf(t, T, K, G, m8) = hi
  BY <1>3 DEF LowOf, HighOf
<1>5. /\ EdgeOf(c, t, T, K, G, m8) = IF c <= lo THEN 0 ELSE IF c > hi THEN K ELSE c * iters - ku
      /\ EdgeOf(c+1, t, T, K, G, m8) = IF c+1 <= lo THEN 0 ELSE IF c+1 > hi THEN K ELSE (c+1) * iters - ku
  BY <1>3, <1>4 DEF EdgeOf
<1>6. LockOf(t, T, K, G, m8) = IF tail < G THEN u ELSE lo + 1
  BY <1>3, <1>4 DEF LockOf
<1> HIDE DEF tail, iters, part
<1>7. \A a \in Nat : /\ lo \in Nat /\ hi \in Nat /\ a * iters \in Nat /\ ku \in Nat
                     /\ a <= lo <=> a * iters <= ku
                     /\ a <= hi <=> a * iters < K * (u + 1)
  BY <1>2, HoldersAre
<1>8. /\ lo \in Nat /\ hi \in Nat /\ lo <= c /\ c <= hi /\ ku \in Nat
      /\ c \in lo..hi
  BY <1>2, <1>7 DEF iters
<1>9. Cut(u) = [slices |-> hi - lo + 1, index |-> hi - c]
  BY <1>2, <1>8, SlicingIs
<1>10. ic = c * iters /\ ic1 = (c + 1) * iters /\ ic1 = ic + iters /\ ic \in Nat /\ ic1 \in Nat
  <2>1. ic = c * iters /\ ic1 = (c + 1) * iters /\ (c + 1) * iters = c * iters + iters
        /\ c * iters \in Nat
    BY <1>2, <1>7
  <2> DEFINE x == c * iters
  <2> HIDE DEF ic, ic1
  <2>2. ic = x /\ ic1 = x + iters /\ x \in Nat
    BY <2>1
  <2> HIDE DEF x
  <2>3. ic1 = ic + iters /\ ic \in Nat /\ ic1 \in Nat
    BY <2>2, <1>2
  <2> QED BY <2>1, <2>3
<1>11. first \in Nat /\ (u <= first <=> ku <= ic)
  <2>1. u * K = ku /\ ic \in Nat
    BY <1>2, <1>10
  <2> HIDE DEF ic
  <2>2. ic \div K \in Nat /\ (u <= ic \div K <=> u * K <= ic)
    BY <1>2, <2>1, QuotientIs
  <2> QED BY <2>1, <2>2 DEF ic
<1> DEFINE l == (iters * (c + 1) - 1) \div K
           last == IF l < tail THEN l ELSE tail - 1
<1>a. /\ last \in Int
      /\ \A w \in Int : w \in first..last <=>
           w \in 0..tail-1 /\ LowCta(w, K, iters) <= c /\ c <= HighCta(w, K, iters)
  <2>1. tail = TailOf(T, G, m8) /\ iters = ItersOf(T, K, G, m8)
    BY DEF tail, iters
  <2>2. tail # 0 /\ c \in 0..G-1
    BY <1>2
  <2> HIDE DEF tail, iters
  <2> QED BY <2>1, <2>2, TailSharesAre
<1>12. first <= u
  <2>1. u \in first..last /\ last \in Int
    BY <1>2, <1>8, <1>a
  <2> HIDE DEF first, last
  <2> QED BY <2>1, <1>2, <1>11
<1>13. k = EdgeOf(c, t, T, K, G, m8)
  <2>1. (c <= lo <=> ic <= ku) /\ (c + 1 <= hi => TRUE)
    BY <1>2, <1>7, <1>10
  <2>2. EdgeOf(c, t, T, K, G, m8) = IF c <= lo THEN 0 ELSE IF c > hi THEN K ELSE ic - ku
    BY <1>5, <1>10
  <2> HIDE DEF ic, ku, lo, hi, first
  <2> QED BY <1>2, <1>8, <1>10, <1>11, <1>12, <2>1, <2>2
<1> DEFINE ku1 == K * (u + 1)
<1>14. ku1 = ku + K /\ ku1 \in Nat /\ (c + 1 <= hi <=> ic1 < ku1)
  <2>1. ku1 = ku + K
    BY <1>2
  <2>2. c + 1 \in Nat /\ (c + 1 <= hi <=> (c + 1) * iters < K * (u + 1))
    BY <1>2, <1>7
  <2> HIDE DEF ku
  <2> QED BY <1>2, <1>8, <1>10, <2>1, <2>2
<1>15. LET len == IF k + left > K THEN K - k ELSE left
       IN k + len = EdgeOf(c + 1, t, T, K, G, m8) /\ len \in Nat
  <2>1. EdgeOf(c+1, t, T, K, G, m8) = IF c+1 <= lo THEN 0 ELSE IF c+1 > hi THEN K ELSE ic1 - ku
    BY <1>5, <1>10
  <2>2. /\ EdgeOf(c, t, T, K, G, m8) \in 0..K /\ EdgeOf(c+1, t, T, K, G, m8) \in 0..K
        /\ EdgeOf(c, t, T, K, G, m8) < EdgeOf(c+1, t, T, K, G, m8)
    BY <1>3, <1>4, <1>8, TileIsHeld, SMTT(60)
  <2> DEFINE e == EdgeOf(c, t, T, K, G, m8)
             e1 == EdgeOf(c+1, t, T, K, G, m8)
  <2>3. e1 = (IF c+1 > hi THEN K ELSE ic1 - ku)
    <3> HIDE DEF e1, lo, hi, ic1, ku
    <3> QED BY <1>2, <1>8, <2>1 DEF e1
  <2>4. k = e /\ e \in 0..K /\ e1 \in 0..K /\ e < e1
    BY <1>13, <2>2
  <2> HIDE DEF e, e1, ic1, ku, k, ku1, hi
  <2>5. LET len == IF k + left > K THEN K - k ELSE left
        IN k + len = e1 /\ len \in Nat
    BY <1>2, <1>8, <1>10, <1>14, <2>3, <2>4
  <2> QED BY <2>5 DEF e1
<1>16. hi > lo => (IF tail < G THEN u ELSE c + Cardinality(S)) = LockOf(t, T, K, G, m8)
  <2> SUFFICES ASSUME hi > lo, ~(tail < G) PROVE c + Cardinality(S) = lo + 1
    BY <1>6
  <2>0. G <= tail
    BY <1>2
  <2>1. hi <= lo + 1
    BY <1>2, <2>0, HoldersInOrder
  <2>2. ASSUME NEW v \in first..u
        PROVE  /\ v \in Nat /\ LowCta(v, K, iters) <= c /\ c <= HighCta(v, K, iters)
               /\ Cut(v) = [slices |-> HighCta(v, K, iters) - LowCta(v, K, iters) + 1,
                            index |-> HighCta(v, K, iters) - c]
               /\ LowCta(v, K, iters) \in Nat /\ HighCta(v, K, iters) \in Nat
    <3>1. u \in first..last /\ last \in Int /\ first \in Nat
      BY <1>2, <1>8, <1>11, <1>a
    <3> HIDE DEF first, last, l
    <3>2. v \in first..last /\ v \in Int
      BY <3>1
    <3>3. v \in Nat /\ LowCta(v, K, iters) <= c /\ c <= HighCta(v, K, iters)
      BY <1>a, <3>2, <1>2
    <3>4. LowCta(v, K, iters) \in Nat /\ HighCta(v, K, iters) \in Nat
      BY <3>3, <1>2, HoldersAre
    <3>5. c \in LowCta(v, K, iters)..HighCta(v, K, iters)
      BY <3>3, <3>4, <1>2
    <3>6. Cut(v) = [slices |-> HighCta(v, K, iters) - LowCta(v, K, iters) + 1,
                    index |-> HighCta(v, K, iters) - c]
      BY <3>3, <3>5, <1>2, SlicingIs
    <3> QED BY <3>3, <3>4, <3>6
  <2>3. ASSUME NEW v \in first..u
        PROVE  v \in S <=> v = u /\ c = lo
    <3> DEFINE vl == LowCta(v, K, iters)
               vh == HighCta(v, K, iters)
    <3>1. /\ v \in Nat /\ vl <= c /\ c <= vh /\ vl \in Nat /\ vh \in Nat
          /\ Cut(v).slices = vh - vl + 1 /\ Cut(v).index = vh - c
      BY <2>2
    <3>2. v < u => vh <= lo
      BY <3>1, <1>2, HoldersInOrder
    <3>3. v <= u
      BY <1>2, <1>11
    <3>4. v \in S <=> Cut(v).slices > 1 /\ Cut(v).index = Cut(v).slices - 1
      OBVIOUS
    <3>5. v = u => vl = lo /\ vh = hi
      OBVIOUS
    <3> HIDE DEF vl, vh, lo, hi, S, first, Cut
    <3> QED BY <3>1, <3>2, <3>3, <3>4, <3>5, <1>2, <1>8
  <2>4. u \in first..u
    <3> HIDE DEF first
    <3> QED BY <1>2, <1>11, <1>12
  <2>5. S = IF c = lo THEN {u} ELSE {}
    <3>1. S \subseteq first..u
      OBVIOUS
    <3> HIDE DEF S, first, lo
    <3> QED BY <2>3, <2>4, <3>1
  <2>6. c = lo => Cardinality(S) = 1
    BY <2>5, FS_Singleton
  <2>7. c # lo => Cardinality(S) = 0
    BY <2>5, FS_EmptySet
  <2> HIDE DEF S, lo, hi
  <2> QED BY <1>2, <1>8, <2>1, <2>6, <2>7
<1>17. /\ part.tile = t /\ part.k = k /\ part.slices = Cut(u).slices /\ part.index = Cut(u).index
       /\ part.len = IF k + left > K THEN K - k ELSE left
       /\ part.slot = IF tail < G THEN u ELSE c + Cardinality(S)
  BY <1>1
<1>18. part.slices = hi - lo + 1 /\ part.index = hi - c
  BY <1>9, <1>17
<1>19. part.slices > 1 => hi > lo
  <2> HIDE DEF hi, lo
  <2> QED BY <1>8, <1>18
<1>20. IsPart(part, c, T, K, G, m8)
  <2> HIDE DEF t, S, Cut, left
  <2>1. part.k + part.len = EdgeOf(c + 1, t, T, K, G, m8) /\ part.len \in Nat
    BY <1>15, <1>17
  <2>2. part.slices > 1 => part.slot = LockOf(t, T, K, G, m8)
    BY <1>16, <1>17, <1>19
  <2> HIDE DEF k, lo, hi
  <2> QED BY <1>4, <1>8, <1>13, <1>17, <1>18, <2>1, <2>2 DEF IsPart
<1> QED BY <1>3, <1>17, <1>20 DEF part, tail

LEMMA ShareParts ==
  ASSUME NEW T \in Nat, NEW K \in Nat \ {0}, NEW G \in Nat \ {0}, NEW m8 \in BOOLEAN,
         NEW c \in 0..G-1
  PROVE  /\ \A s \in Share(c, T, K, G, m8) :
              s.tile \in Nat /\ (s.tile < T => IsPart(s, c, T, K, G, m8))
         /\ \A t \in 0..T-1 : LowOf(t, T, K, G, m8) <= c /\ c <= HighOf(t, T, K, G, m8)
              => \E s \in Share(c, T, K, G, m8) : s.tile = t
         /\ \A s, u \in Share(c, T, K, G, m8) : s.tile = u.tile /\ s.tile < T => s = u
<1> DEFINE tail == TailOf(T, G, m8)
           iters == ItersOf(T, K, G, m8)
           waves == WavesOf(T, G, m8)
           first == (iters * c) \div K
           l == (iters * (c + 1) - 1) \div K
           last == IF l < tail THEN l ELSE tail - 1
           Wholes == {Whole(c + i * G, K) : i \in 0..waves-1}
           Held == {t \in 0..tail-1 : LowCta(t, K, iters) <= c /\ c <= HighCta(t, K, iters)}
           Parts == {PartOf(t, c, T, K, G, m8) : t \in Held}
<1>1. tail \in 0..T /\ waves \in Nat /\ c \in Nat
      /\ \A i \in Nat : /\ c + i * G \in Nat
                        /\ i < waves /\ c + i * G < T <=> c + i * G < T - tail
  <2>1. tail \in 0..T /\ waves \in Nat
        /\ \A x \in 0..G-1, i \in Nat :
             /\ x + i * G \in Nat
             /\ i < waves /\ x + i * G < T <=> x + i * G < T - tail
    BY TailIs
  <2> HIDE DEF tail, waves
  <2>2. c \in Nat
    OBVIOUS
  <2> QED BY <2>1, <2>2, Zenon
<1>2. Share(c, T, K, G, m8) = Wholes \union Parts
  <2>1. Share(c, T, K, G, m8) =
          Wholes \union {PartOf(t, c, T, K, G, m8) :
                           t \in first..(IF iters = 0 THEN first - 1 ELSE last)}
    BY ShareIs
  <2>2. CASE tail = 0
    <3>1. iters = 0
      <4>1. K * tail = 0 /\ 0 * G = 0
        BY <2>2
      <4>2. (0 + G - 1) \div G \in Nat /\ ((0 + G - 1) \div G <= 0 <=> 0 <= 0 * G)
        BY RoundedUpIs, 0 \in Nat
      <4>3. iters = (K * tail + G - 1) \div G
        BY DEF ItersOf
      <4>4. iters = (0 + G - 1) \div G
        BY <4>1, <4>3
      <4> HIDE DEF iters
      <4> QED BY <4>1, <4>2, <4>4
    <3>2. first = 0
      <4>1. iters * c = 0
        BY <3>1, <1>1
      <4>2. 0 * K + 0 = 0 /\ (0 * K + 0) \div K = 0
        BY PartsUnique, 0 \in Nat
      <4> HIDE DEF iters
      <4> QED BY <4>1, <4>2
    <3>3. first..(IF iters = 0 THEN first - 1 ELSE last) = {} /\ Held = {}
      <4> HIDE DEF first, last, iters, tail
      <4> QED BY <2>2, <3>1, <3>2
    <3> HIDE DEF first, last, iters, Held
    <3> QED BY <2>1, <3>3
  <2>3. CASE tail # 0
    <3>1. iters # 0
      BY <2>3, ItersAre
    <3>2. /\ first \in Nat /\ last \in Int
          /\ \A t \in Int : t \in first..last <=>
               t \in 0..tail-1 /\ LowCta(t, K, iters) <= c /\ c <= HighCta(t, K, iters)
      BY <2>3, TailSharesAre
    <3>3. first..last = Held
      <4> HIDE DEF first, last, iters, tail
      <4> QED BY <3>2, <1>1
    <3> HIDE DEF first, last, iters, Held
    <3> QED BY <2>1, <3>1, <3>3
  <2> QED BY <2>2, <2>3
<1>3. ASSUME NEW t \in Held
      PROVE  /\ PartOf(t, c, T, K, G, m8).tile = T - tail + t
             /\ PartOf(t, c, T, K, G, m8).tile \in 0..T-1
             /\ IsPart(PartOf(t, c, T, K, G, m8), c, T, K, G, m8)
  <2>1. tail # 0
    BY <1>1
  <2> QED BY <2>1, PartIs
<1>4. ASSUME NEW i \in 0..waves-1
      PROVE  /\ Whole(c + i * G, K).tile = c + i * G
             /\ c + i * G \in Nat
             /\ c + i * G < T => c + i * G < T - tail
             /\ c + i * G < T => IsPart(Whole(c + i * G, K), c, T, K, G, m8)
  <2> DEFINE w == c + i * G
             s == Whole(w, K)
  <2>1. i \in Nat /\ i < waves
    BY <1>1
  <2>2. w \in Nat /\ (w < T => w < T - tail)
    BY <1>1, <2>1
  <2>3. w % G = c
    <3>1. (i * G + c) % G = c /\ i * G + c = c + i * G
      BY <1>1, <2>1, PartsUnique
    <3> QED BY <3>1
  <2>4. s.tile = w /\ s.k = 0 /\ s.len = K /\ s.slices = 1 /\ s.index = 0
    BY DEF Whole
  <2> HIDE DEF w, s
  <2>5. ASSUME w < T PROVE IsPart(s, c, T, K, G, m8)
    <3>1. LowOf(w, T, K, G, m8) = c /\ HighOf(w, T, K, G, m8) = c
      BY <2>2, <2>3, <2>5 DEF LowOf, HighOf
    <3>2. EdgeOf(c, w, T, K, G, m8) = 0 /\ EdgeOf(c+1, w, T, K, G, m8) = K
      BY <3>1, <1>1 DEF EdgeOf
    <3> QED BY <1>1, <2>4, <3>1, <3>2 DEF IsPart
  <2> QED BY <2>2, <2>4, <2>5 DEF w, s
<1>5. ASSUME NEW t \in 0..T-1, LowOf(t, T, K, G, m8) <= c, c <= HighOf(t, T, K, G, m8)
      PROVE  \E s \in Wholes \union Parts : s.tile = t
  <2>1. CASE t < T - tail
    <3>1. t % G = c
      <4>1. LowOf(t, T, K, G, m8) = t % G /\ HighOf(t, T, K, G, m8) = t % G /\ t % G \in 0..G-1
        BY <2>1, DivMod DEF LowOf, HighOf
      <4> HIDE DEF tail
      <4> QED BY <1>1, <1>5, <4>1
    <3> DEFINE i == t \div G
    <3>2. i \in Nat /\ i * G \in Nat /\ t = i * G + (t % G)
      BY DivMod
    <3>3. c + i * G = t
      <4> DEFINE ig == i * G
      <4> HIDE DEF ig
      <4>1. ig \in Nat /\ t = ig + c
        BY <3>1, <3>2 DEF ig
      <4>2. c + ig = t
        BY <1>1, <4>1
      <4> QED BY <4>2 DEF ig
    <3> HIDE DEF i
    <3>4. c + i * G < T - tail
      BY <2>1, <3>3
    <3>5. i < waves
      BY <1>1, <3>2, <3>4
    <3>6. i \in 0..waves-1
      <4> HIDE DEF waves
      <4> QED BY <1>1, <3>2, <3>5
    <3>7. Whole(c + i * G, K).tile = t
      BY <3>3, <3>6, <1>4
    <3> QED BY <3>6, <3>7
  <2>2. CASE ~(t < T - tail)
    <3> DEFINE u == t - (T - tail)
    <3>1. u \in 0..tail-1 /\ T - tail + u = t
      <4> HIDE DEF tail
      <4> QED BY <1>1, <2>2
    <3>2. LowOf(t, T, K, G, m8) = LowCta(u, K, iters) /\ HighOf(t, T, K, G, m8) = HighCta(u, K, iters)
      BY <2>2 DEF LowOf, HighOf
    <3>3. u \in Held
      BY <1>5, <3>1, <3>2
    <3> HIDE DEF u, Held
    <3>4. PartOf(u, c, T, K, G, m8).tile = t
      BY <1>3, <3>1, <3>3
    <3> QED BY <3>3, <3>4
  <2> QED BY <2>1, <2>2
<1>6. ASSUME NEW s \in Wholes \union Parts, NEW u \in Wholes \union Parts,
             s.tile = u.tile, s.tile < T
      PROVE  s = u
  <2>1. ASSUME NEW x \in Wholes, x.tile < T
        PROVE  x = Whole(x.tile, K) /\ x.tile < T - tail
    BY <1>4, <2>1
  <2>2. ASSUME NEW x \in Parts
        PROVE  /\ ~(x.tile < T - tail)
               /\ x = PartOf(x.tile - (T - tail), c, T, K, G, m8)
    <3>1. PICK t \in Held : x = PartOf(t, c, T, K, G, m8)
      OBVIOUS
    <3>2. x.tile = T - tail + t /\ t \in 0..tail-1
      BY <1>3, <3>1
    <3> HIDE DEF Parts, Held, tail
    <3>3. x.tile - (T - tail) = t /\ ~(x.tile < T - tail)
      BY <1>1, <3>2
    <3> QED BY <3>1, <3>3
  <2> HIDE DEF Wholes, Parts, tail
  <2> QED BY <2>1, <2>2, <1>6
<1>7. ASSUME NEW s \in Wholes \union Parts
      PROVE  s.tile \in Nat /\ (s.tile < T => IsPart(s, c, T, K, G, m8))
  <2>1. CASE s \in Wholes
    BY <2>1, <1>4
  <2>2. CASE s \in Parts
    <3>1. PICK t \in Held : s = PartOf(t, c, T, K, G, m8)
      BY <2>2
    <3> HIDE DEF Parts, Held
    <3> QED BY <3>1, <1>3
  <2> QED BY <2>1, <2>2
<1> HIDE DEF Wholes, Parts
<1> QED BY <1>2, <1>5, <1>6, <1>7

LEMMA EdgesGrow ==
  ASSUME NEW T \in Nat, NEW K \in Nat \ {0}, NEW G \in Nat \ {0}, NEW m8 \in BOOLEAN,
         NEW t \in 0..T-1,
         NEW c \in LowOf(t, T, K, G, m8)..HighOf(t, T, K, G, m8)+1
  PROVE  \A d \in c..HighOf(t, T, K, G, m8)+1 :
            EdgeOf(c, t, T, K, G, m8) <= EdgeOf(d, t, T, K, G, m8)
<1> DEFINE lo == LowOf(t, T, K, G, m8)
           hi == HighOf(t, T, K, G, m8)
           Edge(d) == EdgeOf(d, t, T, K, G, m8)
           Bad == {d \in c..hi+1 : ~(Edge(c) <= Edge(d))}
<1>1. /\ lo \in 0..G-1 /\ hi \in 0..G-1 /\ lo <= hi /\ Edge(hi + 1) = K
      /\ \A d \in lo..hi : Edge(d) \in 0..K /\ Edge(d+1) \in 0..K /\ Edge(d) < Edge(d+1)
  BY TileIsHeld
<1> HIDE DEF lo, hi, Edge
<1>2. c \in Nat /\ lo <= c /\ c <= hi + 1 /\ c \in lo..hi+1
  BY <1>1 DEF lo, hi
<1>3. \A d \in lo..hi+1 : Edge(d) \in 0..K
  <2> TAKE d \in lo..hi+1
  <2>1. d \in lo..hi \/ d = hi + 1
    BY <1>1
  <2>2. K \in 0..K
    OBVIOUS
  <2> QED BY <1>1, <2>1, <2>2
<1>4. ASSUME Bad # {} PROVE FALSE
  <2>1. Bad \in SUBSET Nat
    BY <1>2
  <2>2. PICK d \in Bad : \A e \in Bad : d <= e
    <3> HIDE DEF Bad
    <3> QED BY <1>4, <2>1, LeastNumber
  <2>3. d # c
    BY <1>2, <1>3
  <2>4. d \in Nat /\ d - 1 \in c..hi+1 /\ d - 1 \in lo..hi /\ d - 1 + 1 = d /\ d \in lo..hi+1
        /\ ~(d <= d - 1)
    BY <1>1, <1>2, <2>2, <2>3
  <2>5. Edge(c) <= Edge(d - 1)
    BY <2>2, <2>4
  <2>6. Edge(d - 1) < Edge(d) /\ Edge(d - 1) \in 0..K /\ Edge(d) \in 0..K /\ Edge(c) \in 0..K
    BY <1>1, <1>2, <1>3, <2>4
  <2>7. Edge(c) <= Edge(d)
    BY <2>5, <2>6
  <2> QED BY <2>2, <2>7
<1> QED BY <1>4 DEF lo, hi, Edge

\* Every way of sharing tiles over a grid is a partition of their k tiles, with
\* the same lock for all holders of a tile that is cut, and another for others.
THEOREM SharesAreExact ==
  \A T \in Nat, K \in Nat \ {0}, G \in Nat \ {0}, m8 \in BOOLEAN : ShareExact(T, K, G, m8)
<1> TAKE T \in Nat, K \in Nat \ {0}, G \in Nat \ {0}, m8 \in BOOLEAN
<1> DEFINE P(x) == Share(x, T, K, G, m8)
           lo(t) == LowOf(t, T, K, G, m8)
           hi(t) == HighOf(t, T, K, G, m8)
           Edge(c, t) == EdgeOf(c, t, T, K, G, m8)
           All == Slices(T, K, G, m8)
<1>1. \A x : x \in All <=>
         \E c \in 0..G-1 : \E s \in P(c) : x = <<c, s>> /\ s.tile < T
  BY DEF Slices
<1>2. \A c \in 0..G-1 :
         /\ \A s \in P(c) : s.tile \in Nat /\ (s.tile < T => IsPart(s, c, T, K, G, m8))
         /\ \A t \in 0..T-1 : lo(t) <= c /\ c <= hi(t) => \E s \in P(c) : s.tile = t
         /\ \A s, u \in P(c) : s.tile = u.tile /\ s.tile < T => s = u
  BY ShareParts
<1>3. ASSUME NEW t \in 0..T-1
      PROVE  /\ lo(t) \in 0..G-1 /\ hi(t) \in 0..G-1 /\ lo(t) <= hi(t)
             /\ Edge(lo(t), t) = 0 /\ Edge(hi(t) + 1, t) = K
             /\ \A c \in lo(t)..hi(t) :
                  /\ Edge(c, t) \in 0..K /\ Edge(c+1, t) \in 0..K /\ Edge(c, t) < Edge(c+1, t)
  BY TileIsHeld
<1>4. ASSUME NEW t \in 0..T-1, NEW c \in lo(t)..hi(t)+1
      PROVE  \A d \in c..hi(t)+1 : Edge(c, t) <= Edge(d, t)
  BY EdgesGrow
<1> HIDE DEF P, lo, hi, Edge, All
<1>5. SUFFICES ASSUME NEW t \in 0..T-1
      PROVE  LET parts == {x[2] : x \in {y \in All : y[2].tile = t}}
             IN /\ \A k \in 0..K-1 :
                     Cardinality({x \in All :
                        x[2].tile = t /\ k \in x[2].k .. x[2].k + x[2].len - 1}) = 1
                /\ {s.index : s \in parts} = 0..Cardinality(parts) - 1
                /\ \A s, u \in parts : /\ s.slices = Cardinality(parts)
                                       /\ s.slot = u.slot
                                       /\ s.k < u.k => s.index > u.index
                /\ \A x \in All, s \in parts :
                     x[2].tile # t /\ x[2].slices > 1 /\ s.slices > 1
                       => x[2].slot # s.slot
  BY Zenon DEF ShareExact, All
<1> DEFINE parts == {x[2] : x \in {y \in All : y[2].tile = t}}
           L == lo(t)
           H == hi(t)
           seg == [c \in L..H |-> CHOOSE s \in P(c) : s.tile = t]
<1>6. L \in Nat /\ H \in Nat /\ L <= H /\ H < G /\ t \in Nat /\ t < T
  BY <1>3
<1>7. ASSUME NEW s, NEW c, c \in 0..G-1, s \in P(c), s.tile < T
      PROVE  /\ s.tile \in 0..T-1
             /\ c \in lo(s.tile)..hi(s.tile) /\ c \in Nat
             /\ s.slices = hi(s.tile) - lo(s.tile) + 1 /\ s.index = hi(s.tile) - c
             /\ s.k = Edge(c, s.tile) /\ s.k + s.len = Edge(c + 1, s.tile) /\ s.len \in Nat
             /\ s.slices > 1 => s.slot = LockOf(s.tile, T, K, G, m8)
  <2>1. s.tile \in 0..T-1 /\ IsPart(s, c, T, K, G, m8) /\ c \in Nat
    BY <1>2, <1>7
  <2>2. lo(s.tile) \in Nat /\ hi(s.tile) \in Nat
    BY <1>3, <2>1
  <2>3. /\ lo(s.tile) <= c /\ c <= hi(s.tile)
        /\ s.slices = hi(s.tile) - lo(s.tile) + 1 /\ s.index = hi(s.tile) - c
        /\ s.k = Edge(c, s.tile) /\ s.k + s.len = Edge(c + 1, s.tile) /\ s.len \in Nat
        /\ s.slices > 1 => s.slot = LockOf(s.tile, T, K, G, m8)
    BY <2>1 DEF IsPart, lo, hi, Edge
  <2>4. c \in lo(s.tile)..hi(s.tile)
    BY <2>1, <2>2, <2>3
  <2> QED BY <2>1, <2>3, <2>4
<1> HIDE DEF L, H
<1>8. ASSUME NEW c \in L..H
      PROVE  /\ c \in 0..G-1 /\ seg[c] \in P(c) /\ seg[c].tile = t
             /\ <<c, seg[c]>> \in All /\ seg[c] \in parts
             /\ seg[c].slices = H - L + 1 /\ seg[c].index = H - c
             /\ seg[c].k = Edge(c, t) /\ seg[c].k + seg[c].len = Edge(c + 1, t)
             /\ seg[c].len \in Nat
             /\ seg[c].slices > 1 => seg[c].slot = LockOf(t, T, K, G, m8)
  <2>1. c \in 0..G-1 /\ lo(t) <= c /\ c <= hi(t)
    BY <1>6 DEF L, H
  <2>2. \E s \in P(c) : s.tile = t
    BY <1>2, <2>1
  <2>3. seg[c] \in P(c) /\ seg[c].tile = t
    BY <2>2
  <2>4. <<c, seg[c]>> \in All
    BY <1>1, <1>6, <2>1, <2>3
  <2>5. <<c, seg[c]>>[2] = seg[c]
    OBVIOUS
  <2>6. seg[c] \in parts
    BY <2>3, <2>4, <2>5
  <2> HIDE DEF seg
  <2> QED BY <1>6, <1>7, <2>1, <2>3, <2>4, <2>6 DEF L, H
<1>9. ASSUME NEW x \in All, x[2].tile = t
      PROVE  \E c \in L..H : x = <<c, seg[c]>> /\ x[2] = seg[c] /\ x[1] = c
  <2>1. PICK c \in 0..G-1 : \E s \in P(c) : x = <<c, s>> /\ s.tile < T
    BY <1>1
  <2>2. PICK s \in P(c) : x = <<c, s>> /\ s.tile < T
    BY <2>1
  <2>3. s.tile = t /\ x[2] = s /\ x[1] = c
    BY <1>9, <2>2
  <2>4. c \in L..H
    BY <1>7, <2>2, <2>3 DEF L, H
  <2>5. s = seg[c]
    <3> HIDE DEF seg
    <3> QED BY <1>2, <1>8, <2>2, <2>3, <2>4
  <2> HIDE DEF seg
  <2> QED BY <2>2, <2>3, <2>4, <2>5
<1>10. parts = {seg[c] : c \in L..H}
  <2> HIDE DEF seg
  <2>1. \A s \in parts : \E c \in L..H : s = seg[c]
    BY <1>9
  <2>2. \A c \in L..H : seg[c] \in parts
    BY <1>8
  <2> HIDE DEF parts
  <2> QED BY <2>1, <2>2
<1>11. Cardinality(parts) = H - L + 1
  <2>1. IsFiniteSet(L..H) /\ Cardinality(L..H) = H - L + 1
    BY <1>6, FS_Interval
  <2>2. seg \in Bijection(L..H, parts)
    <3>1. seg \in [L..H -> parts]
      BY <1>8
    <3>2. \A c, d \in L..H : seg[c] = seg[d] => c = d
      <4> TAKE c, d \in L..H
      <4>1. seg[c].index = H - c /\ seg[d].index = H - d
        BY <1>8
      <4> HIDE DEF seg
      <4> QED BY <4>1, <1>6
    <3>3. \A s \in parts : \E c \in L..H : seg[c] = s
      BY <1>10
    <3> HIDE DEF seg, parts
    <3>4. seg \in Injection(L..H, parts)
      BY <3>1, <3>2 DEF Injection, IsInjective
    <3>5. seg \in Surjection(L..H, parts)
      BY <3>1, <3>3 DEF Surjection
    <3> QED BY <3>4, <3>5 DEF Bijection
  <2> HIDE DEF seg, parts
  <2>3. ExistsBijection(L..H, parts)
    BY <2>2 DEF ExistsBijection
  <2> QED BY <2>1, <2>3, FS_Bijection
<1> HIDE DEF seg, parts
<1>12. ASSUME NEW k \in 0..K-1
       PROVE  Cardinality({x \in All : x[2].tile = t /\ k \in x[2].k .. x[2].k + x[2].len - 1}) = 1
  <2> DEFINE D == {c \in L..H+1 : k < Edge(c, t)}
             C == {x \in All : x[2].tile = t /\ k \in x[2].k .. x[2].k + x[2].len - 1}
  <2>1. \A c \in L..H+1 : Edge(c, t) \in 0..K
    <3> TAKE c \in L..H+1
    <3>1. c \in L..H \/ c = H + 1
      BY <1>6
    <3>2. K \in 0..K
      OBVIOUS
    <3> QED BY <1>3, <3>1, <3>2 DEF L, H
  <2>2. D \in SUBSET Nat /\ D # {}
    <3>1. H + 1 \in L..H+1 /\ Edge(H + 1, t) = K /\ k < K
      BY <1>3, <1>6 DEF H
    <3> QED BY <1>6, <3>1
  <2>3. PICK d \in D : \A e \in D : d <= e
    <3> HIDE DEF D
    <3> QED BY <2>2, LeastNumber
  <2>4. d # L
    BY <1>3, <2>3 DEF L
  <2>5. d - 1 \in L..H /\ d - 1 + 1 = d /\ d - 1 \notin D /\ d - 1 \in L..H+1
    BY <1>6, <2>3, <2>4
  <2>6. Edge(d - 1, t) <= k /\ k < Edge(d, t)
    BY <2>1, <2>3, <2>5
  <2> DEFINE y == <<d - 1, seg[d - 1]>>
  <2>7. y \in C
    <3>1. y \in All /\ y[2] = seg[d-1] /\ seg[d-1].tile = t
          /\ seg[d-1].k = Edge(d-1, t) /\ seg[d-1].k + seg[d-1].len = Edge(d, t)
      BY <1>8, <2>5
    <3>2. k \in Edge(d-1, t)..Edge(d, t)-1
      BY <2>1, <2>3, <2>5, <2>6
    <3>3. /\ y[2].k = Edge(d-1, t) /\ y[2].k + y[2].len = Edge(d, t) /\ y[2].len \in Nat
          /\ y[2].k \in 0..K /\ Edge(d, t) \in 0..K
      BY <1>8, <2>1, <2>3, <2>5, <3>1
    <3>4. y[2].tile = t
      BY <3>1
    <3> HIDE DEF y
    <3> QED BY <3>1, <3>2, <3>3, <3>4
  <2>8. ASSUME NEW x \in C PROVE x = y
    <3>1. PICK c \in L..H : x = <<c, seg[c]>> /\ x[2] = seg[c]
      BY <1>9
    <3>2. k \in Edge(c, t)..Edge(c+1, t)-1
      <4>1. seg[c].k = Edge(c, t) /\ seg[c].k + seg[c].len = Edge(c + 1, t)
        BY <1>8
      <4>2. k \in x[2].k..x[2].k + x[2].len - 1
        OBVIOUS
      <4>3. /\ x[2].k = Edge(c, t) /\ x[2].k + x[2].len = Edge(c + 1, t) /\ x[2].len \in Nat
            /\ x[2].k \in 0..K /\ Edge(c + 1, t) \in 0..K
        BY <1>3, <1>8, <3>1, <4>1 DEF L, H
      <4> QED BY <4>2, <4>3
    <3>3. c \in L..H+1 /\ c + 1 \in L..H+1 /\ c \in Nat /\ d \in Nat
      BY <1>6, <2>2
    <3>4. Edge(c, t) <= k /\ k < Edge(c+1, t)
      BY <2>1, <3>2, <3>3
    <3>5. d <= c + 1
      BY <2>3, <3>3, <3>4
    <3>6. ASSUME d <= c PROVE FALSE
      <4>1. d \in L..H+1 /\ c \in d..H+1
        BY <1>6, <2>3, <3>3, <3>6
      <4>2. Edge(d, t) <= Edge(c, t)
        BY <1>4, <4>1 DEF L, H
      <4> QED BY <2>1, <2>6, <3>3, <3>4, <4>1, <4>2
    <3>7. c = d - 1
      BY <3>3, <3>5, <3>6
    <3> QED BY <3>1, <3>7
  <2>9. C = {y}
    <3> HIDE DEF C, y
    <3> QED BY <2>7, <2>8
  <2> HIDE DEF y
  <2> QED BY <2>9, FS_Singleton
<1>13. {s.index : s \in parts} = 0..Cardinality(parts) - 1
  <2>1. ASSUME NEW s \in parts PROVE s.index \in 0..H-L
    <3>1. PICK c \in L..H : s = seg[c]
      BY <1>10
    <3>2. s.index = H - c
      BY <1>8, <3>1
    <3> QED BY <1>6, <3>2
  <2>2. \A i \in 0..H-L : \E s \in parts : s.index = i
    <3> TAKE i \in 0..H-L
    <3>1. H - i \in L..H /\ H - (H - i) = i
      BY <1>6
    <3>2. seg[H - i] \in parts /\ seg[H - i].index = i
      BY <1>8, <3>1
    <3> QED BY <3>2
  <2>3. Cardinality(parts) - 1 = H - L
    BY <1>6, <1>11
  <2> QED BY <2>1, <2>2, <2>3
<1>14. ASSUME NEW s \in parts, NEW u \in parts
       PROVE  s.slices = Cardinality(parts) /\ s.slot = u.slot /\ (s.k < u.k => s.index > u.index)
  <2>1. PICK c \in L..H : s = seg[c]
    BY <1>10
  <2>2. PICK d \in L..H : u = seg[d]
    BY <1>10
  <2>3. /\ s.slices = H - L + 1 /\ s.index = H - c /\ s.k = Edge(c, t)
        /\ s.slices > 1 => s.slot = LockOf(t, T, K, G, m8)
        /\ u.slices = H - L + 1 /\ u.index = H - d /\ u.k = Edge(d, t)
        /\ u.slices > 1 => u.slot = LockOf(t, T, K, G, m8)
    BY <1>8, <2>1, <2>2
  <2>4. s.slot = u.slot
    <3>1. CASE H = L
      BY <1>6, <2>1, <2>2, <3>1
    <3>2. CASE H # L
      <4>1. H - L + 1 > 1
        BY <1>6, <3>2
      <4> QED BY <2>3, <4>1
    <3> QED BY <3>1, <3>2
  <2>5. ASSUME d <= c PROVE ~(s.k < u.k)
    <3>1. d \in L..H+1 /\ c \in d..H+1
      BY <1>6, <2>5
    <3>2. Edge(d, t) <= Edge(c, t)
      BY <1>4, <3>1 DEF L, H
    <3>3. Edge(d, t) \in 0..K /\ Edge(c, t) \in 0..K
      BY <1>3 DEF L, H
    <3> QED BY <2>3, <3>2, <3>3
  <2>6. s.k < u.k => s.index > u.index
    BY <1>6, <2>3, <2>5
  <2> QED BY <1>11, <2>3, <2>4, <2>6
<1>15. ASSUME NEW x \in All, NEW s \in parts, x[2].tile # t, x[2].slices > 1, s.slices > 1
       PROVE  x[2].slot # s.slot
  <2>1. PICK c \in L..H : s = seg[c]
    BY <1>10
  <2>2. s.slot = LockOf(t, T, K, G, m8) /\ H - L + 1 > 1
    BY <1>8, <1>15, <2>1
  <2>3. PICK d \in 0..G-1 : \E u \in P(d) : x = <<d, u>> /\ u.tile < T
    BY <1>1
  <2>4. PICK u \in P(d) : x = <<d, u>> /\ u.tile < T
    BY <2>3
  <2>5. x[2] = u
    BY <2>4
  <2>6. /\ u.tile \in 0..T-1 /\ u.slot = LockOf(u.tile, T, K, G, m8)
        /\ hi(u.tile) - lo(u.tile) + 1 > 1
    BY <1>7, <1>15, <2>4, <2>5
  <2>7. lo(u.tile) < hi(u.tile) /\ lo(t) < hi(t)
    <3>1. lo(u.tile) \in Nat /\ hi(u.tile) \in Nat
      BY <1>3, <2>6
    <3> QED BY <1>6, <2>2, <2>6, <3>1 DEF L, H
  <2>8. LockOf(u.tile, T, K, G, m8) = LockOf(t, T, K, G, m8) => u.tile = t
    BY <2>6, <2>7, LocksAreApart DEF lo, hi
  <2> QED BY <1>15, <2>2, <2>5, <2>6, <2>8
<1> QED BY <1>12, <1>13, <1>14, <1>15 DEF parts

-----------------------------------------------------------------------------
(* A launch: its tiles, and where its CTAs are.                            *)

Gemms == {"fc1", "fc2"}
Modes == {"packed", "direct", "hybrid"}

LiveTile(p, t) == BlockOf(p, t).expert >= 0

FirstOf(p, t) ==
  IF kernel.mode = "hybrid" THEN t % grid
  ELSE LowOf(t, Tiles(p), KTiles(p), grid, kernel.m8)

LastOf(p, t) ==
  IF kernel.mode = "hybrid" THEN t % grid
  ELSE HighOf(t, Tiles(p), KTiles(p), grid, kernel.m8)

EdgeAt(p, c, t) ==
  IF kernel.mode = "hybrid" THEN (IF c <= t % grid THEN 0 ELSE KTiles(p))
  ELSE EdgeOf(c, t, Tiles(p), KTiles(p), grid, kernel.m8)

LockAt(p, t) == LockOf(t, Tiles(p), KTiles(p), grid, kernel.m8)

\* Tiles that several CTAs share under a lock.
SharedTiles(p) ==
  {t \in 0..Tiles(p)-1 : LiveTile(p, t) /\ FirstOf(p, t) < LastOf(p, t)}

\* The place of a GEMM among the phases, and the barriers before a place.
GemmAt(p) == IF kernel.mode = "packed" THEN (IF p = "fc1" THEN 1 ELSE 7)
                                       ELSE (IF p = "fc1" THEN 2 ELSE 6)

Level(i) ==
  IF kernel.mode = "packed"
  THEN IF i <= 2 THEN 0 ELSE IF i <= 4 THEN 1 ELSE IF i <= 6 THEN 2 ELSE 3
  ELSE IF i <= 3 THEN 0 ELSE IF i <= 5 THEN 1 ELSE 2

\* The parts of a launch a grid and its tiles depend on.
LaunchShaped(k) ==
  /\ k.mode \in Modes /\ k.m8 \in BOOLEAN
  /\ k.tokens \in 1..MaxTokens
  /\ {k.k1, k.n1, k.k2, k.n2} \subseteq Nat \ {0}
  /\ k.blocks \in Seq([expert : Int, rows : SUBSET Int])

\* Where the CTAs of a launch are.
CtaInv(c) ==
  /\ at[c] \in 0..Len(Phases)
  /\ bar[c] # "out" => Phase(c) = "barrier"
  /\ \A d \in Running : passed[c] - Level(at[c]) = passed[d] - Level(at[d])
  /\ todo[c] \subseteq IF InGemm(c) THEN Segments(Phase(c), c) ELSE {}
  /\ step[c] # "tile" => todo[c] # {}
  /\ step[c] \in {"turn", "publish"} => Segment(c).slices > 1
  /\ step[c] = "tile" => acc[c] = {}

Idle(c) == todo[c] = {} /\ step[c] = "tile" /\ acc[c] = {}

\* c has yet to publish its part of tile t.
Pending(p, c, t) ==
  \/ at[c] < GemmAt(p)
  \/ /\ at[c] = GemmAt(p)
     /\ \E s \in todo[c] : s.tile = t /\ ~(step[c] = "store" /\ Segment(c).tile = t)

\* The CTAs of a tile publish from the last to the first, which puts the lock
\* back: until then the lock counts those that have.
TurnInv(p, t) ==
  LET lock == locks[LockAt(p, t)]
      lo == FirstOf(p, t)
      hi == LastOf(p, t)
  IN IF Pending(p, lo, t)
     THEN /\ lock \in 0..hi-lo
          /\ \A c \in lo..hi : Pending(p, c, t) <=> c <= hi - lock
     ELSE lock = 0 /\ \A c \in lo..hi : ~Pending(p, c, t)

LockInv(p) ==
  /\ \A t \in SharedTiles(p) : TurnInv(p, t)
  /\ \A s \in LockSlots : (\A t \in SharedTiles(p) : LockAt(p, t) # s) => locks[s] = 0

PublishInv(c) == step[c] = "publish" => locks[Segment(c).slot] = Segment(c).index

Early == \A c \in Running : Level(at[c]) = 0

KernelInv ==
  /\ LaunchShaped(kernel)
  /\ \A c \in Running : CtaInv(c) /\ PublishInv(c)
  /\ \A c \in CTAs \ Running : Idle(c)
  /\ Early => LockInv("fc1")
  /\ ~Early => LockInv("fc2")

Quiet ==
  /\ \A c \in CTAs : bar[c] = "out" /\ Idle(c)
  /\ \A s \in LockSlots : locks[s] = 0

LEMMA PhasesAre ==
  ASSUME kernel.mode \in Modes
  PROVE  /\ kernel.mode = "packed" =>
              /\ Len(Phases) = 8
              /\ Phases[1] = "fc1" /\ Phases[2] = "barrier" /\ Phases[3] = "act"
              /\ Phases[4] = "barrier" /\ Phases[5] = "clear" /\ Phases[6] = "barrier"
              /\ Phases[7] = "fc2" /\ Phases[8] = "exit"
         /\ kernel.mode # "packed" =>
              /\ Len(Phases) = 7
              /\ Phases[1] = "zero" /\ Phases[2] = "fc1" /\ Phases[3] = "barrier"
              /\ Phases[4] = "act" /\ Phases[5] = "barrier" /\ Phases[6] = "fc2"
              /\ Phases[7] = "exit"
  BY DEF Phases

Barriers == IF kernel.mode = "packed" THEN {2, 4, 6} ELSE {3, 5}
ExitAt == IF kernel.mode = "packed" THEN 8 ELSE 7
ActAt == IF kernel.mode = "packed" THEN 3 ELSE 4

\* Where the places of the phases are.
LEMMA PlacesAre ==
  ASSUME kernel.mode \in Modes, NEW c, at[c] \in 0..ExitAt
  PROVE  /\ Len(Phases) = ExitAt
         /\ Phase(c) = "queued" <=> at[c] = 0
         /\ \A p \in Gemms : Phase(c) = p <=> at[c] = GemmAt(p)
         /\ InGemm(c) <=> at[c] = GemmAt("fc1") \/ at[c] = GemmAt("fc2")
         /\ Phase(c) = "barrier" <=> at[c] \in Barriers
         /\ Phase(c) = "zero" <=> kernel.mode # "packed" /\ at[c] = 1
         /\ Phase(c) = "act" <=> at[c] = ActAt
         /\ Phase(c) = "clear" <=> kernel.mode = "packed" /\ at[c] = 5
         /\ Phase(c) = "exit" <=> at[c] = ExitAt
         /\ \A p \in Gemms : GemmAt(p) \in 1..ExitAt-1
<1>1. at[c] \in Int
  OBVIOUS
<1>2. CASE kernel.mode = "packed"
  <2>1. at[c] \in {0, 1, 2, 3, 4, 5, 6, 7, 8}
    BY <1>2 DEF ExitAt
  <2>2. Phase(c) = IF at[c] = 0 THEN "queued" ELSE IF at[c] = 1 THEN "fc1"
                   ELSE IF at[c] \in {2, 4, 6} THEN "barrier" ELSE IF at[c] = 3 THEN "act"
                   ELSE IF at[c] = 5 THEN "clear" ELSE IF at[c] = 7 THEN "fc2" ELSE "exit"
    BY <1>2, <2>1, PhasesAre DEF Phase
  <2> QED BY <1>2, <2>1, <2>2, PhasesAre DEF ExitAt, Gemms, GemmAt, InGemm, Barriers, ActAt
<1>3. CASE kernel.mode # "packed"
  <2>1. at[c] \in {0, 1, 2, 3, 4, 5, 6, 7}
    BY <1>3 DEF ExitAt
  <2>2. Phase(c) = IF at[c] = 0 THEN "queued" ELSE IF at[c] = 1 THEN "zero"
                   ELSE IF at[c] \in {3, 5} THEN "barrier" ELSE IF at[c] = 2 THEN "fc1"
                   ELSE IF at[c] = 4 THEN "act" ELSE IF at[c] = 6 THEN "fc2" ELSE "exit"
    BY <1>3, <2>1, PhasesAre DEF Phase
  <2> QED BY <1>3, <2>1, <2>2, PhasesAre DEF ExitAt, Gemms, GemmAt, InGemm, Barriers, ActAt
<1> QED BY <1>2, <1>3

\* The next place: its phase, and the barriers before it.
LEMMA NextPlace ==
  ASSUME kernel.mode \in Modes, NEW i \in 0..ExitAt-1
  PROVE  /\ i + 1 \in 0..ExitAt
         /\ \A p \in Gemms : Phases[i + 1] = p <=> i + 1 = GemmAt(p)
         /\ Level(i + 1) = IF i \in Barriers THEN Level(i) + 1 ELSE Level(i)
         /\ Level(i) \in 0..3 /\ (i = 0 => Level(i) = 0)
<1>1. CASE kernel.mode = "packed"
  <2>1. i \in {0, 1, 2, 3, 4, 5, 6, 7}
    BY <1>1 DEF ExitAt
  <2> QED BY <1>1, <2>1, PhasesAre DEF Gemms, GemmAt, Barriers, Level, ExitAt
<1>2. CASE kernel.mode # "packed"
  <2>1. i \in {0, 1, 2, 3, 4, 5, 6}
    BY <1>2 DEF ExitAt
  <2> QED BY <1>2, <2>1, PhasesAre DEF Gemms, GemmAt, Barriers, Level, ExitAt
<1> QED BY <1>1, <1>2

\* The tiles of a launch are sound inputs of the partition.
LEMMA TilesAre ==
  ASSUME LaunchShaped(kernel), NEW p \in Gemms
  PROVE  /\ Tiles(p) \in Nat /\ KTiles(p) \in Nat \ {0} /\ NTiles(p) \in Nat \ {0}
         /\ kernel.m8 \in BOOLEAN /\ kernel.mode \in Modes
         /\ Len(kernel.blocks) \in Nat
         /\ \A t \in 0..Tiles(p)-1 :
              /\ (t \div NTiles(p)) + 1 \in 1..Len(kernel.blocks)
              /\ BlockOf(p, t) \in [expert : Int, rows : SUBSET Int]
              /\ ColumnOf(p, t) \in 0..NTiles(p)-1
<1>1. KTiles(p) \in Nat \ {0} /\ NTiles(p) \in Nat \ {0} /\ Len(kernel.blocks) \in Nat
  BY DEF LaunchShaped, KTiles, NTiles
<1>2. Tiles(p) \in Nat
  BY <1>1, ProductMonotone DEF Tiles
<1>3. ASSUME NEW t \in 0..Tiles(p)-1
      PROVE  /\ (t \div NTiles(p)) + 1 \in 1..Len(kernel.blocks)
             /\ BlockOf(p, t) \in [expert : Int, rows : SUBSET Int]
             /\ ColumnOf(p, t) \in 0..NTiles(p)-1
  <2>1. t \div NTiles(p) \in 0..Len(kernel.blocks)-1 /\ t % NTiles(p) \in 0..NTiles(p)-1
    BY <1>1, CellParts DEF Tiles
  <2>2. (t \div NTiles(p)) + 1 \in 1..Len(kernel.blocks)
    BY <1>1, <2>1
  <2>3. \A b \in 1..Len(kernel.blocks) : kernel.blocks[b] \in [expert : Int, rows : SUBSET Int]
    <3> DEFINE S == [expert : Int, rows : SUBSET Int]
               q == kernel.blocks
    <3>1. q \in Seq(S)
      BY DEF LaunchShaped
    <3> HIDE DEF S, q
    <3>2. \A b \in 1..Len(q) : q[b] \in S
      BY <3>1
    <3> QED BY <3>2 DEF S, q
  <2> QED BY <2>1, <2>2, <2>3 DEF BlockOf, ColumnOf
<1> QED BY <1>1, <1>2, <1>3 DEF LaunchShaped

LEMMA HoldersInGrid ==
  ASSUME LaunchShaped(kernel), grid \in 1..MaxGrid, NEW p \in Gemms, NEW t \in 0..Tiles(p)-1
  PROVE  /\ FirstOf(p, t) \in Running /\ LastOf(p, t) \in Running /\ FirstOf(p, t) <= LastOf(p, t)
         /\ EdgeAt(p, FirstOf(p, t), t) = 0 /\ EdgeAt(p, LastOf(p, t) + 1, t) = KTiles(p)
         /\ \A c \in FirstOf(p, t)..LastOf(p, t) :
              /\ EdgeAt(p, c, t) \in 0..KTiles(p) /\ EdgeAt(p, c+1, t) \in 0..KTiles(p)
              /\ EdgeAt(p, c, t) < EdgeAt(p, c+1, t)
         /\ FirstOf(p, t) < LastOf(p, t) => LockAt(p, t) \in LockSlots
         /\ t \in SharedTiles(p) => \A u \in SharedTiles(p) : LockAt(p, u) = LockAt(p, t) => u = t
<1>1. /\ Tiles(p) \in Nat /\ KTiles(p) \in Nat \ {0} /\ kernel.m8 \in BOOLEAN
      /\ grid \in Nat \ {0} /\ t \in Nat
  BY TilesAre
<1>2. CASE kernel.mode = "hybrid"
  <2>1. FirstOf(p, t) = t % grid /\ LastOf(p, t) = t % grid /\ t % grid \in 0..grid-1
    BY <1>1, <1>2, DivMod DEF FirstOf, LastOf
  <2>2. \A c : EdgeAt(p, c, t) = IF c <= t % grid THEN 0 ELSE KTiles(p)
    BY <1>2 DEF EdgeAt
  <2>3. SharedTiles(p) = {}
    BY <1>1, <1>2, DivMod DEF SharedTiles, FirstOf, LastOf
  <2> DEFINE g == t % grid
             K == KTiles(p)
  <2>4. g \in Nat /\ EdgeAt(p, g, t) = 0 /\ EdgeAt(p, g + 1, t) = K /\ 0 < K
    BY <1>1, <2>1, <2>2
  <2>5. g..g = {g}
    BY <2>4
  <2>6. 0 \in 0..K /\ K \in 0..K /\ ~(g < g) /\ g <= g
    BY <1>1, <2>4
  <2>7. FirstOf(p, t) = g /\ LastOf(p, t) = g /\ g \in Running
    BY <2>1 DEF Running
  <2> HIDE DEF g, K
  <2> QED BY <2>3, <2>4, <2>5, <2>6, <2>7 DEF K
<1>3. CASE kernel.mode # "hybrid"
  <2> DEFINE T == Tiles(p)
             K == KTiles(p)
             m8 == kernel.m8
  <2>1. \A u : /\ FirstOf(p, u) = LowOf(u, T, K, grid, m8)
               /\ LastOf(p, u) = HighOf(u, T, K, grid, m8)
               /\ LockAt(p, u) = LockOf(u, T, K, grid, m8)
               /\ \A c : EdgeAt(p, c, u) = EdgeOf(c, u, T, K, grid, m8)
    BY <1>3 DEF FirstOf, LastOf, EdgeAt, LockAt
  <2>2. T \in Nat /\ K \in Nat \ {0} /\ m8 \in BOOLEAN /\ t \in 0..T-1
    BY <1>1
  <2>3. SharedTiles(p) \subseteq 0..T-1 /\ \A u \in SharedTiles(p) : FirstOf(p, u) < LastOf(p, u)
    BY DEF SharedTiles
  <2> HIDE DEF T, K, m8
  <2>4. /\ FirstOf(p, t) \in 0..grid-1 /\ LastOf(p, t) \in 0..grid-1 /\ FirstOf(p, t) <= LastOf(p, t)
        /\ EdgeAt(p, FirstOf(p, t), t) = 0 /\ EdgeAt(p, LastOf(p, t) + 1, t) = K
        /\ \A c \in FirstOf(p, t)..LastOf(p, t) :
              /\ EdgeAt(p, c, t) \in 0..K /\ EdgeAt(p, c+1, t) \in 0..K
              /\ EdgeAt(p, c, t) < EdgeAt(p, c+1, t)
    <3> DEFINE lo == LowOf(t, T, K, grid, m8)
               hi == HighOf(t, T, K, grid, m8)
               Edge(c) == EdgeOf(c, t, T, K, grid, m8)
    <3>1. FirstOf(p, t) = lo /\ LastOf(p, t) = hi /\ \A c : EdgeAt(p, c, t) = Edge(c)
      BY <2>1
    <3>2. /\ lo \in 0..grid-1 /\ hi \in 0..grid-1 /\ lo <= hi
          /\ Edge(lo) = 0 /\ Edge(hi + 1) = K
          /\ \A c \in lo..hi : Edge(c) \in 0..K /\ Edge(c+1) \in 0..K /\ Edge(c) < Edge(c+1)
      <4>1. grid \in Nat \ {0}
        BY <1>1
      <4>2. /\ lo \in 0..grid-1 /\ hi \in 0..grid-1 /\ lo <= hi
            /\ Edge(lo) = 0 /\ Edge(hi + 1) = K
        BY <2>2, <4>1, TileIsHeld
      <4>3. \A c \in lo..hi : Edge(c) \in 0..K /\ Edge(c+1) \in 0..K /\ Edge(c) < Edge(c+1)
        BY <2>2, <4>1, TileIsHeld
      <4> QED BY <4>2, <4>3
    <3> HIDE DEF lo, hi, Edge
    <3> QED BY <3>1, <3>2
  <2>5. ASSUME FirstOf(p, t) < LastOf(p, t)
        PROVE  /\ LockAt(p, t) \in 0..grid
               /\ \A u \in SharedTiles(p) : LockAt(p, u) = LockAt(p, t) => u = t
    <3>1. LowOf(t, T, K, grid, m8) < HighOf(t, T, K, grid, m8)
      BY <2>1, <2>5
    <3>2. /\ LockOf(t, T, K, grid, m8) \in 0..grid
          /\ \A u \in 0..T-1 :
              /\ LowOf(u, T, K, grid, m8) < HighOf(u, T, K, grid, m8)
              /\ LockOf(u, T, K, grid, m8) = LockOf(t, T, K, grid, m8)
              => u = t
      BY <1>1, <2>2, <3>1, LocksAreApart
    <3> QED BY <2>1, <2>3, <3>2
  <2>6. 0..grid \subseteq LockSlots
    BY DEF LockSlots
  <2>7. t \in SharedTiles(p) => FirstOf(p, t) < LastOf(p, t)
    BY DEF SharedTiles
  <2> QED BY <2>4, <2>5, <2>6, <2>7 DEF Running, K
<1> QED BY <1>2, <1>3

LEMMA SegmentsAre ==
  ASSUME LaunchShaped(kernel), grid \in 1..MaxGrid, NEW p \in Gemms, NEW c \in Running
  PROVE  /\ \A s \in Segments(p, c) :
              /\ s.tile \in 0..Tiles(p)-1 /\ LiveTile(p, s.tile)
              /\ c \in FirstOf(p, s.tile)..LastOf(p, s.tile)
              /\ s.slices = LastOf(p, s.tile) - FirstOf(p, s.tile) + 1
              /\ s.index = LastOf(p, s.tile) - c
              /\ s.k = EdgeAt(p, c, s.tile) /\ s.k + s.len = EdgeAt(p, c+1, s.tile)
              /\ s.len \in Nat
              /\ s.slices > 1 => s.slot = LockAt(p, s.tile)
         /\ \A t \in 0..Tiles(p)-1 : LiveTile(p, t) /\ c \in FirstOf(p, t)..LastOf(p, t)
              => \E s \in Segments(p, c) : s.tile = t
         /\ \A s, u \in Segments(p, c) : s.tile = u.tile => s = u
<1>1. /\ Tiles(p) \in Nat /\ KTiles(p) \in Nat \ {0} /\ kernel.m8 \in BOOLEAN
      /\ grid \in Nat \ {0} /\ c \in Nat /\ c \in 0..grid-1
  BY TilesAre DEF Running
<1> DEFINE T == Tiles(p)
           K == KTiles(p)
           m8 == kernel.m8
<1>2. \A t \in 0..T-1 : FirstOf(p, t) \in Nat /\ LastOf(p, t) \in Nat
  BY HoldersInGrid DEF Running
<1>3. CASE kernel.mode = "hybrid"
  <2>1. \A s : s \in Segments(p, c) <=> \E t \in 0..T-1 : s = Whole(t, K) /\ t % grid = c
                                        /\ s.tile < T /\ LiveTile(p, s.tile)
    BY <1>3 DEF Segments, WaveShare, LiveTile
  <2>2. \A t : /\ Whole(t, K).tile = t /\ Whole(t, K).k = 0 /\ Whole(t, K).len = K
               /\ Whole(t, K).slices = 1 /\ Whole(t, K).index = 0
    BY DEF Whole
  <2>3. \A t : /\ FirstOf(p, t) = t % grid /\ LastOf(p, t) = t % grid
               /\ \A d : EdgeAt(p, d, t) = IF d <= t % grid THEN 0 ELSE K
    BY <1>3 DEF FirstOf, LastOf, EdgeAt
  <2> HIDE DEF T
  <2>4. ASSUME NEW s \in Segments(p, c)
        PROVE  /\ s.tile \in 0..T-1 /\ LiveTile(p, s.tile) /\ s = Whole(s.tile, K)
               /\ FirstOf(p, s.tile) = c /\ LastOf(p, s.tile) = c
               /\ s.slices = 1 /\ s.index = 0 /\ s.k = 0 /\ s.len = K
               /\ EdgeAt(p, c, s.tile) = 0 /\ EdgeAt(p, c+1, s.tile) = K
    <3>1. PICK t \in 0..T-1 : s = Whole(t, K) /\ t % grid = c /\ LiveTile(p, s.tile)
      BY <2>1
    <3>2. s.tile = t
      BY <2>2, <3>1
    <3>3. c <= c /\ ~(c + 1 <= c)
      BY <1>1
    <3> QED BY <2>2, <2>3, <3>1, <3>2, <3>3
  <2>5. ASSUME NEW s \in Segments(p, c)
        PROVE  /\ c \in FirstOf(p, s.tile)..LastOf(p, s.tile)
               /\ s.slices = LastOf(p, s.tile) - FirstOf(p, s.tile) + 1
               /\ s.index = LastOf(p, s.tile) - c
               /\ s.k + s.len = K /\ s.len \in Nat /\ ~(s.slices > 1)
    <3>1. c \in c..c /\ c - c + 1 = 1 /\ c - c = 0 /\ 0 + K = K /\ K \in Nat /\ ~(1 > 1)
      BY <1>1
    <3> QED BY <2>4, <3>1
  <2>6. ASSUME NEW t \in 0..T-1, LiveTile(p, t), c \in FirstOf(p, t)..LastOf(p, t)
        PROVE  \E s \in Segments(p, c) : s.tile = t
    <3>1. t % grid = c /\ t < T
      <4>1. FirstOf(p, t) = LastOf(p, t) /\ FirstOf(p, t) \in Nat /\ FirstOf(p, t) = t % grid
        BY <1>2, <2>3 DEF T
      <4>2. t < T
        BY <1>1 DEF T
      <4> QED BY <2>6, <4>1, <4>2
    <3>2. Whole(t, K) \in Segments(p, c)
      BY <2>1, <2>2, <2>6, <3>1
    <3> QED BY <2>2, <3>2
  <2> QED BY <2>4, <2>5, <2>6 DEF T, K
<1>4. CASE kernel.mode # "hybrid"
  <2>1. \A u : /\ FirstOf(p, u) = LowOf(u, T, K, grid, m8)
               /\ LastOf(p, u) = HighOf(u, T, K, grid, m8)
               /\ LockAt(p, u) = LockOf(u, T, K, grid, m8)
               /\ \A d : EdgeAt(p, d, u) = EdgeOf(d, u, T, K, grid, m8)
    BY <1>4 DEF FirstOf, LastOf, EdgeAt, LockAt
  <2>2. \A s : s \in Segments(p, c) <=>
               s \in Share(c, T, K, grid, m8) /\ s.tile < T /\ LiveTile(p, s.tile)
    BY <1>4 DEF Segments, LiveTile
  <2> HIDE DEF T, K, m8
  <2>3. T \in Nat /\ K \in Nat \ {0} /\ m8 \in BOOLEAN
    BY <1>1 DEF T, K, m8
  <2>4. /\ \A s \in Share(c, T, K, grid, m8) :
              s.tile \in Nat /\ (s.tile < T => IsPart(s, c, T, K, grid, m8))
        /\ \A t \in 0..T-1 : LowOf(t, T, K, grid, m8) <= c /\ c <= HighOf(t, T, K, grid, m8)
              => \E s \in Share(c, T, K, grid, m8) : s.tile = t
        /\ \A s, u \in Share(c, T, K, grid, m8) : s.tile = u.tile /\ s.tile < T => s = u
    BY <1>1, <2>3, ShareParts
  <2>5. ASSUME NEW s \in Segments(p, c)
        PROVE  /\ s.tile \in 0..T-1 /\ LiveTile(p, s.tile)
               /\ c \in FirstOf(p, s.tile)..LastOf(p, s.tile)
               /\ s.slices = LastOf(p, s.tile) - FirstOf(p, s.tile) + 1
               /\ s.index = LastOf(p, s.tile) - c
               /\ s.k = EdgeAt(p, c, s.tile) /\ s.k + s.len = EdgeAt(p, c+1, s.tile)
               /\ s.len \in Nat
               /\ s.slices > 1 => s.slot = LockAt(p, s.tile)
    <3>1. s.tile \in 0..T-1 /\ LiveTile(p, s.tile) /\ IsPart(s, c, T, K, grid, m8)
      BY <2>2, <2>3, <2>4
    <3>2. /\ FirstOf(p, s.tile) <= c /\ c <= LastOf(p, s.tile)
          /\ s.slices = LastOf(p, s.tile) - FirstOf(p, s.tile) + 1
          /\ s.index = LastOf(p, s.tile) - c
          /\ s.k = EdgeAt(p, c, s.tile) /\ s.k + s.len = EdgeAt(p, c+1, s.tile)
          /\ s.len \in Nat
          /\ s.slices > 1 => s.slot = LockAt(p, s.tile)
      BY <2>1, <3>1 DEF IsPart
    <3>3. c \in FirstOf(p, s.tile)..LastOf(p, s.tile)
      <4>1. FirstOf(p, s.tile) \in Nat /\ LastOf(p, s.tile) \in Nat
        BY <1>2, <3>1 DEF T
      <4> QED BY <1>1, <3>2, <4>1
    <3> QED BY <3>1, <3>2, <3>3
  <2>6. ASSUME NEW t \in 0..T-1, LiveTile(p, t), c \in FirstOf(p, t)..LastOf(p, t)
        PROVE  \E s \in Segments(p, c) : s.tile = t
    <3>1. LowOf(t, T, K, grid, m8) <= c /\ c <= HighOf(t, T, K, grid, m8)
      <4>1. FirstOf(p, t) <= c /\ c <= LastOf(p, t)
        BY <2>6
      <4> QED BY <2>1, <4>1
    <3>2. PICK s \in Share(c, T, K, grid, m8) : s.tile = t
      BY <2>4, <3>1
    <3>3. t < T
      BY <2>3
    <3> QED BY <2>2, <2>6, <3>2, <3>3
  <2>7. \A s, u \in Segments(p, c) : s.tile = u.tile => s = u
    BY <2>2, <2>4
  <2> QED BY <2>5, <2>6, <2>7 DEF T
<1> QED BY <1>3, <1>4

\* Nothing about the tiles changes while a launch runs.
LEMMA LaunchKept ==
  ASSUME UNCHANGED <<kernel, grid>>
  PROVE  /\ Running' = Running /\ Phases' = Phases /\ ExitAt' = ExitAt
         /\ Barriers' = Barriers /\ ActAt' = ActAt
         /\ \A p : /\ Tiles(p)' = Tiles(p) /\ KTiles(p)' = KTiles(p) /\ NTiles(p)' = NTiles(p)
                   /\ GemmAt(p)' = GemmAt(p) /\ SharedTiles(p)' = SharedTiles(p)
         /\ \A p, t : /\ BlockOf(p, t)' = BlockOf(p, t) /\ ColumnOf(p, t)' = ColumnOf(p, t)
                      /\ LiveTile(p, t)' = LiveTile(p, t)
                      /\ FirstOf(p, t)' = FirstOf(p, t) /\ LastOf(p, t)' = LastOf(p, t)
                      /\ LockAt(p, t)' = LockAt(p, t)
         /\ \A p, c : Segments(p, c)' = Segments(p, c)
         /\ \A p, c, t : EdgeAt(p, c, t)' = EdgeAt(p, c, t)
         /\ \A i : Level(i)' = Level(i)
<1>1. Running' = Running /\ Phases' = Phases /\ ExitAt' = ExitAt
      /\ Barriers' = Barriers /\ ActAt' = ActAt
  BY DEF Running, Phases, ExitAt, Barriers, ActAt
<1>2. \A p : KTiles(p)' = KTiles(p) /\ NTiles(p)' = NTiles(p) /\ GemmAt(p)' = GemmAt(p)
  BY DEF KTiles, NTiles, GemmAt
<1>3. \A p : Tiles(p)' = Tiles(p)
  BY <1>2 DEF Tiles
<1>4. \A p, t : BlockOf(p, t)' = BlockOf(p, t) /\ ColumnOf(p, t)' = ColumnOf(p, t)
  BY <1>2 DEF BlockOf, ColumnOf
<1>5. \A p, t : LiveTile(p, t)' = LiveTile(p, t)
  BY <1>4 DEF LiveTile
<1>6. \A p, t : FirstOf(p, t)' = FirstOf(p, t) /\ LastOf(p, t)' = LastOf(p, t)
  BY <1>2, <1>3 DEF FirstOf, LastOf
<1>7. \A p, t : LockAt(p, t)' = LockAt(p, t)
  BY <1>2, <1>3 DEF LockAt
<1>8. \A p, c, t : EdgeAt(p, c, t)' = EdgeAt(p, c, t)
  BY <1>2, <1>3 DEF EdgeAt
<1>9. \A p : SharedTiles(p)' = SharedTiles(p)
  BY <1>3, <1>5, <1>6 DEF SharedTiles
<1>10. \A p, c : Segments(p, c)' = Segments(p, c)
  BY <1>2, <1>3, <1>4 DEF Segments
<1>11. \A i : Level(i)' = Level(i)
  BY DEF Level
<1> QED BY <1>1, <1>2, <1>3, <1>4, <1>5, <1>6, <1>7, <1>8, <1>9, <1>10, <1>11

FusedTypeOK ==
  /\ at \in [CTAs -> Nat] /\ step \in [CTAs -> {"tile", "turn", "publish", "store"}]
  /\ DOMAIN todo = CTAs /\ DOMAIN acc = CTAs
  /\ locks \in [LockSlots -> Nat]

\* The least of a CTA's segments is one of them.
LEMMA SegmentIsLeft ==
  ASSUME LaunchShaped(kernel), grid \in 1..MaxGrid, NEW p \in Gemms, NEW c \in Running,
         todo[c] \subseteq Segments(p, c), todo[c] # {}
  PROVE  Segment(c) \in todo[c] /\ Segment(c) \in Segments(p, c)
<1> DEFINE N == {s.tile : s \in todo[c]}
<1>1. N \in SUBSET Nat /\ N # {}
  <2>1. Tiles(p) \in Nat /\ \A s \in Segments(p, c) : s.tile \in 0..Tiles(p)-1
    BY SegmentsAre, TilesAre
  <2> QED BY <2>1
<1>2. PICK x \in N : \A y \in N : x <= y
  <2> HIDE DEF N
  <2> QED BY <1>1, LeastNumber
<1>3. \E s \in todo[c] : \A u \in todo[c] : s.tile <= u.tile
  BY <1>2
<1>4. Segment(c) \in todo[c]
  BY <1>3, Zenon DEF Segment
<1> QED BY <1>4

\* A step of one CTA leaves the others where they are.
OthersStay(c) ==
  \A d \in CTAs \ {c} :
     /\ at'[d] = at[d] /\ bar'[d] = bar[d] /\ passed'[d] = passed[d]
     /\ todo'[d] = todo[d] /\ step'[d] = step[d] /\ acc'[d] = acc[d]

LEMMA OthersKept ==
  ASSUME UNCHANGED <<kernel, grid>>, NEW c \in Running, Running \subseteq CTAs, OthersStay(c),
         \A d \in Running : CtaInv(d),
         passed'[c] - Level(at'[c]) = passed[c] - Level(at[c])
  PROVE  /\ \A d \in Running \ {c} : CtaInv(d)'
         /\ \A d \in Running : passed'[c] - Level(at'[c]) = passed'[d] - Level(at'[d])
<1>1. /\ Running' = Running /\ Phases' = Phases
      /\ \A p, d : Segments(p, d)' = Segments(p, d)
      /\ \A i : Level(i)' = Level(i)
  BY LaunchKept
<1>2. ASSUME NEW d \in Running \ {c} PROVE CtaInv(d)'
  <2>1. /\ at'[d] = at[d] /\ bar'[d] = bar[d] /\ passed'[d] = passed[d]
        /\ todo'[d] = todo[d] /\ step'[d] = step[d] /\ acc'[d] = acc[d]
    BY DEF OthersStay
  <2>2. Phase(d)' = Phase(d) /\ Segment(d)' = Segment(d)
    BY <1>1, <2>1 DEF Phase, Segment
  <2>3. InGemm(d)' = InGemm(d)
    BY <2>2 DEF InGemm
  <2>4. Segments(Phase(d), d)' = Segments(Phase(d), d)
    BY <1>1, <2>2
  <2>5. CtaInv(d)
    OBVIOUS
  <2>6. ASSUME NEW x \in Running
        PROVE  passed'[d] - Level(at'[d]) = passed'[x] - Level(at'[x])
    <3>1. passed[d] - Level(at[d]) = passed[x] - Level(at[x])
      BY <2>5 DEF CtaInv
    <3>2. CASE x = c
      BY <2>1, <3>1, <3>2
    <3>3. CASE x # c
      <4>1. passed'[x] = passed[x] /\ at'[x] = at[x]
        BY <3>3 DEF OthersStay
      <4> QED BY <2>1, <3>1, <4>1
    <3> QED BY <3>2, <3>3
  <2>7. \A x \in Running' : (passed[d] - Level(at[d]) = passed[x] - Level(at[x]))'
    BY <1>1, <2>6
  <2> QED BY <1>1, <2>1, <2>2, <2>3, <2>4, <2>5, <2>7 DEF CtaInv
<1>3. ASSUME NEW d \in Running PROVE passed'[c] - Level(at'[c]) = passed'[d] - Level(at'[d])
  <2>1. CASE d = c
    BY <2>1
  <2>2. CASE d # c
    <3>1. passed'[d] = passed[d] /\ at'[d] = at[d]
      BY <2>2 DEF OthersStay
    <3>2. passed[c] - Level(at[c]) = passed[d] - Level(at[d])
      BY DEF CtaInv
    <3> QED BY <3>1, <3>2
  <2> QED BY <2>1, <2>2
<1> QED BY <1>2, <1>3

\* CTA c goes on to its next phase.
MovesOn(c) ==
  /\ at[c] \in 0..ExitAt-1
  /\ todo[c] = {} /\ step[c] = "tile" /\ acc[c] = {}
  /\ at' = [at EXCEPT ![c] = @ + 1]
  /\ todo' = [todo EXCEPT ![c] = IF Phases[at[c] + 1] \in Gemms
                                 THEN Segments(Phases[at[c] + 1], c) ELSE {}]
  /\ UNCHANGED <<kernel, grid, step, acc, locks>>
  /\ bar'[c] = "out" /\ passed'[c] - Level(at[c] + 1) = passed[c] - Level(at[c])
  /\ \A d \in CTAs \ {c} : bar'[d] = bar[d] /\ passed'[d] = passed[d]

LEMMA CtaPlace ==
  ASSUME LaunchShaped(kernel), NEW c, CtaInv(c)
  PROVE  /\ kernel.mode \in Modes /\ at[c] \in 0..ExitAt
         /\ ~InGemm(c) => todo[c] = {}
         /\ todo[c] = {} => step[c] = "tile" /\ acc[c] = {}
         /\ Phase(c) # "barrier" => bar[c] = "out"
<1>1. kernel.mode \in Modes /\ Len(Phases) = ExitAt
  BY PhasesAre DEF LaunchShaped, ExitAt, Modes
<1> QED BY <1>1 DEF CtaInv

LEMMA AdvanceMovesOn ==
  ASSUME BarrierTypeOK, LaunchShaped(kernel), NEW c \in Running, CtaInv(c),
         Start(c) \/ ZeroOutput(c) \/ Activate(c) \/ ClearFc2(c) \/ EndGemm(c)
  PROVE  MovesOn(c) /\ Level(at[c] + 1) = Level(at[c])
<1>1. /\ kernel.mode \in Modes /\ at[c] \in 0..ExitAt
      /\ todo[c] = {} => step[c] = "tile" /\ acc[c] = {}
      /\ ~InGemm(c) => todo[c] = {}
      /\ Phase(c) # "barrier" => bar[c] = "out"
  BY CtaPlace
<1>2. /\ Phase(c) = "queued" <=> at[c] = 0
      /\ Phase(c) = "barrier" <=> at[c] \in Barriers
      /\ Phase(c) = "exit" <=> at[c] = ExitAt
  BY <1>1, PlacesAre
<1>3. Phase(c) \in {"queued", "zero", "act", "clear", "fc1", "fc2"} /\ todo[c] = {}
  BY <1>1 DEF Start, ZeroOutput, Activate, ClearFc2, EndGemm, InGemm
<1>4. at[c] \in 0..ExitAt-1 /\ at[c] \notin Barriers
  <2>1. at[c] # ExitAt /\ at[c] \notin Barriers /\ ExitAt \in Nat
    BY <1>2, <1>3 DEF ExitAt
  <2> QED BY <1>1, <2>1
<1>5. Level(at[c] + 1) = Level(at[c])
  BY <1>1, <1>4, NextPlace
<1>6. UNCHANGED <<barrierVars, kernel, step, acc, locks>>
  BY DEF Start, ZeroOutput, Activate, ClearFc2, EndGemm
<1>7. /\ at' = [at EXCEPT ![c] = @ + 1]
      /\ todo' = [todo EXCEPT ![c] = IF Phases[at[c] + 1] \in Gemms
                                     THEN Segments(Phases[at[c] + 1], c) ELSE {}]
  <2>1. CASE Start(c)
    <3>1. at[c] = 0 /\ 0 + 1 = 1
      BY <1>2, <2>1 DEF Start
    <3>2. Phases[1] \in Gemms <=> Phases[1] = "fc1"
      BY <1>1, PhasesAre DEF Gemms
    <3> QED BY <2>1, <3>1, <3>2 DEF Start
  <2>2. CASE ~Start(c)
    <3>1. Advance(c)
      BY <2>2 DEF ZeroOutput, Activate, ClearFc2, EndGemm
    <3> QED BY <3>1 DEF Advance, Gemms
  <2> QED BY <2>1, <2>2
<1>8. bar[c] = "out"
  BY <1>1, <1>3
<1>9. grid' = grid /\ bar' = bar /\ passed' = passed
  BY <1>6 DEF barrierVars
<1> QED BY <1>1, <1>3, <1>4, <1>5, <1>6, <1>7, <1>8, <1>9 DEF MovesOn

LEMMA MovesOnInv ==
  ASSUME BarrierTypeOK, FusedTypeOK, LaunchShaped(kernel), NEW c \in Running, MovesOn(c),
         \A d \in Running : CtaInv(d) /\ PublishInv(d),
         \A d \in CTAs \ Running : Idle(d)
  PROVE  /\ FusedTypeOK' /\ LaunchShaped(kernel)' /\ UNCHANGED <<kernel, grid, locks>>
         /\ \A d \in Running : CtaInv(d)' /\ PublishInv(d)'
         /\ \A d \in CTAs \ Running : Idle(d)'
         /\ \A p \in Gemms : \A t \in SharedTiles(p) : \A d \in FirstOf(p, t)..LastOf(p, t) :
               Pending(p, d, t)' <=> Pending(p, d, t)
<1>0. Running \subseteq CTAs /\ c \in CTAs /\ grid \in 1..MaxGrid
  BY RunningFinite DEF BarrierTypeOK
<1>1. kernel.mode \in Modes /\ at[c] \in 0..ExitAt /\ at[c] \in 0..ExitAt-1
  BY CtaPlace DEF MovesOn
<1>2. /\ at[c] + 1 \in 0..ExitAt
      /\ \A p \in Gemms : Phases[at[c] + 1] = p <=> at[c] + 1 = GemmAt(p)
  BY <1>1, NextPlace
<1>3. UNCHANGED <<kernel, grid>> /\ locks' = locks
  BY DEF MovesOn
<1>4. /\ Running' = Running /\ Phases' = Phases /\ ExitAt' = ExitAt
      /\ \A p : GemmAt(p)' = GemmAt(p)
      /\ \A p, d : Segments(p, d)' = Segments(p, d)
      /\ \A i : Level(i)' = Level(i)
  BY <1>3, LaunchKept
<1>5. LaunchShaped(kernel)'
  BY <1>3 DEF LaunchShaped
<1>6. /\ at'[c] = at[c] + 1 /\ step'[c] = "tile" /\ acc'[c] = {} /\ bar'[c] = "out"
      /\ todo'[c] = IF Phases[at[c] + 1] \in Gemms THEN Segments(Phases[at[c] + 1], c) ELSE {}
      /\ passed'[c] - Level(at'[c]) = passed[c] - Level(at[c])
  BY <1>0 DEF MovesOn, FusedTypeOK
<1>7. OthersStay(c)
  BY <1>0 DEF MovesOn, FusedTypeOK, OthersStay
<1>8. FusedTypeOK'
  <2>1. at' \in [CTAs -> Nat]
    <3>1. at[c] + 1 \in Nat
      BY <1>0 DEF FusedTypeOK
    <3>2. at' = [at EXCEPT ![c] = at[c] + 1]
      BY DEF MovesOn
    <3> QED BY <3>1, <3>2, <1>0 DEF FusedTypeOK
  <2>2. DOMAIN todo' = CTAs
    BY DEF MovesOn, FusedTypeOK
  <2> QED BY <2>1, <2>2 DEF MovesOn, FusedTypeOK
<1>9. /\ \A d \in Running \ {c} : CtaInv(d)'
      /\ \A d \in Running : passed'[c] - Level(at'[c]) = passed'[d] - Level(at'[d])
  BY <1>0, <1>3, <1>6, <1>7, OthersKept
<1>10. Phase(c)' = Phases[at[c] + 1]
  <2>1. at[c] + 1 # 0
    BY <1>1
  <2> QED BY <1>4, <1>6, <2>1 DEF Phase
<1>11. CtaInv(c)'
  <2>1. Len(Phases) = ExitAt
    BY <1>1, PhasesAre DEF ExitAt
  <2>2. (at[c] \in 0..Len(Phases))'
    BY <1>2, <1>4, <1>6, <2>1
  <2>3. (\A d \in Running : passed[c] - Level(at[c]) = passed[d] - Level(at[d]))'
    BY <1>4, <1>9
  <2>4. todo'[c] \subseteq (IF InGemm(c) THEN Segments(Phase(c), c) ELSE {})'
    BY <1>4, <1>6, <1>10 DEF InGemm, Gemms
  <2> QED BY <1>6, <2>2, <2>3, <2>4 DEF CtaInv
<1>12. ASSUME NEW d \in Running PROVE CtaInv(d)' /\ PublishInv(d)'
  <2>1. CASE d = c
    BY <1>6, <1>11, <2>1 DEF PublishInv
  <2>2. CASE d # c
    <3>1. d \in CTAs \ {c} /\ PublishInv(d)
      BY <1>0, <2>2
    <3>2. step'[d] = step[d] /\ Segment(d)' = Segment(d)
      BY <1>7, <3>1 DEF OthersStay, Segment
    <3> QED BY <1>3, <1>9, <2>2, <3>1, <3>2 DEF PublishInv
  <2> QED BY <2>1, <2>2
<1>13. ASSUME NEW d \in CTAs \ Running PROVE Idle(d)'
  <2>1. d \in CTAs \ {c}
    OBVIOUS
  <2> QED BY <1>7, <2>1 DEF Idle, OthersStay
<1>14. ASSUME NEW p \in Gemms, NEW t \in SharedTiles(p), NEW d \in FirstOf(p, t)..LastOf(p, t)
       PROVE  Pending(p, d, t)' <=> Pending(p, d, t)
  <2>1. t \in 0..Tiles(p)-1 /\ LiveTile(p, t)
    BY DEF SharedTiles
  <2>2. FirstOf(p, t) \in Running /\ LastOf(p, t) \in Running
    BY <1>0, <2>1, HoldersInGrid
  <2>3. d \in Running
    BY <1>0, <2>2 DEF Running
  <2>4. CASE d # c
    <3>1. d \in CTAs \ {c}
      BY <1>0, <2>3, <2>4
    <3>2. at'[d] = at[d] /\ todo'[d] = todo[d] /\ step'[d] = step[d] /\ Segment(d)' = Segment(d)
      BY <1>7, <3>1 DEF OthersStay, Segment
    <3> QED BY <1>4, <3>2 DEF Pending
  <2>5. CASE d = c
    <3>1. GemmAt(p) \in Int /\ at[c] \in Int
      BY <1>1 DEF GemmAt
    <3>2. CASE at[c] + 1 < GemmAt(p)
      BY <1>4, <1>6, <2>5, <3>1, <3>2 DEF Pending
    <3>3. CASE at[c] + 1 = GemmAt(p)
      <4>1. todo'[c] = Segments(p, c)
        BY <1>2, <1>6, <3>3
      <4>2. \E s \in todo'[c] : s.tile = t
        BY <1>0, <2>1, <2>3, <2>5, <4>1, SegmentsAre
      <4>3. Pending(p, c, t)'
        BY <1>4, <1>6, <3>3, <4>2 DEF Pending
      <4> QED BY <2>5, <3>1, <3>3, <4>3 DEF Pending
    <3>4. CASE at[c] = GemmAt(p)
      <4>1. todo[c] = {}
        BY DEF MovesOn
      <4>2. ~Pending(p, c, t) /\ ~Pending(p, c, t)'
        BY <1>4, <1>6, <3>1, <3>4, <4>1 DEF Pending
      <4> QED BY <2>5, <4>2
    <3>5. CASE at[c] > GemmAt(p)
      BY <1>4, <1>6, <2>5, <3>1, <3>5 DEF Pending
    <3> QED BY <3>1, <3>2, <3>3, <3>4, <3>5
  <2> QED BY <2>4, <2>5
<1> QED BY <1>3, <1>5, <1>8, <1>12, <1>13, <1>14

\* A step of c within its GEMM.
WorksOn(c) ==
  /\ InGemm(c) /\ todo[c] # {}
  /\ UNCHANGED <<kernel, grid, at, bar, passed>>
  /\ OthersStay(c)
  /\ todo'[c] \subseteq todo[c]
  /\ step'[c] # "tile" => todo'[c] # {}
  /\ step'[c] \in {"turn", "publish"} => Segment(c)'.slices > 1
  /\ step'[c] = "tile" => acc'[c] = {}

LEMMA WorksOnInv ==
  ASSUME BarrierTypeOK, LaunchShaped(kernel), NEW c \in Running, WorksOn(c),
         \A d \in Running : CtaInv(d),
         \A d \in CTAs \ Running : Idle(d)
  PROVE  /\ LaunchShaped(kernel)' /\ Running' = Running
         /\ \A d \in Running : CtaInv(d)'
         /\ \A d \in CTAs \ Running : Idle(d)'
         /\ Early' <=> Early
<1>0. Running \subseteq CTAs /\ c \in CTAs
  BY RunningFinite
<1>1. UNCHANGED <<kernel, grid>> /\ at' = at /\ bar' = bar /\ passed' = passed
  BY DEF WorksOn
<1>2. /\ Running' = Running /\ Phases' = Phases
      /\ \A p, d : Segments(p, d)' = Segments(p, d)
      /\ \A i : Level(i)' = Level(i)
  BY <1>1, LaunchKept
<1>3. LaunchShaped(kernel)'
  BY <1>1 DEF LaunchShaped
<1>4. OthersStay(c)
  BY DEF WorksOn
<1>5. \A d \in Running \ {c} : CtaInv(d)'
  <2>1. passed'[c] - Level(at'[c]) = passed[c] - Level(at[c])
    BY <1>1
  <2> QED BY <1>0, <1>1, <1>4, <2>1, OthersKept
<1>6. CtaInv(c)'
  <2>1. /\ Phase(c)' = Phase(c) /\ Len(Phases)' = Len(Phases)
        /\ InGemm(c)' = InGemm(c) /\ Segments(Phase(c), c)' = Segments(Phase(c), c)
    BY <1>1, <1>2 DEF Phase, InGemm
  <2>2. CtaInv(c)
    OBVIOUS
  <2>3. (\A d \in Running : passed[c] - Level(at[c]) = passed[d] - Level(at[d]))'
    BY <1>1, <1>2, <2>2 DEF CtaInv
  <2>4. (todo[c] \subseteq IF InGemm(c) THEN Segments(Phase(c), c) ELSE {})'
    BY <2>1, <2>2 DEF CtaInv, WorksOn
  <2> QED BY <1>1, <2>1, <2>2, <2>3, <2>4 DEF CtaInv, WorksOn
<1>7. ASSUME NEW d \in CTAs \ Running PROVE Idle(d)'
  <2>1. d \in CTAs \ {c}
    OBVIOUS
  <2> QED BY <1>4, <2>1 DEF Idle, OthersStay
<1>8. Early' <=> Early
  BY <1>1, <1>2 DEF Early
<1> QED BY <1>2, <1>3, <1>5, <1>6, <1>7, <1>8

\* What is pending of the other CTAs.
LEMMA OthersPending ==
  ASSUME UNCHANGED <<kernel, grid>>, NEW c, OthersStay(c), NEW d \in CTAs \ {c}
  PROVE  \A p, t : Pending(p, d, t)' <=> Pending(p, d, t)
<1>1. at'[d] = at[d] /\ todo'[d] = todo[d] /\ step'[d] = step[d] /\ Segment(d)' = Segment(d)
  BY DEF OthersStay, Segment
<1>2. \A p : GemmAt(p)' = GemmAt(p)
  BY LaunchKept
<1> QED BY <1>1, <1>2 DEF Pending

\* The tile a CTA is at is shared when its segment is one of several.
LEMMA SegmentIs ==
  ASSUME BarrierTypeOK, LaunchShaped(kernel), NEW c \in Running, CtaInv(c),
         InGemm(c), todo[c] # {}
  PROVE  /\ Phase(c) \in Gemms /\ at[c] = GemmAt(Phase(c))
         /\ \A p \in Gemms : at[c] = GemmAt(p) => p = Phase(c)
         /\ Segment(c) \in todo[c] /\ todo[c] \subseteq Segments(Phase(c), c)
         /\ Segment(c).tile \in 0..Tiles(Phase(c))-1 /\ LiveTile(Phase(c), Segment(c).tile)
         /\ c \in FirstOf(Phase(c), Segment(c).tile)..LastOf(Phase(c), Segment(c).tile)
         /\ FirstOf(Phase(c), Segment(c).tile) \in Running
         /\ LastOf(Phase(c), Segment(c).tile) \in Running
         /\ Segment(c).index = LastOf(Phase(c), Segment(c).tile) - c
         /\ LastSlice(Segment(c)) <=> c = FirstOf(Phase(c), Segment(c).tile)
         /\ Segment(c).slices > 1 <=> Segment(c).tile \in SharedTiles(Phase(c))
         /\ Segment(c).slices > 1 =>
              Segment(c).slot = LockAt(Phase(c), Segment(c).tile) /\ Segment(c).slot \in LockSlots
         /\ \A s \in todo[c] : s.tile = Segment(c).tile => s = Segment(c)
<1> DEFINE p == Phase(c)
           s == Segment(c)
           t == s.tile
<1>0. grid \in 1..MaxGrid
  BY DEF BarrierTypeOK
<1>1. kernel.mode \in Modes /\ at[c] \in 0..ExitAt
  BY CtaPlace
<1>2. p \in Gemms /\ todo[c] \subseteq Segments(p, c)
  BY DEF InGemm, Gemms, CtaInv
<1>3. \A q \in Gemms : p = q <=> at[c] = GemmAt(q)
  BY <1>1, PlacesAre
<1>4. s \in todo[c] /\ s \in Segments(p, c)
  BY <1>0, <1>2, SegmentIsLeft
<1>5. /\ t \in 0..Tiles(p)-1 /\ LiveTile(p, t)
      /\ c \in FirstOf(p, t)..LastOf(p, t)
      /\ s.slices = LastOf(p, t) - FirstOf(p, t) + 1 /\ s.index = LastOf(p, t) - c
      /\ s.slices > 1 => s.slot = LockAt(p, t)
      /\ \A u \in Segments(p, c) : u.tile = t => u = s
  BY <1>0, <1>2, <1>4, SegmentsAre
<1>6. /\ FirstOf(p, t) \in Running /\ LastOf(p, t) \in Running
      /\ FirstOf(p, t) < LastOf(p, t) => LockAt(p, t) \in LockSlots
  BY <1>0, <1>2, <1>5, HoldersInGrid
<1>7. FirstOf(p, t) \in Int /\ LastOf(p, t) \in Int /\ c \in Int
  BY <1>6 DEF Running
<1>8. s.slices > 1 <=> FirstOf(p, t) < LastOf(p, t)
  BY <1>5, <1>7
<1>9. s.slices > 1 <=> t \in SharedTiles(p)
  BY <1>5, <1>8 DEF SharedTiles
<1>10. LastSlice(s) <=> c = FirstOf(p, t)
  <2> DEFINE lo == FirstOf(p, t)
             hi == LastOf(p, t)
  <2>1. LastSlice(s) <=> s.index = s.slices - 1
    BY DEF LastSlice
  <2>2. s.index = hi - c /\ s.slices = hi - lo + 1 /\ lo \in Int /\ hi \in Int
    BY <1>5, <1>7
  <2> HIDE DEF s, lo, hi
  <2>3. LastSlice(s) <=> c = lo
    BY <1>7, <2>1, <2>2
  <2> QED BY <2>3 DEF lo
<1> QED BY <1>2, <1>3, <1>4, <1>5, <1>6, <1>8, <1>9, <1>10

\* The steps that neither publish nor wait: locks and what is pending stay.
LEMMA TileStepKeeps ==
  ASSUME BarrierTypeOK, FusedTypeOK, LaunchShaped(kernel), NEW c \in Running, CtaInv(c),
         RunTile(c) \/ Combine(c) \/ StoreTile(c)
  PROVE  /\ FusedTypeOK' /\ WorksOn(c) /\ UNCHANGED <<barrierVars, kernel, locks>>
         /\ PublishInv(c)'
         /\ \A p \in Gemms : \A t \in SharedTiles(p) : Pending(p, c, t)' <=> Pending(p, c, t)
<1> DEFINE s == Segment(c)
<1>0. Running \subseteq CTAs /\ c \in CTAs
  BY RunningFinite
<1>1. UNCHANGED <<kernel, at, locks, barrierVars>>
  BY DEF RunTile, Combine, StoreTile
<1>2. InGemm(c) /\ todo[c] # {}
  BY DEF RunTile, Combine, StoreTile, CtaInv
<1>3. /\ s \in todo[c] /\ at[c] = GemmAt(Phase(c)) /\ Phase(c) \in Gemms
      /\ \A p \in Gemms : at[c] = GemmAt(p) => p = Phase(c)
      /\ s.slices > 1 <=> s.tile \in SharedTiles(Phase(c))
      /\ \A u \in todo[c] : u.tile = s.tile => u = s
  BY <1>2, SegmentIs
<1>4. grid' = grid /\ bar' = bar /\ passed' = passed
  BY <1>1 DEF barrierVars
<1>5. \A p : GemmAt(p)' = GemmAt(p)
  BY <1>1, <1>4, LaunchKept
<1>6. CASE RunTile(c)
  <2>1. /\ todo' = todo /\ step[c] = "tile"
        /\ step' = [step EXCEPT ![c] = IF s.slices > 1 THEN "turn" ELSE "store"]
        /\ DOMAIN acc' = DOMAIN acc
        /\ \A d \in CTAs \ {c} : acc'[d] = acc[d]
    BY <1>0, <1>6 DEF RunTile, FusedTypeOK
  <2>2. /\ step' \in [CTAs -> {"tile", "turn", "publish", "store"}]
        /\ \A d \in CTAs \ {c} : step'[d] = step[d]
        /\ step'[c] = IF s.slices > 1 THEN "turn" ELSE "store"
    BY <1>0, <2>1 DEF FusedTypeOK
  <2>3. FusedTypeOK'
    BY <1>1, <2>1, <2>2 DEF FusedTypeOK
  <2>4. Segment(c)' = s
    BY <2>1 DEF Segment
  <2>5. OthersStay(c)
    BY <1>1, <1>4, <2>1, <2>2 DEF OthersStay
  <2>6. WorksOn(c)
    <3>1. step'[c] # "tile"
      BY <2>2
    <3>2. step'[c] \in {"turn", "publish"} => s.slices > 1
      BY <2>2
    <3> HIDE DEF s
    <3> QED BY <1>1, <1>2, <1>4, <2>1, <2>4, <2>5, <3>1, <3>2 DEF WorksOn
  <2>7. PublishInv(c)'
    BY <2>2 DEF PublishInv
  <2>8. ASSUME NEW p \in Gemms, NEW t \in SharedTiles(p)
        PROVE  Pending(p, c, t)' <=> Pending(p, c, t)
    <3>1. at[c] = GemmAt(p) /\ step'[c] = "store" => s.tile # t
      BY <1>3, <2>2
    <3>2. at'[c] = at[c] /\ todo'[c] = todo[c]
      BY <1>1, <2>1
    <3> HIDE DEF s
    <3> QED BY <1>5, <2>1, <2>4, <3>1, <3>2 DEF Pending
  <2> QED BY <1>1, <2>3, <2>6, <2>7, <2>8
<1>7. CASE Combine(c)
  <2>1. /\ todo' = todo /\ step[c] = "turn" /\ locks[s.slot] = s.index
        /\ step' = [step EXCEPT ![c] = "publish"]
        /\ acc' = [acc EXCEPT ![c] = Merged(c)]
    BY <1>7 DEF Combine
  <2>2. /\ step' \in [CTAs -> {"tile", "turn", "publish", "store"}]
        /\ \A d \in CTAs \ {c} : step'[d] = step[d] /\ acc'[d] = acc[d]
        /\ step'[c] = "publish" /\ DOMAIN acc' = DOMAIN acc
    BY <1>0, <2>1 DEF FusedTypeOK
  <2>3. FusedTypeOK'
    BY <1>1, <2>1, <2>2 DEF FusedTypeOK
  <2>4. Segment(c)' = s
    BY <2>1 DEF Segment
  <2>5. OthersStay(c)
    BY <1>1, <1>4, <2>1, <2>2 DEF OthersStay
  <2>6. s.slices > 1
    BY <2>1 DEF CtaInv
  <2>7. WorksOn(c)
    <3> HIDE DEF s
    <3> QED BY <1>1, <1>2, <1>4, <2>1, <2>2, <2>4, <2>5, <2>6 DEF WorksOn
  <2>8. PublishInv(c)'
    BY <1>1, <2>1, <2>4 DEF PublishInv
  <2>9. ASSUME NEW p \in Gemms, NEW t \in SharedTiles(p)
        PROVE  Pending(p, c, t)' <=> Pending(p, c, t)
    <3>1. at'[c] = at[c] /\ todo'[c] = todo[c]
      BY <1>1, <2>1
    <3> HIDE DEF s
    <3> QED BY <1>5, <2>1, <2>2, <2>4, <3>1 DEF Pending
  <2> QED BY <1>1, <2>3, <2>7, <2>8, <2>9
<1>8. CASE StoreTile(c)
  <2>1. step[c] = "store" /\ NextSegment(c)
    BY <1>8 DEF StoreTile
  <2>2. /\ step' \in [CTAs -> {"tile", "turn", "publish", "store"}]
        /\ \A d \in CTAs \ {c} : step'[d] = step[d] /\ acc'[d] = acc[d] /\ todo'[d] = todo[d]
        /\ step'[c] = "tile" /\ acc'[c] = {} /\ todo'[c] = todo[c] \ {s}
        /\ DOMAIN acc' = DOMAIN acc /\ DOMAIN todo' = DOMAIN todo
    BY <1>0, <2>1 DEF FusedTypeOK, NextSegment
  <2>3. FusedTypeOK'
    BY <1>1, <2>2 DEF FusedTypeOK
  <2>4. OthersStay(c)
    BY <1>1, <1>4, <2>2 DEF OthersStay
  <2>5. WorksOn(c)
    <3> HIDE DEF s
    <3> QED BY <1>1, <1>2, <1>4, <2>2, <2>4 DEF WorksOn
  <2>6. PublishInv(c)'
    BY <2>2 DEF PublishInv
  <2>7. ASSUME NEW p \in Gemms, NEW t \in SharedTiles(p)
        PROVE  Pending(p, c, t)' <=> Pending(p, c, t)
    <3>1. at'[c] = at[c]
      BY <1>1
    <3>2. (\E u \in todo[c] : u.tile = t /\ s.tile # t) <=> (\E u \in todo[c] \ {s} : u.tile = t)
      BY <1>3
    <3>3. Pending(p, c, t) <=>
            at[c] < GemmAt(p) \/ (at[c] = GemmAt(p) /\ \E u \in todo[c] : u.tile = t /\ s.tile # t)
      BY <2>1 DEF Pending
    <3>4. Pending(p, c, t)' <=>
            at[c] < GemmAt(p) \/ (at[c] = GemmAt(p) /\ \E u \in todo[c] \ {s} : u.tile = t)
      BY <1>5, <2>2, <3>1 DEF Pending
    <3> QED BY <3>2, <3>3, <3>4
  <2> QED BY <1>1, <2>3, <2>5, <2>6, <2>7
<1> QED BY <1>6, <1>7, <1>8

\* The locks go on counting what is pending as long as neither changes.
LEMMA LocksKept ==
  ASSUME BarrierTypeOK, LaunchShaped(kernel), UNCHANGED <<kernel, grid, locks>>, NEW p \in Gemms,
         \A t \in SharedTiles(p) : \A c \in FirstOf(p, t)..LastOf(p, t) :
            Pending(p, c, t)' <=> Pending(p, c, t),
         LockInv(p)
  PROVE  LockInv(p)'
<1>1. /\ SharedTiles(p)' = SharedTiles(p)
      /\ \A t : /\ FirstOf(p, t)' = FirstOf(p, t) /\ LastOf(p, t)' = LastOf(p, t)
                /\ LockAt(p, t)' = LockAt(p, t)
  BY LaunchKept
<1>2. ASSUME NEW t \in SharedTiles(p) PROVE TurnInv(p, t)'
  <2>0. PICK lo, hi, lock : lo = FirstOf(p, t) /\ hi = LastOf(p, t) /\ lock = locks[LockAt(p, t)]
    OBVIOUS
  <2>1. lo \in lo..hi
    <3>1. lo \in Running /\ hi \in Running /\ lo <= hi
      BY <2>0, HoldersInGrid DEF BarrierTypeOK, SharedTiles
    <3> QED BY <3>1 DEF Running
  <2>2. \A c \in lo..hi : Pending(p, c, t)' <=> Pending(p, c, t)
    BY <2>0
  <2>3. FirstOf(p, t)' = lo /\ LastOf(p, t)' = hi /\ locks'[LockAt(p, t)'] = lock
    BY <1>1, <2>0
  <2>4. IF Pending(p, lo, t)
        THEN lock \in 0..hi-lo /\ \A c \in lo..hi : Pending(p, c, t) <=> c <= hi - lock
        ELSE lock = 0 /\ \A c \in lo..hi : ~Pending(p, c, t)
    BY <2>0 DEF LockInv, TurnInv
  <2>5. (Pending(p, FirstOf(p, t), t))' <=> Pending(p, lo, t)
    <3>1. (Pending(p, FirstOf(p, t), t))' <=> Pending(p, lo, t)'
      BY <2>3 DEF Pending
    <3> QED BY <2>1, <2>2, <3>1
  <2>6. IF Pending(p, lo, t)
        THEN lock \in 0..hi-lo /\ \A c \in lo..hi : Pending(p, c, t)' <=> c <= hi - lock
        ELSE lock = 0 /\ \A c \in lo..hi : ~Pending(p, c, t)'
    BY <2>2, <2>4
  <2> QED BY <2>3, <2>5, <2>6 DEF TurnInv
<1>3. \A s \in LockSlots : (\A t \in SharedTiles(p) : LockAt(p, t) # s) => locks[s] = 0
  BY DEF LockInv
<1> QED BY <1>1, <1>2, <1>3 DEF LockInv, LockSlots

\* A CTA in a GEMM knows how far the others are.
LEMMA GemmIsCurrent ==
  ASSUME BarrierTypeOK, BarrierInv, LaunchShaped(kernel), NEW c \in Running,
         \A d \in Running : CtaInv(d), InGemm(c)
  PROVE  Phase(c) = IF Early THEN "fc1" ELSE "fc2"
<1>1. kernel.mode \in Modes /\ at[c] \in 0..ExitAt
  BY CtaPlace
<1>2. /\ Phase(c) = "fc1" \/ Phase(c) = "fc2"
      /\ Phase(c) = "fc1" <=> at[c] = GemmAt("fc1")
      /\ Phase(c) = "fc2" <=> at[c] = GemmAt("fc2")
  BY <1>1, PlacesAre DEF InGemm, Gemms
<1>3. CASE Phase(c) = "fc2"
  <2>1. Level(GemmAt("fc2")) # 0
    BY DEF Level, GemmAt
  <2>2. ~Early
    BY <1>2, <1>3, <2>1 DEF Early
  <2> QED BY <1>3, <2>2
<1>4. CASE Phase(c) = "fc1"
  <2>1. Level(at[c]) = 0
    BY <1>2, <1>4 DEF Level, GemmAt
  <2>2. bar[c] = "out"
    BY <1>4 DEF CtaInv
  <2>3. passed[c] = sense /\ sense \in Nat
    BY <2>2 DEF BarrierInv, InStep, BarrierTypeOK
  <2>4. ASSUME NEW d \in Running PROVE Level(at[d]) = 0
    <3>1. InStep(d) /\ passed[c] - Level(at[c]) = passed[d] - Level(at[d])
      BY DEF BarrierInv, CtaInv
    <3>2. Level(at[d]) \in Nat
      BY DEF Level
    <3>3. passed[d] = sense \/ passed[d] = sense - 1
      BY <3>1 DEF InStep
    <3> QED BY <2>1, <2>3, <3>1, <3>2, <3>3
  <2> QED BY <1>4, <2>4 DEF Early
<1> QED BY <1>2, <1>3, <1>4

LEMMA PublishKeeps ==
  ASSUME BarrierTypeOK, BarrierInv, FusedTypeOK, LaunchShaped(kernel), NEW c \in Running,
         \A d \in Running : CtaInv(d) /\ PublishInv(d),
         Publish(c),
         NEW p \in Gemms, p = Phase(c), LockInv(p)
  PROVE  /\ FusedTypeOK' /\ WorksOn(c) /\ UNCHANGED <<barrierVars, kernel>>
         /\ \A d \in Running : PublishInv(d)'
         /\ LockInv(p)'
<1>00. PICK s, t : s = Segment(c) /\ t = s.tile
  OBVIOUS
<1>01. PICK lo, hi : lo = FirstOf(p, t) /\ hi = LastOf(p, t)
  OBVIOUS
<1>0. Running \subseteq CTAs /\ c \in CTAs /\ CtaInv(c) /\ PublishInv(c) /\ grid \in 1..MaxGrid
  BY RunningFinite DEF BarrierTypeOK
<1>1. UNCHANGED <<kernel, at, barrierVars>> /\ InGemm(c) /\ step[c] = "publish" /\ todo[c] # {}
  BY DEF Publish, CtaInv
<1>2. /\ s \in todo[c] /\ at[c] = GemmAt(p)
      /\ t \in 0..Tiles(p)-1 /\ LiveTile(p, t)
      /\ c \in lo..hi /\ lo \in Running /\ hi \in Running
      /\ s.index = hi - c /\ (LastSlice(s) <=> c = lo)
      /\ s.slices > 1 <=> t \in SharedTiles(p)
      /\ s.slices > 1 => s.slot = LockAt(p, t) /\ s.slot \in LockSlots
      /\ \A u \in todo[c] : u.tile = t => u = s
  BY <1>00, <1>01, <1>0, <1>1, SegmentIs
<1>3. s.slices > 1 /\ t \in SharedTiles(p) /\ s.slot = LockAt(p, t) /\ s.slot \in LockSlots
  BY <1>00, <1>0, <1>1, <1>2 DEF CtaInv
<1>4. locks[s.slot] = s.index
  BY <1>00, <1>0, <1>1 DEF PublishInv
<1>5. lo \in Nat /\ hi \in Nat /\ c \in Nat /\ lo <= c /\ c <= hi
  BY <1>2 DEF Running
<1>6. grid' = grid /\ bar' = bar /\ passed' = passed
  BY <1>1 DEF barrierVars
<1>7. /\ \A q : GemmAt(q)' = GemmAt(q) /\ SharedTiles(q)' = SharedTiles(q)
      /\ \A q, u : /\ FirstOf(q, u)' = FirstOf(q, u) /\ LastOf(q, u)' = LastOf(q, u)
                   /\ LockAt(q, u)' = LockAt(q, u)
  BY <1>1, <1>6, LaunchKept
\* What the step does to c and to its lock.
<1>8. /\ step' \in [CTAs -> {"tile", "turn", "publish", "store"}]
      /\ DOMAIN todo' = CTAs /\ DOMAIN acc' = CTAs
      /\ \A d \in CTAs \ {c} : step'[d] = step[d] /\ acc'[d] = acc[d] /\ todo'[d] = todo[d]
      /\ IF c = lo THEN step'[c] = "store" /\ todo'[c] = todo[c]
         ELSE step'[c] = "tile" /\ acc'[c] = {} /\ todo'[c] = todo[c] \ {s}
  <2>1. CASE c = lo
    <3>1. step' = [step EXCEPT ![c] = "store"] /\ todo' = todo /\ acc' = acc
      BY <1>00, <1>2, <2>1 DEF Publish
    <3> QED BY <1>0, <2>1, <3>1 DEF FusedTypeOK
  <2>2. CASE c # lo
    <3>1. NextSegment(c)
      BY <1>00, <1>2, <2>2 DEF Publish
    <3> QED BY <1>00, <1>0, <2>2, <3>1 DEF FusedTypeOK, NextSegment
  <2> QED BY <2>1, <2>2
<1>9. locks' = [locks EXCEPT ![s.slot] = IF c = lo THEN 0 ELSE hi - c + 1]
  BY <1>00, <1>2, <1>4 DEF Publish
<1>10. hi - c + 1 \in Nat /\ locks' \in [LockSlots -> Nat]
  <2>1. hi - c + 1 \in Nat
    BY <1>5
  <2>2. (IF c = lo THEN 0 ELSE hi - c + 1) \in Nat
    BY <2>1
  <2> QED BY <1>3, <1>9, <2>1, <2>2 DEF FusedTypeOK
<1>11. FusedTypeOK'
  BY <1>1, <1>8, <1>10 DEF FusedTypeOK
<1>12. OthersStay(c)
  BY <1>1, <1>6, <1>8 DEF OthersStay
<1>13. c = lo => Segment(c)' = s
  BY <1>00, <1>8 DEF Segment
<1>14. WorksOn(c)
  <2>1. todo'[c] \subseteq todo[c] /\ (step'[c] # "tile" => todo'[c] # {})
    BY <1>1, <1>8
  <2>2. step'[c] \notin {"turn", "publish"} /\ (step'[c] = "tile" => acc'[c] = {})
    BY <1>8
  <2> QED BY <1>1, <1>6, <1>12, <2>1, <2>2 DEF WorksOn
\* c's part is no longer pending, and that is all.
<1>15. Pending(p, c, t) /\ ~Pending(p, c, t)'
  <2>1. at'[c] = at[c] /\ GemmAt(p)' = GemmAt(p) /\ at[c] = GemmAt(p) /\ ~(at[c] < at[c])
    <3>1. GemmAt(p) \in Int
      BY DEF GemmAt
    <3> QED BY <1>1, <1>2, <1>7, <3>1
  <2>2. \A u \in todo[c] \ {s} : u.tile # t
    BY <1>2
  <2>3. Pending(p, c, t)
    BY <1>00, <1>1, <1>2 DEF Pending
  <2>4. CASE c = lo
    <3>1. step'[c] = "store" /\ Segment(c)'.tile = t
      BY <1>00, <1>8, <1>13, <2>4
    <3> QED BY <2>1, <2>3, <3>1 DEF Pending
  <2>5. CASE c # lo
    <3>1. \A u \in todo'[c] : u.tile # t
      BY <1>8, <2>2, <2>5
    <3> QED BY <2>1, <2>3, <3>1 DEF Pending
  <2> QED BY <2>3, <2>4, <2>5
<1>16. ASSUME NEW u, u # t PROVE Pending(p, c, u)' <=> Pending(p, c, u)
  <2>1. at'[c] = at[c] /\ GemmAt(p)' = GemmAt(p) /\ at[c] = GemmAt(p) /\ ~(at[c] < at[c])
    <3>1. GemmAt(p) \in Int
      BY DEF GemmAt
    <3> QED BY <1>1, <1>2, <1>7, <3>1
  <2>2. Pending(p, c, u) <=> \E x \in todo[c] : x.tile = u
    BY <1>1, <2>1 DEF Pending
  <2>3. Pending(p, c, u)' <=> \E x \in todo'[c] : x.tile = u
    <3>1. step'[c] = "store" => Segment(c)'.tile # u
      BY <1>00, <1>8, <1>13, <1>16
    <3> QED BY <2>1, <3>1 DEF Pending
  <2>4. s.tile # u
    BY <1>00, <1>16
  <2> QED BY <1>8, <2>2, <2>3, <2>4
<1>17. \A d \in CTAs \ {c} : \A u : Pending(p, d, u)' <=> Pending(p, d, u)
  BY <1>1, <1>6, <1>12, OthersPending
<1>18. TurnInv(p, t)'
  <2>0. PICK lock : lock = locks[LockAt(p, t)]
    OBVIOUS
  <2>1. lock = hi - c
    BY <1>2, <1>3, <1>4, <2>0
  <2>2. IF Pending(p, lo, t)
        THEN lock \in 0..hi-lo /\ \A d \in lo..hi : Pending(p, d, t) <=> d <= hi - lock
        ELSE lock = 0 /\ \A d \in lo..hi : ~Pending(p, d, t)
    BY <1>01, <1>3, <2>0 DEF LockInv, TurnInv
  <2>3. Pending(p, lo, t)
    BY <1>2, <1>15, <2>2
  <2>4. \A d \in lo..hi : Pending(p, d, t) <=> d <= c
    <3>1. hi - lock = c
      BY <1>5, <2>1
    <3> QED BY <2>2, <2>3, <3>1
  <2>5. \A d \in lo..hi : d \in CTAs
    BY <1>0, <1>2, <1>5 DEF Running
  <2>6. ASSUME NEW d \in lo..hi PROVE Pending(p, d, t)' <=> (d <= c /\ d # c)
    <3>1. CASE d = c
      BY <1>15, <3>1
    <3>2. CASE d # c
      <4>1. d \in CTAs \ {c}
        BY <2>5, <3>2
      <4> QED BY <1>17, <2>4, <3>2, <4>1
    <3> QED BY <3>1, <3>2
  <2>7. locks'[LockAt(p, t)] = IF c = lo THEN 0 ELSE hi - c + 1
    BY <1>3, <1>9 DEF FusedTypeOK
  <2>8. /\ c # lo => hi - c + 1 \in 0..hi-lo
        /\ lo \in lo..hi /\ lo <= c
    BY <1>5
  <2>9. \A d \in lo..hi : d <= hi - (hi - c + 1) <=> (d <= c /\ d # c)
    BY <1>5
  <2>10. \A d \in lo..hi : c = lo => ~(d <= c /\ d # c)
    BY <1>5
  <2>11. Pending(p, lo, t)' <=> c # lo
    BY <2>6, <2>8
  <2>12. FirstOf(p, t)' = lo /\ LastOf(p, t)' = hi /\ LockAt(p, t)' = LockAt(p, t)
    BY <1>01, <1>7
  <2>13. (Pending(p, FirstOf(p, t), t))' <=> c # lo
    <3>1. (Pending(p, FirstOf(p, t), t))' <=> Pending(p, lo, t)'
      BY <2>12 DEF Pending
    <3> QED BY <2>11, <3>1
  <2>14. IF c # lo
         THEN /\ locks'[LockAt(p, t)'] \in 0..hi-lo
              /\ \A d \in lo..hi : Pending(p, d, t)' <=> d <= hi - locks'[LockAt(p, t)']
         ELSE locks'[LockAt(p, t)'] = 0 /\ \A d \in lo..hi : ~Pending(p, d, t)'
    BY <2>6, <2>7, <2>8, <2>9, <2>10, <2>12
  <2> QED BY <2>12, <2>13, <2>14 DEF TurnInv
\* The other tiles have other locks.
<1>19. ASSUME NEW u \in SharedTiles(p), u # t PROVE TurnInv(p, u)'
  <2>0. PICK a, b, l : a = FirstOf(p, u) /\ b = LastOf(p, u) /\ l = LockAt(p, u)
    OBVIOUS
  <2>1. l # s.slot
    BY <1>0, <1>2, <1>3, <1>19, <2>0, HoldersInGrid
  <2>2. locks'[l] = locks[l]
    BY <1>9, <2>1
  <2>3. /\ a \in Running /\ b \in Running /\ a <= b
    BY <1>0, <2>0, HoldersInGrid DEF SharedTiles
  <2>4. a \in a..b /\ \A d \in a..b : d \in CTAs
    BY <1>0, <2>3 DEF Running
  <2>5. \A d \in a..b : Pending(p, d, u)' <=> Pending(p, d, u)
    BY <1>16, <1>17, <1>19, <2>4
  <2>6. FirstOf(p, u)' = a /\ LastOf(p, u)' = b /\ LockAt(p, u)' = l
    BY <1>7, <2>0
  <2>7. (Pending(p, FirstOf(p, u), u))' <=> Pending(p, a, u)
    <3>1. (Pending(p, FirstOf(p, u), u))' <=> Pending(p, a, u)'
      BY <2>6 DEF Pending
    <3> QED BY <2>4, <2>5, <3>1
  <2>8. IF Pending(p, a, u)
        THEN locks[l] \in 0..b-a /\ \A d \in a..b : Pending(p, d, u) <=> d <= b - locks[l]
        ELSE locks[l] = 0 /\ \A d \in a..b : ~Pending(p, d, u)
    BY <2>0 DEF LockInv, TurnInv
  <2>9. IF Pending(p, a, u)
        THEN locks'[l] \in 0..b-a /\ \A d \in a..b : Pending(p, d, u)' <=> d <= b - locks'[l]
        ELSE locks'[l] = 0 /\ \A d \in a..b : ~Pending(p, d, u)'
    BY <2>2, <2>5, <2>8
  <2> QED BY <2>6, <2>7, <2>9 DEF TurnInv
<1>20. ASSUME NEW x \in LockSlots, \A u \in SharedTiles(p) : LockAt(p, u) # x
       PROVE  locks'[x] = 0
  <2>1. x # s.slot
    BY <1>3, <1>20
  <2>2. locks[x] = 0
    BY <1>20 DEF LockInv
  <2> QED BY <1>9, <2>1, <2>2
<1>21. LockInv(p)'
  <2>1. \A u \in SharedTiles(p)' : TurnInv(p, u)'
    BY <1>7, <1>18, <1>19
  <2>2. \A x \in LockSlots : (\A u \in SharedTiles(p)' : LockAt(p, u)' # x) => locks'[x] = 0
    BY <1>7, <1>20
  <2> QED BY <2>1, <2>2 DEF LockInv, LockSlots
\* Whoever is about to publish has its own lock.
<1>22. ASSUME NEW d \in Running PROVE PublishInv(d)'
  <2>1. CASE d = c
    BY <1>8, <2>1 DEF PublishInv
  <2>2. CASE d # c /\ step[d] = "publish"
    <3>0. PICK v : v = Segment(d)
      OBVIOUS
    <3>1. CtaInv(d) /\ PublishInv(d) /\ todo[d] # {} /\ v.slices > 1
      BY <2>2, <3>0 DEF CtaInv
    <3>2. InGemm(d)
      BY <3>1 DEF CtaInv
    <3>3. Phase(d) = p
      <4>1. InGemm(c)
        BY <1>1
      <4> QED BY <3>2, <4>1, GemmIsCurrent
    <3>4. /\ v.tile \in SharedTiles(p) /\ v.slot = LockAt(p, v.tile)
          /\ v.index = LastOf(p, v.tile) - d
      BY <3>0, <3>1, <3>2, <3>3, SegmentIs
    <3>5. locks[v.slot] = v.index
      BY <2>2, <3>0, <3>1 DEF PublishInv
    <3>6. v.slot # s.slot
      <4>1. SUFFICES ASSUME v.slot = s.slot PROVE FALSE
        OBVIOUS
      <4>2. v.tile = t
        BY <1>0, <1>2, <1>3, <3>4, <4>1, HoldersInGrid
      <4>3. hi - d = hi - c
        BY <1>01, <1>2, <1>4, <3>4, <3>5, <4>1, <4>2
      <4> QED BY <1>5, <2>2, <4>3 DEF Running
    <3>7. d \in CTAs \ {c}
      BY <1>0, <2>2
    <3>8. Segment(d)' = v
      BY <1>8, <3>0, <3>7 DEF Segment
    <3> QED BY <1>9, <3>5, <3>6, <3>8 DEF PublishInv
  <2>3. CASE d # c /\ step[d] # "publish"
    <3>1. d \in CTAs \ {c}
      BY <1>0, <2>3
    <3> QED BY <1>8, <2>3, <3>1 DEF PublishInv
  <2> QED BY <2>1, <2>2, <2>3
<1> QED BY <1>1, <1>11, <1>14, <1>21, <1>22

LEMMA InBarrierKeeps ==
  ASSUME BarrierTypeOK, FusedTypeOK, LaunchShaped(kernel), NEW c \in Running,
         \A d \in Running : CtaInv(d), InBarrier(c)
  PROVE  UNCHANGED <<kernelVars, grid, passed>> /\ \A d \in Running : CtaInv(d)'
<1>1. /\ UNCHANGED kernelVars /\ grid' = grid /\ passed' = passed /\ Phase(c) = "barrier"
      /\ \A d \in CTAs \ {c} : bar'[d] = bar[d]
  BY DEF InBarrier, ReadSense, Arrive, ResetCount, BarrierTypeOK
<1>2. UNCHANGED <<kernel, at, todo, step, acc, locks>>
  BY <1>1 DEF kernelVars
<1>3. /\ Running' = Running /\ Phases' = Phases
      /\ \A p, d : Segments(p, d)' = Segments(p, d)
      /\ \A i : Level(i)' = Level(i)
  BY <1>1, <1>2, LaunchKept
<1>4. ASSUME NEW d \in Running PROVE CtaInv(d)'
  <2>1. /\ Phase(d)' = Phase(d) /\ InGemm(d)' = InGemm(d) /\ Segment(d)' = Segment(d)
        /\ Len(Phases)' = Len(Phases)
    BY <1>2, <1>3 DEF Phase, InGemm, Segment
  <2>2. Segments(Phase(d), d)' = Segments(Phase(d), d)
    BY <1>3, <2>1
  <2>3. bar'[d] # "out" => Phase(d) = "barrier"
    <3>1. d \in CTAs
      BY RunningFinite
    <3> QED BY <1>1, <3>1 DEF CtaInv
  <2>4. CtaInv(d)
    OBVIOUS
  <2>5. (\A x \in Running : passed[d] - Level(at[d]) = passed[x] - Level(at[x]))'
    BY <1>1, <1>2, <1>3, <2>4 DEF CtaInv
  <2>6. (todo[d] \subseteq IF InGemm(d) THEN Segments(Phase(d), d) ELSE {})'
    BY <1>2, <2>1, <2>2, <2>4 DEF CtaInv
  <2> QED BY <1>1, <1>2, <2>1, <2>3, <2>4, <2>5, <2>6 DEF CtaInv
<1> QED BY <1>1, <1>4

LEMMA LeaveMovesOn ==
  ASSUME BarrierTypeOK, BarrierInv, LaunchShaped(kernel), NEW c \in Running,
         \A d \in Running : CtaInv(d), LeaveBarrier(c)
  PROVE  /\ MovesOn(c) /\ Level(at[c] + 1) = Level(at[c]) + 1
         /\ \A d \in Running \ {c} : Level(at[d]) = Level(at[c]) => bar[d] = "spin"
<1>0. Running \subseteq CTAs /\ c \in CTAs /\ CtaInv(c) /\ InStep(c) /\ sense \in Nat
  BY RunningFinite DEF BarrierInv, BarrierTypeOK
<1>1. /\ kernel.mode \in Modes /\ at[c] \in 0..ExitAt
      /\ todo[c] = {} => step[c] = "tile" /\ acc[c] = {}
      /\ ~InGemm(c) => todo[c] = {}
  BY CtaPlace
<1>2. /\ Phase(c) = "barrier" <=> at[c] \in Barriers
      /\ Phase(c) = "exit" <=> at[c] = ExitAt
  BY <1>1, PlacesAre
<1>3. Phase(c) = "barrier" /\ todo[c] = {}
  BY <1>1 DEF LeaveBarrier, InGemm
<1>4. at[c] \in 0..ExitAt-1 /\ at[c] \in Barriers
  <2>1. at[c] # ExitAt /\ at[c] \in Barriers /\ ExitAt \in Nat
    BY <1>2, <1>3 DEF ExitAt
  <2> QED BY <1>1, <2>1
<1>5. Level(at[c] + 1) = Level(at[c]) + 1
  BY <1>1, <1>4, NextPlace
<1>6. UNCHANGED <<kernel, step, acc, locks, grid>> /\ Advance(c)
  BY DEF LeaveBarrier, ReleaseAll, SpinOut
<1>7. /\ at' = [at EXCEPT ![c] = @ + 1]
      /\ todo' = [todo EXCEPT ![c] = IF Phases[at[c] + 1] \in Gemms
                                     THEN Segments(Phases[at[c] + 1], c) ELSE {}]
  BY <1>6 DEF Advance, Gemms
<1>8. /\ passed[c] \in Nat /\ passed'[c] = passed[c] + 1 /\ bar'[c] = "out"
      /\ \A d \in CTAs \ {c} : bar'[d] = bar[d] /\ passed'[d] = passed[d]
  <2>1. CASE ReleaseAll(c)
    <3>1. passed[c] = sense
      BY <1>0, <2>1 DEF ReleaseAll, InStep
    <3> QED BY <1>0, <2>1, <3>1 DEF ReleaseAll, BarrierTypeOK
  <2>2. CASE SpinOut(c)
    <3>1. passed[c] \in Nat /\ passed[c] = sense - 1
      BY <1>0, <2>2 DEF SpinOut, InStep, BarrierTypeOK
    <3>2. passed[c] + 1 = sense
      BY <1>0, <3>1
    <3> QED BY <1>0, <2>2, <3>1, <3>2 DEF SpinOut, BarrierTypeOK
  <2> QED BY <2>1, <2>2 DEF LeaveBarrier
<1>9. ASSUME NEW d \in Running \ {c}, Level(at[d]) = Level(at[c]) PROVE bar[d] = "spin"
  <2>1. CASE ReleaseAll(c)
    <3>1. AllWait(c)
      BY DEF BarrierInv
    <3> QED BY <2>1, <3>1 DEF ReleaseAll, AllWait
  <2>2. CASE SpinOut(c)
    <3>1. passed[c] - Level(at[c]) = passed[d] - Level(at[d])
      BY <1>0 DEF CtaInv
    <3>2. passed[c] = sense - 1 /\ passed[d] \in Nat /\ Level(at[c]) \in Nat
      <4>1. d \in CTAs
        BY <1>0
      <4> QED BY <1>0, <2>2, <4>1 DEF SpinOut, InStep, BarrierTypeOK, Level
    <3>3. passed[d] # sense
      BY <1>0, <1>9, <3>1, <3>2
    <3>4. InStep(d)
      BY DEF BarrierInv
    <3> QED BY <3>3, <3>4 DEF InStep
  <2> QED BY <2>1, <2>2 DEF LeaveBarrier
<1>10. passed'[c] - Level(at[c] + 1) = passed[c] - Level(at[c])
  <2>1. Level(at[c]) \in Nat
    BY DEF Level
  <2> QED BY <1>5, <1>8, <2>1
<1> QED BY <1>1, <1>3, <1>4, <1>5, <1>6, <1>7, <1>8, <1>9, <1>10 DEF MovesOn

\* A lock is free when no part of its tiles is pending, and counts from there
\* when every part is.
LEMMA LocksFree ==
  ASSUME BarrierTypeOK, LaunchShaped(kernel), NEW p \in Gemms, LockInv(p),
         \A t \in SharedTiles(p) : \A c \in FirstOf(p, t)..LastOf(p, t) : ~Pending(p, c, t)
  PROVE  \A s \in LockSlots : locks[s] = 0
<1> SUFFICES ASSUME NEW s \in LockSlots PROVE locks[s] = 0
  OBVIOUS
<1>1. CASE \E t \in SharedTiles(p) : LockAt(p, t) = s
  <2>1. PICK t \in SharedTiles(p) : LockAt(p, t) = s
    BY <1>1
  <2>2. FirstOf(p, t) \in FirstOf(p, t)..LastOf(p, t)
    <3>1. FirstOf(p, t) \in Running /\ LastOf(p, t) \in Running /\ FirstOf(p, t) <= LastOf(p, t)
      BY HoldersInGrid DEF SharedTiles, BarrierTypeOK
    <3> QED BY <3>1 DEF Running
  <2> QED BY <2>1, <2>2 DEF LockInv, TurnInv
<1>2. CASE \A t \in SharedTiles(p) : LockAt(p, t) # s
  BY <1>2 DEF LockInv
<1> QED BY <1>1, <1>2

LEMMA LocksStart ==
  ASSUME BarrierTypeOK, LaunchShaped(kernel), NEW p \in Gemms,
         \A s \in LockSlots : locks[s] = 0,
         \A c \in Running : at[c] < GemmAt(p)
  PROVE  LockInv(p)
<1>1. ASSUME NEW t \in SharedTiles(p) PROVE TurnInv(p, t)
  <2>0. PICK lo, hi : lo = FirstOf(p, t) /\ hi = LastOf(p, t)
    OBVIOUS
  <2>1. /\ lo \in Running /\ hi \in Running /\ lo < hi /\ LockAt(p, t) \in LockSlots
    BY <2>0, HoldersInGrid DEF SharedTiles, BarrierTypeOK
  <2>2. lo \in Nat /\ hi \in Nat /\ \A c \in lo..hi : c \in Running /\ c <= hi - 0
    <3>1. grid \in Nat
      BY DEF BarrierTypeOK
    <3> QED BY <2>1, <3>1 DEF Running
  <2>3. \A c \in lo..hi : Pending(p, c, t)
    BY <2>2 DEF Pending
  <2>4. Pending(p, lo, t) /\ 0 \in 0..hi-lo
    BY <2>1, <2>2 DEF Pending
  <2> QED BY <2>0, <2>1, <2>2, <2>3, <2>4 DEF TurnInv
<1> QED BY <1>1 DEF LockInv

LocksSet ==
  /\ BarrierTypeOK /\ LaunchShaped(kernel)
  /\ \A s \in LockSlots : locks[s] = 0
  /\ \A p \in Gemms : \A c \in Running : at[c] < GemmAt(p)

LEMMA LocksSetStart == LocksSet => \A p \in Gemms : LockInv(p)
  BY LocksStart DEF LocksSet


\* A CTA's step within a launch.
LEMMA KernelStepInv ==
  ASSUME BarrierTypeOK, BarrierInv, FusedTypeOK, KernelInv, NEW c \in Running, Cta(c)
  PROVE  FusedTypeOK' /\ KernelInv'
<1>0. /\ LaunchShaped(kernel)
      /\ \A d \in Running : CtaInv(d) /\ PublishInv(d)
      /\ \A d \in CTAs \ Running : Idle(d)
      /\ Early => LockInv("fc1")
      /\ ~Early => LockInv("fc2")
  BY DEF KernelInv
<1>1. /\ Running \subseteq CTAs /\ c \in CTAs /\ CtaInv(c) /\ grid \in 1..MaxGrid
      /\ kernel.mode \in Modes /\ at[c] \in 0..ExitAt
  <2>1. c \in Running /\ CtaInv(c)
    BY <1>0
  <2> QED BY <1>0, <2>1, RunningFinite, CtaPlace DEF BarrierTypeOK
<1>2. CASE Start(c) \/ ZeroOutput(c) \/ Activate(c) \/ ClearFc2(c) \/ EndGemm(c)
  <2>1. MovesOn(c) /\ Level(at[c] + 1) = Level(at[c])
    BY <1>0, <1>1, <1>2, AdvanceMovesOn
  <2>2. /\ FusedTypeOK' /\ LaunchShaped(kernel)' /\ UNCHANGED <<kernel, grid, locks>>
        /\ \A d \in Running : CtaInv(d)' /\ PublishInv(d)'
        /\ \A d \in CTAs \ Running : Idle(d)'
        /\ \A p \in Gemms : \A t \in SharedTiles(p) : \A d \in FirstOf(p, t)..LastOf(p, t) :
              Pending(p, d, t)' <=> Pending(p, d, t)
    BY <1>0, <2>1, MovesOnInv
  <2>3. Running' = Running /\ \A i : Level(i)' = Level(i)
    BY <2>2, LaunchKept
  <2>4. \A d \in Running : Level(at'[d]) = Level(at[d])
    <3>1. \A d \in Running : at'[d] = IF d = c THEN at[c] + 1 ELSE at[d]
      BY <1>1, <2>1 DEF MovesOn, FusedTypeOK
    <3> QED BY <2>1, <3>1
  <2>5. Early' <=> Early
    BY <2>3, <2>4 DEF Early
  <2>6. \A p \in Gemms : LockInv(p) => LockInv(p)'
    BY <1>0, <2>2, LocksKept
  <2> QED BY <1>0, <2>2, <2>3, <2>5, <2>6 DEF KernelInv, CTAs, Gemms
<1>3. CASE RunTile(c) \/ Combine(c) \/ StoreTile(c)
  <2>1. /\ FusedTypeOK' /\ WorksOn(c) /\ UNCHANGED <<barrierVars, kernel, locks>>
        /\ PublishInv(c)'
        /\ \A p \in Gemms : \A t \in SharedTiles(p) : Pending(p, c, t)' <=> Pending(p, c, t)
    BY <1>0, <1>1, <1>3, TileStepKeeps
  <2>2. /\ LaunchShaped(kernel)' /\ Running' = Running
        /\ \A d \in Running : CtaInv(d)'
        /\ \A d \in CTAs \ Running : Idle(d)'
        /\ Early' <=> Early
    BY <1>0, <2>1, WorksOnInv
  <2>3. OthersStay(c) /\ UNCHANGED <<kernel, grid, locks>>
    BY <2>1 DEF WorksOn
  <2>4. ASSUME NEW d \in Running PROVE PublishInv(d)'
    <3>1. CASE d = c
      BY <2>1, <3>1
    <3>2. CASE d # c
      <4>1. step'[d] = step[d] /\ Segment(d)' = Segment(d)
        BY <1>1, <2>3, <3>2 DEF OthersStay, Segment
      <4> QED BY <1>0, <2>3, <4>1 DEF PublishInv
    <3> QED BY <3>1, <3>2
  <2>5. ASSUME NEW p \in Gemms, NEW t \in SharedTiles(p), NEW d \in FirstOf(p, t)..LastOf(p, t)
        PROVE  Pending(p, d, t)' <=> Pending(p, d, t)
    <3>1. d \in CTAs
      <4>1. FirstOf(p, t) \in Running /\ LastOf(p, t) \in Running
        BY <1>0, <1>1, HoldersInGrid DEF SharedTiles
      <4> QED BY <1>1, <4>1 DEF Running
    <3>2. CASE d = c
      BY <2>1, <3>2
    <3>3. CASE d # c
      BY <2>3, <3>1, <3>3, OthersPending
    <3> QED BY <3>2, <3>3
  <2>6. \A p \in Gemms : LockInv(p) => LockInv(p)'
    BY <1>0, <2>3, <2>5, LocksKept
  <2> QED BY <1>0, <2>1, <2>2, <2>4, <2>6 DEF KernelInv, CTAs, Gemms
<1>4. CASE Publish(c)
  <2>1. InGemm(c)
    BY <1>4 DEF Publish
  <2>2. Phase(c) = (IF Early THEN "fc1" ELSE "fc2")
    BY <1>0, <2>1, GemmIsCurrent
  <2>3. PICK p \in Gemms : p = Phase(c) /\ LockInv(p)
    BY <1>0, <2>2 DEF Gemms
  <2>4. /\ FusedTypeOK' /\ WorksOn(c) /\ UNCHANGED <<barrierVars, kernel>>
        /\ \A d \in Running : PublishInv(d)'
        /\ LockInv(p)'
    BY <1>0, <1>4, <2>3, PublishKeeps
  <2>5. /\ LaunchShaped(kernel)' /\ Running' = Running
        /\ \A d \in Running : CtaInv(d)'
        /\ \A d \in CTAs \ Running : Idle(d)'
        /\ Early' <=> Early
    BY <1>0, <2>4, WorksOnInv
  <2> QED BY <1>0, <2>2, <2>3, <2>4, <2>5 DEF KernelInv, CTAs
<1>5. CASE InBarrier(c)
  <2>1. UNCHANGED <<kernelVars, grid, passed>> /\ \A d \in Running : CtaInv(d)'
    BY <1>0, <1>5, InBarrierKeeps
  <2>2. UNCHANGED <<kernel, grid, at, todo, step, acc, locks>>
    BY <2>1 DEF kernelVars
  <2>3. /\ Running' = Running /\ \A i : Level(i)' = Level(i)
        /\ \A p : GemmAt(p)' = GemmAt(p)
    BY <2>2, LaunchKept
  <2>4. LaunchShaped(kernel)' /\ FusedTypeOK' /\ (Early' <=> Early)
    BY <1>0, <2>2, <2>3 DEF LaunchShaped, FusedTypeOK, Early
  <2>5. \A d : Segment(d)' = Segment(d) /\ (Idle(d) => Idle(d)') /\ (PublishInv(d) => PublishInv(d)')
    BY <2>2 DEF Segment, Idle, PublishInv
  <2>6. \A p, d, t : Pending(p, d, t)' <=> Pending(p, d, t)
    BY <2>2, <2>3, <2>5 DEF Pending
  <2>7. \A p \in Gemms : LockInv(p) => LockInv(p)'
    BY <1>0, <2>2, <2>6, LocksKept
  <2> QED BY <1>0, <2>1, <2>3, <2>4, <2>5, <2>7 DEF KernelInv, CTAs, Gemms
<1>6. CASE LeaveBarrier(c)
  <2>1. /\ MovesOn(c) /\ Level(at[c] + 1) = Level(at[c]) + 1
        /\ \A d \in Running \ {c} : Level(at[d]) = Level(at[c]) => bar[d] = "spin"
    BY <1>0, <1>6, LeaveMovesOn
  <2>2. /\ FusedTypeOK' /\ LaunchShaped(kernel)' /\ UNCHANGED <<kernel, grid, locks>>
        /\ \A d \in Running : CtaInv(d)' /\ PublishInv(d)'
        /\ \A d \in CTAs \ Running : Idle(d)'
        /\ \A p \in Gemms : \A t \in SharedTiles(p) : \A d \in FirstOf(p, t)..LastOf(p, t) :
              Pending(p, d, t)' <=> Pending(p, d, t)
    BY <1>0, <2>1, MovesOnInv
  <2>3. Running' = Running /\ \A i : Level(i)' = Level(i)
    BY <2>2, LaunchKept
  <2>4. \A p \in Gemms : LockInv(p) => LockInv(p)'
    BY <1>0, <2>2, LocksKept
  <2>5. \A d \in Running : at'[d] = IF d = c THEN at[c] + 1 ELSE at[d]
    BY <1>1, <2>1 DEF MovesOn, FusedTypeOK
  <2>6. ~Early'
    <3>1. Level(at'[c]) # 0
      <4>1. Level(at[c]) \in Nat
        BY DEF Level
      <4> QED BY <2>1, <2>5, <4>1
    <3> QED BY <2>3, <3>1 DEF Early
  <2>7. LockInv("fc2")'
    <3>1. CASE ~Early
      BY <1>0, <2>4, <3>1 DEF Gemms
    <3>2. CASE Early
      <4>1. \A d \in Running : Level(at[d]) = 0
        BY <3>2 DEF Early
      <4>2. \A d \in Running : Phase(d) = "barrier"
        <5>1. Phase(c) = "barrier"
          BY <1>6 DEF LeaveBarrier
        <5>2. \A d \in Running \ {c} : bar[d] # "out"
          BY <2>1, <4>1
        <5> QED BY <1>0, <5>1, <5>2 DEF CtaInv
      <4>3. \A d \in Running : at[d] = GemmAt("fc1") + 1 /\ at[d] + 1 < GemmAt("fc2")
        <5> TAKE d \in Running
        <5>1. at[d] \in Barriers
          <6>1. at[d] \in 0..ExitAt
            BY <1>0, CtaPlace
          <6> QED BY <1>1, <4>2, <6>1, PlacesAre
        <5>2. at[d] = (IF kernel.mode = "packed" THEN 2 ELSE 3)
          BY <4>1, <5>1 DEF Barriers, Level
        <5> QED BY <5>2 DEF GemmAt
      <4>4. \A s \in LockSlots : locks[s] = 0
        <5>1. ASSUME NEW t \in SharedTiles("fc1"), NEW d \in FirstOf("fc1", t)..LastOf("fc1", t)
              PROVE  ~Pending("fc1", d, t)
          <6>1. FirstOf("fc1", t) \in Running /\ LastOf("fc1", t) \in Running
            BY <1>0, <1>1, HoldersInGrid DEF SharedTiles, Gemms
          <6>2. d \in Running
            BY <1>1, <6>1 DEF Running
          <6>3. GemmAt("fc1") \in Int
            BY DEF GemmAt
          <6> QED BY <4>3, <6>2, <6>3 DEF Pending
        <5> QED BY <1>0, <3>2, <5>1, LocksFree DEF Gemms
      <4>5. ASSUME NEW t \in SharedTiles("fc2"), NEW d \in FirstOf("fc2", t)..LastOf("fc2", t)
            PROVE  Pending("fc2", d, t)
        <5>1. FirstOf("fc2", t) \in Running /\ LastOf("fc2", t) \in Running
          BY <1>0, <1>1, HoldersInGrid DEF SharedTiles, Gemms
        <5>2. d \in Running
          BY <1>1, <5>1 DEF Running
        <5>3. at[d] < GemmAt("fc2")
          BY <4>3, <5>2 DEF GemmAt
        <5> QED BY <5>3 DEF Pending
      <4>6. \A d \in Running : at[d] < GemmAt("fc2")
        BY <4>3 DEF GemmAt
      <4>7. LockInv("fc2")
        BY <1>0, <4>4, <4>6, LocksStart DEF Gemms
      <4> QED BY <2>4, <4>7 DEF Gemms
    <3> QED BY <3>1, <3>2
  <2> QED BY <1>0, <2>2, <2>3, <2>6, <2>7 DEF KernelInv, CTAs
<1> QED BY <1>2, <1>3, <1>4, <1>5, <1>6 DEF Cta

\* Once everybody is through, nothing is left of the launch.
LEMMA KernelDoneQuiet ==
  ASSUME BarrierTypeOK, BarrierInv, KernelInv, KernelDone
  PROVE  Quiet
<1>0. /\ LaunchShaped(kernel) /\ grid \in 1..MaxGrid
      /\ \A d \in Running : CtaInv(d)
      /\ \A d \in CTAs \ Running : Idle(d)
      /\ ~Early => LockInv("fc2")
  BY DEF KernelInv, BarrierTypeOK
<1>1. ASSUME NEW d \in Running PROVE at[d] = ExitAt /\ Idle(d) /\ bar[d] = "out"
  <2>1. Phase(d) = "exit"
    BY DEF KernelDone
  <2>2. /\ kernel.mode \in Modes /\ at[d] \in 0..ExitAt /\ ~InGemm(d)
        /\ ~InGemm(d) => todo[d] = {}
        /\ todo[d] = {} => step[d] = "tile" /\ acc[d] = {}
        /\ Phase(d) # "barrier" => bar[d] = "out"
    BY <1>0, <2>1, CtaPlace DEF InGemm
  <2> QED BY <2>1, <2>2, PlacesAre DEF Idle
<1>2. 0 \in Running
  BY <1>0 DEF Running
<1>3. ~Early
  BY <1>1, <1>2 DEF Early, Level, ExitAt
<1>4. ASSUME NEW t \in SharedTiles("fc2"), NEW d \in FirstOf("fc2", t)..LastOf("fc2", t)
      PROVE  ~Pending("fc2", d, t)
  <2>1. FirstOf("fc2", t) \in Running /\ LastOf("fc2", t) \in Running
    BY <1>0, HoldersInGrid DEF SharedTiles, Gemms
  <2>2. d \in Running
    BY <1>0, <2>1 DEF Running
  <2>3. at[d] = ExitAt
    BY <1>1, <2>2
  <2> QED BY <2>3 DEF Pending, ExitAt, GemmAt
<1>5. \A s \in LockSlots : locks[s] = 0
  BY <1>0, <1>3, <1>4, LocksFree DEF Gemms
<1>6. \A d \in CTAs \ Running : bar[d] = "out"
  BY DEF BarrierInv
<1> QED BY <1>0, <1>1, <1>5, <1>6 DEF Quiet

FusedInv ==
  /\ FusedTypeOK
  /\ stage \in {"idle", "pack", "kernel", "sum", "returned"}
  /\ stage = "pack" => expertMap = TierMap[tier] /\ pack # "idle"
  /\ shape \in Shapes /\ tier \in {"a", "b"}
  /\ IF stage = "kernel" THEN KernelInv ELSE Quiet

\* The grid of a launch is one the workspace is made for.
LEMMA GridIsSound ==
  ASSUME NEW k, k.tokens \in 1..MaxTokens, k.n1 \in Nat \ {0}
  PROVE  GridOf(k) \in 1..MaxGrid
<1> DEFINE n == k.tokens * TopK
           F == k.tokens * TopK * k.n1
           waves == (F + MaxGrid - 1) \div MaxGrid
<1>1. /\ MaxGrid \in Nat \ {0} /\ TopK \in Nat \ {0} /\ MaxTokens \in Nat
      /\ k.tokens \in Nat \ {0}
  BY GridAssumption, FusedAssumption
<1>2. n \in Nat \ {0}
  <2>1. 1 * TopK <= n /\ n \in Nat
    BY <1>1, ProductMonotone, 1 <= k.tokens
  <2> HIDE DEF n
  <2> QED BY <1>1, <2>1
<1>3. F \in Nat \ {0}
  <2> HIDE DEF n
  <2>1. 1 * k.n1 <= n * k.n1 /\ n * k.n1 \in Nat
    BY <1>2, ProductMonotone
  <2>2. F = n * k.n1
    BY DEF n
  <2> HIDE DEF F
  <2> QED BY <2>1, <2>2
<1> HIDE DEF n, F
<1>4. waves \in Nat /\ F <= waves * MaxGrid /\ waves * MaxGrid \in Nat
  <2>1. \A a \in Nat : waves \in Nat /\ (waves <= a <=> F <= a * MaxGrid)
    BY <1>1, <1>3, RoundedUpIs
  <2>2. waves \in Nat
    BY <2>1
  <2> QED BY <1>1, <2>1, <2>2, ProductMonotone
<1>5. waves \in 1..F
  <2>1. \A a \in Nat : waves <= a <=> F <= a * MaxGrid
    BY <1>1, <1>3, RoundedUpIs
  <2>2. F <= F * MaxGrid
    <3>1. 1 * F <= MaxGrid * F
      BY <1>1, <1>3, ProductMonotone
    <3> QED BY <1>1, <1>3, <3>1
  <2>3. ~(F <= 0 * MaxGrid)
    BY <1>1, <1>3
  <2>4. waves <= F /\ ~(waves <= 0)
    BY <1>3, <2>1, <2>2, <2>3
  <2> HIDE DEF waves
  <2> QED BY <1>3, <1>4, <2>4
<1> HIDE DEF waves
<1>6. F \div waves \in 1..MaxGrid
  <2>1. waves \in Nat \ {0}
    BY <1>3, <1>5
  <2>2. \A a \in Nat : F \div waves \in Nat /\ (a <= F \div waves <=> a * waves <= F)
    BY <1>3, <2>1, QuotientIs
  <2>3. 1 * waves <= F
    BY <1>3, <1>5
  <2>4. ~((MaxGrid + 1) * waves <= F)
    <3> DEFINE w == waves * MaxGrid
    <3>1. (MaxGrid + 1) * waves = w + waves /\ w \in Nat /\ F <= w
      BY <1>1, <1>4, <2>1
    <3> HIDE DEF w
    <3>2. ~(w + waves <= F)
      BY <1>3, <2>1, <3>1
    <3> QED BY <3>1, <3>2
  <2>5. 1 <= F \div waves /\ ~(MaxGrid + 1 <= F \div waves) /\ F \div waves \in Nat
    <3>1. 1 \in Nat /\ MaxGrid + 1 \in Nat
      BY <1>1
    <3> QED BY <2>2, <2>3, <2>4, <3>1
  <2> DEFINE q == F \div waves
  <2>6. 1 <= q /\ ~(MaxGrid + 1 <= q) /\ q \in Nat
    BY <2>5
  <2> HIDE DEF q
  <2>7. q \in 1..MaxGrid
    BY <1>1, <2>6
  <2> QED BY <2>7 DEF q
<1>7. GridOf(k) = IF k.mode = "direct" /\ F % waves = 0 THEN F \div waves ELSE MaxGrid
  BY DEF GridOf, F, waves
<1>8. MaxGrid \in 1..MaxGrid
  BY <1>1
<1> QED BY <1>6, <1>7, <1>8

\* A launch without packing, and one of the packed arrays, as the kernel sees
\* them.
LEMMA LaunchOfTyped ==
  ASSUME shape \in Shapes, NEW mode \in Modes, NEW m8 \in BOOLEAN, NEW m \in 1..MaxTokens,
         NEW local, DOMAIN local = 0..m*TopK-1,
         NEW blocks \in Seq([expert : Int, rows : SUBSET Int])
  PROVE  /\ LaunchShaped(LaunchOf(mode, m8, local, blocks))
         /\ LaunchOf(mode, m8, local, blocks).tokens = m
         /\ Cardinality(DOMAIN local) = m*TopK
<1> DEFINE k == LaunchOf(mode, m8, local, blocks)
<1>1. TopK \in Nat \ {0} /\ MaxTokens \in Nat /\ m \in Nat /\ m * TopK \in Nat
  BY FusedAssumption, ProductMonotone
<1>2. Cardinality(DOMAIN local) = m * TopK
  <2> DEFINE n == m * TopK
  <2>1. n \in Nat
    BY <1>1
  <2> HIDE DEF n
  <2>2. Cardinality(0..n-1) = n
    BY <2>1, FS_Interval, 0 \in Int, n - 1 \in Int
  <2> QED BY <2>2 DEF n
<1>3. (m * TopK) \div TopK = m
  <2>1. (m * TopK + 0) \div TopK = m
    BY <1>1, PartsUnique, 0 \in Nat, 0 < TopK
  <2>2. m * TopK + 0 = m * TopK
    BY <1>1
  <2> QED BY <2>1, <2>2
<1>4. /\ k.mode = mode /\ k.m8 = m8 /\ k.blocks = blocks
      /\ k.tokens = Cardinality(DOMAIN local) \div TopK
      /\ {k.k1, k.n1, k.k2, k.n2} \subseteq Nat \ {0}
  BY CallAssumption DEF LaunchOf
<1>5. k.tokens = m
  BY <1>2, <1>3, <1>4
<1> QED BY <1>2, <1>4, <1>5 DEF LaunchShaped

LEMMA PerRouteTyped ==
  ASSUME NEW m \in Nat, NEW local \in [0..m*TopK-1 -> Int],
         Cardinality(DOMAIN local) = m*TopK
  PROVE  /\ PerRoute(local) \in Seq([expert : Int, rows : SUBSET Int])
         /\ Len(PerRoute(local)) = m*TopK
         /\ \A b \in 1..m*TopK : PerRoute(local)[b] = RouteBlock(local[b-1], b-1)
<1> DEFINE n == m * TopK
           S == [expert : Int, rows : SUBSET Int]
<1>1. n \in Nat
  BY FusedAssumption, ProductMonotone
<1>2. PerRoute(local) = [b \in 1..n |-> RouteBlock(local[b - 1], b - 1)]
  BY DEF PerRoute
<1>3. \A b \in 1..n : b - 1 \in 0..n-1
  <2> HIDE DEF n
  <2> QED BY <1>1
<1>4. \A b \in 1..n : RouteBlock(local[b - 1], b - 1) \in S
  <2> TAKE b \in 1..n
  <2>1. local[b - 1] \in Int
    BY <1>3
  <2>2. {b - 1} \in SUBSET Int
    OBVIOUS
  <2> QED BY <2>1, <2>2 DEF RouteBlock
<1> HIDE DEF n, S
<1>5. PerRoute(local) \in [1..n -> S]
  BY <1>2, <1>4
<1>6. PerRoute(local) \in Seq(S) /\ Len(PerRoute(local)) = n
  BY <1>1, <1>2, <1>5
<1> QED BY <1>2, <1>6 DEF n, S

LEMMA LocalTyped ==
  ASSUME NEW topk \in Routings
  PROVE  \E m \in 1..MaxTokens :
           /\ \A t \in {"a", "b"} : LocalIds(topk, t) \in [0..m*TopK-1 -> Int]
           /\ EitherTier(topk) \in [0..m*TopK-1 -> Int]
<1>1. PICK m \in 1..MaxTokens : topk \in [0..m*TopK-1 -> Ids]
  BY CallAssumption
<1>2. Experts \in Nat /\ Ids \subseteq Int
  BY PackAssumption DEF Ids
<1>3. \A t \in {"a", "b"} : \A x \in Ids : TierMap[t][x] \in Int
  <2> TAKE t \in {"a", "b"}
  <2> TAKE x \in Ids
  <2>1. TierMap[t] \in [Ids -> Ids \cup {-1}]
    <3>1. TierMap \in [{"a", "b"} -> [Ids -> Ids \cup {-1}]]
      BY CallAssumption
    <3> QED BY <3>1
  <2>2. TierMap[t][x] \in Ids \cup {-1}
    BY <2>1
  <2>3. \A y \in Ids \cup {-1} : y \in Int
    BY <1>2
  <2> QED BY <2>2, <2>3
<1>4. \A t \in {"a", "b"} : LocalIds(topk, t) \in [0..m*TopK-1 -> Int]
  BY <1>1, <1>3 DEF LocalIds
<1>5. EitherTier(topk) \in [0..m*TopK-1 -> Int]
  <2>1. \A r \in 0..m*TopK-1 : /\ TierMap["a"][topk[r]] \in Int
                               /\ Experts + TierMap["b"][topk[r]] \in Int
    <3> TAKE r \in 0..m*TopK-1
    <3>1. topk[r] \in Ids
      BY <1>1
    <3>2. TierMap["a"][topk[r]] \in Int /\ TierMap["b"][topk[r]] \in Int
      BY <1>3, <3>1
    <3> QED BY <1>2, <3>2
  <2> QED BY <1>1, <2>1 DEF EitherTier
<1> QED BY <1>4, <1>5

LEMMA PackedLaunchTyped ==
  ASSUME PackInv, pack = "packed", tier \in {"a", "b"}
  PROVE  /\ [b \in 1..RouteBlocks |-> [expert |-> blockOf[b - 1], rows |-> BlockRows(b - 1)]]
              \in Seq([expert : Int, rows : SUBSET Int])
         /\ \E m \in 1..MaxTokens :
              Live = m*TopK /\ LocalIds(ids, tier) \in [0..m*TopK-1 -> Int]
<1> DEFINE S == [expert : Int, rows : SUBSET Int]
           f == [b \in 1..RouteBlocks |-> [expert |-> blockOf[b - 1], rows |-> BlockRows(b - 1)]]
<1>0. Ids \subseteq Int /\ Experts \in Nat
  BY PackAssumption DEF Ids
<1>1. /\ PackTyped /\ RouteBlocks \in Nat
      /\ \A b \in 0..RouteBlocks-1 : blockOf[b] \in Ids /\ BlockRows(b) \subseteq Mapped
  BY PackedBlocks
<1>2. Mapped \subseteq Int /\ \E m \in 1..MaxTokens : Live = m * TopK /\ ids \in [0..Live-1 -> Ids]
  <2>1. Mapped \subseteq 0..Live-1 /\ Live \in Int
    BY <1>1, LiveFacts
  <2>2. \E m \in 1..MaxTokens : Live = m * TopK /\ ids \in [0..Live-1 -> Ids]
    BY <1>1, LiveFacts
  <2> QED BY <2>1, <2>2
<1>3. ASSUME NEW b \in 1..RouteBlocks
      PROVE  [expert |-> blockOf[b - 1], rows |-> BlockRows(b - 1)] \in S
  <2>1. b - 1 \in 0..RouteBlocks-1
    BY <1>1
  <2>2. blockOf[b - 1] \in Int /\ BlockRows(b - 1) \in SUBSET Int
    BY <1>0, <1>1, <1>2, <2>1
  <2> QED BY <2>2
<1> HIDE DEF S
<1>4. f \in [1..RouteBlocks -> S]
  BY <1>3
<1>5. f \in Seq(S)
  <2> HIDE DEF f
  <2> QED BY <1>1, <1>4
<1>6. PICK m \in 1..MaxTokens : Live = m * TopK /\ ids \in [0..m*TopK-1 -> Ids]
  BY <1>2
<1>7. \A x \in Ids : TierMap[tier][x] \in Int
  <2>1. TierMap \in [{"a", "b"} -> [Ids -> Ids \cup {-1}]]
    BY CallAssumption
  <2>2. \A x \in Ids : TierMap[tier][x] \in Ids \cup {-1}
    BY <2>1
  <2>3. \A y \in Ids \cup {-1} : y \in Int
    BY <1>0
  <2> QED BY <2>2, <2>3
<1>8. LocalIds(ids, tier) \in [0..m*TopK-1 -> Int]
  <2> DEFINE R == 0..m*TopK-1
  <2>1. ids \in [R -> Ids]
    BY <1>6
  <2> HIDE DEF R
  <2>2. LocalIds(ids, tier) \in [R -> Int]
    BY <1>7, <2>1 DEF LocalIds
  <2> QED BY <2>2 DEF R
<1> QED BY <1>5, <1>6, <1>8 DEF S

\* Every route with an expert is in one block, and that is its expert's.
LaunchExact(k) ==
  /\ k.local \in [0..k.tokens*TopK-1 -> Int]
  /\ \A b \in 1..Len(k.blocks) : k.blocks[b].expert >= 0 =>
       \A r \in k.blocks[b].rows :
          r \in 0..k.tokens*TopK-1 /\ k.local[r] = k.blocks[b].expert
  /\ \A r \in 0..k.tokens*TopK-1 : k.local[r] >= 0 =>
       \E b \in 1..Len(k.blocks) : k.blocks[b].expert >= 0 /\ r \in k.blocks[b].rows
  /\ \A a, b \in 1..Len(k.blocks) :
       /\ k.blocks[a].expert >= 0 /\ k.blocks[b].expert >= 0
       /\ k.blocks[a].rows \cap k.blocks[b].rows # {}
       => a = b

LEMMA PerRouteExact ==
  ASSUME NEW k, NEW n \in Nat, n = k.tokens*TopK,
         k.local \in [0..n-1 -> Int], Len(k.blocks) = n,
         \A b \in 1..n : k.blocks[b] = RouteBlock(k.local[b-1], b-1)
  PROVE  LaunchExact(k)
<1>1. ASSUME NEW b \in 1..n
      PROVE  b-1 \in 0..n-1 /\ k.blocks[b].expert = k.local[b-1] /\ k.blocks[b].rows = {b-1}
  <2>1. k.blocks[b] = RouteBlock(k.local[b-1], b-1) /\ b-1 \in 0..n-1
    OBVIOUS
  <2> QED BY <2>1 DEF RouteBlock
<1>2. ASSUME NEW r \in 0..n-1 PROVE r+1 \in 1..n /\ (r+1)-1 = r
  OBVIOUS
<1>3. ASSUME NEW r \in 0..n-1, k.local[r] >= 0
      PROVE  \E b \in 1..n : k.blocks[b].expert >= 0 /\ r \in k.blocks[b].rows
  <2>1. r+1 \in 1..n /\ (r+1)-1 = r
    BY <1>2
  <2>2. k.blocks[r+1].expert = k.local[(r+1)-1] /\ k.blocks[r+1].rows = {(r+1)-1}
    BY <1>1, <2>1, Zenon
  <2>3. k.blocks[r+1].expert >= 0 /\ r \in k.blocks[r+1].rows
    BY <1>3, <2>1, <2>2
  <2> QED BY <2>1, <2>3, Zenon
<1>4. ASSUME NEW a \in 1..n, NEW b \in 1..n, k.blocks[a].rows \cap k.blocks[b].rows # {}
      PROVE  a = b
  <2>0. k.blocks[a].rows = {a-1} /\ k.blocks[b].rows = {b-1}
    BY <1>1, Zenon
  <2>1. a-1 = b-1
    BY <1>4, <2>0
  <2> QED BY <2>1
<1>5. ASSUME NEW b \in 1..n, NEW r \in k.blocks[b].rows
      PROVE  r \in 0..n-1 /\ k.local[r] = k.blocks[b].expert
  BY <1>1, <1>5
<1>6. k.local \in [0..n-1 -> Int]
  OBVIOUS
<1> QED BY <1>3, <1>4, <1>5, <1>6, Zenon DEF LaunchExact

LEMMA PackedExact ==
  ASSUME PackInv, pack = "packed", tier \in {"a", "b"}, expertMap = TierMap[tier],
         NEW k, k.tokens*TopK = Live, k.local = LocalIds(ids, tier),
         k.local \in [0..Live-1 -> Int],
         k.blocks = [b \in 1..RouteBlocks |-> [expert |-> blockOf[b - 1], rows |-> BlockRows(b - 1)]]
  PROVE  LaunchExact(k)
<1> DEFINE n == RouteBlocks
<1>1. /\ n \in Nat /\ PackTyped
      /\ \A b \in 0..n-1 :
           /\ blockOf[b] \in Ids /\ BlockRows(b) \subseteq Mapped
           /\ \A r \in BlockRows(b) : Resolve(r) = blockOf[b]
      /\ \A r \in Mapped : \E b \in 0..n-1 : r \in BlockRows(b)
      /\ \A a, b \in 0..n-1 : BlockRows(a) \cap BlockRows(b) # {} => a = b
  BY PackedBlocks
<1>2. k.blocks = [b \in 1..n |-> [expert |-> blockOf[b - 1], rows |-> BlockRows(b - 1)]]
  OBVIOUS
<1>3. ids \in [0..Live-1 -> Ids] /\ Mapped \subseteq 0..Live-1 /\ Ids \subseteq Nat
  BY <1>1, LiveFacts, PackAssumption DEF Ids
<1>4. ASSUME NEW r \in 0..Live-1
      PROVE  /\ r \in Mapped <=> k.local[r] >= 0
             /\ r \in Mapped => k.local[r] = Resolve(r)
  <2>1. r \in DOMAIN ids /\ ids[r] \in Ids /\ k.local[r] = TierMap[tier][ids[r]]
    BY <1>3 DEF LocalIds
  <2>2. TierMap[tier][ids[r]] \in Ids \cup {-1}
    <3>1. TierMap \in [{"a", "b"} -> [Ids -> Ids \cup {-1}]]
      BY CallAssumption
    <3> QED BY <2>1, <3>1
  <2>3. Resolve(r) = IF k.local[r] \in Ids THEN k.local[r] ELSE -1
    BY <2>1 DEF Resolve
  <2>4. k.local[r] \in Ids \cup {-1} /\ (k.local[r] \in Ids => k.local[r] >= 0)
    BY <1>3, <2>1, <2>2
  <2>5. r \in Mapped <=> Resolve(r) # -1
    BY <2>1 DEF Mapped
  <2> QED BY <2>3, <2>4, <2>5
<1> HIDE DEF n
<1>5. ASSUME NEW b \in 1..n
      PROVE  /\ b-1 \in 0..n-1
             /\ k.blocks[b].expert = blockOf[b-1] /\ k.blocks[b].rows = BlockRows(b-1)
             /\ k.blocks[b].expert >= 0
  <2>1. b-1 \in 0..n-1
    BY <1>1
  <2>2. blockOf[b-1] \in Nat
    BY <1>1, <1>3, <2>1
  <2>3. k.blocks[b] = [expert |-> blockOf[b - 1], rows |-> BlockRows(b - 1)]
    BY <1>2
  <2>4. k.blocks[b].expert = blockOf[b-1] /\ k.blocks[b].rows = BlockRows(b-1)
    BY <2>3
  <2> QED BY <2>1, <2>2, <2>4
<1>6. Len(k.blocks) = n
  <2>1. DOMAIN k.blocks = 1..n
    BY <1>2, Zenon
  <2>2. k.blocks \in Seq([expert : Int, rows : SUBSET Int])
    BY PackedLaunchTyped
  <2>3. PICK q : q = k.blocks
    OBVIOUS
  <2>4. q \in Seq([expert : Int, rows : SUBSET Int]) /\ DOMAIN q = 1..n
    BY <2>1, <2>2, <2>3
  <2>5. Len(q) = n
    <3> DEFINE S == [expert : Int, rows : SUBSET Int]
    <3>1. q \in Seq(S)
      BY <2>4
    <3> HIDE DEF S
    <3>2. Len(q) \in Nat /\ DOMAIN q = 1..Len(q)
      BY <3>1
    <3>3. 1..Len(q) = 1..n
      BY <2>4, <3>2
    <3>4. PICK m : m = Len(q)
      OBVIOUS
    <3>5. m \in Nat /\ 1..m = 1..n /\ n \in Nat
      BY <1>1, <3>2, <3>3, <3>4
    <3>6. ~(m > n)
      <4>1. m > n => m \in 1..m /\ m \notin 1..n
        BY <3>5
      <4> QED BY <3>5, <4>1
    <3>7. ~(n > m)
      <4>1. n > m => n \in 1..n /\ n \notin 1..m
        BY <3>5
      <4> QED BY <3>5, <4>1
    <3> QED BY <3>4, <3>5, <3>6, <3>7
  <2> QED BY <2>3, <2>5
<1>7. ASSUME NEW b \in 1..n, NEW r \in k.blocks[b].rows
      PROVE  r \in 0..Live-1 /\ k.local[r] = k.blocks[b].expert
  <2>1. r \in Mapped /\ Resolve(r) = blockOf[b-1]
    BY <1>1, <1>5, <1>7
  <2> QED BY <1>3, <1>4, <1>5, <2>1
<1>8. ASSUME NEW r \in 0..Live-1, k.local[r] >= 0
      PROVE  \E b \in 1..n : k.blocks[b].expert >= 0 /\ r \in k.blocks[b].rows
  <2>1. PICK b \in 0..n-1 : r \in BlockRows(b)
    BY <1>1, <1>4, <1>8
  <2>2. b+1 \in 1..n /\ (b+1)-1 = b
    BY <1>1
  <2>3. k.blocks[b+1].expert >= 0 /\ k.blocks[b+1].rows = BlockRows((b+1)-1)
    BY <1>5, <2>2, Zenon
  <2>4. r \in k.blocks[b+1].rows
    BY <2>1, <2>2, <2>3
  <2> QED BY <2>2, <2>3, <2>4, Zenon
<1>9. ASSUME NEW a \in 1..n, NEW b \in 1..n, k.blocks[a].rows \cap k.blocks[b].rows # {}
      PROVE  a = b
  <2>1. a-1 = b-1
    BY <1>1, <1>5, <1>9
  <2> QED BY <2>1
<1>10. k.local \in [0..Live-1 -> Int] /\ k.tokens*TopK = Live
  OBVIOUS
<1> QED BY <1>6, <1>7, <1>8, <1>9, <1>10, Zenon DEF LaunchExact

\* Every launch of the layer is one the kernel can run.
LEMMA LaunchesAreShaped ==
  ASSUME FusedInv, PackInv, [MoeNext]_moeVars
  PROVE  \/ /\ stage # "kernel" /\ stage' = "kernel" /\ shape' = shape /\ tier' \in {"a", "b"}
            /\ \E k, g : LaunchShaped(k) /\ LaunchExact(k) /\ g \in 1..MaxGrid /\ Launch(k, g)
         \/ /\ stage = "kernel" /\ UNCHANGED <<packVars, callVars>>
            /\ \E c \in Running : Cta(c)
         \/ KernelEnd
         \/ TopKSum
         \/ /\ UNCHANGED <<barrierVars, kernelVars, shape>> /\ tier' \in {"a", "b"}
            /\ \/ /\ stage \in {"idle", "returned"} /\ stage' = "pack"
                  /\ expertMap' = TierMap[tier'] /\ pack' # "idle"
               \/ /\ stage' = stage /\ tier' = tier
                  /\ stage = "pack" => expertMap' = expertMap /\ pack' # "idle"
<1>0. DOMAIN TierMap = {"a", "b"}
  BY CallAssumption
<1>1. /\ shape \in Shapes /\ tier \in {"a", "b"} /\ {shape.n1} \subseteq Nat \ {0}
  BY CallAssumption DEF FusedInv
<1>2. ASSUME NEW topk \in Routings, NEW t \in {"a", "b"}, NEW local, NEW mode \in {"direct", "hybrid"},
             CallDirect(topk, t, local, mode),
             \E m \in 1..MaxTokens : local \in [0..m*TopK-1 -> Int]
      PROVE  /\ stage # "kernel" /\ stage' = "kernel" /\ shape' = shape /\ tier' \in {"a", "b"}
             /\ \E k, g : LaunchShaped(k) /\ LaunchExact(k) /\ g \in 1..MaxGrid /\ Launch(k, g)
  <2>1. PICK m \in 1..MaxTokens : local \in [0..m*TopK-1 -> Int]
    BY <1>2
  <2>2. m \in Nat /\ MaxTokens \in Nat
    BY FusedAssumption
  <2>3. Cardinality(DOMAIN local) = m*TopK
    <3>1. << >> \in Seq([expert : Int, rows : SUBSET Int])
      OBVIOUS
    <3>2. DOMAIN local = 0..m*TopK-1
      BY <2>1
    <3> QED BY <1>1, <3>1, <3>2, LaunchOfTyped DEF Modes
  <2>4. PerRoute(local) \in Seq([expert : Int, rows : SUBSET Int])
    BY <2>1, <2>2, <2>3, PerRouteTyped
  <2>5. PICK k : k = LaunchOf(mode, TRUE, local, PerRoute(local))
    OBVIOUS
  <2>6. LaunchShaped(k)
    <3>1. DOMAIN local = 0..m*TopK-1 /\ mode \in Modes /\ TRUE \in BOOLEAN
      BY <2>1 DEF Modes
    <3> QED BY <1>1, <2>4, <2>5, <3>1, LaunchOfTyped
  <2>7. GridOf(k) \in 1..MaxGrid
    BY <2>6, GridIsSound DEF LaunchShaped
  <2>8. LaunchExact(k)
    <3>1. /\ k.tokens = m /\ k.local = local /\ k.blocks = PerRoute(local)
      <4>1. DOMAIN local = 0..m*TopK-1 /\ mode \in Modes /\ TRUE \in BOOLEAN
        BY <2>1 DEF Modes
      <4>2. PICK v \in BOOLEAN : v = TRUE
        OBVIOUS
      <4>3. LaunchOf(mode, v, local, PerRoute(local)).tokens = m
        BY <1>1, <2>1, <2>4, <4>1, LaunchOfTyped
      <4>4. k.tokens = m
        BY <2>5, <4>2, <4>3
      <4> QED BY <2>5, <4>4 DEF LaunchOf
    <3>2. PICK n : n = m*TopK
      OBVIOUS
    <3>3. n \in Nat
      BY <2>2, <3>2, FusedAssumption, ProductMonotone
    <3>4. /\ Len(PerRoute(local)) = n
          /\ \A b \in 1..n : PerRoute(local)[b] = RouteBlock(local[b-1], b-1)
      BY <2>1, <2>2, <2>3, <3>2, PerRouteTyped
    <3>5. local \in [0..n-1 -> Int] /\ n = k.tokens*TopK
      BY <2>1, <3>1, <3>2
    <3> QED BY <3>1, <3>3, <3>4, <3>5, PerRouteExact
  <2> QED BY <1>2, <2>5, <2>6, <2>7, <2>8 DEF CallDirect
<1>3. ASSUME NEW topk \in Routings, NEW t \in {"a", "b"}, NEW route \in {"small", "count", "prefix"},
             CallPacked(topk, t, route)
      PROVE  /\ UNCHANGED <<barrierVars, kernelVars, shape>> /\ tier' \in {"a", "b"}
             /\ stage \in {"idle", "returned"} /\ stage' = "pack"
             /\ expertMap' = TierMap[tier'] /\ pack' # "idle"
  BY <1>3 DEF CallPacked, PackCall
<1>4. ASSUME Call
      PROVE  \/ /\ stage # "kernel" /\ stage' = "kernel" /\ shape' = shape /\ tier' \in {"a", "b"}
                /\ \E k, g : LaunchShaped(k) /\ LaunchExact(k) /\ g \in 1..MaxGrid /\ Launch(k, g)
             \/ /\ UNCHANGED <<barrierVars, kernelVars, shape>> /\ tier' \in {"a", "b"}
                /\ stage \in {"idle", "returned"} /\ stage' = "pack"
                /\ expertMap' = TierMap[tier'] /\ pack' # "idle"
  <2>1. ASSUME NEW topk \in Routings, NEW t \in {"a", "b"},
               CallDirect(topk, t, LocalIds(topk, t), "direct")
        PROVE  /\ stage # "kernel" /\ stage' = "kernel" /\ shape' = shape /\ tier' \in {"a", "b"}
               /\ \E k, g : LaunchShaped(k) /\ LaunchExact(k) /\ g \in 1..MaxGrid /\ Launch(k, g)
    <3>1. \E m \in 1..MaxTokens : LocalIds(topk, t) \in [0..m*TopK-1 -> Int]
      BY LocalTyped
    <3> QED BY <1>2, <2>1, <3>1
  <2>2. ASSUME NEW topk \in Routings, CallDirect(topk, tier, EitherTier(topk), "hybrid")
        PROVE  /\ stage # "kernel" /\ stage' = "kernel" /\ shape' = shape /\ tier' \in {"a", "b"}
               /\ \E k, g : LaunchShaped(k) /\ LaunchExact(k) /\ g \in 1..MaxGrid /\ Launch(k, g)
    <3>1. \E m \in 1..MaxTokens : EitherTier(topk) \in [0..m*TopK-1 -> Int]
      BY LocalTyped
    <3>2. PICK t : t = tier
      OBVIOUS
    <3> QED BY <1>1, <1>2, <2>2, <3>1, <3>2
  <2> QED BY <1>0, <1>3, <1>4, <2>1, <2>2 DEF Call
<1>5. ASSUME NEW m8 \in BOOLEAN, LaunchPacked(m8)
      PROVE  /\ stage # "kernel" /\ stage' = "kernel" /\ shape' = shape /\ tier' \in {"a", "b"}
             /\ \E k, g : LaunchShaped(k) /\ LaunchExact(k) /\ g \in 1..MaxGrid /\ Launch(k, g)
  <2>0. PICK blocks, local :
          /\ blocks = [b \in 1..RouteBlocks |-> [expert |-> blockOf[b - 1], rows |-> BlockRows(b - 1)]]
          /\ local = LocalIds(ids, tier)
    OBVIOUS
  <2>1. /\ blocks \in Seq([expert : Int, rows : SUBSET Int])
        /\ \E m \in 1..MaxTokens : local \in [0..m*TopK-1 -> Int]
    BY <1>1, <1>5, <2>0, PackedLaunchTyped DEF LaunchPacked
  <2>2. PICK k : k = LaunchOf("packed", m8, local, blocks)
    OBVIOUS
  <2>3. LaunchShaped(k)
    <3>1. PICK m \in 1..MaxTokens : local \in [0..m*TopK-1 -> Int]
      BY <2>1
    <3>2. DOMAIN local = 0..m*TopK-1 /\ "packed" \in Modes
      BY <3>1 DEF Modes
    <3> QED BY <1>1, <2>1, <2>2, <3>2, LaunchOfTyped
  <2>4. GridOf(k) \in 1..MaxGrid
    BY <2>3, GridIsSound DEF LaunchShaped
  <2>5. Launch(k, GridOf(k))
    BY <1>5, <2>0, <2>2 DEF LaunchPacked
  <2>6. LaunchExact(k)
    <3>1. /\ PackInv /\ pack = "packed" /\ tier \in {"a", "b"}
          /\ stage = "pack" /\ expertMap = TierMap[tier]
      BY <1>5 DEF LaunchPacked, FusedInv
    <3>2. PICK m \in 1..MaxTokens : Live = m*TopK /\ local \in [0..m*TopK-1 -> Int]
      BY <2>0, <3>1, PackedLaunchTyped
    <3>3. k.tokens = m /\ k.local = local /\ k.blocks = blocks
      <4>1. DOMAIN local = 0..m*TopK-1 /\ "packed" \in Modes
        BY <3>2 DEF Modes
      <4>2. k.tokens = m
        BY <1>1, <2>1, <2>2, <4>1, LaunchOfTyped
      <4> QED BY <2>2, <4>2 DEF LaunchOf
    <3>4. k.tokens*TopK = Live /\ k.local \in [0..Live-1 -> Int]
      BY <3>2, <3>3
    <3> QED BY <2>0, <3>1, <3>3, <3>4, PackedExact
  <2> QED BY <1>1, <1>5, <2>3, <2>4, <2>5, <2>6 DEF LaunchPacked
<1>6. ASSUME PackStep
      PROVE  /\ UNCHANGED <<barrierVars, kernelVars, shape>> /\ tier' \in {"a", "b"}
             /\ stage' = stage /\ tier' = tier /\ expertMap' = expertMap /\ pack' # "idle"
  <2>1. PackKernel /\ UNCHANGED <<barrierVars, kernelVars, callVars>> /\ pack # "idle"
    BY <1>6 DEF PackStep, FusedInv
  <2>2. expertMap' = expertMap /\ pack' # "idle"
    BY <2>1 DEF PackKernel, SmallPrefix, Count, PrefixFromCounts, PrefixCaptured, PostPrefix,
                SortRoute, SortEnd, ToSort
  <2> QED BY <1>1, <2>1, <2>2 DEF callVars
<1>7. ASSUME UNCHANGED moeVars
      PROVE  /\ UNCHANGED <<barrierVars, kernelVars, shape>> /\ tier' \in {"a", "b"}
             /\ stage' = stage /\ tier' = tier
             /\ (stage = "pack" => expertMap' = expertMap /\ pack' # "idle")
  BY <1>1, <1>7 DEF moeVars, callVars, packVars, FusedInv
<1>8. ASSUME NEW c \in Running, KernelStep(c)
      PROVE  stage = "kernel" /\ UNCHANGED <<packVars, callVars>> /\ Cta(c)
  BY <1>8 DEF KernelStep
<1>9. CASE Work
  BY <1>5, <1>6, <1>8, <1>9 DEF Work
<1>10. CASE Exhausted \/ UNCHANGED moeVars
  BY <1>7, <1>10 DEF Exhausted
<1> QED BY <1>4, <1>9, <1>10 DEF MoeNext

LEMMA CtaBarrierStep ==
  ASSUME NEW c \in Running, Cta(c)
  PROVE  [BarrierNext]_barrierVars
<1>1. CASE InBarrier(c) \/ LeaveBarrier(c)
  BY <1>1 DEF InBarrier, LeaveBarrier, BarrierNext, BarrierStep
<1>2. CASE ~(InBarrier(c) \/ LeaveBarrier(c))
  <2>1. UNCHANGED barrierVars
    BY <1>2 DEF Cta, Start, ZeroOutput, Activate, ClearFc2, RunTile, Combine, Publish,
                StoreTile, EndGemm
  <2> QED BY <2>1
<1> QED BY <1>1, <1>2

LEMMA MoeBarrierStep ==
  FusedInv /\ PackInv /\ [MoeNext]_moeVars => [BarrierNext]_barrierVars
<1> SUFFICES ASSUME FusedInv, PackInv, [MoeNext]_moeVars PROVE [BarrierNext]_barrierVars
  OBVIOUS
<1>1. CASE \E k, g : LaunchShaped(k) /\ g \in 1..MaxGrid /\ Launch(k, g)
  BY <1>1 DEF Launch, BarrierNext
<1>2. CASE \E c \in Running : Cta(c)
  BY <1>2, CtaBarrierStep
<1>3. CASE UNCHANGED barrierVars
  BY <1>3
<1> QED BY <1>1, <1>2, <1>3, LaunchesAreShaped DEF KernelEnd, TopKSum

LEMMA RangeInside ==
  ASSUME NEW m \in Int, NEW n \in Int, m <= n
  PROVE  0..m-1 \subseteq 0..n-1
  OBVIOUS

\* A launch finds the workspace quiet.
LEMMA LaunchInv ==
  ASSUME BarrierTypeOK, BarrierTypeOK', FusedTypeOK, Quiet, NEW k, NEW g, Launch(k, g), LaunchShaped(k)
  PROVE  FusedTypeOK' /\ KernelInv'
<1>1. /\ kernel' = k /\ at' = [c \in CTAs |-> 0] /\ passed' = [c \in CTAs |-> sense]
      /\ bar' = bar /\ UNCHANGED <<todo, step, acc, locks>>
  BY DEF Launch, Relaunch
<1>2. /\ \A c \in CTAs : bar[c] = "out" /\ todo[c] = {} /\ step[c] = "tile" /\ acc[c] = {}
      /\ \A s \in LockSlots : locks[s] = 0
  BY DEF Quiet, Idle
<1>3. FusedTypeOK' /\ LaunchShaped(kernel)'
  BY <1>1 DEF FusedTypeOK, LaunchShaped
<1>4. Running' \subseteq CTAs
  <2>1. grid' \in Int /\ MaxGrid \in Int /\ grid' <= MaxGrid
    BY GridAssumption DEF BarrierTypeOK
  <2>2. PICK h \in Int : h = grid' /\ h <= MaxGrid
    BY <2>1
  <2>3. 0..h-1 \subseteq 0..MaxGrid-1
    BY <2>1, <2>2, RangeInside
  <2> QED BY <2>2, <2>3 DEF Running, CTAs
<1>5. ASSUME NEW c \in Running' PROVE CtaInv(c)' /\ PublishInv(c)'
  <2>0. c \in CTAs
    BY <1>4
  <2>1. at'[c] = 0 /\ bar'[c] = "out" /\ todo'[c] = {} /\ step'[c] = "tile" /\ acc'[c] = {}
    BY <1>1, <1>2, <2>0
  <2>2. (\A d \in Running : passed[c] - Level(at[c]) = passed[d] - Level(at[d]))'
    <3>1. \A d \in Running' : passed'[d] = passed'[c] /\ at'[d] = at'[c]
      BY <1>1, <1>4, <2>0
    <3> QED BY <3>1 DEF Level
  <2>3. (at[c] \in 0..Len(Phases))'
    <3>1. Len(Phases)' \in Nat
      BY DEF Phases
    <3> QED BY <2>1, <3>1
  <2> QED BY <2>1, <2>2, <2>3 DEF CtaInv, PublishInv
<1>6. \A c \in CTAs : Idle(c)'
  BY <1>1, <1>2 DEF Idle
<1>7. Early'
  BY <1>1, <1>4 DEF Early, Level
<1>8. LockInv("fc1")'
  <2>1. \A p \in Gemms : \A c \in Running' : at'[c] < GemmAt(p)'
    BY <1>1, <1>4 DEF GemmAt
  <2>2. LocksSet'
    BY <1>1, <1>2, <1>3, <2>1 DEF LocksSet, LockSlots, Gemms
  <2>3. LocksSet' => (\A p \in Gemms : LockInv(p))'
    BY LocksSetStart, PTL
  <2> QED BY <2>2, <2>3 DEF Gemms
<1> QED BY <1>3, <1>5, <1>6, <1>7, <1>8 DEF KernelInv, CTAs

LEMMA KernelInvKept ==
  ASSUME BarrierTypeOK, KernelInv, UNCHANGED <<barrierVars, kernelVars>>
  PROVE  KernelInv'
<1>1. UNCHANGED <<kernel, grid, bar, passed, at, todo, step, acc, locks>>
  BY DEF barrierVars, kernelVars
<1>2. /\ Running' = Running /\ Phases' = Phases
      /\ \A p, d : Segments(p, d)' = Segments(p, d)
      /\ \A i : Level(i)' = Level(i)
      /\ \A p : GemmAt(p)' = GemmAt(p)
  BY <1>1, LaunchKept
<1>3. \A d : Phase(d)' = Phase(d) /\ Segment(d)' = Segment(d)
  BY <1>1, <1>2 DEF Phase, Segment
<1>4. \A d : InGemm(d)' = InGemm(d)
  BY <1>3 DEF InGemm
<1>5. ASSUME NEW d, CtaInv(d) PROVE CtaInv(d)'
  <2>1. Len(Phases)' = Len(Phases) /\ Segments(Phase(d), d)' = Segments(Phase(d), d)
    BY <1>2, <1>3
  <2>2. (\A x \in Running : passed[d] - Level(at[d]) = passed[x] - Level(at[x]))'
    BY <1>1, <1>2, <1>5 DEF CtaInv
  <2>3. (todo[d] \subseteq IF InGemm(d) THEN Segments(Phase(d), d) ELSE {})'
    BY <1>1, <1>4, <1>5, <2>1 DEF CtaInv
  <2> QED BY <1>1, <1>3, <1>5, <2>1, <2>2, <2>3 DEF CtaInv
<1>6. \A d : (PublishInv(d) => PublishInv(d)') /\ (Idle(d) => Idle(d)')
  BY <1>1, <1>3 DEF PublishInv, Idle
<1>7. \A p, d, t : Pending(p, d, t)' <=> Pending(p, d, t)
  BY <1>1, <1>2, <1>3 DEF Pending
<1>8. \A p \in Gemms : LockInv(p) => LockInv(p)'
  BY <1>1, <1>7, LocksKept DEF KernelInv
<1>9. Early' <=> Early
  BY <1>1, <1>2 DEF Early
<1>10. LaunchShaped(kernel)'
  BY <1>1 DEF LaunchShaped, KernelInv
<1> QED BY <1>2, <1>5, <1>6, <1>8, <1>9, <1>10 DEF KernelInv, CTAs, Gemms

LEMMA FusedInvInit == MoeInit => FusedInv
  BY DEF MoeInit, FusedInv, FusedTypeOK, BarrierInit, KernelInit, Quiet, Idle

LEMMA FusedInvStep ==
  BarrierTypeOK /\ BarrierTypeOK' /\ BarrierInv /\ PackInv /\ FusedInv /\ [MoeNext]_moeVars
    => FusedInv'
<1> SUFFICES ASSUME BarrierTypeOK, BarrierTypeOK', BarrierInv, PackInv, FusedInv, [MoeNext]_moeVars
             PROVE  FusedInv'
  OBVIOUS
<1>1. ASSUME stage # "kernel", stage' = "kernel", shape' = shape, tier' \in {"a", "b"},
             NEW k, NEW g, LaunchShaped(k), LaunchExact(k), g \in 1..MaxGrid, Launch(k, g)
      PROVE  FusedInv'
  <2>1. FusedTypeOK' /\ KernelInv'
    BY <1>1, LaunchInv DEF FusedInv
  <2> QED BY <1>1, <2>1 DEF FusedInv
<1>2. ASSUME stage = "kernel", UNCHANGED <<packVars, callVars>>, NEW c \in Running, Cta(c)
      PROVE  FusedInv'
  <2>1. FusedTypeOK' /\ KernelInv'
    BY <1>2, KernelStepInv DEF FusedInv
  <2> QED BY <1>2, <2>1 DEF FusedInv, callVars
<1>3. ASSUME UNCHANGED <<barrierVars, kernelVars>>, Quiet PROVE Quiet' /\ (FusedTypeOK => FusedTypeOK')
  BY <1>3 DEF Quiet, Idle, FusedTypeOK, barrierVars, kernelVars
<1>4. CASE KernelEnd
  <2>1. Quiet
    BY <1>4, KernelDoneQuiet DEF KernelEnd, FusedInv
  <2> QED BY <1>3, <1>4, <2>1 DEF KernelEnd, FusedInv
<1>5. CASE TopKSum
  <2>1. UNCHANGED <<barrierVars, at, todo, step, acc, locks, shape, tier>> /\ stage' = "returned" /\ stage = "sum"
    BY <1>5 DEF TopKSum
  <2>2. Quiet' /\ FusedTypeOK'
    BY <2>1 DEF FusedInv, Quiet, Idle, FusedTypeOK, barrierVars
  <2> QED BY <2>1, <2>2 DEF FusedInv
<1>6. ASSUME UNCHANGED <<barrierVars, kernelVars, shape>>, tier' \in {"a", "b"},
             stage \in {"idle", "returned"}, stage' = "pack",
             expertMap' = TierMap[tier'], pack' # "idle"
      PROVE  FusedInv'
  BY <1>3, <1>6 DEF FusedInv
<1>7. ASSUME UNCHANGED <<barrierVars, kernelVars, shape>>, stage' = stage, tier' = tier,
             stage = "pack" => expertMap' = expertMap /\ pack' # "idle"
      PROVE  FusedInv'
  <2>1. FusedTypeOK' /\ (Quiet => Quiet')
    BY <1>3, <1>7 DEF FusedInv, FusedTypeOK, kernelVars
  <2>2. KernelInv => KernelInv'
    BY <1>7, KernelInvKept
  <2> QED BY <1>7, <2>1, <2>2 DEF FusedInv
<1> QED BY <1>1, <1>2, <1>4, <1>5, <1>6, <1>7, LaunchesAreShaped

LEMMA FusedInvariant == MoeSpec => [](BarrierTypeOK /\ BarrierInv /\ PackInv /\ FusedInv)
<1>1. MoeInit => BarrierTypeOK /\ BarrierInv /\ FusedInv
  BY BarrierTypeInit, BarrierInvInit, FusedInvInit DEF MoeInit
<1>2. BarrierTypeOK /\ BarrierInv /\ PackInv /\ FusedInv /\ [MoeNext]_moeVars
        => BarrierTypeOK' /\ BarrierInv' /\ FusedInv'
  BY MoeBarrierStep, BarrierTypeStep, BarrierInvStep, FusedInvStep
<1> QED BY <1>1, <1>2, PackInvariant, PTL DEF MoeSpec

\* A finished launch leaves no lock held and no arrival counted, whichever
\* CTAs shared its tiles and however the launches before it were cut.
THEOREM WorkspaceIsClean == MoeSpec => []WorkspaceClean
<1>1. BarrierTypeOK /\ BarrierInv /\ FusedInv => WorkspaceClean
  <2> SUFFICES ASSUME BarrierTypeOK, BarrierInv, FusedInv, KernelDone
               PROVE  count = 0 /\ \A s \in LockSlots : locks[s] = 0
    BY DEF WorkspaceClean
  <2>1. Quiet
    BY KernelDoneQuiet DEF FusedInv
  <2>2. Waiters = {} /\ ~Released
    <3>1. \A c \in Running : bar[c] = "out"
      BY <2>1, RunningFinite DEF Quiet
    <3> QED BY <3>1 DEF Waiters, Released
  <2>3. count = 0
    BY <2>2, FS_EmptySet DEF BarrierInv, CounterIsWaiters, Released
  <2> QED BY <2>1, <2>3 DEF Quiet
<1> QED BY <1>1, FusedInvariant, PTL

-----------------------------------------------------------------------------
(* What the buffers of a launch hold.                                      *)

LiveRoutes == {r \in 0..kernel.tokens*TopK-1 : kernel.local[r] >= 0}

\* The cells of tile t, and whether the CTA that stores it has.
CellOf(p, t, x) == LiveTile(p, t) /\ x[1] \in BlockOf(p, t).rows /\ x[2] = ColumnOf(p, t)

TileStored(p, t) ==
  LET c == FirstOf(p, t)
  IN at[c] > GemmAt(p) \/ (at[c] = GemmAt(p) /\ \A s \in todo[c] : s.tile # t)

Stored(p, x) == \E t \in 0..Tiles(p)-1 : CellOf(p, t, x) /\ TileStored(p, t)

StrideOf(columns, x) == (x[1] * columns + x[2]) % grid

\* What the buffers hold of what is stored: FC1's until FC2 goes over it.
DomainInv ==
  LET rows == 0..kernel.tokens*TopK-1
  IN /\ DOMAIN fc1 = rows \X (0..kernel.n1-1)
     /\ DOMAIN act = rows \X (0..kernel.k2-1)
     /\ DOMAIN fc2 = rows \X (0..kernel.n2-1)
     /\ DOMAIN out = (0..kernel.tokens-1) \X (0..kernel.n2-1)

Fc1Inv ==
  (kernel.mode = "packed" => \A c \in Running : at[c] <= 5) =>
     \A x \in DOMAIN fc1 : Stored("fc1", x) => fc1[x] = "good"

ActInv ==
  \A x \in DOMAIN act :
     x[1] \in LiveRoutes /\ at[StrideOf(kernel.k2, x)] > ActAt => act[x] = "good"

Fc2Inv ==
  kernel.mode = "packed" => \A x \in DOMAIN fc2 :
     /\ Stored("fc2", x) => fc2[x] = "good"
     /\ x[1] \notin LiveRoutes /\ at[StrideOf(kernel.n2, x)] > 5 => fc2[x] = "zero"

OutInv ==
  kernel.mode # "packed" => \A x \in DOMAIN out :
     at[StrideOf(kernel.n2, x)] > 1 =>
        out[x] = {r \in LiveRoutes : r \div TopK = x[1] /\ Stored("fc2", <<r, x[2]>>)}

\* What the CTAs of a tile have summed: c's part, and with those after it.
SumInv(c) ==
  LET p == Phase(c)
      t == Segment(c).tile
      own == EdgeAt(p, c, t)..EdgeAt(p, c+1, t)-1
      sum == EdgeAt(p, c, t)..KTiles(p)-1
  IN /\ step[c] = "turn" => acc[c] = own
     /\ step[c] = "publish" => acc[c] = sum
     /\ step[c] = "store" => LastSlice(Segment(c)) /\ acc[c] = 0..KTiles(p)-1

Publishing(p, c, t) == at[c] = GemmAt(p) /\ step[c] = "publish" /\ Segment(c).tile = t

\* What a tile's partial sum holds while some of its CTAs have published.
PartialInv(p, t) ==
  \A n \in Running, from \in FirstOf(p, t)+1..LastOf(p, t) :
     /\ Pending(p, FirstOf(p, t), t)
     /\ n = LastOf(p, t) - locks[LockAt(p, t)]
     /\ from = IF Publishing(p, n, t) THEN n ELSE n + 1
     => tmp[p][LockAt(p, t)] = [tile |-> t, ks |-> EdgeAt(p, from, t)..KTiles(p)-1]

\* The tile of a block and a column, and the routes a tile holds.
LEMMA TileAt ==
  ASSUME LaunchShaped(kernel), NEW p \in Gemms,
         NEW b \in 1..Len(kernel.blocks), NEW n \in 0..NTiles(p)-1
  PROVE  \E t \in 0..Tiles(p)-1 : BlockOf(p, t) = kernel.blocks[b] /\ ColumnOf(p, t) = n
<1>1. Len(kernel.blocks) \in Nat /\ NTiles(p) \in Nat \ {0}
  BY TilesAre
<1> DEFINE N == NTiles(p)
           t == (b - 1) * N + n
<1>2. b - 1 \in 0..Len(kernel.blocks)-1 /\ b - 1 \in Nat /\ n \in Nat /\ n < N
  BY <1>1
<1>3. t \in 0..Len(kernel.blocks) * N - 1
  BY <1>1, <1>2, CellInside
<1>4. t \div N = b - 1 /\ t % N = n
  BY <1>1, <1>2, PartsUnique
<1>5. t \in 0..Tiles(p)-1
  BY <1>3 DEF Tiles
<1> HIDE DEF t
<1>6. (t \div N) + 1 = b
  BY <1>1, <1>4
<1>7. BlockOf(p, t) = kernel.blocks[b] /\ ColumnOf(p, t) = n
  BY <1>4, <1>6 DEF BlockOf, ColumnOf
<1> QED BY <1>5, <1>7

LEMMA CellsAreLive ==
  ASSUME LaunchShaped(kernel), LaunchExact(kernel), NEW p \in Gemms,
         NEW t \in 0..Tiles(p)-1, LiveTile(p, t), NEW r \in BlockOf(p, t).rows
  PROVE  r \in LiveRoutes /\ kernel.local[r] = BlockOf(p, t).expert
<1>1. (t \div NTiles(p)) + 1 \in 1..Len(kernel.blocks)
  BY TilesAre
<1>2. PICK b \in 1..Len(kernel.blocks) : b = (t \div NTiles(p)) + 1
  BY <1>1
<1>3. BlockOf(p, t) = kernel.blocks[b]
  BY <1>2 DEF BlockOf
<1>4. kernel.blocks[b].expert >= 0 /\ r \in kernel.blocks[b].rows
  BY <1>3 DEF LiveTile
<1>5. r \in 0..kernel.tokens*TopK-1 /\ kernel.local[r] = kernel.blocks[b].expert
  BY <1>4, Zenon DEF LaunchExact
<1> QED BY <1>3, <1>4, <1>5 DEF LiveRoutes

LEMMA TilesApart ==
  ASSUME LaunchShaped(kernel), LaunchExact(kernel), NEW p \in Gemms,
         NEW t \in 0..Tiles(p)-1, NEW u \in 0..Tiles(p)-1, NEW x,
         CellOf(p, t, x), CellOf(p, u, x)
  PROVE  t = u
<1>1. /\ (t \div NTiles(p)) + 1 \in 1..Len(kernel.blocks)
      /\ (u \div NTiles(p)) + 1 \in 1..Len(kernel.blocks)
      /\ Len(kernel.blocks) \in Nat /\ NTiles(p) \in Nat \ {0}
  BY TilesAre
<1>2. PICK a \in 1..Len(kernel.blocks), b \in 1..Len(kernel.blocks) :
        a = (t \div NTiles(p)) + 1 /\ b = (u \div NTiles(p)) + 1
  BY <1>1
<1>3. BlockOf(p, t) = kernel.blocks[a] /\ BlockOf(p, u) = kernel.blocks[b]
  BY <1>2 DEF BlockOf
<1>4. /\ kernel.blocks[a].expert >= 0 /\ kernel.blocks[b].expert >= 0
      /\ x[1] \in kernel.blocks[a].rows \cap kernel.blocks[b].rows
      /\ t % NTiles(p) = u % NTiles(p)
  BY <1>3 DEF CellOf, LiveTile, ColumnOf
<1>5. kernel.blocks[a].rows \cap kernel.blocks[b].rows # {}
  BY <1>4
<1>6. a = b
  BY <1>4, <1>5, Zenon DEF LaunchExact
<1> DEFINE N == NTiles(p)
<1>7. /\ t \div N \in Nat /\ t = (t \div N) * N + (t % N)
      /\ u \div N \in Nat /\ u = (u \div N) * N + (u % N)
  <2>1. t \in Nat /\ u \in Nat /\ N \in Nat /\ N > 0
    BY <1>1
  <2> HIDE DEF N
  <2> QED BY <2>1, DivMod
<1>8. t \div N = u \div N
  BY <1>2, <1>6, <1>7
<1> HIDE DEF N
<1> QED BY <1>4, <1>7, <1>8 DEF N

\* A live route's cell is stored once every tile is.
LEMMA LiveIsStored ==
  ASSUME LaunchShaped(kernel), LaunchExact(kernel), NEW p \in Gemms,
         \A t \in 0..Tiles(p)-1 : TileStored(p, t),
         NEW r \in LiveRoutes, NEW n \in 0..NTiles(p)-1
  PROVE  Stored(p, <<r, n>>)
<1>1. r \in 0..kernel.tokens*TopK-1 /\ kernel.local[r] >= 0
  BY DEF LiveRoutes
<1>2. PICK b \in 1..Len(kernel.blocks) : kernel.blocks[b].expert >= 0 /\ r \in kernel.blocks[b].rows
  BY <1>1, Zenon DEF LaunchExact
<1>3. PICK t \in 0..Tiles(p)-1 : BlockOf(p, t) = kernel.blocks[b] /\ ColumnOf(p, t) = n
  BY TileAt
<1>4. CellOf(p, t, <<r, n>>)
  BY <1>2, <1>3 DEF CellOf, LiveTile
<1> QED BY <1>4 DEF Stored

\* Outside the barriers a CTA knows how far the others are: as many barriers
\* as itself, or one less while they wait in it.
LEMMA LevelsApart ==
  ASSUME BarrierTypeOK, BarrierInv, LaunchShaped(kernel), \A e \in Running : CtaInv(e),
         NEW c \in Running, NEW d \in Running, Phase(c) # "barrier"
  PROVE  \/ Level(at[d]) = Level(at[c])
         \/ Level(at[d]) = Level(at[c]) - 1 /\ at[d] \in Barriers
<1>1. bar[c] = "out" /\ CtaInv(c) /\ CtaInv(d)
  BY DEF CtaInv
<1>2. passed[c] = sense /\ sense \in Nat
  BY <1>1 DEF BarrierInv, InStep, BarrierTypeOK
<1>3. InStep(d) /\ passed[c] - Level(at[c]) = passed[d] - Level(at[d])
  BY <1>1 DEF BarrierInv, CtaInv
<1>4. Level(at[d]) \in Nat /\ Level(at[c]) \in Nat
  BY DEF Level
<1>5. CASE bar[d] = "spin"
  <2>1. passed[d] = sense - 1 \/ passed[d] = sense
    BY <1>3, <1>5 DEF InStep
  <2>2. Phase(d) = "barrier"
    BY <1>1, <1>5 DEF CtaInv
  <2>3. at[d] \in Barriers
    BY <1>1, <2>2, CtaPlace, PlacesAre
  <2> QED BY <1>2, <1>3, <1>4, <2>1, <2>3
<1>6. CASE bar[d] # "spin"
  <2>1. passed[d] = sense
    BY <1>3, <1>6 DEF InStep
  <2> QED BY <1>2, <1>3, <1>4, <2>1
<1> QED BY <1>5, <1>6

\* Where the others are when a CTA is at a phase.
LEMMA PlacesApart ==
  ASSUME BarrierTypeOK, BarrierInv, LaunchShaped(kernel), \A e \in Running : CtaInv(e),
         NEW c \in Running, NEW d \in Running, Phase(c) # "barrier"
  PROVE  /\ at[d] \in 0..ExitAt /\ at[c] \in 0..ExitAt /\ kernel.mode \in Modes
         /\ at[c] = GemmAt("fc1") /\ kernel.mode = "packed" => at[d] <= 5
         /\ at[c] = ActAt => at[d] > GemmAt("fc1") /\ (kernel.mode = "packed" => at[d] <= 5)
         /\ at[c] = GemmAt("fc2") => at[d] > ActAt /\ (kernel.mode = "packed" => at[d] > 5)
         /\ at[c] = 5 /\ kernel.mode = "packed" => at[d] < GemmAt("fc2")
         /\ at[c] = 1 /\ kernel.mode # "packed" => at[d] < GemmAt("fc2")
<1>1. CtaInv(c) /\ CtaInv(d)
  OBVIOUS
<1>2. at[c] \in 0..ExitAt /\ at[d] \in 0..ExitAt /\ kernel.mode \in Modes
  BY <1>1, CtaPlace
<1>3. \/ Level(at[d]) = Level(at[c])
      \/ Level(at[d]) = Level(at[c]) - 1 /\ at[d] \in Barriers
  BY LevelsApart
<1>4. PICK i, j : i = at[c] /\ j = at[d]
  OBVIOUS
<1>5. CASE kernel.mode = "packed"
  <2>1. i \in 0..8 /\ j \in 0..8
    BY <1>2, <1>4, <1>5 DEF ExitAt
  <2>2. Level(j) = Level(i) \/ (Level(j) = Level(i) - 1 /\ j \in {2, 4, 6})
    BY <1>3, <1>4, <1>5 DEF Barriers
  <2>3. /\ i = 1 => j <= 5
        /\ i = 3 => j > 1 /\ j <= 5
        /\ i = 7 => j > 5
        /\ i = 5 => j < 7
    BY <1>5, <2>1, <2>2 DEF Level
  <2> QED BY <1>2, <1>4, <1>5, <2>1, <2>3 DEF GemmAt, ActAt
<1>6. CASE kernel.mode # "packed"
  <2>1. i \in 0..7 /\ j \in 0..7
    BY <1>2, <1>4, <1>6 DEF ExitAt
  <2>2. Level(j) = Level(i) \/ (Level(j) = Level(i) - 1 /\ j \in {3, 5})
    BY <1>3, <1>4, <1>6 DEF Barriers
  <2>3. /\ i = 4 => j > 2
        /\ i = 6 => j > 4
        /\ i = 1 => j < 6
    BY <1>6, <2>1, <2>2 DEF Level
  <2> QED BY <1>2, <1>4, <1>6, <2>1, <2>3 DEF GemmAt, ActAt
<1> QED BY <1>5, <1>6

\* What is stored only depends on where the CTAs are and what they have left.
LEMMA StoredDepends ==
  ASSUME UNCHANGED <<kernel, grid>>, NEW p,
         \A t \in 0..Tiles(p)-1 : LiveTile(p, t) => (TileStored(p, t)' <=> TileStored(p, t))
  PROVE  \A x : Stored(p, x)' <=> Stored(p, x)
<1>1. /\ Tiles(p)' = Tiles(p)
      /\ \A t : BlockOf(p, t)' = BlockOf(p, t) /\ ColumnOf(p, t)' = ColumnOf(p, t)
      /\ \A t : LiveTile(p, t)' <=> LiveTile(p, t)
  BY LaunchKept
<1>2. \A t, x : CellOf(p, t, x)' <=> CellOf(p, t, x)
  BY <1>1 DEF CellOf
<1>3. \A t, x : CellOf(p, t, x) => LiveTile(p, t)
  BY DEF CellOf
<1> QED BY <1>1, <1>2, <1>3 DEF Stored

LEMMA StoredKept ==
  ASSUME UNCHANGED <<kernel, grid, at, todo>>
  PROVE  \A p : \A x : Stored(p, x)' <=> Stored(p, x)
<1> TAKE p
<1>1. \A t : FirstOf(p, t)' = FirstOf(p, t) /\ GemmAt(p)' = GemmAt(p)
  BY LaunchKept
<1>2. \A t : TileStored(p, t)' <=> TileStored(p, t)
  BY <1>1 DEF TileStored
<1> QED BY <1>2, StoredDepends

LEMMA StoredMoves ==
  ASSUME BarrierTypeOK, FusedTypeOK, LaunchShaped(kernel), NEW c \in Running, MovesOn(c),
         CtaInv(c), NEW p \in Gemms
  PROVE  \A x : Stored(p, x)' <=> Stored(p, x)
<1>0. Running \subseteq CTAs /\ c \in CTAs /\ grid \in 1..MaxGrid
  BY RunningFinite DEF BarrierTypeOK
<1>1. kernel.mode \in Modes /\ at[c] \in 0..ExitAt /\ at[c] \in 0..ExitAt-1
  BY CtaPlace DEF MovesOn
<1>2. Phases[at[c] + 1] = p <=> at[c] + 1 = GemmAt(p)
  BY <1>1, NextPlace
<1>3. UNCHANGED <<kernel, grid>>
  BY DEF MovesOn
<1>4. GemmAt(p)' = GemmAt(p) /\ GemmAt(p) \in Int /\ \A t : FirstOf(p, t)' = FirstOf(p, t)
  BY <1>3, LaunchKept DEF GemmAt
<1>5. /\ at'[c] = at[c] + 1 /\ todo[c] = {} /\ at[c] \in Nat
      /\ todo'[c] = IF Phases[at[c] + 1] \in Gemms THEN Segments(Phases[at[c] + 1], c) ELSE {}
  BY <1>0 DEF MovesOn, FusedTypeOK
<1>6. \A d \in CTAs \ {c} : at'[d] = at[d] /\ todo'[d] = todo[d]
  BY <1>0 DEF MovesOn, FusedTypeOK
<1>7. ASSUME NEW t \in 0..Tiles(p)-1, LiveTile(p, t) PROVE TileStored(p, t)' <=> TileStored(p, t)
  <2>1. PICK f : f = FirstOf(p, t)
    OBVIOUS
  <2>2. f \in CTAs /\ f \in FirstOf(p, t)..LastOf(p, t)
    <3>1. FirstOf(p, t) \in Running /\ LastOf(p, t) \in Running /\ FirstOf(p, t) <= LastOf(p, t)
      BY <1>0, HoldersInGrid
    <3>2. Running \subseteq Int
      BY DEF Running
    <3>3. PICK l \in Int : l = LastOf(p, t)
      BY <3>1, <3>2
    <3>4. f \in Int /\ f <= l
      BY <2>1, <3>1, <3>2, <3>3
    <3>5. f \in f..l
      BY <3>4
    <3> QED BY <1>0, <2>1, <3>1, <3>3, <3>5
  <2>3. /\ TileStored(p, t) <=> at[f] > GemmAt(p) \/ (at[f] = GemmAt(p) /\ \A s \in todo[f] : s.tile # t)
        /\ TileStored(p, t)' <=> at'[f] > GemmAt(p) \/ (at'[f] = GemmAt(p) /\ \A s \in todo'[f] : s.tile # t)
    BY <1>4, <2>1 DEF TileStored
  <2>4. CASE f # c
    BY <1>6, <2>2, <2>3, <2>4
  <2>5. CASE f = c /\ at[c] + 1 = GemmAt(p)
    <3>1. todo'[c] = Segments(p, c)
      BY <1>2, <1>5, <2>5
    <3>2. \E s \in Segments(p, c) : s.tile = t
      BY <1>0, <1>7, <2>2, <2>5, SegmentsAre
    <3> QED BY <1>4, <1>5, <2>3, <2>5, <3>1, <3>2
  <2>6. CASE f = c /\ at[c] + 1 # GemmAt(p)
    BY <1>4, <1>5, <2>3, <2>6
  <2> QED BY <2>4, <2>5, <2>6
<1> QED BY <1>3, <1>7, StoredDepends

\* A tile is stored when its first CTA is done with it.
LEMMA StoredWorks ==
  ASSUME BarrierTypeOK, FusedTypeOK, LaunchShaped(kernel), NEW c \in Running, CtaInv(c),
         InGemm(c), todo[c] # {}, UNCHANGED <<kernel, grid, at>>,
         todo' = [todo EXCEPT ![c] = @ \ {Segment(c)}],
         NEW p \in Gemms, NEW t \in 0..Tiles(p)-1, LiveTile(p, t)
  PROVE  TileStored(p, t)' <=>
           \/ TileStored(p, t)
           \/ p = Phase(c) /\ t = Segment(c).tile /\ c = FirstOf(p, t)
<1>0. Running \subseteq CTAs /\ c \in CTAs /\ grid \in 1..MaxGrid
  BY RunningFinite DEF BarrierTypeOK
<1>1. /\ Phase(c) \in Gemms /\ at[c] = GemmAt(Phase(c))
      /\ \A q \in Gemms : at[c] = GemmAt(q) => q = Phase(c)
      /\ Segment(c) \in todo[c]
      /\ \A s \in todo[c] : s.tile = Segment(c).tile => s = Segment(c)
  BY SegmentIs
<1>2. GemmAt(p)' = GemmAt(p) /\ GemmAt(p) \in Int /\ FirstOf(p, t)' = FirstOf(p, t)
  BY LaunchKept DEF GemmAt
<1>3. PICK s : s = Segment(c)
  OBVIOUS
<1>4. /\ todo'[c] = todo[c] \ {s} /\ s \in todo[c]
      /\ \A d \in CTAs \ {c} : todo'[d] = todo[d]
  BY <1>0, <1>1, <1>3 DEF FusedTypeOK
<1>5. PICK f : f = FirstOf(p, t)
  OBVIOUS
<1>6. f \in CTAs
  BY <1>0, <1>5, HoldersInGrid
<1>7. /\ TileStored(p, t) <=> at[f] > GemmAt(p) \/ (at[f] = GemmAt(p) /\ \A u \in todo[f] : u.tile # t)
      /\ TileStored(p, t)' <=> at[f] > GemmAt(p) \/ (at[f] = GemmAt(p) /\ \A u \in todo'[f] : u.tile # t)
  BY <1>2, <1>5 DEF TileStored
<1>8. CASE f # c
  BY <1>4, <1>5, <1>6, <1>7, <1>8
<1>9. CASE f = c /\ p # Phase(c)
  <2>1. at[f] # GemmAt(p)
    BY <1>1, <1>9
  <2> QED BY <1>7, <1>9, <2>1
<1>10. CASE f = c /\ p = Phase(c)
  <2>1. at[f] = GemmAt(p)
    BY <1>1, <1>10
  <2>2. (\A u \in todo'[f] : u.tile # t) <=> ((\A u \in todo[f] : u.tile # t) \/ t = s.tile)
    BY <1>1, <1>3, <1>4, <1>10
  <2> QED BY <1>2, <1>3, <1>5, <1>7, <1>10, <2>1, <2>2
<1> QED BY <1>8, <1>9, <1>10

-----------------------------------------------------------------------------
(* Partial sums.                                                           *)

LEMMA RangesJoin ==
  ASSUME NEW a \in Int, NEW b \in Int, NEW n \in Int, a <= b, b <= n
  PROVE  /\ (b..n-1) \intersect (a..b-1) = {}
         /\ (b..n-1) \union (a..b-1) = a..n-1
  OBVIOUS

LEMMA SumsKept ==
  ASSUME UNCHANGED <<kernel, grid>>, NEW c, OthersStay(c), NEW d \in CTAs \ {c}, SumInv(d)
  PROVE  SumInv(d)'
<1>1. at'[d] = at[d] /\ todo'[d] = todo[d] /\ step'[d] = step[d] /\ acc'[d] = acc[d]
  BY DEF OthersStay
<1>2. Phase(d)' = Phase(d) /\ Segment(d)' = Segment(d)
  BY <1>1, LaunchKept DEF Phase, Segment
<1>3. /\ \A p : KTiles(p)' = KTiles(p)
      /\ \A p, e, t : EdgeAt(p, e, t)' = EdgeAt(p, e, t)
  BY LaunchKept
<1>4. LastSlice(Segment(d))' <=> LastSlice(Segment(d))
  BY <1>2 DEF LastSlice
<1> QED BY <1>1, <1>2, <1>3, <1>4 DEF SumInv

\* A partial sum stays right as long as its lock, its slot and its holders do.
LEMMA PartialKept ==
  ASSUME BarrierTypeOK, LaunchShaped(kernel), UNCHANGED <<kernel, grid>>,
         NEW c, OthersStay(c),
         NEW p \in Gemms, NEW u \in SharedTiles(p), LockInv(p), PartialInv(p, u),
         locks'[LockAt(p, u)] = locks[LockAt(p, u)],
         tmp'[p][LockAt(p, u)] = tmp[p][LockAt(p, u)],
         Pending(p, FirstOf(p, u), u)' => Pending(p, FirstOf(p, u), u),
         Publishing(p, c, u)' <=> Publishing(p, c, u)
  PROVE  PartialInv(p, u)'
<1>0. Running \subseteq CTAs /\ grid \in 1..MaxGrid /\ Running \subseteq Int
  BY RunningFinite DEF BarrierTypeOK, Running
<1>1. PICK lo, hi, lock : lo = FirstOf(p, u) /\ hi = LastOf(p, u) /\ lock = locks[LockAt(p, u)]
  OBVIOUS
<1>2. lo \in Running /\ hi \in Running /\ lo \in Int /\ hi \in Int /\ u \in 0..Tiles(p)-1
  <2>1. u \in 0..Tiles(p)-1
    BY DEF SharedTiles
  <2> QED BY <1>0, <1>1, <2>1, HoldersInGrid
<1>3. /\ LastOf(p, u)' = hi /\ FirstOf(p, u)' = lo /\ LockAt(p, u)' = LockAt(p, u)
      /\ KTiles(p)' = KTiles(p) /\ \A e, t : EdgeAt(p, e, t)' = EdgeAt(p, e, t)
      /\ GemmAt(p)' = GemmAt(p)
  BY <1>1, LaunchKept
<1>4. locks'[LockAt(p, u)'] = lock /\ tmp'[p][LockAt(p, u)'] = tmp[p][LockAt(p, u)] /\ Running' = Running
  BY <1>1, <1>3, LaunchKept
<1>5. SUFFICES ASSUME NEW next \in Running, NEW from \in lo+1..hi,
                      Pending(p, lo, u)', next = hi - lock,
                      from = IF Publishing(p, next, u)' THEN next ELSE next + 1
               PROVE  tmp[p][LockAt(p, u)] = [tile |-> u, ks |-> EdgeAt(p, from, u)..KTiles(p)-1]
  <2>1. Pending(p, FirstOf(p, u), u)' <=> Pending(p, lo, u)'
    BY <1>3 DEF Pending
  <2> QED BY <1>3, <1>4, <2>1 DEF PartialInv
<1>6. Pending(p, lo, u)
  <2>1. Pending(p, FirstOf(p, u), u)' <=> Pending(p, lo, u)'
    BY <1>3 DEF Pending
  <2> QED BY <1>1, <1>5, <2>1
<1>10. Publishing(p, next, u)' <=> Publishing(p, next, u)
  <2>1. CASE next = c
    BY <2>1
  <2>2. CASE next # c
    <3>1. next \in CTAs \ {c}
      BY <1>0, <1>5, <2>2
    <3>2. at'[next] = at[next] /\ step'[next] = step[next] /\ todo'[next] = todo[next]
      BY <3>1 DEF OthersStay
    <3>3. Segment(next)' = Segment(next)
      BY <3>2 DEF Segment
    <3> QED BY <1>3, <3>2, <3>3 DEF Publishing
  <2> QED BY <2>1, <2>2
<1> QED BY <1>1, <1>5, <1>6, <1>10 DEF PartialInv

\* Every cell belongs to the stride of one CTA.
LEMMA StrideIn ==
  ASSUME grid \in 1..MaxGrid, NEW a \in Nat, NEW columns \in Nat, NEW i \in Nat
  PROVE  (a * columns + i) % grid \in Running
<1> DEFINE m == a * columns
<1>1. m \in Nat
  BY ProductMonotone
<1> HIDE DEF m
<1>2. m + i \in Nat /\ grid \in Nat /\ grid > 0
  BY <1>1
<1> QED BY <1>2 DEF Running, m

\* The input of FC2 is right: the routes of its rows have been activated.
LEMMA ReadsGood ==
  ASSUME BarrierTypeOK, BarrierInv, LaunchShaped(kernel), LaunchExact(kernel),
         \A d \in Running : CtaInv(d), DomainInv, ActInv,
         NEW c \in Running, Phase(c) = "fc2",
         NEW t \in 0..Tiles("fc2")-1, LiveTile("fc2", t),
         NEW r \in BlockOf("fc2", t).rows, NEW k \in 0..KTiles("fc2")-1
  PROVE  act[<<r, k>>] = "good"
<1>0. grid \in 1..MaxGrid /\ "fc2" \in Gemms /\ KTiles("fc2") \in Nat \ {0} /\ KTiles("fc2") = kernel.k2
  BY TilesAre DEF BarrierTypeOK, Gemms, KTiles
<1>1. r \in LiveRoutes
  BY <1>0, CellsAreLive
<1>2. r \in 0..kernel.tokens*TopK-1 /\ r \in Nat
  <2>1. kernel.tokens*TopK \in Nat
    <3>1. kernel.tokens \in Nat /\ TopK \in Nat
      BY FusedAssumption DEF LaunchShaped
    <3> QED BY <3>1, ProductMonotone
  <2> QED BY <1>1, <2>1 DEF LiveRoutes
<1>3. k \in 0..kernel.k2-1 /\ k \in Nat /\ kernel.k2 \in Nat
  BY <1>0
<1>4. <<r, k>> \in DOMAIN act
  BY <1>2, <1>3 DEF DomainInv
<1>5. StrideOf(kernel.k2, <<r, k>>) \in Running
  <2>1. (r * kernel.k2 + k) % grid \in Running
    BY <1>0, <1>2, <1>3, StrideIn
  <2> QED BY <2>1 DEF StrideOf
<1>6. at[c] = GemmAt("fc2")
  <2>1. kernel.mode \in Modes /\ at[c] \in 0..ExitAt
    BY CtaPlace
  <2> QED BY <1>0, <2>1, PlacesAre
<1>7. at[StrideOf(kernel.k2, <<r, k>>)] > ActAt
  BY <1>5, <1>6, PlacesApart
<1>8. <<r, k>>[1] = r
  OBVIOUS
<1>9. <<r, k>>[1] \in LiveRoutes
  BY <1>1, <1>8
<1> QED BY <1>4, <1>7, <1>9, Zenon DEF ActInv

\* What c sums of a tile is its own part.
LEMMA RunTileSums ==
  ASSUME BarrierTypeOK, BarrierInv, FusedTypeOK, LaunchShaped(kernel), LaunchExact(kernel),
         \A d \in Running : CtaInv(d), DomainInv, ActInv,
         NEW c \in Running, RunTile(c)
  PROVE  SumInv(c)'
<1>0. Running \subseteq CTAs /\ c \in CTAs /\ grid \in 1..MaxGrid /\ UNCHANGED <<kernel, grid>>
  BY RunningFinite DEF BarrierTypeOK, RunTile, barrierVars
<1>1. CtaInv(c) /\ InGemm(c) /\ todo[c] # {}
  BY DEF RunTile
<1>2. PICK p, s, t : p = Phase(c) /\ s = Segment(c) /\ t = s.tile
  OBVIOUS
<1>3. /\ p \in Gemms /\ s \in Segments(p, c) /\ t \in 0..Tiles(p)-1 /\ LiveTile(p, t)
      /\ c \in FirstOf(p, t)..LastOf(p, t)
      /\ s.index = LastOf(p, t) - c
      /\ FirstOf(p, t) \in Int /\ LastOf(p, t) \in Int
  <2>1. FirstOf(p, t) \in Running /\ LastOf(p, t) \in Running
    BY <1>1, <1>2, SegmentIs
  <2> QED BY <1>1, <1>2, <2>1, SegmentIs DEF Running
<1>4. /\ s.k = EdgeAt(p, c, t) /\ s.k + s.len = EdgeAt(p, c+1, t) /\ s.len \in Nat
      /\ s.slices = LastOf(p, t) - FirstOf(p, t) + 1
  BY <1>0, <1>2, <1>3, SegmentsAre
<1>5. /\ EdgeAt(p, c, t) \in 0..KTiles(p) /\ EdgeAt(p, c+1, t) \in 0..KTiles(p)
      /\ EdgeAt(p, FirstOf(p, t), t) = 0 /\ EdgeAt(p, LastOf(p, t) + 1, t) = KTiles(p)
      /\ KTiles(p) \in Nat
  BY <1>0, <1>3, HoldersInGrid, TilesAre
<1>6. PICK own : own = EdgeAt(p, c, t)..EdgeAt(p, c+1, t)-1
  OBVIOUS
<1>60. own = Segment(c).k..Segment(c).k + Segment(c).len - 1
  BY <1>2, <1>4, <1>5, <1>6
<1>7. own \subseteq 0..KTiles(p)-1
  BY <1>5, <1>6
<1> DEFINE read == IF p = "fc1" THEN {} ELSE {act[<<r, k>>] : r \in Rows(c), k \in own}
<1>8. read \subseteq {"good"}
  <2>1. CASE p = "fc1"
    BY <2>1
  <2>2. CASE p # "fc1"
    <3>1. p = "fc2"
      BY <1>3, <2>2 DEF Gemms
    <3>2. \A r \in BlockOf("fc2", t).rows, k \in 0..KTiles("fc2")-1 : act[<<r, k>>] = "good"
      BY <1>2, <1>3, <3>1, ReadsGood
    <3>3. Rows(c) = BlockOf("fc2", t).rows
      BY <1>2, <3>1 DEF Rows
    <3>4. \A r \in Rows(c) : \A k \in own : act[<<r, k>>] = "good"
      <4>1. \A k \in own : k \in 0..KTiles("fc2")-1
        BY <1>7, <3>1
      <4> QED BY <3>2, <3>3, <4>1, Zenon
    <3> DEFINE seen == {act[<<r, k>>] : r \in Rows(c), k \in own}
    <3>5. read = seen
      BY <2>2
    <3>6. \A v \in seen : v = "good"
      <4> HIDE DEF read
      <4> TAKE v \in seen
      <4>1. PICK r \in Rows(c), k \in own : v = act[<<r, k>>]
        OBVIOUS
      <4>2. act[<<r, k>>] = "good"
        BY <3>4
      <4> QED BY <4>1, <4>2
    <3> HIDE DEF read, seen
    <3> QED BY <3>5, <3>6
  <2> HIDE DEF read
  <2> QED BY <2>1, <2>2
<1>9. acc'[c] = own
  <2>1. acc' = [acc EXCEPT ![c] = IF read \subseteq {"good"} THEN own ELSE own \union {Wrong}]
    <3>1. acc' = [acc EXCEPT ![c] =
                    IF (IF Phase(c) = "fc1" THEN {}
                        ELSE {act[<<r, k>>] : r \in Rows(c),
                                k \in Segment(c).k .. Segment(c).k + Segment(c).len - 1}) \subseteq {"good"}
                    THEN Segment(c).k .. Segment(c).k + Segment(c).len - 1
                    ELSE (Segment(c).k .. Segment(c).k + Segment(c).len - 1) \union {Wrong}]
      BY DEF RunTile
    <3>2. acc' = [acc EXCEPT ![c] =
                    IF (IF Phase(c) = "fc1" THEN {}
                        ELSE {act[<<r, k>>] : r \in Rows(c), k \in own}) \subseteq {"good"}
                    THEN own ELSE own \union {Wrong}]
      BY <1>60, <3>1
    <3> QED BY <1>2, <3>2
  <2> HIDE DEF read
  <2> QED BY <1>0, <1>8, <2>1 DEF FusedTypeOK
<1>10. step'[c] = IF s.slices > 1 THEN "turn" ELSE "store"
  BY <1>0, <1>2 DEF RunTile, FusedTypeOK
<1>11. /\ Phase(c)' = p /\ Segment(c)' = s
       /\ KTiles(p)' = KTiles(p)
       /\ \A e : EdgeAt(p, e, t)' = EdgeAt(p, e, t)
  <2>1. at'[c] = at[c] /\ todo'[c] = todo[c]
    BY DEF RunTile
  <2>2. Phase(c)' = Phase(c) /\ Segment(c)' = Segment(c)
    BY <1>0, <2>1, LaunchKept DEF Phase, Segment
  <2> QED BY <1>0, <1>2, <2>2, LaunchKept
<1>12. s.slices <= 1 => LastSlice(s) /\ own = 0..KTiles(p)-1
  <2>1. ASSUME s.slices <= 1 PROVE c = FirstOf(p, t) /\ c = LastOf(p, t) /\ s.slices = 1
    BY <1>3, <1>4, <2>1
  <2>2. s.slices <= 1 => own = 0..KTiles(p)-1
    BY <1>5, <1>6, <2>1
  <2>3. s.slices <= 1 => s.index = s.slices - 1
    BY <1>3, <2>1
  <2> QED BY <2>2, <2>3 DEF LastSlice
<1>13. s.slices > 1 \/ s.slices <= 1
  BY <1>3, <1>4
<1>14. LastSlice(Segment(c))' <=> LastSlice(s)
  BY <1>11 DEF LastSlice
<1> QED BY <1>2, <1>9, <1>10, <1>11, <1>12, <1>13, <1>6, <1>14 DEF SumInv

TmpTypeOK == DOMAIN tmp = Gemms /\ \A p \in Gemms : DOMAIN tmp[p] = LockSlots

\* Work on a tile leaves what is pending, until it is published.
LEMMA TileStepPending ==
  ASSUME BarrierTypeOK, FusedTypeOK, LaunchShaped(kernel), NEW c \in Running, CtaInv(c),
         RunTile(c) \/ Combine(c) \/ StoreTile(c)
  PROVE  \A p \in Gemms : \A u \in SharedTiles(p) : \A d \in Running :
           Pending(p, d, u)' <=> Pending(p, d, u)
<1>1. /\ OthersStay(c) /\ UNCHANGED <<kernel, grid>>
      /\ \A p \in Gemms : \A u \in SharedTiles(p) : Pending(p, c, u)' <=> Pending(p, c, u)
  BY TileStepKeeps DEF WorksOn
<1>2. Running \subseteq CTAs
  BY RunningFinite DEF BarrierTypeOK
<1>3. \A d \in CTAs \ {c} : \A p, u : Pending(p, d, u)' <=> Pending(p, d, u)
  BY <1>1, OthersPending
<1> TAKE p \in Gemms
<1> TAKE u \in SharedTiles(p)
<1> TAKE d \in Running
<1>4. CASE d = c
  BY <1>1, <1>4
<1>5. CASE d # c
  <2>1. d \in CTAs \ {c}
    BY <1>2, <1>5
  <2> QED BY <1>3, <2>1, Zenon
<1> QED BY <1>4, <1>5

\* The CTA whose turn it is finds the sum of all after it, and leaves it with
\* its own part.
LEMMA CombineSums ==
  ASSUME BarrierTypeOK, FusedTypeOK, LaunchShaped(kernel), TmpTypeOK,
         NEW c \in Running, CtaInv(c), SumInv(c), Combine(c),
         NEW p \in Gemms, p = Phase(c), LockInv(p),
         \A u \in SharedTiles(p) : PartialInv(p, u)
  PROVE  TmpTypeOK' /\ SumInv(c)' /\ \A u \in SharedTiles(p) : PartialInv(p, u)'
<1>0. Running \subseteq CTAs /\ c \in CTAs /\ grid \in 1..MaxGrid /\ Running \subseteq Int
  BY RunningFinite DEF BarrierTypeOK, Running
<1>1. InGemm(c) /\ todo[c] # {} /\ step[c] = "turn" /\ UNCHANGED <<kernel, grid, at, todo, locks>>
  BY DEF Combine, CtaInv, barrierVars
<1>2. PICK s, t, lo, hi : s = Segment(c) /\ t = s.tile /\ lo = FirstOf(p, t) /\ hi = LastOf(p, t)
  OBVIOUS
<1>3. /\ s \in todo[c] /\ at[c] = GemmAt(p) /\ t \in 0..Tiles(p)-1 /\ LiveTile(p, t)
      /\ c \in lo..hi /\ lo \in Int /\ hi \in Int /\ c \in Int
      /\ s.index = hi - c /\ (LastSlice(s) <=> c = lo)
      /\ s.slices > 1 <=> t \in SharedTiles(p)
      /\ s.slices > 1 => s.slot = LockAt(p, t) /\ s.slot \in LockSlots
  <2>1. FirstOf(p, t) \in Running /\ LastOf(p, t) \in Running
    BY <1>0, <1>1, <1>2, SegmentIs
  <2>2. c \in Int /\ lo \in Int /\ hi \in Int
    BY <1>0, <1>2, <2>1
  <2> QED BY <1>0, <1>1, <1>2, <2>2, SegmentIs
<1>4. t \in SharedTiles(p) /\ s.slot = LockAt(p, t) /\ s.slot \in LockSlots
  BY <1>1, <1>2, <1>3 DEF CtaInv
<1>5. locks[LockAt(p, t)] = hi - c
  BY <1>2, <1>3, <1>4 DEF Combine
<1>6. Pending(p, c, t)
  BY <1>1, <1>2, <1>3 DEF Pending
<1>7. Pending(p, lo, t)
  <2>1. IF Pending(p, FirstOf(p, t), t)
        THEN TRUE ELSE \A d \in FirstOf(p, t)..LastOf(p, t) : ~Pending(p, d, t)
    BY <1>4 DEF LockInv, TurnInv
  <2>2. Pending(p, FirstOf(p, t), t)
    BY <1>2, <1>3, <1>6, <2>1
  <2> QED BY <1>2, <2>2
<1>8. PICK K, a, b : K = KTiles(p) /\ a = EdgeAt(p, c, t) /\ b = EdgeAt(p, c+1, t)
  OBVIOUS
<1>9. K \in Nat /\ a \in Int /\ b \in Int /\ a <= b /\ b <= K /\ EdgeAt(p, hi+1, t) = K
  <2>1. K \in Nat /\ EdgeAt(p, LastOf(p, t) + 1, t) = K
    BY <1>0, <1>3, <1>8, HoldersInGrid, TilesAre
  <2>2. a \in 0..K /\ b \in 0..K /\ a < b
    BY <1>0, <1>2, <1>3, <1>8, HoldersInGrid
  <2> QED BY <1>2, <2>1, <2>2
<1>10. acc[c] = a..b-1
  BY <1>1, <1>2, <1>8 DEF SumInv
\* What c finds.
<1>11. Merged(c) = a..K-1
  <2>1. CASE s.index = 0
    <3>1. c = hi
      BY <1>3, <2>1
    <3>2. b = K
      BY <1>8, <1>9, <3>1
    <3>3. Merged(c) = acc[c]
      BY <1>2, <2>1 DEF Merged
    <3> QED BY <1>10, <3>2, <3>3
  <2>2. CASE s.index # 0
    <3>1. c + 1 \in lo+1..hi
      BY <1>3, <2>2
    <3>2. c = hi - locks[LockAt(p, t)] /\ ~Publishing(p, c, t)
      BY <1>1, <1>3, <1>5 DEF Publishing
    <3>3. PartialInv(p, t)
      BY <1>4
    <3>4. tmp[p][LockAt(p, t)] = [tile |-> t, ks |-> b..K-1]
      <4>1. \A n \in Running, from \in lo+1..hi :
               Pending(p, lo, t) /\ n = hi - locks[LockAt(p, t)]
               /\ from = (IF Publishing(p, n, t) THEN n ELSE n + 1)
               => tmp[p][LockAt(p, t)] = [tile |-> t, ks |-> EdgeAt(p, from, t)..K-1]
        BY <1>2, <1>8, <3>3 DEF PartialInv
      <4>2. PICK from : from = c + 1
        OBVIOUS
      <4>3. tmp[p][LockAt(p, t)] = [tile |-> t, ks |-> EdgeAt(p, from, t)..K-1]
        BY <1>7, <3>1, <3>2, <4>1, <4>2
      <4> QED BY <1>8, <4>2, <4>3
    <3>5. PICK part : part = tmp[p][LockAt(p, t)]
      OBVIOUS
    <3>6. part.tile = t /\ part.ks = b..K-1
      BY <3>4, <3>5
    <3>7. part.ks \intersect acc[c] = {} /\ part.ks \union acc[c] = a..K-1
      BY <1>9, <1>10, <3>6, RangesJoin
    <3>8. tmp[Phase(c)][Segment(c).slot] = part
      BY <1>2, <1>4, <3>5
    <3>9. Merged(c) = IF part.tile = t /\ part.ks \intersect acc[c] = {}
                      THEN part.ks \union acc[c] ELSE acc[c] \union {Wrong}
      BY <1>2, <2>2, <3>8 DEF Merged
    <3> QED BY <3>6, <3>7, <3>9
  <2> QED BY <2>1, <2>2
\* What c leaves.
<1>12. acc'[c] = a..K-1 /\ step'[c] = "publish"
  <2>1. acc' = [acc EXCEPT ![c] = Merged(c)] /\ step' = [step EXCEPT ![c] = "publish"]
    BY DEF Combine
  <2> QED BY <1>0, <1>11, <2>1 DEF FusedTypeOK
<1>13. /\ Phase(c)' = p /\ Segment(c)' = s /\ KTiles(p)' = K
       /\ \A e, v : EdgeAt(p, e, v)' = EdgeAt(p, e, v)
       /\ \A v : FirstOf(p, v)' = FirstOf(p, v) /\ LastOf(p, v)' = LastOf(p, v)
                 /\ LockAt(p, v)' = LockAt(p, v)
       /\ GemmAt(p)' = GemmAt(p) /\ SharedTiles(p)' = SharedTiles(p)
  <2>1. Phase(c)' = Phase(c) /\ Segment(c)' = Segment(c)
    BY <1>1, LaunchKept DEF Phase, Segment
  <2> QED BY <1>1, <1>2, <1>8, <2>1, LaunchKept
<1>14. SumInv(c)'
  BY <1>2, <1>8, <1>12, <1>13 DEF SumInv
<1>15. tmp' = IF c = lo THEN tmp
              ELSE [tmp EXCEPT ![p][LockAt(p, t)] = [tile |-> t, ks |-> a..K-1]]
  <2>1. tmp' = IF LastSlice(s) THEN tmp
               ELSE [tmp EXCEPT ![p][s.slot] = [tile |-> t, ks |-> Merged(c)]]
    BY <1>2 DEF Combine
  <2> QED BY <1>3, <1>4, <1>11, <2>1
<1>16. /\ TmpTypeOK'
       /\ c # lo => tmp'[p][LockAt(p, t)] = [tile |-> t, ks |-> a..K-1]
       /\ \A l \in LockSlots \ {LockAt(p, t)} : tmp'[p][l] = tmp[p][l]
  <2>1. LockAt(p, t) \in LockSlots /\ LockSlots' = LockSlots
    BY <1>4 DEF LockSlots
  <2>2. CASE c = lo
    BY <1>15, <2>1, <2>2 DEF TmpTypeOK
  <2>3. CASE c # lo
    <3>1. tmp' = [tmp EXCEPT ![p] = [tmp[p] EXCEPT ![LockAt(p, t)] = [tile |-> t, ks |-> a..K-1]]]
      BY <1>15, <2>3
    <3>2. /\ DOMAIN tmp' = Gemms /\ \A q \in Gemms \ {p} : tmp'[q] = tmp[q]
          /\ tmp'[p] = [tmp[p] EXCEPT ![LockAt(p, t)] = [tile |-> t, ks |-> a..K-1]]
      BY <3>1 DEF TmpTypeOK
    <3>3. DOMAIN tmp[p] = LockSlots
      BY DEF TmpTypeOK
    <3>4. /\ DOMAIN tmp'[p] = LockSlots
          /\ tmp'[p][LockAt(p, t)] = [tile |-> t, ks |-> a..K-1]
          /\ \A l \in LockSlots \ {LockAt(p, t)} : tmp'[p][l] = tmp[p][l]
      BY <2>1, <3>2, <3>3
    <3> QED BY <2>1, <3>2, <3>4 DEF TmpTypeOK
  <2> QED BY <2>2, <2>3
\* Its own tile: c is the one to publish.
<1>17. PartialInv(p, t)'
  <2>1. SUFFICES ASSUME NEW n \in Running', NEW from \in lo+1..hi, n = hi - locks[LockAt(p, t)],
                        from = IF Publishing(p, n, t)' THEN n ELSE n + 1
                 PROVE  tmp'[p][LockAt(p, t)] = [tile |-> t, ks |-> EdgeAt(p, from, t)..K-1]
    BY <1>1, <1>2, <1>13 DEF PartialInv
  <2>2. n = c
    BY <1>3, <1>5, <2>1
  <2>3. Publishing(p, c, t)'
    BY <1>1, <1>2, <1>3, <1>12, <1>13 DEF Publishing
  <2>4. from = c /\ c # lo
    BY <1>3, <2>1, <2>2, <2>3
  <2> QED BY <1>8, <1>16, <2>4
<1>18. ASSUME NEW u \in SharedTiles(p), u # t PROVE PartialInv(p, u)'
  <2>1. LockAt(p, u) \in LockSlots \ {LockAt(p, t)} /\ FirstOf(p, u) \in Running
    <3>1. u \in 0..Tiles(p)-1 /\ FirstOf(p, u) < LastOf(p, u)
      BY DEF SharedTiles
    <3>2. LockAt(p, t) = LockAt(p, u) => t = u
      BY <1>0, <1>4, <3>1, HoldersInGrid
    <3> QED BY <1>0, <1>18, <3>1, <3>2, HoldersInGrid
  <2>2. /\ locks'[LockAt(p, u)] = locks[LockAt(p, u)]
        /\ tmp'[p][LockAt(p, u)] = tmp[p][LockAt(p, u)]
    BY <1>1, <1>16, <2>1
  <2>3. Pending(p, FirstOf(p, u), u)' <=> Pending(p, FirstOf(p, u), u)
    <3>1. PICK f \in Running : f = FirstOf(p, u)
      BY <2>1
    <3>2. Pending(p, f, u)' <=> Pending(p, f, u)
      BY TileStepPending
    <3>3. Pending(p, FirstOf(p, u), u)' <=> Pending(p, f, u)'
      BY <1>13, <3>1 DEF Pending
    <3> QED BY <3>1, <3>2, <3>3
  <2>4. Publishing(p, c, u)' <=> Publishing(p, c, u)
    BY <1>2, <1>13, <1>18 DEF Publishing
  <2>5. OthersStay(c)
    BY TileStepKeeps DEF WorksOn
  <2> QED BY <1>1, <2>2, <2>3, <2>4, <2>5, PartialKept
<1> QED BY <1>14, <1>16, <1>17, <1>18

\* The next CTA of the tile takes over what has been summed so far; after the
\* last, which stores the tile, nothing is left to take over.
LEMMA PublishSums ==
  ASSUME BarrierTypeOK, FusedTypeOK, LaunchShaped(kernel), TmpTypeOK,
         \A d \in Running : CtaInv(d) /\ PublishInv(d),
         NEW c \in Running, SumInv(c), Publish(c),
         NEW p \in Gemms, p = Phase(c), LockInv(p),
         \A u \in SharedTiles(p) : PartialInv(p, u)
  PROVE  /\ step'[c] # "tile" => SumInv(c)'
         /\ \A u \in SharedTiles(p) : PartialInv(p, u)'
<1>0. Running \subseteq CTAs /\ c \in CTAs /\ grid \in 1..MaxGrid /\ Running \subseteq Int
  BY RunningFinite DEF BarrierTypeOK, Running
<1>1. /\ InGemm(c) /\ todo[c] # {} /\ step[c] = "publish" /\ CtaInv(c) /\ PublishInv(c)
      /\ UNCHANGED <<kernel, grid, at, tmp, bar, passed>>
  BY DEF Publish, CtaInv, barrierVars
<1>2. PICK s, t, lo, hi : s = Segment(c) /\ t = s.tile /\ lo = FirstOf(p, t) /\ hi = LastOf(p, t)
  OBVIOUS
<1>3. /\ s \in todo[c] /\ at[c] = GemmAt(p) /\ t \in 0..Tiles(p)-1 /\ LiveTile(p, t)
      /\ c \in lo..hi /\ lo \in Int /\ hi \in Int /\ c \in Int
      /\ s.index = hi - c /\ (LastSlice(s) <=> c = lo)
      /\ s.slices > 1 <=> t \in SharedTiles(p)
      /\ s.slices > 1 => s.slot = LockAt(p, t) /\ s.slot \in LockSlots
      /\ \A x \in todo[c] : x.tile = t => x = s
  <2>1. FirstOf(p, t) \in Running /\ LastOf(p, t) \in Running
    BY <1>0, <1>1, <1>2, SegmentIs
  <2>2. c \in Int /\ lo \in Int /\ hi \in Int
    BY <1>0, <1>2, <2>1
  <2> QED BY <1>0, <1>1, <1>2, <2>2, SegmentIs
<1>4. t \in SharedTiles(p) /\ s.slot = LockAt(p, t) /\ s.slot \in LockSlots
  BY <1>1, <1>2, <1>3 DEF CtaInv
<1>5. locks[LockAt(p, t)] = hi - c
  BY <1>1, <1>2, <1>3, <1>4 DEF PublishInv
<1>6. PICK K : K = KTiles(p)
  OBVIOUS
<1>7. acc[c] = EdgeAt(p, c, t)..K-1 /\ EdgeAt(p, lo, t) = 0
  <2>1. acc[c] = EdgeAt(p, c, t)..K-1
    BY <1>1, <1>2, <1>6 DEF SumInv
  <2> QED BY <1>0, <1>2, <1>3, <2>1, HoldersInGrid
<1>8. /\ KTiles(p)' = K /\ Phase(c)' = p
      /\ \A e, v : EdgeAt(p, e, v)' = EdgeAt(p, e, v)
      /\ \A v : FirstOf(p, v)' = FirstOf(p, v) /\ LastOf(p, v)' = LastOf(p, v)
                /\ LockAt(p, v)' = LockAt(p, v)
      /\ GemmAt(p)' = GemmAt(p) /\ SharedTiles(p)' = SharedTiles(p) /\ Running' = Running
  <2>1. Phase(c)' = Phase(c)
    BY <1>1, LaunchKept DEF Phase
  <2> QED BY <1>1, <1>6, <2>1, LaunchKept
<1>9. /\ \A d \in CTAs \ {c} : step'[d] = step[d] /\ acc'[d] = acc[d] /\ todo'[d] = todo[d]
      /\ IF c = lo THEN step'[c] = "store" /\ todo'[c] = todo[c] /\ acc'[c] = acc[c]
         ELSE step'[c] = "tile" /\ todo'[c] = todo[c] \ {s}
  <2>1. CASE c = lo
    <3>1. step' = [step EXCEPT ![c] = "store"] /\ todo' = todo /\ acc' = acc
      BY <1>2, <1>3, <2>1 DEF Publish
    <3> QED BY <1>0, <2>1, <3>1 DEF FusedTypeOK
  <2>2. CASE c # lo
    <3>1. NextSegment(c)
      BY <1>2, <1>3, <2>2 DEF Publish
    <3> QED BY <1>2, <1>0, <2>2, <3>1 DEF FusedTypeOK, NextSegment
  <2> QED BY <2>1, <2>2
<1>10. locks' = [locks EXCEPT ![LockAt(p, t)] = IF c = lo THEN 0 ELSE hi - c + 1]
  BY <1>2, <1>3, <1>4, <1>5 DEF Publish
<1>11. OthersStay(c)
  BY <1>1, <1>9 DEF OthersStay
<1>12. step'[c] # "tile" => SumInv(c)'
  <2>1. CASE c = lo
    <3>1. Segment(c)' = s
      BY <1>2, <1>9, <2>1 DEF Segment
    <3>2. LastSlice(Segment(c))'
      BY <1>3, <2>1, <3>1 DEF LastSlice
    <3>3. acc'[c] = 0..K-1 /\ step'[c] = "store"
      BY <1>7, <1>9, <2>1
    <3> QED BY <1>2, <1>8, <3>1, <3>2, <3>3 DEF SumInv
  <2>2. CASE c # lo
    BY <1>9, <2>2
  <2> QED BY <2>1, <2>2
\* Its own tile: the next in turn has not begun, so c's sum is the last.
<1>13. PartialInv(p, t)'
  <2>1. SUFFICES ASSUME NEW n \in Running', NEW from \in lo+1..hi, Pending(p, lo, t)',
                        n = hi - locks'[LockAt(p, t)],
                        from = IF Publishing(p, n, t)' THEN n ELSE n + 1
                 PROVE  tmp[p][LockAt(p, t)] = [tile |-> t, ks |-> EdgeAt(p, from, t)..K-1]
    <3>1. Pending(p, FirstOf(p, t), t)' <=> Pending(p, lo, t)'
      BY <1>2, <1>8 DEF Pending
    <3> QED BY <1>1, <1>2, <1>8, <3>1 DEF PartialInv
  <2>2. c # lo
    <3>1. SUFFICES ASSUME c = lo PROVE ~Pending(p, c, t)'
      BY <2>1
    <3>2. /\ at'[c] = GemmAt(p)' /\ ~(at'[c] < GemmAt(p)')
          /\ step'[c] = "store" /\ Segment(c)' = s /\ todo'[c] = todo[c]
      <4>1. at'[c] = GemmAt(p) /\ GemmAt(p)' = GemmAt(p) /\ GemmAt(p) \in Int
        BY <1>1, <1>3, <1>8 DEF GemmAt
      <4>2. Segment(c)' = s
        BY <1>2, <1>9, <3>1 DEF Segment
      <4> QED BY <1>9, <3>1, <4>1, <4>2
    <3> QED BY <1>2, <3>2 DEF Pending
  <2>3. locks'[LockAt(p, t)] = hi - c + 1
    BY <1>4, <1>10, <2>2 DEF FusedTypeOK
  <2>4. n = c - 1 /\ n \in Running /\ n # c /\ n \in CTAs \ {c}
    <3>1. n = c - 1
      BY <1>3, <2>1, <2>3
    <3>2. n \in Running
      BY <1>8, <2>1
    <3> QED BY <1>0, <1>3, <3>1, <3>2
  <2>5. ~Publishing(p, n, t)'
    <3>1. SUFFICES ASSUME Publishing(p, n, t)' PROVE FALSE
      OBVIOUS
    <3>2. at'[n] = at[n] /\ step'[n] = step[n] /\ todo'[n] = todo[n]
      BY <1>11, <2>4 DEF OthersStay
    <3>3. Segment(n)' = Segment(n) /\ GemmAt(p)' = GemmAt(p)
      BY <1>8, <3>2 DEF Segment
    <3>4. at[n] = GemmAt(p) /\ step[n] = "publish" /\ Segment(n).tile = t
      BY <3>1, <3>2, <3>3 DEF Publishing
    <3>5. CtaInv(n) /\ PublishInv(n)
      BY <2>4
    <3>6. InGemm(n) /\ todo[n] # {} /\ Phase(n) = p
      <4>1. kernel.mode \in Modes /\ at[n] \in 0..ExitAt
        BY <3>5, CtaPlace
      <4>2. Phase(n) = p
        BY <3>4, <4>1, PlacesAre
      <4> QED BY <3>4, <3>5, <4>2 DEF CtaInv, InGemm, Gemms
    <3>7. Segment(n).index = LastOf(p, t) - n
      BY <2>4, <3>4, <3>5, <3>6, SegmentIs
    <3>8. Segment(n).slices > 1
      BY <3>4, <3>5 DEF CtaInv
    <3>9. Segment(n).slot = LockAt(p, t)
      BY <2>4, <3>4, <3>5, <3>6, <3>8, SegmentIs
    <3>10. locks[LockAt(p, t)] = hi - n
      BY <1>2, <3>4, <3>5, <3>7, <3>9 DEF PublishInv
    <3> QED BY <1>3, <1>5, <2>4, <3>10
  <2>6. from = c
    BY <1>3, <2>1, <2>4, <2>5
  <2>7. Pending(p, lo, t)
    <3>1. lo \in CTAs \ {c}
      BY <1>0, <1>2, <1>3, <2>2, HoldersInGrid
    <3>2. Pending(p, lo, t)' <=> Pending(p, lo, t)
      BY <1>1, <1>11, <3>1, OthersPending
    <3> QED BY <2>1, <3>2
  <2>8. Publishing(p, c, t) /\ c = hi - locks[LockAt(p, t)]
    BY <1>1, <1>2, <1>3, <1>5 DEF Publishing
  <2>9. PartialInv(p, t)
    BY <1>4
  <2>10. \A m \in Running, f \in lo+1..hi :
            Pending(p, lo, t) /\ m = hi - locks[LockAt(p, t)]
            /\ f = (IF Publishing(p, m, t) THEN m ELSE m + 1)
            => tmp[p][LockAt(p, t)] = [tile |-> t, ks |-> EdgeAt(p, f, t)..K-1]
    BY <1>2, <1>6, <2>9 DEF PartialInv
  <2>11. c \in lo+1..hi
    BY <1>3, <2>2
  <2> QED BY <2>6, <2>7, <2>8, <2>10, <2>11
<1>14. ASSUME NEW u \in SharedTiles(p), u # t PROVE PartialInv(p, u)'
  <2>1. LockAt(p, u) \in LockSlots \ {LockAt(p, t)} /\ FirstOf(p, u) \in Running
    <3>1. u \in 0..Tiles(p)-1 /\ FirstOf(p, u) < LastOf(p, u)
      BY DEF SharedTiles
    <3>2. LockAt(p, t) = LockAt(p, u) => t = u
      BY <1>0, <1>4, <3>1, HoldersInGrid
    <3> QED BY <1>0, <1>14, <3>1, <3>2, HoldersInGrid
  <2>2. /\ locks'[LockAt(p, u)] = locks[LockAt(p, u)]
        /\ tmp'[p][LockAt(p, u)] = tmp[p][LockAt(p, u)]
    BY <1>1, <1>10, <2>1 DEF FusedTypeOK
  <2>3. Pending(p, FirstOf(p, u), u)' => Pending(p, FirstOf(p, u), u)
    <3>1. PICK f \in Running : f = FirstOf(p, u)
      BY <2>1
    <3>2. Pending(p, FirstOf(p, u), u)' <=> Pending(p, f, u)'
      BY <1>8, <3>1 DEF Pending
    <3>3. CASE f # c
      <4>1. f \in CTAs \ {c}
        BY <1>0, <3>3
      <4>2. Pending(p, f, u)' <=> Pending(p, f, u)
        BY <1>1, <1>11, <4>1, OthersPending
      <4> QED BY <3>1, <3>2, <4>2
    <3>4. CASE f = c
      <4>1. todo'[c] \subseteq todo[c] /\ at'[c] = at[c]
        BY <1>1, <1>9
      <4>2. Pending(p, c, u)' => Pending(p, c, u)
        BY <1>1, <1>8, <4>1 DEF Pending
      <4> QED BY <3>1, <3>2, <3>4, <4>2
    <3> QED BY <3>3, <3>4
  <2>4. Publishing(p, c, u)' <=> Publishing(p, c, u)
    <3>1. ~Publishing(p, c, u)
      BY <1>2, <1>14 DEF Publishing
    <3>2. step'[c] # "publish"
      BY <1>9
    <3> QED BY <3>1, <3>2 DEF Publishing
  <2> QED BY <1>1, <1>11, <2>2, <2>3, <2>4, PartialKept
<1> QED BY <1>12, <1>13, <1>14

\* While nobody has begun with a GEMM nothing of it has been published.
PartialsFresh ==
  BarrierTypeOK /\ LaunchShaped(kernel) =>
    \A p \in Gemms : LockInv(p) /\ (\A c \in Running : at[c] < GemmAt(p))
      => \A u \in SharedTiles(p) : PartialInv(p, u)

LEMMA PartialsStart == PartialsFresh
<1> SUFFICES ASSUME BarrierTypeOK, LaunchShaped(kernel), NEW p \in Gemms, LockInv(p),
                    \A c \in Running : at[c] < GemmAt(p), NEW u \in SharedTiles(p)
             PROVE  PartialInv(p, u)
  BY DEF PartialsFresh
<1>0. grid \in 1..MaxGrid /\ Running \subseteq Int /\ u \in 0..Tiles(p)-1
  BY DEF BarrierTypeOK, Running, SharedTiles
<1>1. PICK lo, hi, lock : lo = FirstOf(p, u) /\ hi = LastOf(p, u) /\ lock = locks[LockAt(p, u)]
  OBVIOUS
<1>2. lo \in Running /\ hi \in Running /\ lo \in Int /\ hi \in Int /\ lo <= hi
  BY <1>0, <1>1, HoldersInGrid
<1>3. Pending(p, lo, u) /\ Pending(p, hi, u)
  BY <1>2 DEF Pending
<1>4. lock \in 0..hi-lo /\ (Pending(p, hi, u) <=> hi <= hi - lock)
  <2>1. TurnInv(p, u)
    BY DEF LockInv
  <2>2. hi \in lo..hi
    BY <1>2
  <2> QED BY <1>1, <1>3, <2>1, <2>2 DEF TurnInv
<1>5. lock = 0
  BY <1>2, <1>3, <1>4
<1>6. ~Publishing(p, hi, u)
  <2>1. at[hi] < GemmAt(p) /\ GemmAt(p) \in Int
    BY <1>2 DEF GemmAt
  <2> QED BY <2>1 DEF Publishing
<1> SUFFICES ASSUME NEW n \in Running, NEW from \in lo+1..hi, n = hi - lock,
                    from = IF Publishing(p, n, u) THEN n ELSE n + 1
             PROVE  FALSE
  BY <1>1 DEF PartialInv
<1>7. n = hi
  BY <1>2, <1>5
<1> QED BY <1>2, <1>6, <1>7

\* A step that publishes nothing leaves the partial sums right.
LEMMA PartialsStay ==
  ASSUME BarrierTypeOK, LaunchShaped(kernel), UNCHANGED <<kernel, grid, locks, tmp>>,
         NEW c, OthersStay(c), step[c] # "publish", step'[c] # "publish",
         NEW p \in Gemms, LockInv(p),
         \A u \in SharedTiles(p) : \A d \in FirstOf(p, u)..LastOf(p, u) :
            Pending(p, d, u)' <=> Pending(p, d, u),
         \A u \in SharedTiles(p) : PartialInv(p, u)
  PROVE  \A u \in SharedTiles(p)' : PartialInv(p, u)'
<1>1. SharedTiles(p)' = SharedTiles(p) /\ \A u : FirstOf(p, u)' = FirstOf(p, u)
      /\ GemmAt(p)' = GemmAt(p)
  BY LaunchKept
<1>2. ASSUME NEW u \in SharedTiles(p) PROVE PartialInv(p, u)'
  <2>1. PICK f, l : f = FirstOf(p, u) /\ l = LastOf(p, u)
    OBVIOUS
  <2>2. f \in Int /\ l \in Int /\ f <= l
    <3>1. u \in 0..Tiles(p)-1 /\ grid \in 1..MaxGrid /\ Running \subseteq Int
      BY DEF SharedTiles, BarrierTypeOK, Running
    <3> QED BY <2>1, <3>1, HoldersInGrid
  <2>3. Pending(p, f, u)' <=> Pending(p, f, u)
    <3>1. f \in f..l
      BY <2>2
    <3> QED BY <2>1, <3>1
  <2>4. Pending(p, FirstOf(p, u), u)' <=> Pending(p, f, u)'
    BY <1>1, <2>1 DEF Pending
  <2>5. Publishing(p, c, u)' <=> Publishing(p, c, u)
    BY DEF Publishing
  <2> QED BY <2>1, <2>3, <2>4, <2>5, PartialKept
<1> QED BY <1>1, <1>2

SumsInv ==
  /\ TmpTypeOK
  /\ \A c \in Running : step[c] # "tile" => SumInv(c)
  /\ Early => \A t \in SharedTiles("fc1") : PartialInv("fc1", t)
  /\ ~Early => \A t \in SharedTiles("fc2") : PartialInv("fc2", t)

LEMMA MovesOnSums ==
  ASSUME BarrierTypeOK, BarrierTypeOK', FusedTypeOK, KernelInv, KernelInv', SumsInv,
         NEW c \in Running, MovesOn(c), tmp' = tmp
  PROVE  SumsInv'
<1>0. /\ Running \subseteq CTAs /\ c \in CTAs /\ LaunchShaped(kernel)
      /\ \A d \in Running : CtaInv(d) /\ PublishInv(d)
      /\ \A d \in CTAs \ Running : Idle(d)
  BY RunningFinite DEF BarrierTypeOK, KernelInv
<1>1. /\ UNCHANGED <<kernel, grid, locks, step, acc, tmp>>
      /\ step[c] = "tile" /\ at[c] \in Nat
      /\ at'[c] = at[c] + 1
      /\ \A d \in CTAs \ {c} : at'[d] = at[d] /\ todo'[d] = todo[d]
                               /\ bar'[d] = bar[d] /\ passed'[d] = passed[d]
  BY <1>0 DEF MovesOn, FusedTypeOK
<1>2. OthersStay(c)
  BY <1>1 DEF OthersStay
<1>3. Running' = Running /\ (\A i : Level(i)' = Level(i)) /\ \A p : GemmAt(p)' = GemmAt(p)
      /\ kernel.mode \in Modes
  BY <1>0, <1>1, LaunchKept, TilesAre DEF LaunchShaped
<1>4. \A p \in Gemms : \A t \in SharedTiles(p) : \A d \in FirstOf(p, t)..LastOf(p, t) :
              Pending(p, d, t)' <=> Pending(p, d, t)
  BY <1>0, MovesOnInv
<1>5. TmpTypeOK'
  BY <1>1 DEF TmpTypeOK, SumsInv, LockSlots
<1>6. ASSUME NEW d \in Running, step'[d] # "tile" PROVE SumInv(d)'
  <2>1. d # c /\ step[d] # "tile"
    BY <1>1, <1>6
  <2>2. SumInv(d) /\ d \in CTAs \ {c}
    BY <1>0, <2>1 DEF SumsInv
  <2> QED BY <1>1, <1>2, <2>2, SumsKept
<1>7. \A d \in Running : at[d] \in Nat /\ (at'[d] = at[d] \/ at'[d] = at[d] + 1)
  BY <1>0, <1>1 DEF FusedTypeOK
<1>8. Early' => Early
  <2>1. \A i \in Nat : Level(i) \in Nat /\ Level(i) <= Level(i+1)
    BY DEF Level
  <2>2. \A d \in Running : Level(at'[d]) = 0 => Level(at[d]) = 0
    <3> TAKE d \in Running
    <3>1. Level(at[d]) <= Level(at'[d]) /\ Level(at[d]) \in Nat
      BY <1>7, <2>1
    <3> QED BY <3>1
  <2>3. Early' => \A d \in Running : Level(at'[d]) = 0
    BY <1>3 DEF Early
  <2> QED BY <2>2, <2>3 DEF Early
<1>9. ASSUME NEW p \in Gemms, LockInv(p), \A u \in SharedTiles(p) : PartialInv(p, u)
      PROVE  \A u \in SharedTiles(p)' : PartialInv(p, u)'
  BY <1>0, <1>1, <1>2, <1>4, <1>9, PartialsStay
<1>10. CASE Early'
  <2>1. LockInv("fc1") /\ \A u \in SharedTiles("fc1") : PartialInv("fc1", u)
    BY <1>8, <1>10 DEF KernelInv, SumsInv
  <2> QED BY <1>3, <1>5, <1>6, <1>9, <1>10, <2>1 DEF SumsInv, Gemms
<1>11. CASE ~Early' /\ ~Early
  <2>1. LockInv("fc2") /\ \A u \in SharedTiles("fc2") : PartialInv("fc2", u)
    BY <1>11 DEF KernelInv, SumsInv
  <2> QED BY <1>3, <1>5, <1>6, <1>9, <1>11, <2>1 DEF SumsInv, Gemms
<1>12. CASE ~Early' /\ Early
  <2>1. \A d \in Running : Level(at[d]) = 0
    BY <1>12 DEF Early
  <2>2. \A d \in Running : at'[d] < GemmAt("fc2")
    <3> TAKE d \in Running
    <3>1. PICK i \in Nat : i = at[d]
      BY <1>7
    <3>2. Level(i) = 0
      BY <2>1, <3>1
    <3>3. i + 1 < GemmAt("fc2")
      BY <3>2 DEF Level, GemmAt
    <3>4. i < GemmAt("fc2")
      BY <3>3 DEF GemmAt
    <3> QED BY <1>7, <3>1, <3>3, <3>4
  <2>3. \A d \in Running' : at'[d] < GemmAt("fc2")'
    BY <1>3, <2>2
  <2>4. LockInv("fc2")' /\ LaunchShaped(kernel)'
    BY <1>12 DEF KernelInv
  <2>5. PartialsFresh'
    BY PartialsStart, PTL
  <2>6. \A u \in SharedTiles("fc2")' : PartialInv("fc2", u)'
    BY <2>3, <2>4, <2>5 DEF Gemms, PartialsFresh
  <2> QED BY <1>3, <1>5, <1>6, <1>12, <2>6 DEF SumsInv
<1> QED BY <1>10, <1>11, <1>12

\* Each CTA sums its own part and what those after it have summed.
LEMMA SumsStep ==
  ASSUME BarrierTypeOK, BarrierTypeOK', BarrierInv, FusedTypeOK, KernelInv, KernelInv', SumsInv,
         LaunchExact(kernel), DomainInv, ActInv, NEW c \in Running, Cta(c)
  PROVE  SumsInv'
<1>0. /\ Running \subseteq CTAs /\ c \in CTAs /\ LaunchShaped(kernel) /\ grid \in 1..MaxGrid
      /\ \A d \in Running : CtaInv(d) /\ PublishInv(d)
      /\ \A d \in CTAs \ Running : Idle(d)
  BY RunningFinite DEF BarrierTypeOK, KernelInv
<1>1. CASE Start(c) \/ ZeroOutput(c) \/ Activate(c) \/ ClearFc2(c) \/ EndGemm(c)
  <2>1. MovesOn(c)
    BY <1>0, <1>1, AdvanceMovesOn
  <2>2. tmp' = tmp
    BY <1>1 DEF Start, ZeroOutput, Activate, ClearFc2, EndGemm
  <2> QED BY <2>1, <2>2, MovesOnSums
<1>2. CASE LeaveBarrier(c)
  <2>1. MovesOn(c)
    BY <1>0, <1>2, LeaveMovesOn
  <2>2. tmp' = tmp
    BY <1>2 DEF LeaveBarrier
  <2> QED BY <2>1, <2>2, MovesOnSums
<1>3. CASE InBarrier(c)
  <2>1. UNCHANGED <<kernelVars, grid, passed>> /\ \A d \in CTAs \ {c} : bar'[d] = bar[d]
    BY <1>3 DEF InBarrier, ReadSense, Arrive, ResetCount, BarrierTypeOK
  <2>2. UNCHANGED <<kernel, grid, at, todo, step, acc, locks, tmp, passed>>
    BY <2>1 DEF kernelVars
  <2>3. OthersStay(c)
    BY <2>1, <2>2 DEF OthersStay
  <2>4. step[c] = "tile"
    <3>1. ~InGemm(c) /\ CtaInv(c)
      BY <1>0, <1>3 DEF InBarrier, InGemm
    <3> QED BY <1>0, <3>1, CtaPlace
  <2>5. /\ Running' = Running /\ \A i : Level(i)' = Level(i)
        /\ \A p : GemmAt(p)' = GemmAt(p)
    BY <2>2, LaunchKept
  <2>6. \A p, d, u : Pending(p, d, u)' <=> Pending(p, d, u)
    <3>1. \A d : Segment(d)' = Segment(d)
      BY <2>2 DEF Segment
    <3> QED BY <2>2, <2>5, <3>1 DEF Pending
  <2>7. Early' <=> Early
    BY <2>2, <2>5 DEF Early
  <2>8. ASSUME NEW p \in Gemms, LockInv(p), \A u \in SharedTiles(p) : PartialInv(p, u)
        PROVE  \A u \in SharedTiles(p)' : PartialInv(p, u)'
    BY <1>0, <2>2, <2>3, <2>4, <2>6, <2>8, PartialsStay
  <2>9. ASSUME NEW d \in Running, step'[d] # "tile" PROVE SumInv(d)'
    <3>1. d # c /\ step[d] # "tile"
      BY <2>2, <2>4, <2>9
    <3>2. SumInv(d) /\ d \in CTAs \ {c}
      BY <1>0, <3>1 DEF SumsInv
    <3> QED BY <2>2, <2>3, <3>2, SumsKept
  <2>10. TmpTypeOK'
    BY <2>2 DEF TmpTypeOK, SumsInv, LockSlots
  <2>11. CASE Early
    <3>1. LockInv("fc1") /\ \A u \in SharedTiles("fc1") : PartialInv("fc1", u)
      BY <2>11 DEF KernelInv, SumsInv
    <3> QED BY <2>5, <2>7, <2>8, <2>9, <2>10, <2>11, <3>1 DEF SumsInv, Gemms
  <2>12. CASE ~Early
    <3>1. LockInv("fc2") /\ \A u \in SharedTiles("fc2") : PartialInv("fc2", u)
      BY <2>12 DEF KernelInv, SumsInv
    <3> QED BY <2>5, <2>7, <2>8, <2>9, <2>10, <2>12, <3>1 DEF SumsInv, Gemms
  <2> QED BY <2>11, <2>12
\* Work on a tile: of the GEMM that all locks and sums are about.
<1>4. CASE RunTile(c) \/ Combine(c) \/ Publish(c) \/ StoreTile(c)
  <2>2. InGemm(c)
    BY <1>4 DEF RunTile, Combine, Publish, StoreTile
  <2>3. Phase(c) = IF Early THEN "fc1" ELSE "fc2"
    BY <1>0, <2>2, GemmIsCurrent
  <2>4. PICK p \in Gemms : p = Phase(c) /\ LockInv(p) /\ (\A u \in SharedTiles(p) : PartialInv(p, u))
                           /\ p = IF Early THEN "fc1" ELSE "fc2"
    BY <2>3 DEF KernelInv, SumsInv, Gemms
  <2>5. WorksOn(c) /\ UNCHANGED <<kernel, grid>>
    <3>1. CASE Publish(c)
      BY <1>0, <2>4, <3>1, PublishKeeps DEF WorksOn
    <3>2. CASE RunTile(c) \/ Combine(c) \/ StoreTile(c)
      BY <1>0, <3>2, TileStepKeeps DEF WorksOn
    <3> QED BY <1>4, <3>1, <3>2
  <2>6. OthersStay(c) /\ (Early' <=> Early) /\ Running' = Running
    BY <1>0, <2>5, WorksOnInv DEF WorksOn
  <2>7. ASSUME NEW d \in Running, d # c, step'[d] # "tile" PROVE SumInv(d)'
    <3>1. d \in CTAs \ {c} /\ step[d] # "tile"
      BY <1>0, <2>6, <2>7 DEF OthersStay
    <3>2. SumInv(d)
      BY <3>1 DEF SumsInv
    <3> QED BY <2>5, <2>6, <3>1, <3>2, SumsKept
  <2>8. SharedTiles(p)' = SharedTiles(p)
    BY <2>5, LaunchKept
  <2>9. /\ TmpTypeOK' /\ (step'[c] # "tile" => SumInv(c)')
        /\ \A u \in SharedTiles(p)' : PartialInv(p, u)'
    <3>0. TmpTypeOK /\ (step[c] # "tile" => SumInv(c))
      BY DEF SumsInv
    <3>1. CASE RunTile(c) \/ StoreTile(c)
      <4>1. UNCHANGED <<locks, tmp>>
        BY <3>1 DEF RunTile, StoreTile
      <4>2. step[c] # "publish" /\ step'[c] # "publish"
        <5>1. CASE RunTile(c)
          BY <1>0, <5>1 DEF RunTile, FusedTypeOK
        <5>2. CASE StoreTile(c)
          BY <1>0, <5>2 DEF StoreTile, NextSegment, FusedTypeOK
        <5> QED BY <3>1, <5>1, <5>2
      <4>3. \A u \in SharedTiles(p) : \A d \in FirstOf(p, u)..LastOf(p, u) :
               Pending(p, d, u)' <=> Pending(p, d, u)
        <5>1. \A u \in SharedTiles(p) : FirstOf(p, u) \in Running /\ LastOf(p, u) \in Running
          BY <1>0, HoldersInGrid DEF SharedTiles
        <5>2. \A u \in SharedTiles(p) : \A d \in FirstOf(p, u)..LastOf(p, u) : d \in Running
          BY <1>0, <5>1 DEF Running, BarrierTypeOK
        <5>3. \A u \in SharedTiles(p) : \A d \in Running : Pending(p, d, u)' <=> Pending(p, d, u)
          BY <1>0, <3>1, TileStepPending
        <5> QED BY <5>2, <5>3
      <4>4. \A u \in SharedTiles(p)' : PartialInv(p, u)'
        BY <1>0, <2>4, <2>5, <2>6, <4>1, <4>2, <4>3, PartialsStay
      <4>5. TmpTypeOK'
        BY <3>0, <4>1 DEF TmpTypeOK, LockSlots
      <4>6. step'[c] # "tile" => SumInv(c)'
        <5>1. CASE RunTile(c)
          BY <1>0, <5>1, RunTileSums
        <5>2. CASE StoreTile(c)
          BY <1>0, <5>2 DEF StoreTile, NextSegment, FusedTypeOK
        <5> QED BY <3>1, <5>1, <5>2
      <4> QED BY <4>4, <4>5, <4>6
    <3>2. CASE Combine(c)
      <4>1. SumInv(c)
        BY <3>0, <3>2 DEF Combine
      <4> QED BY <1>0, <2>4, <2>8, <3>0, <3>2, <4>1, CombineSums
    <3>3. CASE Publish(c)
      <4>1. SumInv(c) /\ tmp' = tmp
        BY <3>0, <3>3 DEF Publish
      <4>2. TmpTypeOK'
        BY <3>0, <4>1 DEF TmpTypeOK, LockSlots
      <4> QED BY <1>0, <2>4, <2>8, <3>0, <3>3, <4>1, <4>2, PublishSums
    <3> QED BY <1>4, <3>1, <3>2, <3>3
  <2>10. \A d \in Running' : step'[d] # "tile" => SumInv(d)'
    BY <2>6, <2>7, <2>9
  <2>11. CASE Early
    <3>1. p = "fc1"
      BY <2>4, <2>11
    <3>2. Early' => \A u \in SharedTiles("fc1")' : PartialInv("fc1", u)'
      BY <2>9, <3>1
    <3> QED BY <2>6, <2>9, <2>10, <2>11, <3>2 DEF SumsInv
  <2>12. CASE ~Early
    <3>1. p = "fc2"
      BY <2>4, <2>12
    <3>2. \A u \in SharedTiles("fc2")' : PartialInv("fc2", u)'
      BY <2>9, <3>1
    <3> QED BY <2>6, <2>9, <2>10, <2>12, <3>2 DEF SumsInv
  <2> QED BY <2>11, <2>12
<1> QED BY <1>1, <1>2, <1>3, <1>4 DEF Cta

-----------------------------------------------------------------------------
(* What the buffers hold.                                                  *)

BuffersInv == DomainInv /\ Fc1Inv /\ ActInv /\ Fc2Inv /\ OutInv

\* The strides of the cells of each buffer, and of its routes.
LEMMA CellStrides ==
  ASSUME LaunchShaped(kernel), grid \in 1..MaxGrid, DomainInv
  PROVE  /\ \A x \in DOMAIN act : StrideOf(kernel.k2, x) \in Running
         /\ \A x \in DOMAIN fc2 : StrideOf(kernel.n2, x) \in Running
         /\ \A x \in DOMAIN out : StrideOf(kernel.n2, x) \in Running
<1>1. kernel.tokens*TopK \in Nat /\ kernel.tokens \in Nat
  <2>1. kernel.tokens \in Nat /\ TopK \in Nat
    BY FusedAssumption DEF LaunchShaped
  <2> QED BY <2>1, ProductMonotone
<1>2. kernel.k2 \in Nat /\ kernel.n2 \in Nat
  BY DEF LaunchShaped
<1>3. ASSUME NEW columns \in Nat, NEW rows \in Nat, NEW x \in (0..rows-1) \X (0..columns-1)
      PROVE  StrideOf(columns, x) \in Running
  <2>1. x[1] \in Nat /\ x[2] \in Nat
    BY <1>3
  <2> QED BY <2>1, StrideIn DEF StrideOf
<1> QED BY <1>1, <1>2, <1>3 DEF DomainInv

\* Some CTA goes on from place i.
Leaves(i) == \E d \in Running : at[d] = i /\ at'[d] # i

LEMMA PlacesKept ==
  ASSUME BarrierTypeOK, FusedTypeOK, UNCHANGED <<kernel, grid>>,
         NEW d \in Running, at'[d] \in {at[d], at[d] + 1}
  PROVE  /\ ~Leaves(ActAt) /\ at'[d] > ActAt' => at[d] > ActAt
         /\ \A i \in Nat : ~Leaves(i) /\ at'[d] > i => at[d] > i
         /\ at[d] <= at'[d] /\ at[d] \in Nat /\ at'[d] \in Nat
<1>1. at[d] \in Nat /\ ActAt \in Nat
  BY RunningFinite DEF FusedTypeOK, ActAt
<1>2. ActAt' = ActAt
  BY LaunchKept
<1>3. ASSUME NEW i \in Nat, ~Leaves(i), at'[d] > i PROVE at[d] > i
  <2>1. at[d] = i => at'[d] = i
    BY <1>3 DEF Leaves
  <2> QED BY <1>1, <1>3, <2>1
<1> QED BY <1>1, <1>2, <1>3

LEMMA BuffersStay ==
  ASSUME LaunchShaped(kernel), FusedTypeOK, BarrierTypeOK, BuffersInv,
         UNCHANGED <<kernel, grid>>,
         \A d \in Running : at'[d] \in {at[d], at[d] + 1},
         \A p \in Gemms : \A x : Stored(p, x)' <=> Stored(p, x)
  PROVE  /\ UNCHANGED fc1 => Fc1Inv'
         /\ UNCHANGED act /\ ~Leaves(ActAt) => ActInv'
         /\ UNCHANGED fc2 /\ (kernel.mode = "packed" => ~Leaves(5)) => Fc2Inv'
         /\ UNCHANGED out /\ (kernel.mode # "packed" => ~Leaves(1)) => OutInv'
         /\ DOMAIN fc1' = DOMAIN fc1 /\ DOMAIN act' = DOMAIN act
            /\ DOMAIN fc2' = DOMAIN fc2 /\ DOMAIN out' = DOMAIN out => DomainInv'
<1>1. Running' = Running /\ LiveRoutes' = LiveRoutes /\ grid \in 1..MaxGrid
  BY LaunchKept DEF LiveRoutes, BarrierTypeOK
<1>2. DomainInv /\ Fc1Inv /\ ActInv /\ Fc2Inv /\ OutInv
  BY DEF BuffersInv
<1>3. \A k, x : StrideOf(k, x)' = StrideOf(k, x)
  BY DEF StrideOf
<1>4. \A d \in Running :
         /\ ~Leaves(ActAt) /\ at'[d] > ActAt' => at[d] > ActAt
         /\ \A i \in Nat : ~Leaves(i) /\ at'[d] > i => at[d] > i
         /\ at[d] <= at'[d] /\ at[d] \in Nat /\ at'[d] \in Nat
  BY PlacesKept
<1>5. /\ \A x \in DOMAIN act : StrideOf(kernel.k2, x) \in Running
      /\ \A x \in DOMAIN fc2 : StrideOf(kernel.n2, x) \in Running
      /\ \A x \in DOMAIN out : StrideOf(kernel.n2, x) \in Running
  BY <1>1, <1>2, CellStrides
<1>6. UNCHANGED fc1 => Fc1Inv'
  <2>1. \A x : Stored("fc1", x)' <=> Stored("fc1", x)
    BY DEF Gemms
  <2>2. (kernel.mode = "packed" => \A c \in Running : at'[c] <= 5)
          => (kernel.mode = "packed" => \A c \in Running : at[c] <= 5)
    BY <1>4
  <2> QED BY <1>1, <1>2, <2>1, <2>2 DEF Fc1Inv
<1>7. ASSUME UNCHANGED act, ~Leaves(ActAt) PROVE ActInv'
  <2>1. ASSUME NEW x \in DOMAIN act, x[1] \in LiveRoutes,
               at'[StrideOf(kernel.k2, x)'] > ActAt'
        PROVE  act[x] = "good"
    <3>1. PICK d \in Running : d = StrideOf(kernel.k2, x)
      BY <1>5
    <3>2. at[d] > ActAt
      BY <1>3, <1>4, <1>7, <2>1, <3>1
    <3> QED BY <1>2, <2>1, <3>1, <3>2 DEF ActInv
  <2>2. \A x : StrideOf(kernel.k2, x)' = StrideOf(kernel.k2, x)
    BY <1>3
  <2>3. ASSUME NEW x \in DOMAIN act, x[1] \in LiveRoutes, (at[StrideOf(kernel.k2, x)] > ActAt)'
        PROVE  act[x] = "good"
    BY <2>1, <2>3
  <2> QED BY <1>1, <1>7, <2>3 DEF ActInv
<1>8. ASSUME UNCHANGED fc2, kernel.mode = "packed" => ~Leaves(5) PROVE Fc2Inv'
  <2> SUFFICES ASSUME kernel.mode = "packed", NEW x \in DOMAIN fc2
               PROVE  /\ Stored("fc2", x)' => fc2[x] = "good"
                      /\ x[1] \notin LiveRoutes /\ (at[StrideOf(kernel.n2, x)] > 5)' => fc2[x] = "zero"
    BY <1>1, <1>8 DEF Fc2Inv
  <2>1. PICK d \in Running : d = StrideOf(kernel.n2, x)
    BY <1>5
  <2>2. StrideOf(kernel.n2, x)' = d
    BY <2>1 DEF StrideOf
  <2>3. (at[StrideOf(kernel.n2, x)] > 5)' => at[d] > 5
    BY <1>4, <1>8, <2>2
  <2>4. Stored("fc2", x)' <=> Stored("fc2", x)
    BY DEF Gemms
  <2> QED BY <1>2, <2>1, <2>3, <2>4 DEF Fc2Inv
<1>9. ASSUME UNCHANGED out, kernel.mode # "packed" => ~Leaves(1) PROVE OutInv'
  <2> SUFFICES ASSUME kernel.mode # "packed", NEW x \in DOMAIN out,
                      (at[StrideOf(kernel.n2, x)] > 1)'
               PROVE  out[x] = {r \in LiveRoutes : r \div TopK = x[1] /\ Stored("fc2", <<r, x[2]>>)'}
    BY <1>1, <1>9 DEF OutInv
  <2>1. PICK d \in Running : d = StrideOf(kernel.n2, x)
    BY <1>5
  <2>2. StrideOf(kernel.n2, x)' = d
    BY <2>1 DEF StrideOf
  <2>3. at[d] > 1
    BY <1>4, <1>9, <2>2
  <2>4. \A y : Stored("fc2", y)' <=> Stored("fc2", y)
    BY DEF Gemms
  <2>5. out[x] = {r \in LiveRoutes : r \div TopK = x[1] /\ Stored("fc2", <<r, x[2]>>)}
    BY <1>2, <2>1, <2>3 DEF OutInv
  <2> QED BY <2>4, <2>5
<1>10. DOMAIN fc1' = DOMAIN fc1 /\ DOMAIN act' = DOMAIN act
       /\ DOMAIN fc2' = DOMAIN fc2 /\ DOMAIN out' = DOMAIN out => DomainInv'
  BY <1>2 DEF DomainInv
<1> QED BY <1>6, <1>7, <1>8, <1>9, <1>10

\* The two columns of FC1 a unit is made of.
LEMMA UnitColumns ==
  ASSUME NEW n \in Nat \ {0}, NEW k \in Nat \ {0}, NEW j \in 0..k-1
  PROVE  /\ (j * n) \div (2 * k) \in 0..n-1
         /\ ((k + j) * n) \div (2 * k) \in 0..n-1
<1>1. ASSUME NEW i \in Nat, i < 2 * k PROVE (i * n) \div (2 * k) \in 0..n-1
  <2>1. PICK m \in Nat : m = 2 * k /\ m > 0 /\ i < m
    BY <1>1
  <2>2. i * n \in Nat /\ m * n \in Nat /\ i * n + n <= m * n
    BY <2>1, ProductStrict
  <2>3. m * n = n * m
    BY <2>1
  <2>4. i * n \in 0..n*m-1
    BY <2>2, <2>3
  <2>5. (i * n) \div m \in 0..n-1
    BY <2>1, <2>4, CellParts
  <2> QED BY <2>1, <2>5
<1> QED BY <1>1

\* FC1 is complete, and not yet written over, when its activation begins.
LEMMA ActivatedGood ==
  ASSUME BarrierTypeOK, BarrierInv, LaunchShaped(kernel), LaunchExact(kernel),
         \A d \in Running : CtaInv(d), DomainInv, Fc1Inv,
         NEW c \in Running, Phase(c) = "act", at[c] = ActAt,
         NEW r \in LiveRoutes, NEW j \in 0..kernel.k2-1
  PROVE  Activated(r, j) = "good"
<1>0. kernel.n1 \in Nat \ {0} /\ kernel.k2 \in Nat \ {0} /\ NTiles("fc1") = kernel.n1
      /\ grid \in 1..MaxGrid /\ "fc1" \in Gemms
  BY DEF LaunchShaped, NTiles, BarrierTypeOK, Gemms
<1>1. \A d \in Running : at[d] > GemmAt("fc1") /\ (kernel.mode = "packed" => at[d] <= 5)
  BY PlacesApart
<1>2. \A t \in 0..Tiles("fc1")-1 : TileStored("fc1", t)
  <2>1. \A t \in 0..Tiles("fc1")-1 : FirstOf("fc1", t) \in Running
    BY <1>0, HoldersInGrid
  <2> QED BY <1>1, <2>1 DEF TileStored
<1>3. ASSUME NEW n \in 0..kernel.n1-1 PROVE fc1[<<r, n>>] = "good"
  <2>1. Stored("fc1", <<r, n>>)
    BY <1>0, <1>2, LiveIsStored
  <2>2. <<r, n>> \in DOMAIN fc1
    BY DEF DomainInv, LiveRoutes
  <2> QED BY <1>1, <2>1, <2>2 DEF Fc1Inv
<1>4. /\ (j * kernel.n1) \div (2 * kernel.k2) \in 0..kernel.n1-1
      /\ ((kernel.k2 + j) * kernel.n1) \div (2 * kernel.k2) \in 0..kernel.n1-1
  BY <1>0, UnitColumns
<1>5. /\ fc1[<<r, (j * kernel.n1) \div (2 * kernel.k2)>>] = "good"
      /\ fc1[<<r, ((kernel.k2 + j) * kernel.n1) \div (2 * kernel.k2)>>] = "good"
  BY <1>3, <1>4
<1> QED BY <1>5 DEF Activated

\* The phases every CTA runs on its own stride: nobody has begun with FC2, or
\* everybody is done with FC1.
LEMMA MovesBuffers ==
  ASSUME BarrierTypeOK, BarrierInv, FusedTypeOK, KernelInv, LaunchExact(kernel), BuffersInv,
         NEW c \in Running, MovesOn(c),
         \/ Start(c) \/ ZeroOutput(c) \/ Activate(c) \/ ClearFc2(c) \/ EndGemm(c)
         \/ LeaveBarrier(c)
  PROVE  BuffersInv'
<1>0. /\ Running \subseteq CTAs /\ c \in CTAs /\ LaunchShaped(kernel) /\ grid \in 1..MaxGrid
      /\ \A d \in Running : CtaInv(d)
      /\ UNCHANGED <<kernel, grid>>
  BY RunningFinite DEF BarrierTypeOK, KernelInv, MovesOn
<1>1. /\ kernel.mode \in Modes /\ at[c] \in 0..ExitAt
      /\ DomainInv /\ Fc1Inv /\ ActInv /\ Fc2Inv /\ OutInv
  BY <1>0, CtaPlace DEF BuffersInv
<1>2. \A d \in Running : at'[d] = IF d = c THEN at[c] + 1 ELSE at[d]
  BY <1>0 DEF MovesOn, FusedTypeOK
<1>3. \A d \in Running : at'[d] \in {at[d], at[d] + 1}
  BY <1>2
<1>4. \A p \in Gemms : \A x : Stored(p, x)' <=> Stored(p, x)
  BY <1>0, StoredMoves
<1>5. \A i : Leaves(i) => i = at[c]
  BY <1>2 DEF Leaves
<1>6. /\ UNCHANGED fc1 => Fc1Inv'
      /\ UNCHANGED act /\ ~Leaves(ActAt) => ActInv'
      /\ UNCHANGED fc2 /\ (kernel.mode = "packed" => ~Leaves(5)) => Fc2Inv'
      /\ UNCHANGED out /\ (kernel.mode # "packed" => ~Leaves(1)) => OutInv'
      /\ DOMAIN fc1' = DOMAIN fc1 /\ DOMAIN act' = DOMAIN act
         /\ DOMAIN fc2' = DOMAIN fc2 /\ DOMAIN out' = DOMAIN out => DomainInv'
  BY <1>0, <1>3, <1>4, BuffersStay
<1>7. /\ Phase(c) = "queued" <=> at[c] = 0
      /\ InGemm(c) <=> at[c] = GemmAt("fc1") \/ at[c] = GemmAt("fc2")
      /\ Phase(c) = "barrier" <=> at[c] \in Barriers
      /\ Phase(c) = "zero" <=> kernel.mode # "packed" /\ at[c] = 1
      /\ Phase(c) = "act" <=> at[c] = ActAt
      /\ Phase(c) = "clear" <=> kernel.mode = "packed" /\ at[c] = 5
  BY <1>1, PlacesAre
<1>8. LiveRoutes' = LiveRoutes /\ \A k, x : StrideOf(k, x)' = StrideOf(k, x)
  BY <1>0 DEF LiveRoutes, StrideOf
<1>9. /\ \A x \in DOMAIN act : StrideOf(kernel.k2, x) \in Running
      /\ \A x \in DOMAIN fc2 : StrideOf(kernel.n2, x) \in Running
      /\ \A x \in DOMAIN out : StrideOf(kernel.n2, x) \in Running
  BY <1>0, <1>1, CellStrides
<1>10. CASE Start(c) \/ EndGemm(c) \/ LeaveBarrier(c)
  <2>1. UNCHANGED <<fc1, act, fc2, out>>
    BY <1>10 DEF Start, EndGemm, LeaveBarrier
  <2>2. at[c] # ActAt /\ (kernel.mode = "packed" => at[c] # 5)
        /\ (kernel.mode # "packed" => at[c] # 1)
    <3>1. at[c] = 0 \/ at[c] \in Barriers \/ at[c] = GemmAt("fc1") \/ at[c] = GemmAt("fc2")
      BY <1>7, <1>10 DEF Start, EndGemm, LeaveBarrier
    <3> QED BY <3>1 DEF Barriers, GemmAt, ActAt
  <2> QED BY <1>5, <1>6, <2>1, <2>2 DEF BuffersInv
<1>11. CASE ZeroOutput(c)
  <2>1. UNCHANGED <<fc1, act, fc2>> /\ Phase(c) = "zero"
        /\ out' = Written(out, Strided(kernel.tokens, kernel.n2, c), {})
    BY <1>11 DEF ZeroOutput
  <2>2. kernel.mode # "packed" /\ at[c] = 1 /\ ~Leaves(ActAt) /\ DOMAIN out' = DOMAIN out
    BY <1>5, <1>7, <2>1 DEF ActAt, Written
  <2>3. ASSUME NEW x \in DOMAIN out, (at[StrideOf(kernel.n2, x)] > 1)'
        PROVE  out'[x] = {r \in LiveRoutes : r \div TopK = x[1] /\ Stored("fc2", <<r, x[2]>>)'}
    <3>1. PICK d \in Running : d = StrideOf(kernel.n2, x)
      BY <1>9
    <3>2. at'[d] > 1
      <4>1. StrideOf(kernel.n2, x)' = d
        BY <1>0, <3>1 DEF StrideOf
      <4> QED BY <2>3, <4>1
    <3>3. CASE d = c
      <4>1. x \in Strided(kernel.tokens, kernel.n2, c)
        BY <1>1, <3>1, <3>3 DEF Strided, StrideOf, DomainInv
      <4>2. out'[x] = {}
        BY <2>1, <2>3, <4>1 DEF Written
      <4>3. \A y : ~Stored("fc2", y)
        <5>1. \A e \in Running : at[e] \in 0..ExitAt /\ at[e] < GemmAt("fc2")
          BY <1>0, <2>1, <2>2, PlacesApart
        <5>2. GemmAt("fc2") \in Int /\ ExitAt \in Int
          BY DEF GemmAt, ExitAt
        <5>3. \A t \in 0..Tiles("fc2")-1 : FirstOf("fc2", t) \in Running
          BY <1>0, HoldersInGrid DEF Gemms
        <5>4. \A t \in 0..Tiles("fc2")-1 : ~TileStored("fc2", t)
          BY <5>1, <5>2, <5>3 DEF TileStored
        <5> QED BY <5>4 DEF Stored
      <4>4. \A y : ~Stored("fc2", y)'
        BY <1>4, <4>3 DEF Gemms
      <4> QED BY <4>2, <4>4
    <3>4. CASE d # c
      <4>1. x \notin Strided(kernel.tokens, kernel.n2, c)
        BY <3>1, <3>4 DEF Strided, StrideOf
      <4>2. out'[x] = out[x] /\ at[d] > 1
        BY <1>2, <2>1, <2>3, <3>2, <3>4, <4>1 DEF Written
      <4>3. out[x] = {r \in LiveRoutes : r \div TopK = x[1] /\ Stored("fc2", <<r, x[2]>>)}
        BY <1>1, <2>2, <3>1, <4>2 DEF OutInv
      <4>4. \A y : Stored("fc2", y)' <=> Stored("fc2", y)
        BY <1>4 DEF Gemms
      <4> QED BY <4>2, <4>3, <4>4
    <3> QED BY <3>3, <3>4
  <2>4. OutInv'
    BY <1>0, <1>8, <2>2, <2>3 DEF OutInv
  <2> QED BY <1>6, <2>1, <2>2, <2>4 DEF BuffersInv
<1>12. CASE Activate(c)
  <2>1. UNCHANGED <<fc1, fc2, out>> /\ Phase(c) = "act"
        /\ act' = [x \in DOMAIN act |->
                     IF x \in Strided(kernel.tokens * TopK, kernel.k2, c)
                     THEN Activated(x[1], x[2]) ELSE act[x]]
    BY <1>12 DEF Activate
  <2>2. at[c] = ActAt /\ (kernel.mode = "packed" => ~Leaves(5))
        /\ (kernel.mode # "packed" => ~Leaves(1)) /\ DOMAIN act' = DOMAIN act
    <3>1. at[c] = ActAt /\ DOMAIN act' = DOMAIN act
      BY <1>7, <2>1
    <3> QED BY <1>5, <3>1 DEF ActAt
  <2>3. ASSUME NEW x \in DOMAIN act, x[1] \in LiveRoutes, (at[StrideOf(kernel.k2, x)] > ActAt)'
        PROVE  act'[x] = "good"
    <3>1. PICK d \in Running : d = StrideOf(kernel.k2, x)
      BY <1>9
    <3>2. at'[d] > ActAt
      <4>1. ActAt' = ActAt
        BY <1>0, LaunchKept
      <4>2. StrideOf(kernel.k2, x)' = d
        BY <1>0, <3>1 DEF StrideOf
      <4> QED BY <2>3, <4>1, <4>2
    <3>3. CASE d = c
      <4>1. x \in Strided(kernel.tokens * TopK, kernel.k2, c)
        BY <1>1, <3>1, <3>3 DEF Strided, StrideOf, DomainInv
      <4>2. act'[x] = Activated(x[1], x[2])
        BY <2>1, <2>3, <4>1
      <4>3. x[2] \in 0..kernel.k2-1
        BY <1>1, <2>3 DEF DomainInv
      <4>4. Activated(x[1], x[2]) = "good"
        BY <1>0, <1>1, <2>1, <2>2, <2>3, <4>3, ActivatedGood
      <4> QED BY <4>2, <4>4
    <3>4. CASE d # c
      <4>1. x \notin Strided(kernel.tokens * TopK, kernel.k2, c)
        BY <3>1, <3>4 DEF Strided, StrideOf
      <4>2. act'[x] = act[x] /\ at[d] > ActAt
        BY <1>2, <2>1, <2>3, <3>2, <3>4, <4>1
      <4> QED BY <1>1, <2>3, <3>1, <4>2 DEF ActInv
    <3> QED BY <3>3, <3>4
  <2>4. ActInv'
    BY <1>0, <1>8, <2>2, <2>3 DEF ActInv
  <2> QED BY <1>6, <2>1, <2>2, <2>4 DEF BuffersInv
<1>13. CASE ClearFc2(c)
  <2>1. UNCHANGED <<act, out>> /\ Phase(c) = "clear"
        /\ fc2' = Written(fc2, Strided(kernel.tokens * TopK, kernel.n2, c), "zero")
        /\ DOMAIN fc1' = DOMAIN fc1
    BY <1>13 DEF ClearFc2, Clobber
  <2>2. kernel.mode = "packed" /\ at[c] = 5 /\ ~Leaves(ActAt) /\ DOMAIN fc2' = DOMAIN fc2
    BY <1>5, <1>7, <2>1 DEF ActAt, Written
  <2>3. Fc1Inv'
    <3>1. c \in Running' /\ at'[c] = 6 /\ kernel'.mode = "packed"
      BY <1>0, <1>2, <2>2, LaunchKept
    <3> QED BY <3>1 DEF Fc1Inv
  <2>4. \A y : ~Stored("fc2", y)'
    <3>1. \A e \in Running : at[e] \in 0..ExitAt /\ at[e] < GemmAt("fc2")
      BY <1>0, <2>1, <2>2, PlacesApart
    <3>2. GemmAt("fc2") \in Int /\ ExitAt \in Int
      BY DEF GemmAt, ExitAt
    <3>3. \A t \in 0..Tiles("fc2")-1 : FirstOf("fc2", t) \in Running
      BY <1>0, HoldersInGrid DEF Gemms
    <3>4. \A t \in 0..Tiles("fc2")-1 : ~TileStored("fc2", t)
      BY <3>1, <3>2, <3>3 DEF TileStored
    <3>5. \A y : ~Stored("fc2", y)
      BY <3>4 DEF Stored
    <3> QED BY <1>4, <3>5 DEF Gemms
  <2>5. ASSUME NEW x \in DOMAIN fc2, x[1] \notin LiveRoutes, (at[StrideOf(kernel.n2, x)] > 5)'
        PROVE  fc2'[x] = "zero"
    <3>1. PICK d \in Running : d = StrideOf(kernel.n2, x)
      BY <1>9
    <3>2. at'[d] > 5
      <4>1. StrideOf(kernel.n2, x)' = d
        BY <1>0, <3>1 DEF StrideOf
      <4> QED BY <2>5, <4>1
    <3>3. CASE d = c
      <4>1. x \in Strided(kernel.tokens * TopK, kernel.n2, c)
        BY <1>1, <3>1, <3>3 DEF Strided, StrideOf, DomainInv
      <4> QED BY <2>1, <2>5, <4>1 DEF Written
    <3>4. CASE d # c
      <4>1. x \notin Strided(kernel.tokens * TopK, kernel.n2, c)
        BY <3>1, <3>4 DEF Strided, StrideOf
      <4>2. fc2'[x] = fc2[x] /\ at[d] > 5
        BY <1>2, <2>1, <2>5, <3>2, <3>4, <4>1 DEF Written
      <4> QED BY <1>1, <2>2, <2>5, <3>1, <4>2 DEF Fc2Inv
    <3> QED BY <3>3, <3>4
  <2>6. Fc2Inv'
    BY <1>0, <1>8, <2>2, <2>4, <2>5 DEF Fc2Inv
  <2> QED BY <1>6, <2>1, <2>2, <2>3, <2>6 DEF BuffersInv
<1> QED BY <1>10, <1>11, <1>12, <1>13

\* Steps that write no buffer and store no tile.
LEMMA WorkBuffers ==
  ASSUME BarrierTypeOK, FusedTypeOK, KernelInv, BuffersInv, NEW c \in Running,
         InBarrier(c) \/ RunTile(c) \/ Combine(c) \/ Publish(c)
  PROVE  BuffersInv'
<1>0. /\ LaunchShaped(kernel) /\ CtaInv(c)
      /\ UNCHANGED <<kernel, grid, at, fc1, act, fc2, out>>
  BY DEF KernelInv, InBarrier, ReadSense, Arrive, ResetCount, kernelVars,
         RunTile, Combine, Publish, barrierVars
<1>1. \A p \in Gemms : \A x : Stored(p, x)' <=> Stored(p, x)
  <2>1. CASE todo' = todo
    BY <1>0, <2>1, StoredKept
  <2>2. CASE todo' # todo
    <3>1. Publish(c) /\ ~LastSlice(Segment(c))
      BY <2>2 DEF InBarrier, RunTile, Combine, Publish, kernelVars
    <3>2. InGemm(c) /\ todo[c] # {} /\ todo' = [todo EXCEPT ![c] = @ \ {Segment(c)}]
      BY <1>0, <3>1 DEF Publish, NextSegment, CtaInv
    <3>3. c # FirstOf(Phase(c), Segment(c).tile)
      BY <1>0, <3>1, <3>2, SegmentIs
    <3>4. ASSUME NEW p \in Gemms, NEW t \in 0..Tiles(p)-1, LiveTile(p, t)
          PROVE  TileStored(p, t)' <=> TileStored(p, t)
      <4>1. ~(p = Phase(c) /\ t = Segment(c).tile /\ c = FirstOf(p, t))
        BY <3>3
      <4> QED BY <1>0, <3>2, <3>4, <4>1, StoredWorks
    <3> QED BY <1>0, <3>4, StoredDepends
  <2> QED BY <2>1, <2>2
<1>2. /\ \A d \in Running : at'[d] \in {at[d], at[d] + 1}
      /\ \A i : ~Leaves(i)
  BY <1>0 DEF Leaves
<1>3. Fc1Inv' /\ ActInv' /\ Fc2Inv' /\ OutInv' /\ DomainInv'
  BY <1>0, <1>1, <1>2, BuffersStay
<1> QED BY <1>3 DEF BuffersInv

\* The tile a CTA stores: every k tile summed once, under its routes' expert.
LEMMA ResultsGood ==
  ASSUME BarrierTypeOK, FusedTypeOK, KernelInv, LaunchExact(kernel), SumsInv,
         NEW c \in Running, StoreTile(c), NEW p \in Gemms, p = Phase(c),
         NEW t, t = Segment(c).tile
  PROVE  /\ InGemm(c) /\ todo[c] # {} /\ at[c] = GemmAt(p)
         /\ t \in 0..Tiles(p)-1 /\ LiveTile(p, t) /\ c = FirstOf(p, t)
         /\ ~TileStored(p, t)
         /\ Rows(c) = BlockOf(p, t).rows
         /\ \A r \in Rows(c) : r \in LiveRoutes /\ Result(c, r) = "good"
<1>0. LaunchShaped(kernel) /\ CtaInv(c) /\ InGemm(c) /\ step[c] = "store" /\ todo[c] # {}
  BY DEF KernelInv, StoreTile, CtaInv
<1>1. SumInv(c)
  BY <1>0 DEF SumsInv
<1>2. /\ at[c] = GemmAt(p) /\ t \in 0..Tiles(p)-1 /\ LiveTile(p, t)
      /\ Segment(c) \in todo[c]
      /\ LastSlice(Segment(c)) <=> c = FirstOf(p, t)
  BY <1>0, SegmentIs
<1>3. acc[c] = 0..KTiles(p)-1 /\ c = FirstOf(p, t)
  BY <1>0, <1>1, <1>2 DEF SumInv
<1>4. Rows(c) = BlockOf(p, t).rows
  BY DEF Rows
<1>5. ~TileStored(p, t)
  <2>1. ~(at[c] > GemmAt(p)) /\ \E s \in todo[c] : s.tile = t
    <3>1. GemmAt(p) \in Int
      BY DEF GemmAt
    <3> QED BY <1>2, <3>1
  <2> QED BY <1>3, <2>1 DEF TileStored
<1>6. ASSUME NEW r \in Rows(c) PROVE r \in LiveRoutes /\ Result(c, r) = "good"
  <2>1. r \in LiveRoutes /\ kernel.local[r] = BlockOf(p, t).expert
    BY <1>0, <1>2, <1>4, CellsAreLive
  <2> QED BY <1>3, <2>1 DEF Result
<1> QED BY <1>0, <1>2, <1>3, <1>4, <1>5, <1>6

LEMMA StoreBuffers ==
  ASSUME BarrierTypeOK, BarrierInv, FusedTypeOK, KernelInv, LaunchExact(kernel), SumsInv,
         BuffersInv, NEW c \in Running, StoreTile(c)
  PROVE  BuffersInv'
<1>0. /\ LaunchShaped(kernel) /\ \A d \in Running : CtaInv(d)
      /\ UNCHANGED <<kernel, grid, at, act>> /\ grid \in 1..MaxGrid
  BY DEF KernelInv, StoreTile, barrierVars, BarrierTypeOK
<1>1. kernel.mode \in Modes /\ at[c] \in 0..ExitAt
      /\ DomainInv /\ Fc1Inv /\ ActInv /\ Fc2Inv /\ OutInv
  BY <1>0, CtaPlace DEF BuffersInv
<1>2. Phase(c) \in Gemms
  BY DEF StoreTile, InGemm, Gemms
<1>20. PICK p \in Gemms : p = Phase(c)
  BY <1>2
<1>21. PICK t, n : t = Segment(c).tile /\ n = ColumnOf(p, t)
  OBVIOUS
<1>3. p = Phase(c) /\ t = Segment(c).tile /\ n = ColumnOf(p, t)
  BY <1>20, <1>21
<1>4. /\ InGemm(c) /\ todo[c] # {} /\ at[c] = GemmAt(p)
      /\ t \in 0..Tiles(p)-1 /\ LiveTile(p, t) /\ c = FirstOf(p, t)
      /\ ~TileStored(p, t)
      /\ Rows(c) = BlockOf(p, t).rows
      /\ \A r \in Rows(c) : r \in LiveRoutes /\ Result(c, r) = "good"
  BY <1>3, ResultsGood
<1>5. todo' = [todo EXCEPT ![c] = @ \ {Segment(c)}]
  BY DEF StoreTile, NextSegment
\* The tile's cells are stored now, and no others.
<1>6. ASSUME NEW q \in Gemms, NEW u \in 0..Tiles(q)-1, LiveTile(q, u)
      PROVE  TileStored(q, u)' <=> TileStored(q, u) \/ (q = p /\ u = t)
  <2>1. TileStored(q, u)' <=> TileStored(q, u) \/ (q = Phase(c) /\ u = Segment(c).tile /\ c = FirstOf(q, u))
    BY <1>0, <1>4, <1>5, <1>6, StoredWorks
  <2> QED BY <1>3, <1>4, <2>1
<1>7. \A x : CellOf(p, t, x) <=> x[1] \in Rows(c) /\ x[2] = n
  BY <1>3, <1>4 DEF CellOf
<1>8. /\ \A x : Stored(p, x)' <=> Stored(p, x) \/ CellOf(p, t, x)
      /\ \A q \in Gemms \ {p} : \A x : Stored(q, x)' <=> Stored(q, x)
  <2>1. \A q : /\ Tiles(q)' = Tiles(q)
               /\ \A u, x : CellOf(q, u, x)' <=> CellOf(q, u, x)
    BY <1>0, LaunchKept DEF CellOf
  <2>2. \A q, u, x : CellOf(q, u, x) => LiveTile(q, u)
    BY DEF CellOf
  <2>3. ASSUME NEW q \in Gemms, NEW x
        PROVE  Stored(q, x)' <=> \E u \in 0..Tiles(q)-1 :
                  CellOf(q, u, x) /\ (TileStored(q, u) \/ (q = p /\ u = t))
    BY <1>6, <2>1, <2>2 DEF Stored
  <2>4. \A x : Stored(p, x)' <=> Stored(p, x) \/ CellOf(p, t, x)
    BY <1>4, <2>3 DEF Stored
  <2>5. \A q \in Gemms \ {p} : \A x : Stored(q, x)' <=> Stored(q, x)
    BY <2>3 DEF Stored
  <2> QED BY <2>4, <2>5
\* A cell of the tile has not been stored before.
<1>9. \A x : CellOf(p, t, x) => ~Stored(p, x)
  <2>1. ASSUME NEW x, CellOf(p, t, x), Stored(p, x) PROVE FALSE
    <3>1. PICK u \in 0..Tiles(p)-1 : CellOf(p, u, x) /\ TileStored(p, u)
      BY <2>1 DEF Stored
    <3>2. u = t
      BY <1>0, <1>4, <2>1, <3>1, TilesApart
    <3> QED BY <1>4, <3>1, <3>2
  <2> QED BY <2>1
<1>10. LiveRoutes' = LiveRoutes /\ (\A k, x : StrideOf(k, x)' = StrideOf(k, x))
       /\ ActAt' = ActAt /\ Running' = Running
  BY <1>0, LaunchKept DEF LiveRoutes, StrideOf
<1>11. ActInv'
  <2>1. \A x : StrideOf(kernel.k2, x)' = StrideOf(kernel.k2, x)
    BY <1>0 DEF StrideOf
  <2> QED BY <1>0, <1>1, <1>10, <2>1 DEF ActInv
<1>12. CASE p = "fc1"
  <2>1. /\ fc1' = [x \in DOMAIN fc1 |-> IF x \in Rows(c) \X {n} THEN Result(c, x[1]) ELSE fc1[x]]
        /\ UNCHANGED <<fc2, out>>
    BY <1>3, <1>12 DEF StoreTile
  <2>2. \A x : Stored("fc2", x)' <=> Stored("fc2", x)
    BY <1>8, <1>12 DEF Gemms
  <2>3. Fc1Inv'
    <3> SUFFICES ASSUME kernel.mode = "packed" => \A d \in Running : at[d] <= 5,
                        NEW x \in DOMAIN fc1, Stored("fc1", x)'
                 PROVE  fc1'[x] = "good"
      BY <1>0, <1>10, <2>1 DEF Fc1Inv
    <3>1. CASE x \in Rows(c) \X {n}
      BY <1>4, <2>1, <3>1
    <3>2. CASE x \notin Rows(c) \X {n}
      <4>1. ~CellOf("fc1", t, x)
        BY <1>1, <1>7, <1>12, <3>2 DEF DomainInv
      <4>2. Stored("fc1", x)
        BY <1>8, <1>12, <4>1
      <4> QED BY <1>1, <2>1, <3>2, <4>2 DEF Fc1Inv
    <3> QED BY <3>1, <3>2
  <2>4. Fc2Inv'
    <3>1. \A x : StrideOf(kernel.n2, x)' = StrideOf(kernel.n2, x)
      BY <1>0 DEF StrideOf
    <3> QED BY <1>0, <1>1, <1>10, <2>1, <2>2, <3>1 DEF Fc2Inv
  <2>5. OutInv'
    <3>1. \A x : StrideOf(kernel.n2, x)' = StrideOf(kernel.n2, x)
      BY <1>0 DEF StrideOf
    <3> QED BY <1>0, <1>1, <1>10, <2>1, <2>2, <3>1 DEF OutInv
  <2>6. DomainInv'
    BY <1>0, <1>1, <2>1 DEF DomainInv
  <2> QED BY <1>11, <2>3, <2>4, <2>5, <2>6 DEF BuffersInv
<1>13. CASE p = "fc2" /\ kernel.mode = "packed"
  <2>1. /\ fc2' = [x \in DOMAIN fc2 |-> IF x \in Rows(c) \X {n} THEN Result(c, x[1]) ELSE fc2[x]]
        /\ DOMAIN fc1' = DOMAIN fc1 /\ out' = out
    BY <1>3, <1>13 DEF StoreTile, Clobber
  <2>2. Fc1Inv'
    <3>1. at'[c] = 7 /\ kernel'.mode = "packed" /\ c \in Running'
      BY <1>0, <1>4, <1>10, <1>13 DEF GemmAt
    <3> QED BY <3>1 DEF Fc1Inv
  <2>3. Fc2Inv'
    <3> SUFFICES ASSUME NEW x \in DOMAIN fc2
                 PROVE  /\ Stored("fc2", x)' => fc2'[x] = "good"
                        /\ x[1] \notin LiveRoutes /\ (at[StrideOf(kernel.n2, x)] > 5)' => fc2'[x] = "zero"
      BY <1>0, <1>10, <1>13, <2>1 DEF Fc2Inv
    <3>1. StrideOf(kernel.n2, x)' = StrideOf(kernel.n2, x)
      BY <1>0 DEF StrideOf
    <3>2. CASE x \in Rows(c) \X {n}
      BY <1>4, <2>1, <3>2
    <3>3. CASE x \notin Rows(c) \X {n}
      <4>1. ~CellOf("fc2", t, x)
        BY <1>1, <1>7, <1>13, <3>3 DEF DomainInv
      <4>2. Stored("fc2", x)' <=> Stored("fc2", x)
        BY <1>8, <1>13, <4>1
      <4> QED BY <1>0, <1>1, <1>13, <2>1, <3>1, <3>3, <4>2 DEF Fc2Inv
    <3> QED BY <3>2, <3>3
  <2>4. OutInv'
    BY <1>0, <1>13 DEF OutInv
  <2>5. DomainInv'
    BY <1>0, <1>1, <2>1 DEF DomainInv
  <2> QED BY <1>11, <2>2, <2>3, <2>4, <2>5 DEF BuffersInv
<1>14. CASE p = "fc2" /\ kernel.mode # "packed"
  <2>1. /\ out' = [x \in DOMAIN out |->
                     IF x[2] # n THEN out[x]
                     ELSE Added(out[x], {r \in Rows(c) : r \div TopK = x[1]},
                                {r \in Rows(c) : Result(c, r) = "good"})]
        /\ UNCHANGED <<fc1, fc2>>
    BY <1>3, <1>14 DEF StoreTile
  <2>2. Fc1Inv'
    <3>1. \A x : Stored("fc1", x)' <=> Stored("fc1", x)
      BY <1>8, <1>14 DEF Gemms
    <3> QED BY <1>0, <1>1, <1>10, <2>1, <3>1 DEF Fc1Inv
  <2>3. Fc2Inv'
    BY <1>0, <1>14 DEF Fc2Inv
  <2>4. DomainInv'
    BY <1>0, <1>1, <2>1 DEF DomainInv
  <2>5. OutInv'
    <3> SUFFICES ASSUME NEW x \in DOMAIN out
                 PROVE  out'[x] = {r \in LiveRoutes : r \div TopK = x[1] /\ Stored("fc2", <<r, x[2]>>)'}
      BY <1>0, <1>10, <2>1 DEF OutInv
    <3>1. out[x] = {r \in LiveRoutes : r \div TopK = x[1] /\ Stored("fc2", <<r, x[2]>>)}
      <4>1. PICK d \in Running : d = StrideOf(kernel.n2, x)
        BY <1>0, <1>1, CellStrides
      <4>2. at[d] > ActAt /\ at[d] \in 0..ExitAt
        BY <1>0, <1>3, <1>4, <1>14, PlacesApart DEF InGemm
      <4>3. at[d] > 1
        BY <1>14, <4>2 DEF ActAt, ExitAt
      <4> QED BY <1>1, <1>14, <4>1, <4>3 DEF OutInv
    <3>2. \A r : Stored("fc2", <<r, x[2]>>)' <=>
                   Stored("fc2", <<r, x[2]>>) \/ (r \in Rows(c) /\ x[2] = n)
      BY <1>7, <1>8, <1>14
    <3>3. CASE x[2] # n
      BY <2>1, <3>1, <3>2, <3>3
    <3>4. CASE x[2] = n
      <4>1. PICK new : new = {r \in Rows(c) : r \div TopK = x[1]}
        OBVIOUS
      <4>2. new \subseteq {r \in Rows(c) : Result(c, r) = "good"}
        BY <1>4, <4>1
      <4>3. \A r \in Rows(c) : ~Stored("fc2", <<r, x[2]>>)
        BY <1>7, <1>9, <1>14, <3>4
      <4>4. new \intersect out[x] = {}
        BY <3>1, <4>1, <4>3
      <4>5. out'[x] = out[x] \union new
        BY <2>1, <3>4, <4>1, <4>2, <4>4 DEF Added
      <4>6. \A r \in Rows(c) : r \in LiveRoutes
        BY <1>4
      <4> QED BY <3>1, <3>2, <3>4, <4>1, <4>5, <4>6
    <3> QED BY <3>3, <3>4
  <2> QED BY <1>11, <2>2, <2>3, <2>4, <2>5 DEF BuffersInv
<1> QED BY <1>12, <1>13, <1>14 DEF Gemms

-----------------------------------------------------------------------------
(* From launch to launch.                                                  *)

SummableInv ==
  /\ LaunchShaped(kernel) /\ LaunchExact(kernel)
  /\ DOMAIN out = (0..kernel.tokens-1) \X (0..kernel.n2-1)
  /\ \A x \in (0..kernel.tokens*TopK-1) \X (0..kernel.n2-1) :
        fc2[x] = IF x[1] \in LiveRoutes THEN "good" ELSE "zero"

ExactInv ==
  /\ TmpTypeOK
  /\ stage = "kernel" => LaunchExact(kernel) /\ SumsInv /\ BuffersInv
  /\ stage = "sum" => SummableInv
  /\ CallExact

\* Nothing has been stored when a launch begins.
BuffersFresh ==
  /\ LaunchShaped(kernel) /\ grid \in 1..MaxGrid /\ DomainInv
  /\ \A c \in Running : at[c] = 0
  => BuffersInv

LEMMA BuffersStart == BuffersFresh
<1> SUFFICES ASSUME LaunchShaped(kernel), grid \in 1..MaxGrid, DomainInv,
                    \A c \in Running : at[c] = 0
             PROVE  BuffersInv
  BY DEF BuffersFresh
<1>1. \A p \in Gemms : \A x : ~Stored(p, x)
  <2>1. \A p \in Gemms : GemmAt(p) \in Nat \ {0}
    BY DEF GemmAt
  <2>2. ASSUME NEW p \in Gemms, NEW t \in 0..Tiles(p)-1 PROVE ~TileStored(p, t)
    <3>1. FirstOf(p, t) \in Running
      BY HoldersInGrid
    <3> QED BY <2>1, <3>1 DEF TileStored
  <2> QED BY <2>2 DEF Stored
<1>2. /\ \A x \in DOMAIN act : at[StrideOf(kernel.k2, x)] = 0
      /\ \A x \in DOMAIN fc2 : at[StrideOf(kernel.n2, x)] = 0
      /\ \A x \in DOMAIN out : at[StrideOf(kernel.n2, x)] = 0
  BY CellStrides
<1>3. Fc1Inv
  BY <1>1 DEF Fc1Inv, Gemms
<1>4. ActInv
  BY <1>2 DEF ActInv, ActAt
<1>5. Fc2Inv
  BY <1>1, <1>2 DEF Fc2Inv, Gemms
<1>6. OutInv
  BY <1>2 DEF OutInv
<1> QED BY <1>3, <1>4, <1>5, <1>6 DEF BuffersInv

LEMMA LaunchExactInv ==
  ASSUME BarrierTypeOK', FusedTypeOK, Quiet, KernelInv', NEW k, NEW g, Launch(k, g), LaunchExact(k)
  PROVE  TmpTypeOK' /\ LaunchExact(kernel)' /\ SumsInv' /\ BuffersInv'
<1>1. /\ kernel' = k /\ at' = [c \in CTAs |-> 0] /\ step' = step
      /\ tmp' = [p \in {"fc1", "fc2"} |-> [s \in LockSlots |-> NoTile]]
  BY DEF Launch
<1>2. TmpTypeOK'
  BY <1>1 DEF TmpTypeOK, Gemms, LockSlots
<1>3. LaunchExact(kernel)'
  BY <1>1 DEF LaunchExact
<1>4. LaunchShaped(kernel)' /\ grid' \in 1..MaxGrid
  BY DEF KernelInv, BarrierTypeOK
<1>5. Running' \subseteq CTAs
  <2>1. grid' \in Int /\ MaxGrid \in Int /\ grid' <= MaxGrid
    BY <1>4, GridAssumption
  <2>2. PICK h \in Int : h = grid' /\ h <= MaxGrid
    BY <2>1
  <2>3. 0..h-1 \subseteq 0..MaxGrid-1
    BY <2>1, <2>2, RangeInside
  <2> QED BY <2>2, <2>3 DEF Running, CTAs
<1>6. \A c \in Running' : at'[c] = 0 /\ step'[c] = "tile"
  BY <1>1, <1>5 DEF Quiet, Idle
<1>7. DomainInv'
  BY <1>1 DEF Launch, DomainInv
<1>8. BuffersInv'
  <2>1. BuffersFresh'
    BY BuffersStart, PTL
  <2>2. (\A c \in Running : at[c] = 0)'
    BY <1>6
  <2> QED BY <1>4, <1>7, <2>1, <2>2 DEF BuffersFresh
<1>9. SumsInv'
  <2>1. Early' /\ \A p \in Gemms : \A c \in Running' : at'[c] < GemmAt(p)'
    BY <1>6 DEF Early, Level, GemmAt
  <2>2. PartialsFresh'
    BY PartialsStart, PTL
  <2>3. LockInv("fc1")'
    BY <2>1 DEF KernelInv
  <2>4. \A t \in SharedTiles("fc1")' : PartialInv("fc1", t)'
    BY <1>4, <2>1, <2>2, <2>3 DEF PartialsFresh, Gemms
  <2> QED BY <1>2, <1>6, <2>1, <2>4 DEF SumsInv
<1> QED BY <1>2, <1>3, <1>8, <1>9

\* The routes of a token.
LEMMA TokenRoutes ==
  ASSUME NEW m \in Nat, NEW t \in 0..m-1
  PROVE  \A r : r \in RoutesOf(t) <=> r \in 0..m*TopK-1 /\ r \div TopK = t
<1>1. TopK \in Nat /\ TopK > 0 /\ t \in Nat /\ m*TopK \in Nat /\ t*TopK \in Nat
  BY FusedAssumption, ProductMonotone
<1>2. (t + 1)*TopK = t*TopK + TopK
  BY <1>1
<1>3. t*TopK + TopK <= m*TopK
  BY <1>1, ProductStrict
<1>6. RoutesOf(t) = t*TopK..t*TopK + TopK - 1
  <2>1. RoutesOf(t) = t*TopK..(t + 1)*TopK - 1
    BY Zenon DEF RoutesOf
  <2>2. PICK a, b : a = t*TopK + TopK /\ b = (t + 1)*TopK
    OBVIOUS
  <2>3. RoutesOf(t) = t*TopK..b - 1
    BY <2>1, <2>2, Zenon
  <2>4. a = b
    BY <1>2, <2>2, Zenon
  <2> QED BY <1>1, <2>2, <2>3, <2>4
<1>4. ASSUME NEW r, r \in RoutesOf(t) PROVE r \in 0..m*TopK-1 /\ r \div TopK = t
  <2>1. r \in t*TopK..t*TopK + TopK - 1
    BY <1>4, <1>6
  <2>2. PICK a : a = t*TopK
    OBVIOUS
  <2>3. PICK i \in Nat : i < TopK /\ r = a + i
    <3>1. r \in a..a + TopK - 1 /\ a \in Nat
      BY <1>1, <2>1, <2>2
    <3>2. r - a \in Nat /\ r - a < TopK /\ r = a + (r - a)
      BY <1>1, <3>1
    <3> QED BY <3>2
  <2>4. r \div TopK = t
    BY <1>1, <2>2, <2>3, PartsUnique
  <2>5. r \in 0..m*TopK-1
    BY <1>1, <1>3, <2>2, <2>3
  <2> QED BY <2>4, <2>5
<1>5. ASSUME NEW r \in 0..m*TopK-1, r \div TopK = t PROVE r \in RoutesOf(t)
  <2>1. /\ r % TopK \in 0..TopK-1 /\ r = t*TopK + (r % TopK)
    BY <1>1, <1>5, CellParts
  <2>2. r \in t*TopK..t*TopK + TopK - 1
    BY <1>1, <2>1
  <2> QED BY <1>6, <2>2
<1> QED BY <1>4, <1>5

LEMMA ResultsKept ==
  ASSUME BarrierTypeOK, FusedTypeOK, KernelInv, SumsInv, BuffersInv,
         UNCHANGED <<kernel, grid, bar, passed, at, todo, step, acc, locks, tmp, fc1, act, fc2, out>>
  PROVE  SumsInv' /\ BuffersInv'
<1>0. LaunchShaped(kernel)
  BY DEF KernelInv
<1>1. /\ Running' = Running /\ \A i : Level(i)' = Level(i)
      /\ \A p : /\ GemmAt(p)' = GemmAt(p) /\ SharedTiles(p)' = SharedTiles(p)
                /\ KTiles(p)' = KTiles(p)
      /\ \A p, e, t : EdgeAt(p, e, t)' = EdgeAt(p, e, t)
      /\ \A p, t : /\ FirstOf(p, t)' = FirstOf(p, t) /\ LastOf(p, t)' = LastOf(p, t)
                   /\ LockAt(p, t)' = LockAt(p, t)
  BY LaunchKept
<1>2. \A d : Phase(d)' = Phase(d) /\ Segment(d)' = Segment(d)
  BY <1>1, LaunchKept DEF Phase, Segment
<1>3. \A d : LastSlice(Segment(d))' <=> LastSlice(Segment(d))
  BY <1>2 DEF LastSlice
<1>4. \A d : SumInv(d) => SumInv(d)'
  BY <1>1, <1>2, <1>3 DEF SumInv
<1>5. \A p, d, t : (Pending(p, d, t)' <=> Pending(p, d, t)) /\ (Publishing(p, d, t)' <=> Publishing(p, d, t))
  BY <1>1, <1>2 DEF Pending, Publishing
<1>6. \A p, t : PartialInv(p, t) => PartialInv(p, t)'
  <2> SUFFICES ASSUME NEW p, NEW t, PartialInv(p, t) PROVE PartialInv(p, t)'
    OBVIOUS
  <2>1. Pending(p, FirstOf(p, t), t)' <=> Pending(p, FirstOf(p, t), t)
    <3>1. PICK f : f = FirstOf(p, t)
      OBVIOUS
    <3>2. Pending(p, FirstOf(p, t), t)' <=> Pending(p, f, t)'
      BY <1>1, <3>1 DEF Pending
    <3> QED BY <1>5, <3>1, <3>2
  <2> QED BY <1>1, <1>5, <2>1 DEF PartialInv
<1>7. TmpTypeOK' /\ (Early' <=> Early)
  BY <1>1 DEF TmpTypeOK, LockSlots, Early, SumsInv
<1>8. SumsInv'
  BY <1>1, <1>4, <1>6, <1>7 DEF SumsInv
<1>9. BuffersInv'
  <2>1. \A p \in Gemms : \A x : Stored(p, x)' <=> Stored(p, x)
    BY StoredKept
  <2>2. (\A d \in Running : at'[d] \in {at[d], at[d] + 1}) /\ \A i : ~Leaves(i)
    BY DEF Leaves
  <2>3. Fc1Inv' /\ ActInv' /\ Fc2Inv' /\ OutInv' /\ DomainInv'
    BY <1>0, <2>1, <2>2, BuffersStay
  <2> QED BY <2>3 DEF BuffersInv
<1> QED BY <1>8, <1>9

\* Once every CTA is through, every tile has been stored.
LEMMA EndExact ==
  ASSUME BarrierTypeOK, KernelInv, LaunchExact(kernel), BuffersInv, KernelDone
  PROVE  /\ kernel.mode = "packed" => SummableInv
         /\ kernel.mode # "packed" =>
              \A x \in DOMAIN out : out[x] = {r \in RoutesOf(x[1]) : kernel.local[r] >= 0}
<1>0. /\ LaunchShaped(kernel) /\ grid \in 1..MaxGrid
      /\ DomainInv /\ Fc2Inv /\ OutInv
  BY DEF KernelInv, BarrierTypeOK, BuffersInv
<1>1. kernel.mode \in Modes /\ \A d \in Running : at[d] = ExitAt
  <2>1. ASSUME NEW d \in Running PROVE at[d] = ExitAt
    <3>1. kernel.mode \in Modes /\ at[d] \in 0..ExitAt
      BY CtaPlace DEF KernelInv
    <3> QED BY <3>1, PlacesAre DEF KernelDone
  <2> QED BY <1>0, <2>1 DEF LaunchShaped
<1>2. ASSUME NEW r \in LiveRoutes, NEW n \in 0..kernel.n2-1 PROVE Stored("fc2", <<r, n>>)
  <2>1. \A t \in 0..Tiles("fc2")-1 : TileStored("fc2", t)
    <3>1. \A t \in 0..Tiles("fc2")-1 : FirstOf("fc2", t) \in Running
      BY <1>0, HoldersInGrid DEF Gemms
    <3>2. ExitAt > GemmAt("fc2")
      BY DEF ExitAt, GemmAt
    <3> QED BY <1>1, <3>1, <3>2 DEF TileStored
  <2>2. NTiles("fc2") = kernel.n2 /\ "fc2" \in Gemms
    BY DEF NTiles, Gemms
  <2> QED BY <1>0, <2>1, <2>2, LiveIsStored
<1>3. kernel.tokens \in Nat /\ kernel.n2 \in Nat /\ kernel.tokens*TopK \in Nat
  <2>1. kernel.tokens \in Nat /\ kernel.n2 \in Nat /\ TopK \in Nat
    BY <1>0, FusedAssumption DEF LaunchShaped
  <2> QED BY <2>1, ProductMonotone
<1>4. ASSUME kernel.mode = "packed" PROVE SummableInv
  <2>1. ASSUME NEW x \in (0..kernel.tokens*TopK-1) \X (0..kernel.n2-1)
        PROVE  fc2[x] = IF x[1] \in LiveRoutes THEN "good" ELSE "zero"
    <3>1. x \in DOMAIN fc2
      BY <1>0, <2>1 DEF DomainInv
    <3>2. PICK d \in Running : d = StrideOf(kernel.n2, x)
      BY <1>0, <3>1, CellStrides
    <3>3. at[d] > 5
      BY <1>1, <1>4 DEF ExitAt
    <3>4. CASE x[1] \in LiveRoutes
      <4>1. x = <<x[1], x[2]>> /\ x[2] \in 0..kernel.n2-1
        BY <2>1
      <4>2. Stored("fc2", x)
        BY <1>2, <3>4, <4>1
      <4> QED BY <1>0, <1>4, <3>1, <3>4, <4>2 DEF Fc2Inv
    <3>5. CASE x[1] \notin LiveRoutes
      BY <1>0, <1>4, <3>1, <3>2, <3>3, <3>5 DEF Fc2Inv
    <3> QED BY <3>4, <3>5
  <2> QED BY <1>0, <2>1 DEF SummableInv, DomainInv
<1>5. ASSUME kernel.mode # "packed", NEW x \in DOMAIN out
      PROVE  out[x] = {r \in RoutesOf(x[1]) : kernel.local[r] >= 0}
  <2>1. PICK d \in Running : d = StrideOf(kernel.n2, x)
    BY <1>0, CellStrides
  <2>2. at[d] > 1
    BY <1>1, <1>5 DEF ExitAt
  <2>3. out[x] = {r \in LiveRoutes : r \div TopK = x[1] /\ Stored("fc2", <<r, x[2]>>)}
    BY <1>0, <1>5, <2>1, <2>2 DEF OutInv
  <2>4. x[1] \in 0..kernel.tokens-1 /\ x[2] \in 0..kernel.n2-1
    BY <1>0, <1>5 DEF DomainInv
  <2>5. \A r : r \in RoutesOf(x[1]) <=> r \in 0..kernel.tokens*TopK-1 /\ r \div TopK = x[1]
    BY <1>3, <2>4, TokenRoutes
  <2>6. out[x] = {r \in LiveRoutes : r \div TopK = x[1]}
    BY <1>2, <2>3, <2>4
  <2> QED BY <2>5, <2>6 DEF LiveRoutes
<1> QED BY <1>4, <1>5

LEMMA SumExact ==
  ASSUME SummableInv, TopKSum
  PROVE  CallExact'
<1>0. /\ LaunchShaped(kernel) /\ kernel' = kernel
      /\ DOMAIN out = (0..kernel.tokens-1) \X (0..kernel.n2-1)
      /\ out' = [x \in DOMAIN out |->
                   LET rows == RoutesOf(x[1])
                       Row(r) == fc2[<<r, x[2]>>]
                   IN {r \in rows : Row(r) = "good"}
                      \union (IF \E r \in rows : Row(r) \notin {"good", "zero"}
                              THEN {Wrong} ELSE {})]
  BY DEF SummableInv, TopKSum
<1>1. kernel.tokens \in Nat
  BY <1>0 DEF LaunchShaped
<1>2. ASSUME NEW x \in DOMAIN out PROVE out'[x] = {r \in RoutesOf(x[1]) : kernel.local[r] >= 0}
  <2>1. x[1] \in 0..kernel.tokens-1 /\ x[2] \in 0..kernel.n2-1
    BY <1>0, <1>2
  <2>2. \A r : r \in RoutesOf(x[1]) <=> r \in 0..kernel.tokens*TopK-1 /\ r \div TopK = x[1]
    BY <1>1, <2>1, TokenRoutes
  <2>3. ASSUME NEW r \in RoutesOf(x[1])
        PROVE  fc2[<<r, x[2]>>] = IF kernel.local[r] >= 0 THEN "good" ELSE "zero"
    <3>1. r \in 0..kernel.tokens*TopK-1
      BY <2>2
    <3>2. PICK y \in (0..kernel.tokens*TopK-1) \X (0..kernel.n2-1) : y = <<r, x[2]>>
      BY <2>1, <3>1
    <3>3. fc2[y] = IF y[1] \in LiveRoutes THEN "good" ELSE "zero"
      BY DEF SummableInv
    <3>4. y[1] \in LiveRoutes <=> kernel.local[r] >= 0
      BY <3>1, <3>2 DEF LiveRoutes
    <3> QED BY <3>2, <3>3, <3>4
  <2>4. PICK rows : rows = RoutesOf(x[1])
    OBVIOUS
  <2>5. out'[x] = {r \in rows : fc2[<<r, x[2]>>] = "good"}
                  \union (IF \E r \in rows : fc2[<<r, x[2]>>] \notin {"good", "zero"}
                          THEN {Wrong} ELSE {})
    BY <1>0, <1>2, <2>4
  <2>6. \A r \in rows : fc2[<<r, x[2]>>] = IF kernel.local[r] >= 0 THEN "good" ELSE "zero"
    BY <2>3, <2>4
  <2>7. /\ ~ \E r \in rows : fc2[<<r, x[2]>>] \notin {"good", "zero"}
        /\ \A r \in rows : fc2[<<r, x[2]>>] = "good" <=> kernel.local[r] >= 0
    BY <2>6
  <2> QED BY <2>4, <2>5, <2>7
<1>3. DOMAIN out' = DOMAIN out
  BY <1>0
<1> QED BY <1>0, <1>2, <1>3 DEF CallExact

LEMMA ExactInvStep ==
  BarrierTypeOK /\ BarrierTypeOK' /\ BarrierInv /\ PackInv /\ FusedInv /\ FusedInv' /\ ExactInv
    /\ [MoeNext]_moeVars => ExactInv'
<1> SUFFICES ASSUME BarrierTypeOK, BarrierTypeOK', BarrierInv, PackInv, FusedInv, FusedInv',
                    ExactInv, [MoeNext]_moeVars
             PROVE  ExactInv'
  OBVIOUS
<1>1. ASSUME stage # "kernel", stage' = "kernel",
             NEW k, NEW g, LaunchShaped(k), LaunchExact(k), Launch(k, g)
      PROVE  ExactInv'
  <2>1. FusedTypeOK /\ Quiet /\ KernelInv'
    BY <1>1 DEF FusedInv
  <2>2. TmpTypeOK' /\ LaunchExact(kernel)' /\ SumsInv' /\ BuffersInv'
    BY <1>1, <2>1, LaunchExactInv
  <2> QED BY <1>1, <2>2 DEF ExactInv, CallExact
<1>2. ASSUME stage = "kernel", UNCHANGED <<packVars, callVars>>, NEW c \in Running, Cta(c)
      PROVE  ExactInv'
  <2>1. /\ FusedTypeOK /\ KernelInv /\ KernelInv' /\ LaunchExact(kernel) /\ SumsInv /\ BuffersInv
        /\ stage' = "kernel"
    BY <1>2 DEF FusedInv, ExactInv, callVars
  <2>2. SumsInv'
    BY <1>2, <2>1, SumsStep DEF BuffersInv
  <2>3. BuffersInv'
    <3>1. CASE Start(c) \/ ZeroOutput(c) \/ Activate(c) \/ ClearFc2(c) \/ EndGemm(c)
      <4>1. MovesOn(c)
        BY <1>2, <2>1, <3>1, AdvanceMovesOn DEF KernelInv
      <4> QED BY <1>2, <2>1, <3>1, <4>1, MovesBuffers
    <3>2. CASE LeaveBarrier(c)
      <4>1. MovesOn(c)
        BY <1>2, <2>1, <3>2, LeaveMovesOn DEF KernelInv
      <4> QED BY <1>2, <2>1, <3>2, <4>1, MovesBuffers
    <3>3. CASE InBarrier(c) \/ RunTile(c) \/ Combine(c) \/ Publish(c)
      BY <1>2, <2>1, <3>3, WorkBuffers
    <3>4. CASE StoreTile(c)
      BY <1>2, <2>1, <3>4, StoreBuffers
    <3> QED BY <1>2, <3>1, <3>2, <3>3, <3>4 DEF Cta
  <2>4. LaunchExact(kernel)'
    <3>1. kernel' = kernel
      BY <1>2 DEF Cta, Start, ZeroOutput, Activate, ClearFc2, RunTile, Combine, Publish,
                  StoreTile, EndGemm, InBarrier, LeaveBarrier, kernelVars
    <3> QED BY <2>1, <3>1 DEF LaunchExact
  <2> QED BY <2>1, <2>2, <2>3, <2>4 DEF ExactInv, SumsInv, CallExact
<1>3. CASE KernelEnd
  <2>1. /\ stage = "kernel" /\ KernelDone /\ UNCHANGED <<barrierVars, kernelVars>>
        /\ stage' = IF kernel.mode = "packed" THEN "sum" ELSE "returned"
    BY <1>3 DEF KernelEnd
  <2>2. /\ kernel.mode = "packed" => SummableInv
        /\ kernel.mode # "packed" =>
             \A x \in DOMAIN out : out[x] = {r \in RoutesOf(x[1]) : kernel.local[r] >= 0}
    BY <2>1, EndExact DEF FusedInv, ExactInv
  <2>3. UNCHANGED <<kernel, tmp, fc2, out>>
    BY <2>1 DEF kernelVars
  <2>4. TmpTypeOK' /\ (SummableInv => SummableInv')
    BY <2>3 DEF ExactInv, TmpTypeOK, LockSlots, SummableInv, LaunchShaped, LaunchExact, LiveRoutes
  <2> QED BY <2>1, <2>2, <2>3, <2>4 DEF ExactInv, CallExact
<1>4. CASE TopKSum
  <2>1. stage = "sum" /\ stage' = "returned" /\ tmp' = tmp
    BY <1>4 DEF TopKSum
  <2>2. CallExact'
    BY <1>4, <2>1, SumExact DEF ExactInv
  <2> QED BY <2>1, <2>2 DEF ExactInv, TmpTypeOK, LockSlots
<1>5. ASSUME UNCHANGED <<barrierVars, kernelVars>>, stage' = "pack" PROVE ExactInv'
  <2>1. tmp' = tmp
    BY <1>5 DEF kernelVars
  <2> QED BY <1>5, <2>1 DEF ExactInv, CallExact, TmpTypeOK, LockSlots
<1>6. ASSUME UNCHANGED <<barrierVars, kernelVars>>, stage' = stage PROVE ExactInv'
  <2>0. UNCHANGED <<kernel, grid, bar, passed, at, todo, step, acc, locks, tmp, fc1, act, fc2, out>>
    BY <1>6 DEF barrierVars, kernelVars
  <2>1. TmpTypeOK' /\ CallExact'
    BY <1>6, <2>0 DEF ExactInv, TmpTypeOK, LockSlots, CallExact
  <2>2. SummableInv => SummableInv'
    BY <2>0 DEF SummableInv, LaunchShaped, LaunchExact, LiveRoutes
  <2>3. ASSUME stage = "kernel" PROVE LaunchExact(kernel)' /\ SumsInv' /\ BuffersInv'
    <3>1. LaunchExact(kernel) /\ SumsInv /\ BuffersInv /\ KernelInv /\ FusedTypeOK
      BY <2>3 DEF ExactInv, FusedInv
    <3> QED BY <2>0, <3>1, ResultsKept DEF LaunchExact
  <2> QED BY <1>6, <2>1, <2>2, <2>3 DEF ExactInv
<1>7. \/ /\ stage # "kernel" /\ stage' = "kernel"
         /\ \E k, g : LaunchShaped(k) /\ LaunchExact(k) /\ Launch(k, g)
      \/ /\ stage = "kernel" /\ UNCHANGED <<packVars, callVars>>
         /\ \E c \in Running : Cta(c)
      \/ KernelEnd
      \/ TopKSum
      \/ UNCHANGED <<barrierVars, kernelVars>> /\ stage' = "pack"
      \/ UNCHANGED <<barrierVars, kernelVars>> /\ stage' = stage
  BY LaunchesAreShaped
<1> QED BY <1>1, <1>2, <1>3, <1>4, <1>5, <1>6, <1>7

\* Every call returns for each token the sum of its routes to the experts of
\* the launch, each once, over all k tiles and under the expert it asked for,
\* whatever routes it had and however its tiles were shared, and nothing that
\* an earlier launch has left in a buffer.
THEOREM CallsAreExact == MoeSpec => []CallExact
<1>1. MoeInit => ExactInv
  <2> SUFFICES ASSUME MoeInit PROVE ExactInv
    OBVIOUS
  <2>1. stage = "idle" /\ tmp = [p \in {"fc1", "fc2"} |-> [s \in LockSlots |-> NoTile]]
    BY DEF MoeInit, KernelInit
  <2> QED BY <2>1 DEF ExactInv, TmpTypeOK, CallExact, Gemms
<1>2. BarrierTypeOK /\ BarrierTypeOK' /\ BarrierInv /\ PackInv /\ FusedInv /\ FusedInv' /\ ExactInv
        /\ [MoeNext]_moeVars => ExactInv'
  BY ExactInvStep
<1>3. ExactInv => CallExact
  BY DEF ExactInv
<1> QED BY <1>1, <1>2, <1>3, FusedInvariant, PTL DEF MoeSpec

\* No CTA of a launch goes on to a phase before all have ended the one before,
\* whatever the launches before it have left in the barrier's words.
THEOREM PhasesAreSeparated == MoeSpec => []BarrierSeparates
  BY InvIsSeparating, FusedInvariant, PTL
=============================================================================
