------------------------------- MODULE MoeCall -------------------------------
(***************************************************************************)
(* Calls of the mixture-of-experts layer on one device, one after another  *)
(* on the same workspaces (run_w4a16_moe and the one-grid launch): decode  *)
(* goes to the kernel directly or in one grid over both weight tiers,      *)
(* prefill through the route-packing kernels and the top-k sum.  A serial  *)
(* layer makes one call per tier, each with the map of its tier.           *)
(***************************************************************************)
EXTENDS FusedMoe, RoutePack

CONSTANTS
  Routings,  \* the topk_ids a call may have
  TierMap,   \* TierMap[tier][id]: the expert of id in the tier, or -1
  Shapes,    \* tile counts of FC1 and FC2
  Workspaces, \* sets of launch modes that share a lock workspace
  CallBound  \* bound on the calls of a behaviour

ASSUME CallAssumption ==
  /\ CallBound \in Nat /\ MaxRoutes = MaxTokens * TopK
  /\ \A topk \in Routings : \E m \in 1..MaxTokens : topk \in [0..m*TopK-1 -> Ids]
  /\ TierMap \in [{"a", "b"} -> [Ids -> Ids \cup {-1}]]
  /\ \A s \in Shapes : {s.k1, s.n1, s.k2, s.n2} \subseteq Nat \ {0}
  /\ \A w \in Workspaces : w \subseteq {"packed", "direct", "hybrid"}

VARIABLES
  modes,   \* the launches of this workspace
  tier,    \* the tier of the current call
  shape,   \* the layer's tile counts
  stage,   \* "idle", "pack", "kernel", "sum", "returned"
  made    \* calls made

callVars == <<modes, tier, shape, stage, made>>
moeVars == <<barrierVars, kernelVars, packVars, callVars>>

MoeInit ==
  /\ BarrierInit /\ KernelInit /\ PackInit
  /\ grid = MaxGrid
  /\ kernel = <<>>
  /\ modes \in Workspaces
  /\ tier = "a"
  /\ shape \in Shapes
  /\ stage = "idle"
  /\ made = 0

-----------------------------------------------------------------------------
\* The grid: as many CTAs as the device holds at once, or for direct launches
\* the fewest whole waves of FC1's tiles, if that divides their number.
GridOf(k) ==
  LET fc1Tiles == k.tokens * TopK * k.n1
      waves == (fc1Tiles + MaxGrid - 1) \div MaxGrid
  IN IF k.mode = "direct" /\ fc1Tiles % waves = 0 THEN fc1Tiles \div waves
                                                  ELSE MaxGrid

LaunchOf(mode, m8, local, blocks) ==
  [mode |-> mode, m8 |-> m8, tokens |-> Cardinality(DOMAIN local) \div TopK,
   k1 |-> shape.k1, n1 |-> shape.n1, k2 |-> shape.k2, n2 |-> shape.n2,
   local |-> local, blocks |-> blocks]

RouteBlock(expert, r) == [expert |-> expert, rows |-> {r}]
PerRoute(local) == [b \in 1..Cardinality(DOMAIN local) |->
                      RouteBlock(local[b - 1], b - 1)]

LocalIds(topk, t) == [r \in DOMAIN topk |-> TierMap[t][topk[r]]]

\* The NV tier's expert if the id has one there, else the NF tier's, which are
\* numbered after the NV tier's here.
EitherTier(topk) ==
  [r \in DOMAIN topk |->
     IF TierMap["a"][topk[r]] >= 0 THEN TierMap["a"][topk[r]]
     ELSE IF TierMap["b"][topk[r]] >= 0 THEN Experts + TierMap["b"][topk[r]]
     ELSE -1]

\* Without route packing the kernel reads the local ids itself.
CallDirect(topk, t, local, mode) ==
  /\ stage \in {"idle", "returned"} /\ made < CallBound
  /\ LET k == LaunchOf(mode, TRUE, local, PerRoute(local))
     IN Launch(k, GridOf(k))
  /\ tier' = t
  /\ stage' = "kernel"
  /\ made' = made + 1
  /\ UNCHANGED <<packVars, modes, shape>>

CallPacked(topk, t, route) ==
  /\ stage \in {"idle", "returned"} /\ made < CallBound
  /\ PackCall(topk, TierMap[t], route)
  /\ tier' = t
  /\ stage' = "pack"
  /\ made' = made + 1
  /\ UNCHANGED <<barrierVars, kernelVars, modes, shape>>

PackStep ==
  /\ stage = "pack" /\ PackKernel
  /\ UNCHANGED <<barrierVars, kernelVars, callVars>>

\* The fused kernel runs the blocks it finds in the packed arrays.
LaunchPacked(m8) ==
  /\ stage = "pack" /\ pack = "packed"
  /\ LET blocks == [b \in 1..RouteBlocks |->
                      [expert |-> blockOf[b - 1], rows |-> BlockRows(b - 1)]]
         k == LaunchOf("packed", m8, LocalIds(ids, tier), blocks)
     IN Launch(k, GridOf(k))
  /\ stage' = "kernel"
  /\ UNCHANGED <<packVars, modes, tier, shape, made>>

KernelStep(c) ==
  /\ stage = "kernel" /\ Cta(c)
  /\ UNCHANGED <<packVars, callVars>>

KernelEnd ==
  /\ stage = "kernel" /\ KernelDone
  /\ stage' = IF kernel.mode = "packed" THEN "sum" ELSE "returned"
  /\ UNCHANGED <<barrierVars, kernelVars, packVars, modes, tier, shape, made>>

RoutesOf(t) == t * TopK .. (t + 1) * TopK - 1

\* Sum over a token's rows of FC2's buffer, the cleared ones included.
TopKSum ==
  /\ stage = "sum"
  /\ out' = [x \in DOMAIN out |->
               LET rows == RoutesOf(x[1])
                   Row(r) == fc2[<<r, x[2]>>]
               IN {r \in rows : Row(r) = "good"}
                  \union (IF \E r \in rows : Row(r) \notin {"good", "zero"}
                          THEN {Wrong} ELSE {})]
  /\ stage' = "returned"
  /\ UNCHANGED <<barrierVars, packVars, modes, tier, shape, made, kernel, at,
                 todo, step, acc, locks, tmp, fc1, act, fc2>>

Exhausted ==
  /\ stage = "returned" /\ made = CallBound
  /\ UNCHANGED moeVars

Call ==
  \/ \E topk \in Routings, t \in DOMAIN TierMap :
       \/ /\ "direct" \in modes
          /\ CallDirect(topk, t, LocalIds(topk, t), "direct")
       \/ /\ "packed" \in modes
          /\ \E route \in {"small", "count", "prefix"} : CallPacked(topk, t, route)
  \/ \E topk \in Routings :
       "hybrid" \in modes /\ CallDirect(topk, tier, EitherTier(topk), "hybrid")

\* Everything the device does for a call.
Work ==
  \/ PackStep
  \/ \E m8 \in BOOLEAN : LaunchPacked(m8)
  \/ \E c \in Running : KernelStep(c)
  \/ KernelEnd \/ TopKSum

MoeNext == Call \/ Work \/ Exhausted

MoeSpec == MoeInit /\ [][MoeNext]_moeVars

\* The device does not stop while a CTA it holds, or the stream, can go on.
FairSpec == MoeSpec /\ WF_moeVars(Work)

-----------------------------------------------------------------------------
\* A call returns for every token the sum of its routes to this tier's experts
\* (both tiers' in one grid), each once and over all k tiles, however the
\* tiles were shared, and nothing an earlier launch has left in a buffer.
CallExact ==
  stage = "returned" =>
    \A x \in DOMAIN out : out[x] = {r \in RoutesOf(x[1]) : kernel.local[r] >= 0}

\* Every call returns: no CTA waits for a turn or an arrival that never comes.
CallReturns == stage # "returned" /\ stage # "idle" ~> stage = "returned"
=============================================================================
