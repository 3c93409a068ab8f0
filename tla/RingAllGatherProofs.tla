------------------------- MODULE RingAllGatherProofs -------------------------
(***************************************************************************)
(* Proofs about RingAllGather for every group size W >= 2 and every number *)
(* of calls.  RingInv is inductive relative to TypeOK; the properties of   *)
(* the model-checking runs, and the refinement of GatherBarrier, follow.   *)
(***************************************************************************)
EXTENDS RingAllGather, TLAPS

USE WorldAssumption, CallsAssumption

-----------------------------------------------------------------------------
(* The ring.                                                               *)

LEMMA RingShape ==
  /\ W-1 \in Nat /\ Done \in FlagSlots /\ Done \notin Steps
  /\ Steps \subseteq FlagSlots /\ Ranks \subseteq Nat
  /\ \A r \in Ranks : /\ Succ(r) \in Ranks /\ Pred(r) \in Ranks
                      /\ Succ(Pred(r)) = r /\ Pred(Succ(r)) = r
  BY DEF Ranks, Steps, FlagSlots, Done, Succ, Pred

\* Every rank but r is the owner of exactly one slot of r.
LEMMA OwnerOfSlot ==
  ASSUME NEW r \in Ranks
  PROVE  /\ \A k \in Steps : ReceivedOwner(r, k) \in Ranks /\ ReceivedOwner(r, k) # r
         /\ \A j, k \in Steps : ReceivedOwner(r, j) = ReceivedOwner(r, k) => j = k
         /\ \A o \in Ranks : o # r => \E k \in Steps : o = ReceivedOwner(r, k)
<1>1. \A k \in Steps : ReceivedOwner(r, k) \in Ranks /\ ReceivedOwner(r, k) # r
  BY DEF Ranks, Steps, ReceivedOwner
<1>2. \A j, k \in Steps : ReceivedOwner(r, j) = ReceivedOwner(r, k) => j = k
  BY DEF Ranks, Steps, ReceivedOwner
<1>3. ASSUME NEW o \in Ranks, o # r
      PROVE  \E k \in Steps : o = ReceivedOwner(r, k)
  <2>1. CASE o < r
    <3>1. r - o - 1 \in Steps /\ o = ReceivedOwner(r, r - o - 1)
      BY <2>1 DEF Ranks, Steps, ReceivedOwner
    <3> QED BY <3>1
  <2>2. CASE o > r
    <3>1. r - o - 1 + W \in Steps /\ o = ReceivedOwner(r, r - o - 1 + W)
      BY <2>2 DEF Ranks, Steps, ReceivedOwner
    <3> QED BY <3>1
  <2> QED BY <1>3, <2>1, <2>2 DEF Ranks
<1> QED BY <1>1, <1>2, <1>3

\* Slot 0 holds the predecessor's own payload, slot k what the predecessor
\* holds in its slot k - 1.
LEMMA OwnerForwarded ==
  ASSUME NEW r \in Ranks
  PROVE  /\ 0 \in Steps /\ ReceivedOwner(Succ(r), 0) = r
         /\ \A k \in Steps : k # 0 =>
              k-1 \in Steps /\ ReceivedOwner(Succ(r), k) = ReceivedOwner(r, k-1)
  BY DEF Ranks, Steps, Succ, ReceivedOwner

-----------------------------------------------------------------------------
LEMMA InitType == Init => TypeOK
<1> SUFFICES ASSUME Init PROVE TypeOK
  OBVIOUS
<1>1. \A r \in Ranks, k \in Steps : ReceivedOwner(r, k) \in Ranks
  BY OwnerOfSlot
<1> QED BY <1>1, RingShape DEF Init, TypeOK, Payload, Payloads

\* The stream positions of one rank.
LEMMA Positions ==
  ASSUME TypeOK, NEW r \in Ranks
  PROVE  /\ call[r] \in Nat /\ call[r] <= MaxCalls
         /\ step[r] \in Nat /\ step[r] <= W-1
         /\ copied[r] \in Nat /\ copied[r] <= W-1
         /\ flagged[r] \in Nat /\ flagged[r] <= W-1
  BY DEF TypeOK

\* What the flag kernels do, one matrix entry at a time.
LEMMA SetFlagEffect ==
  ASSUME TypeOK, NEW r \in Ranks, NEW t \in Ranks, NEW k \in FlagSlots, SetFlag(r, t, k)
  PROVE  /\ flag' \in [Ranks -> [FlagSlots -> Nat]]
         /\ sent' \in [Ranks -> [FlagSlots -> Nat]]
         /\ waited' = waited
         /\ sent'[r][k] = sent[r][k] + 1 /\ flag'[t][k] = sent[r][k] + 1
         /\ \A s \in Ranks, j \in FlagSlots :
              /\ s # r \/ j # k => sent'[s][j] = sent[s][j]
              /\ s # t \/ j # k => flag'[s][j] = flag[s][j]
  BY DEF SetFlag, TypeOK

LEMMA WaitFlagEffect ==
  ASSUME TypeOK, NEW r \in Ranks, NEW k \in FlagSlots, WaitFlag(r, k)
  PROVE  /\ waited' \in [Ranks -> [FlagSlots -> Nat]]
         /\ flag' = flag /\ sent' = sent
         /\ flag[r][k] >= waited[r][k] + 1
         /\ waited'[r][k] = waited[r][k] + 1
         /\ \A s \in Ranks, j \in FlagSlots :
              s # r \/ j # k => waited'[s][j] = waited[s][j]
  BY DEF WaitFlag, TypeOK

-----------------------------------------------------------------------------
(* Stream positions and types: inductive together, because only Shape      *)
(* keeps the step of a rank that unpacks inside Steps.                      *)

LEMMA InitShape == Init => Shape
  BY WorldAssumption DEF Init, Shape, Ranks

LEMMA NextType == TypeOK /\ Shape /\ [Next]_vars => TypeOK'
<1> SUFFICES ASSUME TypeOK, Shape, [Next]_vars PROVE TypeOK'
  OBVIOUS
<1>1. ASSUME NEW r \in Ranks, Enter(r) PROVE TypeOK'
  BY <1>1, RingShape DEF Enter, Payload, Payloads, TypeOK, flags
<1>2. ASSUME NEW r \in Ranks, WaitData(r) PROVE TypeOK'
  BY <1>2, RingShape, WaitFlagEffect DEF WaitData, FlagSlots, TypeOK, memory
<1>3. ASSUME NEW r \in Ranks, Unpack(r) PROVE TypeOK'
  <2>1. step[r] \in Steps
    BY <1>3, Positions DEF Unpack, Shape, Steps
  <2>2. /\ slot[r][step[r]] \in Payloads
        /\ ReceivedOwner(r, step[r]) \in Ranks
    BY <2>1, OwnerOfSlot DEF TypeOK
  <2>3. out' \in [Ranks -> [Ranks -> Payloads]]
    BY <1>3, <2>2 DEF Unpack, TypeOK
  <2>4. step' \in [Ranks -> 0..W-1]
    BY <1>3, <2>1 DEF Unpack, Steps, TypeOK
  <2>5. pc' \in [Ranks -> {"idle", "wait", "unpack", "join", "handshake"}]
    BY <1>3 DEF Unpack, TypeOK
  <2> QED BY <1>3, <2>3, <2>4, <2>5 DEF Unpack, TypeOK, flags
<1>4. ASSUME NEW r \in Ranks, Handshake(r) PROVE TypeOK'
  BY <1>4, RingShape, SetFlagEffect DEF Handshake, TypeOK, memory
<1>5. ASSUME NEW r \in Ranks, Finish(r) PROVE TypeOK'
  BY <1>5, RingShape, WaitFlagEffect DEF Finish, TypeOK, memory
<1>6. ASSUME NEW r \in Ranks, CopyStep(r) PROVE TypeOK'
  <2> DEFINE sent_value == IF copied[r] = 0 THEN local[r] ELSE slot[r][copied[r]-1]
  <2>1. copied[r] < W-1
    BY <1>6 DEF CopyStep, CopyReady
  <2>2. copied[r] \in Steps /\ (copied[r] # 0 => copied[r] - 1 \in Steps)
    BY <2>1, Positions DEF Steps
  <2>3. sent_value \in Payloads
    BY <2>2 DEF TypeOK
  <2>4. slot' = [slot EXCEPT ![Succ(r)][copied[r]] = sent_value]
    BY <1>6 DEF CopyStep
  <2> HIDE DEF sent_value
  <2>5. slot' \in [Ranks -> [Steps -> Payloads]]
    BY <2>2, <2>3, <2>4, RingShape DEF TypeOK
  <2>6. copied' \in [Ranks -> 0..W-1]
    BY <1>6, <2>2 DEF CopyStep, Steps, TypeOK
  <2> QED BY <1>6, <2>5, <2>6 DEF CopyStep, TypeOK, flags
<1>7. ASSUME NEW r \in Ranks, FlagStep(r) PROVE TypeOK'
  <2>1. flagged[r] < copied[r]
    BY <1>7 DEF FlagStep
  <2>2. flagged[r] \in FlagSlots /\ flagged[r] + 1 \in 0..W-1
    BY <2>1, Positions DEF FlagSlots
  <2>3. SetFlag(r, Succ(r), flagged[r])
    BY <1>7 DEF FlagStep
  <2>4. /\ flag' \in [Ranks -> [FlagSlots -> Nat]]
        /\ sent' \in [Ranks -> [FlagSlots -> Nat]]
        /\ waited' = waited
    BY <2>2, <2>3, RingShape, SetFlagEffect
  <2> QED BY <1>7, <2>2, <2>4 DEF FlagStep, TypeOK, memory
<1>8. CASE UNCHANGED vars
  BY <1>8 DEF vars, streams, memory, flags, TypeOK
<1> QED BY <1>1, <1>2, <1>3, <1>4, <1>5, <1>6, <1>7, <1>8 DEF Next, MainStep, Drained

LEMMA NextShape == TypeOK /\ Shape /\ [Next]_vars => Shape'
<1> SUFFICES ASSUME TypeOK, Shape, [Next]_vars PROVE Shape'
  OBVIOUS
<1> USE DEF TypeOK, Shape, memory, streams, flags
<1>1. ASSUME NEW r \in Ranks, Enter(r) PROVE Shape'
  BY <1>1 DEF Enter
<1>2. ASSUME NEW r \in Ranks, WaitData(r) PROVE Shape'
  BY <1>2 DEF WaitData
<1>3. ASSUME NEW r \in Ranks, Unpack(r) PROVE Shape'
  <2>1. /\ step'[r] = step[r] + 1 /\ step[r] <= W-2
        /\ pc'[r] = IF step[r] = W-2 THEN "join" ELSE "wait"
        /\ call[r] # 0
        /\ \A s \in Ranks : s # r => step'[s] = step[s] /\ pc'[s] = pc[s]
        /\ UNCHANGED <<call, copied, flagged>>
    BY <1>3 DEF Unpack
  <2>2. CASE step[r] = W-2
    BY <2>1, <2>2
  <2>3. CASE step[r] # W-2
    <3>1. step'[r] <= W-2 /\ pc'[r] = "wait"
      BY <2>1, <2>3
    <3> QED BY <2>1, <3>1
  <2> QED BY <2>2, <2>3
<1>4. ASSUME NEW r \in Ranks, Handshake(r) PROVE Shape'
  BY <1>4 DEF Handshake
<1>5. ASSUME NEW r \in Ranks, Finish(r) PROVE Shape'
  BY <1>5 DEF Finish
<1>6. ASSUME NEW r \in Ranks, CopyStep(r) PROVE Shape'
  BY <1>6 DEF CopyStep, CopyReady
<1>7. ASSUME NEW r \in Ranks, FlagStep(r) PROVE Shape'
  BY <1>7 DEF FlagStep
<1>8. CASE UNCHANGED vars
  BY <1>8 DEF vars
<1> QED BY <1>1, <1>2, <1>3, <1>4, <1>5, <1>6, <1>7, <1>8 DEF Next, MainStep, Drained

\* The stream positions, counters and memory of every rank stay in range.
THEOREM TypeCorrect == Spec => []TypeOK
<1>1. Init => TypeOK /\ Shape
  BY InitType, InitShape
<1>2. TypeOK /\ Shape /\ [Next]_vars => (TypeOK /\ Shape)'
  BY NextType, NextShape
<1> QED BY <1>1, <1>2, PTL DEF Spec

-----------------------------------------------------------------------------
(* RingInv, conjunct by conjunct.                                          *)

LEMMA InitRing == Init => RingInv
<1> SUFFICES ASSUME Init PROVE RingInv
  OBVIOUS
<1>1. \A r \in Ranks, k \in Steps : ReceivedOwner(r, k) \in Ranks
  BY OwnerOfSlot
<1>2. Shape
  BY InitShape
<1>3. CountersExact /\ FlagsExact /\ NeverAhead
  BY RingShape DEF Init, CountersExact, FlagsExact, NeverAhead, Count, Steps
<1>4. ASSUME NEW r \in Ranks, NEW k \in Steps
      PROVE  /\ slot[r][k] = Payload(ReceivedOwner(r, k), 0)
             /\ Count(k < copied[r], r) = 0 /\ Count(k < step[r], r) = 0
             /\ call[ReceivedOwner(r, k)] = 0
    BY <1>1 DEF Init, Count, Steps
<1>5. DataExact
  BY <1>1, <1>4, RingShape DEF Init, DataExact
<1>6. Provenance
  BY <1>1, <1>4, RingShape DEF Init, Provenance, Payload
<1> QED BY <1>2, <1>3, <1>5, <1>6 DEF RingInv

LEMMA NextCounters == TypeOK /\ Shape /\ CountersExact /\ [Next]_vars => CountersExact'
<1> SUFFICES ASSUME TypeOK, Shape, CountersExact, [Next]_vars PROVE CountersExact'
  OBVIOUS
<1>1. ASSUME NEW r \in Ranks, Enter(r) PROVE CountersExact'
  <2>1. /\ pc[r] = "idle" /\ flagged[r] = W-1 /\ step[r] = W-1
        /\ call'[r] = call[r] + 1 /\ flagged'[r] = 0 /\ step'[r] = 0 /\ pc'[r] = "wait"
        /\ \A s \in Ranks : s # r => /\ call'[s] = call[s] /\ flagged'[s] = flagged[s]
                                     /\ step'[s] = step[s] /\ pc'[s] = pc[s]
        /\ sent' = sent /\ waited' = waited
    BY <1>1 DEF Enter, Shape, TypeOK, flags
  <2> QED BY <2>1, Positions DEF Steps, CountersExact, Count
<1>2. ASSUME NEW r \in Ranks, WaitData(r) PROVE CountersExact'
  <2>1. step[r] \in Steps /\ step[r] \in FlagSlots /\ step[r] # Done
    BY <1>2, Positions, RingShape DEF WaitData, Shape, Steps
  <2>2. /\ WaitFlag(r, step[r]) /\ pc[r] = "wait" /\ pc'[r] = "unpack"
        /\ \A s \in Ranks : s # r => pc'[s] = pc[s]
        /\ UNCHANGED <<call, flagged, step>>
    BY <1>2 DEF WaitData, TypeOK
  <2>3. /\ waited'[r][step[r]] = waited[r][step[r]] + 1 /\ sent' = sent
        /\ \A s \in Ranks, j \in FlagSlots :
             s # r \/ j # step[r] => waited'[s][j] = waited[s][j]
    BY <2>1, <2>2, WaitFlagEffect, RingShape
  <2> QED BY <2>1, <2>2, <2>3, Positions, RingShape DEF CountersExact, Count
<1>3. ASSUME NEW r \in Ranks, Unpack(r) PROVE CountersExact'
  <2>1. /\ pc[r] = "unpack" /\ step[r] \in Steps /\ step'[r] = step[r] + 1
        /\ pc'[r] \in {"join", "wait"}
        /\ \A s \in Ranks : s # r => pc'[s] = pc[s] /\ step'[s] = step[s]
        /\ UNCHANGED <<call, flagged, sent, waited>>
    BY <1>3, Positions DEF Unpack, Shape, TypeOK, flags, Steps
  <2> QED BY <2>1, Positions DEF Steps, CountersExact, Count
<1>4. ASSUME NEW r \in Ranks, Handshake(r) PROVE CountersExact'
  <2>1. /\ SetFlag(r, Pred(r), Done) /\ pc[r] = "join" /\ pc'[r] = "handshake"
        /\ \A s \in Ranks : s # r => pc'[s] = pc[s]
        /\ UNCHANGED <<call, flagged, step>>
    BY <1>4 DEF Handshake, TypeOK
  <2>2. Pred(r) \in Ranks /\ Done \in FlagSlots
    BY RingShape
  <2>3. /\ sent'[r][Done] = sent[r][Done] + 1 /\ waited' = waited
        /\ \A s \in Ranks, j \in FlagSlots : s # r \/ j # Done => sent'[s][j] = sent[s][j]
    BY <2>1, <2>2, SetFlagEffect
  <2> QED BY <2>1, <2>3, Positions, RingShape DEF CountersExact, Count
<1>5. ASSUME NEW r \in Ranks, Finish(r) PROVE CountersExact'
  <2>1. /\ WaitFlag(r, Done) /\ pc[r] = "handshake" /\ pc'[r] = "idle"
        /\ \A s \in Ranks : s # r => pc'[s] = pc[s]
        /\ UNCHANGED <<call, flagged, step>>
    BY <1>5 DEF Finish, TypeOK
  <2>2. /\ waited'[r][Done] = waited[r][Done] + 1 /\ sent' = sent
        /\ \A s \in Ranks, j \in FlagSlots : s # r \/ j # Done => waited'[s][j] = waited[s][j]
    BY <2>1, WaitFlagEffect, RingShape
  <2> QED BY <2>1, <2>2, Positions, RingShape DEF CountersExact, Count
<1>6. ASSUME NEW r \in Ranks, CopyStep(r) PROVE CountersExact'
  BY <1>6 DEF CopyStep, flags, CountersExact, Count
<1>7. ASSUME NEW r \in Ranks, FlagStep(r) PROVE CountersExact'
  <2>1. /\ SetFlag(r, Succ(r), flagged[r]) /\ flagged[r] < copied[r]
        /\ flagged'[r] = flagged[r] + 1
        /\ \A s \in Ranks : s # r => flagged'[s] = flagged[s]
        /\ UNCHANGED <<call, pc, step>>
    BY <1>7 DEF FlagStep, TypeOK
  <2>2. flagged[r] \in Steps /\ flagged[r] \in FlagSlots /\ Succ(r) \in Ranks
    BY <2>1, Positions, RingShape DEF Steps
  <2>3. /\ sent'[r][flagged[r]] = sent[r][flagged[r]] + 1 /\ waited' = waited
        /\ \A s \in Ranks, j \in FlagSlots :
             s # r \/ j # flagged[r] => sent'[s][j] = sent[s][j]
    BY <2>1, <2>2, SetFlagEffect
  <2> QED BY <2>1, <2>2, <2>3, Positions, RingShape DEF Steps, CountersExact, Count
<1>8. CASE UNCHANGED vars
  BY <1>8 DEF vars, streams, flags, CountersExact, Count
<1> QED BY <1>1, <1>2, <1>3, <1>4, <1>5, <1>6, <1>7, <1>8 DEF Next, MainStep, Drained

LEMMA NextFlags ==
  TypeOK /\ Shape /\ FlagsExact /\ NeverAhead /\ [Next]_vars => (FlagsExact /\ NeverAhead)'
<1> SUFFICES ASSUME TypeOK, Shape, FlagsExact, NeverAhead, [Next]_vars
             PROVE (FlagsExact /\ NeverAhead)'
  OBVIOUS
<1>1. ASSUME NEW r \in Ranks, NEW t \in Ranks, NEW k \in FlagSlots, SetFlag(r, t, k),
             t = IF k = Done THEN Pred(r) ELSE Succ(r)
      PROVE (FlagsExact /\ NeverAhead)'
  <2>1. /\ Done \in FlagSlots /\ Steps \subseteq FlagSlots /\ Done \notin Steps
        /\ waited' = waited
        /\ sent'[r][k] = sent[r][k] + 1 /\ flag'[t][k] = sent[r][k] + 1
        /\ \A s \in Ranks, j \in FlagSlots :
             /\ s # r \/ j # k => sent'[s][j] = sent[s][j]
             /\ s # t \/ j # k => flag'[s][j] = flag[s][j]
    BY <1>1, SetFlagEffect, RingShape
  <2>2. \A s \in Ranks, j \in FlagSlots :
          /\ sent[s][j] \in Nat /\ waited[s][j] \in Nat
          /\ sent'[s][j] = sent[s][j] \/ sent'[s][j] = sent[s][j] + 1
    BY <2>1 DEF TypeOK
  <2>3. NeverAhead'
    BY <2>1, <2>2, RingShape DEF NeverAhead
  <2>4. ASSUME NEW s \in Ranks
        PROVE flag'[Pred(s)][Done] = sent'[s][Done]
    <3>1. flag[Pred(s)][Done] = sent[s][Done] /\ Pred(s) \in Ranks
      BY RingShape DEF FlagsExact
    <3>2. CASE k = Done /\ s = r
      BY <1>1, <2>1, <3>2
    <3>3. CASE k = Done /\ s # r
      <4>1. Pred(s) # t
        BY <1>1, <3>3, RingShape
      <4> QED BY <2>1, <3>1, <3>3, <4>1
    <3>4. CASE k # Done
      BY <2>1, <3>1, <3>4
    <3> QED BY <3>2, <3>3, <3>4
  <2>5. ASSUME NEW s \in Ranks, NEW j \in Steps
        PROVE flag'[Succ(s)][j] = sent'[s][j]
    <3>1. flag[Succ(s)][j] = sent[s][j] /\ Succ(s) \in Ranks /\ j \in FlagSlots /\ j # Done
      BY RingShape DEF FlagsExact
    <3>2. CASE k = j /\ s = r
      BY <1>1, <2>1, <3>1, <3>2
    <3>3. CASE k = j /\ s # r
      <4>1. Succ(s) # t
        BY <1>1, <3>1, <3>3, RingShape
      <4> QED BY <2>1, <3>1, <3>3, <4>1
    <3>4. CASE k # j
      BY <2>1, <3>1, <3>4
    <3> QED BY <3>2, <3>3, <3>4
  <2> QED BY <2>3, <2>4, <2>5 DEF FlagsExact
<1>2. ASSUME NEW r \in Ranks, NEW k \in FlagSlots, WaitFlag(r, k)
      PROVE (FlagsExact /\ NeverAhead)'
  <2>1. /\ flag' = flag /\ sent' = sent /\ waited'[r][k] = waited[r][k] + 1
        /\ flag[r][k] >= waited[r][k] + 1
        /\ \A s \in Ranks, j \in FlagSlots : s # r \/ j # k => waited'[s][j] = waited[s][j]
    BY <1>2, WaitFlagEffect
  <2>2. \A s \in Ranks, j \in FlagSlots :
          waited'[s][j] = waited[s][j] \/ waited'[s][j] <= flag[s][j]
    BY <2>1 DEF TypeOK
  <2>3. \A s \in Ranks : /\ flag[s][Done] = sent[Succ(s)][Done]
                         /\ \A j \in Steps : flag[Succ(s)][j] = sent[s][j]
    BY RingShape DEF FlagsExact
  <2>4. \A s \in Ranks : waited'[s][Done] <= sent[Succ(s)][Done]
    BY <2>2, <2>3, RingShape DEF NeverAhead
  <2>5. \A s \in Ranks, j \in Steps : waited'[Succ(s)][j] <= sent[s][j]
    BY <2>2, <2>3, RingShape DEF NeverAhead
  <2>6. FlagsExact'
    BY <2>1 DEF FlagsExact
  <2> QED BY <2>1, <2>4, <2>5, <2>6 DEF NeverAhead
<1>3. ASSUME NEW r \in Ranks, WaitData(r) \/ Finish(r) PROVE (FlagsExact /\ NeverAhead)'
  <2>1. step[r] \in FlagSlots
    BY Positions DEF FlagSlots
  <2> QED BY <1>2, <1>3, <2>1, RingShape DEF WaitData, Finish
<1>4. ASSUME NEW r \in Ranks, Handshake(r) PROVE (FlagsExact /\ NeverAhead)'
  BY <1>1, <1>4, RingShape DEF Handshake
<1>5. ASSUME NEW r \in Ranks, FlagStep(r) PROVE (FlagsExact /\ NeverAhead)'
  <2>1. flagged[r] \in Steps
    BY <1>5, Positions DEF FlagStep, Steps
  <2> QED BY <1>1, <1>5, <2>1, RingShape DEF FlagStep
<1>6. ASSUME NEW r \in Ranks, Enter(r) \/ Unpack(r) \/ CopyStep(r) PROVE (FlagsExact /\ NeverAhead)'
  BY <1>6 DEF Enter, Unpack, CopyStep, flags, FlagsExact, NeverAhead
<1>7. CASE UNCHANGED vars
  BY <1>7 DEF vars, flags, FlagsExact, NeverAhead
<1> QED BY <1>3, <1>4, <1>5, <1>6, <1>7 DEF Next, MainStep, Drained
-----------------------------------------------------------------------------
(* What the flags tell a rank about its neighbours.                        *)

\* The predecessor of a rank whose call is still running cannot be in a later
\* call: it would have passed the end handshake of this one.
LEMMA PredNotAhead ==
  ASSUME TypeOK, Shape, CountersExact, NeverAhead, NEW r \in Ranks,
         pc[r] \in {"wait", "unpack", "join"}
  PROVE  call[Pred(r)] <= call[r]
<1> DEFINE p == Pred(r)
<1>1. p \in Ranks /\ Succ(p) = r
  BY RingShape
<1>2. waited[p][Done] <= sent[r][Done] /\ sent[r][Done] = call[r] - 1
  BY <1>1 DEF NeverAhead, CountersExact, Count
<1>3. waited[p][Done] = call[p] \/ waited[p][Done] = call[p] - 1
  BY <1>1 DEF CountersExact, Count
<1> QED BY <1>1, <1>2, <1>3, Positions

\* A rank that has seen data flag k of its running call finds in slot k what
\* the predecessor copied there in the same call.
LEMMA SlotCurrent ==
  ASSUME TypeOK, Shape, CountersExact, NeverAhead, DataExact,
         NEW r \in Ranks, NEW k \in Steps,
         pc[r] \in {"wait", "unpack", "join"},
         k < step[r] \/ (k = step[r] /\ pc[r] = "unpack")
  PROVE  /\ slot[r][k] = Payload(ReceivedOwner(r, k), call[r])
         /\ call[Pred(r)] = call[r] /\ k < copied[Pred(r)]
<1> DEFINE p == Pred(r)
<1>1. p \in Ranks /\ Succ(p) = r
  BY RingShape
<1>2. waited[r][k] = call[r]
  BY DEF CountersExact, Count
<1>3. waited[r][k] <= sent[p][k] /\ sent[p][k] = Count(k < flagged[p], p)
  BY <1>1 DEF NeverAhead, CountersExact
<1>4. call[p] <= call[r]
  BY PredNotAhead
<1>5. call[p] = call[r] /\ k < flagged[p]
  BY <1>1, <1>2, <1>3, <1>4, Positions DEF Count
<1>6. k < copied[p]
  BY <1>1, <1>5, Positions DEF Shape, Steps
<1>7. slot[r][k] = Payload(ReceivedOwner(r, k), Count(k < copied[p], p))
  BY <1>1 DEF DataExact
<1> QED BY <1>1, <1>5, <1>6, <1>7 DEF Count

LEMMA NextData ==
  ASSUME TypeOK, Shape, CountersExact, NeverAhead, DataExact, [Next]_vars
  PROVE  DataExact'
<1>1. ASSUME NEW r \in Ranks, Enter(r) PROVE DataExact'
  <2>1. /\ copied[r] = W-1 /\ step[r] = W-1 /\ copied'[r] = 0 /\ step'[r] = 0
        /\ call'[r] = call[r] + 1 /\ slot' = slot
        /\ local'[r] = Payload(r, call[r] + 1)
        /\ out'[r][r] = Payload(r, call[r] + 1)
        /\ \A o \in Ranks : o # r => out'[r][o] = out[r][o]
        /\ \A s \in Ranks : s # r => /\ call'[s] = call[s] /\ copied'[s] = copied[s]
                                     /\ step'[s] = step[s] /\ local'[s] = local[s]
                                     /\ out'[s] = out[s]
    BY <1>1 DEF Enter, Shape, TypeOK
  <2>2. \A k \in Steps : /\ Count(k < copied[r], r) = call[r] /\ Count(k < copied[r], r)' = call[r]
                         /\ Count(k < step[r], r) = call[r] /\ Count(k < step[r], r)' = call[r]
    BY <2>1, Positions DEF Count, Steps
  <2>3. \A s \in Ranks, k \in Steps : s # r =>
          /\ Count(k < copied[s], s)' = Count(k < copied[s], s)
          /\ Count(k < step[s], s)' = Count(k < step[s], s)
    BY <2>1 DEF Count
  <2>4. \A k \in Steps : ReceivedOwner(r, k) \in Ranks /\ ReceivedOwner(r, k) # r
    BY OwnerOfSlot
  <2> QED BY <2>1, <2>2, <2>3, <2>4 DEF DataExact
<1>2. ASSUME NEW r \in Ranks, Unpack(r) PROVE DataExact'
  <2> DEFINE k == step[r]
             o == ReceivedOwner(r, k)
  <2>1. k \in Steps /\ o \in Ranks /\ o # r
    BY <1>2, Positions, OwnerOfSlot DEF Unpack, Shape, Steps
  <2>2. slot[r][k] = Payload(o, call[r])
    BY <1>2, <2>1, SlotCurrent DEF Unpack
  <2>3. /\ out'[r][o] = Payload(o, call[r]) /\ step'[r] = k + 1
        /\ \A q \in Ranks : q # o => out'[r][q] = out[r][q]
        /\ \A s \in Ranks : s # r => out'[s] = out[s] /\ step'[s] = step[s]
        /\ UNCHANGED <<call, copied, local, slot>>
    BY <1>2, <2>1, <2>2 DEF Unpack, TypeOK
  <2>4. ASSUME NEW j \in Steps
        PROVE  out'[r][ReceivedOwner(r, j)] =
                 Payload(ReceivedOwner(r, j), Count(j < step[r], r)')
    <3>1. CASE j = k
      BY <2>1, <2>3, <3>1, Positions DEF Count, Steps
    <3>2. CASE j # k
      <4>1. ReceivedOwner(r, j) # o /\ ReceivedOwner(r, j) \in Ranks
        BY <2>1, <3>2, OwnerOfSlot
      <4>2. Count(j < step[r], r)' = Count(j < step[r], r)
        BY <2>1, <2>3, <3>2, Positions DEF Count, Steps
      <4> QED BY <2>3, <4>1, <4>2 DEF DataExact
    <3> QED BY <3>1, <3>2
  <2>5. ASSUME NEW s \in Ranks, NEW j \in Steps
        PROVE  /\ Count(j < copied[s], s)' = Count(j < copied[s], s)
               /\ s # r => Count(j < step[s], s)' = Count(j < step[s], s)
    BY <2>3 DEF Count
  <2> QED BY <2>1, <2>3, <2>4, <2>5 DEF DataExact
<1>3. ASSUME NEW r \in Ranks, CopyStep(r) PROVE DataExact'
  <2> DEFINE k == copied[r]
             sent_value == IF k = 0 THEN local[r] ELSE slot[r][k-1]
             n == Succ(r)
  <2>1. k < W-1 /\ k <= step[r]
    BY <1>3 DEF CopyStep, CopyReady
  <2>2. k \in Steps /\ n \in Ranks /\ (k # 0 => k-1 \in Steps)
    BY <2>1, Positions, RingShape DEF Steps
  <2>3. pc[r] \in {"wait", "unpack", "join"}
    <3>1. pc[r] \in {"idle", "wait", "unpack", "join", "handshake"}
      BY DEF TypeOK
    <3>2. pc[r] \notin {"handshake", "idle"}
      BY <2>1, Positions DEF Shape
    <3> QED BY <3>1, <3>2
  <2>4. sent_value = Payload(ReceivedOwner(n, k), call[r])
    <3>1. CASE k = 0
      BY <3>1, OwnerForwarded DEF DataExact
    <3>2. CASE k # 0
      <4>1. slot[r][k-1] = Payload(ReceivedOwner(r, k-1), call[r])
        BY <2>1, <2>2, <2>3, <3>2, SlotCurrent, Positions DEF Steps
      <4> QED BY <2>2, <3>2, <4>1, OwnerForwarded
    <3> QED BY <3>1, <3>2
  <2>5. /\ slot' = [slot EXCEPT ![n][k] = sent_value]
        /\ copied'[r] = k + 1
        /\ \A s \in Ranks : s # r => copied'[s] = copied[s]
        /\ UNCHANGED <<call, step, local, out>>
    BY <1>3 DEF CopyStep, TypeOK
  <2> HIDE DEF sent_value
  <2>6. /\ slot'[n][k] = sent_value
        /\ \A s \in Ranks, j \in Steps : s # n \/ j # k => slot'[s][j] = slot[s][j]
    BY <2>2, <2>5 DEF TypeOK
  <2>7. ASSUME NEW s \in Ranks, NEW j \in Steps
        PROVE  slot'[Succ(s)][j] = Payload(ReceivedOwner(Succ(s), j), Count(j < copied[s], s)')
    <3>1. CASE s = r /\ j = k
      <4>1. Count(j < copied[s], s)' = call[r]
        BY <2>5, <3>1, Positions DEF Count
      <4> QED BY <2>4, <2>6, <3>1, <4>1
    <3>2. CASE s # r \/ j # k
      <4>1. Count(j < copied[s], s)' = Count(j < copied[s], s)
        BY <2>2, <2>5, <3>2, Positions DEF Count, Steps
      <4>2. Succ(s) \in Ranks /\ (Succ(s) = n => s = r)
        BY RingShape
      <4>3. slot'[Succ(s)][j] = slot[Succ(s)][j]
        BY <2>6, <3>2, <4>2
      <4> QED BY <4>1, <4>3 DEF DataExact
    <3> QED BY <3>1, <3>2
  <2>8. \A s \in Ranks, j \in Steps : Count(j < step[s], s)' = Count(j < step[s], s)
    BY <2>5 DEF Count
  <2> QED BY <2>5, <2>7, <2>8 DEF DataExact
<1>4. CASE UNCHANGED <<call, step, copied, memory>>
  BY <1>4 DEF DataExact, Count, memory
<1>5. ASSUME NEW r \in Ranks, WaitData(r) \/ Handshake(r) \/ Finish(r) \/ FlagStep(r)
      PROVE DataExact'
  BY <1>4, <1>5 DEF WaitData, Handshake, Finish, FlagStep
<1> QED BY <1>1, <1>2, <1>3, <1>4, <1>5 DEF Next, MainStep, Drained, vars, streams

\* No block claims a call its owner has not entered.
LEMMA NextProvenance ==
  ASSUME TypeOK, Shape, CountersExact, NeverAhead, DataExact, Provenance, [Next]_vars
  PROVE  Provenance'
<1>1. ASSUME NEW r \in Ranks, Enter(r) PROVE Provenance'
  <2>1. \A s \in Ranks : call'[s] >= call[s] /\ call[s] \in Nat /\ call'[s] \in Nat
    BY <1>1, Positions DEF Enter, TypeOK
  <2>2. /\ slot' = slot /\ out'[r][r] = Payload(r, call'[r])
        /\ \A s, o \in Ranks : s # r \/ o # r => out'[s][o] = out[s][o]
    BY <1>1 DEF Enter, TypeOK
  <2>3. \A s \in Ranks, k \in Steps : slot[s][k][2] \in Nat /\ ReceivedOwner(s, k) \in Ranks
    BY OwnerOfSlot DEF TypeOK, Payloads
  <2>4. \A s, o \in Ranks : out[s][o][2] \in Nat
    BY DEF TypeOK, Payloads
  <2> QED BY <2>1, <2>2, <2>3, <2>4 DEF Provenance, Payload
<1>2. ASSUME NEW r \in Ranks, Unpack(r) PROVE Provenance'
  <2> DEFINE k == step[r]
             o == ReceivedOwner(r, k)
  <2>1. k \in Steps /\ o \in Ranks
    BY <1>2, Positions, OwnerOfSlot DEF Unpack, Shape, Steps
  <2>2. /\ out'[r][o] = slot[r][k]
        /\ \A s, q \in Ranks : s # r \/ q # o => out'[s][q] = out[s][q]
        /\ UNCHANGED <<call, slot>>
    BY <1>2, <2>1 DEF Unpack, TypeOK
  <2> QED BY <2>1, <2>2 DEF Provenance
<1>3. ASSUME NEW r \in Ranks, CopyStep(r) PROVE Provenance'
  <2> DEFINE k == copied[r]
             n == Succ(r)
  <2>1. DataExact'
    BY NextData
  <2>2. k \in Steps /\ n \in Ranks /\ copied'[r] = k + 1 /\ call' = call /\ out' = out
    BY <1>3, Positions, RingShape DEF CopyStep, CopyReady, Steps, TypeOK
  <2>3. \A s \in Ranks, j \in Steps : s # n \/ j # k => slot'[s][j] = slot[s][j]
    BY <1>3, <2>2 DEF CopyStep, TypeOK
  <2>4. slot'[n][k] = Payload(ReceivedOwner(n, k), call[r])
    BY <2>1, <2>2, Positions DEF DataExact, Count
  <2>5. call[r] <= call[ReceivedOwner(n, k)]
    <3>1. CASE k = 0
      BY <3>1, OwnerForwarded, Positions
    <3>2. CASE k # 0
      <4>1. /\ k-1 \in Steps /\ ReceivedOwner(n, k) = ReceivedOwner(r, k-1)
            /\ k <= step[r] /\ k < W-1
        BY <1>3, <2>2, <3>2, OwnerForwarded DEF CopyStep, CopyReady
      <4>2. pc[r] \in {"wait", "unpack", "join"}
        <5>1. pc[r] \in {"idle", "wait", "unpack", "join", "handshake"}
          BY DEF TypeOK
        <5>2. pc[r] \notin {"handshake", "idle"}
          BY <4>1, Positions DEF Shape
        <5> QED BY <5>1, <5>2
      <4>3. slot[r][k-1] = Payload(ReceivedOwner(r, k-1), call[r])
        BY <2>2, <4>1, <4>2, SlotCurrent, Positions DEF Steps
      <4> QED BY <4>1, <4>3 DEF Provenance, Payload
    <3> QED BY <3>1, <3>2
  <2> QED BY <2>2, <2>3, <2>4, <2>5 DEF Provenance, Payload
<1>4. CASE UNCHANGED <<call, memory>>
  BY <1>4 DEF Provenance, memory
<1>5. ASSUME NEW r \in Ranks, WaitData(r) \/ Handshake(r) \/ Finish(r) \/ FlagStep(r)
      PROVE Provenance'
  BY <1>4, <1>5 DEF WaitData, Handshake, Finish, FlagStep
<1> QED BY <1>1, <1>2, <1>3, <1>4, <1>5 DEF Next, MainStep, Drained, vars, streams

\* The stream positions determine every counter, flag, slot and output block.
THEOREM RingInvariant == Spec => [](TypeOK /\ RingInv)
<1>1. Init => TypeOK /\ RingInv
  BY InitType, InitRing
<1>2. TypeOK /\ RingInv /\ [Next]_vars => (TypeOK /\ RingInv)'
  BY NextType, NextShape, NextCounters, NextFlags, NextData, NextProvenance DEF RingInv
<1> QED BY <1>1, <1>2, PTL DEF Spec

-----------------------------------------------------------------------------
(* The properties.                                                         *)

LEMMA ExactFromInv == TypeOK /\ RingInv => GatherExact
<1> SUFFICES ASSUME TypeOK, RingInv, NEW r \in Ranks, NEW o \in Ranks,
                    pc[r] \in {"join", "handshake", "idle"}
             PROVE  out[r][o] = Payload(o, call[r])
  BY DEF GatherExact
<1>1. step[r] = W-1
  BY DEF RingInv, Shape
<1>2. CASE o = r
  BY <1>2 DEF RingInv, DataExact
<1>3. CASE o # r
  <2>1. PICK k \in Steps : o = ReceivedOwner(r, k)
    BY <1>3, OwnerOfSlot
  <2>2. Count(k < step[r], r) = call[r]
    BY <1>1 DEF Count, Steps
  <2> QED BY <2>1, <2>2 DEF RingInv, DataExact
<1> QED BY <1>2, <1>3

\* A returned all_gather has delivered every rank's payload of that call.
THEOREM GatherIsExact == Spec => []GatherExact
<1> QED BY RingInvariant, ExactFromInv, PTL

\* While slot k of a rank is still read, its predecessor is at or before the
\* call that filled it and has already made copy k of it.
LEMMA NoRaceFromInv == TypeOK /\ RingInv => NoSlotRace
<1> SUFFICES ASSUME TypeOK, RingInv, NEW r \in Ranks, NEW k \in Steps,
                    ReadingSlot(r, k), WritingSlot(r, k)
             PROVE  FALSE
  BY DEF NoSlotRace
<1> USE DEF RingInv
<1>1. copied[Pred(r)] = k
  BY DEF WritingSlot
<1>2. CASE pc[r] = "unpack" /\ step[r] = k
  <2>1. k < copied[Pred(r)]
    BY <1>2, SlotCurrent
  <2> QED BY <1>1, <2>1 DEF Steps
<1>3. CASE CopyReady(r) /\ copied[r] = k + 1
  <2>1. k < step[r] /\ copied[r] < W-1
    BY <1>3, Positions DEF CopyReady, Steps
  <2>2. pc[r] \in {"idle", "wait", "unpack", "join", "handshake"}
    BY DEF TypeOK
  <2>3. pc[r] \notin {"handshake", "idle"}
    BY <2>1, Positions DEF Shape
  <2>4. k < copied[Pred(r)]
    BY <2>1, <2>2, <2>3, SlotCurrent
  <2> QED BY <1>1, <2>4 DEF Steps
<1> QED BY <1>2, <1>3 DEF ReadingSlot

\* No peer copy into a slot overlaps a read of that slot.
THEOREM SlotsAreRaceFree == Spec => []NoSlotRace
<1> QED BY RingInvariant, NoRaceFromInv, PTL

LEMMA SkewFromInv == TypeOK /\ RingInv => BoundedSkew
<1> SUFFICES ASSUME TypeOK, RingInv, NEW r \in Ranks, NEW s \in Ranks
             PROVE  call[r] <= call[s] + 1
  BY DEF BoundedSkew
<1>1. CASE s = r
  BY <1>1, Positions
<1>2. CASE s # r
  <2>1. PICK k \in Steps : s = ReceivedOwner(r, k)
    BY <1>2, OwnerOfSlot
  <2>2. out[r][s] = Payload(s, Count(k < step[r], r))
    BY <2>1 DEF RingInv, DataExact
  <2>3. out[r][s][2] <= call[s]
    BY DEF RingInv, Provenance
  <2> QED BY <2>2, <2>3, Positions DEF Payload, Count
<1> QED BY <1>1, <1>2

\* The ranks of the group are never more than one call apart.
THEOREM SkewIsBounded == Spec => []BoundedSkew
<1> QED BY RingInvariant, SkewFromInv, PTL

-----------------------------------------------------------------------------
(* Refinement of GatherBarrier.                                            *)

LEMMA InitRefines == Init => Abs!AbsInit
  BY DEF Init, Abs!AbsInit, Abs!Ranks, Abs!Unreadable, Abs!Contribution, Ranks, Payload

\* Steps that leave call, the idle ranks and their outputs alone are stutters.
LEMMA InternalStutters ==
  ASSUME TypeOK, UNCHANGED call, TypeOK',
         NEW r \in Ranks, pc[r] # "idle", pc'[r] # "idle",
         \A s \in Ranks : s # r => pc'[s] = pc[s] /\ out'[s] = out[s]
  PROVE  UNCHANGED Abs!absVars
<1>1. \A s \in Ranks : (pc'[s] # "idle") = (pc[s] # "idle")
  OBVIOUS
<1>2. [s \in Ranks |-> pc'[s] # "idle"] = [s \in Ranks |-> pc[s] # "idle"]
  BY <1>1
<1>3. [s \in Ranks |-> IF pc'[s] = "idle" THEN out'[s] ELSE [o \in Ranks |-> Payload(o, 0)]]
      = [s \in Ranks |-> IF pc[s] = "idle" THEN out[s] ELSE [o \in Ranks |-> Payload(o, 0)]]
  OBVIOUS
<1> QED BY <1>2, <1>3 DEF Abs!absVars, Payload

LEMMA EnterRefines ==
  ASSUME TypeOK, NEW r \in Ranks, Enter(r)
  PROVE  Abs!AbsEnter(r)
<1> DEFINE none == [o \in Ranks |-> Payload(o, 0)]
           busy == [s \in Ranks |-> pc[s] # "idle"]
           result == [s \in Ranks |-> IF pc[s] = "idle" THEN out[s] ELSE none]
<1>1. /\ pc[r] = "idle" /\ pc'[r] = "wait"
      /\ call[r] < MaxCalls /\ call' = [call EXCEPT ![r] = @ + 1]
      /\ \A s \in Ranks : s # r => pc'[s] = pc[s] /\ out'[s] = out[s]
  BY DEF Enter, TypeOK
<1>2. [s \in Ranks |-> pc'[s] # "idle"] = [busy EXCEPT ![r] = TRUE]
  BY <1>1
<1>3. [s \in Ranks |-> IF pc'[s] = "idle" THEN out'[s] ELSE none] = [result EXCEPT ![r] = none]
  BY <1>1
<1>4. none = Abs!Unreadable /\ Abs!Ranks = Ranks
  BY DEF Abs!Unreadable, Abs!Contribution, Abs!Ranks, Ranks, Payload
<1> QED BY <1>1, <1>2, <1>3, <1>4 DEF Abs!AbsEnter

LEMMA FinishRefines ==
  ASSUME TypeOK, RingInv, NEW r \in Ranks, Finish(r)
  PROVE  Abs!AbsReturn(r)
<1> DEFINE none == [o \in Ranks |-> Payload(o, 0)]
           busy == [s \in Ranks |-> pc[s] # "idle"]
           result == [s \in Ranks |-> IF pc[s] = "idle" THEN out[s] ELSE none]
           gathered == [o \in Ranks |-> Payload(o, call[r])]
<1>1. /\ pc[r] = "handshake" /\ pc'[r] = "idle" /\ call' = call /\ out' = out
      /\ \A s \in Ranks : s # r => pc'[s] = pc[s]
  BY DEF Finish, TypeOK, memory
<1>2. out[r] = gathered
  <2>1. \A o \in Ranks : out[r][o] = Payload(o, call[r])
    BY <1>1, ExactFromInv DEF GatherExact
  <2>2. out[r] \in [Ranks -> Payloads]
    BY DEF TypeOK
  <2> QED BY <2>1, <2>2
<1>3. \A o \in Ranks : call[o] >= call[r]
  <2>1. \A o \in Ranks : out[r][o][2] <= call[o] /\ out[r][o][2] = call[r]
    BY <1>2 DEF RingInv, Provenance, Payload
  <2> QED BY <2>1, Positions
<1>4. [s \in Ranks |-> pc'[s] # "idle"] = [busy EXCEPT ![r] = FALSE]
  BY <1>1
<1>5. [s \in Ranks |-> IF pc'[s] = "idle" THEN out'[s] ELSE none] = [result EXCEPT ![r] = gathered]
  BY <1>1, <1>2
<1>6. gathered = [o \in Abs!Ranks |-> Abs!Contribution(o, call[r])] /\ Abs!Ranks = Ranks
  BY DEF Abs!Contribution, Abs!Ranks, Ranks, Payload
<1> QED BY <1>1, <1>3, <1>4, <1>5, <1>6 DEF Abs!AbsReturn

LEMMA NextRefines ==
  ASSUME TypeOK, TypeOK', RingInv, [Next]_vars
  PROVE  [Abs!AbsNext]_Abs!absVars
<1>0. Abs!Ranks = Ranks
  BY DEF Abs!Ranks, Ranks
<1>1. ASSUME NEW r \in Ranks, Enter(r) PROVE Abs!AbsNext
  BY <1>0, <1>1, EnterRefines DEF Abs!AbsNext
<1>2. ASSUME NEW r \in Ranks, Finish(r) PROVE Abs!AbsNext
  BY <1>0, <1>2, FinishRefines DEF Abs!AbsNext
<1>3. ASSUME NEW r \in Ranks, WaitData(r) \/ Unpack(r) \/ Handshake(r)
      PROVE UNCHANGED Abs!absVars
  <2>1. /\ UNCHANGED call /\ pc[r] # "idle" /\ pc'[r] # "idle"
        /\ \A s \in Ranks : s # r => pc'[s] = pc[s] /\ out'[s] = out[s]
    BY <1>3 DEF WaitData, Unpack, Handshake, TypeOK, memory
  <2> QED BY <2>1, InternalStutters
<1>4. ASSUME UNCHANGED <<call, pc, out>> PROVE UNCHANGED Abs!absVars
  BY <1>4 DEF Abs!absVars
<1>5. ASSUME NEW r \in Ranks, CopyStep(r) \/ FlagStep(r) PROVE UNCHANGED Abs!absVars
  <2>1. UNCHANGED <<call, pc, out>>
    BY <1>5 DEF CopyStep, FlagStep, memory
  <2> QED BY <1>4, <2>1
<1>6. CASE UNCHANGED vars
  <2>1. UNCHANGED <<call, pc, out>>
    BY <1>6 DEF vars, streams, memory
  <2> QED BY <1>4, <2>1
<1> QED BY <1>1, <1>2, <1>3, <1>5, <1>6 DEF Next, MainStep, Drained

\* The three-stream ring on shared slots and flags implements the barrier that
\* returns every rank's contribution to the call.
THEOREM RingImplementsBarrier == Spec => ImplementsBarrier
<1>1. TypeOK /\ TypeOK' /\ RingInv /\ [Next]_vars => [Abs!AbsNext]_Abs!absVars
  BY NextRefines
<1> QED BY InitRefines, RingInvariant, <1>1, PTL DEF Spec, ImplementsBarrier, Abs!AbsSpec
=============================================================================
