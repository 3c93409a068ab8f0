------------------------ MODULE HeadroomEscrowProofs ------------------------
(***************************************************************************)
(* The escrow's safety for every cohort and every number of layers.  The   *)
(* inductive invariant says where each rank is in its sequence of          *)
(* reductions and what a passed reduction proves about every other rank:   *)
(* sequences only grow, so what was true of a position stays true.         *)
(***************************************************************************)
EXTENDS HeadroomEscrow, TLAPS

\* The position of rank r in its life.
Position(r) ==
  /\ pc[r] = "warm" => state[r] = "absent" /\ ~pointer[r] /\ freed[r] = 0 /\ Len(joined[r]) = 0
  /\ pc[r] = "vote" => state[r] = "arming" /\ freed[r] = 0 /\ Len(joined[r]) = 1
                       /\ (joined[r][1].value = 1 => pointer[r])
  /\ pc[r] = "released" => state[r] = "armed" /\ ~pointer[r] /\ freed[r] = 1 /\ Len(joined[r]) = 1
  /\ pc[r] = "probeA" => state[r] = "armed" /\ ~pointer[r] /\ freed[r] = 1
                         /\ Len(joined[r]) = 2 /\ probes
  /\ pc[r] = "probeB" => state[r] = "probe_a" /\ Len(joined[r]) = 3
  /\ pc[r] \in {"ready", "body", "tail"} => state[r] \in {"armed", "probe_a", "complete"}
  /\ pc[r] \in {"body", "tail"} => state[r] # "probe_a"
  /\ pc[r] \in {"ready", "body", "tail"} /\ state[r] = "armed" =>
       pointer[r] /\ freed[r] = 0 /\ Len(joined[r]) = 1
  /\ pc[r] = "ready" /\ state[r] = "probe_a" => Len(joined[r]) = 2
  /\ state[r] = "probe_a" => probes
  /\ state[r] = "dead" => pc[r] = "raised"

\* How many gathers rank r has enqueued.
Progress(r) ==
  /\ pc[r] \in {"warm", "vote"} => gathered[r] = 0
  /\ pc[r] \in {"warm", "vote", "ready", "body", "probeB"} => gathered[r] = layer[r]
  /\ pc[r] \in {"body", "probeB"} => layer[r] < MaxLayers
  /\ pc[r] \in {"tail", "released", "probeA"} => gathered[r] = layer[r] + 1
  /\ freed[r] = 1 /\ pc[r] # "raised" => gathered[r] >= 1

\* Which reduction stands at which position.
Ordered(r) ==
  /\ Len(joined[r]) <= 3
  /\ Len(joined[r]) >= 1 => joined[r][1].tag = "vote"
  /\ Len(joined[r]) >= 2 => joined[r][2].tag = "A"
  /\ Len(joined[r]) >= 3 => joined[r][3].tag = "B"

\* All ranks have joined their i-th reduction (in J) with 1; some rank with 0.
AllPassed(J, i)  == \A s \in Ranks : Len(J[s]) >= i /\ J[s][i].value = 1
SomeFailed(J, i) == \E s \in Ranks : Len(J[s]) >= i /\ J[s][i].value # 1

\* What rank r's state tells about the group.
Knows(r) ==
  /\ state[r] \in {"armed", "probe_a", "complete"} => AllPassed(joined, 1)
  /\ state[r] = "probe_a" => AllPassed(joined, 2)
  /\ state[r] = "complete" /\ probes => AllPassed(joined, 2) /\ AllPassed(joined, 3)
  /\ state[r] = "dead" /\ Len(joined[r]) >= 2 => SomeFailed(joined, Len(joined[r]))

\* How far the first packed layer is on the device of rank r, and what the
\* host's state proves about it.
OnDevice(r) ==
  /\ device[r] # "idle" => gathered[r] >= 1
  /\ device[r] \in {"gathered", "attended"} => \A s \in Ranks : device[s] # "idle"
  /\ gathered[r] >= 1 /\ device[r] # "attended" => pointer[r] /\ freed[r] = 0
  /\ gathered[r] >= 1 /\ freed[r] = 1 => device[r] = "attended"
  /\ Len(joined[r]) >= 2 => device[r] = "attended"

EscrowInv ==
  /\ TypeOK
  /\ FreedOnce
  /\ \A r \in Ranks : Position(r) /\ Progress(r) /\ Ordered(r) /\ Knows(r) /\ OnDevice(r)

-----------------------------------------------------------------------------
(* Sequences of reductions only grow.                                      *)

Grown ==
  \A s \in Ranks :
    /\ Len(joined'[s]) >= Len(joined[s])
    /\ \A i \in 1..Len(joined[s]) : joined'[s][i] = joined[s][i]

\* Join appends one entry to one rank's sequence.
LEMMA JoinEffect ==
  ASSUME TypeOK, NEW r \in Ranks, NEW tag \in {"vote", "A", "B"}, NEW value \in {0, 1},
         Join(r, tag, value)
  PROVE  /\ joined' \in [Ranks -> Seq(Entries)]
         /\ Len(joined'[r]) = Len(joined[r]) + 1
         /\ joined'[r][Len(joined[r]) + 1] = Entry(tag, value)
         /\ \A s \in Ranks : s # r => joined'[s] = joined[s]
         /\ Grown
<1>1. Entry(tag, value) \in Entries
  BY DEF Entry, Entries
<1>2. joined[r] \in Seq(Entries) /\ joined \in [Ranks -> Seq(Entries)]
  BY DEF TypeOK
<1>3. joined' = [joined EXCEPT ![r] = Append(joined[r], Entry(tag, value))]
  BY DEF Join
<1>4. /\ joined'[r] = Append(joined[r], Entry(tag, value))
      /\ \A s \in Ranks : s # r => joined'[s] = joined[s]
  BY <1>2, <1>3
<1>5. /\ Append(joined[r], Entry(tag, value)) \in Seq(Entries)
      /\ Len(Append(joined[r], Entry(tag, value))) = Len(joined[r]) + 1
      /\ Append(joined[r], Entry(tag, value))[Len(joined[r]) + 1] = Entry(tag, value)
      /\ \A i \in 1..Len(joined[r]) : Append(joined[r], Entry(tag, value))[i] = joined[r][i]
  BY <1>1, <1>2
<1>6. joined' \in [Ranks -> Seq(Entries)]
  BY <1>2, <1>3, <1>5
<1>7. \A s \in Ranks : Len(joined[s]) \in Nat
  BY <1>2
<1>8. Grown
  BY <1>4, <1>5, <1>7 DEF Grown
<1>. QED
  BY <1>4, <1>5, <1>6, <1>8

LEMMA UnchangedGrows ==
  ASSUME TypeOK, UNCHANGED joined
  PROVE  Grown /\ joined' \in [Ranks -> Seq(Entries)]
<1>1. \A s \in Ranks : Len(joined[s]) \in Nat
  BY DEF TypeOK
<1>. QED
  BY <1>1 DEF Grown, TypeOK

\* What has been established about a position stays established.
LEMMA PassedStable ==
  ASSUME TypeOK, Grown, joined' \in [Ranks -> Seq(Entries)], NEW i \in Nat, i >= 1
  PROVE  /\ AllPassed(joined, i) => AllPassed(joined', i)
         /\ SomeFailed(joined, i) => SomeFailed(joined', i)
<1>1. \A s \in Ranks : Len(joined[s]) \in Nat /\ Len(joined'[s]) \in Nat
  BY DEF TypeOK
<1>2. ASSUME NEW s \in Ranks, Len(joined[s]) >= i
      PROVE  Len(joined'[s]) >= i /\ joined'[s][i] = joined[s][i]
  BY <1>1, <1>2 DEF Grown
<1>. QED
  BY <1>2 DEF AllPassed, SomeFailed

-----------------------------------------------------------------------------
(* A step of one rank.                                                     *)

\* What a step of rank r leaves alone.
Others(r) ==
  /\ probes' = probes
  /\ \A q \in Ranks : q # r =>
       /\ pc'[q] = pc[q] /\ state'[q] = state[q] /\ pointer'[q] = pointer[q]
       /\ freed'[q] = freed[q] /\ joined'[q] = joined[q]
       /\ gathered'[q] = gathered[q] /\ layer'[q] = layer[q]
       /\ device'[q] = device[q]

\* FreedOnce, for one rank.
Freed(r) ==
  /\ pointer[r] => freed[r] = 0
  /\ state[r] \in {"probe_a", "complete", "dead"} => ~pointer[r]
  /\ state[r] \in {"probe_a", "complete"} => freed[r] = 1

\* The invariant follows from the part of it about the rank that moved.
LEMMA OneRankStep ==
  ASSUME EscrowInv, NEW r \in Ranks, Others(r), TypeOK', Grown,
         device[r] # "idle" => device'[r] # "idle",
         Position(r)', Progress(r)', Ordered(r)', Knows(r)', Freed(r)', OnDevice(r)'
  PROVE  EscrowInv'
<1>1. TypeOK /\ joined' \in [Ranks -> Seq(Entries)]
  BY DEF EscrowInv, TypeOK
<1>2. ASSUME NEW q \in Ranks, q # r
      PROVE  Position(q)' /\ Progress(q)' /\ Ordered(q)' /\ Freed(q)'
  <2>1. Position(q) /\ Progress(q) /\ Ordered(q) /\ Freed(q)
    BY DEF EscrowInv, FreedOnce, Freed
  <2>2. /\ probes' = probes
        /\ pc'[q] = pc[q] /\ state'[q] = state[q] /\ pointer'[q] = pointer[q]
        /\ freed'[q] = freed[q] /\ joined'[q] = joined[q]
        /\ gathered'[q] = gathered[q] /\ layer'[q] = layer[q]
    BY <1>2 DEF Others
  <2>3. Position(q)'
    BY <2>1, <2>2 DEF Position
  <2>4. Progress(q)'
    BY <2>1, <2>2 DEF Progress
  <2>5. Ordered(q)' /\ Freed(q)'
    BY <2>1, <2>2 DEF Ordered, Freed
  <2>. QED
    BY <2>3, <2>4, <2>5
<1>3. ASSUME NEW q \in Ranks, q # r
      PROVE  Knows(q)'
  <2>1. Knows(q) /\ probes' = probes /\ state'[q] = state[q] /\ joined'[q] = joined[q]
    BY <1>3 DEF EscrowInv, Others
  <2>2. Len(joined[q]) \in Nat
    BY <1>1 DEF TypeOK
  <2>3. \A i \in Nat : i >= 1 =>
          /\ AllPassed(joined, i) => AllPassed(joined', i)
          /\ SomeFailed(joined, i) => SomeFailed(joined', i)
    BY <1>1, PassedStable
  <2>4. /\ AllPassed(joined, 1) => AllPassed(joined', 1)
        /\ AllPassed(joined, 2) => AllPassed(joined', 2)
        /\ AllPassed(joined, 3) => AllPassed(joined', 3)
    BY <2>3
  <2>5. Len(joined[q]) >= 2 =>
          (SomeFailed(joined, Len(joined[q])) => SomeFailed(joined', Len(joined[q])))
    BY <2>2, <2>3
  <2>. QED
    BY <2>1, <2>4, <2>5 DEF Knows
<1>4. ASSUME NEW q \in Ranks, q # r
      PROVE  OnDevice(q)'
  <2>1. OnDevice(q)
    BY DEF EscrowInv
  <2>2. \A s \in Ranks : device[s] # "idle" => device'[s] # "idle"
    BY DEF Others
  <2>. QED
    BY <1>4, <2>1, <2>2 DEF OnDevice, Others
<1>. QED
  BY <1>2, <1>3, <1>4 DEF EscrowInv, FreedOnce, Freed

-----------------------------------------------------------------------------
(* The steps.  A raise, a reduction joined, and every other step have one   *)
(* lemma each for what they share.                                          *)

\* The facts about rank r the steps start from.
Start(r) ==
  /\ TypeOK
  /\ Position(r) /\ Progress(r) /\ Ordered(r) /\ Knows(r)
  /\ Freed(r) /\ OnDevice(r)
  /\ Len(joined[r]) \in Nat
  /\ gathered[r] \in 0..MaxLayers /\ layer[r] \in 0..MaxLayers /\ MaxLayers \in Nat

LEMMA RankFacts == ASSUME EscrowInv, NEW r \in Ranks PROVE Start(r)
BY LayersAssumption DEF EscrowInv, TypeOK, FreedOnce, Freed, Start

LEMMA ArmRefusedStep == ASSUME EscrowInv, NEW r \in Ranks, ArmRefused(r) PROVE EscrowInv'
<1>1. Start(r)
  BY RankFacts
<1>2. UNCHANGED joined
  BY DEF ArmRefused
<1>3. Grown /\ joined' \in [Ranks -> Seq(Entries)]
  BY <1>1, <1>2, UnchangedGrows DEF Start
<1>4. TypeOK'
  BY <1>1, <1>3 DEF ArmRefused, Raise, Start, TypeOK, PCs, States, Devices, Progress, Freed
<1>5. Others(r) /\ device' = device
  BY <1>1, <1>2 DEF ArmRefused, Raise, Start, Others, TypeOK
<1>6. Position(r)'
  BY <1>1, <1>2 DEF ArmRefused, Raise, Start, TypeOK, Position, Freed
<1>7. Progress(r)'
  BY <1>1, <1>2 DEF ArmRefused, Raise, Start, TypeOK, Position, Progress
<1>8. Ordered(r)'
  BY <1>1, <1>2 DEF Start, Ordered
<1>9. Knows(r)'
  BY <1>1, <1>2 DEF ArmRefused, Raise, Start, TypeOK, Position, Knows, AllPassed, SomeFailed
<1>10. Freed(r)' /\ OnDevice(r)'
  BY <1>1, <1>2 DEF ArmRefused, Raise, Start, TypeOK, Position, Progress, Freed, OnDevice
<1>. QED
  BY <1>3, <1>4, <1>5, <1>6, <1>7, <1>8, <1>9, <1>10, OneRankStep

LEMMA ArmedStep == ASSUME EscrowInv, NEW r \in Ranks, Armed(r) PROVE EscrowInv'
<1>1. Start(r)
  BY RankFacts
<1>2. UNCHANGED joined
  BY DEF Armed
<1>3. Grown /\ joined' \in [Ranks -> Seq(Entries)]
  BY <1>1, <1>2, UnchangedGrows DEF Start
<1>4. TypeOK'
  BY <1>1, <1>3 DEF Armed, Complete, MinOK, Start, TypeOK, PCs, States, Devices, Progress, Freed
<1>5. Others(r) /\ device' = device
  BY <1>1, <1>2 DEF Armed, Complete, MinOK, Start, Others, TypeOK
<1>6. Position(r)'
  BY <1>1, <1>2 DEF Armed, Complete, MinOK, Start, TypeOK, Position, Freed
<1>7. Progress(r)'
  BY <1>1, <1>2 DEF Armed, Complete, MinOK, Start, TypeOK, Position, Progress
<1>8. Ordered(r)'
  BY <1>1, <1>2 DEF Start, Ordered
<1>9. Knows(r)'
  BY <1>1, <1>2 DEF Armed, Complete, MinOK, Start, TypeOK, Position, Knows, AllPassed, SomeFailed
<1>10. Freed(r)' /\ OnDevice(r)'
  BY <1>1, <1>2 DEF Armed, Complete, MinOK, Start, TypeOK, Position, Progress, Freed, OnDevice
<1>. QED
  BY <1>3, <1>4, <1>5, <1>6, <1>7, <1>8, <1>9, <1>10, OneRankStep

LEMMA ArmFailedStep == ASSUME EscrowInv, NEW r \in Ranks, ArmFailed(r) PROVE EscrowInv'
<1>1. Start(r)
  BY RankFacts
<1>2. UNCHANGED joined
  BY DEF ArmFailed
<1>3. Grown /\ joined' \in [Ranks -> Seq(Entries)]
  BY <1>1, <1>2, UnchangedGrows DEF Start
<1>4. TypeOK'
  BY <1>1, <1>3 DEF ArmFailed, Raise, FreeLocal, Start, TypeOK, PCs, States, Devices, Progress, Freed
<1>5. Others(r) /\ device' = device
  BY <1>1, <1>2 DEF ArmFailed, Raise, FreeLocal, Start, Others, TypeOK
<1>6. Position(r)'
  BY <1>1, <1>2 DEF ArmFailed, Raise, FreeLocal, Start, TypeOK, Position, Freed
<1>7. Progress(r)'
  BY <1>1, <1>2 DEF ArmFailed, Raise, FreeLocal, Start, TypeOK, Position, Progress
<1>8. Ordered(r)'
  BY <1>1, <1>2 DEF Start, Ordered
<1>9. Knows(r)'
  <2>1. state'[r] = "dead" /\ Len(joined'[r]) = 1
    BY <1>1, <1>2 DEF ArmFailed, Start, TypeOK, Position
  <2>. QED
    BY <2>1 DEF Knows
<1>10. Freed(r)' /\ OnDevice(r)'
  BY <1>1, <1>2 DEF ArmFailed, Raise, FreeLocal, Start, TypeOK, Position, Progress, Freed, OnDevice
<1>. QED
  BY <1>3, <1>4, <1>5, <1>6, <1>7, <1>8, <1>9, <1>10, OneRankStep

LEMMA EnterLayerStep == ASSUME EscrowInv, NEW r \in Ranks, EnterLayer(r) PROVE EscrowInv'
<1>1. Start(r)
  BY RankFacts
<1>2. UNCHANGED joined
  BY DEF EnterLayer
<1>3. Grown /\ joined' \in [Ranks -> Seq(Entries)]
  BY <1>1, <1>2, UnchangedGrows DEF Start
<1>4. TypeOK'
  BY <1>1, <1>3 DEF EnterLayer, Start, TypeOK, PCs, States, Devices, Progress, Freed
<1>5. Others(r) /\ device' = device
  BY <1>1, <1>2 DEF EnterLayer, Start, Others, TypeOK
<1>6. Position(r)'
  BY <1>1, <1>2 DEF EnterLayer, Start, TypeOK, Position, Freed
<1>7. Progress(r)'
  BY <1>1, <1>2 DEF EnterLayer, Start, TypeOK, Position, Progress
<1>8. Ordered(r)'
  BY <1>1, <1>2 DEF Start, Ordered
<1>9. Knows(r)'
  BY <1>1, <1>2 DEF EnterLayer, Start, TypeOK, Position, Knows, AllPassed, SomeFailed
<1>10. Freed(r)' /\ OnDevice(r)'
  BY <1>1, <1>2 DEF EnterLayer, Start, TypeOK, Position, Progress, Freed, OnDevice
<1>. QED
  BY <1>3, <1>4, <1>5, <1>6, <1>7, <1>8, <1>9, <1>10, OneRankStep

LEMMA LayerRefusedStep == ASSUME EscrowInv, NEW r \in Ranks, LayerRefused(r) PROVE EscrowInv'
<1>1. Start(r)
  BY RankFacts
<1>2. UNCHANGED joined
  BY DEF LayerRefused
<1>3. Grown /\ joined' \in [Ranks -> Seq(Entries)]
  BY <1>1, <1>2, UnchangedGrows DEF Start
<1>4. TypeOK'
  BY <1>1, <1>3 DEF LayerRefused, Raise, Start, TypeOK, PCs, States, Devices, Progress, Freed
<1>5. Others(r) /\ device' = device
  BY <1>1, <1>2 DEF LayerRefused, Raise, Start, Others, TypeOK
<1>6. Position(r)'
  BY <1>1, <1>2 DEF LayerRefused, Raise, Start, TypeOK, Position, Freed
<1>7. Progress(r)'
  BY <1>1, <1>2 DEF LayerRefused, Raise, Start, TypeOK, Position, Progress
<1>8. Ordered(r)'
  BY <1>1, <1>2 DEF Start, Ordered
<1>9. Knows(r)'
  BY <1>1, <1>2 DEF LayerRefused, Raise, Start, TypeOK, Position, Knows, AllPassed, SomeFailed
<1>10. Freed(r)' /\ OnDevice(r)'
  BY <1>1, <1>2 DEF LayerRefused, Raise, Start, TypeOK, Position, Progress, Freed, OnDevice
<1>. QED
  BY <1>3, <1>4, <1>5, <1>6, <1>7, <1>8, <1>9, <1>10, OneRankStep

LEMMA AttendStep == ASSUME EscrowInv, NEW r \in Ranks, Attend(r) PROVE EscrowInv'
<1>1. Start(r)
  BY RankFacts
<1>2. UNCHANGED joined
  BY DEF Attend
<1>3. Grown /\ joined' \in [Ranks -> Seq(Entries)]
  BY <1>1, <1>2, UnchangedGrows DEF Start
<1>4. TypeOK'
  BY <1>1, <1>3 DEF Attend, Start, TypeOK, PCs, States, Devices, Progress, Freed
<1>5. Others(r) /\ device' = device
  BY <1>1, <1>2 DEF Attend, Start, Others, TypeOK
<1>6. Position(r)'
  BY <1>1, <1>2 DEF Attend, Start, TypeOK, Position, Freed
<1>7. Progress(r)'
  BY <1>1, <1>2 DEF Attend, Start, TypeOK, Position, Progress
<1>8. Ordered(r)'
  BY <1>1, <1>2 DEF Start, Ordered
<1>9. Knows(r)'
  BY <1>1, <1>2 DEF Attend, Start, TypeOK, Position, Knows, AllPassed, SomeFailed
<1>10. Freed(r)' /\ OnDevice(r)'
  BY <1>1, <1>2 DEF Attend, Start, TypeOK, Position, Progress, Freed, OnDevice
<1>. QED
  BY <1>3, <1>4, <1>5, <1>6, <1>7, <1>8, <1>9, <1>10, OneRankStep

LEMMA NoReleaseStep == ASSUME EscrowInv, NEW r \in Ranks, NoRelease(r) PROVE EscrowInv'
<1>1. Start(r)
  BY RankFacts
<1>2. UNCHANGED joined
  BY DEF NoRelease
<1>3. Grown /\ joined' \in [Ranks -> Seq(Entries)]
  BY <1>1, <1>2, UnchangedGrows DEF Start
<1>4. TypeOK'
  BY <1>1, <1>3 DEF NoRelease, LayerDone, Start, TypeOK, PCs, States, Devices, Progress, Freed
<1>5. Others(r) /\ device' = device
  BY <1>1, <1>2 DEF NoRelease, LayerDone, Start, Others, TypeOK
<1>6. Position(r)'
  BY <1>1, <1>2 DEF NoRelease, LayerDone, Start, TypeOK, Position, Freed
<1>7. Progress(r)'
  BY <1>1, <1>2 DEF NoRelease, LayerDone, Start, TypeOK, Position, Progress
<1>8. Ordered(r)'
  BY <1>1, <1>2 DEF Start, Ordered
<1>9. Knows(r)'
  BY <1>1, <1>2 DEF NoRelease, LayerDone, Start, TypeOK, Position, Knows, AllPassed, SomeFailed
<1>10. Freed(r)' /\ OnDevice(r)'
  BY <1>1, <1>2 DEF NoRelease, LayerDone, Start, TypeOK, Position, Progress, Freed, OnDevice
<1>. QED
  BY <1>3, <1>4, <1>5, <1>6, <1>7, <1>8, <1>9, <1>10, OneRankStep

LEMMA ReleaseStep == ASSUME EscrowInv, NEW r \in Ranks, Release(r) PROVE EscrowInv'
<1>1. Start(r)
  BY RankFacts
<1>2. UNCHANGED joined
  BY DEF Release
<1>3. Grown /\ joined' \in [Ranks -> Seq(Entries)]
  BY <1>1, <1>2, UnchangedGrows DEF Start
<1>4. TypeOK'
  BY <1>1, <1>3 DEF Release, Synchronized, FreeLocal, Start, TypeOK, PCs, States, Devices, Progress, Freed
<1>5. Others(r) /\ device' = device
  BY <1>1, <1>2 DEF Release, Synchronized, FreeLocal, Start, Others, TypeOK
<1>6. Position(r)'
  BY <1>1, <1>2 DEF Release, Synchronized, FreeLocal, Start, TypeOK, Position, Freed
<1>7. Progress(r)'
  BY <1>1, <1>2 DEF Release, Synchronized, FreeLocal, Start, TypeOK, Position, Progress
<1>8. Ordered(r)'
  BY <1>1, <1>2 DEF Start, Ordered
<1>9. Knows(r)'
  BY <1>1, <1>2 DEF Release, Synchronized, FreeLocal, Start, TypeOK, Position, Knows, AllPassed, SomeFailed
<1>10. Freed(r)' /\ OnDevice(r)'
  BY <1>1, <1>2 DEF Release, Synchronized, FreeLocal, Start, TypeOK, Position, Progress, Freed, OnDevice
<1>. QED
  BY <1>3, <1>4, <1>5, <1>6, <1>7, <1>8, <1>9, <1>10, OneRankStep

LEMMA ReleaseFailedStep == ASSUME EscrowInv, NEW r \in Ranks, ReleaseFailed(r) PROVE EscrowInv'
<1>1. Start(r)
  BY RankFacts
<1>2. UNCHANGED joined
  BY DEF ReleaseFailed
<1>3. Grown /\ joined' \in [Ranks -> Seq(Entries)]
  BY <1>1, <1>2, UnchangedGrows DEF Start
<1>4. TypeOK'
  BY <1>1, <1>3 DEF ReleaseFailed, Raise, Start, TypeOK, PCs, States, Devices, Progress, Freed
<1>5. Others(r) /\ device' = device
  BY <1>1, <1>2 DEF ReleaseFailed, Raise, Start, Others, TypeOK
<1>6. Position(r)'
  BY <1>1, <1>2 DEF ReleaseFailed, Raise, Start, TypeOK, Position, Freed
<1>7. Progress(r)'
  BY <1>1, <1>2 DEF ReleaseFailed, Raise, Start, TypeOK, Position, Progress
<1>8. Ordered(r)'
  BY <1>1, <1>2 DEF Start, Ordered
<1>9. Knows(r)'
  BY <1>1, <1>2 DEF ReleaseFailed, Raise, Start, TypeOK, Position, Knows, AllPassed, SomeFailed
<1>10. Freed(r)' /\ OnDevice(r)'
  BY <1>1, <1>2 DEF ReleaseFailed, Raise, Start, TypeOK, Position, Progress, Freed, OnDevice
<1>. QED
  BY <1>3, <1>4, <1>5, <1>6, <1>7, <1>8, <1>9, <1>10, OneRankStep

LEMMA UnprobedStep == ASSUME EscrowInv, NEW r \in Ranks, Unprobed(r) PROVE EscrowInv'
<1>1. Start(r)
  BY RankFacts
<1>2. UNCHANGED joined
  BY DEF Unprobed
<1>3. Grown /\ joined' \in [Ranks -> Seq(Entries)]
  BY <1>1, <1>2, UnchangedGrows DEF Start
<1>4. TypeOK'
  BY <1>1, <1>3 DEF Unprobed, LayerDone, Start, TypeOK, PCs, States, Devices, Progress, Freed
<1>5. Others(r) /\ device' = device
  BY <1>1, <1>2 DEF Unprobed, LayerDone, Start, Others, TypeOK
<1>6. Position(r)'
  BY <1>1, <1>2 DEF Unprobed, LayerDone, Start, TypeOK, Position, Freed
<1>7. Progress(r)'
  BY <1>1, <1>2 DEF Unprobed, LayerDone, Start, TypeOK, Position, Progress
<1>8. Ordered(r)'
  BY <1>1, <1>2 DEF Start, Ordered
<1>9. Knows(r)'
  BY <1>1, <1>2 DEF Unprobed, LayerDone, Start, TypeOK, Position, Knows, AllPassed, SomeFailed
<1>10. Freed(r)' /\ OnDevice(r)'
  BY <1>1, <1>2 DEF Unprobed, LayerDone, Start, TypeOK, Position, Progress, Freed, OnDevice
<1>. QED
  BY <1>3, <1>4, <1>5, <1>6, <1>7, <1>8, <1>9, <1>10, OneRankStep

LEMMA PassProbeAStep == ASSUME EscrowInv, NEW r \in Ranks, PassProbeA(r) PROVE EscrowInv'
<1>1. Start(r)
  BY RankFacts
<1>2. UNCHANGED joined
  BY DEF PassProbeA
<1>3. Grown /\ joined' \in [Ranks -> Seq(Entries)]
  BY <1>1, <1>2, UnchangedGrows DEF Start
<1>4. TypeOK'
  BY <1>1, <1>3 DEF PassProbeA, LayerDone, Complete, MinOK, Start, TypeOK, PCs, States, Devices, Progress, Freed
<1>5. Others(r) /\ device' = device
  BY <1>1, <1>2 DEF PassProbeA, LayerDone, Complete, MinOK, Start, Others, TypeOK
<1>6. Position(r)'
  BY <1>1, <1>2 DEF PassProbeA, LayerDone, Complete, MinOK, Start, TypeOK, Position, Freed
<1>7. Progress(r)'
  BY <1>1, <1>2 DEF PassProbeA, LayerDone, Complete, MinOK, Start, TypeOK, Position, Progress
<1>8. Ordered(r)'
  BY <1>1, <1>2 DEF Start, Ordered
<1>9. Knows(r)'
  BY <1>1, <1>2 DEF PassProbeA, LayerDone, Complete, MinOK, Start, TypeOK, Position, Knows, AllPassed, SomeFailed
<1>10. Freed(r)' /\ OnDevice(r)'
  BY <1>1, <1>2 DEF PassProbeA, LayerDone, Complete, MinOK, Start, TypeOK, Position, Progress, Freed, OnDevice
<1>. QED
  BY <1>3, <1>4, <1>5, <1>6, <1>7, <1>8, <1>9, <1>10, OneRankStep

LEMMA PassProbeBStep == ASSUME EscrowInv, NEW r \in Ranks, PassProbeB(r) PROVE EscrowInv'
<1>1. Start(r)
  BY RankFacts
<1>2. UNCHANGED joined
  BY DEF PassProbeB
<1>3. Grown /\ joined' \in [Ranks -> Seq(Entries)]
  BY <1>1, <1>2, UnchangedGrows DEF Start
<1>4. TypeOK'
  BY <1>1, <1>3 DEF PassProbeB, Complete, MinOK, Start, TypeOK, PCs, States, Devices, Progress, Freed
<1>5. Others(r) /\ device' = device
  BY <1>1, <1>2 DEF PassProbeB, Complete, MinOK, Start, Others, TypeOK
<1>6. Position(r)'
  BY <1>1, <1>2 DEF PassProbeB, Complete, MinOK, Start, TypeOK, Position, Freed
<1>7. Progress(r)'
  BY <1>1, <1>2 DEF PassProbeB, Complete, MinOK, Start, TypeOK, Position, Progress
<1>8. Ordered(r)'
  BY <1>1, <1>2 DEF Start, Ordered
<1>9. Knows(r)'
  <2>1. AllPassed(joined, 1) /\ AllPassed(joined, 2)
    BY <1>1 DEF PassProbeB, Start, Position, Knows
  <2>2. AllPassed(joined, 3)
    BY <1>1 DEF PassProbeB, Start, Position, Complete, MinOK, AllPassed
  <2>3. state'[r] = "complete" /\ joined' = joined
    BY <1>1, <1>2 DEF PassProbeB, Start, TypeOK
  <2>. QED
    BY <2>1, <2>2, <2>3 DEF Knows
<1>10. Freed(r)' /\ OnDevice(r)'
  BY <1>1, <1>2 DEF PassProbeB, Complete, MinOK, Start, TypeOK, Position, Progress, Freed, OnDevice
<1>. QED
  BY <1>3, <1>4, <1>5, <1>6, <1>7, <1>8, <1>9, <1>10, OneRankStep

LEMMA FailProbeStep == ASSUME EscrowInv, NEW r \in Ranks, FailProbe(r) PROVE EscrowInv'
<1>1. Start(r)
  BY RankFacts
<1>2. UNCHANGED joined
  BY DEF FailProbe
<1>3. Grown /\ joined' \in [Ranks -> Seq(Entries)]
  BY <1>1, <1>2, UnchangedGrows DEF Start
<1>4. TypeOK'
  BY <1>1, <1>3 DEF FailProbe, Raise, Complete, MinOK, Start, TypeOK, PCs, States, Devices, Progress, Freed
<1>5. Others(r) /\ device' = device
  BY <1>1, <1>2 DEF FailProbe, Raise, Complete, MinOK, Start, Others, TypeOK
<1>6. Position(r)'
  BY <1>1, <1>2 DEF FailProbe, Raise, Complete, MinOK, Start, TypeOK, Position, Freed
<1>7. Progress(r)'
  BY <1>1, <1>2 DEF FailProbe, Raise, Complete, MinOK, Start, TypeOK, Position, Progress
<1>8. Ordered(r)'
  BY <1>1, <1>2 DEF Start, Ordered
<1>9. Knows(r)'
  BY <1>1, <1>2 DEF FailProbe, Raise, Complete, MinOK, Start, TypeOK, Position, Knows, AllPassed, SomeFailed
<1>10. Freed(r)' /\ OnDevice(r)'
  BY <1>1, <1>2 DEF FailProbe, Raise, Complete, MinOK, Start, TypeOK, Position, Progress, Freed, OnDevice
<1>. QED
  BY <1>3, <1>4, <1>5, <1>6, <1>7, <1>8, <1>9, <1>10, OneRankStep

LEMMA ProbeRaisesStep == ASSUME EscrowInv, NEW r \in Ranks, ProbeRaises(r) PROVE EscrowInv'
<1>1. Start(r)
  BY RankFacts
<1>2. UNCHANGED joined
  BY DEF ProbeRaises
<1>3. Grown /\ joined' \in [Ranks -> Seq(Entries)]
  BY <1>1, <1>2, UnchangedGrows DEF Start
<1>4. TypeOK'
  BY <1>1, <1>3 DEF ProbeRaises, Raise, Start, TypeOK, PCs, States, Devices, Progress, Freed
<1>5. Others(r) /\ device' = device
  BY <1>1, <1>2 DEF ProbeRaises, Raise, Start, Others, TypeOK
<1>6. Position(r)'
  BY <1>1, <1>2 DEF ProbeRaises, Raise, Start, TypeOK, Position, Freed
<1>7. Progress(r)'
  BY <1>1, <1>2 DEF ProbeRaises, Raise, Start, TypeOK, Position, Progress
<1>8. Ordered(r)'
  BY <1>1, <1>2 DEF Start, Ordered
<1>9. Knows(r)'
  BY <1>1, <1>2 DEF ProbeRaises, Raise, Start, TypeOK, Position, Knows, AllPassed, SomeFailed
<1>10. Freed(r)' /\ OnDevice(r)'
  BY <1>1, <1>2 DEF ProbeRaises, Raise, Start, TypeOK, Position, Progress, Freed, OnDevice
<1>. QED
  BY <1>3, <1>4, <1>5, <1>6, <1>7, <1>8, <1>9, <1>10, OneRankStep

LEMMA AllocateStep == ASSUME EscrowInv, NEW r \in Ranks, Allocate(r) PROVE EscrowInv'
<1>1. Start(r)
  BY RankFacts
<1>2. PICK value \in {0, 1} : Join(r, "vote", value) /\ (value = 1 => pointer'[r])
  BY <1>1 DEF Allocate, Start, TypeOK
<1>3. /\ joined' \in [Ranks -> Seq(Entries)] /\ Grown
      /\ Len(joined[r]) = 0 /\ Len(joined'[r]) = 0 + 1
      /\ joined'[r][0 + 1] = Entry("vote", value)
      /\ \A i \in 1..Len(joined[r]) : joined'[r][i] = joined[r][i]
      /\ \A s \in Ranks : s # r => joined'[s] = joined[s]
  <2>1. Len(joined[r]) = 0
    BY <1>1 DEF Allocate, Start, Position
  <2>. QED
    BY <1>1, <1>2, <2>1, JoinEffect DEF Start, Grown
<1>4. TypeOK'
  BY <1>1, <1>3 DEF Allocate, Start, TypeOK, PCs, States, Devices
<1>5. Others(r) /\ device' = device
  BY <1>1, <1>3 DEF Allocate, Start, Others, TypeOK
<1>6. Position(r)'
  BY <1>1, <1>2, <1>3 DEF Allocate, Start, TypeOK, Position, Freed, Entry
<1>7. Progress(r)'
  BY <1>1 DEF Allocate, Start, TypeOK, Position, Progress
<1>8. Ordered(r)'
  <2>1. \A i \in {1, 2, 3} : i <= 0 => joined'[r][i] = joined[r][i]
    BY <1>3
  <2>2. joined'[r][0 + 1].tag = "vote"
    BY <1>3 DEF Entry
  <2>. QED
    BY <1>1, <1>3, <2>1, <2>2 DEF Start, Ordered
<1>9. Knows(r)'
  <2>1. /\ AllPassed(joined, 1) => AllPassed(joined', 1)
        /\ AllPassed(joined, 2) => AllPassed(joined', 2)
    <3>1. \A i \in Nat : i >= 1 => (AllPassed(joined, i) => AllPassed(joined', i))
      BY <1>1, <1>3, PassedStable DEF Start
    <3>. QED
      BY <3>1
  <2>. QED
    BY <1>1, <1>3, <2>1 DEF Allocate, Start, TypeOK, Position, Knows
<1>10. Freed(r)' /\ OnDevice(r)'
  BY <1>1, <1>3 DEF Allocate, Start, TypeOK, Position, Progress, Freed, OnDevice
<1>. QED
  BY <1>3, <1>4, <1>5, <1>6, <1>7, <1>8, <1>9, <1>10, OneRankStep

LEMMA EnterProbeBStep == ASSUME EscrowInv, NEW r \in Ranks, EnterProbeB(r) PROVE EscrowInv'
<1>1. Start(r)
  BY RankFacts
<1>2. PICK value \in {0, 1} : Join(r, "B", value)
  BY <1>1 DEF EnterProbeB, Start, TypeOK
<1>3. /\ joined' \in [Ranks -> Seq(Entries)] /\ Grown
      /\ Len(joined[r]) = 2 /\ Len(joined'[r]) = 2 + 1
      /\ joined'[r][2 + 1] = Entry("B", value)
      /\ \A i \in 1..Len(joined[r]) : joined'[r][i] = joined[r][i]
      /\ \A s \in Ranks : s # r => joined'[s] = joined[s]
  <2>1. Len(joined[r]) = 2
    BY <1>1 DEF EnterProbeB, Start, Position
  <2>. QED
    BY <1>1, <1>2, <2>1, JoinEffect DEF Start, Grown
<1>4. TypeOK'
  BY <1>1, <1>3 DEF EnterProbeB, Start, TypeOK, PCs, States, Devices
<1>5. Others(r) /\ device' = device
  BY <1>1, <1>3 DEF EnterProbeB, Start, Others, TypeOK
<1>6. Position(r)'
  BY <1>1, <1>2, <1>3 DEF EnterProbeB, Start, TypeOK, Position, Freed, Entry
<1>7. Progress(r)'
  BY <1>1 DEF EnterProbeB, Start, TypeOK, Position, Progress
<1>8. Ordered(r)'
  <2>1. \A i \in {1, 2, 3} : i <= 2 => joined'[r][i] = joined[r][i]
    BY <1>3
  <2>2. joined'[r][2 + 1].tag = "B"
    BY <1>3 DEF Entry
  <2>. QED
    BY <1>1, <1>3, <2>1, <2>2 DEF Start, Ordered
<1>9. Knows(r)'
  <2>1. /\ AllPassed(joined, 1) => AllPassed(joined', 1)
        /\ AllPassed(joined, 2) => AllPassed(joined', 2)
    <3>1. \A i \in Nat : i >= 1 => (AllPassed(joined, i) => AllPassed(joined', i))
      BY <1>1, <1>3, PassedStable DEF Start
    <3>. QED
      BY <3>1
  <2>. QED
    BY <1>1, <1>3, <2>1 DEF EnterProbeB, Start, TypeOK, Position, Knows
<1>10. Freed(r)' /\ OnDevice(r)'
  BY <1>1 DEF EnterProbeB, Start, TypeOK, Position, Progress, Freed, OnDevice
<1>. QED
  BY <1>3, <1>4, <1>5, <1>6, <1>7, <1>8, <1>9, <1>10, OneRankStep

LEMMA StartProbeAStep == ASSUME EscrowInv, NEW r \in Ranks, StartProbeA(r) PROVE EscrowInv'
<1>1. Start(r)
  BY RankFacts
<1>2. PICK value \in {0, 1} : Join(r, "A", value)
  BY <1>1 DEF StartProbeA, Start, TypeOK
<1>3. /\ joined' \in [Ranks -> Seq(Entries)] /\ Grown
      /\ Len(joined[r]) = 1 /\ Len(joined'[r]) = 1 + 1
      /\ joined'[r][1 + 1] = Entry("A", value)
      /\ \A i \in 1..Len(joined[r]) : joined'[r][i] = joined[r][i]
      /\ \A s \in Ranks : s # r => joined'[s] = joined[s]
  <2>1. Len(joined[r]) = 1
    BY <1>1 DEF StartProbeA, Start, Position
  <2>. QED
    BY <1>1, <1>2, <2>1, JoinEffect DEF Start, Grown
<1>4. TypeOK'
  BY <1>1, <1>3 DEF StartProbeA, Start, TypeOK, PCs, States, Devices
<1>5. Others(r) /\ device' = device
  BY <1>1, <1>3 DEF StartProbeA, Start, Others, TypeOK
<1>6. Position(r)'
  BY <1>1, <1>2, <1>3 DEF StartProbeA, Start, TypeOK, Position, Freed, Entry
<1>7. Progress(r)'
  BY <1>1 DEF StartProbeA, Start, TypeOK, Position, Progress
<1>8. Ordered(r)'
  <2>1. \A i \in {1, 2, 3} : i <= 1 => joined'[r][i] = joined[r][i]
    BY <1>3
  <2>2. joined'[r][1 + 1].tag = "A"
    BY <1>3 DEF Entry
  <2>. QED
    BY <1>1, <1>3, <2>1, <2>2 DEF Start, Ordered
<1>9. Knows(r)'
  <2>1. /\ AllPassed(joined, 1) => AllPassed(joined', 1)
        /\ AllPassed(joined, 2) => AllPassed(joined', 2)
    <3>1. \A i \in Nat : i >= 1 => (AllPassed(joined, i) => AllPassed(joined', i))
      BY <1>1, <1>3, PassedStable DEF Start
    <3>. QED
      BY <3>1
  <2>. QED
    BY <1>1, <1>3, <2>1 DEF StartProbeA, Start, TypeOK, Position, Knows
<1>10. Freed(r)' /\ OnDevice(r)'
  BY <1>1 DEF StartProbeA, Start, TypeOK, Position, Progress, Freed, OnDevice
<1>. QED
  BY <1>3, <1>4, <1>5, <1>6, <1>7, <1>8, <1>9, <1>10, OneRankStep

LEMMA StartGatherStep == ASSUME EscrowInv, NEW r \in Ranks, StartGather(r) PROVE EscrowInv'
<1>1. Start(r)
  BY RankFacts
<1>2. UNCHANGED <<probes, pc, state, pointer, freed, joined, gathered, layer>>
  BY DEF StartGather, Advance
<1>3. Grown
  BY <1>1, <1>2, UnchangedGrows DEF Start
<1>4. TypeOK'
  BY <1>1, <1>2 DEF StartGather, Advance, Start, TypeOK, Devices
<1>5. Others(r) /\ device'[r] # "idle"
  BY <1>1, <1>2 DEF StartGather, Advance, Start, Others, TypeOK
<1>6. Position(r)' /\ Progress(r)' /\ Ordered(r)' /\ Freed(r)'
  BY <1>1, <1>2 DEF Start, Position, Progress, Ordered, Freed
<1>7. Knows(r)'
  BY <1>1, <1>2 DEF Start, Knows, AllPassed, SomeFailed
<1>8. OnDevice(r)'
  BY <1>1, <1>2, <1>5 DEF StartGather, Advance, Start, TypeOK, OnDevice, Others
<1>. QED
  BY <1>3, <1>4, <1>5, <1>6, <1>7, <1>8, OneRankStep

LEMMA FinishGatherStep == ASSUME EscrowInv, NEW r \in Ranks, FinishGather(r) PROVE EscrowInv'
<1>1. Start(r)
  BY RankFacts
<1>2. UNCHANGED <<probes, pc, state, pointer, freed, joined, gathered, layer>>
  BY DEF FinishGather, Advance
<1>3. Grown
  BY <1>1, <1>2, UnchangedGrows DEF Start
<1>4. TypeOK'
  BY <1>1, <1>2 DEF FinishGather, Advance, Start, TypeOK, Devices
<1>5. Others(r) /\ device'[r] # "idle"
  BY <1>1, <1>2 DEF FinishGather, Advance, Start, Others, TypeOK
<1>6. Position(r)' /\ Progress(r)' /\ Ordered(r)' /\ Freed(r)'
  BY <1>1, <1>2 DEF Start, Position, Progress, Ordered, Freed
<1>7. Knows(r)'
  BY <1>1, <1>2 DEF Start, Knows, AllPassed, SomeFailed
<1>8. OnDevice(r)'
  BY <1>1, <1>2, <1>5 DEF FinishGather, Advance, Start, TypeOK, OnDevice, Others
<1>. QED
  BY <1>3, <1>4, <1>5, <1>6, <1>7, <1>8, OneRankStep

LEMMA RunAttentionStep == ASSUME EscrowInv, NEW r \in Ranks, RunAttention(r) PROVE EscrowInv'
<1>1. Start(r)
  BY RankFacts
<1>2. UNCHANGED <<probes, pc, state, pointer, freed, joined, gathered, layer>>
  BY DEF RunAttention, Advance
<1>3. Grown
  BY <1>1, <1>2, UnchangedGrows DEF Start
<1>4. TypeOK'
  BY <1>1, <1>2 DEF RunAttention, Advance, Start, TypeOK, Devices
<1>5. Others(r) /\ device'[r] # "idle"
  BY <1>1, <1>2 DEF RunAttention, Advance, Start, Others, TypeOK
<1>6. Position(r)' /\ Progress(r)' /\ Ordered(r)' /\ Freed(r)'
  BY <1>1, <1>2 DEF Start, Position, Progress, Ordered, Freed
<1>7. Knows(r)'
  BY <1>1, <1>2 DEF Start, Knows, AllPassed, SomeFailed
<1>8. OnDevice(r)'
  BY <1>1, <1>2, <1>5 DEF RunAttention, Advance, Start, TypeOK, OnDevice, Others
<1>. QED
  BY <1>3, <1>4, <1>5, <1>6, <1>7, <1>8, OneRankStep

-----------------------------------------------------------------------------
(* The theorems.                                                           *)

LEMMA InitEstablishes == Init => EscrowInv
BY RanksAssumption, LayersAssumption
   DEF Init, EscrowInv, TypeOK, PCs, States, Devices, FreedOnce,
       Position, Progress, Ordered, Knows, OnDevice

LEMMA NextPreserves == EscrowInv /\ [Next]_vars => EscrowInv'
<1>. SUFFICES ASSUME EscrowInv, [Next]_vars PROVE EscrowInv'
  OBVIOUS
<1>1. ASSUME NEW r \in Ranks, Step(r)
      PROVE  EscrowInv'
  BY <1>1, ArmRefusedStep, AllocateStep, ArmedStep, ArmFailedStep, EnterLayerStep,
     EnterProbeBStep, LayerRefusedStep, AttendStep, NoReleaseStep, ReleaseStep,
     ReleaseFailedStep, UnprobedStep, StartProbeAStep, PassProbeAStep, PassProbeBStep,
     FailProbeStep, ProbeRaisesStep, StartGatherStep, FinishGatherStep, RunAttentionStep
     DEF Step
<1>2. CASE UNCHANGED vars
  BY <1>2 DEF vars, EscrowInv, TypeOK, FreedOnce, Position, Progress,
              Ordered, Knows, OnDevice, AllPassed, SomeFailed
<1>. QED
  BY <1>1, <1>2 DEF Next, Stopped

\* The invariant holds in every reachable state, for every cohort.
THEOREM EscrowInvariant == Spec => []EscrowInv
<1>. QED
  BY InitEstablishes, NextPreserves, PTL DEF Spec

\* Type correctness.
THEOREM TypeCorrect == Spec => []TypeOK
<1>1. EscrowInv => TypeOK
  BY DEF EscrowInv
<1>. QED
  BY <1>1, EscrowInvariant, PTL

\* The escrow is held until the first packed attention is over.
THEOREM EscrowIsHeld == Spec => []EscrowHeld
<1>1. EscrowInv => EscrowHeld
  BY DEF EscrowInv, EscrowHeld, Position
<1>. QED
  BY <1>1, EscrowInvariant, PTL

\* It is freed exactly once.
THEOREM EscrowIsFreedOnce == Spec => []FreedOnce
<1>1. EscrowInv => FreedOnce
  BY DEF EscrowInv
<1>. QED
  BY <1>1, EscrowInvariant, PTL

\* Nobody is armed unless everybody has allocated.
THEOREM ArmIsGroupDecision == Spec => []GroupArmed
<1>1. ASSUME EscrowInv, NEW r \in Ranks, NEW s \in Ranks,
             state[r] \in {"armed", "probe_a", "complete"}
      PROVE  Len(joined[s]) >= 1 /\ joined[s][1] = Entry("vote", 1)
  <2>1. Len(joined[s]) >= 1 /\ joined[s][1].value = 1 /\ joined[s][1].tag = "vote"
    BY <1>1 DEF EscrowInv, Knows, AllPassed, Ordered
  <2>2. joined[s] \in Seq(Entries)
    BY <1>1 DEF EscrowInv, TypeOK
  <2>3. joined[s][1] \in Entries
    BY <2>1, <2>2
  <2>. QED
    BY <2>1, <2>3 DEF Entries, Entry
<1>2. EscrowInv => GroupArmed
  BY <1>1 DEF GroupArmed
<1>. QED
  BY <1>2, EscrowInvariant, PTL

\* Ranks never match one reduction with another.
THEOREM ReductionsAreMatched == Spec => []ReductionsMatch
<1>1. ASSUME EscrowInv, NEW r \in Ranks, NEW s \in Ranks,
             NEW i \in 1..Len(joined[r]), i <= Len(joined[s])
      PROVE  joined[r][i].tag = joined[s][i].tag
  <2>1. Len(joined[r]) \in Nat /\ Len(joined[s]) \in Nat
    BY <1>1 DEF EscrowInv, TypeOK
  <2>2. Ordered(r) /\ Ordered(s)
    BY <1>1 DEF EscrowInv
  <2>3. i = 1 \/ i = 2 \/ i = 3
    BY <2>1, <2>2 DEF Ordered
  <2>. QED
    BY <1>1, <2>1, <2>2, <2>3 DEF Ordered
<1>2. EscrowInv => ReductionsMatch
  BY <1>1 DEF ReductionsMatch
<1>. QED
  BY <1>2, EscrowInvariant, PTL

\* With probes on, a rank that serves on has every rank's two passes.
THEOREM GateIsHonoured == Spec => []GateHonoured
<1>1. ASSUME EscrowInv, NEW r \in Ranks, NEW s \in Ranks, probes, state[r] = "complete"
      PROVE  /\ Len(joined[s]) >= 3
             /\ joined[s][2] = Entry("A", 1) /\ joined[s][3] = Entry("B", 1)
  <2>1. Len(joined[s]) >= 3 /\ joined[s][2].value = 1 /\ joined[s][3].value = 1
    BY <1>1 DEF EscrowInv, Knows, AllPassed
  <2>2. joined[s] \in Seq(Entries) /\ Len(joined[s]) \in Nat
    BY <1>1 DEF EscrowInv, TypeOK
  <2>3. joined[s][2].tag = "A" /\ joined[s][3].tag = "B"
    BY <1>1, <2>1, <2>2 DEF EscrowInv, Ordered
  <2>4. joined[s][2] \in Entries /\ joined[s][3] \in Entries
    BY <2>1, <2>2
  <2>. QED
    BY <2>1, <2>3, <2>4 DEF Entries, Entry
<1>2. EscrowInv => GateHonoured
  BY <1>1 DEF GateHonoured
<1>. QED
  BY <1>2, EscrowInvariant, PTL

\* A probe's verdict is the same for all ranks.
THEOREM VerdictIsUnanimous == Spec => []UnanimousVerdict
<1>1. ASSUME EscrowInv, NEW r \in Ranks, NEW s \in Ranks,
             state[r] = "dead", Len(joined[r]) >= 2
      PROVE  Passed(s) < Len(joined[r])
  <2>1. Len(joined[r]) = 2 \/ Len(joined[r]) = 3
    <3>1. Len(joined[r]) \in Nat
      BY <1>1 DEF EscrowInv, TypeOK
    <3>2. Len(joined[r]) <= 3
      BY <1>1 DEF EscrowInv, Ordered
    <3>3. \A n \in Nat : n >= 2 /\ n <= 3 => n = 2 \/ n = 3
      OBVIOUS
    <3>. QED
      BY <1>1, <3>1, <3>2, <3>3, Zenon
  <2>2. ~AllPassed(joined, Len(joined[r]))
    BY <1>1 DEF EscrowInv, Knows, AllPassed, SomeFailed
  <2>3. /\ state[s] = "probe_a" => AllPassed(joined, 2)
        /\ state[s] = "complete" /\ probes => AllPassed(joined, 2) /\ AllPassed(joined, 3)
    BY <1>1 DEF EscrowInv, Knows
  <2>4. CASE state[s] = "complete"
    <3>1. ~probes
      BY <2>1, <2>2, <2>3, <2>4
    <3>2. Passed(s) = 1
      BY <2>4, <3>1 DEF Passed
    <3>. QED
      BY <2>1, <3>2
  <2>5. CASE state[s] = "probe_a"
    BY <2>1, <2>2, <2>3, <2>5 DEF Passed
  <2>6. CASE state[s] \notin {"complete", "probe_a"}
    <3>1. Passed(s) = 1 \/ Passed(s) = 0
      BY <2>6 DEF Passed
    <3>2. \A n, p : (n = 2 \/ n = 3) /\ (p = 1 \/ p = 0) => p < n
      OBVIOUS
    <3>. QED
      BY <2>1, <3>1, <3>2, Zenon
  <2>. QED
    BY <2>4, <2>5, <2>6
<1>2. EscrowInv => UnanimousVerdict
  BY <1>1 DEF UnanimousVerdict
<1>. QED
  BY <1>2, EscrowInvariant, PTL

\* The memory goes back only after the first layer has run: on the rank's own
\* device before the free, on every device before Probe A passes anybody.
THEOREM ReleaseFollowsAttention == Spec => []ReleasedAfterAttention
<1>1. ASSUME EscrowInv, NEW r \in Ranks, NEW s \in Ranks, Passed(r) >= 2
      PROVE  device[s] = "attended"
  <2>1. state[r] = "probe_a" \/ (state[r] = "complete" /\ probes)
    BY <1>1 DEF Passed
  <2>2. AllPassed(joined, 2)
    BY <1>1, <2>1 DEF EscrowInv, Knows
  <2>. QED
    BY <1>1, <2>2 DEF EscrowInv, AllPassed, OnDevice
<1>2. EscrowInv => ReleasedAfterAttention
  BY <1>1 DEF EscrowInv, OnDevice, ReleasedAfterAttention
<1>. QED
  BY <1>2, EscrowInvariant, PTL
=============================================================================
