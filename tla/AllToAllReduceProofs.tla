------------------------ MODULE AllToAllReduceProofs ------------------------
(***************************************************************************)
(* Proofs about AllToAllReduce for every group of at least two ranks and   *)
(* every number of calls of the same chunk count.                          *)
(*                                                                         *)
(* The calls have no end handshake.  What stands in its place is that a    *)
(* call ends with the broadcasts of all peers received, and a broadcast is *)
(* sent only after the scatters of all ranks have been summed: Skew.  All  *)
(* else is counting: a flag has been set, and waited for, once per call    *)
(* (Counters), and what has arrived has been sent (Arrived).               *)
(***************************************************************************)
EXTENDS AllToAllReduce, TLAPS

USE ProgramsAssumption

\* The calls of a program have the same number of chunks.
SameChunks ==
  \A p \in Programs : \A i, j \in 1..Len(p.chunks) : p.chunks[i] = p.chunks[j]

\* The chunks of every call, and the number and the set of the sends of a phase.
C == MaxChunks
K == C * (W-1)
SendsOfCall == 0..K-1

\* What send n is to the sender, send Mirror(n) of the peer is to the receiver.
Mirror(n) == ChunkOf(n) * (W-1) + (W-2 - PlaceOf(n))

\* The flags of the n-th receive and of the n-th send of a phase.
Base(f) == IF f = "scatter" THEN 0 ELSE K
InKey(f, n) == Base(f) + PlaceOf(n) * C + ChunkOf(n)
OutKey(f, n) == InKey(f, Mirror(n))

\* How often item n has been done, over all calls, by a stream that is in call q
\* and has done so many in it.
Count(q, done, n) == IF q = 0 THEN 0 ELSE IF done > n THEN q ELSE q - 1

\* The receives of a phase that main has waited for.
Received(r, f) ==
  IF f = "scatter"
  THEN IF pc[r] \in {"quant", "wait", "accum"} THEN at[r] ELSE K
  ELSE CASE pc[r] \in {"quant", "wait", "accum"} -> 0
         [] pc[r] = "place" -> at[r] + 1
         [] OTHER -> at[r]

-----------------------------------------------------------------------------
(* The inductive invariant.                                                *)

\* Where the five streams of a rank can be together.
PositionOf(r) ==
  /\ \A f \in Phases : flagged[r][f] <= copied[r][f]
  /\ copied[r]["scatter"] <= quanted[r] * (W-1)
  /\ copied[r]["broadcast"] <= summed[r] * (W-1)
  /\ pc[r] # "idle" => call[r] > 0
  /\ pc[r] = "quant" => at[r] = 0 /\ summed[r] = 0 /\ quanted[r] < Chunks(r)
  /\ pc[r] # "quant" => quanted[r] = Chunks(r)
  /\ pc[r] = "wait" => /\ summed[r] < Chunks(r)
                       /\ summed[r] * (W-1) <= at[r] /\ at[r] < (summed[r] + 1) * (W-1)
  /\ pc[r] = "accum" => summed[r] < Chunks(r) /\ at[r] = (summed[r] + 1) * (W-1)
  /\ pc[r] \in {"await", "place", "join", "idle"} => summed[r] = Chunks(r)
  /\ pc[r] \in {"await", "place"} => at[r] < Sends(r)
  /\ pc[r] \in {"join", "idle"} => at[r] = Sends(r)
  /\ pc[r] = "idle" => \A f \in Phases : copied[r][f] = Sends(r) /\ flagged[r][f] = Sends(r)

Positions == \A r \in Ranks : PositionOf(r)

\* Every flag is set and waited for once per call.
CounterOf(r, f, n) ==
  /\ sent[r][OutKey(f, n)] = Count(call[r], flagged[r][f], n)
  /\ flag[Target(r, n)][OutKey(f, n)] = Count(call[r], flagged[r][f], n)
  /\ waited[r][InKey(f, n)] = Count(call[r], Received(r, f), n)

Counters == \A r \in Ranks, f \in Phases, n \in SendsOfCall : CounterOf(r, f, n)

\* What main has waited for has been sent in this call, or in a later one.
ArrivedOf(r, f, n) ==
  n < Received(r, f) =>
    Count(call[Target(r, n)], flagged[Target(r, n)][f], Mirror(n)) >= call[r]

Arrived == \A r \in Ranks, f \in Phases, n \in SendsOfCall : ArrivedOf(r, f, n)

\* No rank is two calls ahead of another, and one call ahead only of ranks that
\* have summed all their chunks.
Skew ==
  \A r, s \in Ranks : call[r] > call[s] => call[r] = call[s] + 1 /\ summed[s] = Chunks(s)

SumOfCall(q) == {<<p, q>> : p \in Ranks}

\* The stage holds numbers of the call; a slot what was last copied to it.
StageOf(r) ==
  /\ \A s \in Ranks \ {r}, c \in 0..quanted[r]-1 : stage[r][s][c] = {<<r, call[r]>>}
  /\ \A c \in 0..summed[r]-1 : stage[r][r][c] = SumOfCall(call[r])

StageExact == \A r \in Ranks : StageOf(r)

\* What rank r sends in a phase of call q.
Sending(r, f, q) == IF f = "scatter" THEN {<<r, q>>} ELSE SumOfCall(q)

ScratchOf(r, f, n) ==
  Count(call[r], copied[r][f], n) > 0 =>
    scratch[Target(r, n)][TargetSlot(r, f, n)] = Sending(r, f, Count(call[r], copied[r][f], n))

ScratchExact == \A r \in Ranks, f \in Phases, n \in SendsOfCall : ScratchOf(r, f, n)

-----------------------------------------------------------------------------
(* Arithmetic of positions.                                                *)

LEMMA GroupFacts ==
  ASSUME TypeOK
  PROVE  /\ W \in Nat /\ W >= 2 /\ W-1 \in Nat /\ W-1 > 0 /\ Calls \in Seq(1..4)
         /\ Ranks \subseteq Nat
  BY DEF TypeOK, W, Calls, Ranks

LEMMA ProductMonotone ==
  ASSUME NEW a \in Nat, NEW b \in Nat, NEW m \in Nat, a <= b
  PROVE  a * m \in Nat /\ b * m \in Nat /\ a * m <= b * m
  OBVIOUS

LEMMA ProductStrict ==
  ASSUME NEW a \in Nat, NEW b \in Nat, NEW m \in Nat, a < b
  PROVE  a * m + m <= b * m /\ a * m \in Nat /\ b * m \in Nat
<1>1. (a + 1) * m <= b * m /\ a * m \in Nat /\ b * m \in Nat
  BY ProductMonotone
<1>2. (a + 1) * m = a * m + m
  OBVIOUS
<1> QED BY <1>1, <1>2

\* A number below the modulus is the remainder.
LEMMA QuotientUnique ==
  ASSUME NEW a \in Nat, NEW b \in Nat, NEW i \in Nat, NEW j \in Nat, NEW m \in Nat,
         i < m, j < m, a * m + i = b * m + j
  PROVE  a = b /\ i = j
<1>1. ASSUME a < b PROVE FALSE
  <2>1. a * m + m <= b * m /\ a * m \in Nat /\ b * m \in Nat
    BY <1>1, ProductStrict
  <2> QED BY <2>1
<1>2. ASSUME b < a PROVE FALSE
  <2>1. b * m + m <= a * m /\ a * m \in Nat /\ b * m \in Nat
    BY <1>2, ProductStrict
  <2> QED BY <2>1
<1>3. a = b
  BY <1>1, <1>2
<1>4. a * m \in Nat
  BY ProductMonotone
<1> QED BY <1>3, <1>4

LEMMA DivMod ==
  ASSUME NEW n \in Nat, NEW m \in Nat, m > 0
  PROVE  /\ n \div m \in Nat /\ n % m \in 0..m-1 /\ (n \div m) * m \in Nat
         /\ n = (n \div m) * m + (n % m)
<1>1. n \div m \in Nat /\ n % m \in 0..m-1
  OBVIOUS
<1>2. n = m * (n \div m) + (n % m)
  OBVIOUS
<1> QED BY <1>1, <1>2

LEMMA RemainderCases ==
  ASSUME NEW m \in Nat, m > 0, NEW x \in Int
  PROVE  /\ x \in 0..m-1 => x % m = x
         /\ x \in m..2*m-1 => x % m = x - m
         /\ x \in -m..-1 => x % m = x + m
<1>1. x % m \in 0..m-1 /\ x \div m \in Int /\ x = m * (x \div m) + (x % m)
  OBVIOUS
<1> DEFINE q == x \div m
<1>2. q \in Int /\ x = m * q + (x % m) /\ x % m \in Int /\ 0 <= x % m /\ x % m < m
  BY <1>1
<1> HIDE DEF q
<1>3. CASE q = 0
  BY <1>2, <1>3
<1>4. CASE q = 1
  BY <1>2, <1>4
<1>5. CASE q = -1
  BY <1>2, <1>5
<1>6. CASE q > 1
  <2>1. m * q >= 2 * m
    BY <1>2, <1>6
  <2> QED BY <1>2, <2>1
<1>7. CASE q < -1
  <2>1. m * q <= -2 * m
    BY <1>2, <1>7
  <2> QED BY <1>2, <2>1
<1> QED BY <1>2, <1>3, <1>4, <1>5, <1>6, <1>7

LEMMA PlaceFacts ==
  ASSUME TypeOK, NEW i \in Places
  PROVE  i \in Nat /\ i < W-1 /\ W-2 - i \in Places
  BY GroupFacts DEF Places

\* A send is a chunk and a place.
LEMMA SendFacts ==
  ASSUME TypeOK, NEW n \in Nat
  PROVE  /\ ChunkOf(n) \in Nat /\ PlaceOf(n) \in Places /\ ChunkOf(n) * (W-1) \in Nat
         /\ n = ChunkOf(n) * (W-1) + PlaceOf(n)
<1> DEFINE m == W-1
<1>1. m \in Nat /\ m > 0 /\ W-2 = m-1
  BY GroupFacts
<1> HIDE DEF m
<1>2. /\ n \div m \in Nat /\ n % m \in 0..m-1 /\ (n \div m) * m \in Nat
      /\ n = (n \div m) * m + (n % m)
  BY <1>1, DivMod
<1> QED BY <1>1, <1>2 DEF ChunkOf, PlaceOf, Places, m

LEMMA SendUnique ==
  ASSUME TypeOK, NEW n \in Nat, NEW c \in Nat, NEW i \in Places, n = c * (W-1) + i
  PROVE  ChunkOf(n) = c /\ PlaceOf(n) = i
<1>1. i \in Nat /\ i < W-1 /\ PlaceOf(n) \in Nat /\ PlaceOf(n) < W-1
  BY PlaceFacts, SendFacts
<1>2. ChunkOf(n) \in Nat /\ n = ChunkOf(n) * (W-1) + PlaceOf(n) /\ W-1 \in Nat
  BY GroupFacts, SendFacts
<1> QED BY <1>1, <1>2, QuotientUnique

LEMMA SendInChunk ==
  ASSUME TypeOK, NEW n \in Nat, NEW c \in Nat
  PROVE  /\ n < c * (W-1) <=> ChunkOf(n) < c
         /\ ChunkOf(n) < c => n + 1 <= c * (W-1)
<1> DEFINE a == ChunkOf(n)
           p == a * (W-1)
           q == c * (W-1)
<1>1. /\ a \in Nat /\ PlaceOf(n) \in Nat /\ PlaceOf(n) < W-1 /\ W-1 \in Nat
      /\ p \in Nat /\ q \in Nat
  <2>1. W-1 \in Nat
    BY GroupFacts
  <2>2. q \in Nat
    BY <2>1
  <2>3. a \in Nat /\ PlaceOf(n) \in Places /\ p \in Nat
    BY SendFacts
  <2> HIDE DEF a, p, q
  <2> QED BY <2>1, <2>2, <2>3, PlaceFacts
<1>2. n = p + PlaceOf(n)
  BY SendFacts
<1>3. a < c => p + (W-1) <= q
  BY <1>1, ProductStrict
<1>4. c <= a => q <= p
  BY <1>1, ProductMonotone
<1>5. (n < q <=> a < c) /\ (a < c => n + 1 <= q)
  <2> HIDE DEF a, p, q
  <2> QED BY <1>1, <1>2, <1>3, <1>4
<1> QED BY <1>5

\* The largest call is every call.
LEMMA ChunkCount ==
  ASSUME TypeOK, SameChunks
  PROVE  /\ C \in Nat /\ K \in Nat
         /\ \A r \in Ranks : Chunks(r) = IF call[r] = 0 THEN 0 ELSE C
         /\ \A r \in Ranks : Sends(r) = IF call[r] = 0 THEN 0 ELSE K
         /\ \A r \in Ranks : call[r] > 0 => C > 0
         /\ \A q \in 1..Len(Calls) : Calls[q] = C
         /\ Pieces = 0..C-1
<1> DEFINE S == {0} \cup Range(Calls)
<1>1. Calls \in Seq(1..4) /\ \A i, j \in 1..Len(Calls) : Calls[i] = Calls[j]
  BY GroupFacts DEF TypeOK, SameChunks, Calls
<1>2. C = CHOOSE x \in S : \A y \in S : x >= y
  BY DEF C, MaxChunks, Max
<1>3. \A x : x \in S <=> x = 0 \/ \E i \in 1..Len(Calls) : x = Calls[i]
  BY <1>1 DEF Range
<1>4. C \in Nat /\ \A i \in 1..Len(Calls) : Calls[i] = C
  <2>1. CASE Len(Calls) = 0
    <3>1. S = {0}
      BY <1>1, <1>3, <2>1
    <3> HIDE DEF S
    <3>2. C = 0
      BY <1>2, <3>1
    <3> QED BY <1>1, <2>1, <3>2
  <2>2. CASE Len(Calls) # 0
    <3>1. Calls[1] \in 1..4 /\ \A i \in 1..Len(Calls) : Calls[i] = Calls[1]
      BY <1>1, <2>2
    <3>2. S = {0, Calls[1]}
      <4>1. \A x : x \in S <=> x = 0 \/ x = Calls[1]
        BY <1>1, <1>3, <2>2, <3>1
      <4> HIDE DEF S
      <4> QED BY <4>1
    <3> HIDE DEF S
    <3>3. \E x \in S : \A y \in S : x >= y
      BY <3>1, <3>2
    <3>4. C \in S /\ \A y \in S : C >= y
      BY <1>2, <3>3
    <3>5. C = Calls[1]
      BY <3>1, <3>2, <3>4
    <3> QED BY <3>1, <3>5
  <2> QED BY <2>1, <2>2
<1>5. ASSUME NEW r \in Ranks
      PROVE  /\ Chunks(r) = IF call[r] = 0 THEN 0 ELSE C
             /\ Sends(r) = IF call[r] = 0 THEN 0 ELSE K
             /\ call[r] > 0 => C > 0
  <2>1. call[r] \in 0..Len(Calls)
    BY DEF TypeOK
  <2>2. CASE call[r] = 0
    BY <2>2, GroupFacts DEF Chunks, Sends
  <2>3. CASE call[r] # 0
    <3>1. call[r] \in 1..Len(Calls)
      BY <1>1, <2>1, <2>3
    <3>2. Calls[call[r]] = C /\ Calls[call[r]] \in 1..4
      BY <1>1, <1>4, <3>1
    <3> QED BY <2>3, <3>2 DEF Chunks, Sends, K
  <2> QED BY <2>2, <2>3
<1>6. K \in Nat
  BY <1>4, GroupFacts, ProductMonotone DEF K
<1> QED BY <1>4, <1>5, <1>6 DEF Pieces, C

LEMMA MirrorFacts ==
  ASSUME TypeOK, SameChunks, NEW n \in SendsOfCall
  PROVE  /\ n \in Nat /\ ChunkOf(n) \in 0..C-1 /\ PlaceOf(n) \in Places
         /\ Mirror(n) \in SendsOfCall /\ Mirror(Mirror(n)) = n
         /\ ChunkOf(Mirror(n)) = ChunkOf(n) /\ PlaceOf(Mirror(n)) = W-2 - PlaceOf(n)
<1>1. n \in Nat /\ n < K /\ C \in Nat /\ K \in Nat /\ K = C * (W-1)
  BY ChunkCount DEF SendsOfCall, K
<1>2. /\ ChunkOf(n) \in Nat /\ PlaceOf(n) \in Places /\ ChunkOf(n) * (W-1) \in Nat
      /\ n = ChunkOf(n) * (W-1) + PlaceOf(n)
  BY <1>1, SendFacts
<1>3. ChunkOf(n) < C
  BY <1>1, SendInChunk
<1>4. W-2 - PlaceOf(n) \in Places /\ W-2 - PlaceOf(n) \in Nat /\ PlaceOf(n) \in Nat /\ W \in Nat
  BY <1>2, PlaceFacts, GroupFacts
<1>5. Mirror(n) \in Nat
  <2> DEFINE p == ChunkOf(n) * (W-1)
  <2>1. p \in Nat
    BY <1>2
  <2> HIDE DEF p
  <2> QED BY <1>4, <2>1 DEF Mirror, p
<1>6. ChunkOf(Mirror(n)) = ChunkOf(n) /\ PlaceOf(Mirror(n)) = W-2 - PlaceOf(n)
  BY <1>2, <1>4, <1>5, SendUnique DEF Mirror
<1>7. Mirror(n) \in SendsOfCall
  <2>1. Mirror(n) < K
    BY <1>1, <1>3, <1>5, <1>6, SendInChunk
  <2> QED BY <1>1, <1>5, <2>1 DEF SendsOfCall
<1>8. Mirror(Mirror(n)) = n
  <2>1. Mirror(Mirror(n)) = ChunkOf(n) * (W-1) + (W-2 - (W-2 - PlaceOf(n)))
    BY <1>6 DEF Mirror
  <2>2. W-2 - (W-2 - PlaceOf(n)) = PlaceOf(n)
    BY <1>4
  <2> QED BY <1>2, <2>1, <2>2
<1> QED BY <1>1, <1>2, <1>3, <1>6, <1>7, <1>8

LEMMA SendRange ==
  ASSUME TypeOK, SameChunks, NEW n \in SendsOfCall
  PROVE  /\ n \in Nat /\ n < K /\ n = ChunkOf(n) * (W-1) + PlaceOf(n)
         /\ ChunkOf(n) \in Nat /\ ChunkOf(n) < C
         /\ PlaceOf(n) \in Places /\ PlaceOf(n) \in Nat /\ PlaceOf(n) < W-1
<1>1. C \in Nat /\ K \in Nat
  BY ChunkCount
<1>2. n \in Nat /\ n < K
  BY <1>1 DEF SendsOfCall
<1>3. ChunkOf(n) \in 0..C-1 /\ PlaceOf(n) \in Places
  BY MirrorFacts
<1>4. ChunkOf(n) \in Nat /\ ChunkOf(n) < C
  BY <1>1, <1>3
<1>5. PlaceOf(n) \in Nat /\ PlaceOf(n) < W-1
  BY <1>3, PlaceFacts
<1>6. n = ChunkOf(n) * (W-1) + PlaceOf(n)
  BY <1>2, SendFacts
<1> QED BY <1>2, <1>3, <1>4, <1>5, <1>6

LEMMA SendOfSlot ==
  ASSUME TypeOK, SameChunks, NEW n \in SendsOfCall, NEW m \in SendsOfCall,
         ChunkOf(n) = ChunkOf(m), PlaceOf(n) = PlaceOf(m)
  PROVE  n = m
  BY SendRange

\* Every receive of a call has a flag of its own.
LEMMA KeyFacts ==
  ASSUME TypeOK, SameChunks, NEW f \in Phases, NEW n \in SendsOfCall
  PROVE  /\ InKey(f, n) \in Flags
         /\ \A g \in Phases, m \in SendsOfCall : InKey(f, n) = InKey(g, m) => f = g /\ n = m
<1> DEFINE off(m) == PlaceOf(m) * C + ChunkOf(m)
<1>1. C \in Nat /\ K \in Nat /\ W-1 \in Nat
  BY ChunkCount, GroupFacts
<1>2. ASSUME NEW m \in SendsOfCall
      PROVE  off(m) \in Nat /\ off(m) < K
  <2>1. /\ ChunkOf(m) \in Nat /\ ChunkOf(m) < C /\ PlaceOf(m) \in Nat /\ PlaceOf(m) < W-1
    BY SendRange
  <2>2. PlaceOf(m) * C + C <= (W-1) * C /\ PlaceOf(m) * C \in Nat
    BY <1>1, <2>1, ProductStrict
  <2>3. (W-1) * C = K
    BY <1>1 DEF K
  <2> DEFINE p == PlaceOf(m) * C
  <2>4. p + C <= K /\ p \in Nat
    BY <2>2, <2>3
  <2> HIDE DEF p
  <2>5. p + ChunkOf(m) \in Nat /\ p + ChunkOf(m) < K
    BY <1>1, <2>1, <2>4
  <2> QED BY <2>5 DEF p
<1>3. ASSUME NEW m \in SendsOfCall, NEW l \in SendsOfCall, off(m) = off(l)
      PROVE  m = l
  <2>1. /\ ChunkOf(m) \in Nat /\ ChunkOf(m) < C /\ PlaceOf(m) \in Nat
        /\ ChunkOf(l) \in Nat /\ ChunkOf(l) < C /\ PlaceOf(l) \in Nat
    BY SendRange
  <2>2. PlaceOf(m) = PlaceOf(l) /\ ChunkOf(m) = ChunkOf(l)
    BY <1>1, <1>3, <2>1, QuotientUnique
  <2> QED BY <2>2, SendOfSlot
<1>4. \A g \in Phases, m \in SendsOfCall : InKey(g, m) = (IF g = "scatter" THEN 0 ELSE K) + off(m)
  <2> TAKE g \in Phases, m \in SendsOfCall
  <2> DEFINE p == PlaceOf(m) * C
  <2>1. p \in Nat /\ ChunkOf(m) \in Nat /\ InKey(g, m) = Base(g) + p + ChunkOf(m)
    <3>1. PlaceOf(m) \in Nat /\ ChunkOf(m) \in Nat
      BY SendRange
    <3> QED BY <1>1, <3>1 DEF InKey
  <2>2. Base(g) = (IF g = "scatter" THEN 0 ELSE K) /\ Base(g) \in Nat
    BY <1>1 DEF Base
  <2> HIDE DEF p
  <2>3. Base(g) + p + ChunkOf(m) = Base(g) + (p + ChunkOf(m))
    BY <2>1, <2>2
  <2> QED BY <2>1, <2>2, <2>3 DEF p
<1>5. Flags = 0..2*K-1
  <2>1. 2 * (W-1) * C = 2 * K
    BY <1>1 DEF K
  <2> QED BY <2>1 DEF Flags, C
<1> HIDE DEF off
<1>6. InKey(f, n) \in Flags
  BY <1>1, <1>2, <1>4, <1>5
<1>7. ASSUME NEW g \in Phases, NEW m \in SendsOfCall, InKey(f, n) = InKey(g, m)
      PROVE  f = g /\ n = m
  <2>1. off(n) \in Nat /\ off(n) < K /\ off(m) \in Nat /\ off(m) < K
    BY <1>2
  <2>2. (f = "scatter" <=> g = "scatter") /\ off(n) = off(m)
    BY <1>1, <1>4, <1>7, <2>1
  <2>3. f = g
    BY <2>2 DEF Phases
  <2> QED BY <1>3, <2>2, <2>3
<1> QED BY <1>6, <1>7

-----------------------------------------------------------------------------
(* Who sends to whom, into which slot and under which flag.                *)

LEMMA PeerCases ==
  ASSUME TypeOK, NEW r \in Ranks, NEW i \in Places
  PROVE  /\ r \in Nat /\ r < W /\ i \in Nat /\ i < W-1 /\ W \in Nat /\ W >= 2
         /\ \/ Peer(r, i) = r + 1 + i /\ r + 1 + i < W
            \/ Peer(r, i) = r + 1 + i - W /\ r + 1 + i >= W
<1>1. W \in Nat /\ W >= 2 /\ r \in Nat /\ r < W /\ i \in Nat /\ i < W-1
  BY GroupFacts DEF Ranks, Places
<1> DEFINE x == r + 1 + i
<1>2. x \in Int /\ (x \in 0..W-1 \/ x \in W..2*W-1) /\ W > 0
  BY <1>1
<1>3. (x \in 0..W-1 => x % W = x) /\ (x \in W..2*W-1 => x % W = x - W)
  <2> HIDE DEF x
  <2> QED BY <1>1, <1>2, RemainderCases
<1>4. Peer(r, i) = x % W
  BY DEF Peer
<1>5. CASE x \in 0..W-1
  <2>1. x < W
    BY <1>1, <1>5
  <2> QED BY <1>1, <1>3, <1>4, <1>5, <2>1
<1>6. CASE x \in W..2*W-1
  <2>1. x >= W
    BY <1>1, <1>6
  <2> QED BY <1>1, <1>3, <1>4, <1>6, <2>1
<1> QED BY <1>2, <1>5, <1>6

LEMMA PeerFacts ==
  ASSUME TypeOK, NEW r \in Ranks, NEW i \in Places
  PROVE  /\ Peer(r, i) \in Ranks /\ Peer(r, i) # r
         /\ PosAt(r, Peer(r, i)) = W-2 - i
         /\ Peer(Peer(r, i), W-2 - i) = r
<1> DEFINE j == Peer(r, i)
<1>1. /\ r \in Nat /\ r < W /\ i \in Nat /\ i < W-1 /\ W \in Nat /\ W >= 2
      /\ \/ j = r + 1 + i /\ r + 1 + i < W
         \/ j = r + 1 + i - W /\ r + 1 + i >= W
  BY PeerCases
<1> HIDE DEF j
<1>2. j \in Nat /\ j < W /\ j # r
  BY <1>1
<1>3. j \in Ranks
  BY <1>1, <1>2 DEF Ranks
<1>4. PosAt(r, j) = W-2 - i
  <2> DEFINE x == r - j - 1
  <2>1. x \in Int /\ W > 0 /\ W \in Nat
        /\ \/ x \in -W..-1 /\ x + W = W-2 - i
           \/ x \in 0..W-1 /\ x = W-2 - i
    BY <1>1, <1>2
  <2>2. (x \in 0..W-1 => x % W = x) /\ (x \in -W..-1 => x % W = x + W)
    <3> HIDE DEF x
    <3> QED BY <2>1, RemainderCases
  <2>3. PosAt(r, j) = x % W
    BY DEF PosAt
  <2> QED BY <2>1, <2>2, <2>3
<1>5. W-2 - i \in Places
  BY PlaceFacts
<1>6. Peer(j, W-2 - i) = r
  <2> DEFINE k == W-2 - i
             l == Peer(j, k)
  <2>1. /\ k \in Nat
        /\ \/ l = j + 1 + k /\ j + 1 + k < W
           \/ l = j + 1 + k - W /\ j + 1 + k >= W
    BY <1>3, <1>5, PeerCases
  <2>2. k = W-2 - i
    OBVIOUS
  <2> HIDE DEF k, l
  <2>3. l = r
    BY <1>1, <1>2, <2>1, <2>2
  <2> QED BY <2>3 DEF k, l
<1> QED BY <1>2, <1>3, <1>4, <1>6 DEF j

LEMMA PeerOfRank ==
  ASSUME TypeOK, NEW r \in Ranks, NEW j \in Ranks, j # r
  PROVE  \E i \in Places : Peer(r, i) = j
<1>1. W \in Nat /\ W >= 2 /\ r \in Nat /\ r < W /\ j \in Nat /\ j < W
  BY GroupFacts DEF Ranks
<1> DEFINE i == IF j > r THEN j - r - 1 ELSE j - r - 1 + W
<1>2. i \in Int /\ i >= 0 /\ i <= W-2
      /\ (j > r => r + 1 + i = j) /\ (j < r => r + 1 + i = j + W)
  BY <1>1
<1>3. i \in Places
  <2> HIDE DEF i
  <2> QED BY <1>1, <1>2 DEF Places
<1> HIDE DEF i
<1>4. \/ Peer(r, i) = r + 1 + i /\ r + 1 + i < W
      \/ Peer(r, i) = r + 1 + i - W /\ r + 1 + i >= W
  BY <1>3, PeerCases
<1>5. Peer(r, i) = j
  BY <1>1, <1>2, <1>4
<1> QED BY <1>3, <1>5

LEMMA SlotAtFacts ==
  ASSUME TypeOK, SameChunks, NEW f \in Phases, NEW n \in SendsOfCall
  PROVE  /\ SlotAt(f, n) \in Slots
         /\ \A g, m : m \in SendsOfCall /\ SlotAt(f, n) = SlotAt(g, m) => f = g /\ n = m
<1>1. ChunkOf(n) \in Pieces /\ PlaceOf(n) \in Places
  BY ChunkCount, MirrorFacts
<1>2. ASSUME NEW g, NEW m \in SendsOfCall, SlotAt(f, n) = SlotAt(g, m)
      PROVE  f = g /\ n = m
  <2>1. f = g /\ PlaceOf(n) = PlaceOf(m) /\ ChunkOf(n) = ChunkOf(m)
    BY <1>2 DEF SlotAt
  <2> QED BY <2>1, SendOfSlot
<1> QED BY <1>1, <1>2 DEF SlotAt, Slots

\* A send arrives as the mirrored receive of another rank.
LEMMA SendMeetsReceive ==
  ASSUME TypeOK, SameChunks, NEW r \in Ranks, NEW n \in SendsOfCall
  PROVE  /\ Target(r, n) \in Ranks /\ Target(r, n) # r
         /\ Target(Target(r, n), Mirror(n)) = r
         /\ \A f : TargetSlot(r, f, n) = SlotAt(f, Mirror(n))
<1>1. PlaceOf(n) \in Places /\ PlaceOf(Mirror(n)) = W-2 - PlaceOf(n)
      /\ ChunkOf(Mirror(n)) = ChunkOf(n)
  BY MirrorFacts
<1> QED BY <1>1, PeerFacts DEF Target, TargetSlot, SlotAt

\* No two sends go to the same slot.
LEMMA SlotHasOneSender ==
  ASSUME TypeOK, SameChunks, NEW r \in Ranks, NEW s \in Ranks,
         NEW f \in Phases, NEW g \in Phases, NEW n \in SendsOfCall, NEW m \in SendsOfCall,
         Target(r, n) = Target(s, m), TargetSlot(r, f, n) = TargetSlot(s, g, m)
  PROVE  r = s /\ f = g /\ n = m
<1>1. Mirror(n) \in SendsOfCall /\ Mirror(m) \in SendsOfCall
      /\ Mirror(Mirror(n)) = n /\ Mirror(Mirror(m)) = m
  BY MirrorFacts
<1>2. SlotAt(f, Mirror(n)) = SlotAt(g, Mirror(m))
  BY SendMeetsReceive
<1>3. f = g /\ n = m
  BY <1>1, <1>2, SlotAtFacts
<1> QED BY <1>3, SendMeetsReceive

LEMMA FlagOfReceive ==
  ASSUME TypeOK, SameChunks, NEW r \in Ranks, call[r] > 0,
         NEW f \in Phases, NEW n \in SendsOfCall
  PROVE  FlagOf(r, SlotAt(f, n)) = InKey(f, n)
<1>1. call[r] # 0
  BY DEF TypeOK
<1>2. Chunks(r) = C /\ Sends(r) = K
  BY <1>1, ChunkCount
<1> QED BY <1>2 DEF FlagOf, SlotAt, InKey, Base

LEMMA FlagOfSend ==
  ASSUME TypeOK, SameChunks, NEW r \in Ranks, call[r] > 0,
         NEW f \in Phases, NEW n \in SendsOfCall
  PROVE  FlagOf(r, TargetSlot(r, f, n)) = OutKey(f, n)
<1>1. Mirror(n) \in SendsOfCall
  BY MirrorFacts
<1> QED BY <1>1, SendMeetsReceive, FlagOfReceive DEF OutKey

LEMMA OutKeyFacts ==
  ASSUME TypeOK, SameChunks, NEW f \in Phases, NEW n \in SendsOfCall
  PROVE  /\ OutKey(f, n) \in Flags
         /\ \A g \in Phases, m \in SendsOfCall : OutKey(f, n) = OutKey(g, m) => f = g /\ n = m
<1>1. \A m \in SendsOfCall : Mirror(m) \in SendsOfCall /\ Mirror(Mirror(m)) = m
  BY MirrorFacts
<1> QED BY <1>1, KeyFacts DEF OutKey

-----------------------------------------------------------------------------
(* What a step leaves alone.                                               *)

LEMMA LayoutFixed ==
  ASSUME program' = program
  PROVE  /\ W' = W /\ Ranks' = Ranks /\ Places' = Places /\ Calls' = Calls
         /\ C' = C /\ K' = K /\ SendsOfCall' = SendsOfCall
         /\ Pieces' = Pieces /\ Slots' = Slots /\ Flags' = Flags /\ Numbers' = Numbers
  BY DEF W, Ranks, Places, Calls, C, K, SendsOfCall, MaxChunks, Pieces, Slots, Flags, Numbers

LEMMA SendsFixed ==
  ASSUME program' = program, NEW r, NEW f, NEW n
  PROVE  /\ PlaceOf(n)' = PlaceOf(n) /\ ChunkOf(n)' = ChunkOf(n) /\ Mirror(n)' = Mirror(n)
         /\ Target(r, n)' = Target(r, n) /\ TargetSlot(r, f, n)' = TargetSlot(r, f, n)
         /\ SlotAt(f, n)' = SlotAt(f, n) /\ InKey(f, n)' = InKey(f, n)
         /\ OutKey(f, n)' = OutKey(f, n)
  BY DEF PlaceOf, ChunkOf, Mirror, Target, TargetSlot, SlotAt, InKey, OutKey, Base, Peer,
         PosAt, W, C, K, MaxChunks, Calls

LEMMA ProgramFixed ==
  ASSUME [Next]_vars
  PROVE  program' = program
  BY DEF Next, vars, Drained, Enter, MainStep, Quant, WaitScatter, Accumulate,
         WaitBroadcast, Place, Join, CopyStep, FlagStep

\* What the typing says of one rank.
LEMMA RankTypes ==
  ASSUME TypeOK, NEW r \in Ranks
  PROVE  /\ r \in Nat /\ call[r] \in 0..Len(Calls) /\ call[r] \in Nat
         /\ pc[r] \in {"idle", "quant", "wait", "accum", "await", "place", "join"}
         /\ at[r] \in Nat /\ summed[r] \in Nat /\ quanted[r] \in Nat
         /\ at[r] <= Sends(r) /\ summed[r] <= Chunks(r) /\ quanted[r] <= Chunks(r)
         /\ \A f \in Phases : /\ copied[r][f] \in Nat /\ copied[r][f] <= Sends(r)
                              /\ flagged[r][f] \in Nat /\ flagged[r][f] <= Sends(r)
<1>1. Calls \in Seq(1..4) /\ Len(Calls) \in Nat
  BY GroupFacts
<1>2. r \in Nat /\ call[r] \in 0..Len(Calls)
  BY GroupFacts DEF TypeOK
<1>3. Chunks(r) \in Nat /\ Sends(r) \in Nat
  <2>1. call[r] # 0 => Calls[call[r]] \in 1..4
    BY <1>1, <1>2
  <2>2. Chunks(r) \in Nat
    BY <2>1 DEF Chunks
  <2> QED BY <2>2, GroupFacts, ProductMonotone DEF Sends
<1>4. /\ at[r] \in Nat /\ at[r] <= Sends(r)
      /\ summed[r] \in Nat /\ summed[r] <= Chunks(r)
      /\ quanted[r] \in Nat /\ quanted[r] <= Chunks(r)
  BY <1>3 DEF TypeOK
<1>5. \A f \in Phases : /\ copied[r][f] \in Nat /\ copied[r][f] <= Sends(r)
                        /\ flagged[r][f] \in Nat /\ flagged[r][f] <= Sends(r)
  BY <1>3 DEF TypeOK
<1>6. pc[r] \in {"idle", "quant", "wait", "accum", "await", "place", "join"}
  BY DEF TypeOK
<1> QED BY <1>2, <1>4, <1>5, <1>6

\* A call has chunks, and every rank in a call has as many.
LEMMA InCall ==
  ASSUME TypeOK, SameChunks, NEW r \in Ranks, call[r] > 0
  PROVE  /\ Chunks(r) = C /\ Sends(r) = K /\ C \in Nat /\ C > 0 /\ K \in Nat /\ K > 0
         /\ K = C * (W-1)
<1>1. call[r] # 0 /\ C \in Nat /\ C > 0 /\ K \in Nat /\ K = C * (W-1)
  BY ChunkCount, RankTypes DEF K
<1>2. W-1 \in Nat /\ W-1 > 0
  BY GroupFacts
<1>3. 0 * (W-1) + (W-1) <= C * (W-1)
  BY <1>1, <1>2, ProductStrict
<1>4. K > 0
  BY <1>1, <1>2, <1>3
<1> QED BY <1>1, <1>4, ChunkCount

\* What is below the sends of a rank is a send of a call.
LEMMA SendInCall ==
  ASSUME TypeOK, SameChunks, NEW r \in Ranks, NEW n \in Nat, n < Sends(r)
  PROVE  call[r] > 0 /\ n \in SendsOfCall
<1>1. call[r] \in Nat /\ (call[r] = 0 => Sends(r) = 0) /\ (call[r] # 0 => Sends(r) = K)
  BY RankTypes, ChunkCount
<1>2. K \in Nat /\ call[r] > 0 /\ n < K
  BY <1>1, ChunkCount
<1> QED BY <1>2 DEF SendsOfCall

\* A flag is set to the number of the call.
LEMMA FlagStepFacts ==
  ASSUME TypeOK, SameChunks, Counters, NEW r \in Ranks, NEW f \in Phases,
         FlagStep(r, f)
  PROVE  \E n \in SendsOfCall :
           /\ n = flagged[r][f] /\ n \in Nat /\ call[r] > 0
           /\ n < copied[r][f] /\ n + 1 <= Sends(r)
           /\ sent' = [sent EXCEPT ![r][OutKey(f, n)] = call[r]]
           /\ flag' = [flag EXCEPT ![Target(r, n)][OutKey(f, n)] = call[r]]
           /\ flagged' = [flagged EXCEPT ![r][f] = n + 1]
<1>0. PICK n : n = flagged[r][f]
  OBVIOUS
<1>1. /\ n \in Nat /\ copied[r][f] \in Nat /\ copied[r][f] <= Sends(r) /\ call[r] \in Nat
      /\ Sends(r) \in Nat /\ n < copied[r][f]
  <2>1. n \in Nat /\ copied[r][f] \in Nat /\ copied[r][f] <= Sends(r) /\ call[r] \in Nat
    BY <1>0, RankTypes
  <2>2. Sends(r) \in Nat
    BY ChunkCount
  <2> QED BY <1>0, <2>1, <2>2 DEF FlagStep
<1>2. n < Sends(r) /\ n + 1 <= Sends(r)
  BY <1>1
<1>3. call[r] > 0 /\ n \in SendsOfCall
  BY <1>1, <1>2, SendInCall
<1>4. FlagOf(r, TargetSlot(r, f, n)) = OutKey(f, n) /\ OutKey(f, n) \in Flags
  BY <1>3, FlagOfSend, OutKeyFacts
<1>5. sent[r][OutKey(f, n)] = call[r] - 1
  <2>1. sent[r][OutKey(f, n)] = Count(call[r], n, n)
    BY <1>0, <1>3 DEF Counters, CounterOf
  <2> QED BY <1>1, <1>3, <2>1 DEF Count
<1>6. sent[r][OutKey(f, n)] + 1 = call[r]
  BY <1>1, <1>5
<1>7. /\ sent' = [sent EXCEPT ![r][OutKey(f, n)] = sent[r][OutKey(f, n)] + 1]
      /\ flag' = [flag EXCEPT ![Target(r, n)][OutKey(f, n)] = sent[r][OutKey(f, n)] + 1]
      /\ flagged' = [flagged EXCEPT ![r][f] = n + 1]
  BY <1>0, <1>4 DEF FlagStep, SetFlag
<1> QED BY <1>0, <1>1, <1>2, <1>3, <1>6, <1>7

\* A wait for a receive counts the call, and the sender has set the flag for it.
LEMMA WaitFlagFacts ==
  ASSUME TypeOK, SameChunks, Counters, NEW r \in Ranks, NEW f \in Phases,
         NEW n \in Nat, n < Sends(r), Received(r, f) = n,
         WaitFlag(r, FlagOf(r, SlotAt(f, n)))
  PROVE  /\ call[r] > 0 /\ n \in SendsOfCall
         /\ waited' = [waited EXCEPT ![r][InKey(f, n)] = call[r]]
         /\ flag[r][InKey(f, n)] >= call[r]
<1>1. call[r] > 0 /\ n \in SendsOfCall /\ call[r] \in Nat
  BY SendInCall, RankTypes
<1>2. FlagOf(r, SlotAt(f, n)) = InKey(f, n)
  BY <1>1, FlagOfReceive
<1>3. waited[r][InKey(f, n)] = call[r] - 1
  <2>1. waited[r][InKey(f, n)] = Count(call[r], n, n)
    BY <1>1 DEF Counters, CounterOf
  <2> QED BY <1>1, <2>1 DEF Count
<1>4. waited[r][InKey(f, n)] + 1 = call[r]
  BY <1>1, <1>3
<1>5. /\ flag[r][InKey(f, n)] >= waited[r][InKey(f, n)] + 1
      /\ waited' = [waited EXCEPT ![r][InKey(f, n)] = waited[r][InKey(f, n)] + 1]
  BY <1>2 DEF WaitFlag
<1> QED BY <1>1, <1>4, <1>5

\* Where main stands when it waits.
LEMMA WaitScatterFacts ==
  ASSUME TypeOK, SameChunks, Positions, NEW r \in Ranks, pc[r] = "wait"
  PROVE  /\ call[r] > 0 /\ at[r] < Sends(r) /\ Received(r, "scatter") = at[r]
         /\ ChunkOf(at[r]) = summed[r] /\ at[r] \in SendsOfCall
<1>1. /\ call[r] > 0 /\ summed[r] < Chunks(r) /\ at[r] < (summed[r] + 1) * (W-1)
      /\ summed[r] * (W-1) <= at[r] /\ at[r] \in Nat /\ summed[r] \in Nat
  BY RankTypes DEF Positions, PositionOf
<1>2. Sends(r) = Chunks(r) * (W-1) /\ Chunks(r) \in Nat /\ W-1 \in Nat
  BY GroupFacts, ChunkCount DEF Sends
<1> DEFINE p == summed[r] * (W-1)
           q == (summed[r] + 1) * (W-1)
           t == Chunks(r) * (W-1)
<1>3. summed[r] + 1 <= Chunks(r) /\ summed[r] + 1 \in Nat
  BY <1>1, <1>2
<1>4. p \in Nat /\ q \in Nat /\ t \in Nat /\ q <= t /\ q = p + (W-1)
  <2>1. q \in Nat /\ t \in Nat /\ q <= t
    BY <1>2, <1>3, ProductMonotone
  <2>2. p \in Nat /\ q = p + (W-1)
    BY <1>1, <1>2
  <2> QED BY <2>1, <2>2
<1>5. p <= at[r] /\ at[r] < q /\ Sends(r) = t
  BY <1>1, <1>2
<1>6. at[r] < Sends(r)
  <2> HIDE DEF p, q, t
  <2> QED BY <1>1, <1>4, <1>5
<1>7. ChunkOf(at[r]) = summed[r]
  <2> DEFINE i == at[r] - p
  <2>1. i \in Nat /\ i < W-1 /\ at[r] = p + i
    <3> HIDE DEF p, q, t
    <3> QED BY <1>1, <1>2, <1>4, <1>5
  <2>2. i \in Places
    <3> HIDE DEF i
    <3> QED BY <2>1, GroupFacts DEF Places
  <2>3. at[r] = summed[r] * (W-1) + i
    BY <2>1
  <2> HIDE DEF i
  <2> QED BY <1>1, <2>2, <2>3, SendUnique
<1>8. at[r] \in SendsOfCall
  BY <1>1, <1>6, SendInCall
<1> QED BY <1>1, <1>6, <1>7, <1>8 DEF Received

LEMMA WaitBroadcastFacts ==
  ASSUME TypeOK, SameChunks, Positions, NEW r \in Ranks, pc[r] \in {"await", "place"}
  PROVE  /\ call[r] > 0 /\ at[r] < Sends(r) /\ at[r] \in SendsOfCall
         /\ pc[r] = "await" => Received(r, "broadcast") = at[r]
<1>1. call[r] > 0 /\ at[r] < Sends(r) /\ at[r] \in Nat
  BY RankTypes DEF Positions, PositionOf
<1> QED BY <1>1, SendInCall DEF Received

-----------------------------------------------------------------------------
(* The typing.                                                             *)

LEMMA TypeInit == Init => TypeOK
<1> SUFFICES ASSUME Init PROVE TypeOK
  OBVIOUS
<1>1. program \in Programs /\ Calls \in Seq(1..4) /\ Len(Calls) \in Nat
  BY DEF Init, Calls
<1>2. \A r \in Ranks : Chunks(r) = 0 /\ Sends(r) = 0
  BY <1>1 DEF Init, Chunks, Sends, W
<1>3. {} \in Numbers /\ 0 \in 0..Len(Calls)
  BY <1>1 DEF Numbers
<1> QED BY <1>1, <1>2, <1>3 DEF Init, TypeOK

\* The inputs a rank adds are numbers.
LEMMA SumIsNumber ==
  ASSUME TypeOK, NEW r \in Ranks, call[r] > 0, NEW c \in Pieces
  PROVE  /\ {<<r, call[r]>>} \in Numbers
         /\ {<<r, call[r]>>} \cup UNION {scratch[r][<<"scatter", i, c>>] : i \in Places} \in Numbers
<1>1. call[r] \in 1..Len(Calls)
  BY RankTypes, GroupFacts
<1>2. {<<r, call[r]>>} \in Numbers
  BY <1>1 DEF Numbers
<1>3. \A i \in Places : scratch[r][<<"scatter", i, c>>] \in Numbers
  BY DEF TypeOK, Slots, Phases
<1>4. UNION {scratch[r][<<"scatter", i, c>>] : i \in Places} \in Numbers
  BY <1>3 DEF Numbers
<1> QED BY <1>2, <1>4 DEF Numbers

LEMMA TypeStep ==
  ASSUME TypeOK, SameChunks, Positions, Counters, [Next]_vars
  PROVE  TypeOK'
<1>1. program' = program /\ program' \in Programs /\ Calls \in Seq(1..4) /\ Len(Calls) \in Nat
  BY ProgramFixed, GroupFacts DEF TypeOK
<1>2. /\ Ranks' = Ranks /\ Calls' = Calls /\ Pieces' = Pieces /\ Slots' = Slots
      /\ Flags' = Flags /\ Numbers' = Numbers
  BY <1>1, LayoutFixed
<1>3. \A s \in Ranks : call'[s] = call[s] => Chunks(s)' = Chunks(s) /\ Sends(s)' = Sends(s)
  BY <1>1, LayoutFixed DEF Chunks, Sends
<1>4. ASSUME NEW r \in Ranks, Enter(r) PROVE TypeOK'
  <2>1. call' = [call EXCEPT ![r] = call[r] + 1] /\ call[r] + 1 \in 1..Len(Calls)
    BY <1>1, <1>4, RankTypes DEF Enter
  <2>2. call' \in [Ranks -> 0..Len(Calls)]
    BY <2>1 DEF TypeOK
  <2>3. Chunks(r)' \in Nat /\ Sends(r)' \in Nat
    <3>1. Calls[call[r] + 1] \in 1..4 /\ call'[r] = call[r] + 1
      BY <1>1, <2>1 DEF TypeOK
    <3>2. Chunks(r)' \in Nat
      BY <1>2, <2>1, <3>1 DEF Chunks
    <3> QED BY <1>1, <3>2, LayoutFixed, GroupFacts, ProductMonotone DEF Sends
  <2>4. /\ pc' \in [Ranks -> {"idle", "quant", "wait", "accum", "await", "place", "join"}]
        /\ at' \in [Ranks -> Nat] /\ summed' \in [Ranks -> Nat] /\ quanted' \in [Ranks -> Nat]
        /\ copied' \in [Ranks -> [Phases -> Nat]] /\ flagged' \in [Ranks -> [Phases -> Nat]]
        /\ out' \in [Ranks -> [Ranks -> [Pieces -> Numbers]]]
    BY <1>4 DEF TypeOK, Enter, Numbers
  <2>5. ASSUME NEW s \in Ranks
        PROVE  /\ at'[s] \in 0..Sends(s)' /\ summed'[s] \in 0..Chunks(s)' /\ quanted'[s] \in 0..Chunks(s)'
               /\ \A f \in Phases : copied'[s][f] \in 0..Sends(s)' /\ flagged'[s][f] \in 0..Sends(s)'
    <3>1. CASE s = r
      BY <1>4, <2>3, <3>1 DEF TypeOK, Enter
    <3>2. CASE s # r
      BY <1>3, <1>4, <3>2 DEF TypeOK, Enter
    <3> QED BY <3>1, <3>2
  <2> QED BY <1>1, <1>2, <1>4, <2>2, <2>4, <2>5 DEF TypeOK, Enter, flags
<1>5. ASSUME NEW r \in Ranks, Quant(r) PROVE TypeOK'
  <2>1. /\ call[r] > 0 /\ quanted[r] \in Nat /\ quanted[r] < Chunks(r) /\ Chunks(r) = C
    BY <1>5, RankTypes, InCall DEF Quant, Positions, PositionOf
  <2>2. quanted[r] \in Pieces /\ quanted[r] + 1 \in 0..Chunks(r)
    BY <2>1, ChunkCount
  <2>3. {<<r, call[r]>>} \in Numbers
    BY <2>1, <2>2, SumIsNumber
  <2>4. stage' \in [Ranks -> [Ranks -> [Pieces -> Numbers]]]
    BY <1>5, <2>2, <2>3 DEF TypeOK, Quant
  <2>5. /\ pc' \in [Ranks -> {"idle", "quant", "wait", "accum", "await", "place", "join"}]
        /\ quanted' \in [Ranks -> Nat]
    BY <1>5, <2>1 DEF TypeOK, Quant
  <2>6. \A s \in Ranks : quanted'[s] \in 0..Chunks(s)
    BY <1>5, <2>2 DEF TypeOK, Quant
  <2> QED BY <1>1, <1>2, <1>3, <1>5, <2>4, <2>5, <2>6 DEF TypeOK, Quant, flags
<1>6. ASSUME NEW r \in Ranks, WaitScatter(r) PROVE TypeOK'
  <2>1. /\ call[r] > 0 /\ at[r] < Sends(r) /\ Received(r, "scatter") = at[r] /\ at[r] \in Nat
        /\ call[r] \in 0..Len(Calls)
    BY <1>6, WaitScatterFacts, RankTypes DEF WaitScatter
  <2>2. waited' = [waited EXCEPT ![r][InKey("scatter", at[r])] = call[r]]
    BY <1>6, <2>1, WaitFlagFacts DEF WaitScatter, Phases
  <2>3. waited' \in [Ranks -> [Flags -> 0..Len(Calls)]]
    BY <2>1, <2>2 DEF TypeOK
  <2>4. at[r] + 1 \in 0..Sends(r)
    BY <2>1, ChunkCount
  <2>5. /\ pc' \in [Ranks -> {"idle", "quant", "wait", "accum", "await", "place", "join"}]
        /\ at' \in [Ranks -> Nat] /\ \A s \in Ranks : at'[s] \in 0..Sends(s)
    BY <1>6, <2>4 DEF TypeOK, WaitScatter
  <2> QED BY <1>1, <1>2, <1>3, <1>6, <2>3, <2>5 DEF TypeOK, WaitScatter, WaitFlag, memory
<1>7. ASSUME NEW r \in Ranks, Accumulate(r) PROVE TypeOK'
  <2>1. /\ call[r] > 0 /\ summed[r] \in Nat /\ summed[r] < Chunks(r) /\ Chunks(r) = C
    BY <1>7, RankTypes, InCall DEF Accumulate, Positions, PositionOf
  <2>2. summed[r] \in Pieces /\ summed[r] + 1 \in 0..Chunks(r) /\ 0 \in 0..Sends(r)
    BY <2>1, ChunkCount
  <2> DEFINE sum == {<<r, call[r]>>} \cup UNION {scratch[r][<<"scatter", i, summed[r]>>] : i \in Places}
  <2>3. sum \in Numbers
    BY <2>1, <2>2, SumIsNumber
  <2>4. /\ out' = [out EXCEPT ![r][r][summed[r]] = sum]
        /\ stage' = [stage EXCEPT ![r][r][summed[r]] = sum]
        /\ scratch' = scratch
    BY <1>7 DEF Accumulate
  <2> HIDE DEF sum
  <2>5. /\ stage' \in [Ranks -> [Ranks -> [Pieces -> Numbers]]]
        /\ out' \in [Ranks -> [Ranks -> [Pieces -> Numbers]]]
    BY <2>2, <2>3, <2>4 DEF TypeOK
  <2>6. /\ pc' \in [Ranks -> {"idle", "quant", "wait", "accum", "await", "place", "join"}]
        /\ summed' \in [Ranks -> Nat] /\ at' \in [Ranks -> Nat]
    BY <1>7, <2>1 DEF TypeOK, Accumulate
  <2>7. \A s \in Ranks : summed'[s] \in 0..Chunks(s) /\ at'[s] \in 0..Sends(s)
    BY <1>7, <2>2 DEF TypeOK, Accumulate
  <2> QED BY <1>1, <1>2, <1>3, <1>7, <2>4, <2>5, <2>6, <2>7 DEF TypeOK, Accumulate, flags
<1>8. ASSUME NEW r \in Ranks, WaitBroadcast(r) PROVE TypeOK'
  <2>1. /\ call[r] > 0 /\ at[r] < Sends(r) /\ Received(r, "broadcast") = at[r] /\ at[r] \in Nat
        /\ call[r] \in 0..Len(Calls)
    BY <1>8, WaitBroadcastFacts, RankTypes DEF WaitBroadcast
  <2>2. waited' = [waited EXCEPT ![r][InKey("broadcast", at[r])] = call[r]]
    BY <1>8, <2>1, WaitFlagFacts DEF WaitBroadcast, Phases
  <2>3. waited' \in [Ranks -> [Flags -> 0..Len(Calls)]]
    BY <2>1, <2>2 DEF TypeOK
  <2>4. pc' \in [Ranks -> {"idle", "quant", "wait", "accum", "await", "place", "join"}]
    BY <1>8 DEF TypeOK, WaitBroadcast
  <2> QED BY <1>1, <1>2, <1>3, <1>8, <2>3, <2>4 DEF TypeOK, WaitBroadcast, WaitFlag, memory
<1>9. ASSUME NEW r \in Ranks, Place(r) PROVE TypeOK'
  <2>1. at[r] < Sends(r) /\ at[r] \in Nat /\ at[r] \in SendsOfCall
    BY <1>9, WaitBroadcastFacts, RankTypes DEF Place
  <2>2. at[r] + 1 \in 0..Sends(r)
    BY <2>1, ChunkCount
  <2>3. SlotAt("broadcast", at[r]) \in Slots
    BY <2>1, SlotAtFacts DEF Phases
  <2>4. scratch[r][SlotAt("broadcast", at[r])] \in Numbers
    BY <2>3 DEF TypeOK
  <2> DEFINE j == Target(r, at[r])
             c == ChunkOf(at[r])
             x == scratch[r][SlotAt("broadcast", at[r])]
  <2>5. out' \in [Ranks -> [Ranks -> [Pieces -> Numbers]]]
    <3>1. out' = [out EXCEPT ![r][j][c] = x] /\ x \in Numbers
      BY <1>9, <2>4 DEF Place, Target
    <3>2. j \in Ranks /\ c \in Pieces
      BY <2>1, SendMeetsReceive, MirrorFacts, ChunkCount
    <3> HIDE DEF j, c, x
    <3> QED BY <3>1, <3>2 DEF TypeOK
  <2>6. /\ pc' \in [Ranks -> {"idle", "quant", "wait", "accum", "await", "place", "join"}]
        /\ at' \in [Ranks -> Nat] /\ \A s \in Ranks : at'[s] \in 0..Sends(s)
    BY <1>9, <2>1, <2>2 DEF TypeOK, Place
  <2> QED BY <1>1, <1>2, <1>3, <1>9, <2>5, <2>6 DEF TypeOK, Place, flags
<1>10. ASSUME NEW r \in Ranks, Join(r) PROVE TypeOK'
  <2>1. pc' \in [Ranks -> {"idle", "quant", "wait", "accum", "await", "place", "join"}]
    BY <1>10 DEF TypeOK, Join
  <2> QED BY <1>1, <1>2, <1>3, <1>10, <2>1 DEF TypeOK, Join, memory, flags
<1>11. ASSUME NEW r \in Ranks, NEW f \in Phases, CopyStep(r, f) PROVE TypeOK'
  <2> DEFINE n == copied[r][f]
             x == stage[r][StageShard(r, f, n)][ChunkOf(n)]
  <2>1. n \in Nat /\ n < Sends(r) /\ n \in SendsOfCall /\ n + 1 \in 0..Sends(r)
    <3>1. n \in Nat /\ n < Sends(r)
      BY <1>11, RankTypes DEF CopyStep, CopyReady
    <3> QED BY <3>1, SendInCall, ChunkCount
  <2>2. x \in Numbers
    <3>1. ChunkOf(n) \in Pieces /\ Target(r, n) \in Ranks
      BY <2>1, MirrorFacts, ChunkCount, SendMeetsReceive
    <3> QED BY <3>1 DEF TypeOK, StageShard
  <2>3. scratch' = [scratch EXCEPT ![Target(r, n)][TargetSlot(r, f, n)] = x]
    BY <1>11 DEF CopyStep
  <2>4. copied' = [copied EXCEPT ![r][f] = n + 1]
    BY <1>11 DEF CopyStep
  <2> HIDE DEF n, x
  <2>5. scratch' \in [Ranks -> [Slots -> Numbers]]
    BY <2>2, <2>3 DEF TypeOK
  <2>6. copied' \in [Ranks -> [Phases -> Nat]]
        /\ \A s \in Ranks, g \in Phases : copied'[s][g] \in 0..Sends(s)
    BY <2>1, <2>4 DEF TypeOK
  <2> QED BY <1>1, <1>2, <1>3, <1>11, <2>5, <2>6 DEF TypeOK, CopyStep, flags
<1>12. ASSUME NEW r \in Ranks, NEW f \in Phases, FlagStep(r, f) PROVE TypeOK'
  <2>1. PICK n \in SendsOfCall :
          /\ n = flagged[r][f] /\ n \in Nat /\ call[r] > 0
          /\ n < copied[r][f] /\ n + 1 <= Sends(r)
          /\ sent' = [sent EXCEPT ![r][OutKey(f, n)] = call[r]]
          /\ flag' = [flag EXCEPT ![Target(r, n)][OutKey(f, n)] = call[r]]
          /\ flagged' = [flagged EXCEPT ![r][f] = n + 1]
    BY <1>12, FlagStepFacts
  <2>2. n + 1 \in 0..Sends(r) /\ call[r] \in 0..Len(Calls)
    BY <2>1, ChunkCount, RankTypes
  <2>3. /\ sent' \in [Ranks -> [Flags -> 0..Len(Calls)]]
        /\ flag' \in [Ranks -> [Flags -> 0..Len(Calls)]]
    BY <2>1, <2>2 DEF TypeOK
  <2>4. flagged' \in [Ranks -> [Phases -> Nat]]
        /\ \A s \in Ranks, g \in Phases : flagged'[s][g] \in 0..Sends(s)
    BY <2>1, <2>2 DEF TypeOK
  <2> QED BY <1>1, <1>2, <1>3, <1>12, <2>3, <2>4 DEF TypeOK, FlagStep, SetFlag, memory
<1>13. CASE UNCHANGED vars
  BY <1>1, <1>2, <1>3, <1>13 DEF TypeOK, vars, streams, memory, flags
<1> QED BY <1>4, <1>5, <1>6, <1>7, <1>8, <1>9, <1>10, <1>11, <1>12, <1>13
        DEF Next, MainStep, Drained

-----------------------------------------------------------------------------
(* The positions of the streams of a rank.                                 *)

LEMMA SendsOfChunks ==
  ASSUME TypeOK, NEW a \in Nat
  PROVE  /\ a * (W-1) \in Nat /\ (a + 1) * (W-1) = a * (W-1) + (W-1) /\ 0 * (W-1) = 0
         /\ \A b \in Nat : a <= b => a * (W-1) <= b * (W-1)
<1>1. W-1 \in Nat
  BY GroupFacts
<1>2. \A b \in Nat : a <= b => a * (W-1) <= b * (W-1)
  BY <1>1, ProductMonotone
<1>3. a * (W-1) \in Nat /\ (a + 1) * (W-1) = a * (W-1) + (W-1) /\ 0 * (W-1) = 0
  BY <1>1
<1> QED BY <1>2, <1>3

LEMMA EnterFacts ==
  ASSUME TypeOK, SameChunks, NEW r \in Ranks, Enter(r)
  PROVE  /\ call' = [call EXCEPT ![r] = call[r] + 1] /\ call'[r] = call[r] + 1
         /\ call[r] \in Nat
         /\ Chunks(r)' = C /\ Sends(r)' = K /\ C \in Nat /\ C > 0
<1>1. program' = program /\ call' = [call EXCEPT ![r] = call[r] + 1] /\ call[r] < Len(Calls)
  BY DEF Enter
<1>2. call[r] \in Nat /\ Calls \in Seq(1..4) /\ Len(Calls) \in Nat /\ call \in [Ranks -> 0..Len(Calls)]
  BY RankTypes, GroupFacts DEF TypeOK
<1>3. call'[r] = call[r] + 1 /\ call[r] + 1 \in 1..Len(Calls) /\ call'[r] # 0
  BY <1>1, <1>2
<1>4. Calls[call[r] + 1] = C /\ C \in Nat /\ C > 0
  BY <1>2, <1>3, ChunkCount
<1>5. Chunks(r)' = C
  BY <1>1, <1>3, <1>4, LayoutFixed DEF Chunks
<1>6. Sends(r)' = K
  BY <1>1, <1>5, LayoutFixed DEF Sends, K
<1> QED BY <1>1, <1>2, <1>3, <1>4, <1>5, <1>6

LEMMA PositionsInit == Init /\ TypeOK => Positions
<1> SUFFICES ASSUME Init, TypeOK, NEW r \in Ranks PROVE PositionOf(r)
  BY DEF Positions
<1>1. Chunks(r) = 0 /\ Sends(r) = 0 /\ 0 * (W-1) = 0
  BY GroupFacts, SendsOfChunks DEF Init, Chunks, Sends
<1>2. /\ pc[r] = "idle" /\ at[r] = 0 /\ summed[r] = 0 /\ quanted[r] = 0
      /\ \A f \in Phases : copied[r][f] = 0 /\ flagged[r][f] = 0
  BY DEF Init
<1>3. summed[r] * (W-1) = 0 /\ quanted[r] * (W-1) = 0
  BY <1>1, <1>2
<1> QED BY <1>1, <1>2, <1>3 DEF PositionOf, Phases

\* A step leaves the positions of the other ranks.
LEMMA OtherPosition ==
  ASSUME program' = program, NEW s \in Ranks, PositionOf(s),
         call'[s] = call[s], pc'[s] = pc[s], at'[s] = at[s], summed'[s] = summed[s],
         quanted'[s] = quanted[s], \A f \in Phases : copied'[s][f] = copied[s][f] /\ flagged'[s][f] = flagged[s][f]
  PROVE  PositionOf(s)'
<1>1. W' = W /\ Chunks(s)' = Chunks(s) /\ Sends(s)' = Sends(s)
  BY LayoutFixed DEF Chunks, Sends
<1> QED BY <1>1 DEF PositionOf, Phases

LEMMA PositionsStep ==
  ASSUME TypeOK, SameChunks, Positions, [Next]_vars
  PROVE  Positions'
<1>1. program' = program
  BY ProgramFixed
<1>2. W' = W /\ Ranks' = Ranks
  BY <1>1, LayoutFixed
<1>3. \A s \in Ranks : call'[s] = call[s] => Chunks(s)' = Chunks(s) /\ Sends(s)' = Sends(s)
  BY <1>1, LayoutFixed DEF Chunks, Sends
<1>4. \A s \in Ranks : PositionOf(s)
  BY DEF Positions
<1>5. "scatter" \in Phases /\ "broadcast" \in Phases
  BY DEF Phases
<1>6. SUFFICES \A s \in Ranks : PositionOf(s)'
  BY <1>2 DEF Positions
<1>7. ASSUME NEW r \in Ranks, Enter(r), NEW s \in Ranks PROVE PositionOf(s)'
  <2>1. CASE s # r
    BY <1>1, <1>4, <1>7, <2>1, OtherPosition DEF Enter, TypeOK
  <2>2. CASE s = r
    <3>1. Chunks(r)' = C /\ C > 0 /\ C \in Nat /\ call'[r] > 0
      BY <1>7, EnterFacts
    <3>2. /\ pc'[r] = "quant" /\ at'[r] = 0 /\ summed'[r] = 0 /\ quanted'[r] = 0
          /\ \A f \in Phases : copied'[r][f] = 0 /\ flagged'[r][f] = 0
      BY <1>7 DEF Enter, TypeOK
    <3>3. summed'[r] * (W-1) = 0 /\ quanted'[r] * (W-1) = 0
      BY <3>2, SendsOfChunks
    <3> QED BY <1>2, <1>5, <2>2, <3>1, <3>2, <3>3 DEF PositionOf
  <2> QED BY <2>1, <2>2
<1>8. ASSUME NEW r \in Ranks, Quant(r), NEW s \in Ranks PROVE PositionOf(s)'
  <2>1. CASE s # r
    BY <1>1, <1>4, <1>8, <2>1, OtherPosition DEF Quant, TypeOK
  <2>2. CASE s = r
    <3> DEFINE a == quanted[r]
    <3>1. /\ call'[r] = call[r] /\ call[r] > 0 /\ at'[r] = 0 /\ summed'[r] = 0
          /\ copied'[r] = copied[r] /\ flagged'[r] = flagged[r]
          /\ a \in Nat /\ a < Chunks(r) /\ Chunks(r) = C /\ C \in Nat
          /\ quanted'[r] = a + 1
          /\ pc'[r] = IF a = C - 1 THEN "wait" ELSE "quant"
          /\ copied[r]["scatter"] \in Nat
      BY <1>4, <1>5, <1>8, RankTypes, InCall DEF Quant, PositionOf, TypeOK
    <3>2. /\ a * (W-1) \in Nat /\ (a + 1) * (W-1) = a * (W-1) + (W-1) /\ 0 * (W-1) = 0
          /\ (0 + 1) * (W-1) = 0 * (W-1) + (W-1) /\ W-1 \in Nat /\ W-1 > 0
      BY <3>1, SendsOfChunks, GroupFacts
    <3>3. copied[r]["scatter"] <= (a + 1) * (W-1)
      <4>1. copied[r]["scatter"] <= a * (W-1)
        BY <1>4 DEF PositionOf
      <4> DEFINE p == a * (W-1)
      <4> HIDE DEF a
      <4>2. copied[r]["scatter"] <= p /\ p \in Nat /\ (a + 1) * (W-1) = p + (W-1)
        BY <3>2, <4>1
      <4> HIDE DEF p
      <4> QED BY <3>1, <3>2, <4>2
    <3>4. /\ copied'[r]["scatter"] <= quanted'[r] * (W-1)
          /\ copied'[r]["broadcast"] <= summed'[r] * (W-1)
          /\ \A f \in Phases : flagged'[r][f] <= copied'[r][f]
      BY <1>4, <1>8, <3>1, <3>3 DEF PositionOf, Quant
    <3>5. pc'[r] = "wait" => /\ summed'[r] < C /\ summed'[r] * (W-1) <= at'[r]
                             /\ at'[r] < (summed'[r] + 1) * (W-1) /\ quanted'[r] = C
      BY <3>1, <3>2
    <3>6. pc'[r] = "quant" => quanted'[r] < C
      BY <3>1
    <3>7. Chunks(r)' = C /\ pc'[r] \in {"wait", "quant"}
      BY <1>3, <3>1
    <3> HIDE DEF a
    <3> QED BY <1>2, <2>2, <3>1, <3>4, <3>5, <3>6, <3>7 DEF PositionOf
  <2> QED BY <2>1, <2>2
<1>9. ASSUME NEW r \in Ranks, WaitScatter(r), NEW s \in Ranks PROVE PositionOf(s)'
  <2>1. CASE s # r
    BY <1>1, <1>4, <1>9, <2>1, OtherPosition DEF WaitScatter, TypeOK
  <2>2. CASE s = r
    <3> DEFINE p == summed[r] * (W-1)
               q == (summed[r] + 1) * (W-1)
    <3>1. /\ call'[r] = call[r] /\ call[r] > 0 /\ summed'[r] = summed[r] /\ quanted'[r] = quanted[r]
          /\ copied'[r] = copied[r] /\ flagged'[r] = flagged[r]
          /\ pc[r] = "wait" /\ at'[r] = at[r] + 1 /\ at[r] \in Nat /\ summed[r] \in Nat
          /\ pc'[r] = IF PlaceOf(at[r]) = W-2 THEN "accum" ELSE "wait"
      BY <1>4, <1>9, RankTypes DEF WaitScatter, PositionOf, TypeOK
    <3>2. /\ p \in Nat /\ q = p + (W-1) /\ W-1 \in Nat /\ W \in Nat
          /\ p <= at[r] /\ at[r] < q
      BY <1>4, <3>1, SendsOfChunks, GroupFacts DEF PositionOf
    <3>3. ChunkOf(at[r]) = summed[r] /\ PlaceOf(at[r]) \in Nat
          /\ at[r] = ChunkOf(at[r]) * (W-1) + PlaceOf(at[r])
      BY <3>1, WaitScatterFacts, SendFacts, PlaceFacts
    <3>4. at[r] = p + PlaceOf(at[r])
      BY <3>3
    <3>5. pc'[r] = "accum" => at'[r] = q
      <4> HIDE DEF p, q
      <4> QED BY <3>1, <3>2, <3>3, <3>4
    <3>6. pc'[r] = "wait" => p <= at'[r] /\ at'[r] < q
      <4>1. PlaceOf(at[r]) < W-1
        BY <3>1, SendFacts, PlaceFacts
      <4> HIDE DEF p, q
      <4> QED BY <3>1, <3>2, <3>3, <3>4, <4>1
    <3>7. Chunks(r)' = Chunks(r) /\ pc'[r] \in {"wait", "accum"} /\ pc[r] # "quant"
      BY <1>3, <3>1
    <3> QED BY <1>2, <1>4, <2>2, <3>1, <3>5, <3>6, <3>7 DEF PositionOf
  <2> QED BY <2>1, <2>2
<1>10. ASSUME NEW r \in Ranks, Accumulate(r), NEW s \in Ranks PROVE PositionOf(s)'
  <2>1. CASE s # r
    BY <1>1, <1>4, <1>10, <2>1, OtherPosition DEF Accumulate, TypeOK
  <2>2. CASE s = r
    <3> DEFINE c == summed[r]
    <3>1. /\ call'[r] = call[r] /\ call[r] > 0 /\ summed'[r] = c + 1 /\ quanted'[r] = quanted[r]
          /\ copied'[r] = copied[r] /\ flagged'[r] = flagged[r]
          /\ pc[r] = "accum" /\ at[r] \in Nat /\ c \in Nat /\ c < Chunks(r)
          /\ at[r] = (c + 1) * (W-1)
          /\ at'[r] = (IF c = Chunks(r) - 1 THEN 0 ELSE at[r])
          /\ pc'[r] = IF c = Chunks(r) - 1 THEN "await" ELSE "wait"
      BY <1>4, <1>10, RankTypes DEF Accumulate, PositionOf, TypeOK
    <3>2. /\ Chunks(r) = C /\ C \in Nat /\ Sends(r) = K /\ K > 0 /\ W-1 \in Nat /\ W-1 > 0
          /\ Chunks(r)' = C /\ Sends(r)' = K
      BY <1>3, <3>1, InCall, GroupFacts
    <3>3. /\ c * (W-1) \in Nat /\ (c + 1) * (W-1) = c * (W-1) + (W-1) /\ c + 1 \in Nat
          /\ (c + 1) * (W-1) \in Nat /\ (c + 1 + 1) * (W-1) = (c + 1) * (W-1) + (W-1)
      <4>1. c \in Nat /\ c + 1 \in Nat
        BY <3>1
      <4> HIDE DEF c
      <4>2. \A a \in Nat : a * (W-1) \in Nat /\ (a + 1) * (W-1) = a * (W-1) + (W-1)
        BY SendsOfChunks
      <4> QED BY <4>1, <4>2
    <3>4. copied[r]["broadcast"] <= (c + 1) * (W-1)
      <4>1. copied[r]["broadcast"] <= c * (W-1) /\ copied[r]["broadcast"] \in Nat
        BY <1>4, <1>5, RankTypes DEF PositionOf
      <4> DEFINE x == c * (W-1)
                 y == (c + 1) * (W-1)
      <4>2. copied[r]["broadcast"] <= x /\ x \in Nat /\ y = x + (W-1)
        BY <3>3, <4>1
      <4>3. copied[r]["broadcast"] <= y
        <5> HIDE DEF x, y
        <5> QED BY <3>2, <4>1, <4>2
      <4> QED BY <4>3
    <3>5. pc'[r] = "wait" => /\ summed'[r] < C /\ summed'[r] * (W-1) <= at'[r]
                             /\ at'[r] < (summed'[r] + 1) * (W-1)
      <4> SUFFICES ASSUME pc'[r] = "wait"
                   PROVE  /\ c + 1 < C /\ (c + 1) * (W-1) <= at[r]
                          /\ at[r] < (c + 1 + 1) * (W-1) /\ at'[r] = at[r]
        BY <3>1
      <4>1. c + 1 < C /\ at'[r] = at[r]
        <5> HIDE DEF c
        <5> QED BY <3>1, <3>2
      <4> DEFINE y == (c + 1) * (W-1)
                 z == (c + 1 + 1) * (W-1)
      <4>2. y \in Nat /\ z = y + (W-1) /\ at[r] = y
        BY <3>1, <3>3
      <4>3. y <= at[r] /\ at[r] < z
        <5> HIDE DEF y, z
        <5> QED BY <3>2, <4>2
      <4> QED BY <4>1, <4>3
    <3>6. pc'[r] = "await" => summed'[r] = C /\ at'[r] < K
      BY <3>1, <3>2
    <3>7. quanted'[r] = C /\ pc'[r] \in {"wait", "await"}
      BY <1>4, <3>1, <3>2 DEF PositionOf
    <3>8. /\ copied'[r]["scatter"] <= quanted'[r] * (W-1)
          /\ copied'[r]["broadcast"] <= summed'[r] * (W-1)
          /\ \A f \in Phases : flagged'[r][f] <= copied'[r][f]
      BY <1>4, <3>1, <3>4 DEF PositionOf
    <3> HIDE DEF c
    <3> QED BY <1>2, <2>2, <3>1, <3>2, <3>5, <3>6, <3>7, <3>8 DEF PositionOf
  <2> QED BY <2>1, <2>2
<1>11. ASSUME NEW r \in Ranks, WaitBroadcast(r), NEW s \in Ranks PROVE PositionOf(s)'
  <2>1. CASE s # r
    BY <1>1, <1>4, <1>11, <2>1, OtherPosition DEF WaitBroadcast, TypeOK
  <2>2. CASE s = r
    <3>1. /\ call'[r] = call[r] /\ at'[r] = at[r] /\ summed'[r] = summed[r] /\ quanted'[r] = quanted[r]
          /\ copied'[r] = copied[r] /\ flagged'[r] = flagged[r]
          /\ pc[r] = "await" /\ pc'[r] = "place"
          /\ Chunks(r)' = Chunks(r) /\ Sends(r)' = Sends(r)
      BY <1>3, <1>11 DEF WaitBroadcast, TypeOK
    <3> QED BY <1>2, <1>4, <2>2, <3>1 DEF PositionOf
  <2> QED BY <2>1, <2>2
<1>12. ASSUME NEW r \in Ranks, Place(r), NEW s \in Ranks PROVE PositionOf(s)'
  <2>1. CASE s # r
    BY <1>1, <1>4, <1>12, <2>1, OtherPosition DEF Place, TypeOK
  <2>2. CASE s = r
    <3>1. /\ call'[r] = call[r] /\ at'[r] = at[r] + 1 /\ summed'[r] = summed[r] /\ quanted'[r] = quanted[r]
          /\ copied'[r] = copied[r] /\ flagged'[r] = flagged[r]
          /\ pc[r] = "place" /\ pc'[r] = (IF at[r] = Sends(r) - 1 THEN "join" ELSE "await")
          /\ Chunks(r)' = Chunks(r) /\ Sends(r)' = Sends(r) /\ at[r] \in Nat
      BY <1>3, <1>12, RankTypes DEF Place, TypeOK
    <3>2. at[r] < Sends(r) /\ Sends(r) \in Nat
      BY <1>4, <3>1, ChunkCount DEF PositionOf
    <3>3. /\ pc'[r] \in {"join", "await"}
          /\ (pc'[r] = "join" => at'[r] = Sends(r)) /\ (pc'[r] = "await" => at'[r] < Sends(r))
      BY <3>1, <3>2
    <3> QED BY <1>2, <1>4, <2>2, <3>1, <3>3 DEF PositionOf
  <2> QED BY <2>1, <2>2
<1>13. ASSUME NEW r \in Ranks, Join(r), NEW s \in Ranks PROVE PositionOf(s)'
  <2>1. CASE s # r
    BY <1>1, <1>4, <1>13, <2>1, OtherPosition DEF Join, TypeOK
  <2>2. CASE s = r
    <3>1. /\ call'[r] = call[r] /\ at'[r] = at[r] /\ summed'[r] = summed[r] /\ quanted'[r] = quanted[r]
          /\ copied'[r] = copied[r] /\ flagged'[r] = flagged[r]
          /\ pc[r] = "join" /\ pc'[r] = "idle"
          /\ Chunks(r)' = Chunks(r) /\ Sends(r)' = Sends(r)
          /\ \A f \in Phases : copied[r][f] = Sends(r) /\ flagged[r][f] = Sends(r)
      BY <1>3, <1>13 DEF Join, TypeOK
    <3> QED BY <1>2, <1>4, <2>2, <3>1 DEF PositionOf
  <2> QED BY <2>1, <2>2
<1>14. ASSUME NEW r \in Ranks, NEW f \in Phases, CopyStep(r, f), NEW s \in Ranks PROVE PositionOf(s)'
  <2>1. CASE s # r
    <3>1. copied'[s] = copied[s]
      BY <1>14, <2>1 DEF CopyStep, TypeOK
    <3> QED BY <1>1, <1>4, <1>14, <3>1, OtherPosition DEF CopyStep, TypeOK
  <2>2. CASE s = r
    <3>1. PICK n : n = copied[r][f]
      OBVIOUS
    <3>2. /\ n \in Nat /\ n < Sends(r) /\ ChunkOf(n) < ChunksReady(r, f)
          /\ copied' = [copied EXCEPT ![r][f] = n + 1]
      BY <1>14, <3>1, RankTypes DEF CopyStep, CopyReady
    <3>3. copied'[r][f] = n + 1 /\ \A g \in Phases \ {f} : copied'[r][g] = copied[r][g]
      BY <3>2 DEF TypeOK
    <3>4. ChunksReady(r, f) \in Nat
      BY RankTypes DEF ChunksReady
    <3>5. n + 1 <= ChunksReady(r, f) * (W-1)
      BY <3>2, <3>4, SendInChunk
    <3>6. /\ call'[r] = call[r] /\ at'[r] = at[r] /\ summed'[r] = summed[r] /\ quanted'[r] = quanted[r]
          /\ flagged'[r] = flagged[r] /\ pc'[r] = pc[r]
          /\ Chunks(r)' = Chunks(r) /\ Sends(r)' = Sends(r)
      BY <1>3, <1>14 DEF CopyStep
    <3>7. /\ copied'[r]["scatter"] <= quanted'[r] * (W-1)
          /\ copied'[r]["broadcast"] <= summed'[r] * (W-1)
      <4>1. CASE f = "scatter"
        BY <1>4, <1>5, <3>3, <3>5, <3>6, <4>1 DEF PositionOf, ChunksReady
      <4>2. CASE f = "broadcast"
        BY <1>4, <1>5, <3>3, <3>5, <3>6, <4>2 DEF PositionOf, ChunksReady
      <4> QED BY <4>1, <4>2 DEF Phases
    <3>8. \A g \in Phases : flagged'[r][g] <= copied'[r][g]
      <4> TAKE g \in Phases
      <4>1. flagged[r][g] \in Nat /\ flagged[r][g] <= copied[r][g]
        BY <1>4, RankTypes DEF PositionOf
      <4> QED BY <3>1, <3>2, <3>3, <3>6, <4>1
    <3>9. pc[r] # "idle"
      <4> SUFFICES ASSUME pc[r] = "idle" PROVE FALSE
        OBVIOUS
      <4>1. n = Sends(r) /\ Sends(r) \in Nat
        BY <1>4, <3>1, ChunkCount DEF PositionOf
      <4> QED BY <3>2, <4>1
    <3> QED BY <1>2, <1>4, <2>2, <3>6, <3>7, <3>8, <3>9 DEF PositionOf
  <2> QED BY <2>1, <2>2
<1>15. ASSUME NEW r \in Ranks, NEW f \in Phases, FlagStep(r, f), NEW s \in Ranks PROVE PositionOf(s)'
  <2>1. CASE s # r
    <3>1. flagged'[s] = flagged[s]
      BY <1>15, <2>1 DEF FlagStep, TypeOK
    <3> QED BY <1>1, <1>4, <1>15, <3>1, OtherPosition DEF FlagStep, TypeOK
  <2>2. CASE s = r
    <3>1. PICK n : n = flagged[r][f]
      OBVIOUS
    <3>2. /\ n \in Nat /\ n < copied[r][f] /\ copied[r][f] \in Nat
          /\ flagged' = [flagged EXCEPT ![r][f] = n + 1]
      BY <1>15, <3>1, RankTypes DEF FlagStep
    <3>3. flagged'[r][f] = n + 1 /\ \A g \in Phases \ {f} : flagged'[r][g] = flagged[r][g]
      BY <3>2 DEF TypeOK
    <3>4. /\ call'[r] = call[r] /\ at'[r] = at[r] /\ summed'[r] = summed[r] /\ quanted'[r] = quanted[r]
          /\ copied'[r] = copied[r] /\ pc'[r] = pc[r]
          /\ Chunks(r)' = Chunks(r) /\ Sends(r)' = Sends(r)
      BY <1>3, <1>15 DEF FlagStep
    <3>5. \A g \in Phases : flagged'[r][g] <= copied'[r][g]
      <4> TAKE g \in Phases
      <4>1. flagged[r][g] <= copied[r][g]
        BY <1>4 DEF PositionOf
      <4> QED BY <3>2, <3>3, <3>4, <4>1
    <3>6. pc[r] # "idle"
      <4> SUFFICES ASSUME pc[r] = "idle" PROVE FALSE
        OBVIOUS
      <4>1. n = Sends(r) /\ copied[r][f] = Sends(r)
        BY <1>4, <3>1 DEF PositionOf
      <4> QED BY <3>2, <4>1
    <3> QED BY <1>2, <1>4, <2>2, <3>4, <3>5, <3>6 DEF PositionOf
  <2> QED BY <2>1, <2>2
<1>16. ASSUME UNCHANGED vars, NEW s \in Ranks PROVE PositionOf(s)'
  BY <1>1, <1>4, <1>16, OtherPosition DEF vars, streams
<1> QED BY <1>7, <1>8, <1>9, <1>10, <1>11, <1>12, <1>13, <1>14, <1>15, <1>16
        DEF Next, MainStep, Drained

-----------------------------------------------------------------------------
(* What main has received.                                                 *)

\* The steps that neither enter a call nor wait for a flag.
Local(r) ==
  \/ Quant(r) \/ Accumulate(r) \/ Place(r) \/ Join(r)
  \/ \E f \in Phases : CopyStep(r, f)

LEMMA ReceivedOfOther ==
  ASSUME program' = program, NEW s, NEW f, at'[s] = at[s], pc'[s] = pc[s]
  PROVE  Received(s, f)' = Received(s, f)
  BY LayoutFixed DEF Received

LEMMA ReceivedLocal ==
  ASSUME TypeOK, SameChunks, Positions, NEW r \in Ranks, Local(r), NEW s \in Ranks, NEW f \in Phases
  PROVE  Received(s, f)' = Received(s, f)
<1>1. program' = program /\ (s # r => at'[s] = at[s] /\ pc'[s] = pc[s])
  BY DEF Local, Quant, Accumulate, Place, Join, CopyStep, TypeOK
<1>2. CASE s # r
  BY <1>1, <1>2, ReceivedOfOther
<1>3. CASE s = r /\ Quant(r)
  BY <1>1, <1>3, LayoutFixed DEF Quant, Received, TypeOK
<1>4. CASE s = r /\ Accumulate(r)
  <2> DEFINE c == summed[r]
  <2>1. /\ call[r] > 0 /\ pc[r] = "accum" /\ c \in Nat /\ c < Chunks(r)
        /\ at[r] = (c + 1) * (W-1)
        /\ at'[r] = (IF c = Chunks(r) - 1 THEN 0 ELSE at[r])
        /\ pc'[r] = IF c = Chunks(r) - 1 THEN "await" ELSE "wait"
    BY <1>4, RankTypes DEF Accumulate, Positions, PositionOf, TypeOK
  <2>2. Chunks(r) = C /\ C \in Nat /\ K = C * (W-1)
    BY <2>1, InCall
  <2>3. CASE c = C - 1
    <3>1. c + 1 = C
      BY <2>2, <2>3
    <3>2. at[r] = K /\ at'[r] = 0 /\ pc'[r] = "await"
      BY <2>1, <2>2, <2>3, <3>1
    <3> QED BY <1>1, <1>4, <2>1, <3>2, LayoutFixed DEF Received, Phases
  <2>4. CASE c # C - 1
    BY <1>1, <1>4, <2>1, <2>2, <2>4, LayoutFixed DEF Received
  <2> QED BY <2>3, <2>4
<1>5. CASE s = r /\ Place(r)
  BY <1>1, <1>5, LayoutFixed DEF Place, Received, TypeOK
<1>6. CASE s = r /\ Join(r)
  BY <1>1, <1>6, LayoutFixed DEF Join, Received, TypeOK
<1>7. ASSUME NEW g \in Phases, CopyStep(r, g) PROVE Received(s, f)' = Received(s, f)
  BY <1>1, <1>7, ReceivedOfOther DEF CopyStep
<1> QED BY <1>2, <1>3, <1>4, <1>5, <1>6, <1>7 DEF Local

\* An idle rank has received all of its call, and what it received is forgotten
\* when it enters the next.
LEMMA ReceivedEnter ==
  ASSUME TypeOK, SameChunks, Positions, NEW r \in Ranks, Enter(r), NEW f \in Phases
  PROVE  /\ Received(r, f)' = 0
         /\ call[r] > 0 => Received(r, f) = K
         /\ \A s \in Ranks \ {r} : Received(s, f)' = Received(s, f)
<1>1. program' = program /\ pc[r] = "idle" /\ pc'[r] = "quant" /\ at'[r] = 0
      /\ \A s \in Ranks \ {r} : at'[s] = at[s] /\ pc'[s] = pc[s]
  BY DEF Enter, TypeOK
<1>2. Received(r, f)' = 0
  BY <1>1 DEF Received
<1>3. call[r] > 0 => Received(r, f) = K
  BY <1>1, InCall DEF Received, Positions, PositionOf
<1> QED BY <1>1, <1>2, <1>3, ReceivedOfOther

LEMMA ReceivedWait ==
  ASSUME TypeOK, SameChunks, Positions, Counters, NEW r \in Ranks,
         NEW f \in Phases, IF f = "scatter" THEN WaitScatter(r) ELSE WaitBroadcast(r)
  PROVE  \E n \in SendsOfCall :
           /\ n \in Nat /\ call[r] > 0 /\ Received(r, f) = n /\ Received(r, f)' = n + 1
           /\ waited' = [waited EXCEPT ![r][InKey(f, n)] = call[r]]
           /\ flag[r][InKey(f, n)] >= call[r]
           /\ \A s \in Ranks, g \in Phases :
                s # r \/ g # f => Received(s, g)' = Received(s, g)
<1>1. CASE f = "scatter"
  <2>1. PICK n : n = at[r]
    OBVIOUS
  <2>2. n \in SendsOfCall /\ n < Sends(r) /\ Received(r, f) = n /\ call[r] > 0 /\ n \in Nat
    BY <1>1, <2>1, WaitScatterFacts, RankTypes DEF WaitScatter
  <2>3. /\ waited' = [waited EXCEPT ![r][InKey(f, n)] = call[r]]
        /\ flag[r][InKey(f, n)] >= call[r]
    BY <1>1, <2>1, <2>2, WaitFlagFacts DEF WaitScatter
  <2>4. /\ program' = program /\ at'[r] = n + 1 /\ pc[r] = "wait" /\ pc'[r] \in {"wait", "accum"}
        /\ \A s \in Ranks \ {r} : at'[s] = at[s] /\ pc'[s] = pc[s]
    BY <1>1, <2>1 DEF WaitScatter, TypeOK
  <2>5. Received(r, f)' = n + 1 /\ Received(r, "broadcast")' = Received(r, "broadcast")
    BY <1>1, <2>4 DEF Received
  <2>6. ASSUME NEW s \in Ranks, NEW g \in Phases, s # r \/ g # f
        PROVE  Received(s, g)' = Received(s, g)
    BY <1>1, <2>4, <2>5, <2>6, ReceivedOfOther DEF Phases
  <2> QED BY <2>2, <2>3, <2>5, <2>6
<1>2. CASE f = "broadcast"
  <2>1. PICK n : n = at[r]
    OBVIOUS
  <2>2. /\ n \in SendsOfCall /\ n < Sends(r) /\ Received(r, f) = n /\ call[r] > 0 /\ n \in Nat
        /\ WaitBroadcast(r)
    BY <1>2, <2>1, WaitBroadcastFacts, RankTypes DEF WaitBroadcast
  <2>3. /\ waited' = [waited EXCEPT ![r][InKey(f, n)] = call[r]]
        /\ flag[r][InKey(f, n)] >= call[r]
    BY <1>2, <2>1, <2>2, WaitFlagFacts DEF WaitBroadcast
  <2>4. /\ program' = program /\ at'[r] = n /\ pc[r] = "await" /\ pc'[r] = "place"
        /\ \A s \in Ranks \ {r} : at'[s] = at[s] /\ pc'[s] = pc[s]
    BY <2>1, <2>2 DEF WaitBroadcast, TypeOK
  <2>5. Received(r, f)' = n + 1 /\ Received(r, "scatter")' = Received(r, "scatter")
    BY <1>2, <2>4, LayoutFixed DEF Received
  <2>6. ASSUME NEW s \in Ranks, NEW g \in Phases, s # r \/ g # f
        PROVE  Received(s, g)' = Received(s, g)
    BY <1>2, <2>4, <2>5, <2>6, ReceivedOfOther DEF Phases
  <2> QED BY <2>2, <2>3, <2>5, <2>6
<1> QED BY <1>1, <1>2 DEF Phases

-----------------------------------------------------------------------------
(* The counters of the flags.                                              *)

LEMMA CountFacts ==
  ASSUME NEW q \in Nat, NEW d \in Nat, NEW n \in Nat
  PROVE  /\ Count(q, d, n) \in Nat /\ Count(q, d, n) <= q
         /\ q > 0 => q - 1 <= Count(q, d, n)
         /\ Count(q + 1, 0, n) = q
         /\ \A e \in Nat : d <= e => Count(q, d, n) <= Count(q, e, n)
         /\ d > n => Count(q, d, n) = q
         /\ q > 0 /\ Count(q, d, n) = q => d > n
  BY DEF Count

\* One more done counts for that item and for no other.
LEMMA CountNext ==
  ASSUME NEW q \in Nat, NEW n \in Nat, q > 0
  PROVE  Count(q, n + 1, n) = q /\ \A m \in Nat \ {n} : Count(q, n + 1, m) = Count(q, n, m)
  BY DEF Count

LEMMA CountersInit ==
  ASSUME Init, TypeOK, SameChunks
  PROVE  Counters
<1> SUFFICES ASSUME NEW r \in Ranks, NEW f \in Phases, NEW n \in SendsOfCall PROVE CounterOf(r, f, n)
  BY DEF Counters
<1>1. InKey(f, n) \in Flags /\ OutKey(f, n) \in Flags /\ Target(r, n) \in Ranks
  BY KeyFacts, OutKeyFacts, SendMeetsReceive
<1>2. call[r] = 0 /\ sent[r][OutKey(f, n)] = 0 /\ flag[Target(r, n)][OutKey(f, n)] = 0
      /\ waited[r][InKey(f, n)] = 0
  BY <1>1 DEF Init
<1> QED BY <1>2 DEF CounterOf, Count

\* The same counters, read after a step of the same program.
LEMMA CounterOfNext ==
  ASSUME program' = program, NEW r, NEW f, NEW n,
         sent'[r][OutKey(f, n)] = Count(call'[r], flagged'[r][f], n),
         flag'[Target(r, n)][OutKey(f, n)] = Count(call'[r], flagged'[r][f], n),
         waited'[r][InKey(f, n)] = Count(call'[r], Received(r, f)', n)
  PROVE  CounterOf(r, f, n)'
<1>1. OutKey(f, n)' = OutKey(f, n) /\ InKey(f, n)' = InKey(f, n) /\ Target(r, n)' = Target(r, n)
  BY SendsFixed
<1> QED BY <1>1 DEF CounterOf, Count

LEMMA CountersStep ==
  ASSUME TypeOK, SameChunks, Positions, Counters, [Next]_vars
  PROVE  Counters'
<1>1. program' = program /\ Ranks' = Ranks /\ SendsOfCall' = SendsOfCall
  BY ProgramFixed, LayoutFixed
<1> SUFFICES ASSUME NEW s \in Ranks, NEW g \in Phases, NEW m \in SendsOfCall
             PROVE  CounterOf(s, g, m)'
  BY <1>1 DEF Counters, Phases
<1>2. /\ InKey(g, m) \in Flags /\ OutKey(g, m) \in Flags /\ Target(s, m) \in Ranks
      /\ m \in Nat /\ m < K
  BY KeyFacts, OutKeyFacts, SendMeetsReceive, SendRange
<1>3. /\ call[s] \in Nat /\ flagged[s][g] \in Nat
      /\ sent[s][OutKey(g, m)] = Count(call[s], flagged[s][g], m)
      /\ flag[Target(s, m)][OutKey(g, m)] = Count(call[s], flagged[s][g], m)
      /\ waited[s][InKey(g, m)] = Count(call[s], Received(s, g), m)
  BY RankTypes DEF Counters, CounterOf
<1>4. ASSUME NEW r \in Ranks, Enter(r) PROVE CounterOf(s, g, m)'
  <2>1. sent' = sent /\ flag' = flag /\ waited' = waited
    BY <1>4 DEF Enter, flags
  <2>2. CASE s # r
    <3>1. call'[s] = call[s] /\ flagged'[s][g] = flagged[s][g] /\ Received(s, g)' = Received(s, g)
      BY <1>4, <2>2, ReceivedEnter DEF Enter, TypeOK
    <3> QED BY <1>1, <1>3, <2>1, <3>1, CounterOfNext
  <2>3. CASE s = r
    <3>1. call'[r] = call[r] + 1 /\ flagged'[r][g] = 0 /\ Received(r, g)' = 0 /\ call[r] \in Nat
      BY <1>4, EnterFacts, ReceivedEnter DEF Enter, TypeOK
    <3>2. Count(call[r] + 1, 0, m) = call[r]
      BY <1>2, <3>1, CountFacts
    <3>3. CASE call[r] = 0
      <4>1. Count(call[r], flagged[r][g], m) = 0 /\ Count(call[r], Received(r, g), m) = 0
        BY <3>3 DEF Count
      <4> QED BY <1>1, <1>3, <2>1, <2>3, <3>1, <3>2, <3>3, <4>1, CounterOfNext
    <3>4. CASE call[r] > 0
      <4>1. flagged[r][g] = K /\ Received(r, g) = K /\ K \in Nat
        BY <1>4, <3>4, ReceivedEnter, InCall DEF Enter, Positions, PositionOf
      <4>2. Count(call[r], K, m) = call[r]
        BY <1>2, <3>1, <4>1, CountFacts
      <4> QED BY <1>1, <1>3, <2>1, <2>3, <3>1, <3>2, <4>1, <4>2, CounterOfNext
    <3> QED BY <3>1, <3>3, <3>4
  <2> QED BY <2>2, <2>3
<1>5. ASSUME NEW r \in Ranks, Local(r) PROVE CounterOf(s, g, m)'
  <2>1. call' = call /\ flagged' = flagged /\ sent' = sent /\ flag' = flag /\ waited' = waited
    BY <1>5 DEF Local, Quant, Accumulate, Place, Join, CopyStep, flags
  <2>2. Received(s, g)' = Received(s, g)
    BY <1>5, ReceivedLocal
  <2> QED BY <1>1, <1>3, <2>1, <2>2, CounterOfNext
<1>6. ASSUME NEW r \in Ranks, NEW f \in Phases, IF f = "scatter" THEN WaitScatter(r) ELSE WaitBroadcast(r)
      PROVE  CounterOf(s, g, m)'
  <2>1. call' = call /\ flagged' = flagged /\ sent' = sent /\ flag' = flag
    BY <1>6 DEF WaitScatter, WaitBroadcast, WaitFlag
  <2>2. PICK n \in SendsOfCall :
           /\ n \in Nat /\ call[r] > 0 /\ Received(r, f) = n /\ Received(r, f)' = n + 1
           /\ waited' = [waited EXCEPT ![r][InKey(f, n)] = call[r]]
           /\ flag[r][InKey(f, n)] >= call[r]
           /\ \A p \in Ranks, h \in Phases :
                p # r \/ h # f => Received(p, h)' = Received(p, h)
    BY <1>6, ReceivedWait
  <2>4. /\ Count(call[r], n + 1, n) = call[r]
        /\ \A k \in Nat \ {n} : Count(call[r], n + 1, k) = Count(call[r], n, k)
    <3>1. n \in Nat /\ call[r] \in Nat /\ call[r] > 0
      BY <2>2, RankTypes
    <3> QED BY <3>1, CountNext
  <2>3. waited'[s][InKey(g, m)] = Count(call[s], Received(s, g)', m)
    <3>1. CASE s = r /\ g = f /\ m = n
      <4>1. waited'[s][InKey(g, m)] = call[r]
        BY <1>2, <2>2, <3>1 DEF TypeOK
      <4>2. Received(r, f)' = n + 1
        BY <2>2
      <4> QED BY <2>4, <3>1, <4>1, <4>2
    <3>2. CASE s = r /\ g = f /\ m # n
      <4>1. InKey(g, m) # InKey(f, n)
        BY <2>2, <3>2, KeyFacts
      <4>2. waited'[s][InKey(g, m)] = waited[s][InKey(g, m)]
        BY <1>2, <2>2, <4>1 DEF TypeOK
      <4>3. Received(r, f) = n /\ Received(r, f)' = n + 1 /\ m \in Nat \ {n}
        BY <1>2, <2>2, <3>2
      <4> QED BY <1>3, <2>4, <3>2, <4>2, <4>3
    <3>3. CASE s # r \/ g # f
      <4>1. s # r \/ InKey(g, m) # InKey(f, n)
        BY <2>2, <3>3, KeyFacts
      <4>2. waited'[s][InKey(g, m)] = waited[s][InKey(g, m)]
        BY <1>2, <2>2, <4>1 DEF TypeOK
      <4> QED BY <1>3, <2>2, <3>3, <4>2
    <3> QED BY <3>1, <3>2, <3>3
  <2> QED BY <1>1, <1>3, <2>1, <2>3, CounterOfNext
<1>7. ASSUME NEW r \in Ranks, NEW f \in Phases, FlagStep(r, f) PROVE CounterOf(s, g, m)'
  <2>1. call' = call /\ waited' = waited /\ Received(s, g)' = Received(s, g)
    BY <1>1, <1>7, ReceivedOfOther DEF FlagStep, SetFlag
  <2>2. PICK n \in SendsOfCall :
          /\ n = flagged[r][f] /\ n \in Nat /\ call[r] > 0
          /\ n < copied[r][f] /\ n + 1 <= Sends(r)
          /\ sent' = [sent EXCEPT ![r][OutKey(f, n)] = call[r]]
          /\ flag' = [flag EXCEPT ![Target(r, n)][OutKey(f, n)] = call[r]]
          /\ flagged' = [flagged EXCEPT ![r][f] = n + 1]
    BY <1>7, FlagStepFacts
  <2>6. /\ Count(call[r], n + 1, n) = call[r]
        /\ \A k \in Nat \ {n} : Count(call[r], n + 1, k) = Count(call[r], n, k)
    <3>1. n \in Nat /\ call[r] \in Nat /\ call[r] > 0
      BY <2>2, RankTypes
    <3> QED BY <3>1, CountNext
  <2>3. CASE s = r /\ g = f /\ m = n
    <3>1. flagged'[s][g] = n + 1 /\ sent'[s][OutKey(g, m)] = call[r]
          /\ flag'[Target(s, m)][OutKey(g, m)] = call[r]
      BY <1>2, <2>2, <2>3 DEF TypeOK
    <3>2. Count(call[s], n + 1, m) = call[r]
      BY <2>3, <2>6
    <3> QED BY <1>1, <1>3, <2>1, <3>1, <3>2, CounterOfNext
  <2>4. CASE s = r /\ g = f /\ m # n
    <3>1. OutKey(g, m) # OutKey(f, n)
      BY <2>2, <2>4, OutKeyFacts
    <3>2. flagged'[s][g] = n + 1 /\ sent'[s][OutKey(g, m)] = sent[s][OutKey(g, m)]
          /\ flag'[Target(s, m)][OutKey(g, m)] = flag[Target(s, m)][OutKey(g, m)]
      BY <1>2, <2>2, <2>4, <3>1 DEF TypeOK
    <3>3. Count(call[s], n + 1, m) = Count(call[s], flagged[s][g], m)
      <4>1. n = flagged[s][g] /\ m \in Nat \ {n}
        BY <1>2, <2>2, <2>4
      <4> QED BY <2>4, <2>6, <4>1
    <3> QED BY <1>1, <1>3, <2>1, <3>2, <3>3, CounterOfNext
  <2>5. CASE s # r \/ g # f
    <3>1. s # r \/ OutKey(g, m) # OutKey(f, n)
      BY <2>2, <2>5, OutKeyFacts
    <3>2. Target(s, m) # Target(r, n) \/ OutKey(g, m) # OutKey(f, n)
      <4> SUFFICES ASSUME OutKey(g, m) = OutKey(f, n), Target(s, m) = Target(r, n) PROVE FALSE
        OBVIOUS
      <4>1. g = f /\ m = n /\ s # r
        BY <2>2, <2>5, OutKeyFacts
      <4> QED BY <4>1, <2>2, SendMeetsReceive
    <3>3. flagged'[s][g] = flagged[s][g] /\ sent'[s][OutKey(g, m)] = sent[s][OutKey(g, m)]
      BY <1>2, <2>2, <2>5, <3>1 DEF TypeOK
    <3>4. flag'[Target(s, m)][OutKey(g, m)] = flag[Target(s, m)][OutKey(g, m)]
      BY <1>2, <2>2, <3>2 DEF TypeOK
    <3> QED BY <1>1, <1>3, <2>1, <3>3, <3>4, CounterOfNext
  <2> QED BY <2>3, <2>4, <2>5
<1>8. CASE UNCHANGED vars
  <2>1. /\ call' = call /\ flagged' = flagged /\ sent' = sent /\ flag' = flag /\ waited' = waited
        /\ Received(s, g)' = Received(s, g)
    BY <1>1, <1>8, ReceivedOfOther DEF vars, streams, flags
  <2> QED BY <1>1, <1>3, <2>1, CounterOfNext
<1>9. ASSUME NEW r \in Ranks, WaitScatter(r) \/ WaitBroadcast(r) PROVE CounterOf(s, g, m)'
  BY <1>6, <1>9 DEF Phases
<1> QED BY <1>4, <1>5, <1>7, <1>8, <1>9 DEF Next, MainStep, Drained, Local

-----------------------------------------------------------------------------
(* What has arrived has been sent.                                         *)

LEMMA ArrivedOfNext ==
  ASSUME program' = program, NEW r, NEW f, NEW n,
         n < Received(r, f)' => Count(call'[Target(r, n)], flagged'[Target(r, n)][f], Mirror(n)) >= call'[r]
  PROVE  ArrivedOf(r, f, n)'
<1>1. Target(r, n)' = Target(r, n) /\ Mirror(n)' = Mirror(n)
  BY SendsFixed
<1> QED BY <1>1 DEF ArrivedOf, Count

LEMMA ArrivedInit ==
  ASSUME Init, TypeOK, SameChunks
  PROVE  Arrived
<1> SUFFICES ASSUME NEW r \in Ranks, NEW f \in Phases, NEW n \in SendsOfCall PROVE ArrivedOf(r, f, n)
  BY DEF Arrived
<1>1. Target(r, n) \in Ranks
  BY SendMeetsReceive
<1> QED BY <1>1 DEF Init, ArrivedOf, Count

LEMMA ArrivedStep ==
  ASSUME TypeOK, SameChunks, Positions, Counters, Arrived, [Next]_vars, TypeOK', Counters'
  PROVE  Arrived'
<1>1. program' = program /\ Ranks' = Ranks /\ SendsOfCall' = SendsOfCall
  BY ProgramFixed, LayoutFixed
<1> SUFFICES ASSUME NEW s \in Ranks, NEW g \in Phases, NEW m \in SendsOfCall
             PROVE  ArrivedOf(s, g, m)'
  BY <1>1 DEF Arrived, Phases
<1>0. PICK t, k : t = Target(s, m) /\ k = Mirror(m)
  OBVIOUS
<1>2. /\ t \in Ranks /\ t # s /\ k \in SendsOfCall /\ k \in Nat
      /\ Mirror(k) = m /\ Target(t, k) = s /\ m \in Nat
  BY <1>0, SendMeetsReceive, MirrorFacts
<1>3. m < Received(s, g) => Count(call[t], flagged[t][g], k) >= call[s]
  BY <1>0 DEF Arrived, ArrivedOf
<1>4. /\ sent[t][OutKey(g, k)] = Count(call[t], flagged[t][g], k)
      /\ flag[s][OutKey(g, k)] = Count(call[t], flagged[t][g], k)
  BY <1>2 DEF Counters, CounterOf
<1>5. sent'[t][OutKey(g, k)] = Count(call'[t], flagged'[t][g], k)
  <2>1. CounterOf(t, g, k)'
    BY <1>1, <1>2 DEF Counters, Phases
  <2>2. OutKey(g, k)' = OutKey(g, k)
    BY <1>1, SendsFixed
  <2> QED BY <2>1, <2>2 DEF CounterOf, Count
<1>6. OutKey(g, k) = InKey(g, m)
  BY <1>2 DEF OutKey
<1>7. SUFFICES ASSUME m < Received(s, g)'
               PROVE  Count(call'[t], flagged'[t][g], k) >= call'[s]
  BY <1>0, <1>1, ArrivedOfNext
<1>8. ASSUME NEW r \in Ranks, Enter(r)
      PROVE  Count(call'[t], flagged'[t][g], k) >= call'[s]
  <2>1. s # r
    BY <1>2, <1>7, <1>8, ReceivedEnter
  <2>2. Received(s, g)' = Received(s, g)
    BY <1>8, <2>1, ReceivedEnter
  <2>3. call'[s] = call[s] /\ sent' = sent
    <3>1. call' = [call EXCEPT ![r] = call[r] + 1] /\ sent' = sent
      BY <1>8 DEF Enter, flags
    <3> QED BY <2>1, <3>1 DEF TypeOK
  <2> QED BY <1>3, <1>4, <1>5, <1>7, <2>2, <2>3
<1>9. ASSUME NEW r \in Ranks, Local(r)
      PROVE  Count(call'[t], flagged'[t][g], k) >= call'[s]
  <2>1. call' = call /\ flagged' = flagged
    BY <1>9 DEF Local, Quant, Accumulate, Place, Join, CopyStep
  <2> QED BY <1>3, <1>7, <1>9, <2>1, ReceivedLocal
<1>10. ASSUME NEW r \in Ranks, NEW f \in Phases, IF f = "scatter" THEN WaitScatter(r) ELSE WaitBroadcast(r)
       PROVE  Count(call'[t], flagged'[t][g], k) >= call'[s]
  <2>1. call' = call /\ flagged' = flagged
    BY <1>10 DEF WaitScatter, WaitBroadcast
  <2>2. PICK n \in SendsOfCall :
           /\ n \in Nat /\ call[r] > 0 /\ Received(r, f) = n /\ Received(r, f)' = n + 1
           /\ waited' = [waited EXCEPT ![r][InKey(f, n)] = call[r]]
           /\ flag[r][InKey(f, n)] >= call[r]
           /\ \A p \in Ranks, h \in Phases :
                p # r \/ h # f => Received(p, h)' = Received(p, h)
    BY <1>10, ReceivedWait
  <2>3. CASE s = r /\ g = f /\ m = n
    BY <1>4, <1>6, <2>1, <2>2, <2>3
  <2>4. CASE s = r /\ g = f /\ m # n
    <3>1. m < Received(s, g)
      BY <1>2, <1>7, <2>2, <2>4
    <3> QED BY <1>3, <2>1, <3>1
  <2>5. CASE s # r \/ g # f
    BY <1>3, <1>7, <2>1, <2>2, <2>5
  <2> QED BY <2>3, <2>4, <2>5
<1>11. ASSUME NEW r \in Ranks, NEW f \in Phases, FlagStep(r, f)
       PROVE  Count(call'[t], flagged'[t][g], k) >= call'[s]
  <2>1. call' = call /\ Received(s, g)' = Received(s, g)
    BY <1>1, <1>11, ReceivedOfOther DEF FlagStep
  <2>2. /\ flagged[t][g] \in Nat /\ flagged'[t][g] \in Nat /\ flagged[t][g] <= flagged'[t][g]
        /\ call[t] \in Nat /\ call[s] \in Nat
    <3>1. flagged[r][f] \in Nat /\ flagged' = [flagged EXCEPT ![r][f] = flagged[r][f] + 1]
      BY <1>11, RankTypes DEF FlagStep
    <3>2. flagged[t][g] \in Nat /\ call[t] \in Nat /\ call[s] \in Nat
      BY <1>2, RankTypes
    <3>3. flagged[r] \in [Phases -> Nat] /\ flagged \in [Ranks -> [Phases -> Nat]]
      BY DEF TypeOK
    <3>4. flagged'[t][g] = (IF t = r /\ g = f THEN flagged[r][f] + 1 ELSE flagged[t][g])
      BY <1>2, <3>1, <3>3
    <3> QED BY <3>1, <3>2, <3>4
  <2>3. /\ Count(call[t], flagged[t][g], k) <= Count(call[t], flagged'[t][g], k)
        /\ Count(call[t], flagged[t][g], k) \in Nat
        /\ Count(call[t], flagged'[t][g], k) \in Nat
    BY <1>2, <2>2, CountFacts
  <2> QED BY <1>3, <1>7, <2>1, <2>2, <2>3
<1>12. CASE UNCHANGED vars
  <2>1. call' = call /\ flagged' = flagged /\ Received(s, g)' = Received(s, g)
    BY <1>1, <1>12, ReceivedOfOther DEF vars, streams
  <2> QED BY <1>3, <1>7, <2>1
<1>13. ASSUME NEW r \in Ranks, WaitScatter(r) \/ WaitBroadcast(r)
       PROVE  Count(call'[t], flagged'[t][g], k) >= call'[s]
  BY <1>10, <1>13 DEF Phases
<1> QED BY <1>8, <1>9, <1>11, <1>12, <1>13 DEF Next, MainStep, Drained, Local

-----------------------------------------------------------------------------
(* No rank runs away.                                                      *)

\* What main has received of a call, the sender has sent in that call or later.
LEMMA ArrivedBy ==
  ASSUME TypeOK, SameChunks, Arrived, NEW r \in Ranks, NEW s \in Ranks,
         NEW f \in Phases, NEW n \in SendsOfCall, Target(r, n) = s, n < Received(r, f)
  PROVE  /\ call[s] >= call[r]
         /\ call[s] = call[r] /\ call[r] > 0 => flagged[s][f] > Mirror(n)
<1>1. Count(call[s], flagged[s][f], Mirror(n)) >= call[r]
  BY DEF Arrived, ArrivedOf
<1>2. call[s] \in Nat /\ call[r] \in Nat /\ flagged[s][f] \in Nat /\ Mirror(n) \in Nat
  BY RankTypes, MirrorFacts, SendRange
<1>3. /\ Count(call[s], flagged[s][f], Mirror(n)) \in Nat
      /\ Count(call[s], flagged[s][f], Mirror(n)) <= call[s]
  BY <1>2, CountFacts
<1>4. call[s] >= call[r]
  BY <1>1, <1>2, <1>3
<1>5. ASSUME call[s] = call[r], call[r] > 0 PROVE flagged[s][f] > Mirror(n)
  <2>1. Count(call[s], flagged[s][f], Mirror(n)) = call[s]
    BY <1>1, <1>2, <1>3, <1>5
  <2> QED BY <1>2, <1>5, <2>1, CountFacts
<1> QED BY <1>4, <1>5

\* Every place has its receive of every chunk.
LEMMA ReceiveAt ==
  ASSUME TypeOK, SameChunks, NEW i \in Places, NEW c \in Nat, c < C
  PROVE  \E n \in SendsOfCall : PlaceOf(n) = i /\ ChunkOf(n) = c /\ n < (c + 1) * (W-1)
<1> DEFINE n == c * (W-1) + i
<1>1. c * (W-1) \in Nat /\ i \in Nat
  BY SendsOfChunks, PlaceFacts
<1>2. n \in Nat
  <2> DEFINE p == c * (W-1)
  <2>1. p \in Nat
    BY <1>1
  <2> HIDE DEF p
  <2>2. p + i \in Nat
    BY <1>1, <2>1
  <2> QED BY <2>2 DEF p
<1>3. n = c * (W-1) + i
  OBVIOUS
<1> HIDE DEF n
<1>4. ChunkOf(n) = c /\ PlaceOf(n) = i
  BY <1>2, <1>3, SendUnique
<1>5. n < C * (W-1) /\ C \in Nat
  BY <1>2, <1>4, SendInChunk, ChunkCount
<1>6. n \in SendsOfCall
  BY <1>2, <1>5, ChunkCount DEF SendsOfCall, K
<1>7. n < (c + 1) * (W-1)
  BY <1>2, <1>4, SendInChunk
<1> QED BY <1>4, <1>6, <1>7

\* For every chunk there is the receive of it from each other rank.
LEMMA ReceiveOf ==
  ASSUME TypeOK, SameChunks, NEW r \in Ranks, NEW s \in Ranks, s # r, NEW c \in Nat, c < C
  PROVE  \E n \in SendsOfCall : Target(r, n) = s /\ ChunkOf(n) = c /\ n < (c + 1) * (W-1)
<1>1. PICK i \in Places : Peer(r, i) = s
  BY PeerOfRank
<1>2. PICK n \in SendsOfCall : PlaceOf(n) = i /\ ChunkOf(n) = c /\ n < (c + 1) * (W-1)
  BY ReceiveAt
<1> QED BY <1>1, <1>2 DEF Target

\* Chunks that are summed have been received from all.
LEMMA ReceivedSummed ==
  ASSUME TypeOK, SameChunks, Positions, NEW r \in Ranks, NEW n \in SendsOfCall,
         n < summed[r] * (W-1)
  PROVE  n < Received(r, "scatter")
<1>1. /\ PositionOf(r) /\ summed[r] \in Nat /\ at[r] \in Nat /\ n \in Nat /\ n < K /\ K \in Nat
      /\ pc[r] \in {"idle", "quant", "wait", "accum", "await", "place", "join"}
  BY RankTypes, SendRange, ChunkCount DEF Positions
<1>2. summed[r] * (W-1) \in Nat /\ (summed[r] + 1) * (W-1) = summed[r] * (W-1) + (W-1)
      /\ 0 * (W-1) = 0 /\ W-1 \in Nat
  BY <1>1, SendsOfChunks, GroupFacts
<1>3. CASE pc[r] = "quant"
  <2>1. summed[r] = 0
    BY <1>1, <1>3 DEF PositionOf
  <2>2. summed[r] * (W-1) = 0
    BY <1>2, <2>1
  <2> QED BY <1>1, <2>2
<1>4. CASE pc[r] \in {"wait", "accum"}
  <2> DEFINE p == summed[r] * (W-1)
             q == (summed[r] + 1) * (W-1)
  <2>1. p \in Nat /\ q = p + (W-1) /\ W-1 \in Nat /\ n < p
    BY <1>2
  <2>2. p <= at[r] \/ at[r] = q
    BY <1>1, <1>4 DEF PositionOf
  <2>3. n < at[r]
    <3> HIDE DEF p, q
    <3> QED BY <1>1, <2>1, <2>2
  <2> QED BY <1>4, <2>3 DEF Received
<1>5. CASE pc[r] \notin {"quant", "wait", "accum"}
  BY <1>1, <1>5 DEF Received
<1> QED BY <1>1, <1>3, <1>4, <1>5

\* A rank sums nothing of a call before all others are in it.
LEMMA SumNeedsAll ==
  ASSUME TypeOK, SameChunks, Positions, Arrived, NEW r \in Ranks, NEW s \in Ranks, summed[r] > 0
  PROVE  call[s] >= call[r]
<1>1. CASE s = r
  BY <1>1, RankTypes
<1>2. CASE s # r
  <2>1. /\ summed[r] \in Nat /\ summed[r] <= Chunks(r) /\ call[r] \in Nat /\ C \in Nat
        /\ (call[r] = 0 => Chunks(r) = 0) /\ (call[r] # 0 => Chunks(r) = C)
    BY RankTypes, ChunkCount
  <2>2. PICK c \in Nat : c = 0 /\ c < C
    BY <2>1
  <2>3. PICK n \in SendsOfCall : Target(r, n) = s /\ n < (c + 1) * (W-1)
    BY <1>2, <2>2, ReceiveOf
  <2>4. (c + 1) * (W-1) <= summed[r] * (W-1)
    <3>1. c + 1 \in Nat /\ c + 1 <= summed[r]
      BY <2>1, <2>2
    <3> QED BY <2>1, <3>1, GroupFacts, ProductMonotone
  <2>5. n < summed[r] * (W-1)
    <3>1. n \in Nat /\ (c + 1) * (W-1) \in Nat /\ summed[r] * (W-1) \in Nat
      BY <2>1, <2>2, GroupFacts, ProductMonotone, SendRange
    <3> DEFINE x == (c + 1) * (W-1)
               y == summed[r] * (W-1)
    <3>2. n \in Nat /\ x \in Nat /\ y \in Nat /\ n < x /\ x <= y
      BY <2>3, <2>4, <3>1
    <3>3. n < y
      <4> HIDE DEF x, y
      <4> QED BY <3>2
    <3> QED BY <3>3
  <2>6. n < Received(r, "scatter")
    BY <2>5, ReceivedSummed
  <2> QED BY <2>3, <2>6, ArrivedBy DEF Phases
<1> QED BY <1>1, <1>2

\* A rank that has done its call has received the last broadcast of the others,
\* and so they have summed all their chunks.
LEMMA DoneNeedsSums ==
  ASSUME TypeOK, SameChunks, Positions, Arrived, NEW r \in Ranks, NEW s \in Ranks,
         pc[r] = "idle"
  PROVE  call[s] >= call[r] /\ (call[s] = call[r] => summed[s] = Chunks(s))
<1>1. /\ call[r] \in Nat /\ call[s] \in Nat /\ summed[s] \in Nat /\ summed[s] <= Chunks(s)
      /\ PositionOf(r) /\ PositionOf(s)
  BY RankTypes DEF Positions
<1>2. CASE s = r
  BY <1>1, <1>2 DEF PositionOf
<1>3. CASE call[r] = 0
  <2>1. call[s] = call[r] => Chunks(s) = 0
    BY <1>3, ChunkCount
  <2> QED BY <1>1, <1>3, <2>1
<1>4. CASE s # r /\ call[r] # 0
  <2>1. C \in Nat /\ C > 0 /\ K \in Nat /\ Sends(r) = K /\ call[r] > 0
    BY <1>1, <1>4, InCall
  <2>2. C - 1 \in Nat /\ C - 1 < C
    BY <2>1
  <2>3. PICK n \in SendsOfCall : Target(r, n) = s /\ ChunkOf(n) = C - 1
    BY <1>4, <2>2, ReceiveOf
  <2>4. Received(r, "broadcast") = K
    BY <1>1, <2>1 DEF Received, PositionOf
  <2>5. n < Received(r, "broadcast")
    BY <2>4, SendRange
  <2>6. /\ call[s] >= call[r]
        /\ call[s] = call[r] => flagged[s]["broadcast"] > Mirror(n)
    BY <2>1, <2>3, <2>5, ArrivedBy DEF Phases
  <2>7. ASSUME call[s] = call[r] PROVE summed[s] = Chunks(s)
    <3>1. Mirror(n) \in Nat /\ ChunkOf(Mirror(n)) = C - 1
      BY <2>3, MirrorFacts, SendRange
    <3>2. Mirror(n) < summed[s] * (W-1)
      <4> DEFINE x == summed[s] * (W-1)
      <4>1. /\ flagged[s]["broadcast"] \in Nat /\ copied[s]["broadcast"] \in Nat
            /\ flagged[s]["broadcast"] <= copied[s]["broadcast"] /\ copied[s]["broadcast"] <= x
        BY <1>1, RankTypes DEF PositionOf, Phases
      <4>2. x \in Nat
        BY <1>1, SendsOfChunks
      <4> HIDE DEF x
      <4>3. Mirror(n) < x
        BY <2>6, <2>7, <3>1, <4>1, <4>2
      <4> QED BY <4>3 DEF x
    <3>3. C - 1 < summed[s]
      BY <1>1, <3>1, <3>2, SendInChunk
    <3>4. Chunks(s) = C
      BY <2>1, <2>7, InCall
    <3> QED BY <1>1, <2>1, <3>3, <3>4
  <2> QED BY <2>6, <2>7
<1> QED BY <1>2, <1>3, <1>4

LEMMA SkewInit == Init => Skew
  BY DEF Init, Skew

LEMMA SkewStep ==
  ASSUME TypeOK, SameChunks, Positions, Arrived, Skew, [Next]_vars
  PROVE  Skew'
<1>1. program' = program /\ Ranks' = Ranks
  BY ProgramFixed, LayoutFixed
<1> SUFFICES ASSUME NEW p \in Ranks, NEW s \in Ranks, call'[p] > call'[s]
             PROVE  call'[p] = call'[s] + 1 /\ summed'[s] = Chunks(s)'
  BY <1>1 DEF Skew
<1>2. call[p] \in Nat /\ call[s] \in Nat /\ (call[p] > call[s] => call[p] = call[s] + 1 /\ summed[s] = Chunks(s))
  BY RankTypes DEF Skew
<1>3. call'[s] = call[s] => Chunks(s)' = Chunks(s)
  BY <1>1, LayoutFixed DEF Chunks
<1>4. ASSUME NEW r \in Ranks, Enter(r)
      PROVE  call'[p] = call'[s] + 1 /\ summed'[s] = Chunks(s)'
  <2>1. /\ pc[r] = "idle" /\ call' = [call EXCEPT ![r] = call[r] + 1] /\ call[r] \in Nat
        /\ summed' = [summed EXCEPT ![r] = 0]
    BY <1>4, RankTypes DEF Enter
  <2>2. /\ call'[p] = (IF p = r THEN call[r] + 1 ELSE call[p])
        /\ call'[s] = (IF s = r THEN call[r] + 1 ELSE call[s])
        /\ s # r => summed'[s] = summed[s]
    <3>1. call \in [Ranks -> 0..Len(Calls)] /\ summed \in [Ranks -> Nat]
      BY DEF TypeOK
    <3> QED BY <2>1, <3>1
  <2>3. CASE p = r
    <3>1. s # r
      BY <2>2, <2>3, <1>2
    <3>2. call[s] >= call[r] /\ (call[s] = call[r] => summed[s] = Chunks(s))
      BY <2>1, DoneNeedsSums
    <3> QED BY <1>2, <1>3, <2>1, <2>2, <2>3, <3>1, <3>2
  <2>4. CASE p # r /\ s = r
    BY <1>2, <2>1, <2>2, <2>4
  <2>5. CASE p # r /\ s # r
    BY <1>2, <1>3, <2>2, <2>5
  <2> QED BY <2>3, <2>4, <2>5
<1>5. ASSUME NEW r \in Ranks, Accumulate(r)
      PROVE  call'[p] = call'[s] + 1 /\ summed'[s] = Chunks(s)'
  <2>1. /\ call' = call /\ summed' = [summed EXCEPT ![r] = summed[r] + 1]
        /\ summed[r] < Chunks(r)
    BY <1>5 DEF Accumulate, Positions, PositionOf
  <2>2. s # r
    <3> SUFFICES ASSUME s = r PROVE FALSE
      OBVIOUS
    <3>1. summed[s] = Chunks(s) /\ summed[s] \in Nat
      BY <1>2, <2>1, RankTypes
    <3> QED BY <2>1, <3>1
  <2>3. summed'[s] = summed[s]
    BY <2>1, <2>2 DEF TypeOK
  <2> QED BY <1>2, <1>3, <2>1, <2>3
<1>6. ASSUME call' = call, summed' = summed
      PROVE  call'[p] = call'[s] + 1 /\ summed'[s] = Chunks(s)'
  BY <1>2, <1>3, <1>6
<1>7. ASSUME NEW r \in Ranks, Quant(r) \/ WaitScatter(r) \/ WaitBroadcast(r) \/ Place(r) \/ Join(r)
                              \/ \E f \in Phases : CopyStep(r, f) \/ FlagStep(r, f)
      PROVE  call' = call /\ summed' = summed
  BY <1>7 DEF Quant, WaitScatter, WaitBroadcast, Place, Join, CopyStep, FlagStep
<1>8. UNCHANGED vars => call' = call /\ summed' = summed
  BY DEF vars, streams
<1> QED BY <1>4, <1>5, <1>6, <1>7, <1>8 DEF Next, MainStep, Drained

-----------------------------------------------------------------------------
(* The data.                                                               *)

\* The send that a receive is of.
LEMMA SendOfReceive ==
  ASSUME TypeOK, SameChunks, NEW r \in Ranks, NEW s \in Ranks, NEW n \in SendsOfCall, Target(r, n) = s
  PROVE  \E k \in SendsOfCall :
           /\ k = Mirror(n) /\ k \in Nat /\ Mirror(k) = n /\ Target(s, k) = r
           /\ \A f \in Phases : TargetSlot(s, f, k) = SlotAt(f, n)
<1>1. PICK k : k = Mirror(n)
  OBVIOUS
<1>2. k \in SendsOfCall /\ Mirror(k) = n
  BY <1>1, MirrorFacts
<1>3. k \in Nat
  BY <1>2, SendRange
<1>4. Target(s, k) = r
  BY <1>1, SendMeetsReceive
<1>5. \A f \in Phases : TargetSlot(s, f, k) = SlotAt(f, n)
  BY <1>2, SendMeetsReceive
<1> QED BY <1>1, <1>2, <1>3, <1>4, <1>5

LEMMA CountDone ==
  ASSUME NEW q \in Nat, NEW d \in Nat, NEW n \in Nat, d > n
  PROVE  Count(q, d, n) = q
  BY DEF Count

LEMMA CountOpen ==
  ASSUME NEW q \in Nat, NEW d \in Nat, NEW n \in Nat, d <= n, q > 0
  PROVE  Count(q, d, n) = q - 1
  BY DEF Count

\* What a rank has received from one that is in the same call has been copied.
LEMMA CopiedBy ==
  ASSUME TypeOK, SameChunks, Positions, Arrived, ScratchExact, NEW r \in Ranks, NEW s \in Ranks,
         NEW f \in Phases, NEW n \in SendsOfCall, Target(r, n) = s, n < Received(r, f),
         call[s] = call[r], call[r] > 0
  PROVE  scratch[r][SlotAt(f, n)] = Sending(s, f, call[r])
<1>1. PICK k \in SendsOfCall :
           /\ k = Mirror(n) /\ k \in Nat /\ Mirror(k) = n /\ Target(s, k) = r
           /\ \A g \in Phases : TargetSlot(s, g, k) = SlotAt(g, n)
  BY SendOfReceive
<1>2. flagged[s][f] > k
  BY <1>1, ArrivedBy
<1>3. /\ copied[s][f] \in Nat /\ flagged[s][f] \in Nat /\ flagged[s][f] <= copied[s][f]
      /\ call[s] \in Nat
  BY RankTypes DEF Positions, PositionOf
<1>4. copied[s][f] > k
  BY <1>1, <1>2, <1>3
<1>5. Count(call[s], copied[s][f], k) = call[r]
  BY <1>1, <1>3, <1>4, CountDone
<1> QED BY <1>1, <1>5 DEF ScratchExact, ScratchOf

\* A rank that accumulates reads the inputs of its own call.
LEMMA ScatterRead ==
  ASSUME TypeOK, SameChunks, Positions, Arrived, Skew, ScratchExact, NEW r \in Ranks,
         pc[r] = "accum", NEW i \in Places
  PROVE  scratch[r][<<"scatter", i, summed[r]>>] = {<<Peer(r, i), call[r]>>}
<1>1. PICK c : c = summed[r]
  OBVIOUS
<1>2. /\ c \in Nat /\ c < Chunks(r) /\ at[r] = (c + 1) * (W-1) /\ call[r] > 0
      /\ call[r] \in Nat /\ Chunks(r) = C
  BY <1>1, RankTypes, InCall DEF Positions, PositionOf
<1>3. PICK n \in SendsOfCall : PlaceOf(n) = i /\ ChunkOf(n) = c /\ n < (c + 1) * (W-1)
  BY <1>2, ReceiveAt
<1>4. PICK s \in Ranks : s = Peer(r, i) /\ s = Target(r, n)
  BY <1>3, PeerFacts DEF Target
<1>5. n < Received(r, "scatter")
  BY <1>2, <1>3 DEF Received
<1>6. call[s] >= call[r]
  BY <1>4, <1>5, ArrivedBy DEF Phases
<1>7. ~(call[s] > call[r])
  BY <1>1, <1>2, RankTypes DEF Skew
<1>8. call[s] = call[r]
  BY <1>6, <1>7, RankTypes
<1>9. scratch[r][SlotAt("scatter", n)] = Sending(s, "scatter", call[r])
  BY <1>2, <1>4, <1>5, <1>8, CopiedBy DEF Phases
<1> QED BY <1>1, <1>3, <1>4, <1>9 DEF SlotAt, Sending

LEMMA AccumulatedSum ==
  ASSUME TypeOK, SameChunks, Positions, Arrived, Skew, ScratchExact, NEW r \in Ranks, pc[r] = "accum"
  PROVE  {<<r, call[r]>>} \cup UNION {scratch[r][<<"scatter", i, summed[r]>>] : i \in Places}
           = SumOfCall(call[r])
<1>1. \A i \in Places : scratch[r][<<"scatter", i, summed[r]>>] = {<<Peer(r, i), call[r]>>}
  BY ScatterRead
<1>2. \A i \in Places : Peer(r, i) \in Ranks
  BY PeerFacts
<1>3. \A s \in Ranks : s = r \/ \E i \in Places : Peer(r, i) = s
  BY PeerOfRank
<1> DEFINE read(i) == scratch[r][<<"scatter", i, summed[r]>>]
           all == UNION {read(i) : i \in Places}
<1>4. \A x : x \in all <=> \E i \in Places : x \in read(i)
  OBVIOUS
<1>5. \A i \in Places : read(i) = {<<Peer(r, i), call[r]>>}
  BY <1>1
<1> HIDE DEF read, all
<1>6. \A x : x \in {<<r, call[r]>>} \cup all <=> \E s \in Ranks : x = <<s, call[r]>>
  BY <1>2, <1>3, <1>4, <1>5
<1>7. {<<r, call[r]>>} \cup all = SumOfCall(call[r])
  BY <1>6 DEF SumOfCall
<1> QED BY <1>7 DEF read, all

\* A rank that places reads the sum of its own call.
LEMMA BroadcastRead ==
  ASSUME TypeOK, SameChunks, Positions, Arrived, Skew, ScratchExact, NEW r \in Ranks, pc[r] = "place"
  PROVE  scratch[r][SlotAt("broadcast", at[r])] = SumOfCall(call[r])
<1>1. PICK n : n = at[r]
  OBVIOUS
<1>2. n \in SendsOfCall /\ n \in Nat /\ call[r] > 0 /\ call[r] \in Nat /\ Received(r, "broadcast") = n + 1
  BY <1>1, WaitBroadcastFacts, RankTypes DEF Received
<1>3. PICK s \in Ranks : s = Target(r, n)
  BY <1>2, SendMeetsReceive
<1>4. call[s] >= call[r] /\ call[s] \in Nat
  BY <1>2, <1>3, ArrivedBy, RankTypes DEF Phases
<1>5. CASE call[s] = call[r]
  BY <1>1, <1>2, <1>3, <1>5, CopiedBy DEF Phases, Sending
<1>6. CASE call[s] # call[r]
  <2>1. call[s] = call[r] + 1
    BY <1>2, <1>4, <1>6 DEF Skew
  <2>2. summed[s] = 0
    BY <1>2, <2>1, SumNeedsAll, RankTypes
  <2>3. summed[s] * (W-1) = 0
    BY <2>2, SendsOfChunks
  <2>4. copied[s]["broadcast"] = 0
    BY <2>3, RankTypes DEF Positions, PositionOf, Phases
  <2>5. PICK k \in SendsOfCall :
             /\ k = Mirror(n) /\ k \in Nat /\ Mirror(k) = n /\ Target(s, k) = r
             /\ \A g \in Phases : TargetSlot(s, g, k) = SlotAt(g, n)
    BY <1>2, <1>3, SendOfReceive
  <2>6. Count(call[s], copied[s]["broadcast"], k) = call[r]
    <3>1. Count(call[s], 0, k) = call[s] - 1
      BY <1>2, <1>4, <2>1, <2>5, CountOpen
    <3> QED BY <1>2, <2>1, <2>4, <3>1
  <2> QED BY <1>1, <1>2, <2>5, <2>6 DEF ScratchExact, ScratchOf, Sending, Phases
<1> QED BY <1>5, <1>6

LEMMA StageOfNext ==
  ASSUME program' = program, NEW p,
         \A s \in Ranks \ {p}, c \in 0..quanted'[p]-1 : stage'[p][s][c] = {<<p, call'[p]>>},
         \A c \in 0..summed'[p]-1 : stage'[p][p][c] = SumOfCall(call'[p])
  PROVE  StageOf(p)'
<1>1. Ranks' = Ranks
  BY LayoutFixed
<1> QED BY <1>1 DEF StageOf, SumOfCall

LEMMA StageInit == Init => StageExact
  BY DEF Init, StageExact, StageOf

LEMMA StageStep ==
  ASSUME TypeOK, SameChunks, Positions, Arrived, Skew, ScratchExact, StageExact, [Next]_vars
  PROVE  StageExact'
<1>1. program' = program /\ Ranks' = Ranks
  BY ProgramFixed, LayoutFixed
<1> SUFFICES ASSUME NEW p \in Ranks PROVE StageOf(p)'
  BY <1>1 DEF StageExact
<1>2. /\ \A s \in Ranks \ {p}, c \in 0..quanted[p]-1 : stage[p][s][c] = {<<p, call[p]>>}
      /\ \A c \in 0..summed[p]-1 : stage[p][p][c] = SumOfCall(call[p])
      /\ quanted[p] \in Nat /\ summed[p] \in Nat
  BY RankTypes DEF StageExact, StageOf
<1>3. ASSUME call'[p] = call[p], quanted'[p] = quanted[p], summed'[p] = summed[p], stage'[p] = stage[p]
      PROVE  StageOf(p)'
  BY <1>1, <1>2, <1>3, StageOfNext
<1>4. ASSUME NEW r \in Ranks, Enter(r) PROVE StageOf(p)'
  <2>1. CASE p = r
    <3>1. quanted'[p] = 0 /\ summed'[p] = 0
      BY <1>4, <2>1 DEF Enter, TypeOK
    <3> QED BY <1>1, <3>1, StageOfNext
  <2>2. CASE p # r
    BY <1>3, <1>4, <2>2 DEF Enter, TypeOK
  <2> QED BY <2>1, <2>2
<1>5. ASSUME NEW r \in Ranks, Quant(r) PROVE StageOf(p)'
  <2>1. CASE p = r
    <3>1. /\ call'[p] = call[p] /\ quanted'[p] = quanted[p] + 1 /\ summed'[p] = 0 /\ summed[p] = 0
          /\ stage'[p] = [s \in Ranks |-> IF s = p THEN stage[p][s]
                             ELSE [stage[p][s] EXCEPT ![quanted[p]] = {<<p, call[p]>>}]]
      BY <1>5, <2>1 DEF Quant, TypeOK, Positions, PositionOf
    <3>2. \A s \in Ranks : stage[p][s] \in [Pieces -> Numbers]
      BY DEF TypeOK
    <3>3. quanted[p] \in Pieces
      <4>1. call[p] > 0 /\ quanted[p] < Chunks(p)
        BY <1>5, <2>1 DEF Quant, Positions, PositionOf
      <4> QED BY <1>2, <4>1, InCall, ChunkCount
    <3>4. ASSUME NEW s \in Ranks \ {p}, NEW c \in 0..quanted'[p]-1
          PROVE  stage'[p][s][c] = {<<p, call'[p]>>}
      <4>1. stage'[p][s] = [stage[p][s] EXCEPT ![quanted[p]] = {<<p, call[p]>>}]
        BY <3>1
      <4>2. CASE c = quanted[p]
        <5>1. stage[p][s] \in [Pieces -> Numbers]
          BY <3>2
        <5> QED BY <3>1, <3>3, <4>1, <4>2, <5>1
      <4>3. CASE c # quanted[p]
        <5>1. c \in 0..quanted[p]-1
          BY <1>2, <3>1, <4>3
        <5>2. stage[p][s][c] = {<<p, call[p]>>}
          BY <1>2, <5>1
        <5>3. c \in Pieces /\ stage[p][s] \in [Pieces -> Numbers]
          BY <1>2, <3>2, <3>3, <5>1, ChunkCount
        <5> QED BY <3>1, <4>1, <4>3, <5>2, <5>3
      <4> QED BY <4>2, <4>3
    <3>5. \A c \in 0..summed'[p]-1 : stage'[p][p][c] = SumOfCall(call'[p])
      BY <3>1
    <3> QED BY <1>1, <3>4, <3>5, StageOfNext
  <2>2. CASE p # r
    BY <1>3, <1>5, <2>2 DEF Quant, TypeOK
  <2> QED BY <2>1, <2>2
<1>6. ASSUME NEW r \in Ranks, Accumulate(r) PROVE StageOf(p)'
  <2>1. CASE p = r
    <3>1. /\ call' = call /\ quanted' = quanted /\ summed'[p] = summed[p] + 1
          /\ stage' = [stage EXCEPT ![p][p][summed[p]] = SumOfCall(call[p])]
      BY <1>6, <2>1, AccumulatedSum DEF Accumulate, TypeOK
    <3>2. summed[p] \in Pieces
      <4>1. call[p] > 0 /\ summed[p] < Chunks(p)
        BY <1>6, <2>1 DEF Accumulate, Positions, PositionOf
      <4> QED BY <1>2, <4>1, InCall, ChunkCount
    <3>3. /\ stage'[p][p] = [stage[p][p] EXCEPT ![summed[p]] = SumOfCall(call[p])]
          /\ \A s \in Ranks \ {p} : stage'[p][s] = stage[p][s]
          /\ stage[p][p] \in [Pieces -> Numbers]
      <4>1. stage \in [Ranks -> [Ranks -> [Pieces -> Numbers]]]
        BY DEF TypeOK
      <4>2. stage'[p] = [stage[p] EXCEPT ![p][summed[p]] = SumOfCall(call[p])]
        BY <3>1, <4>1
      <4>3. stage[p] \in [Ranks -> [Pieces -> Numbers]]
        BY <4>1
      <4> QED BY <4>2, <4>3
    <3>4. ASSUME NEW c \in 0..summed'[p]-1
          PROVE  stage'[p][p][c] = SumOfCall(call'[p])
      <4>1. CASE c = summed[p]
        BY <3>1, <3>2, <3>3, <4>1
      <4>2. CASE c # summed[p]
        <5>1. c \in 0..summed[p]-1
          BY <1>2, <3>1, <4>2
        <5>2. stage[p][p][c] = SumOfCall(call[p])
          BY <1>2, <5>1
        <5>3. c \in Pieces
          BY <1>2, <3>2, <5>1, ChunkCount
        <5> QED BY <3>1, <3>3, <4>2, <5>2, <5>3
      <4> QED BY <4>1, <4>2
    <3> QED BY <1>1, <1>2, <3>1, <3>3, <3>4, StageOfNext
  <2>2. CASE p # r
    BY <1>3, <1>6, <2>2 DEF Accumulate, TypeOK
  <2> QED BY <2>1, <2>2
<1>7. ASSUME NEW r \in Ranks, WaitScatter(r) \/ WaitBroadcast(r) \/ Place(r) \/ Join(r)
                              \/ \E f \in Phases : CopyStep(r, f) \/ FlagStep(r, f)
      PROVE  StageOf(p)'
  BY <1>3, <1>7 DEF WaitScatter, WaitBroadcast, Place, Join, CopyStep, FlagStep, memory
<1>8. CASE UNCHANGED vars
  BY <1>3, <1>8 DEF vars, streams, memory
<1> QED BY <1>4, <1>5, <1>6, <1>7, <1>8 DEF Next, MainStep, Drained

LEMMA ScratchOfNext ==
  ASSUME program' = program, NEW r, NEW f, NEW n,
         Count(call'[r], copied'[r][f], n) > 0 =>
           scratch'[Target(r, n)][TargetSlot(r, f, n)] = Sending(r, f, Count(call'[r], copied'[r][f], n))
  PROVE  ScratchOf(r, f, n)'
<1>1. Target(r, n)' = Target(r, n) /\ TargetSlot(r, f, n)' = TargetSlot(r, f, n) /\ Ranks' = Ranks
  BY SendsFixed, LayoutFixed
<1> QED BY <1>1 DEF ScratchOf, Sending, SumOfCall, Count

LEMMA ScratchInit == Init => ScratchExact
<1> SUFFICES ASSUME Init, NEW r \in Ranks, NEW f \in Phases, NEW n PROVE ScratchOf(r, f, n)
  BY DEF ScratchExact
<1> QED BY DEF Init, ScratchOf, Count

LEMMA ScratchStep ==
  ASSUME TypeOK, SameChunks, Positions, ScratchExact, StageExact, [Next]_vars
  PROVE  ScratchExact'
<1>1. program' = program /\ Ranks' = Ranks /\ SendsOfCall' = SendsOfCall
  BY ProgramFixed, LayoutFixed
<1> SUFFICES ASSUME NEW s \in Ranks, NEW g \in Phases, NEW m \in SendsOfCall
             PROVE  ScratchOf(s, g, m)'
  BY <1>1 DEF ScratchExact, Phases
<1>2. PICK t, k : t = Target(s, m) /\ k = TargetSlot(s, g, m)
  OBVIOUS
<1>3. /\ Count(call[s], copied[s][g], m) > 0 =>
           scratch[t][k] = Sending(s, g, Count(call[s], copied[s][g], m))
      /\ t \in Ranks /\ m \in Nat /\ call[s] \in Nat /\ m < K /\ K \in Nat
  BY <1>2, SendMeetsReceive, SendRange, RankTypes, ChunkCount DEF ScratchExact, ScratchOf
<1>4. k \in Slots
  BY <1>2, MirrorFacts, SendMeetsReceive, SlotAtFacts
<1>5. SUFFICES Count(call'[s], copied'[s][g], m) > 0 =>
                 scratch'[t][k] = Sending(s, g, Count(call'[s], copied'[s][g], m))
  BY <1>1, <1>2, ScratchOfNext
<1> DEFINE Goal == Count(call'[s], copied'[s][g], m) > 0 =>
                     scratch'[t][k] = Sending(s, g, Count(call'[s], copied'[s][g], m))
<1>6. ASSUME NEW r \in Ranks, Enter(r) PROVE Goal
  <2>1. /\ scratch' = scratch /\ call' = [call EXCEPT ![r] = call[r] + 1]
        /\ copied' = [copied EXCEPT ![r] = [f \in Phases |-> 0]] /\ pc[r] = "idle"
    BY <1>6 DEF Enter
  <2>2. CASE s = r
    <3>1. call'[s] = call[s] + 1 /\ copied'[s][g] = 0
      BY <2>1, <2>2 DEF TypeOK
    <3>2. Count(call[s] + 1, 0, m) = call[s]
      BY <1>3, CountFacts
    <3>3. call[s] > 0 => Count(call[s], copied[s][g], m) = call[s]
      <4> SUFFICES ASSUME call[s] > 0 PROVE Count(call[s], copied[s][g], m) = call[s]
        OBVIOUS
      <4>1. copied[s][g] = K
        BY <2>1, <2>2, InCall DEF Positions, PositionOf
      <4> QED BY <1>3, <4>1, CountDone
    <3> QED BY <1>3, <2>1, <3>1, <3>2, <3>3
  <2>3. CASE s # r
    <3>1. call'[s] = call[s] /\ copied'[s] = copied[s]
      BY <2>1, <2>3 DEF TypeOK
    <3> QED BY <1>3, <2>1, <3>1
  <2> QED BY <2>2, <2>3
<1>7. ASSUME NEW r \in Ranks, NEW f \in Phases, CopyStep(r, f) PROVE Goal
  <2>1. PICK n : n = copied[r][f]
    OBVIOUS
  <2>2. /\ n \in Nat /\ n < Sends(r) /\ ChunkOf(n) < ChunksReady(r, f)
        /\ copied' = [copied EXCEPT ![r][f] = n + 1] /\ call' = call
        /\ scratch' = [scratch EXCEPT ![Target(r, n)][TargetSlot(r, f, n)] =
                         stage[r][StageShard(r, f, n)][ChunkOf(n)]]
    BY <1>7, <2>1, RankTypes DEF CopyStep, CopyReady
  <2>3. n \in SendsOfCall /\ call[r] > 0 /\ call[r] \in Nat
    BY <2>2, SendInCall, RankTypes
  <2>4. stage[r][StageShard(r, f, n)][ChunkOf(n)] = Sending(r, f, call[r])
    <3>1. ChunkOf(n) \in 0..ChunksReady(r, f)-1
      BY <2>2, <2>3, SendRange, RankTypes DEF ChunksReady
    <3>2. Target(r, n) \in Ranks \ {r}
      BY <2>3, SendMeetsReceive
    <3>3. CASE f = "scatter"
      BY <3>1, <3>2, <3>3 DEF StageExact, StageOf, StageShard, ChunksReady, Sending
    <3>4. CASE f = "broadcast"
      BY <3>1, <3>4 DEF StageExact, StageOf, StageShard, ChunksReady, Sending
    <3> QED BY <3>3, <3>4 DEF Phases
  <2>5. PICK u, l : u = Target(r, n) /\ l = TargetSlot(r, f, n)
    OBVIOUS
  <2>6. /\ scratch' = [scratch EXCEPT ![u][l] = Sending(r, f, call[r])]
        /\ scratch \in [Ranks -> [Slots -> Numbers]]
    BY <2>2, <2>4, <2>5 DEF TypeOK
  <2>7. /\ copied'[s][g] = (IF s = r /\ g = f THEN n + 1 ELSE copied[s][g])
        /\ call'[s] = call[s]
    <3>1. copied \in [Ranks -> [Phases -> Nat]]
      BY DEF TypeOK
    <3> QED BY <2>2, <3>1
  <2>8. /\ Count(call[r], n + 1, n) = call[r]
        /\ \A j \in Nat \ {n} : Count(call[r], n + 1, j) = Count(call[r], n, j)
    BY <2>2, <2>3, CountNext
  <2>9. CASE s = r /\ g = f /\ m = n
    <3>1. scratch'[t][k] = Sending(r, f, call[r])
      BY <1>2, <1>3, <1>4, <2>5, <2>6, <2>9
    <3> QED BY <2>7, <2>8, <2>9, <3>1
  <2>10. CASE ~(s = r /\ g = f /\ m = n)
    <3>1. t # u \/ k # l
      BY <1>2, <2>3, <2>5, <2>10, SlotHasOneSender
    <3>2. scratch'[t][k] = scratch[t][k]
      BY <1>3, <1>4, <2>6, <3>1
    <3>3. Count(call'[s], copied'[s][g], m) = Count(call[s], copied[s][g], m)
      <4>1. CASE s = r /\ g = f
        BY <1>3, <2>1, <2>7, <2>8, <2>10, <4>1
      <4>2. CASE ~(s = r /\ g = f)
        BY <2>7, <4>2
      <4> QED BY <4>1, <4>2
    <3> QED BY <1>3, <3>2, <3>3
  <2> QED BY <2>9, <2>10
<1>8. ASSUME call' = call, copied' = copied, scratch' = scratch PROVE Goal
  BY <1>3, <1>8
<1>9. ASSUME NEW r \in Ranks, MainStep(r) \/ \E f \in Phases : FlagStep(r, f)
      PROVE  call' = call /\ copied' = copied /\ scratch' = scratch
  BY <1>9 DEF MainStep, Quant, Accumulate, WaitScatter, WaitBroadcast, Place, Join, FlagStep, memory
<1>10. UNCHANGED vars => call' = call /\ copied' = copied /\ scratch' = scratch
  BY DEF vars, streams, memory
<1> QED BY <1>6, <1>7, <1>8, <1>9, <1>10 DEF Next, Drained

-----------------------------------------------------------------------------
(* What a rank returns.                                                    *)

\* ReduceExact at one rank.
ReduceOf(r) ==
  /\ \A c \in 0..summed[r]-1 : out[r][r][c] = SumOfCall(call[r])
  /\ pc[r] \in {"await", "place", "join", "idle"} =>
       \A n \in 0..at[r]-1 : out[r][Target(r, n)][ChunkOf(n)] = SumOfCall(call[r])

LEMMA ReduceOfAll == ReduceExact <=> \A r \in Ranks : ReduceOf(r)
  BY DEF ReduceExact, ReduceOf, SumOf, SumOfCall, Target

LEMMA ReduceOfNext ==
  ASSUME program' = program, NEW r,
         \A c \in 0..summed'[r]-1 : out'[r][r][c] = SumOfCall(call'[r]),
         pc'[r] \in {"await", "place", "join", "idle"} =>
           \A n \in 0..at'[r]-1 : out'[r][Target(r, n)][ChunkOf(n)] = SumOfCall(call'[r])
  PROVE  ReduceOf(r)'
<1>1. /\ Ranks' = Ranks /\ \A n : Target(r, n)' = Target(r, n) /\ ChunkOf(n)' = ChunkOf(n)
  BY LayoutFixed, SendsFixed
<1> QED BY <1>1 DEF ReduceOf, SumOfCall

LEMMA ReduceInit == Init => ReduceExact
  BY DEF Init, ReduceExact

LEMMA TargetUnique ==
  ASSUME TypeOK, SameChunks, NEW r \in Ranks, NEW n \in SendsOfCall, NEW m \in SendsOfCall,
         Target(r, n) = Target(r, m), ChunkOf(n) = ChunkOf(m)
  PROVE  n = m
<1>1. /\ PlaceOf(n) \in Places /\ PlaceOf(m) \in Places /\ PlaceOf(n) \in Nat /\ PlaceOf(m) \in Nat
      /\ W \in Nat
  BY SendRange, GroupFacts
<1>2. W-2 - PlaceOf(n) = W-2 - PlaceOf(m)
  BY <1>1, PeerFacts DEF Target
<1> QED BY <1>1, <1>2, SendOfSlot

LEMMA ReduceStep ==
  ASSUME TypeOK, SameChunks, Positions, Arrived, Skew, ScratchExact, ReduceExact, [Next]_vars
  PROVE  ReduceExact'
<1>1. program' = program /\ Ranks' = Ranks
  BY ProgramFixed, LayoutFixed
<1>2. SUFFICES ASSUME NEW p \in Ranks PROVE ReduceOf(p)'
  BY <1>1 DEF ReduceExact, ReduceOf, SumOf, SumOfCall, Target
<1>3. /\ \A c \in 0..summed[p]-1 : out[p][p][c] = SumOfCall(call[p])
      /\ pc[p] \in {"await", "place", "join", "idle"} =>
           \A n \in 0..at[p]-1 : out[p][Target(p, n)][ChunkOf(n)] = SumOfCall(call[p])
      /\ summed[p] \in Nat /\ at[p] \in Nat
  BY ReduceOfAll, RankTypes DEF ReduceOf
<1>4. ASSUME call'[p] = call[p], summed'[p] = summed[p], out'[p] = out[p],
             \/ pc'[p] \in {"quant", "wait", "accum"}
             \/ at'[p] = at[p] /\ pc[p] \in {"await", "place", "join", "idle"}
             \/ at'[p] = at[p] /\ pc'[p] = pc[p]
      PROVE  ReduceOf(p)'
  BY <1>1, <1>3, <1>4, ReduceOfNext
<1>5. out \in [Ranks -> [Ranks -> [Pieces -> Numbers]]]
  BY DEF TypeOK
<1>6. ASSUME NEW r \in Ranks, Enter(r) PROVE ReduceOf(p)'
  <2>1. CASE p = r
    <3>1. summed'[p] = 0 /\ pc'[p] = "quant"
      BY <1>6, <2>1 DEF Enter, TypeOK
    <3> QED BY <1>1, <3>1, ReduceOfNext
  <2>2. CASE p # r
    BY <1>4, <1>6, <2>2 DEF Enter, TypeOK
  <2> QED BY <2>1, <2>2
<1>7. ASSUME NEW r \in Ranks, Quant(r) \/ WaitScatter(r) \/ WaitBroadcast(r) \/ Join(r)
      PROVE  ReduceOf(p)'
  <2>1. call'[p] = call[p] /\ summed'[p] = summed[p] /\ out'[p] = out[p]
    BY <1>7 DEF Quant, WaitScatter, WaitBroadcast, Join, memory
  <2>2. p # r => at'[p] = at[p] /\ pc'[p] = pc[p]
    BY <1>7 DEF Quant, WaitScatter, WaitBroadcast, Join, TypeOK
  <2>3. CASE Quant(r) \/ WaitScatter(r)
    <3>1. p = r => pc'[p] \in {"quant", "wait", "accum"}
      BY <2>3 DEF Quant, WaitScatter, TypeOK
    <3> QED BY <1>4, <2>1, <2>2, <3>1
  <2>4. CASE WaitBroadcast(r) \/ Join(r)
    <3>1. p = r => at'[p] = at[p] /\ pc[p] \in {"await", "place", "join", "idle"}
      BY <2>4 DEF WaitBroadcast, Join
    <3> QED BY <1>4, <2>1, <2>2, <3>1
  <2> QED BY <1>7, <2>3, <2>4
<1>8. ASSUME NEW r \in Ranks, Accumulate(r) PROVE ReduceOf(p)'
  <2>1. CASE p = r
    <3>1. /\ call' = call /\ summed'[p] = summed[p] + 1
          /\ out' = [out EXCEPT ![p][p][summed[p]] = SumOfCall(call[p])]
          /\ (pc'[p] = "await" /\ at'[p] = 0) \/ pc'[p] = "wait"
      BY <1>8, <2>1, AccumulatedSum DEF Accumulate, TypeOK
    <3>2. summed[p] \in Pieces
      <4>1. call[p] > 0 /\ summed[p] < Chunks(p)
        BY <1>8, <2>1 DEF Accumulate, Positions, PositionOf
      <4> QED BY <1>3, <4>1, InCall, ChunkCount
    <3>3. /\ out'[p][p] = [out[p][p] EXCEPT ![summed[p]] = SumOfCall(call[p])]
          /\ out[p][p] \in [Pieces -> Numbers]
      <4>1. out'[p] = [out[p] EXCEPT ![p][summed[p]] = SumOfCall(call[p])]
        BY <1>5, <3>1
      <4>2. out[p] \in [Ranks -> [Pieces -> Numbers]]
        BY <1>5
      <4> QED BY <4>1, <4>2
    <3>4. ASSUME NEW c \in 0..summed'[p]-1
          PROVE  out'[p][p][c] = SumOfCall(call'[p])
      <4>1. CASE c = summed[p]
        BY <3>1, <3>2, <3>3, <4>1
      <4>2. CASE c # summed[p]
        <5>1. c \in 0..summed[p]-1
          BY <1>3, <3>1, <4>2
        <5>2. out[p][p][c] = SumOfCall(call[p])
          BY <1>3, <5>1
        <5>3. c \in Pieces
          BY <1>3, <3>2, <5>1, ChunkCount
        <5> QED BY <3>1, <3>3, <4>2, <5>2, <5>3
      <4> QED BY <4>1, <4>2
    <3>5. pc'[p] \in {"await", "place", "join", "idle"} => at'[p] = 0
      BY <3>1
    <3> QED BY <1>1, <3>4, <3>5, ReduceOfNext
  <2>2. CASE p # r
    BY <1>4, <1>8, <2>2 DEF Accumulate, TypeOK
  <2> QED BY <2>1, <2>2
<1>9. ASSUME NEW r \in Ranks, Place(r) PROVE ReduceOf(p)'
  <2>1. CASE p = r
    <3>1. PICK n, j, c : n = at[p] /\ j = Target(p, n) /\ c = ChunkOf(n)
      OBVIOUS
    <3>2. /\ call' = call /\ summed' = summed /\ pc[p] = "place" /\ at'[p] = n + 1
          /\ out' = [out EXCEPT ![p][j][c] = SumOfCall(call[p])]
      BY <1>9, <2>1, <3>1, BroadcastRead DEF Place, Target, TypeOK
    <3>3. n \in SendsOfCall /\ n \in Nat
      BY <3>1, <3>2, WaitBroadcastFacts, SendRange
    <3>4. j \in Ranks /\ j # p /\ c \in Pieces
      BY <3>1, <3>3, SendMeetsReceive, MirrorFacts, ChunkCount
    <3>5. /\ out'[p] = [out[p] EXCEPT ![j][c] = SumOfCall(call[p])]
          /\ out[p] \in [Ranks -> [Pieces -> Numbers]]
      BY <1>5, <3>2
    <3>6. out'[p][j] = [out[p][j] EXCEPT ![c] = SumOfCall(call[p])]
      BY <3>4, <3>5
    <3>7. \A s \in Ranks : s # j => out'[p][s] = out[p][s]
      BY <3>5
    <3>8. \A x \in 0..summed'[p]-1 : out'[p][p][x] = SumOfCall(call'[p])
      BY <1>3, <3>2, <3>4, <3>7
    <3>9. ASSUME NEW m \in 0..at'[p]-1
          PROVE  out'[p][Target(p, m)][ChunkOf(m)] = SumOfCall(call'[p])
      <4>1. CASE m = n
        <5>1. out[p][j] \in [Pieces -> Numbers]
          BY <3>4, <3>5
        <5> QED BY <3>1, <3>2, <3>4, <3>6, <4>1, <5>1
      <4>2. CASE m # n
        <5>1. m \in 0..at[p]-1 /\ m \in Nat /\ m < n
          BY <3>1, <3>2, <3>3, <4>2
        <5>2. m \in SendsOfCall
          BY <3>3, <5>1, ChunkCount DEF SendsOfCall
        <5>3. out[p][Target(p, m)][ChunkOf(m)] = SumOfCall(call[p])
          BY <1>3, <3>2, <5>1
        <5>4. Target(p, m) # j \/ ChunkOf(m) # c
          BY <3>1, <3>3, <4>2, <5>2, TargetUnique
        <5>5. Target(p, m) \in Ranks /\ ChunkOf(m) \in Pieces
          BY <5>2, SendMeetsReceive, MirrorFacts, ChunkCount
        <5>6. out'[p][Target(p, m)][ChunkOf(m)] = out[p][Target(p, m)][ChunkOf(m)]
          <6>1. CASE Target(p, m) = j
            <7>1. out[p][j] \in [Pieces -> Numbers] /\ ChunkOf(m) # c
              BY <3>4, <3>5, <5>4, <6>1
            <7> QED BY <3>6, <5>5, <6>1, <7>1
          <6>2. CASE Target(p, m) # j
            BY <3>7, <5>5, <6>2
          <6> QED BY <6>1, <6>2
        <5> QED BY <3>2, <5>3, <5>6
      <4> QED BY <4>1, <4>2
    <3> QED BY <1>1, <3>8, <3>9, ReduceOfNext
  <2>2. CASE p # r
    BY <1>4, <1>9, <2>2 DEF Place, TypeOK
  <2> QED BY <2>1, <2>2
<1>10. ASSUME NEW r \in Ranks, NEW f \in Phases, CopyStep(r, f) \/ FlagStep(r, f) PROVE ReduceOf(p)'
  BY <1>4, <1>10 DEF CopyStep, FlagStep, memory
<1>11. CASE UNCHANGED vars
  BY <1>4, <1>11 DEF vars, streams, memory
<1> QED BY <1>6, <1>7, <1>8, <1>9, <1>10, <1>11 DEF Next, MainStep, Drained

-----------------------------------------------------------------------------
(* The theorems.                                                           *)

Inv ==
  /\ TypeOK /\ Positions /\ Counters /\ Arrived /\ Skew
  /\ StageExact /\ ScratchExact /\ ReduceExact

\* A copy meets no read of its slot: in the same call it was copied before the
\* read began, and the next call's copy needs a sum that waits for the reader.
LEMMA RaceFree ==
  ASSUME Inv, SameChunks
  PROVE  NoScratchRace
<1> USE DEF Inv
<1> SUFFICES ASSUME NEW r \in Ranks, NEW f \in Phases, CopyReady(r, f),
                    NEW k \in Reading(Target(r, copied[r][f])),
                    Overlap(r, TargetSlot(r, f, copied[r][f]), Target(r, copied[r][f]), k)
             PROVE  FALSE
  BY DEF NoScratchRace
<1>1. PICK n, j : n = copied[r][f] /\ j = Target(r, n)
  OBVIOUS
<1>2. n \in Nat /\ n < Sends(r) /\ ChunkOf(n) < ChunksReady(r, f)
  BY <1>1, RankTypes DEF CopyReady
<1>3. call[r] > 0 /\ n \in SendsOfCall
  BY <1>2, SendInCall
<1>4. PICK m \in SendsOfCall : m = Mirror(n) /\ Mirror(m) = n /\ m \in Nat
  BY <1>3, MirrorFacts, SendRange
<1>5. /\ j \in Ranks /\ Target(j, m) = r /\ TargetSlot(r, f, n) = SlotAt(f, m)
      /\ ChunkOf(m) = ChunkOf(n)
  BY <1>1, <1>3, <1>4, SendMeetsReceive, MirrorFacts
<1>6. /\ call[r] \in Nat /\ call[j] \in Nat /\ copied[r][f] \in Nat /\ flagged[r][f] \in Nat
      /\ flagged[r][f] <= copied[r][f] /\ PositionOf(j) /\ summed[r] \in Nat
  BY <1>5, RankTypes DEF Positions, PositionOf
<1>7. /\ k \in Reading(j) /\ k[1] = f /\ k[2] = PlaceOf(m)
      /\ call[r] = call[j] => k[3] = ChunkOf(m)
  <2>1. Overlap(r, SlotAt(f, m), j, k) /\ k \in Reading(j)
    BY <1>1, <1>5
  <2> QED BY <2>1 DEF Overlap, SlotAt
<1>8. CASE pc[j] = "accum"
  <2>1. PICK i \in Places : k = <<"scatter", i, summed[j]>>
    BY <1>7, <1>8 DEF Reading
  <2>2. f = "scatter" /\ i = PlaceOf(m) /\ (call[r] = call[j] => ChunkOf(m) = summed[j])
    BY <1>7, <2>1
  <2>3. /\ call[j] > 0 /\ summed[j] \in Nat /\ summed[j] < Chunks(j) /\ Chunks(j) = C
        /\ at[j] = (summed[j] + 1) * (W-1)
    BY <1>5, <1>6, <1>8, RankTypes, InCall DEF PositionOf
  <2>4. PICK l \in SendsOfCall :
          PlaceOf(l) = i /\ ChunkOf(l) = summed[j] /\ l < (summed[j] + 1) * (W-1)
    BY <2>3, ReceiveAt
  <2>5. l < Received(j, "scatter")
    BY <1>8, <2>3, <2>4 DEF Received
  <2>6. Target(j, l) = r
    BY <1>5, <2>2, <2>4 DEF Target
  <2>7. /\ call[r] >= call[j]
        /\ call[r] = call[j] => flagged[r][f] > Mirror(l)
    BY <1>5, <2>2, <2>3, <2>5, <2>6, ArrivedBy
  <2>8. call[r] = call[j]
    <3>1. ~(call[r] > call[j])
      BY <1>5, <2>3 DEF Skew
    <3> QED BY <1>6, <2>7, <3>1
  <2>9. l = m
    BY <2>2, <2>4, <2>8, SendOfSlot
  <2>10. flagged[r][f] > n
    BY <1>4, <2>7, <2>8, <2>9
  <2> QED BY <1>1, <1>6, <2>10
<1>9. CASE pc[j] = "place"
  <2>1. PICK l : l = at[j]
    OBVIOUS
  <2>2. k = SlotAt("broadcast", l)
    BY <1>7, <1>9, <2>1 DEF Reading
  <2>3. f = "broadcast" /\ PlaceOf(l) = PlaceOf(m) /\ (call[r] = call[j] => ChunkOf(l) = ChunkOf(m))
    BY <1>7, <2>2 DEF SlotAt
  <2>4. l \in SendsOfCall /\ l \in Nat /\ call[j] > 0 /\ l < Received(j, "broadcast")
    BY <1>5, <1>9, <2>1, WaitBroadcastFacts, RankTypes DEF Received
  <2>5. Target(j, l) = r
    BY <1>5, <2>3 DEF Target
  <2>6. /\ call[r] >= call[j]
        /\ call[r] = call[j] => flagged[r][f] > Mirror(l)
    BY <1>5, <2>3, <2>4, <2>5, ArrivedBy
  <2>7. call[r] # call[j]
    <3> SUFFICES ASSUME call[r] = call[j] PROVE FALSE
      OBVIOUS
    <3>1. l = m
      BY <2>3, <2>4, SendOfSlot
    <3>2. flagged[r][f] > n
      BY <1>4, <2>6, <3>1
    <3> QED BY <1>1, <1>6, <3>2
  <2>8. summed[r] > 0
    BY <1>2, <1>3, <1>6, <2>3, SendRange DEF ChunksReady
  <2>9. call[j] >= call[r]
    BY <1>5, <2>8, SumNeedsAll
  <2> QED BY <1>6, <2>6, <2>7, <2>9
<1>10. CASE pc[j] \notin {"accum", "place"}
  BY <1>7, <1>10 DEF Reading
<1> QED BY <1>8, <1>9, <1>10

\* The invariant holds from the start and at every step.
LEMMA InvHolds == SameChunks => (Spec => []Inv)
<1> SUFFICES ASSUME SameChunks PROVE Spec => []Inv
  OBVIOUS
<1>1. Init => Inv
  <2> SUFFICES ASSUME Init PROVE Inv
    OBVIOUS
  <2>1. TypeOK
    BY TypeInit
  <2>2. Counters /\ Arrived
    BY <2>1, CountersInit, ArrivedInit
  <2> QED BY <2>1, <2>2, PositionsInit, SkewInit, StageInit, ScratchInit, ReduceInit DEF Inv
<1>2. Inv /\ [Next]_vars => Inv'
  <2> SUFFICES ASSUME Inv, [Next]_vars PROVE Inv'
    OBVIOUS
  <2> USE DEF Inv
  <2>1. TypeOK'
    BY TypeStep
  <2>2. Positions' /\ Counters'
    BY PositionsStep, CountersStep
  <2>3. Arrived' /\ Skew'
    BY <2>1, <2>2, ArrivedStep, SkewStep
  <2>4. StageExact' /\ ScratchExact' /\ ReduceExact'
    BY StageStep, ScratchStep, ReduceStep
  <2> QED BY <2>1, <2>2, <2>3, <2>4
<1> QED BY <1>1, <1>2, PTL DEF Spec

\* The flags, the streams and the buffers of all ranks keep their types: no
\* stream sends more than its call has, and no flag is set twice in a call.
THEOREM TypeCorrect == SameChunks => (Spec => []TypeOK)
<1>1. Inv => TypeOK
  BY DEF Inv
<1> QED BY <1>1, InvHolds, PTL

\* Every rank returns the sum of the inputs of the call, whatever the order in
\* which the five streams of every rank go through the calls (_all_reduce_fp8).
THEOREM ReduceIsExact == SameChunks => (Spec => []ReduceExact)
<1>1. Inv => ReduceExact
  BY DEF Inv
<1> QED BY <1>1, InvHolds, PTL

\* Though no handshake ends a call, no copy of a peer is ready to run into the
\* scratch slots that the main stream of their owner is at, accumulating or
\* placing.  (It says nothing of the staging cells of sends, nor of slots the main
\* stream has yet to reach: that their contents arrive whole is ReduceIsExact.)
THEOREM ScratchIsRaceFree == SameChunks => (Spec => []NoScratchRace)
<1> SUFFICES ASSUME SameChunks PROVE Spec => []NoScratchRace
  OBVIOUS
<1>1. Inv => NoScratchRace
  BY RaceFree
<1> QED BY <1>1, InvHolds, PTL

\* No rank is more than one call ahead of another.
THEOREM RanksStayTogether ==
  SameChunks => (Spec => [](\A r, s \in Ranks : call[r] <= call[s] + 1))
<1>1. Inv => \A r, s \in Ranks : call[r] <= call[s] + 1
  <2> SUFFICES ASSUME Inv, NEW r \in Ranks, NEW s \in Ranks PROVE call[r] <= call[s] + 1
    OBVIOUS
  <2>1. call[r] \in Nat /\ call[s] \in Nat
    BY RankTypes DEF Inv
  <2> QED BY <2>1 DEF Inv, Skew
<1> QED BY <1>1, InvHolds, PTL

=============================================================================
