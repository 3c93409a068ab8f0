-------------------------- MODULE RingReduceProofs --------------------------
(***************************************************************************)
(* Proofs about RingReduce for every ring of at least two ranks and every  *)
(* sequence of calls of both kinds, all wires and one or two pieces, but   *)
(* for a call in which the slot of the handshake before it is a data slot  *)
(* of a step so early that the rank that handshakes may not have entered   *)
(* (HandshakesLate).                                                       *)
(*                                                                         *)
(* The argument is a chain around the ring.  A rank that has waited for a  *)
(* pair of step k knows that its predecessor has copied it, that the one   *)
(* before has copied the same piece of step k-1, and so on (Chain): W-1    *)
(* steps back every rank has entered the call, W steps back it is the rank *)
(* itself.  From the first follows that nobody is two calls ahead and what *)
(* flags mean, from the second that a landing pair overwrites nothing that *)
(* the rank's own copy stream has still to send.                           *)
(***************************************************************************)
EXTENDS RingReduce, FiniteSets, FiniteSetTheorems, TLAPS

USE WorldAssumption

\* The handshake slot of a call is not, in the next call, the slot of a pair
\* of an early step.
HandshakesLate ==
  \A p \in Programs : \A c \in 1..Len(p)-1 :
    N(p[c]) < N(p[c+1]) => (W-2) * p[c+1].pieces <= N(p[c])

-----------------------------------------------------------------------------
(* The inductive invariant.                                                *)

\* The pairs whose data main has waited for.
Waited(r) == IF pc[r] = "land" THEN pos[r] + 1 ELSE pos[r]

\* The event that the copy of pair i waits for has been recorded.
SendReady(r, i) ==
  LET j == Job(r)
      k == StepOf(j, i)
  IN IF Fp8Reduce(j) /\ k = 0 THEN Quanted(r, i)
     ELSE IF Fp8Gather(j) /\ k = W-1 THEN Quanted(r, k * j.pieces)
     ELSE k = 0 \/ Recorded(r) > i - j.pieces

\* Where the three streams of a rank can be together.
PositionOf(r) ==
  /\ call[r] = 0 => pc[r] = "idle" /\ pos[r] = 0 /\ copied[r] = 0 /\ flagged[r] = 0
  /\ call[r] > 0 =>
       /\ pc[r] \in {"quant", "wait", "land"} => pos[r] < N(Job(r))
       /\ pc[r] \in {"join", "handshake", "idle"} => pos[r] = N(Job(r))
       /\ pc[r] \in {"handshake", "idle"} => copied[r] = N(Job(r)) /\ flagged[r] = N(Job(r))
       /\ pc[r] = "quant" => Quants(Job(r), pos[r])
       /\ \A i \in 0..copied[r]-1 : SendReady(r, i)

Positions == \A r \in Ranks : PositionOf(r)

\* How many of the first c calls use flag slot k.
Uses(c, k) == Cardinality({i \in 1..c : k <= N(program[i])})

\* In its current call, r has published slot k.
Published(r, k) ==
  /\ call[r] > 0
  /\ k < flagged[r] \/ (k = N(Job(r)) /\ pc[r] \in {"handshake", "idle"})

\* In its current call, r has waited for slot k.
Passed(r, k) == call[r] > 0 /\ (k < Waited(r) \/ (k = N(Job(r)) /\ pc[r] = "idle"))

CounterOf(r, k) ==
  /\ sent[r][k]   = Uses(IF Published(r, k) THEN call[r] ELSE call[r] - 1, k)
  /\ waited[r][k] = Uses(IF Passed(r, k) THEN call[r] ELSE call[r] - 1, k)

\* A slot counts the calls that use it, at the one who sets and the one who waits.
Counters == \A r \in Ranks, k \in FlagSlots : CounterOf(r, k)

\* Who sets slot k of rank r in call c: data comes from one side, the handshake
\* from the other.
Publisher(r, c, k) == IF k = N(program[c]) THEN Succ(r) ELSE Pred(r)

HasPublished(s, c, k) == call[s] > c \/ (call[s] = c /\ Published(s, k))

\* A flag that has reached the number of a call was set in that call by the rank
\* that sets it there.
FlagOf(r, k) ==
  \A c \in 1..Len(program) :
    k <= N(program[c]) /\ Uses(c, k) <= flag[r][k] => HasPublished(Publisher(r, c, k), c, k)

FlagsTrue == \A r \in Ranks, k \in FlagSlots : FlagOf(r, k)

\* What main has waited for has been published, in this call.
ArrivedAt(r) ==
  \A k \in FlagSlots : Passed(r, k) => HasPublished(Publisher(r, call[r], k), call[r], k)

Arrived == \A r \in Ranks : ArrivedAt(r)

\* The rank d places before r, and the pair of the same piece d-1 steps before i.
Behind(r, d) == (r - d) % W
Earlier(j, i, d) == i - (d-1) * j.pieces

ChainOf(r, d) ==
  call[r] > 0 =>
    \A i \in 0..Waited(r)-1 :
      Earlier(Job(r), i, d) >= 0 =>
        LET s == Behind(r, d) IN
        call[s] > call[r] \/ (call[s] = call[r] /\ copied[s] > Earlier(Job(r), i, d))

Chain == \A r \in Ranks, d \in 1..W : ChainOf(r, d)

\* Nobody is two calls ahead, and one call ahead of its successor only when that
\* has reached its handshake.
Skew ==
  /\ \A r, s \in Ranks : call[r] <= call[s] + 1
  /\ \A r \in Ranks : call[r] > call[Succ(r)] => pc[Succ(r)] \in {"handshake", "idle"}

\* The n ranks that end with r, in the order of the ring.
Run(r, n) == [i \in 1..n |-> (r - n + i) % W]

\* What r sends in step k of call c, and has landed in step k-1.
Carried(c, r, k) == IF k < W-1 THEN Sum(c, Run(r, k+1)) ELSE Sum(c, Run((r - k - 1) % W, W))

ScratchOf(r) ==
  call[r] > 0 =>
    \A i \in 0..copied[r]-1 : \A x \in CellsOf(Job(r), i) :
      scratch[Succ(r)][StepOf(Job(r), i)][x] = Carried(call[r], r, StepOf(Job(r), i))

\* A landed pair is in the stage, or in the tensor until the same chunk comes
\* round again.
LandedIn(r, area, mem, i) ==
  area \in LandAreas(Job(r), StepOf(Job(r), i)) =>
    \A x \in CellsOf(Job(r), i) :
      mem[r][RecvChunk(Job(r), r, StepOf(Job(r), i))][x] = Carried(call[r], r, StepOf(Job(r), i) + 1)

BufOf(r) ==
  call[r] > 0 =>
    \A i \in 0..pos[r]-1 : pos[r] <= i + W * Job(r).pieces => LandedIn(r, "buf", buf, i)

StageOf(r) ==
  call[r] > 0 =>
    /\ \A i \in 0..pos[r]-1 : LandedIn(r, "stage", stage, i)
    /\ Fp8Reduce(Job(r)) =>
         \A i \in 0..Job(r).pieces-1 : Quanted(r, i) =>
           \A x \in CellsOf(Job(r), i) :
             stage[r][SendChunk(Job(r), r, 0)][x] = Carried(call[r], r, 0)
    /\ Fp8Gather(Job(r)) /\ ~Fp8Reduce(Job(r)) /\ Quanted(r, (W-1) * Job(r).pieces) =>
         \A x \in Cells : stage[r][SendChunk(Job(r), r, W-1)][x] = Carried(call[r], r, W-1)

\* What no pair has landed on is still the rank's input.
InputOf(r) ==
  call[r] > 0 /\ Job(r).op = "reduce_scatter" =>
    \A c \in Ranks, x \in Cells :
      \/ \E i \in 0..pos[r]-1 : RecvChunk(Job(r), r, StepOf(Job(r), i)) = c /\ x \in CellsOf(Job(r), i)
      \/ buf[r][c][x] = Sum(call[r], <<r>>)

Contents == \A r \in Ranks : ScratchOf(r) /\ BufOf(r) /\ StageOf(r) /\ InputOf(r)

Inv == TypeOK /\ Positions /\ Counters /\ FlagsTrue /\ Arrived /\ Chain /\ Skew /\ Contents

-----------------------------------------------------------------------------
(* Arithmetic of the ring and of the pairs.                                *)

LEMMA RemainderCases ==
  ASSUME NEW x \in Int
  PROVE  /\ x % W \in 0..W-1
         /\ x \in 0..W-1 => x % W = x
         /\ x \in W..2*W-1 => x % W = x - W
         /\ x \in -W..-1 => x % W = x + W
         /\ x \in -2*W..-W-1 => x % W = x + 2*W
         /\ x \in -3*W..-2*W-1 => x % W = x + 3*W
<1>1. x % W \in 0..W-1 /\ x \div W \in Int /\ x = W * (x \div W) + (x % W)
  OBVIOUS
<1> DEFINE q == x \div W
<1>2. q \in Int /\ x = W * q + (x % W) /\ x % W \in Int /\ 0 <= x % W /\ x % W < W
  BY <1>1
<1> HIDE DEF q
<1>3. CASE q = 0
  BY <1>2, <1>3
<1>4. CASE q = 1
  BY <1>2, <1>4
<1>5. CASE q = -1
  BY <1>2, <1>5
<1>6. CASE q = -2
  BY <1>2, <1>6
<1>7. CASE q = -3
  BY <1>2, <1>7
<1>8. CASE q > 1
  <2>1. W * q >= 2 * W
    BY <1>2, <1>8
  <2> QED BY <1>2, <2>1
<1>9. CASE q < -3
  <2>1. W * q <= -4 * W
    BY <1>2, <1>9
  <2> QED BY <1>2, <2>1
<1> QED BY <1>2, <1>3, <1>4, <1>5, <1>6, <1>7, <1>8, <1>9

\* Numbers with the same remainder are a multiple of W apart.
LEMMA RemainderShift ==
  ASSUME NEW x \in Int, NEW y \in Int
  PROVE  /\ x = y + W => x % W = y % W
         /\ x % W = y % W /\ 0 < x - y /\ x - y < 2 * W => x = y + W
<1>1. /\ x \div W \in Int /\ x % W \in 0..W-1 /\ x = W * (x \div W) + (x % W)
      /\ y \div W \in Int /\ y % W \in 0..W-1 /\ y = W * (y \div W) + (y % W)
  OBVIOUS
<1>2. PICK p \in Int, q \in Int, u \in 0..W-1, v \in 0..W-1 :
        x = W * p + u /\ y = W * q + v /\ u = x % W /\ v = y % W
  BY <1>1
<1>3. PICK e \in Int : e = p - q
  OBVIOUS
<1>4. x - y = W * e + (u - v)
  <2>1. W * e = W * p - W * q /\ W * p \in Int /\ W * q \in Int
    BY <1>3
  <2>2. PICK wp \in Int, wq \in Int : wp = W * p /\ wq = W * q
    BY <2>1
  <2>3. x = wp + u /\ y = wq + v /\ W * e = wp - wq
    BY <1>2, <2>1, <2>2
  <2> QED BY <2>3
<1>5. (e > 1 => W * e >= 2 * W) /\ (e = 1 => W * e = W)
  OBVIOUS
<1>6. (e < 0 => W * e <= -W) /\ (e = 0 => W * e = 0)
  OBVIOUS
<1>7. W * e \in Int
  OBVIOUS
<1>8. PICK w \in Int : w = W * e
  BY <1>7
<1>9. x - y = w + (u - v) /\ (w >= 2 * W \/ w = W \/ w = 0 \/ w <= -W)
  BY <1>4, <1>5, <1>6, <1>8
<1>10. x = y + W => u = v
  BY <1>9
<1>11. u = v /\ 0 < x - y /\ x - y < 2 * W => x = y + W
  BY <1>9
<1> QED BY <1>2, <1>10, <1>11

LEMMA RemainderDistance ==
  ASSUME NEW x \in Int, NEW y \in Int, x % W = y % W, 0 < x - y, x - y < 2 * W
  PROVE  x = y + W
  BY RemainderShift

LEMMA RingFacts ==
  ASSUME NEW r \in Ranks
  PROVE  /\ r \in Nat /\ r < W
         /\ Succ(r) \in Ranks /\ Pred(r) \in Ranks
         /\ Succ(Pred(r)) = r /\ Pred(Succ(r)) = r
         /\ Succ(r) # r /\ Pred(r) # r
         /\ Succ(r) = IF r = W-1 THEN 0 ELSE r + 1
         /\ Pred(r) = IF r = 0 THEN W-1 ELSE r - 1
<1>1. r \in Nat /\ r < W
  BY DEF Ranks
<1>2. Succ(r) = IF r = W-1 THEN 0 ELSE r + 1
  BY <1>1, RemainderCases DEF Succ
<1>3. Pred(r) = IF r = 0 THEN W-1 ELSE r - 1
  BY <1>1, RemainderCases DEF Pred
<1>4. Succ(r) \in Ranks /\ Pred(r) \in Ranks /\ Succ(r) # r /\ Pred(r) # r
  BY <1>1, <1>2, <1>3 DEF Ranks
<1>5. \A s \in Ranks : /\ Succ(s) = IF s = W-1 THEN 0 ELSE s + 1
                       /\ Pred(s) = IF s = 0 THEN W-1 ELSE s - 1
  BY RemainderCases DEF Succ, Pred, Ranks
<1>6. Succ(Pred(r)) = r /\ Pred(Succ(r)) = r
  BY <1>1, <1>4, <1>5
<1> QED BY <1>1, <1>2, <1>3, <1>4, <1>6

LEMMA SuccUnique ==
  ASSUME NEW r \in Ranks, NEW s \in Ranks
  PROVE  (Succ(r) = Succ(s) => r = s) /\ (Pred(r) = s <=> r = Succ(s))
  BY RingFacts

\* Going back d places is going back one place and then d-1.
LEMMA BehindFacts ==
  ASSUME NEW r \in Ranks, NEW d \in 1..W
  PROVE  /\ Behind(r, d) \in Ranks
         /\ Behind(r, 1) = Pred(r) /\ Behind(r, W) = r
         /\ d > 1 => Behind(r, d) = Behind(Pred(r), d-1)
<1>1. \A s \in Ranks, e \in 1..W : Behind(s, e) = IF e <= s THEN s - e ELSE s - e + W
  BY RemainderCases DEF Behind, Ranks
<1>2. r \in Nat /\ r < W /\ Pred(r) \in Ranks /\ Pred(r) = IF r = 0 THEN W-1 ELSE r - 1
  BY RingFacts
<1>3. Behind(r, d) \in Ranks
  BY <1>1, <1>2 DEF Ranks
<1>4. Behind(r, 1) = Pred(r) /\ Behind(r, W) = r
  <2>1. 1 \in 1..W /\ W \in 1..W
    OBVIOUS
  <2> QED BY <1>1, <1>2, <2>1
<1>5. ASSUME d > 1 PROVE Behind(r, d) = Behind(Pred(r), d-1)
  <2>1. d-1 \in 1..W
    BY <1>5
  <2>2. /\ Behind(r, d) = IF d <= r THEN r - d ELSE r - d + W
        /\ Behind(Pred(r), d-1) = IF d-1 <= Pred(r) THEN Pred(r) - (d-1) ELSE Pred(r) - (d-1) + W
    BY <1>1, <1>2, <2>1
  <2> QED BY <1>2, <2>2
<1> QED BY <1>3, <1>4, <1>5

\* Every rank is some places behind.
LEMMA BehindAll ==
  ASSUME NEW r \in Ranks, NEW s \in Ranks
  PROVE  \E d \in 1..W : s = Behind(r, d) /\ (s # r => d <= W-1) /\ (s = Succ(r) => d = W-1)
<1>1. \A e \in 1..W : Behind(r, e) = IF e <= r THEN r - e ELSE r - e + W
  BY RemainderCases DEF Behind, Ranks
<1>2. r \in Nat /\ r < W /\ s \in Nat /\ s < W /\ Succ(r) = IF r = W-1 THEN 0 ELSE r + 1
  BY RingFacts
<1>3. PICK d : d = IF s < r THEN r - s ELSE r - s + W
  OBVIOUS
<1>4. d \in 1..W /\ s = Behind(r, d) /\ (s # r => d <= W-1) /\ (s = Succ(r) => d = W-1)
  BY <1>1, <1>2, <1>3
<1> QED BY <1>4

\* The steps and pairs of a call.
LEMMA JobFacts ==
  ASSUME NEW j \in Jobs
  PROVE  /\ j.pieces \in {1, 2} /\ Steps(j) \in Nat /\ N(j) \in Nat /\ N(j) \in FlagSlots
         /\ j.op \in {"all_reduce", "reduce_scatter"}
         /\ j.wire \in {"bf16", "ag", "ring"}
         /\ Steps(j) = IF j.op = "all_reduce" THEN 2*W - 2 ELSE W-1
         /\ j.pieces = 1 => N(j) = Steps(j)
         /\ j.pieces = 2 => N(j) = 2 * Steps(j)
         /\ N(j) > 0
<1>1. /\ j.pieces \in {1, 2} /\ j.op \in {"all_reduce", "reduce_scatter"}
      /\ j.wire \in {"bf16", "ag", "ring"}
  BY DEF Jobs
<1>2. Steps(j) \in Nat /\ Steps(j) = IF j.op = "all_reduce" THEN 2*W - 2 ELSE W-1
  BY DEF Steps
<1>3. (j.pieces = 1 => N(j) = Steps(j)) /\ (j.pieces = 2 => N(j) = 2 * Steps(j))
  BY <1>2 DEF N
<1>4. N(j) \in FlagSlots /\ N(j) \in Nat /\ N(j) > 0
  BY <1>1, <1>2, <1>3 DEF FlagSlots, MaxSteps
<1> QED BY <1>1, <1>2, <1>3, <1>4

LEMMA PairFacts ==
  ASSUME NEW j \in Jobs, NEW i \in Nat
  PROVE  /\ StepOf(j, i) \in Nat
         /\ j.pieces = 1 => StepOf(j, i) = i /\ CellsOf(j, i) = Cells
         /\ j.pieces = 2 => /\ CellsOf(j, i) = {i % 2} /\ i % 2 \in Cells
                            /\ i = 2 * StepOf(j, i) + (i % 2)
         /\ CellsOf(j, i) \subseteq Cells /\ CellsOf(j, i) # {}
         /\ i < N(j) <=> StepOf(j, i) < Steps(j)
<1>1. CASE j.pieces = 1
  BY <1>1, JobFacts DEF StepOf, CellsOf, Cells
<1>2. CASE j.pieces = 2
  <2>1. i \div 2 \in Nat /\ i % 2 \in {0, 1} /\ i = 2 * (i \div 2) + (i % 2)
    OBVIOUS
  <2>2. StepOf(j, i) = i \div 2 /\ CellsOf(j, i) = {i % 2}
    BY <1>2 DEF StepOf, CellsOf
  <2> QED BY <1>2, <2>1, <2>2, JobFacts DEF Cells
<1> QED BY <1>1, <1>2, JobFacts

\* A step and a cell belong to one pair.
LEMMA PairUnique ==
  ASSUME NEW j \in Jobs, NEW i \in Nat, NEW m \in Nat, StepOf(j, i) = StepOf(j, m),
         NEW x \in CellsOf(j, i), x \in CellsOf(j, m)
  PROVE  i = m
<1>1. CASE j.pieces = 1
  BY <1>1, PairFacts
<1>2. CASE j.pieces = 2
  BY <1>2, PairFacts
<1> QED BY <1>1, <1>2, JobFacts

\* The same piece, d steps before.
LEMMA PairBack ==
  ASSUME NEW j \in Jobs, NEW i \in Nat, NEW d \in Nat
  PROVE  /\ d * j.pieces <= i <=> d <= StepOf(j, i)
         /\ d * j.pieces <= i => /\ i - d * j.pieces \in Nat
                                 /\ StepOf(j, i - d * j.pieces) = StepOf(j, i) - d
                                 /\ CellsOf(j, i - d * j.pieces) = CellsOf(j, i)
<1>1. CASE j.pieces = 1
  BY <1>1, PairFacts
<1>2. CASE j.pieces = 2
  <2>1. i \div 2 \in Nat /\ i % 2 \in {0, 1} /\ i = 2 * (i \div 2) + (i % 2)
    OBVIOUS
  <2>2. 2 * d <= i <=> d <= i \div 2
    BY <2>1
  <2>3. ASSUME 2 * d <= i
        PROVE  i - 2 * d \in Nat /\ (i - 2 * d) \div 2 = (i \div 2) - d /\ (i - 2 * d) % 2 = i % 2
    BY <2>1, <2>3
  <2>4. d * j.pieces = 2 * d
    BY <1>2
  <2> QED BY <1>2, <2>1, <2>2, <2>3, <2>4 DEF StepOf, CellsOf
<1> QED BY <1>1, <1>2, JobFacts

\* The pairs of the first step, and the pair before another.
LEMMA PairFirst ==
  ASSUME NEW j \in Jobs, NEW i \in Nat
  PROVE  /\ StepOf(j, i) = 0 <=> i < j.pieces
         /\ StepOf(j, i) > 0 => /\ i - j.pieces \in Nat
                                /\ StepOf(j, i - j.pieces) = StepOf(j, i) - 1
                                /\ CellsOf(j, i - j.pieces) = CellsOf(j, i)
<1>1. StepOf(j, i) \in Nat /\ j.pieces \in {1, 2}
  BY PairFacts, JobFacts
<1>2. 1 * j.pieces = j.pieces
  BY <1>1
<1>3. j.pieces <= i <=> 1 <= StepOf(j, i)
  BY <1>2, PairBack
<1>4. j.pieces <= i => /\ i - j.pieces \in Nat
                       /\ StepOf(j, i - j.pieces) = StepOf(j, i) - 1
                       /\ CellsOf(j, i - j.pieces) = CellsOf(j, i)
  BY <1>2, PairBack
<1> QED BY <1>1, <1>3, <1>4

\* Every step has a pair for every cell.
LEMMA PairOfCell ==
  ASSUME NEW j \in Jobs, NEW k \in Nat, k < Steps(j), NEW x \in Cells
  PROVE  \E i \in 0..N(j)-1 : StepOf(j, i) = k /\ x \in CellsOf(j, i)
<1>1. CASE j.pieces = 1
  <2>1. k \in 0..N(j)-1 /\ StepOf(j, k) = k /\ x \in CellsOf(j, k)
    BY <1>1, JobFacts, PairFacts
  <2> QED BY <2>1
<1>2. CASE j.pieces = 2
  <2>1. PICK i : i = 2 * k + x
    OBVIOUS
  <2>2. i \in Nat /\ i \div 2 = k /\ i % 2 = x /\ i < 2 * Steps(j)
    BY <2>1, JobFacts DEF Cells
  <2>3. i \in 0..N(j)-1 /\ StepOf(j, i) = k /\ x \in CellsOf(j, i)
    BY <1>2, <2>2, JobFacts DEF StepOf, CellsOf
  <2> QED BY <2>3
<1> QED BY <1>1, <1>2, JobFacts

-----------------------------------------------------------------------------
(* The chunks that a rank sends and receives.                              *)

\* Both phases walk the ring backwards, one chunk a step.
LEMMA ChunkForm ==
  ASSUME NEW j \in Jobs, NEW r \in Ranks, NEW k \in Nat, k < Steps(j)
  PROVE  /\ Shift(j) \in {0, 1} /\ (Shift(j) = 1 => k < W-1)
         /\ SendChunk(j, r, k) = (r - k - Shift(j)) % W
         /\ RecvChunk(j, r, k) = (r - k - 1 - Shift(j)) % W
         /\ SendChunk(j, r, k) \in Ranks /\ RecvChunk(j, r, k) \in Ranks
<1>1. /\ Shift(j) \in {0, 1} /\ (Shift(j) = 1 => k < W-1) /\ k < 2*W - 2
      /\ r \in Nat /\ r < W
  BY JobFacts DEF Shift, Ranks
<1>2. CASE k < W-1
  BY <1>1, <1>2, RemainderCases DEF SendChunk, RecvChunk, Reduces, Ranks
<1>3. CASE k >= W-1
  <2>1. Shift(j) = 0 /\ ~Reduces(j, k)
    BY <1>1, <1>3 DEF Reduces
  <2>2. (r + 1 - (k - (W-1))) % W = (r - k) % W
    <3>1. r + 1 - (k - (W-1)) \in -W..W /\ r - k \in -2*W..0
      BY <1>1, <1>3
    <3>2. r + 1 - (k - (W-1)) = (r - k) + W
      BY <1>1
    <3> QED BY <3>1, <3>2, RemainderCases
  <2>3. (r - (k - (W-1))) % W = (r - k - 1) % W
    <3>1. r - (k - (W-1)) \in -W..W /\ r - k - 1 \in -2*W..0
      BY <1>1, <1>3
    <3>2. r - (k - (W-1)) = (r - k - 1) + W
      BY <1>1
    <3> QED BY <3>1, <3>2, RemainderCases
  <2>4. (r - k) % W \in Ranks /\ (r - k - 1) % W \in Ranks
    BY <1>1, RemainderCases DEF Ranks
  <2> QED BY <1>1, <2>1, <2>2, <2>3, <2>4 DEF SendChunk, RecvChunk
<1> QED BY <1>2, <1>3

\* What is sent in a step has been received in the one before.
LEMMA ChunkForwarded ==
  ASSUME NEW j \in Jobs, NEW r \in Ranks, NEW k \in Nat, k + 1 < Steps(j)
  PROVE  SendChunk(j, r, k+1) = RecvChunk(j, r, k)
<1>1. r \in Int /\ Shift(j) \in Int /\ k + 1 \in Nat /\ k < Steps(j)
  BY JobFacts DEF Ranks, Shift
<1>2. r - (k+1) - Shift(j) = r - k - 1 - Shift(j)
  BY <1>1
<1> QED BY <1>1, <1>2, ChunkForm

\* A chunk comes round after W steps and not before.
LEMMA ChunkReturns ==
  ASSUME NEW j \in Jobs, NEW r \in Ranks, NEW k \in Nat, NEW m \in Nat,
         k < m, m < Steps(j), RecvChunk(j, r, k) = RecvChunk(j, r, m)
  PROVE  m = k + W
<1>1. /\ r \in Nat /\ r < W /\ m < 2*W - 2 /\ k < Steps(j)
      /\ Shift(j) \in {0, 1} /\ (Shift(j) = 1 => m < W-1)
  BY JobFacts DEF Ranks, Shift
<1>2. (r - k - 1 - Shift(j)) % W = (r - m - 1 - Shift(j)) % W
  BY <1>1, ChunkForm
<1>3. PICK a \in Int : a = r - k - 1 - Shift(j)
  BY <1>1
<1>4. PICK b \in Int : b = r - m - 1 - Shift(j)
  BY <1>1
<1>5. a - b = m - k /\ 0 < a - b /\ a - b < 2 * W
  BY <1>1, <1>3, <1>4
<1>6. a = b + W
  BY <1>2, <1>3, <1>4, <1>5, RemainderDistance
<1> QED BY <1>5, <1>6

\* What a rank sends first it does not receive while it reduces.
LEMMA ChunkFirst ==
  ASSUME NEW j \in Jobs, NEW r \in Ranks, NEW k \in Nat, k < W-1
  PROVE  RecvChunk(j, r, k) # SendChunk(j, r, 0)
<1>1. /\ r \in Nat /\ r < W /\ k < Steps(j) /\ 0 < Steps(j) /\ Shift(j) \in {0, 1}
  BY JobFacts DEF Ranks, Shift
<1>2. /\ SendChunk(j, r, 0) = (r - Shift(j)) % W
      /\ RecvChunk(j, r, k) = (r - k - 1 - Shift(j)) % W
  BY <1>1, ChunkForm
<1>3. PICK a \in Int : a = r - Shift(j)
  BY <1>1
<1>4. PICK b \in Int : b = r - k - 1 - Shift(j)
  BY <1>1
<1>5. a - b = k + 1 /\ 0 < a - b /\ a - b < W
  BY <1>1, <1>3, <1>4
<1>6. ASSUME a % W = b % W PROVE FALSE
  <2>1. a = b + W
    <3>1. a - b < 2 * W
      BY <1>5
    <3> QED BY <1>5, <1>6, <3>1, RemainderDistance
  <2> QED BY <1>5, <2>1
<1> QED BY <1>2, <1>3, <1>4, <1>6

\* The chunks a call owes are received in its last W steps, or in its last.
LEMMA ChunkOwned ==
  ASSUME NEW j \in Jobs, NEW r \in Ranks, NEW c \in Owned(j, r)
  PROVE  \E k \in Nat : W-2 <= k /\ k < Steps(j) /\ RecvChunk(j, r, k) = c
<1>1. r \in Nat /\ r < W /\ W-2 \in Nat
  BY DEF Ranks
<1>2. CASE j.op = "all_reduce"
  <2>1. c \in Nat /\ c < W /\ Shift(j) = 0 /\ Steps(j) = 2*W - 2
    BY <1>2, JobFacts DEF Owned, Ranks, Shift
  <2>2. PICK k : k = IF r - 1 - c >= W-2 THEN r - 1 - c
                     ELSE IF r - 1 - c >= -2 THEN r - 1 - c + W ELSE r - 1 - c + 2*W
    OBVIOUS
  <2>3. k \in Nat /\ W-2 <= k /\ k < Steps(j)
    BY <1>1, <2>1, <2>2
  <2>4. (r - k - 1) % W = c
    <3>1. PICK z \in Int : z = r - k - 1
      BY <1>1, <2>3
    <3>2. z = c \/ z = c - W \/ z = c - 2*W
      BY <1>1, <2>1, <2>2, <3>1
    <3>3. z % W = c
      <4>1. CASE z = c
        BY <2>1, <4>1, RemainderCases
      <4>2. CASE z = c - W
        BY <2>1, <4>2, RemainderCases
      <4>3. CASE z = c - 2*W
        BY <2>1, <4>3, RemainderCases
      <4> QED BY <3>2, <4>1, <4>2, <4>3
    <3> QED BY <3>1, <3>3
  <2>5. RecvChunk(j, r, k) = (r - k - 1 - Shift(j)) % W
    BY <2>3, ChunkForm
  <2>6. r - k - 1 - Shift(j) = r - k - 1
    BY <1>1, <2>1, <2>3
  <2> QED BY <2>3, <2>4, <2>5, <2>6
<1>3. CASE j.op = "reduce_scatter"
  <2>1. c = r /\ Shift(j) = 1 /\ Steps(j) = W-1
    BY <1>3, JobFacts DEF Owned, Shift
  <2>2. (r - (W-2) - 1 - 1) % W = r
    BY <1>1, RemainderCases
  <2>3. RecvChunk(j, r, W-2) = (r - (W-2) - 1 - Shift(j)) % W
    BY <1>1, <2>1, ChunkForm
  <2>4. RecvChunk(j, r, W-2) = r
    BY <2>1, <2>2, <2>3
  <2> QED BY <1>1, <2>1, <2>4
<1> QED BY <1>2, <1>3, JobFacts

-----------------------------------------------------------------------------
(* What travels.                                                           *)

LEMMA RunFacts ==
  ASSUME NEW r \in Ranks, NEW n \in Nat
  PROVE  Run(r, n) \in Seq(Ranks) /\ Len(Run(r, n)) = n /\ DOMAIN Run(r, n) = 1..n
<1>1. \A i \in 1..n : (r - n + i) % W \in Ranks
  BY RemainderCases DEF Ranks
<1> QED BY <1>1 DEF Run

LEMMA RunGrows ==
  ASSUME NEW r \in Ranks, NEW n \in Nat, n < W
  PROVE  Run(Pred(r), n) \o <<r>> = Run(r, n+1)
<1>1. /\ Pred(r) \in Ranks /\ r \in Nat /\ r < W
      /\ Pred(r) = IF r = 0 THEN W-1 ELSE r - 1
  BY RingFacts
<1>2. Run(Pred(r), n) \in Seq(Ranks) /\ Len(Run(Pred(r), n)) = n
  BY <1>1, RunFacts
<1>3. ASSUME NEW i \in 1..n PROVE (Pred(r) - n + i) % W = (r - (n+1) + i) % W
  BY <1>1, RemainderCases
<1>4. (r - (n+1) + (n+1)) % W = r
  BY <1>1, RemainderCases
<1>5. /\ Run(r, n+1) \in Seq(Ranks) /\ Len(Run(r, n+1)) = n+1
      /\ \A i \in 1..n+1 : Run(r, n+1)[i] = (r - (n+1) + i) % W
  BY RunFacts DEF Run
<1>6. \A i \in 1..n : Run(Pred(r), n)[i] = (Pred(r) - n + i) % W
  BY DEF Run
<1> DEFINE a == Run(Pred(r), n) \o <<r>>
<1>7. a \in Seq(Ranks) /\ Len(a) = n+1 /\ a[n+1] = r /\ \A i \in 1..n : a[i] = Run(Pred(r), n)[i]
  BY <1>2
<1>8. \A i \in 1..n+1 : a[i] = Run(r, n+1)[i]
  <2> HIDE DEF a
  <2> QED BY <1>3, <1>4, <1>5, <1>6, <1>7
<1> QED
  <2> HIDE DEF a
  <2>1. a = Run(r, n+1)
    BY <1>5, <1>7, <1>8
  <2> QED BY <2>1 DEF a

LEMMA RunWhole ==
  ASSUME NEW r \in Ranks
  PROVE  EveryRankOnce(Run(r, W))
<1>1. Len(Run(r, W)) = W
  BY RunFacts
<1>2. ASSUME NEW q \in Ranks PROVE \E i \in 1..W : Run(r, W)[i] = q
  <2>1. PICK i : i = IF q <= r THEN q - r + W ELSE q - r
    OBVIOUS
  <2>2. i \in 1..W /\ (r - W + i) % W = q
    BY <2>1, RemainderCases DEF Ranks
  <2> QED BY <2>2 DEF Run
<1> QED BY <1>1, <1>2 DEF EveryRankOnce

LEMMA CarriedFacts ==
  ASSUME NEW c \in Nat, NEW r \in Ranks, NEW k \in Nat
  PROVE  /\ Carried(c, r, k).call = c
         /\ Carried(c, r, 0) = Sum(c, <<r>>)
         /\ k >= W-1 => EveryRankOnce(Carried(c, r, k).ranks)
<1>1. (r - k - 1) % W \in Ranks
  BY RemainderCases DEF Ranks
<1>2. Run(r, 1) = <<r>>
  <2>1. Run(r, 1) \in Seq(Ranks) /\ Len(Run(r, 1)) = 1
    BY RunFacts
  <2>3. Run(r, 1)[1] = (r - 1 + 1) % W
    BY DEF Run
  <2>2. (r - 1 + 1) % W = r
    BY RemainderCases DEF Ranks
  <2> QED BY <2>1, <2>2, <2>3
<1> QED BY <1>1, <1>2, RunWhole DEF Carried, Sum

\* A hop adds the rank's own number while it reduces, and then passes on.
LEMMA CarriedNext ==
  ASSUME NEW c \in Nat, NEW r \in Ranks, NEW k \in Nat, k < 2*W - 2
  PROVE  /\ k < W-1 => Added(Carried(c, Pred(r), k), Sum(c, <<r>>)) = Carried(c, r, k+1)
         /\ k >= W-1 => Carried(c, Pred(r), k) = Carried(c, r, k+1)
<1>1. /\ Pred(r) \in Ranks /\ r \in Nat /\ r < W
      /\ Pred(r) = IF r = 0 THEN W-1 ELSE r - 1
  BY RingFacts
<1>2. ASSUME k < W-1
      PROVE  Added(Carried(c, Pred(r), k), Sum(c, <<r>>)) = Carried(c, r, k+1)
  <2>1. Run(Pred(r), k+1) \o <<r>> = Run(r, k+2)
    <3>1. PICK n \in Nat : n = k+1
      OBVIOUS
    <3>2. n < W /\ n + 1 = k+2
      BY <1>2, <3>1
    <3>3. Run(Pred(r), n) \o <<r>> = Run(r, n+1)
      BY <3>2, RunGrows
    <3> QED BY <3>1, <3>2, <3>3
  <2>2. Added(Carried(c, Pred(r), k), Sum(c, <<r>>)) = Sum(c, Run(r, k+2))
    BY <1>2, <2>1 DEF Added, Carried, Sum
  <2>3. Carried(c, r, k+1) = Sum(c, Run(r, k+2))
    <3>1. CASE k+1 < W-1
      BY <3>1 DEF Carried
    <3>2. CASE k+1 = W-1
      <4>1. (r - (k+1) - 1) % W = r /\ k + 2 = W
        BY <1>1, <3>2, RemainderCases
      <4> QED BY <3>2, <4>1 DEF Carried
    <3> QED BY <1>2, <3>1, <3>2
  <2> QED BY <2>2, <2>3
<1>3. ASSUME k >= W-1
      PROVE  Carried(c, Pred(r), k) = Carried(c, r, k+1)
  <2>1. (Pred(r) - k - 1) % W = (r - (k+1) - 1) % W
    <3>1. PICK a \in Int : a = Pred(r) - k - 1
      BY <1>1
    <3>2. PICK b \in Int : b = r - (k+1) - 1
      BY <1>1
    <3>3. a = b \/ a = b + W
      BY <1>1, <3>1, <3>2
    <3>4. a % W = b % W
      BY <3>3, RemainderShift
    <3> QED BY <3>1, <3>2, <3>4
  <2>2. ~(k < W-1) /\ ~(k + 1 < W-1)
    BY <1>3
  <2> QED BY <2>1, <2>2 DEF Carried
<1> QED BY <1>2, <1>3

-----------------------------------------------------------------------------
(* Calls and the slots they use.                                           *)

LEMMA RankTypes ==
  ASSUME TypeOK, NEW r \in Ranks
  PROVE  /\ program \in Seq(Jobs) /\ Len(program) \in Nat
         /\ \A c \in 1..Len(program) : program[c] \in Jobs
         /\ call[r] \in Nat /\ call[r] <= Len(program)
         /\ pc[r] \in {"idle", "quant", "wait", "land", "join", "handshake"}
         /\ pos[r] \in Nat /\ copied[r] \in Nat /\ flagged[r] \in Nat
<1>1. program \in Seq(Jobs)
  BY ProgramsAssumption DEF TypeOK
<1>2. Len(program) \in Nat /\ \A c \in 1..Len(program) : program[c] \in Jobs
  BY <1>1
<1> QED BY <1>1, <1>2 DEF TypeOK

LEMMA JobOf ==
  ASSUME TypeOK, NEW r \in Ranks, call[r] > 0
  PROVE  /\ Job(r) \in Jobs /\ call[r] \in 1..Len(program) /\ Job(r) = program[call[r]]
         /\ flagged[r] <= copied[r] /\ copied[r] <= N(Job(r)) /\ pos[r] <= N(Job(r))
<1>1. call[r] \in 1..Len(program)
  BY RankTypes
<1> QED BY <1>1, RankTypes DEF Job, TypeOK

LEMMA UsesFacts ==
  ASSUME TypeOK, NEW c \in 1..Len(program), NEW k
  PROVE  /\ Uses(c, k) \in Nat /\ Uses(c-1, k) \in Nat
         /\ k <= N(program[c]) => Uses(c, k) = Uses(c-1, k) + 1
         /\ ~(k <= N(program[c])) => Uses(c, k) = Uses(c-1, k)
<1> DEFINE S(n) == {i \in 1..n : k <= N(program[i])}
<1>1. \A n \in Nat : IsFiniteSet(S(n))
  <2>1. \A n \in Nat : IsFiniteSet(1..n) /\ S(n) \subseteq 1..n
    BY FS_Interval
  <2> QED BY <2>1, FS_Subset
<1>2. c \in Nat /\ c-1 \in Nat /\ c \notin S(c-1)
  BY RankTypes
<1>3. Cardinality(S(c)) \in Nat /\ Cardinality(S(c-1)) \in Nat
  BY <1>1, <1>2, FS_CardinalityType
<1>4. k <= N(program[c]) => S(c) = S(c-1) \cup {c}
  BY <1>2
<1>5. ~(k <= N(program[c])) => S(c) = S(c-1)
  BY <1>2
<1>6. k <= N(program[c]) => Cardinality(S(c)) = Cardinality(S(c-1)) + 1
  <2> HIDE DEF S
  <2> QED BY <1>1, <1>2, <1>4, FS_AddElement
<1> QED BY <1>3, <1>5, <1>6 DEF Uses

LEMMA UsesMonotone ==
  ASSUME TypeOK, NEW c \in 0..Len(program), NEW d \in 1..Len(program), NEW k
  PROVE  /\ c <= d => Uses(c, k) <= Uses(d, k)
         /\ c < d /\ k <= N(program[d]) => Uses(c, k) < Uses(d, k)
         /\ Uses(c, k) \in Nat /\ Uses(0, k) = 0 /\ Uses(-1, k) = 0
<1> DEFINE S(n) == {i \in 1..n : k <= N(program[i])}
<1>1. \A n \in Nat : IsFiniteSet(S(n)) /\ Cardinality(S(n)) \in Nat
  <2>1. \A n \in Nat : IsFiniteSet(1..n) /\ S(n) \subseteq 1..n
    BY FS_Interval
  <2> QED BY <2>1, FS_Subset, FS_CardinalityType
<1>2. \A m, n \in Nat : m <= n => Cardinality(S(m)) <= Cardinality(S(n))
  <2>1. \A m, n \in Nat : m <= n => S(m) \subseteq S(n)
    OBVIOUS
  <2> HIDE DEF S
  <2> QED BY <1>1, <2>1, FS_Subset
<1>3. c \in Nat /\ d \in Nat /\ d-1 \in Nat
  OBVIOUS
<1>4. S(0) = {} /\ S(-1) = {}
  OBVIOUS
<1>5. Uses(0, k) = 0 /\ Uses(-1, k) = 0
  BY <1>4, FS_EmptySet DEF Uses
<1>6. Uses(c, k) = Cardinality(S(c)) /\ Uses(d, k) = Cardinality(S(d)) /\ Uses(d-1, k) = Cardinality(S(d-1))
  BY DEF Uses
<1>7. k <= N(program[d]) => Uses(d, k) = Uses(d-1, k) + 1
  BY UsesFacts
<1> HIDE DEF S
<1>8. c <= d => Uses(c, k) <= Uses(d, k)
  BY <1>2, <1>3, <1>6
<1>9. c < d => Uses(c, k) <= Uses(d-1, k)
  BY <1>2, <1>3, <1>6
<1>10. Uses(c, k) \in Nat /\ Uses(d, k) \in Nat /\ Uses(d-1, k) \in Nat
  BY <1>1, <1>3, <1>6
<1> QED BY <1>5, <1>7, <1>8, <1>9, <1>10

-----------------------------------------------------------------------------
(* Steps.                                                                  *)

StepBy(r) == Enter(r) \/ MainStep(r) \/ CopyStep(r) \/ FlagStep(r)

Same(s) == /\ call'[s] = call[s] /\ pc'[s] = pc[s] /\ pos'[s] = pos[s]
           /\ copied'[s] = copied[s] /\ flagged'[s] = flagged[s]

\* A rank goes on in its call, or from the end of one into the next.
Onward(s) ==
  \/ /\ call'[s] = call[s] /\ pos'[s] >= pos[s] /\ copied'[s] >= copied[s]
     /\ flagged'[s] >= flagged[s] /\ Waited(s)' >= Waited(s)
     /\ pc[s] \in {"handshake", "idle"} => pc'[s] \in {"handshake", "idle"}
  \/ call'[s] = call[s] + 1 /\ pc[s] = "idle"

LEMMA StepOthers ==
  ASSUME TypeOK, NEW r \in Ranks, StepBy(r)
  PROVE  program' = program /\ \A s \in Ranks : s # r => Same(s)
<1>1. CASE Enter(r)
  BY <1>1 DEF TypeOK, Enter, Same
<1>2. CASE Quant(r)
  BY <1>2 DEF TypeOK, Quant, Same
<1>3. CASE WaitData(r)
  BY <1>3 DEF TypeOK, WaitData, Same
<1>4. CASE Land(r)
  BY <1>4 DEF TypeOK, Land, Same
<1>5. CASE Handshake(r)
  BY <1>5 DEF TypeOK, Handshake, Same
<1>6. CASE Finish(r)
  BY <1>6 DEF TypeOK, Finish, Same
<1>7. CASE CopyStep(r)
  BY <1>7 DEF TypeOK, CopyStep, Same
<1>8. CASE FlagStep(r)
  BY <1>8 DEF TypeOK, FlagStep, Same
<1> QED BY <1>1, <1>2, <1>3, <1>4, <1>5, <1>6, <1>7, <1>8 DEF StepBy, MainStep

\* What the step of a rank does to its own streams.
LEMMA StepOwn ==
  ASSUME TypeOK, Positions, NEW r \in Ranks, StepBy(r)
  PROVE  \/ /\ Enter(r) /\ call'[r] = call[r] + 1 /\ pos'[r] = 0 /\ copied'[r] = 0
            /\ flagged'[r] = 0 /\ pc[r] = "idle" /\ call'[r] \in 1..Len(program)
            /\ pc'[r] = Before(program[call'[r]], 0)
         \/ /\ ~Enter(r) /\ call[r] > 0 /\ call' = call
            /\ \/ Quant(r) /\ pc[r] = "quant" /\ pc'[r] = "wait"
                  /\ pos' = pos /\ copied' = copied /\ flagged' = flagged
               \/ WaitData(r) /\ pc[r] = "wait" /\ pc'[r] = "land"
                  /\ pos' = pos /\ copied' = copied /\ flagged' = flagged
               \/ Land(r) /\ pc[r] = "land" /\ pc'[r] = Before(Job(r), pos[r] + 1)
                  /\ pos'[r] = pos[r] + 1 /\ pos[r] < N(Job(r))
                  /\ copied' = copied /\ flagged' = flagged
               \/ Handshake(r) /\ pc[r] = "join" /\ pc'[r] = "handshake"
                  /\ copied[r] = N(Job(r)) /\ flagged[r] = N(Job(r))
                  /\ pos' = pos /\ copied' = copied /\ flagged' = flagged
               \/ Finish(r) /\ pc[r] = "handshake" /\ pc'[r] = "idle"
                  /\ pos' = pos /\ copied' = copied /\ flagged' = flagged
               \/ CopyStep(r) /\ copied[r] < N(Job(r)) /\ copied'[r] = copied[r] + 1
                  /\ pc[r] # "idle" /\ SendReady(r, copied[r])
                  /\ pc' = pc /\ pos' = pos /\ flagged' = flagged
               \/ FlagStep(r) /\ flagged[r] < copied[r] /\ flagged'[r] = flagged[r] + 1
                  /\ pc' = pc /\ pos' = pos /\ copied' = copied
<1>0. /\ call[r] \in Nat /\ Len(program) \in Nat /\ call[r] <= Len(program)
      /\ pc[r] # "idle" => call[r] > 0
      /\ call[r] = 0 => copied[r] = 0 /\ flagged[r] = 0
      /\ pos[r] \in Nat
  BY RankTypes DEF Positions, PositionOf
<1>1. CASE Enter(r)
  BY <1>0, <1>1 DEF TypeOK, Enter
<1>2. CASE Quant(r) /\ ~Enter(r)
  BY <1>0, <1>2 DEF TypeOK, Quant
<1>3. CASE WaitData(r) /\ ~Enter(r)
  BY <1>0, <1>3 DEF TypeOK, WaitData
<1>4. CASE Land(r) /\ ~Enter(r)
  <2>1. pos[r] < N(Job(r))
    BY <1>0, <1>4 DEF Positions, PositionOf, Land
  <2> QED BY <1>0, <1>4, <2>1 DEF TypeOK, Land
<1>5. CASE Handshake(r) /\ ~Enter(r)
  BY <1>0, <1>5 DEF TypeOK, Handshake
<1>6. CASE Finish(r) /\ ~Enter(r)
  BY <1>0, <1>6 DEF TypeOK, Finish
<1>7. CASE CopyStep(r) /\ ~Enter(r)
  <2>1. /\ CopyReady(r) /\ copied'[r] = copied[r] + 1
        /\ call' = call /\ pc' = pc /\ pos' = pos /\ flagged' = flagged
    BY <1>7 DEF TypeOK, CopyStep
  <2>2. call[r] > 0 /\ pc[r] # "idle" /\ copied[r] < N(Job(r)) /\ SendReady(r, copied[r])
    BY <2>1 DEF CopyReady, SendReady
  <2> QED BY <1>7, <2>1, <2>2
<1>8. CASE FlagStep(r) /\ ~Enter(r)
  <2>1. call[r] > 0
    BY <1>0, <1>8 DEF FlagStep
  <2> QED BY <1>8, <2>1 DEF TypeOK, FlagStep
<1> QED BY <1>1, <1>2, <1>3, <1>4, <1>5, <1>6, <1>7, <1>8 DEF StepBy, MainStep

LEMMA BeforeFacts ==
  ASSUME NEW j \in Jobs, NEW i \in Nat
  PROVE  /\ Before(j, i) \in {"join", "quant", "wait"}
         /\ Before(j, i) = "join" <=> i = N(j)
         /\ Before(j, i) = "quant" => Quants(j, i)
         /\ i # N(j) /\ Before(j, i) # "quant" => ~Quants(j, i)
  BY DEF Before

LEMMA StepOnward ==
  ASSUME TypeOK, Positions, NEW r \in Ranks, StepBy(r)
  PROVE  \A s \in Ranks : Onward(s)
<1>1. ASSUME NEW s \in Ranks, s # r PROVE Onward(s)
  <2>1. Same(s)
    BY <1>1, StepOthers
  <2>2. pos[s] \in Nat /\ copied[s] \in Nat /\ flagged[s] \in Nat
    BY RankTypes
  <2> QED BY <2>1, <2>2 DEF Same, Onward, Waited
<1>2. Onward(r)
  <2>1. pos[r] \in Nat /\ copied[r] \in Nat /\ flagged[r] \in Nat
    BY RankTypes
  <2>2. CASE Enter(r)
    BY <2>2, StepOwn DEF Onward
  <2>3. CASE ~Enter(r)
    <3>1. call[r] > 0 /\ Before(Job(r), pos[r] + 1) \in {"join", "quant", "wait"}
      BY <2>1, <2>3, StepOwn, JobOf, BeforeFacts
    <3> QED BY <2>1, <2>3, <3>1, StepOwn DEF Onward, Waited
  <2> QED BY <2>2, <2>3
<1> QED BY <1>1, <1>2

-----------------------------------------------------------------------------
(* Types and positions.                                                    *)

LEMMA SumTypes ==
  ASSUME TypeOK
  PROVE  /\ Garbage \in Sums
         /\ \A c \in 0..Len(program), r \in Ranks : Sum(c, <<r>>) \in Sums
         /\ \A s, t \in Sums : Added(s, t) \in Sums
         /\ \A s, t \in Sums : s.call = t.call => Added(s, t) = Sum(s.call, s.ranks \o t.ranks)
<1>1. program \in Seq(Jobs) /\ Len(program) \in Nat
  BY ProgramsAssumption DEF TypeOK
<1>2. Garbage \in Sums
  BY <1>1 DEF Garbage, Sum, Sums
<1>3. \A c \in 0..Len(program), r \in Ranks : Sum(c, <<r>>) \in Sums
  BY DEF Sum, Sums
<1>4. ASSUME NEW s \in Sums, NEW t \in Sums PROVE Added(s, t) \in Sums
  <2>1. s.ranks \o t.ranks \in Seq(Ranks) /\ s.call \in 0..Len(program)
    BY DEF Sums
  <2> QED BY <1>2, <2>1 DEF Added, Sum, Sums
<1> QED BY <1>2, <1>3, <1>4 DEF Added

LEMMA CellTypes ==
  ASSUME TypeOK, NEW r \in Ranks, NEW c \in Ranks, NEW x \in Cells
  PROVE  /\ buf[r][c][x] \in Sums /\ stage[r][c][x] \in Sums
         /\ \A k \in 0..MaxSteps-1 : scratch[r][k][x] \in Sums
         /\ call[r] > 0 => Input(r, c, x) \in Sums
<1>1. call[r] > 0 => call[r] \in 0..Len(program)
  BY RankTypes
<1>2. buf[r] \in [Ranks -> [Cells -> Sums]] /\ stage[r] \in [Ranks -> [Cells -> Sums]]
  BY DEF TypeOK
<1>3. scratch[r] \in [0..MaxSteps-1 -> [Cells -> Sums]]
  BY DEF TypeOK
<1>4. /\ buf[r][c][x] \in Sums /\ stage[r][c][x] \in Sums
      /\ \A k \in 0..MaxSteps-1 : scratch[r][k][x] \in Sums
  BY <1>2, <1>3
<1>5. call[r] > 0 => Input(r, c, x) \in Sums
  BY <1>1, <1>4, SumTypes DEF Input
<1> QED BY <1>4, <1>5

\* Pairs, steps and chunks of a rank that is in a call.
LEMMA InCall ==
  ASSUME TypeOK, NEW r \in Ranks, call[r] > 0, NEW i \in Nat, i < N(Job(r))
  PROVE  /\ Job(r) \in Jobs /\ StepOf(Job(r), i) \in Nat /\ StepOf(Job(r), i) < Steps(Job(r))
         /\ StepOf(Job(r), i) \in 0..MaxSteps-1
         /\ StepOf(Job(r), i) > 0 => StepOf(Job(r), i) - 1 \in 0..MaxSteps-1
         /\ SendChunk(Job(r), r, StepOf(Job(r), i)) \in Ranks
         /\ RecvChunk(Job(r), r, StepOf(Job(r), i)) \in Ranks
         /\ CellsOf(Job(r), i) \subseteq Cells
<1>1. Job(r) \in Jobs
  BY JobOf
<1>2. StepOf(Job(r), i) \in Nat /\ StepOf(Job(r), i) < Steps(Job(r)) /\ CellsOf(Job(r), i) \subseteq Cells
  BY <1>1, PairFacts
<1>3. Steps(Job(r)) <= MaxSteps /\ MaxSteps \in Nat /\ Steps(Job(r)) \in Nat
  BY <1>1, JobFacts DEF MaxSteps
<1>4. StepOf(Job(r), i) \in 0..MaxSteps-1 /\ (StepOf(Job(r), i) > 0 => StepOf(Job(r), i) - 1 \in 0..MaxSteps-1)
  BY <1>2, <1>3
<1>5. SendChunk(Job(r), r, StepOf(Job(r), i)) \in Ranks /\ RecvChunk(Job(r), r, StepOf(Job(r), i)) \in Ranks
  BY <1>1, <1>2, ChunkForm
<1> QED BY <1>1, <1>2, <1>4, <1>5

LEMMA SetFlagEffect ==
  ASSUME TypeOK, NEW r \in Ranks, NEW t \in Ranks, NEW k \in FlagSlots, SetFlag(r, t, k)
  PROVE  /\ flag' \in [Ranks -> [FlagSlots -> Nat]]
         /\ sent' \in [Ranks -> [FlagSlots -> Nat]]
         /\ waited' = waited
         /\ sent'[r][k] = sent[r][k] + 1 /\ flag'[t][k] = sent[r][k] + 1
         /\ \A s \in Ranks, j \in FlagSlots :
              /\ s # r \/ j # k => sent'[s][j] = sent[s][j]
              /\ s # t \/ j # k => flag'[s][j] = flag[s][j]
<1>1. sent[r] \in [FlagSlots -> Nat] /\ flag[t] \in [FlagSlots -> Nat] /\ sent[r][k] + 1 \in Nat
  BY DEF TypeOK
<1> QED BY <1>1 DEF SetFlag, TypeOK

LEMMA WaitFlagEffect ==
  ASSUME TypeOK, NEW r \in Ranks, NEW k \in FlagSlots, WaitFlag(r, k)
  PROVE  /\ waited' \in [Ranks -> [FlagSlots -> Nat]]
         /\ flag' = flag /\ sent' = sent
         /\ flag[r][k] >= waited[r][k] + 1
         /\ waited'[r][k] = waited[r][k] + 1
         /\ \A s \in Ranks, j \in FlagSlots :
              s # r \/ j # k => waited'[s][j] = waited[s][j]
<1>1. waited[r] \in [FlagSlots -> Nat] /\ waited[r][k] + 1 \in Nat
  BY DEF TypeOK
<1> QED BY <1>1 DEF WaitFlag, TypeOK

\* The slots of a call are slots.
LEMMA SlotInCall ==
  ASSUME TypeOK, NEW r \in Ranks, call[r] > 0, NEW k \in Nat, k <= N(Job(r))
  PROVE  k \in FlagSlots
<1>1. N(Job(r)) \in FlagSlots /\ N(Job(r)) \in Nat
  BY JobOf, JobFacts
<1> QED BY <1>1 DEF FlagSlots, MaxSteps

\* The flag steps with the slots that they set and wait for.
LEMMA FlagActions ==
  ASSUME TypeOK, Positions, NEW r \in Ranks
  PROVE  /\ WaitData(r) => call[r] > 0 /\ pos[r] \in FlagSlots /\ WaitFlag(r, pos[r])
                           /\ pos[r] < N(Job(r))
         /\ Finish(r) => call[r] > 0 /\ N(Job(r)) \in FlagSlots /\ WaitFlag(r, N(Job(r)))
         /\ Handshake(r) => /\ call[r] > 0 /\ N(Job(r)) \in FlagSlots
                            /\ SetFlag(r, Pred(r), N(Job(r)))
         /\ FlagStep(r) => /\ call[r] > 0 /\ flagged[r] \in FlagSlots /\ flagged[r] < N(Job(r))
                           /\ SetFlag(r, Succ(r), flagged[r])
<1>1. /\ pos[r] \in Nat /\ flagged[r] \in Nat /\ copied[r] \in Nat /\ call[r] \in Nat
      /\ pc[r] # "idle" => call[r] > 0
      /\ call[r] = 0 => copied[r] = 0 /\ flagged[r] = 0
  BY RankTypes DEF Positions, PositionOf
<1>2. call[r] > 0 => N(Job(r)) \in FlagSlots /\ N(Job(r)) \in Nat
  BY JobOf, JobFacts
<1>3. WaitData(r) => call[r] > 0 /\ pos[r] \in FlagSlots /\ WaitFlag(r, pos[r]) /\ pos[r] < N(Job(r))
  BY <1>1, <1>2, SlotInCall DEF WaitData, Positions, PositionOf
<1>4. FlagStep(r) => /\ call[r] > 0 /\ flagged[r] \in FlagSlots /\ flagged[r] < N(Job(r))
                     /\ SetFlag(r, Succ(r), flagged[r])
  <2>1. FlagStep(r) => call[r] > 0 /\ flagged[r] < copied[r]
    BY <1>1 DEF FlagStep
  <2>2. call[r] > 0 => copied[r] <= N(Job(r))
    BY JobOf
  <2> QED BY <1>1, <1>2, <2>1, <2>2, SlotInCall DEF FlagStep
<1>5. Finish(r) => call[r] > 0 /\ N(Job(r)) \in FlagSlots /\ WaitFlag(r, N(Job(r)))
  BY <1>1, <1>2 DEF Finish
<1>6. Handshake(r) => /\ call[r] > 0 /\ N(Job(r)) \in FlagSlots
                      /\ SetFlag(r, Pred(r), N(Job(r)))
  BY <1>1, <1>2 DEF Handshake
<1> QED BY <1>3, <1>4, <1>5, <1>6

\* Only Enter, Quant, Land and CopyStep write memory; only the flag steps write flags.
LEMMA StreamTypes ==
  ASSUME TypeOK, Positions, NEW r \in Ranks, StepBy(r)
  PROVE  /\ program' \in Programs /\ call' \in [Ranks -> 0..Len(program')]
         /\ pc' \in [Ranks -> {"idle", "quant", "wait", "land", "join", "handshake"}]
         /\ pos' \in [Ranks -> Nat] /\ copied' \in [Ranks -> Nat] /\ flagged' \in [Ranks -> Nat]
         /\ \A s \in Ranks : call'[s] > 0 =>
              flagged'[s] <= copied'[s] /\ copied'[s] <= N(Job(s)') /\ pos'[s] <= N(Job(s)')
<1>1. /\ pos[r] \in Nat /\ flagged[r] \in Nat /\ copied[r] \in Nat /\ call[r] \in Nat
      /\ Len(program) \in Nat /\ \A c \in 1..Len(program) : program[c] \in Jobs
  BY RankTypes
<1>2. program' = program
  BY StepOthers
<1>3. CASE Enter(r)
  <2>1. call'[r] \in 1..Len(program) /\ N(program[call'[r]]) \in Nat
        /\ Before(program[call'[r]], 0) \in {"join", "quant", "wait"}
    BY <1>1, <1>3, StepOwn, JobFacts, BeforeFacts
  <2>2. /\ call' \in [Ranks -> 0..Len(program')] /\ pos' \in [Ranks -> Nat]
        /\ copied' \in [Ranks -> Nat] /\ flagged' \in [Ranks -> Nat]
        /\ pc' \in [Ranks -> {"idle", "quant", "wait", "land", "join", "handshake"}]
    BY <1>1, <1>2, <1>3, <2>1 DEF Enter, TypeOK
  <2>3. \A s \in Ranks : call'[s] > 0 =>
          flagged'[s] <= copied'[s] /\ copied'[s] <= N(Job(s)') /\ pos'[s] <= N(Job(s)')
    <3>1. ASSUME NEW s \in Ranks, s # r, call'[s] > 0
          PROVE  flagged'[s] <= copied'[s] /\ copied'[s] <= N(Job(s)') /\ pos'[s] <= N(Job(s)')
      BY <1>2, <3>1, StepOthers DEF Same, Job, TypeOK
    <3>2. flagged'[r] <= copied'[r] /\ copied'[r] <= N(Job(r)') /\ pos'[r] <= N(Job(r)')
      <4>1. Job(r)' = program[call'[r]]
        BY <1>2 DEF Job
      <4> QED BY <1>3, <2>1, <4>1, StepOwn
    <3> QED BY <3>1, <3>2
  <2> QED BY <1>2, <2>2, <2>3 DEF TypeOK
<1>4. CASE ~Enter(r)
  <2>1. /\ call[r] > 0 /\ call' = call /\ N(Job(r)) \in Nat
        /\ Before(Job(r), pos[r] + 1) \in {"join", "quant", "wait"}
    BY <1>1, <1>4, StepOwn, JobOf, JobFacts, BeforeFacts
  <2>2. /\ pos' \in [Ranks -> Nat] /\ copied' \in [Ranks -> Nat] /\ flagged' \in [Ranks -> Nat]
        /\ pc' \in [Ranks -> {"idle", "quant", "wait", "land", "join", "handshake"}]
    <3>1. CASE Quant(r)
      BY <3>1 DEF Quant, TypeOK
    <3>2. CASE WaitData(r)
      BY <3>2 DEF WaitData, TypeOK
    <3>3. CASE Land(r)
      BY <1>1, <2>1, <3>3 DEF Land, TypeOK
    <3>4. CASE Handshake(r)
      BY <3>4 DEF Handshake, TypeOK
    <3>5. CASE Finish(r)
      BY <3>5 DEF Finish, TypeOK
    <3>6. CASE CopyStep(r)
      BY <1>1, <3>6 DEF CopyStep, TypeOK
    <3>7. CASE FlagStep(r)
      BY <1>1, <3>7 DEF FlagStep, TypeOK
    <3> QED BY <1>4, <3>1, <3>2, <3>3, <3>4, <3>5, <3>6, <3>7, StepOwn
  <2>3. \A s \in Ranks : s # r /\ call'[s] > 0 =>
          flagged'[s] <= copied'[s] /\ copied'[s] <= N(Job(s)') /\ pos'[s] <= N(Job(s)')
    BY <1>2, StepOthers DEF Same, Job, TypeOK
  <2>4. /\ flagged[r] <= copied[r] /\ copied[r] <= N(Job(r)) /\ pos[r] <= N(Job(r))
        /\ Job(r)' = Job(r)
    BY <1>2, <2>1, JobOf DEF Job
  <2>5. flagged'[r] <= copied'[r] /\ copied'[r] <= N(Job(r)') /\ pos'[r] <= N(Job(r)')
    BY <1>1, <1>4, <2>1, <2>4, StepOwn
  <2> QED BY <1>2, <2>1, <2>2, <2>3, <2>5 DEF TypeOK
<1> QED BY <1>3, <1>4

-----------------------------------------------------------------------------
(* What the steps write.                                                   *)

LEMMA SlotUpdate ==
  ASSUME NEW S, NEW I, NEW M \in [Ranks -> [I -> [Cells -> S]]], NEW r \in Ranks, NEW c \in I,
         NEW f \in [Cells -> S], NEW M2, M2 = [M EXCEPT ![r][c] = f]
  PROVE  /\ M2 \in [Ranks -> [I -> [Cells -> S]]]
         /\ M2[r][c] = f
         /\ \A s \in Ranks, d \in I : s # r \/ d # c => M2[s][d] = M[s][d]
<1>1. M[r] \in [I -> [Cells -> S]] /\ M2 = [M EXCEPT ![r] = [M[r] EXCEPT ![c] = f]]
  OBVIOUS
<1>2. [M[r] EXCEPT ![c] = f] \in [I -> [Cells -> S]]
  BY <1>1
<1> QED BY <1>1, <1>2

LEMMA QuantEffect ==
  ASSUME TypeOK, Positions, NEW r \in Ranks, Quant(r)
  PROVE  LET k == StepOf(Job(r), pos[r])
             c == SendChunk(Job(r), r, k)
         IN /\ stage' \in [Ranks -> [Ranks -> [Cells -> Sums]]]
            /\ buf' = buf /\ scratch' = scratch
            /\ c \in Ranks /\ pos[r] < N(Job(r)) /\ call[r] > 0
            /\ \A s, d \in Ranks : s # r \/ d # c => stage'[s][d] = stage[s][d]
            /\ \A x \in Cells : stage'[r][c][x] =
                 IF x \notin QuantCells(Job(r), pos[r]) THEN stage[r][c][x]
                 ELSE IF Reduces(Job(r), k) THEN Input(r, c, x) ELSE buf[r][c][x]
<1> DEFINE k == StepOf(Job(r), pos[r])
           c == SendChunk(Job(r), r, k)
           f == [x \in Cells |-> IF x \notin QuantCells(Job(r), pos[r]) THEN stage[r][c][x]
                                 ELSE IF Reduces(Job(r), k) THEN Input(r, c, x) ELSE buf[r][c][x]]
<1>1. pos[r] \in Nat /\ call[r] > 0 /\ pos[r] < N(Job(r))
  BY RankTypes DEF Quant, Positions, PositionOf
<1>2. c \in Ranks
  BY <1>1, InCall
<1>3. f \in [Cells -> Sums]
  BY <1>1, <1>2, CellTypes
<1>4. stage' = [stage EXCEPT ![r][c] = f] /\ buf' = buf /\ scratch' = scratch
  BY <1>2 DEF Quant, TypeOK
<1>5. \A x \in Cells : f[x] = IF x \notin QuantCells(Job(r), pos[r]) THEN stage[r][c][x]
                              ELSE IF Reduces(Job(r), k) THEN Input(r, c, x) ELSE buf[r][c][x]
  OBVIOUS
<1>6. stage \in [Ranks -> [Ranks -> [Cells -> Sums]]]
  BY DEF TypeOK
<1> HIDE DEF f, c, k
<1>7. /\ stage' \in [Ranks -> [Ranks -> [Cells -> Sums]]] /\ stage'[r][c] = f
      /\ \A s, d \in Ranks : s # r \/ d # c => stage'[s][d] = stage[s][d]
  BY <1>2, <1>3, <1>4, <1>6, SlotUpdate
<1> QED BY <1>1, <1>2, <1>4, <1>5, <1>7 DEF c, k

LEMMA LandEffect ==
  ASSUME TypeOK, Positions, NEW r \in Ranks, Land(r)
  PROVE  LET k == StepOf(Job(r), pos[r])
             c == RecvChunk(Job(r), r, k)
         IN /\ buf' \in [Ranks -> [Ranks -> [Cells -> Sums]]]
            /\ stage' \in [Ranks -> [Ranks -> [Cells -> Sums]]]
            /\ scratch' = scratch
            /\ c \in Ranks /\ pos[r] < N(Job(r)) /\ call[r] > 0
            /\ \A s, d \in Ranks : s # r \/ d # c => buf'[s][d] = buf[s][d] /\ stage'[s][d] = stage[s][d]
            /\ \A x \in Cells :
                 /\ buf'[r][c][x] = IF "buf" \in LandAreas(Job(r), k) /\ x \in CellsOf(Job(r), pos[r])
                                    THEN Landed(r, c, x) ELSE buf[r][c][x]
                 /\ stage'[r][c][x] = IF "stage" \in LandAreas(Job(r), k) /\ x \in CellsOf(Job(r), pos[r])
                                      THEN Landed(r, c, x) ELSE stage[r][c][x]
<1> DEFINE k == StepOf(Job(r), pos[r])
           c == RecvChunk(Job(r), r, k)
           f == [x \in Cells |-> IF x \in CellsOf(Job(r), pos[r]) THEN Landed(r, c, x) ELSE buf[r][c][x]]
           g == [x \in Cells |-> IF x \in CellsOf(Job(r), pos[r]) THEN Landed(r, c, x) ELSE stage[r][c][x]]
<1>1. pos[r] \in Nat /\ call[r] > 0 /\ pos[r] < N(Job(r))
  BY RankTypes DEF Land, Positions, PositionOf
<1>2. c \in Ranks /\ k \in 0..MaxSteps-1
  BY <1>1, InCall
<1>3. \A x \in Cells : Landed(r, c, x) \in Sums
  <2>1. \A x \in Cells : scratch[r][k][x] \in Sums /\ Input(r, c, x) \in Sums
    BY <1>1, <1>2, CellTypes
  <2> QED BY <2>1, SumTypes DEF Landed
<1>4. f \in [Cells -> Sums] /\ g \in [Cells -> Sums]
  <2>1. \A x \in Cells : buf[r][c][x] \in Sums /\ stage[r][c][x] \in Sums
    BY <1>2, CellTypes
  <2> HIDE DEF c, k
  <2> QED BY <1>3, <2>1
<1>5. buf \in [Ranks -> [Ranks -> [Cells -> Sums]]] /\ stage \in [Ranks -> [Ranks -> [Cells -> Sums]]]
  BY DEF TypeOK
<1>6. /\ buf' = IF "buf" \in LandAreas(Job(r), k) THEN [buf EXCEPT ![r][c] = f] ELSE buf
      /\ stage' = IF "stage" \in LandAreas(Job(r), k) THEN [stage EXCEPT ![r][c] = g] ELSE stage
      /\ scratch' = scratch
  BY <1>2, <1>5 DEF Land
<1>7. \A x \in Cells :
        /\ f[x] = IF x \in CellsOf(Job(r), pos[r]) THEN Landed(r, c, x) ELSE buf[r][c][x]
        /\ g[x] = IF x \in CellsOf(Job(r), pos[r]) THEN Landed(r, c, x) ELSE stage[r][c][x]
  OBVIOUS
<1> HIDE DEF f, g, c, k
<1>8. "buf" \in LandAreas(Job(r), k) =>
        /\ buf' \in [Ranks -> [Ranks -> [Cells -> Sums]]] /\ buf'[r][c] = f
        /\ \A s, d \in Ranks : s # r \/ d # c => buf'[s][d] = buf[s][d]
  BY <1>2, <1>4, <1>5, <1>6, SlotUpdate
<1>9. "stage" \in LandAreas(Job(r), k) =>
        /\ stage' \in [Ranks -> [Ranks -> [Cells -> Sums]]] /\ stage'[r][c] = g
        /\ \A s, d \in Ranks : s # r \/ d # c => stage'[s][d] = stage[s][d]
  BY <1>2, <1>4, <1>5, <1>6, SlotUpdate
<1> QED BY <1>1, <1>2, <1>5, <1>6, <1>7, <1>8, <1>9 DEF c, k

LEMMA CopyEffect ==
  ASSUME TypeOK, Positions, NEW r \in Ranks, CopyStep(r)
  PROVE  LET k == StepOf(Job(r), copied[r]) IN
         /\ scratch' \in [Ranks -> [0..MaxSteps-1 -> [Cells -> Sums]]]
         /\ buf' = buf /\ stage' = stage
         /\ k \in 0..MaxSteps-1 /\ copied[r] < N(Job(r)) /\ call[r] > 0
         /\ \A s \in Ranks, d \in 0..MaxSteps-1 : s # Succ(r) \/ d # k => scratch'[s][d] = scratch[s][d]
         /\ \A x \in Cells : scratch'[Succ(r)][k][x] =
              IF x \in CellsOf(Job(r), copied[r]) THEN CopySource(r, x) ELSE scratch[Succ(r)][k][x]
<1> DEFINE k == StepOf(Job(r), copied[r])
           c == SendChunk(Job(r), r, k)
           f == [x \in Cells |-> IF x \in CellsOf(Job(r), copied[r]) THEN CopySource(r, x)
                                 ELSE scratch[Succ(r)][k][x]]
<1>1. copied[r] \in Nat /\ call[r] > 0 /\ copied[r] < N(Job(r)) /\ Succ(r) \in Ranks
  BY RankTypes, RingFacts DEF CopyStep, CopyReady
<1>2. c \in Ranks /\ k \in 0..MaxSteps-1 /\ k \in Nat /\ (k > 0 => k-1 \in 0..MaxSteps-1)
  BY <1>1, InCall
<1>3. ASSUME NEW x \in Cells PROVE CopySource(r, x) \in Sums
  <2>1. buf[r][c][x] \in Sums /\ stage[r][c][x] \in Sums /\ Input(r, c, x) \in Sums
        /\ (k > 0 => scratch[r][k-1][x] \in Sums)
    BY <1>1, <1>2, CellTypes
  <2>2. /\ CopyArea(r) \in {"stage", "scratch", "input", "buf"}
        /\ CopyArea(r) = "scratch" => k > W-1
    BY DEF CopyArea
  <2>3. CopyArea(r) = "stage" => CopySource(r, x) = stage[r][c][x]
    BY DEF CopySource
  <2>4. CopyArea(r) = "scratch" => CopySource(r, x) = scratch[r][k-1][x]
    BY DEF CopySource
  <2>5. CopyArea(r) = "input" => CopySource(r, x) = Input(r, c, x)
    BY DEF CopySource
  <2>6. CopyArea(r) = "buf" => CopySource(r, x) = buf[r][c][x]
    BY DEF CopySource
  <2> HIDE DEF c, k
  <2> QED BY <1>2, <2>1, <2>2, <2>3, <2>4, <2>5, <2>6
<1>4. f \in [Cells -> Sums]
  <2>1. \A x \in Cells : scratch[Succ(r)][k][x] \in Sums
    BY <1>1, <1>2, CellTypes
  <2> HIDE DEF k
  <2> QED BY <1>3, <2>1
<1>5. scratch' = [scratch EXCEPT ![Succ(r)][k] = f] /\ buf' = buf /\ stage' = stage
  BY <1>1, <1>2 DEF CopyStep, TypeOK
<1>6. \A x \in Cells : f[x] = IF x \in CellsOf(Job(r), copied[r]) THEN CopySource(r, x)
                              ELSE scratch[Succ(r)][k][x]
  OBVIOUS
<1>7. scratch \in [Ranks -> [0..MaxSteps-1 -> [Cells -> Sums]]]
  BY DEF TypeOK
<1> HIDE DEF f, c, k
<1>8. /\ scratch' \in [Ranks -> [0..MaxSteps-1 -> [Cells -> Sums]]] /\ scratch'[Succ(r)][k] = f
      /\ \A s \in Ranks, d \in 0..MaxSteps-1 : s # Succ(r) \/ d # k => scratch'[s][d] = scratch[s][d]
  <2> DEFINE I == 0..MaxSteps-1
  <2>1. scratch \in [Ranks -> [I -> [Cells -> Sums]]] /\ k \in I
    BY <1>2, <1>7
  <2> HIDE DEF I
  <2>2. /\ scratch' \in [Ranks -> [I -> [Cells -> Sums]]] /\ scratch'[Succ(r)][k] = f
        /\ \A s \in Ranks, d \in I : s # Succ(r) \/ d # k => scratch'[s][d] = scratch[s][d]
    BY <1>1, <1>4, <1>5, <2>1, SlotUpdate
  <2> QED BY <2>2 DEF I
<1> QED BY <1>1, <1>2, <1>5, <1>6, <1>8 DEF k

LEMMA EnterEffect ==
  ASSUME TypeOK, Positions, NEW r \in Ranks, Enter(r)
  PROVE  /\ buf' \in [Ranks -> [Ranks -> [Cells -> Sums]]]
         /\ stage' = stage /\ scratch' = scratch
         /\ \A s \in Ranks : s # r => buf'[s] = buf[s]
         /\ program[call'[r]].op = "reduce_scatter" =>
              \A c \in Ranks, x \in Cells : buf'[r][c][x] = Sum(call'[r], <<r>>)
<1>1. call'[r] = call[r] + 1 /\ call'[r] \in 1..Len(program)
  BY StepOwn DEF StepBy
<1> DEFINE f == IF program[call[r] + 1].op = "reduce_scatter" THEN Fresh(r, call[r] + 1)
                ELSE [k \in Ranks |-> [x \in Cells |-> Garbage]]
<1>2. f \in [Ranks -> [Cells -> Sums]]
  <2>1. Sum(call[r] + 1, <<r>>) \in Sums /\ Garbage \in Sums
    BY <1>1, SumTypes
  <2> QED BY <2>1 DEF Fresh
<1>3. buf' = [buf EXCEPT ![r] = f] /\ stage' = stage /\ scratch' = scratch
  BY DEF Enter
<1>4. program[call'[r]].op = "reduce_scatter" =>
        \A c \in Ranks, x \in Cells : f[c][x] = Sum(call'[r], <<r>>)
  BY <1>1 DEF Fresh
<1> HIDE DEF f
<1>5. buf \in [Ranks -> [Ranks -> [Cells -> Sums]]]
  BY DEF TypeOK
<1> QED BY <1>2, <1>3, <1>4, <1>5

LEMMA OtherEffect ==
  ASSUME NEW r \in Ranks, WaitData(r) \/ Handshake(r) \/ Finish(r) \/ FlagStep(r)
  PROVE  buf' = buf /\ stage' = stage /\ scratch' = scratch
  BY DEF WaitData, Handshake, Finish, FlagStep, memory

LEMMA TypeInit == Init => TypeOK
<1> SUFFICES ASSUME Init PROVE TypeOK
  OBVIOUS
<1>1. program \in Seq(Jobs) /\ Len(program) \in Nat /\ program \in Programs
  BY ProgramsAssumption DEF Init
<1>2. Garbage \in Sums
  BY <1>1 DEF Garbage, Sum, Sums
<1>3. \A r \in Ranks : call[r] = 0
  BY DEF Init
<1> HIDE DEF Garbage, Sums
<1>4. /\ buf \in [Ranks -> [Ranks -> [Cells -> Sums]]] /\ stage \in [Ranks -> [Ranks -> [Cells -> Sums]]]
      /\ scratch \in [Ranks -> [0..MaxSteps-1 -> [Cells -> Sums]]]
  BY <1>2 DEF Init
<1>5. /\ call \in [Ranks -> 0..Len(program)] /\ pos \in [Ranks -> Nat]
      /\ copied \in [Ranks -> Nat] /\ flagged \in [Ranks -> Nat]
      /\ pc \in [Ranks -> {"idle", "quant", "wait", "land", "join", "handshake"}]
      /\ flag \in [Ranks -> [FlagSlots -> Nat]] /\ sent \in [Ranks -> [FlagSlots -> Nat]]
      /\ waited \in [Ranks -> [FlagSlots -> Nat]]
  BY <1>1 DEF Init
<1> QED BY <1>1, <1>3, <1>4, <1>5 DEF TypeOK

LEMMA TypeStep ==
  ASSUME TypeOK, Positions, NEW r \in Ranks, StepBy(r)
  PROVE  TypeOK'
<1>1. Sums' = Sums
  BY StepOthers DEF Sums
<1>2. /\ buf' \in [Ranks -> [Ranks -> [Cells -> Sums]]] /\ stage' \in [Ranks -> [Ranks -> [Cells -> Sums]]]
      /\ scratch' \in [Ranks -> [0..MaxSteps-1 -> [Cells -> Sums]]]
  <2>1. CASE Enter(r)
    BY <2>1, EnterEffect DEF TypeOK
  <2>2. CASE Quant(r)
    BY <2>2, QuantEffect DEF TypeOK
  <2>3. CASE Land(r)
    BY <2>3, LandEffect DEF TypeOK
  <2>4. CASE CopyStep(r)
    BY <2>4, CopyEffect DEF TypeOK
  <2>5. CASE WaitData(r) \/ Handshake(r) \/ Finish(r) \/ FlagStep(r)
    BY <2>5, OtherEffect DEF TypeOK
  <2> QED BY <2>1, <2>2, <2>3, <2>4, <2>5 DEF StepBy, MainStep
<1>3. /\ flag' \in [Ranks -> [FlagSlots -> Nat]] /\ sent' \in [Ranks -> [FlagSlots -> Nat]]
      /\ waited' \in [Ranks -> [FlagSlots -> Nat]]
  <2>1. CASE Enter(r) \/ Quant(r) \/ Land(r) \/ CopyStep(r)
    BY <2>1 DEF Enter, Quant, Land, CopyStep, flags, TypeOK
  <2>2. CASE WaitData(r)
    BY <2>2, FlagActions, WaitFlagEffect DEF TypeOK
  <2>3. CASE Finish(r)
    BY <2>3, FlagActions, WaitFlagEffect DEF TypeOK
  <2>4. CASE Handshake(r)
    BY <2>4, FlagActions, SetFlagEffect, RingFacts DEF TypeOK
  <2>5. CASE FlagStep(r)
    BY <2>5, FlagActions, SetFlagEffect, RingFacts DEF TypeOK
  <2> QED BY <2>1, <2>2, <2>3, <2>4, <2>5 DEF StepBy, MainStep
<1>4. /\ program' \in Programs /\ call' \in [Ranks -> 0..Len(program')]
      /\ pc' \in [Ranks -> {"idle", "quant", "wait", "land", "join", "handshake"}]
      /\ pos' \in [Ranks -> Nat] /\ copied' \in [Ranks -> Nat] /\ flagged' \in [Ranks -> Nat]
      /\ \A s \in Ranks : call'[s] > 0 =>
           flagged'[s] <= copied'[s] /\ copied'[s] <= N(Job(s)') /\ pos'[s] <= N(Job(s)')
  BY StreamTypes
<1> QED BY <1>1, <1>2, <1>3, <1>4 DEF TypeOK

\* A rank whose streams have not moved.
LEMMA FrameOf ==
  ASSUME NEW s \in Ranks, Same(s), program' = program
  PROVE  /\ Job(s)' = Job(s) /\ Waited(s)' = Waited(s)
         /\ \A i : (Quanted(s, i)' <=> Quanted(s, i)) /\ (SendReady(s, i)' <=> SendReady(s, i))
         /\ \A k : (Published(s, k)' <=> Published(s, k)) /\ (Passed(s, k)' <=> Passed(s, k))
         /\ PositionOf(s)' <=> PositionOf(s)
<1>1. Job(s)' = Job(s) /\ Waited(s)' = Waited(s)
  BY DEF Same, Job, Waited
<1>2. Recorded(s)' = Recorded(s)
  BY <1>1 DEF Same, Recorded
<1>3. \A i : Quanted(s, i)' <=> Quanted(s, i)
  BY DEF Same, Quanted
<1>4. \A i : SendReady(s, i)' <=> SendReady(s, i)
  BY <1>1, <1>2, <1>3 DEF SendReady
<1>5. \A k : (Published(s, k)' <=> Published(s, k)) /\ (Passed(s, k)' <=> Passed(s, k))
  BY <1>1 DEF Same, Published, Passed
<1>6. PositionOf(s)' <=> PositionOf(s)
  BY <1>1, <1>4 DEF Same, PositionOf
<1> QED BY <1>1, <1>3, <1>4, <1>5, <1>6

\* Events stay recorded while main goes on.
LEMMA EventsKept ==
  ASSUME TypeOK, NEW r \in Ranks, call[r] > 0, program' = program, call'[r] = call[r],
         \/ pos'[r] = pos[r] /\ pc'[r] = pc[r]
         \/ pos'[r] = pos[r] /\ pc[r] # "land" /\ pc'[r] # "quant"
         \/ pos'[r] = pos[r] + 1,
         NEW i \in Int
  PROVE  (Quanted(r, i) => Quanted(r, i)') /\ (SendReady(r, i) => SendReady(r, i)')
<1>1. Job(r)' = Job(r) /\ pos[r] \in Nat
  BY RankTypes DEF Job
<1>2. \A n \in Int : Quanted(r, n) => Quanted(r, n)'
  BY <1>1 DEF Quanted
<1>3. Recorded(r) <= Recorded(r)' /\ Recorded(r) \in Nat /\ Recorded(r)' \in Nat
  BY <1>1 DEF Recorded
<1>4. ASSUME SendReady(r, i) PROVE SendReady(r, i)'
  <2>1. Job(r) \in Jobs
    BY JobOf
  <2>2. Job(r).pieces \in {1, 2} /\ (W-1) * Job(r).pieces \in Int
    BY <2>1, JobFacts
  <2>3. CASE Fp8Reduce(Job(r)) /\ StepOf(Job(r), i) = 0
    BY <1>1, <1>2, <1>4, <2>3 DEF SendReady
  <2>4. CASE /\ ~(Fp8Reduce(Job(r)) /\ StepOf(Job(r), i) = 0)
             /\ Fp8Gather(Job(r)) /\ StepOf(Job(r), i) = W-1
    BY <1>1, <1>2, <1>4, <2>2, <2>4 DEF SendReady
  <2>5. CASE /\ ~(Fp8Reduce(Job(r)) /\ StepOf(Job(r), i) = 0)
             /\ ~(Fp8Gather(Job(r)) /\ StepOf(Job(r), i) = W-1)
    <3>1. StepOf(Job(r), i) = 0 \/ Recorded(r) > i - Job(r).pieces
      BY <1>4, <2>5 DEF SendReady
    <3>2. StepOf(Job(r), i) = 0 \/ Recorded(r)' > i - Job(r).pieces
      BY <1>3, <2>2, <3>1
    <3> QED BY <1>1, <2>5, <3>2 DEF SendReady
  <2> QED BY <2>3, <2>4, <2>5
<1> QED BY <1>2, <1>4

LEMMA PositionsInit == Init => Positions
  BY DEF Init, Positions, PositionOf

LEMMA CopyFacts ==
  ASSUME TypeOK, Positions, NEW r \in Ranks, CopyStep(r)
  PROVE  /\ call[r] > 0 /\ pc[r] # "idle" /\ copied[r] < N(Job(r)) /\ copied'[r] = copied[r] + 1
         /\ call' = call /\ pc' = pc /\ pos' = pos /\ flagged' = flagged /\ program' = program
         /\ SendReady(r, copied[r])
<1>1. /\ copied'[r] = copied[r] + 1 /\ CopyReady(r)
      /\ call' = call /\ pc' = pc /\ pos' = pos /\ flagged' = flagged /\ program' = program
  BY DEF CopyStep, TypeOK
<1> QED BY <1>1 DEF CopyReady, SendReady

LEMMA PositionOwn ==
  ASSUME TypeOK, Positions, NEW r \in Ranks, StepBy(r)
  PROVE  PositionOf(r)'
<1>1. program' = program
  BY StepOthers
<1>3. /\ pos[r] \in Nat /\ flagged[r] \in Nat /\ copied[r] \in Nat /\ call[r] \in Nat
      /\ \A c \in 1..Len(program) : program[c] \in Jobs
      /\ PositionOf(r)
  BY RankTypes DEF Positions
<1>4. CASE Enter(r)
  <2>1. /\ call'[r] = call[r] + 1 /\ pos'[r] = 0 /\ copied'[r] = 0 /\ flagged'[r] = 0
        /\ pc'[r] = Before(program[call'[r]], 0) /\ Job(r)' = program[call'[r]]
        /\ call'[r] \in 1..Len(program)
    BY <1>1, <1>4, StepOwn DEF Job
  <2>2. /\ Job(r)' \in Jobs /\ N(Job(r)') > 0
    BY <1>3, <2>1, JobFacts
  <2>3. /\ pc'[r] \in {"quant", "wait"}
        /\ pc'[r] = "quant" => Quants(Job(r)', pos'[r])
    <3>1. 0 # N(Job(r)')
      BY <2>2, JobFacts
    <3> QED BY <2>1, <2>2, <3>1, BeforeFacts
  <2> QED BY <1>3, <2>1, <2>2, <2>3 DEF PositionOf
<1>5. CASE ~Enter(r)
  <2>1. /\ call[r] > 0 /\ call'[r] = call[r] /\ Job(r)' = Job(r)
        /\ Job(r) \in Jobs /\ N(Job(r)) \in Nat /\ flagged[r] <= copied[r] /\ copied[r] <= N(Job(r))
    BY <1>1, <1>5, StepOwn, JobOf, JobFacts DEF Job
  <2>2. \/ pos'[r] = pos[r] /\ pc'[r] = pc[r]
        \/ pos'[r] = pos[r] /\ pc[r] # "land" /\ pc'[r] # "quant"
        \/ pos'[r] = pos[r] + 1
    BY <1>5, StepOwn
  <2>3. \A i \in 0..copied[r]-1 : SendReady(r, i)'
    BY <1>1, <1>3, <2>1, <2>2, EventsKept DEF PositionOf
  <2>4. \A i \in 0..copied'[r]-1 : SendReady(r, i)'
    <3>1. CASE CopyStep(r)
      <4>1. PICK n \in Nat : n = copied[r]
        BY <1>3
      <4>2. SendReady(r, n) /\ copied'[r] = n + 1
        BY <3>1, <4>1, CopyFacts
      <4>3. SendReady(r, n)'
        BY <1>1, <2>1, <2>2, <4>2, EventsKept
      <4> QED BY <2>3, <4>1, <4>2, <4>3
    <3>2. CASE ~CopyStep(r)
      <4>1. copied'[r] = copied[r]
        BY <1>5, <3>2, StepOwn
      <4> QED BY <2>3, <4>1
    <3> QED BY <3>1, <3>2
  <2>5. LET j == Job(r) IN
        /\ pc'[r] \in {"quant", "wait", "land"} => pos'[r] < N(j)
        /\ pc'[r] \in {"join", "handshake", "idle"} => pos'[r] = N(j)
        /\ pc'[r] \in {"handshake", "idle"} => copied'[r] = N(j) /\ flagged'[r] = N(j)
        /\ pc'[r] = "quant" => Quants(j, pos'[r])
    <3>1. /\ pc[r] \in {"quant", "wait", "land"} => pos[r] < N(Job(r))
          /\ pc[r] \in {"join", "handshake", "idle"} => pos[r] = N(Job(r))
          /\ pc[r] \in {"handshake", "idle"} => copied[r] = N(Job(r)) /\ flagged[r] = N(Job(r))
          /\ pc[r] = "quant" => Quants(Job(r), pos[r])
          /\ pc[r] \in {"idle", "quant", "wait", "land", "join", "handshake"}
      BY <1>3, <2>1, RankTypes DEF PositionOf
    <3>2. CASE Land(r)
      <4>1. /\ pc'[r] = Before(Job(r), pos[r] + 1) /\ pos'[r] = pos[r] + 1 /\ pos[r] < N(Job(r))
            /\ pc[r] = "land" /\ pos[r] + 1 \in Nat
        BY <1>3, <2>1, <3>1, <3>2 DEF Land, TypeOK
      <4>2. pos'[r] # N(Job(r)) => pos'[r] < N(Job(r))
        BY <1>3, <2>1, <4>1
      <4>3. /\ pc'[r] \in {"join", "quant", "wait"}
            /\ pc'[r] = "join" <=> pos'[r] = N(Job(r))
            /\ pc'[r] = "quant" => Quants(Job(r), pos'[r])
        BY <2>1, <4>1, BeforeFacts
      <4> QED BY <4>1, <4>2, <4>3
    <3>3. CASE ~Land(r)
      BY <1>3, <1>5, <2>1, <3>1, <3>3, StepOwn
    <3> QED BY <3>2, <3>3
  <2> QED BY <2>1, <2>4, <2>5 DEF PositionOf
<1> QED BY <1>4, <1>5

LEMMA PositionsStep ==
  ASSUME TypeOK, Positions, NEW r \in Ranks, StepBy(r)
  PROVE  Positions'
<1>1. program' = program /\ \A s \in Ranks : s # r => Same(s)
  BY StepOthers
<1>2. ASSUME NEW s \in Ranks, s # r PROVE PositionOf(s)'
  BY <1>1, <1>2, FrameOf DEF Positions
<1>3. \A s \in Ranks : PositionOf(s)'
  BY <1>2, PositionOwn
<1> QED BY <1>3 DEF Positions

-----------------------------------------------------------------------------
(* Flags count calls.                                                      *)

LEMMA CountersInit == Init => Counters
<1> SUFFICES ASSUME Init, NEW r \in Ranks, NEW k \in FlagSlots PROVE CounterOf(r, k)
  BY DEF Counters
<1>1. call[r] = 0 /\ sent[r][k] = 0 /\ waited[r][k] = 0
  BY DEF Init
<1>2. {i \in 1..(-1) : k <= N(program[i])} = {}
  OBVIOUS
<1>3. Uses(-1, k) = 0
  BY <1>2, FS_EmptySet DEF Uses
<1>4. ~Published(r, k) /\ ~Passed(r, k) /\ call[r] - 1 = -1
  BY <1>1 DEF Published, Passed
<1> QED BY <1>1, <1>3, <1>4 DEF CounterOf

LEMMA CounterFrom ==
  ASSUME NEW r \in Ranks, NEW k \in FlagSlots, program' = program, NEW m, NEW n,
         m = IF Published(r, k)' THEN call'[r] ELSE call'[r] - 1,
         n = IF Passed(r, k)' THEN call'[r] ELSE call'[r] - 1,
         sent'[r][k] = Uses(m, k), waited'[r][k] = Uses(n, k)
  PROVE  CounterOf(r, k)'
  BY DEF CounterOf, Uses

\* A rank at the end of its call, or before its first, has used all slots of it.
LEMMA CountersIdle ==
  ASSUME TypeOK, Positions, Counters, NEW r \in Ranks, pc[r] = "idle", NEW k \in FlagSlots
  PROVE  sent[r][k] = Uses(call[r], k) /\ waited[r][k] = Uses(call[r], k)
<1>1. CounterOf(r, k) /\ PositionOf(r) /\ k \in Nat /\ call[r] \in Nat
  BY RankTypes DEF Counters, Positions, FlagSlots
<1>2. CASE call[r] = 0
  <2>1. ~Published(r, k) /\ ~Passed(r, k)
    BY <1>2 DEF Published, Passed
  <2>2. {i \in 1..(-1) : k <= N(program[i])} = {} /\ {i \in 1..0 : k <= N(program[i])} = {}
    OBVIOUS
  <2>3. Uses(call[r] - 1, k) = Uses(call[r], k)
    BY <1>2, <2>2 DEF Uses
  <2> QED BY <1>1, <2>1, <2>3 DEF CounterOf
<1>3. CASE call[r] > 0
  <2>1. Job(r) \in Jobs /\ call[r] \in 1..Len(program) /\ Job(r) = program[call[r]]
    BY <1>3, JobOf
  <2>2. N(Job(r)) \in Nat /\ pos[r] = N(Job(r)) /\ flagged[r] = N(Job(r))
    BY <1>1, <1>3, <2>1, JobFacts DEF PositionOf
  <2>3. (Published(r, k) <=> k <= N(Job(r))) /\ (Passed(r, k) <=> k <= N(Job(r)))
    BY <1>1, <1>3, <2>2 DEF Published, Passed, Waited
  <2>4. CASE k <= N(Job(r))
    BY <1>1, <2>3, <2>4 DEF CounterOf
  <2>5. CASE ~(k <= N(Job(r)))
    <3>1. Uses(call[r], k) = Uses(call[r] - 1, k)
      BY <2>1, <2>5, UsesFacts
    <3> QED BY <1>1, <2>3, <2>5, <3>1 DEF CounterOf
  <2> QED BY <2>4, <2>5
<1> QED BY <1>1, <1>2, <1>3

\* Setting and waiting for a slot in a call are the steps of its counters.
LEMMA CounterMoves ==
  ASSUME TypeOK, Positions, Counters, NEW r \in Ranks, StepBy(r), ~Enter(r), NEW k \in FlagSlots
  PROVE  /\ \/ (Published(r, k)' <=> Published(r, k)) /\ sent'[r][k] = sent[r][k]
            \/ /\ ~Published(r, k) /\ Published(r, k)' /\ k <= N(Job(r))
               /\ sent'[r][k] = sent[r][k] + 1
         /\ \/ (Passed(r, k)' <=> Passed(r, k)) /\ waited'[r][k] = waited[r][k]
            \/ /\ ~Passed(r, k) /\ Passed(r, k)' /\ k <= N(Job(r))
               /\ waited'[r][k] = waited[r][k] + 1
<1>1. /\ program' = program /\ call' = call /\ call[r] > 0 /\ Job(r)' = Job(r)
      /\ N(Job(r)) \in Nat /\ k \in Nat /\ PositionOf(r)
      /\ pos[r] \in Nat /\ flagged[r] \in Nat /\ copied[r] \in Nat
      /\ copied[r] <= N(Job(r)) /\ Job(r) \in Jobs
  BY StepOthers, StepOwn, JobOf, JobFacts, RankTypes DEF Job, Positions, FlagSlots
<1>2. CASE Quant(r) \/ Land(r) \/ CopyStep(r)
  <2>1. sent' = sent /\ waited' = waited
    BY <1>2 DEF Quant, Land, CopyStep, flags
  <2>2. CASE Quant(r)
    <3>1. pc[r] = "quant" /\ pc'[r] = "wait" /\ pos' = pos /\ flagged' = flagged
      BY <2>2, <1>1 DEF Quant, TypeOK
    <3> QED BY <1>1, <2>1, <3>1 DEF Published, Passed, Waited
  <2>3. CASE Land(r)
    <3>1. /\ pc[r] = "land" /\ pc'[r] = Before(Job(r), pos[r] + 1) /\ pos'[r] = pos[r] + 1
          /\ flagged' = flagged
      BY <2>3, <1>1 DEF Land, TypeOK
    <3>2. pc'[r] \in {"join", "quant", "wait"}
      BY <1>1, <3>1, BeforeFacts
    <3> QED BY <1>1, <2>1, <3>1, <3>2 DEF Published, Passed, Waited
  <2>4. CASE CopyStep(r)
    BY <1>1, <2>1, <2>4, CopyFacts DEF Published, Passed, Waited
  <2> QED BY <1>2, <2>2, <2>3, <2>4
<1>3. CASE WaitData(r)
  <2>1. /\ WaitFlag(r, pos[r]) /\ pos[r] \in FlagSlots /\ pos[r] < N(Job(r))
        /\ pc[r] = "wait" /\ pc'[r] = "land" /\ pos' = pos /\ flagged' = flagged
    BY <1>3, FlagActions DEF WaitData, TypeOK
  <2>2. sent' = sent /\ waited'[r][k] = IF k = pos[r] THEN waited[r][k] + 1 ELSE waited[r][k]
    BY <2>1, WaitFlagEffect
  <2> QED BY <1>1, <2>1, <2>2 DEF Published, Passed, Waited
<1>4. CASE Finish(r)
  <2>1. /\ WaitFlag(r, N(Job(r))) /\ N(Job(r)) \in FlagSlots /\ pos[r] = N(Job(r))
        /\ flagged[r] = N(Job(r))
        /\ pc[r] = "handshake" /\ pc'[r] = "idle" /\ pos' = pos /\ flagged' = flagged
    BY <1>1, <1>4, FlagActions DEF Finish, TypeOK, PositionOf
  <2>2. sent' = sent /\ waited'[r][k] = IF k = N(Job(r)) THEN waited[r][k] + 1 ELSE waited[r][k]
    BY <2>1, WaitFlagEffect
  <2> QED BY <1>1, <2>1, <2>2 DEF Published, Passed, Waited
<1>5. CASE Handshake(r)
  <2>1. /\ SetFlag(r, Pred(r), N(Job(r))) /\ N(Job(r)) \in FlagSlots /\ pos[r] = N(Job(r))
        /\ flagged[r] = N(Job(r))
        /\ pc[r] = "join" /\ pc'[r] = "handshake" /\ pos' = pos /\ flagged' = flagged
    BY <1>1, <1>5, FlagActions DEF Handshake, TypeOK, PositionOf
  <2>2. waited' = waited /\ sent'[r][k] = IF k = N(Job(r)) THEN sent[r][k] + 1 ELSE sent[r][k]
    BY <2>1, SetFlagEffect, RingFacts
  <2> QED BY <1>1, <2>1, <2>2 DEF Published, Passed, Waited
<1>6. CASE FlagStep(r)
  <2>1. /\ SetFlag(r, Succ(r), flagged[r]) /\ flagged[r] \in FlagSlots /\ flagged[r] < N(Job(r))
        /\ pc' = pc /\ pos' = pos /\ flagged'[r] = flagged[r] + 1
    BY <1>1, <1>6, FlagActions DEF FlagStep, TypeOK
  <2>2. waited' = waited /\ sent'[r][k] = IF k = flagged[r] THEN sent[r][k] + 1 ELSE sent[r][k]
    BY <2>1, SetFlagEffect, RingFacts
  <2> QED BY <1>1, <2>1, <2>2 DEF Published, Passed, Waited
<1> QED BY <1>2, <1>3, <1>4, <1>5, <1>6 DEF StepBy, MainStep

\* Counters of others do not move.
LEMMA CountersOthers ==
  ASSUME TypeOK, Positions, NEW r \in Ranks, StepBy(r), NEW s \in Ranks, s # r, NEW k \in FlagSlots
  PROVE  sent'[s][k] = sent[s][k] /\ waited'[s][k] = waited[s][k]
<1>1. CASE Enter(r) \/ Quant(r) \/ Land(r) \/ CopyStep(r)
  BY <1>1 DEF Enter, Quant, Land, CopyStep, flags
<1>2. CASE WaitData(r)
  BY <1>2, FlagActions, WaitFlagEffect
<1>3. CASE Finish(r)
  BY <1>3, FlagActions, WaitFlagEffect
<1>4. CASE Handshake(r)
  BY <1>4, FlagActions, SetFlagEffect, RingFacts
<1>5. CASE FlagStep(r)
  BY <1>5, FlagActions, SetFlagEffect, RingFacts
<1> QED BY <1>1, <1>2, <1>3, <1>4, <1>5 DEF StepBy, MainStep

LEMMA CountersStep ==
  ASSUME TypeOK, Positions, Counters, NEW r \in Ranks, StepBy(r)
  PROVE  Counters'
<1> SUFFICES ASSUME NEW s \in Ranks, NEW k \in FlagSlots PROVE CounterOf(s, k)'
  BY DEF Counters
<1>1. program' = program /\ (s # r => Same(s)) /\ CounterOf(s, k) /\ k \in Nat /\ call[s] \in Nat
  BY StepOthers, RankTypes DEF Counters, FlagSlots
<1>2. CASE s # r
  <2>1. sent'[s][k] = sent[s][k] /\ waited'[s][k] = waited[s][k]
    BY <1>2, CountersOthers
  <2>2. /\ Published(s, k)' <=> Published(s, k)
        /\ Passed(s, k)' <=> Passed(s, k)
        /\ call'[s] = call[s]
    BY <1>1, <1>2, FrameOf DEF Same
  <2>3. PICK m : m = IF Published(s, k) THEN call[s] ELSE call[s] - 1
    OBVIOUS
  <2>4. PICK n : n = IF Passed(s, k) THEN call[s] ELSE call[s] - 1
    OBVIOUS
  <2>5. sent[s][k] = Uses(m, k) /\ waited[s][k] = Uses(n, k)
    BY <1>1, <2>3, <2>4 DEF CounterOf
  <2> QED BY <1>1, <2>1, <2>2, <2>3, <2>4, <2>5, CounterFrom
<1>3. CASE s = r /\ Enter(r)
  <2>1. /\ call'[r] = call[r] + 1 /\ flagged'[r] = 0 /\ pos'[r] = 0 /\ pc[r] = "idle"
        /\ call'[r] \in 1..Len(program) /\ pc'[r] = Before(program[call'[r]], 0)
        /\ sent' = sent /\ waited' = waited
    BY <1>3, StepOwn DEF Enter, flags
  <2>2. /\ program[call'[r]] \in Jobs /\ Job(r)' = program[call'[r]]
    BY <1>1, <2>1, RankTypes DEF Job
  <2>3. pc'[r] \in {"quant", "wait"}
    <3>1. 0 # N(program[call'[r]])
      BY <2>2, JobFacts
    <3> QED BY <2>1, <2>2, <3>1, BeforeFacts
  <2>4. ~Published(r, k)' /\ ~Passed(r, k)'
    BY <1>1, <2>1, <2>3 DEF Published, Passed, Waited
  <2>5. sent[r][k] = Uses(call[r], k) /\ waited[r][k] = Uses(call[r], k)
    BY <2>1, CountersIdle
  <2>6. call'[r] - 1 = call[r]
    BY <1>1, <1>3, <2>1
  <2> QED BY <1>1, <1>3, <2>1, <2>4, <2>5, <2>6, CounterFrom
<1>4. CASE s = r /\ ~Enter(r)
  <2>1. call[r] > 0 /\ call'[r] = call[r] /\ call[r] \in 1..Len(program) /\ Job(r) = program[call[r]]
    BY <1>4, StepOwn, JobOf
  <2>2. k <= N(Job(r)) => Uses(call[r], k) = Uses(call[r] - 1, k) + 1
    BY <2>1, UsesFacts
  <2>3. PICK m : m = IF Published(r, k)' THEN call'[r] ELSE call'[r] - 1
    OBVIOUS
  <2>4. PICK n : n = IF Passed(r, k)' THEN call'[r] ELSE call'[r] - 1
    OBVIOUS
  <2>5. sent'[r][k] = Uses(m, k)
    BY <1>1, <1>4, <2>1, <2>2, <2>3, CounterMoves DEF CounterOf
  <2>6. waited'[r][k] = Uses(n, k)
    BY <1>1, <1>4, <2>1, <2>2, <2>4, CounterMoves DEF CounterOf
  <2> QED BY <1>1, <1>4, <2>3, <2>4, <2>5, <2>6, CounterFrom
<1> QED BY <1>2, <1>3, <1>4

-----------------------------------------------------------------------------
(* The chain around the ring.                                              *)

\* A pair that may be sent has been received, but for those of the first step.
LEMMA SendWaited ==
  ASSUME TypeOK, NEW r \in Ranks, call[r] > 0, NEW i \in Nat, SendReady(r, i), StepOf(Job(r), i) > 0
  PROVE  Waited(r) > i - Job(r).pieces
<1>1. Job(r) \in Jobs /\ pos[r] \in Nat /\ Job(r).pieces \in {1, 2} /\ StepOf(Job(r), i) \in Nat
  BY JobOf, JobFacts, RankTypes, PairFacts
<1>2. Waited(r) \in Nat /\ Recorded(r) \in Nat /\ Recorded(r) <= Waited(r) /\ pos[r] <= Waited(r)
  BY <1>1 DEF Recorded, Waited
<1>3. CASE Fp8Gather(Job(r)) /\ StepOf(Job(r), i) = W-1
  <2>1. Quanted(r, (W-1) * Job(r).pieces)
    BY <1>1, <1>3 DEF SendReady
  <2>2. i - Job(r).pieces < (W-1) * Job(r).pieces
    BY <1>1, <1>3, PairFacts
  <2>3. pos[r] >= (W-1) * Job(r).pieces
    BY <1>1, <2>1 DEF Quanted
  <2> QED BY <1>1, <1>2, <2>2, <2>3
<1>4. CASE ~(Fp8Gather(Job(r)) /\ StepOf(Job(r), i) = W-1)
  <2>1. Recorded(r) > i - Job(r).pieces
    BY <1>1, <1>4 DEF SendReady
  <2> QED BY <1>1, <1>2, <2>1
<1> QED BY <1>3, <1>4

\* The rank d places behind has entered the call of a rank that is past step d-1.
LEMMA ChainEntered ==
  ASSUME TypeOK, Chain, NEW r \in Ranks, call[r] > 0, NEW d \in 1..W-1,
         Waited(r) > (d-1) * Job(r).pieces
  PROVE  call[Behind(r, d)] >= call[r]
<1>1. Job(r) \in Jobs /\ Job(r).pieces \in {1, 2} /\ call[r] \in Nat /\ pos[r] \in Nat
  BY JobOf, JobFacts, RankTypes
<1>2. d \in 1..W /\ Behind(r, d) \in Ranks
  BY BehindFacts
<1>3. call[Behind(r, d)] \in Nat
  BY <1>2, RankTypes
<1>4. PICK i \in Nat : i = (d-1) * Job(r).pieces
  BY <1>1
<1>5. i \in 0..Waited(r)-1 /\ Earlier(Job(r), i, d) = 0
  <2>1. Waited(r) \in Nat
    BY <1>1 DEF Waited
  <2> QED BY <1>4, <2>1 DEF Earlier
<1>6. ChainOf(r, d)
  BY <1>2 DEF Chain
<1>7. call[Behind(r, d)] > call[r] \/ call[Behind(r, d)] = call[r]
  BY <1>5, <1>6 DEF ChainOf
<1> QED BY <1>1, <1>3, <1>7

LEMMA AllEntered ==
  ASSUME TypeOK, Chain, NEW r \in Ranks, call[r] > 0, pos[r] = N(Job(r)), NEW s \in Ranks
  PROVE  call[s] >= call[r]
<1>1. PICK d \in 1..W : s = Behind(r, d) /\ (s # r => d <= W-1)
  BY BehindAll
<1>2. CASE s = r
  BY <1>2, RankTypes
<1>3. CASE s # r
  <2>1. d \in 1..W-1
    BY <1>1, <1>3
  <2>2. Job(r) \in Jobs /\ Job(r).pieces \in {1, 2} /\ pos[r] \in Nat
    BY JobOf, JobFacts, RankTypes
  <2>3. Waited(r) >= N(Job(r))
    BY <2>2 DEF Waited
  <2>4. N(Job(r)) > (d-1) * Job(r).pieces
    BY <2>1, <2>2, JobFacts
  <2>5. Waited(r) > (d-1) * Job(r).pieces
    BY <2>2, <2>3, <2>4 DEF Waited
  <2> QED BY <1>1, <2>1, <2>5, ChainEntered
<1> QED BY <1>2, <1>3

-----------------------------------------------------------------------------
(* What flags mean.                                                        *)

LEMMA PublishedKept ==
  ASSUME TypeOK, Positions, NEW r \in Ranks, StepBy(r), NEW s \in Ranks, NEW c \in Nat, NEW k \in Nat,
         HasPublished(s, c, k)
  PROVE  HasPublished(s, c, k)'
<1>1. Onward(s) /\ program' = program
  BY StepOnward, StepOthers
<1>2. call[s] \in Nat /\ flagged[s] \in Nat
  BY RankTypes
<1>3. flagged'[s] \in Nat /\ call'[s] \in Nat
  <2>1. TypeOK'
    BY TypeStep
  <2> QED BY <2>1 DEF TypeOK
<1>4. CASE call'[s] = call[s] + 1
  BY <1>2, <1>4 DEF HasPublished
<1>5. CASE call'[s] # call[s] + 1
  <2>1. call'[s] = call[s] /\ Job(s)' = Job(s) /\ flagged'[s] >= flagged[s]
        /\ (pc[s] \in {"handshake", "idle"} => pc'[s] \in {"handshake", "idle"})
    BY <1>1, <1>5 DEF Onward, Job
  <2> QED BY <1>2, <1>3, <2>1 DEF HasPublished, Published
<1> QED BY <1>4, <1>5

\* The value a flag is set to is the number of the call for its slot.
LEMMA FlagValue ==
  ASSUME TypeOK, Positions, Counters, NEW r \in Ranks, call[r] > 0, NEW k \in FlagSlots,
         k <= N(Job(r)), ~Published(r, k), NEW c \in 1..Len(program), k <= N(program[c]),
         Uses(c, k) <= sent[r][k] + 1
  PROVE  c <= call[r]
<1>1. call[r] \in 1..Len(program) /\ Job(r) = program[call[r]]
  BY JobOf
<1>2. sent[r][k] = Uses(call[r] - 1, k)
  BY DEF Counters, CounterOf
<1>3. Uses(c, k) <= Uses(call[r], k) /\ Uses(c, k) \in Nat
  BY <1>1, <1>2, UsesFacts
<1>4. call[r] < c => Uses(call[r], k) < Uses(c, k) /\ Uses(call[r], k) \in Nat
  BY <1>1, UsesMonotone
<1> QED BY <1>1, <1>3, <1>4

LEMMA FlagsInit == Init => FlagsTrue
<1> SUFFICES ASSUME Init, NEW r \in Ranks, NEW k \in FlagSlots, NEW c \in 1..Len(program),
                    k <= N(program[c]), Uses(c, k) <= flag[r][k]
             PROVE  FALSE
  BY DEF FlagsTrue, FlagOf
<1>1. TypeOK /\ flag[r][k] = 0
  BY TypeInit DEF Init
<1>2. Uses(c, k) = Uses(c-1, k) + 1 /\ Uses(c-1, k) \in Nat
  BY <1>1, UsesFacts
<1> QED BY <1>1, <1>2

\* A data flag is set in a call at a slot that was the handshake's in an earlier
\* one: by then that handshake is over.
LEMMA DataAfterHandshake ==
  ASSUME HandshakesLate, TypeOK, Positions, Chain, Skew, NEW p \in Ranks, FlagStep(p),
         NEW c \in 1..Len(program), c < call[p], flagged[p] = N(program[c])
  PROVE  call[Succ(Succ(p))] > c
<1> DEFINE s == Succ(Succ(p))
<1>1. s \in Ranks /\ Succ(p) \in Ranks
  BY RingFacts
<1>2. /\ call[p] > 0 /\ flagged[p] < N(Job(p)) /\ flagged[p] < copied[p] /\ Job(p) \in Jobs
      /\ call[p] \in 1..Len(program) /\ Job(p) = program[call[p]]
  <2>1. call[p] > 0 /\ flagged[p] < copied[p]
    BY FlagActions DEF FlagStep
  <2> QED BY <2>1, FlagActions, JobOf
<1>3. call[s] \in Nat /\ call[p] <= call[s] + 1 /\ flagged[p] \in Nat /\ copied[p] \in Nat
  BY <1>1, RankTypes DEF Skew
<1>4. CASE c + 1 < call[p]
  BY <1>2, <1>3, <1>4
<1>5. CASE c + 1 = call[p]
  <2>1. (W-2) * Job(p).pieces <= flagged[p]
    <3>1. program \in Programs /\ c \in 1..Len(program)-1 /\ Job(p) = program[c+1]
      BY <1>2, <1>5, RankTypes DEF TypeOK
    <3> QED BY <1>2, <3>1 DEF HandshakesLate
  <2>2. CASE W = 2
    <3>1. p \in {0, 1}
      BY <2>2 DEF Ranks
    <3>2. \A q \in Ranks : Succ(q) = IF q = W-1 THEN 0 ELSE q + 1
      BY RingFacts
    <3>3. Succ(p) = 1 - p
      BY <2>2, <3>1, <3>2
    <3>4. s = 1 - Succ(p)
      BY <1>1, <2>2, <3>1, <3>2, <3>3
    <3>5. s = p
      BY <3>1, <3>3, <3>4
    <3> QED BY <1>2, <3>5
  <2>3. CASE W > 2
    <3>1. PICK k \in Nat : k = flagged[p]
      BY <1>3
    <3>2. W-2 \in Nat /\ W-2 <= StepOf(Job(p), k) /\ StepOf(Job(p), k) \in Nat
      <4>1. PICK e \in Nat : e = W-2
        OBVIOUS
      <4>2. e * Job(p).pieces <= k
        BY <2>1, <3>1, <4>1
      <4>3. e <= StepOf(Job(p), k) /\ StepOf(Job(p), k) \in Nat
        BY <1>2, <4>2, PairBack, PairFacts
      <4> QED BY <4>1, <4>3
    <3>3. SendReady(p, k)
      BY <1>2, <1>3, <3>1 DEF Positions, PositionOf
    <3>4. Waited(p) > k - Job(p).pieces
      BY <1>2, <2>3, <3>2, <3>3, SendWaited
    <3>5. Job(p).pieces \in {1, 2} /\ pos[p] \in Nat
      BY <1>2, JobFacts, RankTypes
    <3>6. (W-2) * Job(p).pieces = ((W-2) - 1) * Job(p).pieces + Job(p).pieces
      BY <3>5
    <3>7. Waited(p) > ((W-2) - 1) * Job(p).pieces
      <4>1. PICK a \in Int : a = ((W-2) - 1) * Job(p).pieces
        BY <3>5
      <4>2. PICK b \in Int : b = (W-2) * Job(p).pieces
        BY <3>5
      <4>3. b = a + Job(p).pieces /\ b <= k
        BY <2>1, <3>1, <3>6, <4>1, <4>2
      <4>4. Waited(p) \in Int
        BY <3>5 DEF Waited
      <4>5. Waited(p) > a
        BY <3>1, <3>4, <3>5, <4>3, <4>4
      <4> QED BY <4>1, <4>5
    <3>8. call[Behind(p, W-2)] >= call[p]
      BY <1>2, <2>3, <3>7, ChainEntered
    <3>9. Behind(p, W-2) = s
      <4>1. Behind(p, W-2) = (p - (W-2)) % W /\ p \in Nat /\ p < W
        BY RingFacts DEF Behind
      <4>2. Behind(p, W-2) = IF W-2 <= p THEN p - (W-2) ELSE p - (W-2) + W
        <5>1. PICK z \in Int : z = p - (W-2)
          BY <4>1
        <5>2. z < W /\ -W <= z
          BY <2>3, <4>1, <5>1
        <5>3. /\ z \in 0..W-1 => z % W = z
              /\ z \in -W..-1 => z % W = z + W
          BY RemainderCases
        <5>4. z % W = IF z >= 0 THEN z ELSE z + W
          BY <5>2, <5>3
        <5> QED BY <4>1, <5>1, <5>4
      <4>3. \A q \in Ranks : Succ(q) = IF q = W-1 THEN 0 ELSE q + 1
        BY RingFacts
      <4> QED BY <1>1, <2>3, <4>1, <4>2, <4>3
    <3> QED BY <1>2, <1>3, <3>8, <3>9
  <2> QED BY <2>2, <2>3
<1> QED BY <1>2, <1>4, <1>5

LEMMA FlagFrom ==
  ASSUME NEW r \in Ranks, NEW k \in FlagSlots, program' = program,
         \A c \in 1..Len(program), s \in Ranks :
           k <= N(program[c]) /\ Uses(c, k) <= flag'[r][k] /\ s = Publisher(r, c, k)
             => HasPublished(s, c, k)'
  PROVE  FlagOf(r, k)'
<1>1. \A c : Uses(c, k)' = Uses(c, k)
  BY DEF Uses
<1>2. \A c : Publisher(r, c, k)' = Publisher(r, c, k) /\ Publisher(r, c, k) \in Ranks
  BY RingFacts DEF Publisher
<1> QED BY <1>1, <1>2 DEF FlagOf

\* A flag that is set to the number of a call means what that call says.
LEMMA FlagNew ==
  ASSUME HandshakesLate, TypeOK, Positions, Counters, Chain, Skew, NEW q \in Ranks,
         FlagStep(q) \/ Handshake(q), NEW r \in Ranks, NEW k \in FlagSlots,
         flag'[r][k] # flag[r][k], NEW c \in 1..Len(program),
         k <= N(program[c]), Uses(c, k) <= flag'[r][k]
  PROVE  HasPublished(Publisher(r, c, k), c, k) \/ (Publisher(r, c, k) = q /\ c = call[q] /\ Published(q, k)')
<1>1. /\ call[q] > 0 /\ Job(q) \in Jobs /\ call[q] \in 1..Len(program) /\ Job(q) = program[call[q]]
      /\ call'[q] = call[q] /\ Job(q)' = Job(q) /\ call[q] \in Nat /\ N(Job(q)) \in Nat
  <2>1. call[q] > 0
    BY FlagActions
  <2>2. call' = call /\ program' = program
    BY DEF FlagStep, Handshake
  <2> QED BY <2>1, <2>2, JobOf, JobFacts DEF Job
<1>2. CASE FlagStep(q)
  <2>1. /\ flagged[q] \in FlagSlots /\ flagged[q] < N(Job(q)) /\ SetFlag(q, Succ(q), flagged[q])
        /\ flagged'[q] = flagged[q] + 1 /\ flagged[q] \in Nat
    BY <1>2, FlagActions DEF FlagStep, TypeOK
  <2>2. r = Succ(q) /\ k = flagged[q] /\ flag'[r][k] = sent[q][k] + 1 /\ k \in Nat
    <3>1. Succ(q) \in Ranks
      BY RingFacts
    <3>2. r = Succ(q) /\ k = flagged[q]
      BY <2>1, <3>1, SetFlagEffect
    <3> QED BY <2>1, <3>1, <3>2, SetFlagEffect
  <2>3. ~Published(q, k) /\ Published(q, k)'
    <3>1. pc[q] \in {"handshake", "idle"} => flagged[q] = N(Job(q))
      BY <1>1 DEF Positions, PositionOf
    <3> QED BY <1>1, <2>1, <2>2, <3>1 DEF Published
  <2>4. c <= call[q]
    BY <1>1, <2>1, <2>2, <2>3, FlagValue
  <2>5. Pred(r) = q
    BY <2>2, RingFacts
  <2>6. CASE k # N(program[c])
    BY <1>1, <2>3, <2>4, <2>5, <2>6 DEF Publisher, HasPublished
  <2>7. CASE k = N(program[c])
    <3>1. c < call[q]
      BY <1>1, <2>1, <2>2, <2>4, <2>7
    <3>2. call[Succ(r)] > c
      BY <1>2, <2>2, <2>7, <3>1, DataAfterHandshake
    <3> QED BY <2>7, <3>2 DEF Publisher, HasPublished
  <2> QED BY <2>6, <2>7
<1>3. CASE Handshake(q)
  <2>1. /\ SetFlag(q, Pred(q), N(Job(q))) /\ N(Job(q)) \in FlagSlots /\ pos[q] = N(Job(q))
        /\ pc[q] = "join" /\ pc'[q] = "handshake" /\ flagged[q] = N(Job(q)) /\ flagged' = flagged
    BY <1>1, <1>3, FlagActions DEF Handshake, TypeOK, Positions, PositionOf
  <2>2. r = Pred(q) /\ k = N(Job(q)) /\ flag'[r][k] = sent[q][k] + 1 /\ k \in Nat
    <3>1. Pred(q) \in Ranks
      BY RingFacts
    <3>2. r = Pred(q) /\ k = N(Job(q))
      BY <2>1, <3>1, SetFlagEffect
    <3> QED BY <1>1, <2>1, <3>1, <3>2, SetFlagEffect
  <2>3. ~Published(q, k) /\ Published(q, k)'
    BY <1>1, <2>1, <2>2 DEF Published
  <2>4. c <= call[q]
    BY <1>1, <2>1, <2>2, <2>3, FlagValue
  <2>5. Succ(r) = q /\ Pred(r) \in Ranks
    BY <2>2, RingFacts
  <2>6. CASE k = N(program[c])
    BY <1>1, <2>3, <2>4, <2>5, <2>6 DEF Publisher, HasPublished
  <2>7. CASE k # N(program[c])
    <3>1. c < call[q]
      BY <1>1, <2>2, <2>4, <2>7
    <3>2. call[Pred(r)] >= call[q] /\ call[Pred(r)] \in Nat
      BY <1>1, <2>1, <2>5, AllEntered, RankTypes
    <3> QED BY <1>1, <2>7, <3>1, <3>2 DEF Publisher, HasPublished
  <2> QED BY <2>6, <2>7
<1> QED BY <1>2, <1>3

LEMMA FlagsStep ==
  ASSUME HandshakesLate, TypeOK, Positions, Counters, FlagsTrue, Chain, Skew, NEW q \in Ranks, StepBy(q)
  PROVE  FlagsTrue'
<1> SUFFICES ASSUME NEW r \in Ranks, NEW k \in FlagSlots PROVE FlagOf(r, k)'
  BY DEF FlagsTrue
<1>1. program' = program /\ FlagOf(r, k) /\ k \in Nat
  BY StepOthers DEF FlagsTrue, FlagSlots
<1>2. ASSUME NEW c \in 1..Len(program), NEW s \in Ranks, k <= N(program[c]), Uses(c, k) <= flag'[r][k],
             s = Publisher(r, c, k)
      PROVE  HasPublished(s, c, k)'
  <2>1. CASE flag'[r][k] = flag[r][k]
    <3>1. HasPublished(s, c, k)
      BY <1>1, <1>2, <2>1 DEF FlagOf
    <3> QED BY <1>1, <3>1, PublishedKept
  <2>2. CASE flag'[r][k] # flag[r][k]
    <3>1. FlagStep(q) \/ Handshake(q)
      <4>1. CASE Enter(q) \/ Quant(q) \/ Land(q) \/ CopyStep(q)
        BY <2>2, <4>1 DEF Enter, Quant, Land, CopyStep, flags
      <4>2. CASE WaitData(q) \/ Finish(q)
        BY <2>2, <4>2 DEF WaitData, Finish, WaitFlag
      <4> QED BY <4>1, <4>2 DEF StepBy, MainStep
    <3>2. HasPublished(s, c, k) \/ (s = q /\ c = call[q] /\ Published(q, k)')
      BY <1>2, <2>2, <3>1, FlagNew
    <3>3. call' = call
      BY <3>1 DEF FlagStep, Handshake
    <3>4. CASE HasPublished(s, c, k)
      BY <1>1, <3>4, PublishedKept
    <3>5. CASE s = q /\ c = call[q] /\ Published(q, k)'
      BY <3>3, <3>5 DEF HasPublished
    <3> QED BY <3>2, <3>4, <3>5
  <2> QED BY <2>1, <2>2
<1> QED BY <1>1, <1>2, FlagFrom

-----------------------------------------------------------------------------
(* What a rank that has waited knows.                                      *)

LEMMA ArrivedInit == Init => Arrived
  BY DEF Init, Arrived, ArrivedAt, Passed

LEMMA ArrivedFrom ==
  ASSUME NEW r \in Ranks, program' = program,
         \A k \in FlagSlots, c \in Nat, s \in Ranks :
           Passed(r, k)' /\ c = call'[r] /\ s = Publisher(r, c, k) => HasPublished(s, c, k)'
  PROVE  call'[r] \in Nat => ArrivedAt(r)'
<1>1. \A k, c : Publisher(r, c, k)' = Publisher(r, c, k) /\ Publisher(r, c, k) \in Ranks
  BY RingFacts DEF Publisher
<1> QED BY <1>1 DEF ArrivedAt

\* Main waits until the flag has reached the number of the call.
LEMMA ArrivedNew ==
  ASSUME TypeOK, Positions, Counters, FlagsTrue, NEW r \in Ranks, StepBy(r), ~Enter(r),
         NEW k \in FlagSlots, ~Passed(r, k), waited'[r][k] = waited[r][k] + 1, k <= N(Job(r))
  PROVE  HasPublished(Publisher(r, call[r], k), call[r], k)
<1>1. call[r] > 0 /\ call[r] \in 1..Len(program) /\ Job(r) = program[call[r]]
  BY StepOwn, JobOf
<1>2. waited[r][k] \in Nat
  BY DEF TypeOK
<1>3. CASE Quant(r) \/ Land(r) \/ CopyStep(r)
  BY <1>2, <1>3 DEF Quant, Land, CopyStep, flags
<1>4. CASE FlagStep(r) \/ Handshake(r)
  BY <1>2, <1>4 DEF FlagStep, Handshake, SetFlag
<1>5. CASE WaitData(r) \/ Finish(r)
  <2>1. PICK n \in FlagSlots : WaitFlag(r, n)
    BY <1>5, FlagActions
  <2>2. n = k
    BY <1>2, <2>1, WaitFlagEffect
  <2>3. flag[r][k] >= waited[r][k] + 1
    BY <2>1, <2>2, WaitFlagEffect
  <2>4. waited[r][k] = Uses(call[r] - 1, k) /\ Uses(call[r], k) = Uses(call[r] - 1, k) + 1
    BY <1>1, UsesFacts DEF Counters, CounterOf
  <2>5. Uses(call[r], k) <= flag[r][k]
    BY <2>3, <2>4
  <2> QED BY <1>1, <2>5 DEF FlagsTrue, FlagOf
<1> QED BY <1>3, <1>4, <1>5 DEF StepBy, MainStep

LEMMA ArrivedStep ==
  ASSUME TypeOK, Positions, Counters, FlagsTrue, Arrived, NEW q \in Ranks, StepBy(q)
  PROVE  Arrived'
<1> SUFFICES ASSUME NEW r \in Ranks PROVE ArrivedAt(r)'
  BY DEF Arrived
<1>1. program' = program /\ ArrivedAt(r) /\ call[r] \in Nat
  BY StepOthers, RankTypes DEF Arrived
<1>2. call'[r] \in Nat
  <2>1. call' \in [Ranks -> 0..Len(program')]
    BY TypeStep DEF TypeOK
  <2> QED BY <2>1
<1>3. ASSUME NEW k \in FlagSlots, NEW c \in Nat, NEW s \in Ranks,
             Passed(r, k)', c = call'[r], s = Publisher(r, c, k)
      PROVE  HasPublished(s, c, k)'
  <2>1. HasPublished(s, c, k)
    <3>1. CASE r # q
      <4>1. Passed(r, k) /\ call'[r] = call[r]
        BY <1>1, <1>3, <3>1, StepOthers, FrameOf DEF Same
      <4> QED BY <1>1, <1>3, <4>1 DEF ArrivedAt
    <3>2. CASE r = q /\ Enter(q)
      <4>1. /\ call'[r] > 0 /\ pos'[r] = 0 /\ pc'[r] \in {"quant", "wait"}
        <5>1. /\ call'[r] = call[r] + 1 /\ pos'[r] = 0
              /\ pc'[r] = Before(program[call'[r]], 0) /\ call'[r] \in 1..Len(program)
          BY <3>2, StepOwn
        <5>2. program[call'[r]] \in Jobs
          BY <5>1, RankTypes
        <5>3. N(program[call'[r]]) # 0
          BY <5>2, JobFacts
        <5> QED BY <1>1, <5>1, <5>2, <5>3, BeforeFacts
      <4> QED BY <1>3, <4>1 DEF Passed, Waited, FlagSlots
    <3>3. CASE r = q /\ ~Enter(q)
      <4>1. call'[r] = call[r]
        BY <3>3, StepOwn
      <4>2. CASE Passed(r, k)
        BY <1>1, <1>3, <4>1, <4>2 DEF ArrivedAt
      <4>3. CASE ~Passed(r, k)
        <5>1. k <= N(Job(r)) /\ waited'[r][k] = waited[r][k] + 1
          BY <1>3, <3>3, <4>3, CounterMoves
        <5> QED BY <1>3, <3>3, <4>1, <4>3, <5>1, ArrivedNew
      <4> QED BY <4>2, <4>3
    <3> QED BY <3>1, <3>2, <3>3
  <2>2. k \in Nat
    BY DEF FlagSlots
  <2> QED BY <2>1, <2>2, PublishedKept
<1> QED BY <1>1, <1>2, <1>3, ArrivedFrom

LEMMA ArrivedFacts ==
  ASSUME TypeOK, Positions, Arrived, NEW r \in Ranks, call[r] > 0
  PROVE  /\ \A i \in 0..Waited(r)-1 :
              \/ call[Pred(r)] > call[r]
              \/ call[Pred(r)] = call[r] /\ flagged[Pred(r)] > i /\ copied[Pred(r)] > i
         /\ pc[r] = "idle" =>
              \/ call[Succ(r)] > call[r]
              \/ call[Succ(r)] = call[r] /\ pc[Succ(r)] \in {"handshake", "idle"}
<1>1. /\ Job(r) \in Jobs /\ N(Job(r)) \in Nat /\ N(Job(r)) \in FlagSlots /\ PositionOf(r)
      /\ pos[r] \in Nat /\ Job(r) = program[call[r]] /\ ArrivedAt(r) /\ pos[r] <= N(Job(r))
  BY JobOf, JobFacts, RankTypes DEF Positions, Arrived
<1>2. Pred(r) \in Ranks /\ Succ(r) \in Ranks
  BY RingFacts
<1>3. Waited(r) \in Nat /\ Waited(r) <= N(Job(r))
  BY <1>1 DEF Waited, PositionOf
<1>4. ASSUME NEW i \in 0..Waited(r)-1
      PROVE  \/ call[Pred(r)] > call[r]
             \/ call[Pred(r)] = call[r] /\ flagged[Pred(r)] > i /\ copied[Pred(r)] > i
  <2>1. i \in Nat /\ i < N(Job(r)) /\ i \in FlagSlots
    BY <1>1, <1>3, SlotInCall
  <2>2. HasPublished(Pred(r), call[r], i)
    BY <1>1, <1>3, <2>1 DEF ArrivedAt, Passed, Publisher
  <2>3. ASSUME call[Pred(r)] = call[r] PROVE flagged[Pred(r)] > i /\ copied[Pred(r)] > i
    <3>1. Job(Pred(r)) = Job(r) /\ flagged[Pred(r)] \in Nat /\ copied[Pred(r)] \in Nat /\ call[r] \in Nat
      BY <1>2, <2>3, RankTypes DEF Job
    <3>2. flagged[Pred(r)] > i
      BY <2>1, <2>2, <2>3, <3>1 DEF HasPublished, Published
    <3>3. flagged[Pred(r)] <= copied[Pred(r)]
      BY <1>2, <2>3, JobOf
    <3> QED BY <2>1, <3>1, <3>2, <3>3
  <2> QED BY <2>2, <2>3 DEF HasPublished
<1>5. ASSUME pc[r] = "idle"
      PROVE  \/ call[Succ(r)] > call[r]
             \/ call[Succ(r)] = call[r] /\ pc[Succ(r)] \in {"handshake", "idle"}
  <2>1. HasPublished(Succ(r), call[r], N(Job(r)))
    BY <1>1, <1>5 DEF ArrivedAt, Passed, Publisher
  <2>2. ASSUME call[Succ(r)] = call[r] PROVE pc[Succ(r)] \in {"handshake", "idle"}
    <3>1. Job(Succ(r)) = Job(r) /\ flagged[Succ(r)] \in Nat /\ call[r] \in Nat
      BY <1>2, <2>2, RankTypes DEF Job
    <3>2. flagged[Succ(r)] <= N(Job(r)) /\ copied[Succ(r)] \in Nat
      BY <1>1, <1>2, <2>2, <3>1, JobOf, RankTypes
    <3> QED BY <1>1, <2>1, <2>2, <3>1, <3>2 DEF HasPublished, Published
  <2> QED BY <2>1, <2>2 DEF HasPublished
<1> QED BY <1>4, <1>5

LEMMA ChainInit == Init => Chain
  BY DEF Init, Chain, ChainOf

\* A rank that is in a call, or past the first copies of it, remains so.
LEMMA CopiedKept ==
  ASSUME TypeOK, Positions, NEW q \in Ranks, StepBy(q), NEW s \in Ranks, NEW c \in Nat, NEW e \in Int,
         call[s] > c \/ (call[s] = c /\ copied[s] > e)
  PROVE  call'[s] > c \/ (call'[s] = c /\ copied'[s] > e)
<1>1. Onward(s)
  BY StepOnward
<1>2. call[s] \in Nat /\ copied[s] \in Nat
  BY RankTypes
<1>3. copied' \in [Ranks -> Nat]
  BY TypeStep DEF TypeOK
<1>4. copied'[s] \in Nat
  BY <1>3
<1> QED BY <1>1, <1>2, <1>4 DEF Onward

\* While main of r has a pair to wait for, its predecessor is not ahead.
LEMMA PredNotAhead ==
  ASSUME TypeOK, Skew, NEW r \in Ranks, pc[r] \in {"quant", "wait", "land", "join"}
  PROVE  ~(call[Pred(r)] > call[r])
<1>1. Pred(r) \in Ranks /\ Succ(Pred(r)) = r
  BY RingFacts
<1> QED BY <1>1 DEF Skew

\* The pair that main has just waited for.
LEMMA ChainNew ==
  ASSUME TypeOK, Positions, Counters, FlagsTrue, Chain, Skew, NEW r \in Ranks, WaitData(r),
         NEW d \in 1..W, Earlier(Job(r), pos[r], d) >= 0
  PROVE  LET s == Behind(r, d) IN
         call[s] > call[r] \/ (call[s] = call[r] /\ copied[s] > Earlier(Job(r), pos[r], d))
<1>1. /\ call[r] > 0 /\ pos[r] \in FlagSlots /\ pos[r] < N(Job(r)) /\ pc[r] = "wait" /\ pos[r] \in Nat
      /\ Job(r) \in Jobs /\ Job(r) = program[call[r]] /\ Job(r).pieces \in {1, 2} /\ call[r] \in Nat
      /\ N(Job(r)) \in Nat
  <2>1. call[r] > 0 /\ pos[r] \in FlagSlots /\ pos[r] < N(Job(r)) /\ pc[r] = "wait"
    BY FlagActions DEF WaitData
  <2> QED BY <2>1, JobOf, JobFacts, RankTypes
<1> DEFINE p == Pred(r)
<1>2. p \in Ranks /\ call[p] \in Nat /\ copied[p] \in Nat /\ flagged[p] \in Nat
  BY RingFacts, RankTypes
<1>3. HasPublished(p, call[r], pos[r])
  <2>1. StepBy(r) /\ ~Enter(r)
    BY <1>1 DEF StepBy, MainStep, Enter
  <2>2. ~Passed(r, pos[r]) /\ waited'[r][pos[r]] = waited[r][pos[r]] + 1
    <3>1. waited'[r][pos[r]] = waited[r][pos[r]] + 1
      BY <1>1, FlagActions, WaitFlagEffect
    <3> QED BY <1>1, <3>1 DEF Passed, Waited
  <2>3. HasPublished(Publisher(r, call[r], pos[r]), call[r], pos[r])
    BY <1>1, <2>1, <2>2, ArrivedNew
  <2> QED BY <1>1, <2>3 DEF Publisher
<1>4. call[p] = call[r] /\ Published(p, pos[r]) /\ Job(p) = Job(r)
  <2>1. ~(call[p] > call[r])
    BY <1>1, PredNotAhead
  <2> QED BY <1>3, <2>1 DEF HasPublished, Job
<1>5. copied[p] > pos[r]
  <2>1. flagged[p] > pos[r]
    BY <1>1, <1>2, <1>4 DEF Published
  <2>2. flagged[p] <= copied[p]
    BY <1>1, <1>2, <1>4, JobOf
  <2> QED BY <1>1, <1>2, <2>1, <2>2
<1>6. CASE d = 1
  <2>1. Behind(r, d) = p /\ Earlier(Job(r), pos[r], d) = pos[r]
    BY <1>1, <1>6, BehindFacts DEF Earlier
  <2> QED BY <1>4, <1>5, <2>1
<1>7. CASE d > 1
  <2>1. Behind(r, d) = Behind(p, d-1) /\ d-1 \in 1..W /\ Behind(r, d) \in Ranks
    BY <1>7, BehindFacts
  <2>2. SendReady(p, pos[r])
    BY <1>1, <1>2, <1>4, <1>5 DEF Positions, PositionOf
  <2>3. PICK e \in Nat : e = d - 1
    BY <1>7
  <2>4. e * Job(r).pieces <= pos[r]
    BY <1>1, <2>3 DEF Earlier
  <2>5. StepOf(Job(r), pos[r]) > 0
    <3>1. e <= StepOf(Job(r), pos[r]) /\ StepOf(Job(r), pos[r]) \in Nat
      BY <1>1, <2>4, PairBack, PairFacts
    <3> QED BY <1>7, <2>3, <3>1
  <2>6. Waited(p) > pos[r] - Job(r).pieces
    BY <1>1, <1>2, <1>4, <2>2, <2>5, SendWaited
  <2>7. PICK n \in Nat : n = pos[r] - Job(r).pieces /\ Earlier(Job(r), n, e) = Earlier(Job(r), pos[r], d)
    <3>1. PICK n \in Int : n = pos[r] - Job(r).pieces
      BY <1>1
    <3>2. n >= 0
      BY <1>1, <1>7, <2>3, <2>4, <3>1
    <3>3. Earlier(Job(r), n, e) = Earlier(Job(r), pos[r], d)
      BY <1>1, <2>3, <3>1 DEF Earlier
    <3> QED BY <3>1, <3>2, <3>3
  <2>8. n \in 0..Waited(p)-1
    <3>1. pos[p] \in Nat
      BY <1>2, RankTypes
    <3>2. Waited(p) \in Nat
      BY <3>1 DEF Waited
    <3> QED BY <2>6, <2>7, <3>2
  <2>9. ChainOf(p, e)
    BY <1>2, <2>1, <2>3 DEF Chain
  <2> QED BY <1>1, <1>4, <2>1, <2>3, <2>7, <2>8, <2>9 DEF ChainOf
<1> QED BY <1>6, <1>7

LEMMA ChainFrom ==
  ASSUME NEW r \in Ranks, NEW d \in 1..W,
         \A s \in Ranks, i \in 0..Waited(r)'-1 :
           s = Behind(r, d) /\ call'[r] > 0 /\ Earlier(Job(r)', i, d) >= 0 =>
             call'[s] > call'[r] \/ (call'[s] = call'[r] /\ copied'[s] > Earlier(Job(r)', i, d))
  PROVE  ChainOf(r, d)'
<1>1. \A j, i : Earlier(j, i, d)' = Earlier(j, i, d)
  BY DEF Earlier
<1>2. Behind(r, d) \in Ranks
  BY BehindFacts
<1> QED BY <1>1, <1>2 DEF ChainOf, Earlier

LEMMA ChainStep ==
  ASSUME TypeOK, Positions, Counters, FlagsTrue, Chain, Skew, NEW q \in Ranks, StepBy(q)
  PROVE  Chain'
<1> SUFFICES ASSUME NEW r \in Ranks, NEW d \in 1..W PROVE ChainOf(r, d)'
  BY DEF Chain
<1>1. program' = program /\ ChainOf(r, d) /\ call[r] \in Nat /\ pos[r] \in Nat
  BY StepOthers, RankTypes DEF Chain
<1>2. ASSUME NEW s \in Ranks, NEW i \in 0..Waited(r)'-1, s = Behind(r, d), call'[r] > 0,
             Earlier(Job(r)', i, d) >= 0
      PROVE  call'[s] > call'[r] \/ (call'[s] = call'[r] /\ copied'[s] > Earlier(Job(r)', i, d))
  <2>1. CASE call'[r] = call[r]
    <3>1. Job(r)' = Job(r) /\ Job(r) \in Jobs /\ Job(r).pieces \in {1, 2}
      BY <1>1, <1>2, <2>1, JobOf, JobFacts DEF Job
    <3>2. Earlier(Job(r), i, d) \in Int
      BY <3>1 DEF Earlier
    <3>3. call[s] > call[r] \/ (call[s] = call[r] /\ copied[s] > Earlier(Job(r), i, d))
      <4>1. CASE i \in 0..Waited(r)-1
        BY <1>1, <1>2, <2>1, <3>1, <4>1 DEF ChainOf
      <4>2. CASE i \notin 0..Waited(r)-1
        <5>1. r = q /\ WaitData(r)
          <6>1. CASE r # q
            BY <1>1, <4>2, <6>1, StepOthers, FrameOf
          <6>2. CASE r = q /\ ~WaitData(r)
            <7>1. ~Enter(r) /\ Before(Job(r), pos[r] + 1) \in {"join", "quant", "wait"}
              BY <1>1, <2>1, <3>1, <6>2, StepOwn, BeforeFacts
            <7>2. Waited(r)' = Waited(r)
              BY <1>1, <6>2, <7>1, StepOwn DEF Waited
            <7> QED BY <4>2, <7>2
          <6> QED BY <6>1, <6>2
        <5>2. i = pos[r]
          <6>1. pc[r] = "wait" /\ pc'[r] = "land" /\ pos'[r] = pos[r]
            BY <5>1 DEF WaitData, TypeOK
          <6> QED BY <1>1, <4>2, <6>1 DEF Waited
        <5> QED BY <1>2, <3>1, <5>1, <5>2, ChainNew
      <4> QED BY <4>1, <4>2
    <3> QED BY <1>1, <2>1, <3>1, <3>2, <3>3, CopiedKept
  <2>2. CASE call'[r] # call[r]
    <3>1. r = q /\ Enter(r)
      BY <2>2, StepOthers, StepOwn DEF Same
    <3>2. pos'[r] = 0 /\ pc'[r] = Before(program[call'[r]], 0) /\ call'[r] \in 1..Len(program)
      BY <3>1, StepOwn
    <3>3. program[call'[r]] \in Jobs
      BY <3>2, RankTypes
    <3>4. Waited(r)' = 0
      BY <3>2, <3>3, BeforeFacts DEF Waited
    <3> QED BY <3>4
  <2> QED BY <2>1, <2>2
<1> QED BY <1>2, ChainFrom

LEMMA SkewInit == Init => Skew
<1> SUFFICES ASSUME Init PROVE Skew
  OBVIOUS
<1>1. \A r \in Ranks : call[r] = 0 /\ Succ(r) \in Ranks
  BY RingFacts DEF Init
<1> QED BY <1>1 DEF Skew

LEMMA SkewStep ==
  ASSUME TypeOK, Positions, Arrived, Chain, Skew, NEW q \in Ranks, StepBy(q)
  PROVE  Skew'
<1>1. program' = program /\ \A s \in Ranks : s # q => Same(s)
  BY StepOthers
<1>2. \A s \in Ranks : call[s] \in Nat /\ Succ(s) \in Ranks /\ Succ(s) # s
  BY RankTypes, RingFacts
<1>3. CASE Enter(q)
  <2>1. call'[q] = call[q] + 1 /\ pc[q] = "idle"
    BY <1>3, StepOwn
  <2>2. \A s \in Ranks : call[s] >= call[q]
    <3>1. CASE call[q] = 0
      BY <1>2, <3>1
    <3>2. CASE call[q] > 0
      <4>1. pos[q] = N(Job(q))
        BY <2>1, <3>2 DEF Positions, PositionOf
      <4> QED BY <3>2, <4>1, AllEntered
    <3> QED BY <1>2, <3>1, <3>2
  <2>3. ASSUME NEW r \in Ranks, NEW s \in Ranks PROVE call'[r] <= call'[s] + 1
    BY <1>1, <1>2, <2>1, <2>2 DEF Same, Skew
  <2>4. ASSUME NEW r \in Ranks, call'[r] > call'[Succ(r)] PROVE pc'[Succ(r)] \in {"handshake", "idle"}
    <3>1. CASE r = q
      <4>1. call'[Succ(q)] = call[Succ(q)] /\ pc'[Succ(q)] = pc[Succ(q)]
        BY <1>1, <1>2 DEF Same
      <4>2. CASE call[q] = 0
        <5>1. call[Succ(q)] = 0
          BY <1>2, <2>1, <2>4, <3>1, <4>1, <4>2
        <5> QED BY <1>2, <3>1, <4>1, <5>1 DEF Positions, PositionOf
      <4>3. CASE call[q] > 0
        BY <1>2, <2>1, <2>4, <3>1, <4>1, <4>3, ArrivedFacts
      <4> QED BY <1>2, <4>2, <4>3
    <3>2. CASE Succ(r) = q
      <4>1. call'[r] = call[r] /\ call[r] <= call[q] + 1
        BY <1>1, <1>2, <3>2 DEF Same, Skew
      <4> QED BY <1>2, <2>1, <2>4, <3>2, <4>1
    <3>3. CASE r # q /\ Succ(r) # q
      BY <1>1, <1>2, <2>4, <3>3 DEF Same, Skew
    <3> QED BY <3>1, <3>2, <3>3
  <2> QED BY <2>3, <2>4 DEF Skew
<1>4. CASE ~Enter(q)
  <2>1. call' = call
    BY <1>4, StepOwn
  <2>2. ASSUME NEW r \in Ranks, call[r] > call[Succ(r)] PROVE pc'[Succ(r)] \in {"handshake", "idle"}
    <3>1. pc[Succ(r)] \in {"handshake", "idle"} /\ Onward(Succ(r))
      BY <1>2, <2>2, StepOnward DEF Skew
    <3> QED BY <1>2, <2>1, <3>1 DEF Onward
  <2> QED BY <2>1, <2>2 DEF Skew
<1> QED BY <1>3, <1>4

-----------------------------------------------------------------------------
(* Contents.                                                               *)

LEMMA PairOrder ==
  ASSUME NEW j \in Jobs, NEW i \in Nat, NEW m \in Nat, i < m
  PROVE  /\ StepOf(j, i) <= StepOf(j, m)
         /\ \A x \in CellsOf(j, i) : x \in CellsOf(j, m) => StepOf(j, i) < StepOf(j, m)
<1>1. StepOf(j, i) \in Nat /\ StepOf(j, m) \in Nat
  BY PairFacts
<1>2. StepOf(j, i) <= StepOf(j, m)
  <2>1. CASE j.pieces = 1
    BY <2>1, PairFacts
  <2>2. CASE j.pieces = 2
    <3>1. /\ i = 2 * StepOf(j, i) + (i % 2) /\ i % 2 \in {0, 1}
          /\ m = 2 * StepOf(j, m) + (m % 2) /\ m % 2 \in {0, 1}
      BY <2>2, PairFacts DEF Cells
    <3>2. PICK a \in {0, 1}, b \in {0, 1} : i = 2 * StepOf(j, i) + a /\ m = 2 * StepOf(j, m) + b
      BY <3>1
    <3> QED BY <1>1, <3>2
  <2> QED BY <2>1, <2>2, JobFacts
<1>3. ASSUME NEW x \in CellsOf(j, i), x \in CellsOf(j, m) PROVE StepOf(j, i) < StepOf(j, m)
  <2>1. StepOf(j, i) # StepOf(j, m)
    BY <1>3, PairUnique
  <2> QED BY <1>1, <1>2, <2>1
<1> QED BY <1>2, <1>3

\* A cell of a chunk is landed on again W steps later.
LEMMA PairReturns ==
  ASSUME NEW j \in Jobs, NEW r \in Ranks, NEW i \in Nat, NEW m \in Nat, i < m, m < N(j),
         NEW x \in CellsOf(j, i), x \in CellsOf(j, m),
         RecvChunk(j, r, StepOf(j, i)) = RecvChunk(j, r, StepOf(j, m))
  PROVE  m = i + W * j.pieces /\ StepOf(j, m) = StepOf(j, i) + W
<1>1. StepOf(j, i) \in Nat /\ StepOf(j, m) \in Nat /\ StepOf(j, m) < Steps(j)
  BY PairFacts
<1>2. StepOf(j, i) < StepOf(j, m)
  BY PairOrder
<1>3. StepOf(j, m) = StepOf(j, i) + W
  BY <1>1, <1>2, ChunkReturns
<1>4. W * j.pieces <= m
  BY <1>1, <1>3, PairBack
<1>5. PICK n \in Nat : /\ n = m - W * j.pieces /\ StepOf(j, n) = StepOf(j, m) - W
                       /\ CellsOf(j, n) = CellsOf(j, m)
  BY <1>4, PairBack
<1>6. i = n
  BY <1>1, <1>3, <1>5, PairUnique
<1> QED BY <1>3, <1>5, <1>6, JobFacts

\* While nothing has landed on a cell, the rank's number is in its input.
LEMMA InputStill ==
  ASSUME TypeOK, NEW r \in Ranks, InputOf(r), call[r] > 0, NEW c \in Ranks, NEW x \in Cells,
         Job(r).op = "reduce_scatter" =>
           \A i \in 0..pos[r]-1 :
             ~(RecvChunk(Job(r), r, StepOf(Job(r), i)) = c /\ x \in CellsOf(Job(r), i))
  PROVE  Input(r, c, x) = Sum(call[r], <<r>>)
  BY DEF Input, InputOf

LEMMA InputFirst ==
  ASSUME TypeOK, NEW r \in Ranks, InputOf(r), call[r] > 0, NEW x \in Cells
  PROVE  Input(r, SendChunk(Job(r), r, 0), x) = Carried(call[r], r, 0)
<1>1. /\ Job(r) \in Jobs /\ pos[r] \in Nat /\ pos[r] <= N(Job(r)) /\ call[r] \in Nat
      /\ N(Job(r)) \in Nat /\ Steps(Job(r)) > 0
      /\ Job(r).op = "reduce_scatter" => Steps(Job(r)) = W-1
  BY JobOf, JobFacts, RankTypes
<1>2. SendChunk(Job(r), r, 0) \in Ranks
  BY <1>1, ChunkForm
<1>3. ASSUME Job(r).op = "reduce_scatter", NEW i \in 0..pos[r]-1
      PROVE  RecvChunk(Job(r), r, StepOf(Job(r), i)) # SendChunk(Job(r), r, 0)
  <2>1. i \in Nat /\ i < N(Job(r))
    BY <1>1
  <2>2. StepOf(Job(r), i) \in Nat /\ StepOf(Job(r), i) < W-1
    BY <1>1, <1>3, <2>1, PairFacts
  <2> QED BY <1>1, <2>2, ChunkFirst
<1>4. Input(r, SendChunk(Job(r), r, 0), x) = Sum(call[r], <<r>>)
  BY <1>2, <1>3, InputStill
<1> QED BY <1>1, <1>4, CarriedFacts

\* What the predecessor has copied into the scratch of a rank in the same call.
LEMMA Received ==
  ASSUME TypeOK, Positions, Arrived, Skew, NEW r \in Ranks, ScratchOf(Pred(r)), call[r] > 0,
         NEW i \in Nat, i < Waited(r), copied[r] < N(Job(r)) \/ pc[r] = "land", NEW x \in CellsOf(Job(r), i)
  PROVE  scratch[r][StepOf(Job(r), i)][x] = Carried(call[r], Pred(r), StepOf(Job(r), i))
<1>1. Pred(r) \in Ranks /\ Succ(Pred(r)) = r /\ call[Pred(r)] \in Nat /\ call[r] \in Nat
  BY RingFacts, RankTypes
<1>2. ~(call[Pred(r)] > call[r])
  <2>1. pc[r] \notin {"handshake", "idle"}
    <3>1. copied[r] \in Nat /\ N(Job(r)) \in Nat
      BY RankTypes, JobOf, JobFacts
    <3> QED BY <3>1 DEF Positions, PositionOf
  <2> QED BY <1>1, <2>1 DEF Skew
<1>3. i \in 0..Waited(r)-1 /\ copied[Pred(r)] \in Nat
  BY <1>1, RankTypes DEF Waited
<1>4. call[Pred(r)] = call[r] /\ copied[Pred(r)] > i
  BY <1>2, <1>3, ArrivedFacts
<1>5. Job(Pred(r)) = Job(r)
  BY <1>4 DEF Job
<1>6. i \in 0..copied[Pred(r)]-1
  BY <1>3, <1>4
<1> QED BY <1>1, <1>4, <1>5, <1>6 DEF ScratchOf

\* What lands is the run of the ring that ends here, or a whole one.
LEMMA LandValue ==
  ASSUME TypeOK, Positions, Arrived, Skew, NEW r \in Ranks, ScratchOf(Pred(r)), InputOf(r), call[r] > 0,
         pc[r] = "land", NEW x \in CellsOf(Job(r), pos[r])
  PROVE  LET k == StepOf(Job(r), pos[r]) IN
         Landed(r, RecvChunk(Job(r), r, k), x) = Carried(call[r], r, k+1)
<1> DEFINE j == Job(r)
           k == StepOf(j, pos[r])
           c == RecvChunk(j, r, k)
<1>1. /\ j \in Jobs /\ pos[r] \in Nat /\ pos[r] < N(j) /\ call[r] \in Nat
      /\ Waited(r) = pos[r] + 1 /\ Pred(r) \in Ranks
  BY JobOf, RankTypes, RingFacts DEF Positions, PositionOf, Waited
<1>2. /\ k \in Nat /\ k < Steps(j) /\ c \in Ranks /\ x \in Cells /\ k < 2*W - 2
      /\ j.op = "reduce_scatter" => Steps(j) = W-1
  <2>1. k \in Nat /\ k < Steps(j) /\ c \in Ranks /\ x \in Cells
    BY <1>1, InCall
  <2>2. Steps(j) \in Nat /\ Steps(j) <= 2*W - 2 /\ (j.op = "reduce_scatter" => Steps(j) = W-1)
    BY <1>1, JobFacts
  <2> HIDE DEF c, k, j
  <2> QED BY <2>1, <2>2
<1>3. scratch[r][k][x] = Carried(call[r], Pred(r), k)
  BY <1>1, Received
<1>4. CASE k < W-1
  <2>1. Input(r, c, x) = Sum(call[r], <<r>>)
    <3>1. ASSUME NEW i \in 0..pos[r]-1, RecvChunk(j, r, StepOf(j, i)) = c, x \in CellsOf(j, i)
          PROVE  FALSE
      <4>1. i \in Nat /\ i < pos[r]
        BY <1>1
      <4>2. k = StepOf(j, i) + W /\ StepOf(j, i) \in Nat
        BY <1>1, <3>1, <4>1, PairReturns, PairFacts
      <4> QED BY <1>4, <4>2
    <3> HIDE DEF c, k
    <3> QED BY <1>2, <3>1, InputStill
  <2>2. Landed(r, c, x) = Added(scratch[r][k][x], Input(r, c, x))
    BY <1>4 DEF Landed, Reduces
  <2>4. Added(Carried(call[r], Pred(r), k), Sum(call[r], <<r>>)) = Carried(call[r], r, k+1)
    BY <1>1, <1>2, <1>4, CarriedNext
  <2> QED BY <1>3, <2>1, <2>2, <2>4
<1>5. CASE k >= W-1
  <2>1. Landed(r, c, x) = scratch[r][k][x]
    <3>1. ~(k < W-1)
      BY <1>2, <1>5
    <3> QED BY <3>1 DEF Landed, Reduces
  <2>2. Carried(call[r], Pred(r), k) = Carried(call[r], r, k+1)
    BY <1>1, <1>2, <1>5, CarriedNext
  <2> QED BY <1>3, <2>1, <2>2
<1> QED BY <1>2, <1>4, <1>5

\* What the copy stream sends from the stage or the tensor has landed there.
LEMMA SentLanded ==
  ASSUME TypeOK, NEW r \in Ranks, call[r] > 0, NEW m \in Nat, m < N(Job(r)), StepOf(Job(r), m) > 0,
         SendReady(r, m), ~(Fp8Gather(Job(r)) /\ StepOf(Job(r), m) > W-1)
  PROVE  \E n \in 0..pos[r]-1 :
           /\ n = m - Job(r).pieces /\ StepOf(Job(r), n) = StepOf(Job(r), m) - 1
           /\ CellsOf(Job(r), n) = CellsOf(Job(r), m)
           /\ SendChunk(Job(r), r, StepOf(Job(r), m)) = RecvChunk(Job(r), r, StepOf(Job(r), n))
<1> DEFINE j == Job(r)
           k == StepOf(j, m)
<1>1. /\ j \in Jobs /\ j.pieces \in {1, 2} /\ k \in Nat /\ k < Steps(j) /\ pos[r] \in Nat /\ Steps(j) \in Nat
  BY JobOf, JobFacts, RankTypes, PairFacts
<1>3. PICK n \in Nat : n = m - j.pieces /\ StepOf(j, n) = k - 1 /\ CellsOf(j, n) = CellsOf(j, m)
  BY <1>1, PairFirst
<1>4. SendChunk(j, r, k) = RecvChunk(j, r, k-1)
  <2>1. PICK e \in Nat : e = k - 1
    BY <1>1
  <2>2. e + 1 < Steps(j) /\ k = e + 1
    BY <1>1, <2>1
  <2>3. SendChunk(j, r, e+1) = RecvChunk(j, r, e)
    BY <1>1, <2>2, ChunkForwarded
  <2> QED BY <2>1, <2>2, <2>3
<1>5. n < pos[r]
  <2>1. CASE Fp8Gather(j) /\ k = W-1
    <3>1. Quanted(r, (W-1) * j.pieces)
      BY <1>1, <2>1 DEF SendReady
    <3>2. pos[r] >= (W-1) * j.pieces
      BY <1>1, <3>1 DEF Quanted
    <3>3. m < (W-1) * j.pieces + j.pieces
      BY <1>1, <2>1, PairFacts
    <3> QED BY <1>1, <1>3, <3>2, <3>3
  <2>2. CASE ~(Fp8Gather(j) /\ k = W-1)
    <3>1. Recorded(r) > n
      BY <1>1, <1>3, <2>2 DEF SendReady
    <3>2. CASE Recorded(r) = pos[r]
      BY <3>1, <3>2
    <3>3. CASE Recorded(r) # pos[r]
      <4>1. Fp8Gather(j) /\ ~(StepOf(j, pos[r]) < W-1)
        BY <3>3 DEF Recorded, Reduces
      <4>2. k < W-1
        BY <1>1, <2>2, <4>1
      <4>3. ~(pos[r] <= m)
        <5>1. pos[r] < m => StepOf(j, pos[r]) <= k
          BY <1>1, PairOrder
        <5>2. pos[r] = m => StepOf(j, pos[r]) = k
          OBVIOUS
        <5>3. StepOf(j, pos[r]) \in Nat
          BY <1>1, PairFacts
        <5> QED BY <1>1, <4>1, <4>2, <5>1, <5>2, <5>3
      <4> QED BY <1>1, <1>3, <4>3
    <3> QED BY <3>2, <3>3
  <2> QED BY <2>1, <2>2
<1>6. n \in 0..pos[r]-1
  BY <1>1, <1>5
<1> QED BY <1>3, <1>4, <1>6

\* Main is not W steps ahead of its own copy stream: the chain is closed.
LEMMA CopyBehind ==
  ASSUME TypeOK, Chain, NEW r \in Ranks, call[r] > 0
  PROVE  Waited(r) <= copied[r] + (W-1) * Job(r).pieces
<1>1. /\ Job(r).pieces \in {1, 2} /\ pos[r] \in Nat /\ copied[r] \in Nat /\ call[r] \in Nat
      /\ Waited(r) \in Nat
  BY JobOf, JobFacts, RankTypes DEF Waited
<1>2. SUFFICES ASSUME Waited(r) > copied[r] + (W-1) * Job(r).pieces PROVE FALSE
  <2>1. (W-1) * Job(r).pieces \in Nat
    BY <1>1
  <2> QED BY <1>1, <2>1
<1>3. PICK i \in Nat : i = copied[r] + (W-1) * Job(r).pieces
  BY <1>1
<1>4. i \in 0..Waited(r)-1 /\ Earlier(Job(r), i, W) = copied[r]
  <2>1. PICK e \in Nat : e = (W-1) * Job(r).pieces
    BY <1>1
  <2>2. i \in 0..Waited(r)-1 /\ i - e = copied[r]
    BY <1>1, <1>2, <1>3, <2>1
  <2> QED BY <2>1, <2>2 DEF Earlier
<1>5. Behind(r, W) = r /\ ChainOf(r, W)
  BY BehindFacts DEF Chain
<1>6. call[r] > call[r] \/ copied[r] > copied[r]
  BY <1>1, <1>4, <1>5 DEF ChainOf
<1> QED BY <1>1, <1>6

\* The content that the copy stream reads.
LEMMA CopyValue ==
  ASSUME TypeOK, Positions, Arrived, Chain, Skew, NEW r \in Ranks, ScratchOf(Pred(r)), BufOf(r), StageOf(r),
         InputOf(r), CopyReady(r), NEW x \in CellsOf(Job(r), copied[r])
  PROVE  CopySource(r, x) = Carried(call[r], r, StepOf(Job(r), copied[r]))
<1> DEFINE j == Job(r)
           m == copied[r]
           k == StepOf(j, m)
           c == SendChunk(j, r, k)
<1>1. /\ call[r] > 0 /\ m < N(j) /\ SendReady(r, m) /\ m \in Nat /\ pos[r] \in Nat /\ call[r] \in Nat
  BY RankTypes DEF CopyReady, SendReady
<1>2. /\ j \in Jobs /\ k \in Nat /\ k < Steps(j) /\ c \in Ranks /\ x \in Cells /\ j.pieces \in {1, 2}
      /\ j.op \in {"all_reduce", "reduce_scatter"}
      /\ (j.op = "reduce_scatter" => k < W-1) /\ k < 2*W - 2
  <2>1. j \in Jobs /\ k \in Nat /\ k < Steps(j) /\ c \in Ranks /\ x \in Cells
    BY <1>1, InCall
  <2>2. /\ Steps(j) \in Nat /\ Steps(j) <= 2*W - 2 /\ (j.op = "reduce_scatter" => Steps(j) = W-1)
        /\ j.pieces \in {1, 2} /\ j.op \in {"all_reduce", "reduce_scatter"}
    BY <2>1, JobFacts
  <2> HIDE DEF c, k, j
  <2> QED BY <2>1, <2>2
<1>3. CASE CopyArea(r) = "stage"
  <2>1. CopySource(r, x) = stage[r][c][x]
    BY <1>3 DEF CopySource
  <2>2. (Fp8Reduce(j) /\ k < W-1) \/ (Fp8Gather(j) /\ k = W-1)
    BY <1>3 DEF CopyArea, Reduces
  <2>3. CASE k = 0
    <3>1. Fp8Reduce(j) /\ Quanted(r, m)
      BY <1>1, <1>2, <2>2, <2>3 DEF SendReady
    <3>2. m \in 0..j.pieces-1
      <4>1. m < j.pieces
        BY <1>1, <1>2, <2>3, PairFirst
      <4> QED BY <1>1, <1>2, <4>1
    <3> QED BY <1>1, <2>1, <2>3, <3>1, <3>2 DEF StageOf
  <2>4. CASE k > 0 /\ Fp8Reduce(j)
    <3>1. PICK n \in 0..pos[r]-1 : /\ StepOf(j, n) = k - 1 /\ CellsOf(j, n) = CellsOf(j, m)
                                   /\ c = RecvChunk(j, r, StepOf(j, n))
      <4>1. ~(Fp8Gather(j) /\ k > W-1)
        BY <1>2, <2>2
      <4> QED BY <1>1, <2>4, <4>1, SentLanded
    <3>2. "stage" \in LandAreas(j, StepOf(j, n))
      BY <1>2, <2>2, <2>4, <3>1 DEF LandAreas, Reduces
    <3>3. LandedIn(r, "stage", stage, n)
      BY <1>1, <3>1 DEF StageOf
    <3>4. stage[r][c][x] = Carried(call[r], r, (k-1) + 1)
      BY <3>1, <3>2, <3>3 DEF LandedIn
    <3>5. (k-1) + 1 = k
      BY <1>2
    <3> QED BY <2>1, <3>4, <3>5
  <2>5. CASE ~Fp8Reduce(j)
    <3>1. Fp8Gather(j) /\ k = W-1 /\ Quanted(r, (W-1) * j.pieces)
      BY <1>1, <1>2, <2>2, <2>5 DEF SendReady
    <3>2. stage[r][SendChunk(j, r, W-1)][x] = Carried(call[r], r, W-1)
      BY <1>1, <1>2, <2>5, <3>1 DEF StageOf
    <3> QED BY <2>1, <3>1, <3>2
  <2> QED BY <1>2, <2>3, <2>4, <2>5
<1>4. CASE CopyArea(r) = "scratch"
  <2>1. CopySource(r, x) = scratch[r][k-1][x] /\ Fp8Gather(j) /\ k > W-1
    BY <1>4 DEF CopySource, CopyArea
  <2>2. PICK n \in Nat : n = m - j.pieces /\ StepOf(j, n) = k - 1 /\ CellsOf(j, n) = CellsOf(j, m)
    <3>1. k > 0
      BY <1>2, <2>1
    <3> QED BY <1>1, <1>2, <3>1, PairFirst
  <2>3. Waited(r) > n
    BY <1>1, <1>2, <2>1, <2>2, SendWaited
  <2>4. scratch[r][k-1][x] = Carried(call[r], Pred(r), k-1)
    BY <1>1, <2>2, <2>3, Received
  <2>5. PICK e \in Nat : e = k - 1
    BY <1>2, <2>1
  <2>6. e >= W-1 /\ e < 2*W - 2 /\ e + 1 = k
    BY <1>2, <2>1, <2>5
  <2>7. Carried(call[r], Pred(r), e) = Carried(call[r], r, e+1)
    BY <1>1, <2>6, CarriedNext
  <2> QED BY <2>1, <2>4, <2>5, <2>6, <2>7
<1>5. CASE CopyArea(r) = "input"
  <2>1. CopySource(r, x) = Input(r, c, x) /\ k = 0
    BY <1>5 DEF CopySource, CopyArea
  <2> QED BY <1>1, <1>2, <2>1, InputFirst
<1>6. CASE CopyArea(r) = "buf"
  <2>1. CopySource(r, x) = buf[r][c][x] /\ k > 0 /\ ~(Fp8Gather(j) /\ k >= W-1)
        /\ ~(Fp8Reduce(j) /\ k < W-1)
    <3>1. CopySource(r, x) = buf[r][c][x]
      BY <1>6 DEF CopySource
    <3>2. k # 0 /\ ~(Fp8Gather(j) /\ k > W-1) /\ ~(Fp8Gather(j) /\ k = W-1) /\ ~(Fp8Reduce(j) /\ k < W-1)
      BY <1>6 DEF CopyArea, Reduces
    <3> QED BY <1>2, <3>1, <3>2
  <2>2. PICK n \in 0..pos[r]-1 : /\ n = m - j.pieces /\ StepOf(j, n) = k - 1
                                 /\ CellsOf(j, n) = CellsOf(j, m)
                                 /\ c = RecvChunk(j, r, StepOf(j, n))
    <3>1. ~(Fp8Gather(j) /\ k > W-1)
      BY <1>2, <2>1
    <3> QED BY <1>1, <2>1, <3>1, SentLanded
  <2>3. "buf" \in LandAreas(j, StepOf(j, n))
    <3>1. Fp8Reduce(j) => k >= W-1
      BY <1>2, <2>1
    <3>2. Fp8Reduce(j) => Fp8Gather(j)
      <4>1. Fp8Reduce(j) => j.op = "all_reduce" /\ j.wire # "bf16"
        BY <1>2, <3>1 DEF Fp8Reduce
      <4> QED BY <4>1 DEF Fp8Gather
    <3>3. ~Fp8Reduce(j)
      BY <2>1, <3>1, <3>2
    <3> QED BY <3>3 DEF LandAreas
  <2>4. pos[r] <= n + W * j.pieces
    <3>1. Waited(r) <= m + (W-1) * j.pieces /\ pos[r] <= Waited(r)
      BY <1>1, CopyBehind DEF Waited
    <3>2. m + (W-1) * j.pieces = n + W * j.pieces
      BY <1>1, <1>2, <2>2
    <3>3. Waited(r) \in Nat /\ W * j.pieces \in Nat /\ n \in Nat
      BY <1>1, <1>2 DEF Waited
    <3> QED BY <1>1, <3>1, <3>2, <3>3
  <2>5. LandedIn(r, "buf", buf, n)
    BY <1>1, <2>2, <2>4 DEF BufOf
  <2>6. buf[r][c][x] = Carried(call[r], r, (k-1) + 1)
    BY <2>2, <2>3, <2>5 DEF LandedIn
  <2>7. (k-1) + 1 = k
    BY <1>2
  <2> QED BY <2>1, <2>6, <2>7
<1>7. CopyArea(r) \in {"stage", "scratch", "input", "buf"}
  BY DEF CopyArea
<1> QED BY <1>3, <1>4, <1>5, <1>6, <1>7

LEMMA ContentsInit == Init => Contents
  BY DEF Init, Contents, ScratchOf, BufOf, StageOf, InputOf

LEMMA ScratchFrom ==
  ASSUME NEW s \in Ranks,
         call'[s] > 0 =>
           \A i \in 0..copied'[s]-1 : \A x \in CellsOf(Job(s)', i) :
             scratch'[Succ(s)][StepOf(Job(s)', i)][x] = Carried(call'[s], s, StepOf(Job(s)', i))
  PROVE  ScratchOf(s)'
  BY DEF ScratchOf

LEMMA ScratchStep ==
  ASSUME TypeOK, Positions, Arrived, Chain, Skew, Contents, NEW q \in Ranks, StepBy(q), NEW s \in Ranks
  PROVE  ScratchOf(s)'
<1>1. /\ program' = program /\ (s # q => Same(s)) /\ ScratchOf(s)
      /\ call[s] \in Nat /\ copied[s] \in Nat
  BY StepOthers, RankTypes DEF Contents
<1>2. CASE ~CopyStep(q)
  <2>1. scratch' = scratch
    BY <1>2, QuantEffect, LandEffect, EnterEffect, OtherEffect DEF StepBy, MainStep
  <2>2. CASE call'[s] = call[s] /\ copied'[s] = copied[s]
    <3>1. Job(s)' = Job(s)
      BY <1>1, <2>2 DEF Job
    <3> QED BY <1>1, <2>1, <2>2, <3>1, ScratchFrom DEF ScratchOf
  <2>3. CASE ~(call'[s] = call[s] /\ copied'[s] = copied[s])
    <3>1. s = q
      BY <1>1, <2>3 DEF Same
    <3>2. copied'[s] = 0
      BY <1>2, <2>3, <3>1, StepOwn
    <3> QED BY <3>2, ScratchFrom
  <2> QED BY <2>2, <2>3
<1>3. CASE CopyStep(q)
  <2>1. call'[s] = call[s] /\ Job(s)' = Job(s)
    BY <1>1, <1>3, CopyFacts DEF Job
  <2>2. ASSUME call'[s] > 0, NEW i \in 0..copied'[s]-1, NEW x \in CellsOf(Job(s)', i)
        PROVE  scratch'[Succ(s)][StepOf(Job(s)', i)][x] = Carried(call'[s], s, StepOf(Job(s)', i))
    <3>1. call[s] > 0 /\ i \in Nat /\ x \in CellsOf(Job(s), i) /\ Succ(s) \in Ranks /\ Job(s) \in Jobs
          /\ copied[s] <= N(Job(s)) /\ N(Job(s)) \in Nat
      <4>1. call[s] > 0 /\ i \in Nat /\ x \in CellsOf(Job(s), i)
        BY <2>1, <2>2
      <4> QED BY <4>1, JobOf, JobFacts, RingFacts
    <3>2. CASE i \in 0..copied[s]-1
      <4>1. i < N(Job(s))
        BY <1>1, <3>1, <3>2
      <4>2. StepOf(Job(s), i) \in 0..MaxSteps-1 /\ x \in Cells
        BY <3>1, <4>1, InCall
      <4>3. scratch[Succ(s)][StepOf(Job(s), i)][x] = Carried(call[s], s, StepOf(Job(s), i))
        BY <1>1, <3>1, <3>2 DEF ScratchOf
      <4>4. scratch'[Succ(s)][StepOf(Job(s), i)][x] = scratch[Succ(s)][StepOf(Job(s), i)][x]
        <5>1. CASE s # q
          <6>1. Succ(s) # Succ(q)
            BY <5>1, SuccUnique
          <6> QED BY <1>3, <3>1, <4>2, <6>1, CopyEffect
        <5>2. CASE s = q /\ StepOf(Job(s), i) # StepOf(Job(q), copied[q])
          BY <1>3, <3>1, <4>2, <5>2, CopyEffect
        <5>3. CASE s = q /\ StepOf(Job(s), i) = StepOf(Job(q), copied[q])
          <6>1. x \notin CellsOf(Job(q), copied[q])
            BY <1>1, <3>1, <3>2, <5>3, PairUnique
          <6> QED BY <1>3, <4>2, <5>3, <6>1, CopyEffect
        <5> QED BY <5>1, <5>2, <5>3
      <4> QED BY <2>1, <4>3, <4>4
    <3>3. CASE i \notin 0..copied[s]-1
      <4>1. s = q /\ i = copied[s]
        <5>1. s # q => copied'[s] = copied[s]
          BY <1>1 DEF Same
        <5>2. s = q => copied'[s] = copied[s] + 1
          BY <1>3, CopyFacts
        <5> QED BY <1>1, <2>2, <3>3, <5>1, <5>2
      <4>2. i < N(Job(s))
        BY <1>3, <4>1, CopyFacts
      <4>3. x \in Cells /\ Pred(q) \in Ranks
        BY <3>1, <4>2, InCall, RingFacts
      <4>4. scratch'[Succ(s)][StepOf(Job(s), i)][x] = CopySource(q, x)
        BY <1>3, <3>1, <4>1, <4>3, CopyEffect
      <4>5. CopySource(q, x) = Carried(call[q], q, StepOf(Job(q), copied[q]))
        <5>1. CopyReady(q) /\ ScratchOf(Pred(q)) /\ BufOf(q) /\ StageOf(q) /\ InputOf(q)
          BY <1>3, <4>3 DEF CopyStep, Contents
        <5> QED BY <3>1, <4>1, <5>1, CopyValue
      <4> QED BY <2>1, <4>1, <4>4, <4>5
    <3> QED BY <3>2, <3>3
  <2> QED BY <2>2, ScratchFrom
<1> QED BY <1>2, <1>3

-----------------------------------------------------------------------------
(* The stage and the tensor.                                               *)

\* The memory of a rank whose main stream has not moved.
LEMMA MainFrame ==
  ASSUME TypeOK, Positions, Contents, NEW s \in Ranks, program' = program, call'[s] = call[s],
         pos'[s] = pos[s], buf'[s] = buf[s], stage'[s] = stage[s],
         pc'[s] = pc[s] \/ (pc[s] # "quant" /\ pc'[s] # "quant")
  PROVE  BufOf(s)' /\ StageOf(s)' /\ InputOf(s)'
<1>1. Job(s)' = Job(s) /\ BufOf(s) /\ StageOf(s) /\ InputOf(s)
  BY DEF Job, Contents
<1>2. \A i : Quanted(s, i)' <=> Quanted(s, i)
  BY DEF Quanted
<1>3. \A i : /\ LandedIn(s, "buf", buf, i)' <=> LandedIn(s, "buf", buf, i)
             /\ LandedIn(s, "stage", stage, i)' <=> LandedIn(s, "stage", stage, i)
  BY <1>1 DEF LandedIn
<1>4. BufOf(s)'
  BY <1>1, <1>3 DEF BufOf
<1>5. StageOf(s)'
  BY <1>1, <1>2, <1>3 DEF StageOf
<1>6. InputOf(s)'
  BY <1>1 DEF InputOf
<1> QED BY <1>4, <1>5, <1>6

LEMMA EnterContents ==
  ASSUME TypeOK, Positions, NEW r \in Ranks, Enter(r)
  PROVE  BufOf(r)' /\ StageOf(r)' /\ InputOf(r)'
<1>1. /\ pos'[r] = 0 /\ pc'[r] = Before(program[call'[r]], 0) /\ call'[r] \in 1..Len(program)
      /\ program' = program
  BY StepOwn, StepOthers DEF StepBy
<1>2. PICK j \in Jobs : j = program[call'[r]] /\ Job(r)' = j
  BY <1>1, RankTypes DEF Job
<1>3. j.pieces \in {1, 2} /\ N(j) # 0 /\ (W-1) * j.pieces > 0
  BY <1>2, JobFacts
<1>4. BufOf(r)'
  BY <1>1 DEF BufOf
<1>5. InputOf(r)'
  BY <1>1, <1>2, EnterEffect DEF InputOf
<1>6. StageOf(r)'
  <2>1. ASSUME Fp8Reduce(j), NEW i \in 0..j.pieces-1 PROVE ~(Quanted(r, i)')
    <3>1. pc'[r] = "quant"
      BY <1>1, <1>2, <1>3, <2>1 DEF Before, Quants
    <3> QED BY <1>1, <1>3, <3>1 DEF Quanted
  <2>2. ~(Quanted(r, (W-1) * j.pieces)')
    BY <1>1, <1>3 DEF Quanted
  <2> QED BY <1>1, <1>2, <2>1, <2>2 DEF StageOf
<1> QED BY <1>4, <1>5, <1>6

\* Landing and the stage: only FP8 reduce hops leave anything there.
LEMMA StageLanding ==
  ASSUME NEW j \in Jobs, NEW k \in Nat
  PROVE  /\ "stage" \in LandAreas(j, k) <=> Fp8Reduce(j) /\ k < W-1
         /\ "buf" \in LandAreas(j, k) <=> ~(Fp8Reduce(j) /\ k < W-2)
         /\ LandAreas(j, k) \subseteq {"stage", "buf"}
  BY DEF LandAreas, Reduces

\* The owned chunk is whole in the tensor when it is quantized for the second phase.
LEMMA OwnedLanded ==
  ASSUME TypeOK, NEW r \in Ranks, call[r] > 0, BufOf(r), pos[r] = (W-1) * Job(r).pieces,
         pos[r] < N(Job(r)), ~Fp8Reduce(Job(r)), NEW x \in Cells
  PROVE  buf[r][SendChunk(Job(r), r, W-1)][x] = Carried(call[r], r, W-1)
<1>1. Job(r) \in Jobs /\ Job(r).pieces \in {1, 2} /\ pos[r] \in Nat /\ Steps(Job(r)) \in Nat
  BY JobOf, JobFacts, RankTypes
<1>2. PICK e \in Nat : e = W-2
  OBVIOUS
<1>3. e + 1 < Steps(Job(r)) /\ e < Steps(Job(r)) /\ e + 1 = W - 1 /\ W - 1 \in Nat
  <2>1. W - 1 <= StepOf(Job(r), pos[r]) /\ StepOf(Job(r), pos[r]) < Steps(Job(r)) /\ StepOf(Job(r), pos[r]) \in Nat
    <3>1. PICK d \in Nat : d = W - 1
      OBVIOUS
    <3>2. d * Job(r).pieces <= pos[r]
      BY <1>1, <3>1
    <3> QED BY <1>1, <3>1, <3>2, PairBack, PairFacts
  <2> QED BY <1>1, <1>2, <2>1
<1>4. PICK i \in 0..N(Job(r))-1 : StepOf(Job(r), i) = e /\ x \in CellsOf(Job(r), i)
  BY <1>1, <1>3, PairOfCell
<1>5. i < (W-1) * Job(r).pieces /\ (W-2) * Job(r).pieces <= i /\ i \in Nat
  <2>1. i \in Nat
    BY <1>4
  <2>2. CASE Job(r).pieces = 1
    <3>1. i = W-2
      BY <1>1, <1>2, <1>4, <2>1, <2>2, PairFacts
    <3> QED BY <2>1, <2>2, <3>1
  <2>3. CASE Job(r).pieces = 2
    <3>1. i = 2 * e + (i % 2) /\ i % 2 \in {0, 1}
      BY <1>1, <1>4, <2>1, <2>3, PairFacts DEF Cells
    <3>2. PICK a \in {0, 1} : i = 2 * e + a
      BY <3>1
    <3> QED BY <1>2, <2>1, <2>3, <3>2
  <2> QED BY <1>1, <2>2, <2>3
<1>6. i \in 0..pos[r]-1 /\ pos[r] <= i + W * Job(r).pieces
  BY <1>1, <1>5
<1>7. LandedIn(r, "buf", buf, i)
  BY <1>6 DEF BufOf
<1>8. "buf" \in LandAreas(Job(r), e)
  BY <1>1, StageLanding
<1>9. buf[r][RecvChunk(Job(r), r, e)][x] = Carried(call[r], r, e + 1)
  BY <1>4, <1>7, <1>8 DEF LandedIn
<1>10. SendChunk(Job(r), r, e + 1) = RecvChunk(Job(r), r, e)
  BY <1>1, <1>3, ChunkForwarded
<1> QED BY <1>3, <1>9, <1>10

LEMMA QuantContents ==
  ASSUME TypeOK, Positions, Contents, NEW r \in Ranks, Quant(r)
  PROVE  BufOf(r)' /\ StageOf(r)' /\ InputOf(r)'
<1> DEFINE j == Job(r)
           c == SendChunk(j, r, StepOf(j, pos[r]))
<1>1. /\ call[r] > 0 /\ call' = call /\ program' = program /\ pos' = pos
      /\ pc[r] = "quant" /\ pc'[r] = "wait" /\ pos[r] < N(j) /\ buf' = buf
  <2>1. call[r] > 0 /\ pos[r] < N(j) /\ buf' = buf
    BY QuantEffect
  <2>2. /\ call' = call /\ program' = program /\ pos' = pos /\ pc[r] = "quant" /\ pc'[r] = "wait"
    BY DEF Quant, TypeOK
  <2> QED BY <2>1, <2>2
<1>2. /\ j \in Jobs /\ j.pieces \in {1, 2} /\ Quants(j, pos[r]) /\ Job(r)' = Job(r) /\ pos[r] \in Nat
      /\ BufOf(r) /\ StageOf(r) /\ InputOf(r) /\ N(j) \in Nat /\ StepOf(j, pos[r]) \in Nat
      /\ call[r] \in Nat
  BY <1>1, JobOf, JobFacts, RankTypes, PairFacts DEF Job, Positions, PositionOf, Contents
<1>3. \A i : LandedIn(r, "buf", buf, i)' <=> LandedIn(r, "buf", buf, i)
  BY <1>1, <1>2 DEF LandedIn
<1>4. BufOf(r)' /\ InputOf(r)'
  BY <1>1, <1>2, <1>3 DEF BufOf, InputOf
<1>5. /\ \A d \in Ranks : d # c => stage'[r][d] = stage[r][d]
      /\ \A x \in Cells : stage'[r][c][x] =
           IF x \notin QuantCells(j, pos[r]) THEN stage[r][c][x]
           ELSE IF Reduces(j, StepOf(j, pos[r])) THEN Input(r, c, x) ELSE buf[r][c][x]
  BY QuantEffect
<1>6. Fp8Reduce(j) => /\ pos[r] < j.pieces /\ StepOf(j, pos[r]) = 0 /\ c = SendChunk(j, r, 0)
                      /\ Reduces(j, 0) /\ QuantCells(j, pos[r]) = CellsOf(j, pos[r])
  <2>1. Fp8Reduce(j) => pos[r] < j.pieces
    BY <1>2 DEF Quants
  <2>2. pos[r] < j.pieces => StepOf(j, pos[r]) = 0
    BY <1>2, PairFirst
  <2> QED BY <2>1, <2>2 DEF Reduces, QuantCells
<1>7. ASSUME NEW i \in 0..pos[r]-1 PROVE LandedIn(r, "stage", stage, i)'
  <2>1. LandedIn(r, "stage", stage, i) /\ i \in Nat /\ i < N(j)
    BY <1>1, <1>2, <1>7 DEF StageOf
  <2>2. RecvChunk(j, r, StepOf(j, i)) \in Ranks /\ StepOf(j, i) \in Nat
    BY <1>1, <2>1, InCall
  <2>3. "stage" \in LandAreas(j, StepOf(j, i)) => RecvChunk(j, r, StepOf(j, i)) # c
    BY <1>2, <1>6, <2>2, StageLanding, ChunkFirst
  <2>4. "stage" \in LandAreas(j, StepOf(j, i)) =>
          stage'[r][RecvChunk(j, r, StepOf(j, i))] = stage[r][RecvChunk(j, r, StepOf(j, i))]
    BY <1>5, <2>2, <2>3
  <2> QED BY <1>1, <1>2, <2>1, <2>4 DEF LandedIn
<1>8. ASSUME Fp8Reduce(j), NEW i \in 0..j.pieces-1, Quanted(r, i)', NEW x \in CellsOf(j, i)
      PROVE  stage'[r][SendChunk(j, r, 0)][x] = Carried(call[r], r, 0)
  <2>1. i \in Nat /\ i <= pos[r] /\ StepOf(j, i) = 0 /\ x \in Cells
    <3>1. i \in Nat /\ i < j.pieces
      BY <1>2
    <3>2. StepOf(j, i) = 0 /\ x \in Cells
      BY <1>2, <3>1, PairFirst, PairFacts
    <3> QED BY <1>1, <1>2, <1>8, <3>1, <3>2 DEF Quanted
  <2>2. CASE i = pos[r]
    <3>1. stage'[r][c][x] = Input(r, c, x)
      BY <1>5, <1>6, <1>8, <2>1, <2>2
    <3>2. Input(r, SendChunk(j, r, 0), x) = Carried(call[r], r, 0)
      BY <1>1, <1>2, <2>1, InputFirst
    <3> QED BY <1>6, <1>8, <3>1, <3>2
  <2>3. CASE i < pos[r]
    <3>1. x \notin CellsOf(j, pos[r])
      BY <1>2, <1>6, <1>8, <2>1, <2>3, PairUnique
    <3>2. stage'[r][c][x] = stage[r][c][x]
      BY <1>5, <1>6, <1>8, <2>1, <3>1
    <3>3. Quanted(r, i)
      BY <2>3 DEF Quanted
    <3> QED BY <1>1, <1>2, <1>6, <1>8, <3>2, <3>3 DEF StageOf
  <2> QED BY <1>2, <2>1, <2>2, <2>3
<1>9. ASSUME Fp8Gather(j), ~Fp8Reduce(j), NEW x \in Cells
      PROVE  stage'[r][SendChunk(j, r, W-1)][x] = Carried(call[r], r, W-1)
  <2>1. pos[r] = (W-1) * j.pieces
    BY <1>2, <1>9 DEF Quants
  <2>2. StepOf(j, pos[r]) = W-1
    <3>1. CASE j.pieces = 1
      BY <1>2, <2>1, <3>1, PairFacts
    <3>2. CASE j.pieces = 2
      <4>1. pos[r] = 2 * StepOf(j, pos[r]) + (pos[r] % 2) /\ pos[r] % 2 \in {0, 1} /\ pos[r] = 2 * (W-1)
        BY <1>2, <2>1, <3>2, PairFacts DEF Cells
      <4>2. PICK a \in {0, 1} : pos[r] = 2 * StepOf(j, pos[r]) + a
        BY <4>1
      <4> QED BY <1>2, <4>1, <4>2
    <3> QED BY <1>2, <3>1, <3>2
  <2>3. ~Reduces(j, StepOf(j, pos[r])) /\ QuantCells(j, pos[r]) = Cells
    BY <2>2 DEF Reduces, QuantCells
  <2>4. stage'[r][c][x] = buf[r][c][x]
    BY <1>5, <2>3
  <2> QED BY <1>1, <1>2, <1>9, <2>1, <2>2, <2>4, OwnedLanded
<1>10. StageOf(r)'
  BY <1>1, <1>2, <1>7, <1>8, <1>9 DEF StageOf
<1> QED BY <1>4, <1>10

LEMMA LandContents ==
  ASSUME TypeOK, Positions, Arrived, Skew, Contents, NEW r \in Ranks, Land(r)
  PROVE  BufOf(r)' /\ StageOf(r)' /\ InputOf(r)'
<1> DEFINE j == Job(r)
           k == StepOf(j, pos[r])
           c == RecvChunk(j, r, k)
<1>1. /\ call[r] > 0 /\ call' = call /\ program' = program /\ pos'[r] = pos[r] + 1
      /\ pc[r] = "land" /\ pc'[r] = Before(j, pos[r] + 1) /\ pos[r] < N(j) /\ c \in Ranks
  <2>1. call[r] > 0 /\ pos[r] < N(j) /\ c \in Ranks
    BY LandEffect
  <2>2. /\ call' = call /\ program' = program /\ pos'[r] = pos[r] + 1
        /\ pc[r] = "land" /\ pc'[r] = Before(j, pos[r] + 1)
    BY DEF Land, TypeOK
  <2> QED BY <2>1, <2>2
<1>2. /\ j \in Jobs /\ j.pieces \in {1, 2} /\ Job(r)' = Job(r) /\ pos[r] \in Nat
      /\ BufOf(r) /\ StageOf(r) /\ InputOf(r) /\ ScratchOf(Pred(r)) /\ N(j) \in Nat /\ k \in Nat
      /\ call[r] \in Nat /\ Pred(r) \in Ranks /\ k < Steps(j)
  BY <1>1, JobOf, JobFacts, RankTypes, RingFacts, PairFacts DEF Job, Contents
<1>3. /\ \A d \in Ranks : d # c => buf'[r][d] = buf[r][d] /\ stage'[r][d] = stage[r][d]
      /\ \A x \in Cells :
           /\ buf'[r][c][x] = IF "buf" \in LandAreas(j, k) /\ x \in CellsOf(j, pos[r])
                              THEN Landed(r, c, x) ELSE buf[r][c][x]
           /\ stage'[r][c][x] = IF "stage" \in LandAreas(j, k) /\ x \in CellsOf(j, pos[r])
                                THEN Landed(r, c, x) ELSE stage[r][c][x]
  BY LandEffect
<1>4. \A x \in CellsOf(j, pos[r]) : x \in Cells /\ Landed(r, c, x) = Carried(call[r], r, k+1)
  BY <1>1, <1>2, LandValue, PairFacts
<1>5. ASSUME NEW i \in 0..pos[r]-1
      PROVE  /\ i \in Nat /\ i < pos[r] /\ i < N(j) /\ StepOf(j, i) \in Nat
             /\ RecvChunk(j, r, StepOf(j, i)) \in Ranks /\ CellsOf(j, i) \subseteq Cells
  <2>1. i \in Nat /\ i < pos[r] /\ i < N(j)
    BY <1>1, <1>2
  <2> QED BY <1>1, <2>1, InCall
<1>6. ASSUME NEW i \in 0..pos[r]-1, NEW x \in CellsOf(j, i), pos[r] # i + W * j.pieces
      PROVE  /\ buf'[r][RecvChunk(j, r, StepOf(j, i))][x] = buf[r][RecvChunk(j, r, StepOf(j, i))][x]
             /\ stage'[r][RecvChunk(j, r, StepOf(j, i))][x] = stage[r][RecvChunk(j, r, StepOf(j, i))][x]
  <2>1. ~(RecvChunk(j, r, StepOf(j, i)) = c /\ x \in CellsOf(j, pos[r]))
    BY <1>1, <1>2, <1>5, <1>6, PairReturns
  <2>2. x \in Cells /\ RecvChunk(j, r, StepOf(j, i)) \in Ranks
    BY <1>5, <1>6
  <2> QED BY <1>3, <2>1, <2>2
<1>7. ASSUME NEW i \in 0..pos'[r]-1, pos'[r] <= i + W * j.pieces
      PROVE  LandedIn(r, "buf", buf, i)'
  <2>1. CASE i = pos[r]
    <3>1. \A x \in CellsOf(j, i) : "buf" \in LandAreas(j, StepOf(j, i)) =>
            buf'[r][RecvChunk(j, r, StepOf(j, i))][x] = Carried(call[r], r, StepOf(j, i) + 1)
      BY <1>3, <1>4, <2>1
    <3> QED BY <1>1, <1>2, <3>1 DEF LandedIn
  <2>2. CASE i # pos[r]
    <3>1. i \in 0..pos[r]-1 /\ pos[r] <= i + W * j.pieces /\ pos[r] # i + W * j.pieces
      <4>1. PICK w \in Nat : w = W * j.pieces
        BY <1>2
      <4> QED BY <1>1, <1>2, <1>7, <2>2, <4>1
    <3>2. LandedIn(r, "buf", buf, i)
      BY <1>1, <1>2, <3>1 DEF BufOf
    <3>3. \A x \in CellsOf(j, i) :
            buf'[r][RecvChunk(j, r, StepOf(j, i))][x] = buf[r][RecvChunk(j, r, StepOf(j, i))][x]
      BY <1>6, <3>1
    <3> QED BY <1>1, <1>2, <3>2, <3>3 DEF LandedIn
  <2> QED BY <2>1, <2>2
<1>8. BufOf(r)'
  BY <1>1, <1>2, <1>7 DEF BufOf
<1>9. ASSUME NEW i \in 0..pos'[r]-1 PROVE LandedIn(r, "stage", stage, i)'
  <2>1. CASE i = pos[r]
    <3>1. \A x \in CellsOf(j, i) : "stage" \in LandAreas(j, StepOf(j, i)) =>
            stage'[r][RecvChunk(j, r, StepOf(j, i))][x] = Carried(call[r], r, StepOf(j, i) + 1)
      BY <1>3, <1>4, <2>1
    <3> QED BY <1>1, <1>2, <3>1 DEF LandedIn
  <2>2. CASE i # pos[r]
    <3>1. i \in 0..pos[r]-1
      BY <1>1, <1>2, <1>9, <2>2
    <3>2. LandedIn(r, "stage", stage, i)
      BY <1>1, <1>2, <3>1 DEF StageOf
    <3>3. ASSUME NEW x \in CellsOf(j, i)
          PROVE  stage'[r][RecvChunk(j, r, StepOf(j, i))][x] = stage[r][RecvChunk(j, r, StepOf(j, i))][x]
      <4>1. CASE pos[r] # i + W * j.pieces
        BY <1>6, <3>1, <4>1
      <4>2. CASE pos[r] = i + W * j.pieces
        <5>1. W <= k
          <6>1. W * j.pieces <= pos[r]
            BY <1>2, <1>5, <3>1, <4>2
          <6> QED BY <1>2, <6>1, PairBack
        <5>2. "stage" \notin LandAreas(j, k)
          BY <1>2, <5>1, StageLanding
        <5> QED BY <1>3, <1>5, <3>1, <5>2
      <4> QED BY <4>1, <4>2
    <3> QED BY <1>1, <1>2, <3>2, <3>3 DEF LandedIn
  <2> QED BY <2>1, <2>2
<1>10. ASSUME NEW n \in Nat, n < N(j), Quants(j, n), Quanted(r, n)' PROVE Quanted(r, n)
  <2>1. n = pos[r] + 1 => pc'[r] = "quant"
    BY <1>1, <1>2, <1>10 DEF Before
  <2>2. n <= pos[r]
    BY <1>1, <1>2, <1>10, <2>1 DEF Quanted
  <2> QED BY <1>1, <1>2, <2>2 DEF Quanted
<1>11. ASSUME Fp8Reduce(j), NEW i \in 0..j.pieces-1, Quanted(r, i)', NEW x \in CellsOf(j, i)
       PROVE  stage'[r][SendChunk(j, r, 0)][x] = Carried(call[r], r, 0)
  <2>1. i \in Nat /\ i < N(j) /\ Quants(j, i) /\ x \in Cells
    <3>1. i \in Nat /\ i < j.pieces
      BY <1>2
    <3>2. i < N(j)
      BY <1>2, <3>1, JobFacts
    <3> QED BY <1>2, <1>11, <3>1, <3>2, PairFacts DEF Quants
  <2>2. Quanted(r, i)
    BY <1>10, <1>11, <2>1
  <2>3. stage[r][SendChunk(j, r, 0)][x] = Carried(call[r], r, 0)
    BY <1>1, <1>11, <1>2, <2>2 DEF StageOf
  <2>4. SendChunk(j, r, 0) \in Ranks /\ ("stage" \in LandAreas(j, k) => SendChunk(j, r, 0) # c)
    <3>1. Steps(j) > 0
      BY <1>2, JobFacts
    <3> QED BY <1>2, <3>1, ChunkForm, ChunkFirst, StageLanding
  <2> QED BY <1>3, <2>1, <2>3, <2>4
<1>12. ASSUME Fp8Gather(j), ~Fp8Reduce(j), Quanted(r, (W-1) * j.pieces)', NEW x \in Cells
       PROVE  stage'[r][SendChunk(j, r, W-1)][x] = Carried(call[r], r, W-1)
  <2>1. j.op = "all_reduce" /\ W-1 < Steps(j) /\ (W-1) * j.pieces < N(j) /\ (W-1) * j.pieces \in Nat
    BY <1>2, <1>12, JobFacts DEF Fp8Gather
  <2>2. Quanted(r, (W-1) * j.pieces)
    <3>1. PICK n \in Nat : n = (W-1) * j.pieces /\ n < N(j)
      BY <2>1
    <3>2. Quants(j, n)
      BY <1>12, <3>1 DEF Quants
    <3>3. Quanted(r, n)'
      BY <1>2, <1>12, <3>1
    <3>4. Quanted(r, n)
      BY <1>10, <3>1, <3>2, <3>3
    <3> QED BY <3>1, <3>4
  <2>3. SendChunk(j, r, W-1) \in Ranks /\ "stage" \notin LandAreas(j, k)
    BY <1>2, <1>12, <2>1, ChunkForm, StageLanding
  <2>4. stage[r][SendChunk(j, r, W-1)][x] = Carried(call[r], r, W-1)
    BY <1>1, <1>2, <1>12, <2>2 DEF StageOf
  <2> QED BY <1>3, <2>3, <2>4
<1>13. StageOf(r)'
  BY <1>1, <1>2, <1>9, <1>11, <1>12 DEF StageOf
<1>14. ASSUME j.op = "reduce_scatter", NEW d \in Ranks, NEW x \in Cells
       PROVE  \/ \E i \in 0..pos'[r]-1 : RecvChunk(j, r, StepOf(j, i)) = d /\ x \in CellsOf(j, i)
              \/ buf'[r][d][x] = Sum(call[r], <<r>>)
  <2>1. 0..pos[r]-1 \subseteq 0..pos'[r]-1 /\ pos[r] \in 0..pos'[r]-1
    BY <1>1, <1>2
  <2>2. CASE \E i \in 0..pos[r]-1 : RecvChunk(j, r, StepOf(j, i)) = d /\ x \in CellsOf(j, i)
    BY <2>1, <2>2
  <2>3. CASE d = c /\ x \in CellsOf(j, pos[r])
    BY <2>1, <2>3
  <2>4. CASE /\ ~\E i \in 0..pos[r]-1 : RecvChunk(j, r, StepOf(j, i)) = d /\ x \in CellsOf(j, i)
             /\ ~(d = c /\ x \in CellsOf(j, pos[r]))
    <3>1. buf[r][d][x] = Sum(call[r], <<r>>)
      BY <1>1, <1>2, <1>14, <2>4 DEF InputOf
    <3>2. buf'[r][d][x] = buf[r][d][x]
      BY <1>3, <2>4
    <3> QED BY <3>1, <3>2
  <2> QED BY <2>2, <2>3, <2>4
<1>15. InputOf(r)'
  BY <1>1, <1>2, <1>14 DEF InputOf
<1> QED BY <1>8, <1>13, <1>15

LEMMA ContentsStep ==
  ASSUME TypeOK, Positions, Arrived, Chain, Skew, Contents, NEW q \in Ranks, StepBy(q)
  PROVE  Contents'
<1> SUFFICES ASSUME NEW s \in Ranks PROVE ScratchOf(s)' /\ BufOf(s)' /\ StageOf(s)' /\ InputOf(s)'
  BY DEF Contents
<1>1. program' = program /\ (s # q => Same(s))
  BY StepOthers
<1>2. ScratchOf(s)'
  BY ScratchStep
<1>3. BufOf(s)' /\ StageOf(s)' /\ InputOf(s)'
  <2>1. CASE s # q
    <3>1. buf'[s] = buf[s] /\ stage'[s] = stage[s]
      <4>0. buf \in [Ranks -> [Ranks -> [Cells -> Sums]]] /\ stage \in [Ranks -> [Ranks -> [Cells -> Sums]]]
        BY DEF TypeOK
      <4>1. CASE Enter(q)
        BY <2>1, <4>1, EnterEffect
      <4>2. CASE Quant(q)
        <5>1. buf' = buf /\ stage' = [stage EXCEPT ![q] = stage'[q]]
          BY <4>2, QuantEffect DEF Quant
        <5> QED BY <2>1, <4>0, <5>1
      <4>3. CASE Land(q)
        <5>1. /\ buf' = [buf EXCEPT ![q] = buf'[q]] /\ stage' = [stage EXCEPT ![q] = stage'[q]]
          BY <4>3 DEF Land, TypeOK
        <5> QED BY <2>1, <4>0, <5>1
      <4>4. CASE CopyStep(q)
        BY <4>4, CopyEffect
      <4>5. CASE WaitData(q) \/ Handshake(q) \/ Finish(q) \/ FlagStep(q)
        BY <4>5, OtherEffect
      <4> QED BY <4>1, <4>2, <4>3, <4>4, <4>5 DEF StepBy, MainStep
    <3> QED BY <1>1, <2>1, <3>1, MainFrame DEF Same
  <2>2. CASE s = q /\ Enter(q)
    BY <2>2, EnterContents
  <2>3. CASE s = q /\ Quant(q)
    BY <2>3, QuantContents
  <2>4. CASE s = q /\ Land(q)
    BY <2>4, LandContents
  <2>5. CASE s = q /\ CopyStep(q)
    <3>1. buf' = buf /\ stage' = stage
      BY <2>5, CopyEffect
    <3> QED BY <2>5, <3>1, CopyFacts, MainFrame
  <2>6. CASE s = q /\ (WaitData(q) \/ Handshake(q) \/ Finish(q) \/ FlagStep(q))
    <3>1. buf' = buf /\ stage' = stage
      BY <2>6, OtherEffect
    <3>2. /\ call' = call /\ pos' = pos
          /\ pc'[q] = pc[q] \/ (pc[q] # "quant" /\ pc'[q] # "quant")
      BY <2>6 DEF WaitData, Handshake, Finish, FlagStep, TypeOK
    <3> QED BY <1>1, <2>6, <3>1, <3>2, MainFrame
  <2> QED BY <2>1, <2>2, <2>3, <2>4, <2>5, <2>6 DEF StepBy, MainStep
<1> QED BY <1>2, <1>3

-----------------------------------------------------------------------------
(* The invariant.                                                          *)

LEMMA InvInit == Init => Inv
  BY TypeInit, PositionsInit, CountersInit, FlagsInit, ArrivedInit, ChainInit, SkewInit, ContentsInit
     DEF Inv

LEMMA InvStutter == Inv /\ UNCHANGED vars => Inv'
<1> SUFFICES ASSUME Inv, UNCHANGED vars PROVE Inv'
  OBVIOUS
<1>1. /\ program' = program /\ call' = call /\ pc' = pc /\ pos' = pos /\ copied' = copied
      /\ flagged' = flagged /\ buf' = buf /\ stage' = stage /\ scratch' = scratch
      /\ flag' = flag /\ sent' = sent /\ waited' = waited
  BY DEF vars, streams, memory, flags
<1>2. \A s \in Ranks : Same(s)
  BY <1>1 DEF Same
<1>3. TypeOK'
  BY <1>1 DEF Inv, TypeOK, Sums, Job
<1>4. Positions'
  BY <1>1, <1>2, FrameOf DEF Inv, Positions
<1>5. Counters'
  <2>1. \A c, k : Uses(c, k)' = Uses(c, k)
    BY <1>1 DEF Uses
  <2> QED BY <1>1, <1>2, <2>1, FrameOf DEF Inv, Counters, CounterOf
<1>6. \A c, k, s : Publisher(s, c, k)' = Publisher(s, c, k) /\ Uses(c, k)' = Uses(c, k)
  BY <1>1 DEF Publisher, Uses
<1>7. \A s, c, k : HasPublished(s, c, k)' <=> HasPublished(s, c, k)
  BY <1>1 DEF HasPublished, Published, Job
<1>8. FlagsTrue'
  BY <1>1, <1>6, <1>7 DEF Inv, FlagsTrue, FlagOf
<1>9. Arrived'
  BY <1>1, <1>2, <1>6, <1>7, FrameOf DEF Inv, Arrived, ArrivedAt
<1>10. Chain'
  BY <1>1, <1>2, FrameOf DEF Inv, Chain, ChainOf
<1>11. Skew'
  BY <1>1 DEF Inv, Skew
<1>12. Contents'
  <2> SUFFICES ASSUME NEW s \in Ranks PROVE ScratchOf(s)' /\ BufOf(s)' /\ StageOf(s)' /\ InputOf(s)'
    BY DEF Contents
  <2>1. ScratchOf(s)'
    BY <1>1, <1>2, FrameOf DEF Inv, Contents, ScratchOf
  <2>2. TypeOK /\ Positions /\ Contents
    BY DEF Inv
  <2> QED BY <1>1, <2>1, <2>2, MainFrame
<1> QED BY <1>3, <1>4, <1>5, <1>8, <1>9, <1>10, <1>11, <1>12 DEF Inv

LEMMA InvStep == HandshakesLate /\ Inv /\ [Next]_vars => Inv'
<1> SUFFICES ASSUME HandshakesLate, Inv, [Next]_vars PROVE Inv'
  OBVIOUS
<1>1. (\E r \in Ranks : StepBy(r)) \/ UNCHANGED vars
  BY DEF Next, StepBy, Drained
<1>2. CASE \E r \in Ranks : StepBy(r)
  <2>1. PICK r \in Ranks : StepBy(r)
    BY <1>2
  <2>2. /\ TypeOK /\ Positions /\ Counters /\ FlagsTrue /\ Arrived /\ Chain /\ Skew /\ Contents
    BY DEF Inv
  <2> QED BY <2>1, <2>2, TypeStep, PositionsStep, CountersStep, FlagsStep, ArrivedStep, ChainStep, SkewStep,
             ContentsStep DEF Inv
<1> QED BY <1>1, <1>2, InvStutter

-----------------------------------------------------------------------------
(* What a call leaves.                                                     *)

LEMMA InvExact == Inv => ReduceExact
<1> SUFFICES ASSUME Inv, NEW r \in Ranks, call[r] > 0, pc[r] \in {"join", "handshake", "idle"},
                    NEW c \in Owned(Job(r), r), NEW x \in Cells
             PROVE  buf[r][c][x].call = call[r] /\ EveryRankOnce(buf[r][c][x].ranks)
  BY DEF ReduceExact
<1> DEFINE j == Job(r)
<1>1. /\ TypeOK /\ BufOf(r) /\ pos[r] = N(j)
  BY DEF Inv, Contents, Positions, PositionOf
<1>2. /\ j \in Jobs /\ j.pieces \in {1, 2} /\ N(j) \in Nat /\ call[r] \in Nat
      /\ N(j) <= (2*W - 2) * j.pieces
  <2>1. j \in Jobs /\ call[r] \in Nat
    BY <1>1, JobOf, RankTypes
  <2>2. j.pieces \in {1, 2} /\ N(j) \in Nat
    BY <2>1, JobFacts
  <2>3. N(j) <= (2*W - 2) * j.pieces
    <3>1. Steps(j) \in Nat /\ Steps(j) <= 2*W - 2
      BY <2>1, JobFacts
    <3>2. (j.pieces = 1 => N(j) = Steps(j)) /\ (j.pieces = 2 => N(j) = 2 * Steps(j))
      BY <2>1, JobFacts
    <3> HIDE DEF j
    <3> QED BY <2>2, <3>1, <3>2
  <2> QED BY <2>1, <2>2, <2>3
<1>3. PICK k \in Nat : W-2 <= k /\ k < Steps(j) /\ RecvChunk(j, r, k) = c
  BY <1>2, ChunkOwned
<1>4. PICK i \in 0..N(j)-1 : StepOf(j, i) = k /\ x \in CellsOf(j, i)
  BY <1>2, <1>3, PairOfCell
<1>5. pos[r] <= i + W * j.pieces
  <2>1. i \in Nat
    BY <1>2, <1>4
  <2>2. CASE j.pieces = 1
    <3>1. i = k
      BY <1>2, <1>4, <2>1, <2>2, PairFacts
    <3> HIDE DEF j
    <3> QED BY <1>1, <1>2, <1>3, <2>1, <2>2, <3>1
  <2>3. CASE j.pieces = 2
    <3>1. i = 2 * k + (i % 2) /\ i % 2 \in {0, 1}
      BY <1>2, <1>4, <2>1, <2>3, PairFacts DEF Cells
    <3>2. PICK a \in {0, 1} : i = 2 * k + a
      BY <3>1
    <3> HIDE DEF j
    <3> QED BY <1>1, <1>2, <1>3, <2>1, <2>3, <3>2
  <2> QED BY <1>2, <2>2, <2>3
<1>6. LandedIn(r, "buf", buf, i)
  BY <1>1, <1>4, <1>5 DEF BufOf
<1>7. "buf" \in LandAreas(j, k)
  BY <1>2, <1>3, StageLanding
<1>8. buf[r][c][x] = Carried(call[r], r, k+1)
  BY <1>3, <1>4, <1>6, <1>7 DEF LandedIn
<1>9. PICK e \in Nat : e = k + 1
  BY <1>3
<1>10. Carried(call[r], r, e).call = call[r] /\ EveryRankOnce(Carried(call[r], r, e).ranks)
  <2>1. e >= W-1
    BY <1>3, <1>9
  <2> QED BY <1>2, <2>1, CarriedFacts
<1> QED BY <1>8, <1>9, <1>10

-----------------------------------------------------------------------------
(* Races.                                                                  *)

LEMMA CopyWritesCells ==
  ASSUME NEW r \in Ranks, NEW t \in CopyWrites(r)
  PROVE  /\ CopyReady(r) /\ t[1] = Succ(r) /\ t[2] = "scratch" /\ t[3] = StepOf(Job(r), copied[r])
         /\ t[4] \in CellsOf(Job(r), copied[r])
  BY DEF CopyWrites, At

LEMMA MainReadsCells ==
  ASSUME NEW r \in Ranks, NEW t \in MainReads(r), t[2] = "scratch"
  PROVE  /\ pc[r] = "land" /\ t[1] = r /\ t[3] = StepOf(Job(r), pos[r])
         /\ t[4] \in CellsOf(Job(r), pos[r])
<1>1. CASE pc[r] = "land"
  BY <1>1 DEF MainReads, At
<1>2. CASE pc[r] = "quant"
  <2>1. t[2] = "buf"
    BY <1>2 DEF MainReads, At
  <2> QED BY <2>1
<1>3. CASE pc[r] # "land" /\ pc[r] # "quant"
  BY <1>3 DEF MainReads
<1> QED BY <1>1, <1>2, <1>3

LEMMA CopyReadsCells ==
  ASSUME NEW r \in Ranks, NEW t \in CopyReads(r)
  PROVE  LET k == StepOf(Job(r), copied[r]) IN
         /\ CopyReady(r) /\ t[1] = r /\ t[4] \in CellsOf(Job(r), copied[r])
         /\ t[2] = "scratch" => CopyArea(r) = "scratch" /\ t[3] = k - 1
         /\ t[2] # "scratch" => t[3] = SendChunk(Job(r), r, k)
         /\ t[2] = "stage" => CopyArea(r) = "stage"
         /\ t[2] = "buf" => \/ CopyArea(r) = "buf"
                            \/ CopyArea(r) = "input" /\ Job(r).op = "reduce_scatter"
<1> DEFINE k == StepOf(Job(r), copied[r])
           area == IF CopyArea(r) = "input" /\ Job(r).op = "reduce_scatter" THEN "buf" ELSE CopyArea(r)
           index == IF area = "scratch" THEN k - 1 ELSE SendChunk(Job(r), r, k)
<1>1. CopyReady(r)
  BY DEF CopyReads
<1>2. t \in At(r, area, index, CellsOf(Job(r), copied[r]))
  BY <1>1 DEF CopyReads
<1>3. t[1] = r /\ t[2] = area /\ t[3] = index /\ t[4] \in CellsOf(Job(r), copied[r])
  <2> HIDE DEF area, index
  <2> QED BY <1>2 DEF At
<1>4. area = "scratch" <=> CopyArea(r) = "scratch"
  OBVIOUS
<1>5. CopyArea(r) \in {"stage", "scratch", "input", "buf"}
  BY DEF CopyArea
<1> QED BY <1>1, <1>3, <1>4, <1>5

LEMMA MainWritesCells ==
  ASSUME NEW r \in Ranks, NEW t \in MainWrites(r)
  PROVE  LET k == StepOf(Job(r), pos[r]) IN
         \/ /\ pc[r] = "land" /\ t[2] \in LandAreas(Job(r), k) /\ t[3] = RecvChunk(Job(r), r, k)
            /\ t[4] \in CellsOf(Job(r), pos[r])
         \/ /\ pc[r] = "quant" /\ t[2] = "stage" /\ t[3] = SendChunk(Job(r), r, k)
            /\ t[4] \in QuantCells(Job(r), pos[r])
<1>1. CASE pc[r] = "land"
  <2>1. PICK area \in LandAreas(Job(r), StepOf(Job(r), pos[r])) :
          t \in At(r, area, RecvChunk(Job(r), r, StepOf(Job(r), pos[r])), CellsOf(Job(r), pos[r]))
    BY <1>1 DEF MainWrites
  <2> QED BY <1>1, <2>1 DEF At
<1>2. CASE pc[r] = "quant"
  BY <1>2 DEF MainWrites, At
<1>3. CASE pc[r] # "land" /\ pc[r] # "quant"
  BY <1>3 DEF MainWrites
<1> QED BY <1>1, <1>2, <1>3

\* What main or copy of s may read in its scratch, its predecessor has written
\* and left, in the same call.
LEMMA ScratchReads ==
  ASSUME Inv, NEW s \in Ranks, NEW t \in MainReads(s) \cup CopyReads(s), t[2] = "scratch"
  PROVE  /\ t[1] = s /\ call[s] > 0
         /\ call[Pred(s)] = call[s]
         /\ \E n \in 0..copied[Pred(s)]-1 : t[3] = StepOf(Job(s), n) /\ t[4] \in CellsOf(Job(s), n)
<1>1. TypeOK /\ Positions /\ Arrived /\ Skew /\ PositionOf(s)
  BY DEF Inv, Positions
<1>2. /\ pos[s] \in Nat /\ copied[s] \in Nat /\ call[s] \in Nat /\ Pred(s) \in Ranks
      /\ Succ(Pred(s)) = s /\ copied[Pred(s)] \in Nat /\ call[Pred(s)] \in Nat /\ Waited(s) \in Nat
  BY <1>1, RankTypes, RingFacts DEF Waited
<1>3. ASSUME NEW n \in Nat, n < Waited(s), call[s] > 0, pc[s] \notin {"handshake", "idle"},
             t[3] = StepOf(Job(s), n), t[4] \in CellsOf(Job(s), n), t[1] = s
      PROVE  /\ t[1] = s /\ call[s] > 0 /\ call[Pred(s)] = call[s]
             /\ \E i \in 0..copied[Pred(s)]-1 : t[3] = StepOf(Job(s), i) /\ t[4] \in CellsOf(Job(s), i)
  <2>1. ~(call[Pred(s)] > call[s])
    BY <1>1, <1>2, <1>3 DEF Skew
  <2>2. call[Pred(s)] = call[s] /\ copied[Pred(s)] > n
    <3>1. n \in 0..Waited(s)-1
      BY <1>2, <1>3
    <3> QED BY <1>1, <1>3, <2>1, <3>1, ArrivedFacts
  <2>3. n \in 0..copied[Pred(s)]-1
    BY <1>2, <2>2
  <2> QED BY <1>3, <2>2, <2>3
<1>4. CASE t \in MainReads(s)
  <2>1. pc[s] = "land" /\ t[1] = s /\ t[3] = StepOf(Job(s), pos[s]) /\ t[4] \in CellsOf(Job(s), pos[s])
    BY <1>4, MainReadsCells
  <2>2. call[s] > 0 /\ pos[s] < Waited(s)
    BY <1>1, <1>2, <2>1 DEF PositionOf, Waited
  <2> QED BY <1>2, <1>3, <2>1, <2>2
<1>5. CASE t \in CopyReads(s)
  <2>1. /\ CopyReady(s) /\ CopyArea(s) = "scratch" /\ t[1] = s
        /\ t[3] = StepOf(Job(s), copied[s]) - 1 /\ t[4] \in CellsOf(Job(s), copied[s])
    BY <1>5, CopyReadsCells
  <2>2. call[s] > 0 /\ copied[s] < N(Job(s)) /\ SendReady(s, copied[s])
    BY <2>1 DEF CopyReady, SendReady
  <2>3. Job(s) \in Jobs /\ N(Job(s)) \in Nat /\ StepOf(Job(s), copied[s]) > 0
        /\ Job(s).pieces \in {1, 2}
    <3>1. Job(s) \in Jobs /\ N(Job(s)) \in Nat /\ Job(s).pieces \in {1, 2} /\ StepOf(Job(s), copied[s]) \in Nat
      BY <1>1, <1>2, <2>2, JobOf, JobFacts, PairFacts
    <3>2. StepOf(Job(s), copied[s]) > W-1
      BY <2>1 DEF CopyArea
    <3> QED BY <3>1, <3>2
  <2>4. PICK n \in Nat : /\ n = copied[s] - Job(s).pieces /\ StepOf(Job(s), n) = StepOf(Job(s), copied[s]) - 1
                         /\ CellsOf(Job(s), n) = CellsOf(Job(s), copied[s])
    BY <1>2, <2>3, PairFirst
  <2>5. Waited(s) > n
    BY <1>1, <1>2, <2>2, <2>3, <2>4, SendWaited
  <2>6. pc[s] \notin {"handshake", "idle"}
    BY <1>1, <1>2, <2>2, <2>3 DEF PositionOf
  <2> QED BY <1>2, <1>3, <2>1, <2>2, <2>4, <2>5, <2>6
<1> QED BY <1>4, <1>5

LEMMA InvScratch == Inv => ScratchProtected
<1> SUFFICES ASSUME Inv, NEW r \in Ranks, NEW s \in Ranks
             PROVE  /\ Disjoint(r, CopyWrites(r), s, MainReads(s) \cup CopyReads(s))
                    /\ r # s => Disjoint(r, CopyWrites(r), s, CopyWrites(s))
  BY DEF ScratchProtected
<1>1. TypeOK /\ Positions
  BY DEF Inv
<1>2. ASSUME NEW t \in CopyWrites(r), NEW u \in MainReads(s) \cup CopyReads(s),
             t[1] = u[1], t[2] = u[2], t[3] = u[3]
      PROVE  call[r] = call[s] /\ t[4] # u[4]
  <2>1. /\ CopyReady(r) /\ t[1] = Succ(r) /\ t[2] = "scratch" /\ t[3] = StepOf(Job(r), copied[r])
        /\ t[4] \in CellsOf(Job(r), copied[r])
    BY CopyWritesCells
  <2>2. /\ u[1] = s /\ call[s] > 0
        /\ call[Pred(s)] = call[s]
        /\ \E n \in 0..copied[Pred(s)]-1 : u[3] = StepOf(Job(s), n) /\ u[4] \in CellsOf(Job(s), n)
    <3>1. u[2] = "scratch"
      BY <1>2, <2>1
    <3> QED BY <3>1, ScratchReads
  <2>3. PICK n \in 0..copied[Pred(s)]-1 : u[3] = StepOf(Job(s), n) /\ u[4] \in CellsOf(Job(s), n)
    BY <2>2
  <2>4. Pred(s) = r
    <3>1. s = Succ(r)
      BY <1>2, <2>1, <2>2
    <3> QED BY <3>1, RingFacts
  <2>5. Job(r) = Job(s) /\ Job(r) \in Jobs /\ copied[r] \in Nat
    BY <1>1, <2>2, <2>4, JobOf, RankTypes DEF Job
  <2>6. ASSUME t[4] = u[4] PROVE FALSE
    <3>1. n \in Nat /\ n < copied[r]
      BY <2>3, <2>4, <2>5
    <3>2. copied[r] = n
      BY <1>2, <2>1, <2>3, <2>5, <2>6, <3>1, PairUnique
    <3> QED BY <3>1, <3>2
  <2> QED BY <2>2, <2>4, <2>6
<1>3. Disjoint(r, CopyWrites(r), s, MainReads(s) \cup CopyReads(s))
  <2>1. CASE call[r] = call[s]
    <3>1. CopyWrites(r) \cap (MainReads(s) \cup CopyReads(s)) = {}
      BY <1>2
    <3> QED BY <2>1, <3>1 DEF Disjoint
  <2>2. CASE call[r] # call[s]
    <3>1. \A t \in CopyWrites(r), u \in MainReads(s) \cup CopyReads(s) :
            <<t[1], t[2], t[3]>> # <<u[1], u[2], u[3]>>
      BY <1>2, <2>2
    <3>2. SlotsOf(CopyWrites(r)) \cap SlotsOf(MainReads(s) \cup CopyReads(s)) = {}
      BY <3>1 DEF SlotsOf
    <3> QED BY <2>2, <3>2 DEF Disjoint
  <2> QED BY <2>1, <2>2
<1>4. ASSUME r # s PROVE Disjoint(r, CopyWrites(r), s, CopyWrites(s))
  <2>1. Succ(r) # Succ(s)
    BY <1>4, SuccUnique
  <2>2. \A t \in CopyWrites(r), u \in CopyWrites(s) : t[1] # u[1]
    BY <2>1, CopyWritesCells
  <2>3. CopyWrites(r) \cap CopyWrites(s) = {}
    BY <2>2
  <2>4. SlotsOf(CopyWrites(r)) \cap SlotsOf(CopyWrites(s)) = {}
    BY <2>2 DEF SlotsOf
  <2> QED BY <2>3, <2>4 DEF Disjoint
<1> QED BY <1>3, <1>4

\* Main writes nothing that its own copy stream is to send.
LEMMA InvOwnStreams == ASSUME Inv, NEW r \in Ranks PROVE MainWrites(r) \cap CopyReads(r) = {}
<1> SUFFICES ASSUME NEW t \in MainWrites(r), t \in CopyReads(r) PROVE FALSE
  OBVIOUS
<1> DEFINE j == Job(r)
           m == copied[r]
           k == StepOf(j, m)
           b == StepOf(j, pos[r])
<1>1. /\ CopyReady(r) /\ t[4] \in CellsOf(j, m)
      /\ t[2] # "scratch" => t[3] = SendChunk(j, r, k)
      /\ t[2] = "stage" => CopyArea(r) = "stage"
      /\ t[2] = "buf" => CopyArea(r) = "buf" \/ (CopyArea(r) = "input" /\ j.op = "reduce_scatter")
  BY CopyReadsCells
<1>2. TypeOK /\ Chain /\ PositionOf(r)
  BY DEF Inv, Positions
<1>3. call[r] > 0 /\ m < N(j) /\ SendReady(r, m)
  BY <1>1 DEF CopyReady, SendReady
<1>4. /\ j \in Jobs /\ j.pieces \in {1, 2} /\ m \in Nat /\ pos[r] \in Nat /\ k \in Nat /\ b \in Nat
      /\ j.op = "reduce_scatter" => Steps(j) = W-1
      /\ N(j) \in Nat /\ k < Steps(j)
  BY <1>2, <1>3, JobOf, JobFacts, RankTypes, PairFacts
<1>5. ASSUME pc[r] = "land", t[2] \in LandAreas(j, b), t[3] = RecvChunk(j, r, b),
             t[4] \in CellsOf(j, pos[r])
      PROVE  FALSE
  <2>1. pos[r] < N(j) /\ Waited(r) = pos[r] + 1 /\ b < Steps(j)
    BY <1>2, <1>3, <1>4, <1>5, PairFacts DEF PositionOf, Waited
  <2>2. t[2] \in {"stage", "buf"} /\ t[3] = SendChunk(j, r, k)
    BY <1>1, <1>4, <1>5, StageLanding
  <2>3. CASE k = 0
    <3>1. b < W-1
      <4>1. CASE t[2] = "stage"
        BY <1>4, <1>5, <4>1, StageLanding
      <4>2. CASE t[2] = "buf"
        <5>1. j.op = "reduce_scatter"
          BY <1>1, <2>3, <4>2 DEF CopyArea
        <5> QED BY <1>4, <2>1, <5>1
      <4> QED BY <2>2, <4>1, <4>2
    <3> QED BY <1>4, <1>5, <2>2, <2>3, <3>1, ChunkFirst
  <2>4. CASE k > 0
    <3>1. CopyArea(r) \in {"stage", "buf"} /\ (t[2] = "stage" => CopyArea(r) = "stage")
      <4>1. CopyArea(r) # "input"
        BY <2>4 DEF CopyArea
      <4> QED BY <1>1, <2>2, <4>1
    <3>2. ~(Fp8Gather(j) /\ k > W-1)
      BY <1>4, <3>1 DEF CopyArea, Reduces
    <3>3. PICK n \in 0..pos[r]-1 : /\ n = m - j.pieces /\ CellsOf(j, n) = CellsOf(j, m)
                                   /\ SendChunk(j, r, k) = RecvChunk(j, r, StepOf(j, n))
      BY <1>2, <1>3, <1>4, <2>4, <3>2, SentLanded
    <3>4. n \in Nat /\ n < pos[r]
      BY <1>4, <3>3
    <3>5. pos[r] = n + W * j.pieces
      <4>1. t[4] \in CellsOf(j, n) /\ RecvChunk(j, r, StepOf(j, n)) = RecvChunk(j, r, b)
        BY <1>1, <1>5, <2>2, <3>3
      <4> QED BY <1>4, <1>5, <2>1, <3>4, <4>1, PairReturns
    <3>6. Waited(r) <= m + (W-1) * j.pieces
      BY <1>2, <1>3, CopyBehind
    <3>7. n + W * j.pieces = m + (W-1) * j.pieces
      BY <1>4, <3>3, <3>4
    <3>8. PICK w \in Nat : w = m + (W-1) * j.pieces
      BY <1>4
    <3> QED BY <1>4, <2>1, <3>5, <3>6, <3>7, <3>8
  <2> QED BY <1>4, <2>3, <2>4
<1>6. ASSUME pc[r] = "quant", t[2] = "stage", t[3] = SendChunk(j, r, b), t[4] \in QuantCells(j, pos[r])
      PROVE  FALSE
  <2>1. Quants(j, pos[r]) /\ CopyArea(r) = "stage" /\ t[3] = SendChunk(j, r, k)
    BY <1>1, <1>2, <1>3, <1>6 DEF PositionOf
  <2>2. (Fp8Reduce(j) /\ k < W-1) \/ (Fp8Gather(j) /\ k = W-1)
    BY <2>1 DEF CopyArea, Reduces
  <2>3. CASE Fp8Reduce(j)
    <3>1. pos[r] < j.pieces
      BY <2>1, <2>3 DEF Quants
    <3>2. b = 0 /\ t[4] \in CellsOf(j, pos[r])
      <4>1. b = 0
        BY <1>4, <3>1, PairFirst
      <4> QED BY <1>6, <4>1 DEF QuantCells, Reduces
    <3>3. CASE k = 0
      <4>1. Quanted(r, m)
        BY <1>3, <2>3, <3>3 DEF SendReady
      <4>2. m < pos[r]
        BY <1>6, <4>1 DEF Quanted
      <4>3. m = pos[r]
        BY <1>1, <1>4, <3>2, <3>3, PairUnique
      <4> QED BY <1>4, <4>2, <4>3
    <3>4. CASE k > 0
      <4>1. PICK n \in 0..pos[r]-1 : /\ StepOf(j, n) = k - 1
                                     /\ SendChunk(j, r, k) = RecvChunk(j, r, StepOf(j, n))
        <5>1. ~(Fp8Gather(j) /\ k > W-1)
          BY <1>4, <2>2
        <5> QED BY <1>2, <1>3, <1>4, <3>4, <5>1, SentLanded
      <4>2. PICK e \in Nat : e = k - 1 /\ e < W-1
        BY <1>4, <2>2, <3>4
      <4>3. RecvChunk(j, r, e) # SendChunk(j, r, 0)
        BY <1>4, <4>2, ChunkFirst
      <4> QED BY <1>6, <2>1, <3>2, <4>1, <4>2, <4>3
    <3> QED BY <1>4, <3>3, <3>4
  <2>4. CASE ~Fp8Reduce(j)
    <3>1. pos[r] = (W-1) * j.pieces
      BY <2>1, <2>4 DEF Quants
    <3>2. Quanted(r, k * j.pieces) /\ k = W-1
      BY <1>3, <2>2, <2>4 DEF SendReady
    <3>3. Quanted(r, pos[r])
      BY <3>1, <3>2
    <3> QED BY <1>4, <1>6, <3>3 DEF Quanted
  <2> QED BY <2>3, <2>4
<1> QED BY <1>5, <1>6, MainWritesCells

LEMMA InvRace == Inv => NoRace
  BY InvScratch, InvOwnStreams DEF NoRace

-----------------------------------------------------------------------------
(* Theorems.                                                               *)

\* The only sequences that HandshakesLate leaves out are those in which, on four
\* ranks or more, a reduce_scatter in one piece is followed by a call in two:
\* its handshake slot W-1 is then the data slot of step (W-1) \div 2.
THEOREM OnlyGrowingCallsLeftOut ==
  HandshakesLate <=>
    \/ W <= 3
    \/ \A p \in Programs : \A c \in 1..Len(p)-1 :
         ~(p[c].op = "reduce_scatter" /\ p[c].pieces = 1 /\ p[c+1].pieces = 2)
<1>1. ASSUME NEW p \in Programs, NEW c \in 1..Len(p)-1
      PROVE  (N(p[c]) < N(p[c+1]) => (W-2) * p[c+1].pieces <= N(p[c]))
               <=> W <= 3 \/ ~(p[c].op = "reduce_scatter" /\ p[c].pieces = 1 /\ p[c+1].pieces = 2)
  <2>1. p \in Seq(Jobs)
    BY ProgramsAssumption
  <2>2. PICK i \in Jobs, j \in Jobs : i = p[c] /\ j = p[c+1]
    BY <2>1
  <2>3. /\ i.pieces \in {1, 2} /\ Steps(i) \in Nat /\ i.op \in {"all_reduce", "reduce_scatter"}
        /\ Steps(i) = IF i.op = "all_reduce" THEN 2*W - 2 ELSE W-1
        /\ (i.pieces = 1 => N(i) = Steps(i)) /\ (i.pieces = 2 => N(i) = 2 * Steps(i))
    BY JobFacts
  <2>4. /\ j.pieces \in {1, 2} /\ Steps(j) \in Nat /\ j.op \in {"all_reduce", "reduce_scatter"}
        /\ Steps(j) = IF j.op = "all_reduce" THEN 2*W - 2 ELSE W-1
        /\ (j.pieces = 1 => N(j) = Steps(j)) /\ (j.pieces = 2 => N(j) = 2 * Steps(j))
    BY JobFacts
  <2>5. (N(i) < N(j) => (W-2) * j.pieces <= N(i))
          <=> W <= 3 \/ ~(i.op = "reduce_scatter" /\ i.pieces = 1 /\ j.pieces = 2)
    <3>1. CASE j.pieces = 1
      BY <2>3, <2>4, <3>1
    <3>2. CASE j.pieces = 2
      BY <2>3, <2>4, <3>2
    <3> QED BY <2>4, <3>1, <3>2
  <2> QED BY <2>2, <2>5
<1> QED BY <1>1 DEF HandshakesLate

\* The invariant of all theorems below holds in every reachable state: what the
\* counters and flags mean, who must have copied what before a rank can have
\* waited, and what every cell holds that is still to be read.
THEOREM Invariance == HandshakesLate => (Spec => []Inv)
<1> SUFFICES ASSUME HandshakesLate PROVE Spec => []Inv
  OBVIOUS
<1>1. Init => Inv
  BY InvInit
<1>2. Inv /\ [Next]_vars => Inv'
  BY InvStep
<1> QED BY <1>1, <1>2, PTL DEF Spec

\* The streams of every rank, its memory and its flags keep their types, and no
\* stream gets past the pairs of its call.
THEOREM TypeCorrect == HandshakesLate => (Spec => []TypeOK)
<1> SUFFICES ASSUME HandshakesLate PROVE Spec => []TypeOK
  OBVIOUS
<1>1. Spec => []Inv
  BY Invariance
<1>2. Inv => TypeOK
  BY DEF Inv
<1> QED BY <1>1, <1>2, PTL

\* A call that has done its last pair has reduced every rank's input of that same
\* call exactly once into the chunks it promises: for any ring, any calls of both
\* kinds and all wires in a row.
THEOREM ReduceIsExact == HandshakesLate => (Spec => []ReduceExact)
<1> SUFFICES ASSUME HandshakesLate PROVE Spec => []ReduceExact
  OBVIOUS
<1>1. Spec => []Inv
  BY Invariance
<1> QED BY <1>1, InvExact, PTL

\* No copy may start into a cell of the peer's scratch that the peer still reads
\* or another writes, and no main stream overwrites what its copy stream is sending.
THEOREM RingIsRaceFree == HandshakesLate => (Spec => []NoRace)
<1> SUFFICES ASSUME HandshakesLate PROVE Spec => []NoRace
  OBVIOUS
<1>1. Spec => []Inv
  BY Invariance
<1> QED BY <1>1, InvRace, PTL

\* The handshake with one neighbour keeps the whole ring together: no rank is two
\* calls ahead of any other, and none a call ahead of its successor that has not
\* yet reached its own handshake.
THEOREM RanksStayTogether == HandshakesLate => (Spec => []Skew)
<1> SUFFICES ASSUME HandshakesLate PROVE Spec => []Skew
  OBVIOUS
<1>1. Spec => []Inv
  BY Invariance
<1>2. Inv => Skew
  BY DEF Inv
<1> QED BY <1>1, <1>2, PTL
=============================================================================
