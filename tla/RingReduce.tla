----------------------------- MODULE RingReduce -----------------------------
(***************************************************************************)
(* PCIeDmaAllReduce: the neighbour-only ring, its all_reduce and its       *)
(* reduce_scatter, on one channel.                                         *)
(*                                                                         *)
(* A call splits a shard into `pieces' and walks the pairs (step k, piece  *)
(* p) in order; the pair's number k * pieces + p is also its flag slot, so *)
(* the meaning of a flag depends on the call that uses it.  As in          *)
(* RingAllGather a rank is three in-order streams (main, copy, flag); an   *)
(* action is one stream operation taking effect.                           *)
(*                                                                         *)
(* A number is known by the ordered list of ranks it has accumulated, and  *)
(* by the call it belongs to; bytes on the wire are not told apart from    *)
(* the numbers they encode.  The "a2a" wire mode is AllToAllReduce.        *)
(***************************************************************************)
EXTENDS Integers, Sequences

CONSTANTS
  W,        \* ranks on the ring
  Programs  \* the sequences of calls the ranks may agree to make

\* A call: the entry point, the pieces _pick_pieces chose (MAX_PIECES is 8; the
\* default candidates are 1 and 2), and the wire: the mode of the channel if the
\* payload is eligible for it, else "bf16".
Jobs == [op : {"all_reduce", "reduce_scatter"}, pieces : {1, 2},
         wire : {"bf16", "ag", "ring"}]

ASSUME WorldAssumption == W \in Nat /\ W >= 2
ASSUME ProgramsAssumption == Programs \subseteq Seq(Jobs)

Ranks  == 0..W-1
Cells  == {0, 1}      \* the two halves of a shard or of a scratch slot
\* The steps of the ring: both phases, or the reduce phase only.
Steps(j) == IF j.op = "all_reduce" THEN 2 * (W-1) ELSE W-1

\* The (step, piece) pairs of a call, and so the number of its slot `done'.
N(j) == Steps(j) * j.pieces
MaxSteps == 2 * (W-1)
FlagSlots == 0..2*MaxSteps

Succ(r) == (r + 1) % W
Pred(r) == (r - 1) % W

StepOf(j, i)  == i \div j.pieces
CellsOf(j, i) == IF j.pieces = 1 THEN Cells ELSE {i % 2}

\* Faulty variant: reduce_scatter walks the chunks as all_reduce does.
ShiftNone(j) == IF j.pieces = 0 THEN 1 ELSE 0

\* The reduce phase of all_reduce leaves chunk r+1 on rank r, reduce_scatter
\* is shifted by one so that it leaves chunk r there.
Shift(j) == IF j.op = "all_reduce" THEN 0 ELSE 1
Reduces(j, k) == k < W-1
SendChunk(j, r, k) == IF Reduces(j, k) THEN (r - k - Shift(j)) % W
                      ELSE (r + 1 - (k - (W-1))) % W
RecvChunk(j, r, k) == IF Reduces(j, k) THEN (r - k - Shift(j) - 1) % W
                      ELSE (r - (k - (W-1))) % W

\* The reduce hops carry FP8 partial sums (reduce_scatter also under "ag").
Fp8Reduce(j) == j.wire = "ring" \/ (j.wire = "ag" /\ j.op = "reduce_scatter")
\* The all-gather hops forward FP8 bytes.
Fp8Gather(j) == j.wire # "bf16" /\ j.op = "all_reduce"

Sum(c, ranks) == [call |-> c, ranks |-> ranks]
Garbage == Sum(0, <<>>)

VARIABLES
  program,  \* the calls every rank makes, in order
  call,     \* call[r]: index of the current (or last) call of r
  pc,       \* pc[r]: what the main stream of r does next
  pos,      \* pos[r]: pairs the main stream has finished in the current call
  copied,   \* copied[r]: pairs whose copied[] event is recorded
  flagged,  \* flagged[r]: pairs whose flag the flag stream has set
  buf,      \* buf[r][chunk][cell]: the output tensor
  stage,    \* stage[r][chunk][cell]: _fp8_stage
  scratch,  \* scratch[r][step][cell]: the IPC scratch slots of r
  flag, sent, waited   \* as in RingAllGather, over all flag slots

streams == <<program, call, pc, pos, copied, flagged>>
memory  == <<buf, stage, scratch>>
flags   == <<flag, sent, waited>>
vars    == <<streams, memory, flags>>

Job(r) == program[call[r]]

Sums == [call : 0..Len(program), ranks : Seq(Ranks)]

TypeOK ==
  /\ program \in Programs
  /\ call    \in [Ranks -> 0..Len(program)]
  /\ pc      \in [Ranks -> {"idle", "quant", "wait", "land", "join", "handshake"}]
  /\ pos     \in [Ranks -> Nat]
  /\ copied  \in [Ranks -> Nat]
  /\ flagged \in [Ranks -> Nat]
  /\ \A r \in Ranks : call[r] > 0 =>
       flagged[r] <= copied[r] /\ copied[r] <= N(Job(r)) /\ pos[r] <= N(Job(r))
  /\ buf     \in [Ranks -> [Ranks -> [Cells -> Sums]]]
  /\ stage   \in [Ranks -> [Ranks -> [Cells -> Sums]]]
  /\ scratch \in [Ranks -> [0..MaxSteps-1 -> [Cells -> Sums]]]
  /\ flag    \in [Ranks -> [FlagSlots -> Nat]]
  /\ sent    \in [Ranks -> [FlagSlots -> Nat]]
  /\ waited  \in [Ranks -> [FlagSlots -> Nat]]

Init ==
  /\ program \in Programs
  /\ call    = [r \in Ranks |-> 0]
  /\ pc      = [r \in Ranks |-> "idle"]
  /\ pos     = [r \in Ranks |-> 0]
  /\ copied  = [r \in Ranks |-> 0]
  /\ flagged = [r \in Ranks |-> 0]
  /\ buf     = [r \in Ranks |-> [c \in Ranks |-> [x \in Cells |-> Garbage]]]
  /\ stage   = buf
  /\ scratch = [r \in Ranks |-> [k \in 0..MaxSteps-1 |-> [x \in Cells |-> Garbage]]]
  /\ flag    = [r \in Ranks |-> [k \in FlagSlots |-> 0]]
  /\ sent    = flag
  /\ waited  = flag

\* dma_set_flag: the publisher stores its own incremented counter.
SetFlag(r, target, k) ==
  /\ sent' = [sent EXCEPT ![r][k] = @ + 1]
  /\ flag' = [flag EXCEPT ![target][k] = sent[r][k] + 1]
  /\ UNCHANGED waited

\* dma_wait_flag: the waiter spins until the flag has reached its own counter.
WaitFlag(r, k) ==
  /\ flag[r][k] >= waited[r][k] + 1
  /\ waited' = [waited EXCEPT ![r][k] = @ + 1]
  /\ UNCHANGED <<flag, sent>>

-----------------------------------------------------------------------------
(* The main stream.                                                        *)

\* Pairs before which the main stream quantizes into the stage: the caller's
\* input before each pair of the first FP8 reduce hop; the owned chunk, all its
\* pieces at once, before the first FP8 all-gather hop, unless the last reduce
\* hop has left it there.
Quants(j, i) ==
  \/ Fp8Reduce(j) /\ i < j.pieces
  \/ Fp8Gather(j) /\ ~Fp8Reduce(j) /\ i = (W-1) * j.pieces

QuantCells(j, i) == IF Reduces(j, StepOf(j, i)) THEN CellsOf(j, i) ELSE Cells

Before(j, i) == IF i = N(j) THEN "join" ELSE IF Quants(j, i) THEN "quant" ELSE "wait"

\* What add reads as its input operand: reduce_scatter works in place,
\* all_reduce has a separate output and reads the caller's tensor.
Input(r, c, x) == IF Job(r).op = "reduce_scatter" THEN buf[r][c][x]
                  ELSE Sum(call[r], <<r>>)

Fresh(r, c) == [chunk \in Ranks |-> [x \in Cells |-> Sum(c, <<r>>)]]

\* The entry: the caller's tensor is ready and input_ready is recorded.
Enter(r) ==
  LET c == call[r] + 1 IN
  /\ pc[r] = "idle"
  /\ call[r] < Len(program)
  /\ call'    = [call EXCEPT ![r] = c]
  /\ pos'     = [pos EXCEPT ![r] = 0]
  /\ copied'  = [copied EXCEPT ![r] = 0]
  /\ flagged' = [flagged EXCEPT ![r] = 0]
  /\ buf'     = [buf EXCEPT ![r] = IF program[c].op = "reduce_scatter" THEN Fresh(r, c)
                                   ELSE [k \in Ranks |-> [x \in Cells |-> Garbage]]]
  /\ pc'      = [pc EXCEPT ![r] = Before(program[c], 0)]
  /\ UNCHANGED <<program, stage, scratch, flags>>

\* dma_quant, and the event that lets the copy stream send the stage.
Quant(r) ==
  LET k == StepOf(Job(r), pos[r])
      c == SendChunk(Job(r), r, k)
  IN
  /\ pc[r] = "quant"
  /\ stage' = [stage EXCEPT ![r][c] =
                 [x \in Cells |-> IF x \notin QuantCells(Job(r), pos[r]) THEN @[x]
                                  ELSE IF Reduces(Job(r), k) THEN Input(r, c, x)
                                  ELSE buf[r][c][x]]]
  /\ pc' = [pc EXCEPT ![r] = "wait"]
  /\ UNCHANGED <<program, call, pos, copied, flagged, buf, scratch, flags>>

WaitData(r) ==
  /\ pc[r] = "wait"
  /\ WaitFlag(r, pos[r])
  /\ pc' = [pc EXCEPT ![r] = "land"]
  /\ UNCHANGED <<program, call, pos, copied, flagged, memory>>

\* The numbers of two calls do not add up to a sum of either.
Added(s, t) == IF s.call = t.call THEN Sum(s.call, s.ranks \o t.ranks) ELSE Garbage

\* What the pair that is landing makes of the received cells: the reduction
\* with the rank's input on a reduce hop, the received bytes on an all-gather hop.
Landed(r, c, x) ==
  LET k == StepOf(Job(r), pos[r])
      received == scratch[r][k][x]
  IN IF Reduces(Job(r), k)
     THEN Added(received, Input(r, c, x))
     ELSE received

\* FP8 reduce hops keep the partial sums in the stage and store BF16 only on
\* the last one.
LandAreas(j, k) ==
  IF Fp8Reduce(j) /\ Reduces(j, k)
  THEN IF k = W-2 THEN {"stage", "buf"} ELSE {"stage"}
  ELSE {"buf"}

\* dma_add, dma_dequant_add_quant, dma_copy or dma_dequant_store.
Land(r) ==
  LET j == Job(r)
      k == StepOf(j, pos[r])
      c == RecvChunk(j, r, k)
      new(old) == [x \in Cells |-> IF x \in CellsOf(j, pos[r]) THEN Landed(r, c, x) ELSE old[x]]
      put(area, mem) == IF area \in LandAreas(j, k) THEN [mem EXCEPT ![r][c] = new(@)] ELSE mem
  IN
  /\ pc[r] = "land"
  /\ stage' = put("stage", stage)
  /\ buf'   = put("buf", buf)
  /\ pos'   = [pos EXCEPT ![r] = @ + 1]
  /\ pc'    = [pc EXCEPT ![r] = Before(j, pos[r] + 1)]
  /\ UNCHANGED <<program, call, copied, flagged, scratch, flags>>

\* Faulty variant: the call ends with the joins, without a handshake.
HandshakeLeftOut(r) ==
  /\ pc[r] = "join"
  /\ copied[r] = N(Job(r))
  /\ flagged[r] = N(Job(r))
  /\ pc' = [pc EXCEPT ![r] = "idle"]
  /\ UNCHANGED <<program, call, pos, copied, flagged, memory, flags>>

\* The joins with the copy and flag streams, then the handshake.
Handshake(r) ==
  /\ pc[r] = "join"
  /\ copied[r] = N(Job(r))
  /\ flagged[r] = N(Job(r))
  /\ SetFlag(r, Pred(r), N(Job(r)))
  /\ pc' = [pc EXCEPT ![r] = "handshake"]
  /\ UNCHANGED <<program, call, pos, copied, flagged, memory>>

Finish(r) ==
  /\ pc[r] = "handshake"
  /\ WaitFlag(r, N(Job(r)))
  /\ pc' = [pc EXCEPT ![r] = "idle"]
  /\ UNCHANGED <<program, call, pos, copied, flagged, memory>>

-----------------------------------------------------------------------------
(* The copy and flag streams.                                              *)

\* How many add_done events main has recorded.  An FP8 all-gather hop records
\* its event as soon as the payload has arrived, before it dequantizes.
Recorded(r) ==
  IF /\ pc[r] = "land" /\ Fp8Gather(Job(r))
     /\ ~Reduces(Job(r), StepOf(Job(r), pos[r]))
  THEN pos[r] + 1 ELSE pos[r]

Quanted(r, i) == pos[r] > i \/ (pos[r] = i /\ pc[r] # "quant")

\* The event the copy of pair copied[r] waits for has been recorded.
CopyReady(r) ==
  LET j == Job(r)
      i == copied[r]
      k == StepOf(j, i)
  IN /\ call[r] > 0 /\ pc[r] # "idle"
     /\ i < N(j)
     /\ IF Fp8Reduce(j) /\ k = 0 THEN Quanted(r, i)
        ELSE IF Fp8Gather(j) /\ k = W-1 THEN Quanted(r, k * j.pieces)
        ELSE k = 0 \/ Recorded(r) > i - j.pieces

\* The area the copy reads, and its content.
CopyArea(r) ==
  LET j == Job(r)
      k == StepOf(j, copied[r])
  IN IF (Fp8Reduce(j) /\ Reduces(j, k)) \/ (Fp8Gather(j) /\ k = W-1) THEN "stage"
     ELSE IF Fp8Gather(j) /\ k > W-1 THEN "scratch"
     ELSE IF k = 0 THEN "input" ELSE "buf"

CopySource(r, x) ==
  LET j == Job(r)
      k == StepOf(j, copied[r])
      c == SendChunk(j, r, k)
  IN CASE CopyArea(r) = "stage"   -> stage[r][c][x]
       [] CopyArea(r) = "scratch" -> scratch[r][k-1][x]
       [] CopyArea(r) = "input"   -> Input(r, c, x)
       [] CopyArea(r) = "buf"     -> buf[r][c][x]

CopyStep(r) ==
  LET j == Job(r)
      i == copied[r]
  IN
  /\ CopyReady(r)
  /\ scratch' = [scratch EXCEPT ![Succ(r)][StepOf(j, i)] =
                   [x \in Cells |-> IF x \in CellsOf(j, i) THEN CopySource(r, x) ELSE @[x]]]
  /\ copied' = [copied EXCEPT ![r] = i + 1]
  /\ UNCHANGED <<program, call, pc, pos, flagged, buf, stage, flags>>

\* Faulty variant: the flag of the next pair is set.
FlagStepNext(r) ==
  /\ flagged[r] < copied[r]
  /\ SetFlag(r, Succ(r), flagged[r] + 1)
  /\ flagged' = [flagged EXCEPT ![r] = @ + 1]
  /\ UNCHANGED <<program, call, pc, pos, copied, memory>>

FlagStep(r) ==
  /\ flagged[r] < copied[r]
  /\ SetFlag(r, Succ(r), flagged[r])
  /\ flagged' = [flagged EXCEPT ![r] = @ + 1]
  /\ UNCHANGED <<program, call, pc, pos, copied, memory>>

-----------------------------------------------------------------------------
MainStep(r) == Quant(r) \/ WaitData(r) \/ Land(r) \/ Handshake(r) \/ Finish(r)

Drained ==
  /\ \A r \in Ranks : pc[r] = "idle" /\ call[r] = Len(program)
  /\ UNCHANGED vars

Next ==
  \/ \E r \in Ranks : Enter(r) \/ MainStep(r) \/ CopyStep(r) \/ FlagStep(r)
  \/ Drained

Spec == Init /\ [][Next]_vars

FairSpec ==
  /\ Spec
  /\ \A r \in Ranks :
       /\ WF_vars(Enter(r) \/ MainStep(r))
       /\ WF_vars(CopyStep(r))
       /\ WF_vars(FlagStep(r))

-----------------------------------------------------------------------------
(* Properties.                                                             *)

EveryRankOnce(s) ==
  Len(s) = W /\ \A r \in Ranks : \E i \in 1..Len(s) : s[i] = r

\* The chunks a call leaves reduced on rank r.
Owned(j, r) == IF j.op = "all_reduce" THEN Ranks ELSE {r}

\* A call that has done its last pair has reduced every rank's input of that
\* same call exactly once into the chunks it promises.
ReduceExact ==
  \A r \in Ranks :
    call[r] > 0 /\ pc[r] \in {"join", "handshake", "idle"} =>
      \A c \in Owned(Job(r), r), x \in Cells :
        buf[r][c][x].call = call[r] /\ EveryRankOnce(buf[r][c][x].ranks)

\* Memory cells <<owner, area, index, cell>> that the operation at the head of
\* the main or copy stream of r reads or writes, once it may start.
At(owner, area, index, cells) == {owner} \X {area} \X {index} \X cells

MainReads(r) ==
  LET j == Job(r)
      k == StepOf(j, pos[r])
  IN CASE pc[r] = "land"  -> At(r, "scratch", k, CellsOf(j, pos[r]))
       [] pc[r] = "quant" -> At(r, "buf", SendChunk(j, r, k), QuantCells(j, pos[r]))
       [] OTHER -> {}
MainWrites(r) ==
  LET j == Job(r)
      k == StepOf(j, pos[r])
  IN CASE pc[r] = "land"  -> UNION {At(r, area, RecvChunk(j, r, k), CellsOf(j, pos[r]))
                                    : area \in LandAreas(j, k)}
       [] pc[r] = "quant" -> At(r, "stage", SendChunk(j, r, k), QuantCells(j, pos[r]))
       [] OTHER -> {}
CopyReads(r) ==
  LET j == Job(r)
      k == StepOf(j, copied[r])
      area == IF CopyArea(r) = "input" /\ j.op = "reduce_scatter" THEN "buf" ELSE CopyArea(r)
  IN IF ~CopyReady(r) THEN {}
     ELSE At(r, area, IF area = "scratch" THEN k - 1 ELSE SendChunk(j, r, k),
             CellsOf(j, copied[r]))
CopyWrites(r) ==
  IF ~CopyReady(r) THEN {}
  ELSE At(Succ(r), "scratch", StepOf(Job(r), copied[r]), CellsOf(Job(r), copied[r]))

\* Two calls may cut a slot differently, so between calls any two cells of a
\* slot overlap.
SlotsOf(cells) == {<<c[1], c[2], c[3]>> : c \in cells}
Disjoint(r, A, s, B) ==
  IF call[r] = call[s] THEN A \cap B = {} ELSE SlotsOf(A) \cap SlotsOf(B) = {}

\* "The next call cannot overwrite scratch a lagging neighbor still reads": no
\* peer copy may start into a scratch cell that its owner's main or copy stream
\* is reading or may read, and no two ranks write the same cell.
ScratchProtected ==
  \A r, s \in Ranks :
    /\ Disjoint(r, CopyWrites(r), s, MainReads(s) \cup CopyReads(s))
    /\ r # s => Disjoint(r, CopyWrites(r), s, CopyWrites(s))

\* Nor does a rank's main stream overwrite what its own copy stream is sending.
NoRace == ScratchProtected /\ \A r \in Ranks : MainWrites(r) \cap CopyReads(r) = {}

\* Every call returns, on every rank and whatever the streams do first.
CallsReturn == <>(\A r \in Ranks : pc[r] = "idle" /\ call[r] = Len(program))
=============================================================================
