--------------------------- MODULE AllToAllReduce ---------------------------
(***************************************************************************)
(* PCIeDmaAllReduce._all_reduce_fp8: the quantize-once all-to-all wire     *)
(* mode.  Every rank scatters its slices to the owners, each owner adds    *)
(* and broadcasts the sum, and every rank places what it receives.  There  *)
(* is no end handshake, so nothing but the data dependencies of the next   *)
(* call protects the scratch slots.  Flags are numbered by position and    *)
(* chunk with the chunk count of the call.                                 *)
(*                                                                         *)
(* A rank is five in-order streams: main, and a copy and a flag stream for *)
(* each of the two phases.  A phase sends its chunks in order, each to all *)
(* peers in turn, so its progress is one number: the sends done.           *)
(***************************************************************************)
EXTENDS Integers, Sequences, FiniteSetsExt, Functions

CONSTANT
  Programs  \* groups, each with the calls it makes: the chunks of their slices

ASSUME ProgramsAssumption ==
  \A p \in Programs : p.world \in Nat /\ p.world >= 2 /\ p.chunks \in Seq(1..4)

VARIABLE program  \* the group and the calls of this run

W      == program.world
Ranks  == 0..W-1
Places == 0..W-2              \* positions of a rank's peers, in ring order

Peer(r, i)  == (r + 1 + i) % W     \* peers[i]
PosAt(r, j) == (r - j - 1) % W     \* the slot position of r in its peer j

\* The n-th send or receive of a phase: chunk, and place of the peer.
ChunkOf(n) == n \div (W-1)
PlaceOf(n) == n % (W-1)

Phases == {"scatter", "broadcast"}

VARIABLES
  call,     \* call[r]: calls rank r has entered
  pc,       \* pc[r]: "idle", "quant", "wait", "accum", "await", "place", "join"
  at,       \* at[r]: what main works on: a chunk to quantize, or a receive of the phase
  summed,   \* summed[r]: chunks accumulated and quantized (_a2a_ownq recorded)
  quanted,  \* quanted[r]: chunks of the input quantized (_a2a_qdone recorded)
  copied,   \* copied[r][phase]: peer copies done
  flagged,  \* flagged[r][phase]: peer flags set
  stage,    \* stage[r][shard][chunk]: _fp8_stage
  scratch,  \* scratch[r][<<phase, place, chunk>>]
  out,      \* out[r][shard][chunk]
  flag, sent, waited  \* [r][number of the flag]

Calls == program.chunks

\* The chunks of the call r is in, or was in last.
Chunks(r) == IF call[r] = 0 THEN 0 ELSE Calls[call[r]]
Sends(r)  == Chunks(r) * (W-1)

\* Chunks and flags of the largest call.
MaxChunks == Max({0} \cup Range(Calls))
Pieces == 0..MaxChunks-1
Slots  == Phases \X Places \X Pieces
Flags  == 0..2 * (W-1) * MaxChunks - 1

\* rs_slot and ag_slot: the flag of a slot, in a call of r.
FlagOf(r, slot) ==
  (IF slot[1] = "scatter" THEN 0 ELSE Sends(r)) + slot[2] * Chunks(r) + slot[3]

streams == <<call, pc, at, summed, quanted, copied, flagged>>
memory  == <<stage, scratch, out>>
flags   == <<flag, sent, waited>>
vars    == <<program, streams, memory, flags>>

\* A number is the set of <<rank, call>> inputs added into it.
Numbers == SUBSET (Ranks \X (1..Len(Calls)))

TypeOK ==
  /\ program \in Programs
  /\ call    \in [Ranks -> 0..Len(Calls)]
  /\ pc      \in [Ranks -> {"idle", "quant", "wait", "accum", "await", "place", "join"}]
  /\ at \in [Ranks -> Nat] /\ summed \in [Ranks -> Nat] /\ quanted \in [Ranks -> Nat]
  /\ copied \in [Ranks -> [Phases -> Nat]] /\ flagged \in [Ranks -> [Phases -> Nat]]
  /\ \A r \in Ranks :
       /\ at[r] \in 0..Sends(r) /\ summed[r] \in 0..Chunks(r) /\ quanted[r] \in 0..Chunks(r)
       /\ \A f \in Phases : copied[r][f] \in 0..Sends(r) /\ flagged[r][f] \in 0..Sends(r)
  /\ stage   \in [Ranks -> [Ranks -> [Pieces -> Numbers]]]
  /\ scratch \in [Ranks -> [Slots -> Numbers]]
  /\ out     \in [Ranks -> [Ranks -> [Pieces -> Numbers]]]
  /\ flag    \in [Ranks -> [Flags -> 0..Len(Calls)]]
  /\ sent    \in [Ranks -> [Flags -> 0..Len(Calls)]]
  /\ waited  \in [Ranks -> [Flags -> 0..Len(Calls)]]

Init ==
  /\ program \in Programs
  /\ call    = [r \in Ranks |-> 0]
  /\ pc      = [r \in Ranks |-> "idle"]
  /\ at      = [r \in Ranks |-> 0]
  /\ summed  = [r \in Ranks |-> 0]
  /\ quanted = [r \in Ranks |-> 0]
  /\ copied  = [r \in Ranks |-> [f \in Phases |-> 0]]
  /\ flagged = copied
  /\ stage   = [r \in Ranks |-> [s \in Ranks |-> [c \in Pieces |-> {}]]]
  /\ out     = stage
  /\ scratch = [r \in Ranks |-> [k \in Slots |-> {}]]
  /\ flag    = [r \in Ranks |-> [k \in Flags |-> 0]]
  /\ sent    = flag
  /\ waited  = flag

\* dma_set_flag, as in RingReduce.
SetFlag(r, target, k) ==
  /\ sent' = [sent EXCEPT ![r][k] = @ + 1]
  /\ flag' = [flag EXCEPT ![target][k] = sent[r][k] + 1]
  /\ UNCHANGED waited

\* dma_wait_flag, as in RingReduce.
WaitFlag(r, k) ==
  /\ flag[r][k] >= waited[r][k] + 1
  /\ waited' = [waited EXCEPT ![r][k] = @ + 1]
  /\ UNCHANGED <<flag, sent>>

-----------------------------------------------------------------------------
(* The main stream.                                                        *)

Enter(r) ==
  /\ pc[r] = "idle"
  /\ call[r] < Len(Calls)
  /\ call'    = [call EXCEPT ![r] = @ + 1]
  /\ pc'      = [pc EXCEPT ![r] = "quant"]
  /\ at'      = [at EXCEPT ![r] = 0]
  /\ summed'  = [summed EXCEPT ![r] = 0]
  /\ quanted' = [quanted EXCEPT ![r] = 0]
  /\ copied'  = [copied EXCEPT ![r] = [f \in Phases |-> 0]]
  /\ flagged' = [flagged EXCEPT ![r] = [f \in Phases |-> 0]]
  /\ out'     = [out EXCEPT ![r] = [s \in Ranks |-> [c \in Pieces |-> {}]]]
  /\ UNCHANGED <<program, stage, scratch, flags>>

\* Quantize one chunk for every peer and record its event.
Quant(r) ==
  /\ pc[r] = "quant"
  /\ stage' = [stage EXCEPT ![r] =
                 [s \in Ranks |-> IF s = r THEN @[s]
                                  ELSE [@[s] EXCEPT ![quanted[r]] = {<<r, call[r]>>}]]]
  /\ quanted' = [quanted EXCEPT ![r] = @ + 1]
  /\ pc' = [pc EXCEPT ![r] = IF quanted[r] = Chunks(r) - 1 THEN "wait" ELSE "quant"]
  /\ UNCHANGED <<program, call, at, summed, copied, flagged, scratch, out, flags>>

SlotAt(phase, n) == <<phase, PlaceOf(n), ChunkOf(n)>>

\* The W-1 receive flags of a chunk, one after the other.
WaitScatter(r) ==
  /\ pc[r] = "wait"
  /\ WaitFlag(r, FlagOf(r, SlotAt("scatter", at[r])))
  /\ at' = [at EXCEPT ![r] = @ + 1]
  /\ pc' = [pc EXCEPT ![r] = IF PlaceOf(at[r]) = W-2 THEN "accum" ELSE "wait"]
  /\ UNCHANGED <<program, call, summed, quanted, copied, flagged, memory>>

\* dma_dequant_accum of the own input and all received slices of the chunk, and
\* dma_quant of the sum.
Accumulate(r) ==
  LET c   == summed[r]
      sum == {<<r, call[r]>>} \cup UNION {scratch[r][<<"scatter", i, c>>] : i \in Places}
  IN
  /\ pc[r] = "accum"
  /\ out'    = [out EXCEPT ![r][r][c] = sum]
  /\ stage'  = [stage EXCEPT ![r][r][c] = sum]
  /\ summed' = [summed EXCEPT ![r] = c + 1]
  /\ pc' = [pc EXCEPT ![r] = IF c = Chunks(r) - 1 THEN "await" ELSE "wait"]
  /\ at' = [at EXCEPT ![r] = IF c = Chunks(r) - 1 THEN 0 ELSE @]
  /\ UNCHANGED <<program, call, quanted, copied, flagged, scratch, flags>>

\* Faulty variant: a broadcast shard is placed without a wait for its flag.
WaitBroadcastSkipped(r) ==
  /\ pc[r] = "await"
  /\ pc' = [pc EXCEPT ![r] = "place"]
  /\ UNCHANGED <<program, call, at, summed, quanted, copied, flagged, memory, flags>>

WaitBroadcast(r) ==
  /\ pc[r] = "await"
  /\ WaitFlag(r, FlagOf(r, SlotAt("broadcast", at[r])))
  /\ pc' = [pc EXCEPT ![r] = "place"]
  /\ UNCHANGED <<program, call, at, summed, quanted, copied, flagged, memory>>

Place(r) ==
  /\ pc[r] = "place"
  /\ out' = [out EXCEPT ![r][Peer(r, PlaceOf(at[r]))][ChunkOf(at[r])] =
               scratch[r][SlotAt("broadcast", at[r])]]
  /\ at' = [at EXCEPT ![r] = @ + 1]
  /\ pc' = [pc EXCEPT ![r] = IF at[r] = Sends(r) - 1 THEN "join" ELSE "await"]
  /\ UNCHANGED <<program, call, summed, quanted, copied, flagged, stage, scratch, flags>>

\* The joins with the four other streams end the call.
Join(r) ==
  /\ pc[r] = "join"
  /\ \A f \in Phases : copied[r][f] = Sends(r) /\ flagged[r][f] = Sends(r)
  /\ pc' = [pc EXCEPT ![r] = "idle"]
  /\ UNCHANGED <<program, call, at, summed, quanted, copied, flagged, memory, flags>>

-----------------------------------------------------------------------------
(* The copy and flag streams of the two phases.                            *)

\* A chunk may be sent once its quantization is recorded: of the input for the
\* scatter (_a2a_qdone), of the owned sum for the broadcast (_a2a_ownq).
ChunksReady(r, phase) == IF phase = "scatter" THEN quanted[r] ELSE summed[r]

\* Faulty variant: the broadcast waits for the event of the chunk before.
CopyReadyEarly(r, phase) ==
  /\ copied[r][phase] < Sends(r)
  /\ ChunkOf(copied[r][phase]) <= ChunksReady(r, phase)

\* The next send of a phase may start.
CopyReady(r, phase) ==
  copied[r][phase] < Sends(r) /\ ChunkOf(copied[r][phase]) < ChunksReady(r, phase)

Target(r, n) == Peer(r, PlaceOf(n))
TargetSlot(r, phase, n) == <<phase, PosAt(r, Target(r, n)), ChunkOf(n)>>

\* The stage slice the copy reads: the target's shard, or the rank's own.
StageShard(r, phase, n) == IF phase = "scatter" THEN Target(r, n) ELSE r

CopyStep(r, phase) ==
  LET n == copied[r][phase] IN
  /\ CopyReady(r, phase)
  /\ scratch' = [scratch EXCEPT ![Target(r, n)][TargetSlot(r, phase, n)] =
                   stage[r][StageShard(r, phase, n)][ChunkOf(n)]]
  /\ copied' = [copied EXCEPT ![r][phase] = n + 1]
  /\ UNCHANGED <<program, call, pc, at, summed, quanted, flagged, stage, out, flags>>

FlagStep(r, phase) ==
  LET n == flagged[r][phase] IN
  /\ n < copied[r][phase]
  /\ SetFlag(r, Target(r, n), FlagOf(r, TargetSlot(r, phase, n)))
  /\ flagged' = [flagged EXCEPT ![r][phase] = n + 1]
  /\ UNCHANGED <<program, call, pc, at, summed, quanted, copied, memory>>

-----------------------------------------------------------------------------
MainStep(r) ==
  \/ Quant(r) \/ WaitScatter(r) \/ Accumulate(r)
  \/ WaitBroadcast(r) \/ Place(r) \/ Join(r)

Drained ==
  /\ \A r \in Ranks : pc[r] = "idle" /\ call[r] = Len(Calls)
  /\ UNCHANGED vars

Next ==
  \/ \E r \in Ranks : \/ Enter(r) \/ MainStep(r)
                      \/ \E f \in Phases : CopyStep(r, f) \/ FlagStep(r, f)
  \/ Drained

Spec == Init /\ [][Next]_vars

-----------------------------------------------------------------------------
(* Properties.                                                             *)

\* Every rank's input of the call r is in, once and nothing else.
SumOf(r) == {<<p, call[r]>> : p \in Ranks}

\* What a rank has accumulated, broadcast by broadcast what it has placed, and so
\* what it returns, is the sum of that call.
ReduceExact ==
  \A r \in Ranks :
    /\ \A c \in 0..summed[r]-1 : out[r][r][c] = SumOf(r)
    /\ pc[r] \in {"await", "place", "join", "idle"} =>
         \A n \in 0..at[r]-1 : out[r][Peer(r, PlaceOf(n))][ChunkOf(n)] = SumOf(r)

\* The scratch slots the main stream of r is reading or may start to read.
Reading(r) ==
  CASE pc[r] = "accum" -> {<<"scatter", i, summed[r]>> : i \in Places}
    [] pc[r] = "place" -> {SlotAt("broadcast", at[r])}
    [] OTHER -> {}

\* Two calls may cut a slot differently, so between calls all its chunks overlap.
Overlap(r, k, s, l) == k[1] = l[1] /\ k[2] = l[2] /\ (call[r] = call[s] => k[3] = l[3])

\* Without a handshake, no peer's copy may run into a slot that the main stream of
\* its owner is at, accumulating or placing.  (Staging cells and slots it has yet
\* to reach are left to ReduceExact.)
NoScratchRace ==
  \A r \in Ranks, f \in Phases :
    LET n == copied[r][f]
        j == Target(r, n)
    IN CopyReady(r, f) => \A k \in Reading(j) : ~Overlap(r, TargetSlot(r, f, n), j, k)

=============================================================================
