---------------------------- MODULE RingAllGather ----------------------------
(***************************************************************************)
(* PCIeDmaAllGather: the byte ring all-gather of the packed-CKV channel.   *)
(*                                                                         *)
(* all_gather only enqueues work.  On every rank it lands on three CUDA    *)
(* streams, each of which runs its own operations in order:                *)
(*   main   input_ready, own copy, then per step wait_flag / unpack /      *)
(*          received_events[step]; then the joins and the end handshake    *)
(*   copy   per step one peer DMA into the successor's IPC slot            *)
(*   flag   per step one flag store on the successor                       *)
(* An action below is one such operation taking effect; its guard is what  *)
(* the stream waits for (the operation before it, an event, a flag).       *)
(* Ranks share memory only: slot and flag of a rank are written by its     *)
(* neighbours and there is no other message.                               *)
(***************************************************************************)
EXTENDS Integers

CONSTANTS
  W,        \* size of the DCP group (the code accepts 4)
  MaxCalls  \* calls each rank makes (bounds the model)

ASSUME WorldAssumption == W \in Nat /\ W >= 2
ASSUME CallsAssumption == MaxCalls \in Nat

Ranks == 0..W-1
Steps == 0..W-2     \* ring steps, and the index of the slot each one fills
Done  == W-1        \* flag slot of the end handshake
FlagSlots == 0..W-1

Succ(r) == IF r = W-1 THEN 0 ELSE r + 1
Pred(r) == IF r = 0 THEN W-1 ELSE r - 1

\* Faulty variant: the owner of the block after.
ReceivedOwnerNext(r, step) == (r - step) % W

\* (rank - step - 1) % world_size: whose payload reaches slot `step' of rank r.
ReceivedOwner(r, step) == IF r >= step + 1 THEN r - step - 1 ELSE r - step - 1 + W

\* Records and validity bytes travel as one block; all that matters of it is
\* which rank packed it and for which of its calls.  Call 0 is "never".
Payload(o, c) == <<o, c>>
Payloads == Ranks \X (0..MaxCalls)

VARIABLES
  call,     \* call[r]: calls whose input_ready event main stream r has passed
  pc,       \* pc[r]: what the main stream of r does next
  step,     \* step[r]: received_events[0..step-1] of the current call are recorded
  copied,   \* copied[r]: copied_events[0..copied-1] of the current call are recorded
  flagged,  \* flagged[r]: data flags of the current call the flag stream has set
  local,    \* local[r]: the caller's payload buffer
  slot,     \* slot[r][k]: IPC slot k of rank r
  flag,     \* flag[r][k]: IPC flag k of rank r
  sent,     \* sent[r][k]: _send_counters
  waited,   \* waited[r][k]: _wait_counters
  out       \* out[r][o]: block o of the caller's rank-major outputs

memory  == <<local, slot, out>>
streams == <<call, pc, step, copied, flagged>>
flags   == <<flag, sent, waited>>
vars    == <<streams, memory, flags>>

TypeOK ==
  /\ call    \in [Ranks -> 0..MaxCalls]
  /\ pc      \in [Ranks -> {"idle", "wait", "unpack", "join", "handshake"}]
  /\ step    \in [Ranks -> 0..W-1]
  /\ copied  \in [Ranks -> 0..W-1]
  /\ flagged \in [Ranks -> 0..W-1]
  /\ local   \in [Ranks -> Payloads]
  /\ slot    \in [Ranks -> [Steps -> Payloads]]
  /\ flag    \in [Ranks -> [FlagSlots -> Nat]]
  /\ sent    \in [Ranks -> [FlagSlots -> Nat]]
  /\ waited  \in [Ranks -> [FlagSlots -> Nat]]
  /\ out     \in [Ranks -> [Ranks -> Payloads]]

\* The channel is built with zeroed slab and counters; no call is outstanding.
Init ==
  /\ call    = [r \in Ranks |-> 0]
  /\ pc      = [r \in Ranks |-> "idle"]
  /\ step    = [r \in Ranks |-> W-1]
  /\ copied  = [r \in Ranks |-> W-1]
  /\ flagged = [r \in Ranks |-> W-1]
  /\ local   = [r \in Ranks |-> Payload(r, 0)]
  /\ slot    = [r \in Ranks |-> [k \in Steps |-> Payload(ReceivedOwner(r, k), 0)]]
  /\ flag    = [r \in Ranks |-> [k \in FlagSlots |-> 0]]
  /\ sent    = [r \in Ranks |-> [k \in FlagSlots |-> 0]]
  /\ waited  = [r \in Ranks |-> [k \in FlagSlots |-> 0]]
  /\ out     = [r \in Ranks |-> [o \in Ranks |-> Payload(o, 0)]]

-----------------------------------------------------------------------------
(* Flags.                                                                  *)

\* dma_set_flag: the publisher stores its own incremented counter.
SetFlag(r, target, k) ==
  /\ sent' = [sent EXCEPT ![r][k] = @ + 1]
  /\ flag' = [flag EXCEPT ![target][k] = sent[r][k] + 1]
  /\ UNCHANGED waited

\* dma_wait_flag: the waiter spins until the flag has reached its own counter.
WaitFlag(r, k) ==
  /\ flag[r][k] >= waited[r][k] + 1
  /\ waited' = [waited EXCEPT ![r][k] = @ + 1]
  /\ UNCHANGED <<flag, sent>>

-----------------------------------------------------------------------------
(* Main stream.                                                            *)

\* Faulty variant: the next call is enqueued on another stream than the last.
EnterUnordered(r) ==
  /\ call[r] < MaxCalls
  /\ call'    = [call EXCEPT ![r] = @ + 1]
  /\ local'   = [local EXCEPT ![r] = Payload(r, call[r] + 1)]
  /\ out'     = [out EXCEPT ![r][r] = Payload(r, call[r] + 1)]
  /\ step'    = [step EXCEPT ![r] = 0]
  /\ copied'  = [copied EXCEPT ![r] = 0]
  /\ flagged' = [flagged EXCEPT ![r] = 0]
  /\ pc'      = [pc EXCEPT ![r] = "wait"]
  /\ UNCHANGED <<slot, flags>>

\* The caller's pack kernel has filled the payload buffer; input_ready is
\* recorded and the rank's own block is copied to its place in the outputs.
Enter(r) ==
  /\ pc[r] = "idle"
  /\ call[r] < MaxCalls
  /\ call'    = [call EXCEPT ![r] = @ + 1]
  /\ local'   = [local EXCEPT ![r] = Payload(r, call[r] + 1)]
  /\ out'     = [out EXCEPT ![r][r] = Payload(r, call[r] + 1)]
  /\ step'    = [step EXCEPT ![r] = 0]
  /\ copied'  = [copied EXCEPT ![r] = 0]
  /\ flagged' = [flagged EXCEPT ![r] = 0]
  /\ pc'      = [pc EXCEPT ![r] = "wait"]
  /\ UNCHANGED <<slot, flags>>

WaitData(r) ==
  /\ pc[r] = "wait"
  /\ WaitFlag(r, step[r])
  /\ pc' = [pc EXCEPT ![r] = "unpack"]
  /\ UNCHANGED <<call, step, copied, flagged, memory>>

\* The two DMA copies out of the slot, and received_events[step].
Unpack(r) ==
  /\ pc[r] = "unpack"
  /\ out'  = [out EXCEPT ![r][ReceivedOwner(r, step[r])] = slot[r][step[r]]]
  /\ step' = [step EXCEPT ![r] = @ + 1]
  /\ pc'   = [pc EXCEPT ![r] = IF step[r] = W-2 THEN "join" ELSE "wait"]
  /\ UNCHANGED <<call, copied, flagged, local, slot, flags>>

\* Faulty variant: the handshake is sent without the two joins.
HandshakeUnjoined(r) ==
  /\ pc[r] = "join"
  /\ SetFlag(r, Pred(r), Done)
  /\ pc' = [pc EXCEPT ![r] = "handshake"]
  /\ UNCHANGED <<call, step, copied, flagged, memory>>

\* main.wait_stream(copy), main.wait_stream(flag), then the handshake store.
Handshake(r) ==
  /\ pc[r] = "join"
  /\ copied[r] = W-1
  /\ flagged[r] = W-1
  /\ SetFlag(r, Pred(r), Done)
  /\ pc' = [pc EXCEPT ![r] = "handshake"]
  /\ UNCHANGED <<call, step, copied, flagged, memory>>

Finish(r) ==
  /\ pc[r] = "handshake"
  /\ WaitFlag(r, Done)
  /\ pc' = [pc EXCEPT ![r] = "idle"]
  /\ UNCHANGED <<call, step, copied, flagged, memory>>

-----------------------------------------------------------------------------
(* Copy and flag streams.                                                  *)

\* Faulty variant: a forwarding copy waits for the event of the step before
\* the one it forwards.
CopyReadyEarly(r) ==
  /\ copied[r] < W-1
  /\ copied[r] <= step[r] + 1

\* The event the next peer copy of r waits for is recorded: input_ready for
\* step 0, received_events[step - 1] afterwards.
CopyReady(r) ==
  /\ copied[r] < W-1
  /\ copied[r] <= step[r]

CopyStep(r) ==
  LET k == copied[r] IN
  /\ CopyReady(r)
  /\ slot' = [slot EXCEPT ![Succ(r)][k] = IF k = 0 THEN local[r] ELSE slot[r][k-1]]
  /\ copied' = [copied EXCEPT ![r] = k + 1]
  /\ UNCHANGED <<call, pc, step, flagged, local, out, flags>>

\* Faulty variant: the flag of the next step is set.
FlagStepNext(r) ==
  /\ flagged[r] < copied[r]
  /\ SetFlag(r, Succ(r), flagged[r] + 1)
  /\ flagged' = [flagged EXCEPT ![r] = @ + 1]
  /\ UNCHANGED <<call, pc, step, copied, memory>>

FlagStep(r) ==
  /\ flagged[r] < copied[r]
  /\ SetFlag(r, Succ(r), flagged[r])
  /\ flagged' = [flagged EXCEPT ![r] = @ + 1]
  /\ UNCHANGED <<call, pc, step, copied, memory>>

-----------------------------------------------------------------------------
MainStep(r) == WaitData(r) \/ Unpack(r) \/ Handshake(r) \/ Finish(r)

\* The engine issues no further call.
Drained ==
  /\ \A r \in Ranks : pc[r] = "idle" /\ call[r] = MaxCalls
  /\ UNCHANGED vars

Next ==
  \/ \E r \in Ranks : Enter(r) \/ MainStep(r) \/ CopyStep(r) \/ FlagStep(r)
  \/ Drained

Spec == Init /\ [][Next]_vars

\* A stream whose head operation can run runs it, and the engine issues the
\* same calls on every rank.
FairSpec ==
  /\ Spec
  /\ \A r \in Ranks :
       /\ WF_vars(Enter(r))
       /\ WF_vars(MainStep(r))
       /\ WF_vars(CopyStep(r))
       /\ WF_vars(FlagStep(r))

-----------------------------------------------------------------------------
(* Properties.                                                             *)

\* A call that has returned, or only waits for its handshake, has left every
\* rank's payload of that same call in the outputs (all_gather's contract:
\* "Gather raw record pages and validity bytes into rank-major outputs").
GatherExact ==
  \A r \in Ranks :
    pc[r] \in {"join", "handshake", "idle"} =>
      \A o \in Ranks : out[r][o] = Payload(o, call[r])

\* A read of slot k of r is running or can start: the unpack of step k, or
\* the forwarding copy of step k + 1.
ReadingSlot(r, k) ==
  \/ pc[r] = "unpack" /\ step[r] = k
  \/ CopyReady(r) /\ copied[r] = k + 1

\* The peer copy that fills slot k of r is running or can start.
WritingSlot(r, k) == CopyReady(Pred(r)) /\ copied[Pred(r)] = k

\* The end handshake keeps a fast predecessor from filling a slot for the
\* next call while its owner still unpacks or forwards the last one.
NoSlotRace == \A r \in Ranks, k \in Steps : ~(ReadingSlot(r, k) /\ WritingSlot(r, k))

\* Around the ring no rank is more than one call ahead of another.
BoundedSkew == \A r, s \in Ranks : call[r] <= call[s] + 1

\* The strengthening that makes the properties above inductive: what every
\* counter, flag, slot and output block is in terms of the stream positions.
Count(done, r) == IF done THEN call[r] ELSE call[r] - 1

Shape ==
  \A r \in Ranks :
    /\ flagged[r] <= copied[r] /\ copied[r] <= step[r] + 1
    /\ pc[r] \in {"wait", "unpack"} => step[r] <= W-2
    /\ pc[r] \in {"join", "handshake", "idle"} => step[r] = W-1
    /\ pc[r] \in {"handshake", "idle"} => copied[r] = W-1 /\ flagged[r] = W-1
    /\ call[r] = 0 => pc[r] = "idle"

CountersExact ==
  \A r \in Ranks :
    /\ sent[r][Done] = Count(pc[r] \in {"handshake", "idle"}, r)
    /\ waited[r][Done] = Count(pc[r] = "idle", r)
    /\ \A k \in Steps :
         /\ sent[r][k] = Count(k < flagged[r], r)
         /\ waited[r][k] = Count(k < step[r] \/ (k = step[r] /\ pc[r] = "unpack"), r)

FlagsExact ==
  \A r \in Ranks :
    /\ flag[Pred(r)][Done] = sent[r][Done]
    /\ \A k \in Steps : flag[Succ(r)][k] = sent[r][k]

NeverAhead ==
  \A r \in Ranks :
    /\ waited[r][Done] <= sent[Succ(r)][Done]
    /\ \A k \in Steps : waited[Succ(r)][k] <= sent[r][k]

DataExact ==
  \A r \in Ranks :
    /\ local[r] = Payload(r, call[r])
    /\ out[r][r] = Payload(r, call[r])
    /\ \A k \in Steps :
         /\ slot[Succ(r)][k] =
              Payload(ReceivedOwner(Succ(r), k), Count(k < copied[r], r))
         /\ out[r][ReceivedOwner(r, k)] =
              Payload(ReceivedOwner(r, k), Count(k < step[r], r))

Provenance ==
  \A r \in Ranks :
    /\ \A k \in Steps : slot[r][k][2] <= call[ReceivedOwner(r, k)]
    /\ \A o \in Ranks : out[r][o][2] <= call[o]

RingInv ==
  Shape /\ CountersExact /\ FlagsExact /\ NeverAhead /\ DataExact /\ Provenance

\* Every call that is entered returns, on every rank.
CallsReturn == \A r \in Ranks : (pc[r] # "idle") ~> (pc[r] = "idle")

\* The ring implements the barrier-and-copy of GatherBarrier.
Abs == INSTANCE GatherBarrier WITH
  entered <- call,
  busy    <- [r \in Ranks |-> pc[r] # "idle"],
  result  <- [r \in Ranks |-> IF pc[r] = "idle" THEN out[r]
                              ELSE [o \in Ranks |-> Payload(o, 0)]]
ImplementsBarrier == Abs!AbsSpec
=============================================================================
