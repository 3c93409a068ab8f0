----------------------------- MODULE ChannelVote -----------------------------
(***************************************************************************)
(* The two lazily built communicators: the reduce-scatter ring of the DCP  *)
(* output (_get_dcp_rs_ring, "rs") and the packed-CKV byte all-gather      *)
(* (_get_ckv_all_gather, "ckv").  Both construct a channel on every rank,  *)
(* take a MIN vote on it, and cache the outcome for the process.  They     *)
(* differ in what a rank does that does not see the vote agreed, be it by  *)
(* the vote or by an exception of its own: the ring falls back to NCCL,    *)
(* the all-gather raises.                                                  *)
(***************************************************************************)
EXTENDS Integers, Sequences

CONSTANTS
  Ranks,     \* the DCP group
  MaxChunks  \* chunks each rank sends (bounds the model)

VARIABLES
  flavour,  \* the communicator of this run
  pc,       \* pc[r]: "construct", "vote", "voted", "ready", "raised"
  built,    \* built[r]: the constructor has returned a channel
  open,     \* open[r]: the slab of r is allocated
  vote,     \* vote[r]: what r has put into the MIN reduction, or "none"
  raised,   \* raised[r]: the vote itself has raised on r (a line in its log)
  cached,   \* cached[r]: the singleton: "empty", "channel" or "failed"
  uses,     \* uses[r]: the transports r has entered, chunk by chunk
  done      \* done[r]: chunks r has finished

vars == <<flavour, pc, built, open, vote, raised, cached, uses, done>>

TypeOK ==
  /\ flavour \in {"rs", "ckv"}
  /\ pc     \in [Ranks -> {"construct", "vote", "voted", "ready", "raised"}]
  /\ built  \in [Ranks -> BOOLEAN]
  /\ open   \in [Ranks -> BOOLEAN]
  /\ vote   \in [Ranks -> {"none", "yes", "no"}]
  /\ raised \in [Ranks -> BOOLEAN]
  /\ cached \in [Ranks -> {"empty", "channel", "failed"}]
  /\ uses   \in [Ranks -> Seq({"ring", "nccl"})]
  /\ done   \in [Ranks -> Nat]

Init ==
  /\ flavour \in {"rs", "ckv"}
  /\ pc     = [r \in Ranks |-> "construct"]
  /\ built  = [r \in Ranks |-> FALSE]
  /\ open   = built /\ raised = built
  /\ vote   = [r \in Ranks |-> "none"]
  /\ cached = [r \in Ranks |-> "empty"]
  /\ uses   = [r \in Ranks |-> <<>>]
  /\ done   = [r \in Ranks |-> 0]

-----------------------------------------------------------------------------
\* Local init: the constructor returns a channel or its exception is logged.
Construct(r) ==
  /\ pc[r] = "construct"
  /\ \E ok \in BOOLEAN : /\ built' = [built EXCEPT ![r] = ok]
                         /\ open'  = [open EXCEPT ![r] = ok]
  /\ pc' = [pc EXCEPT ![r] = "vote"]
  /\ UNCHANGED <<flavour, vote, raised, cached, uses, done>>

CastVote(r) ==
  /\ pc[r] = "vote"
  /\ vote' = [vote EXCEPT ![r] = IF built[r] THEN "yes" ELSE "no"]
  /\ pc' = [pc EXCEPT ![r] = "voted"]
  /\ UNCHANGED <<flavour, built, open, raised, cached, uses, done>>

\* Faulty variant: a rank that has a channel does not look at the vote.
AgreedAlone(r) == vote[r] = "yes"

\* The reduction has every rank's vote, and their minimum is 1.
Agreed(r) == \A s \in Ranks : vote[s] = "yes"

VoteComplete == \A s \in Ranks : vote[s] # "none"

Adopt(r) ==
  /\ pc[r] = "voted" /\ VoteComplete /\ Agreed(r)
  /\ cached' = [cached EXCEPT ![r] = "channel"]
  /\ pc' = [pc EXCEPT ![r] = "ready"]
  /\ UNCHANGED <<flavour, built, open, vote, raised, uses, done>>

\* Close the channel and remember the failure; then fall back, or raise.
Discard(r) ==
  /\ open'   = [open EXCEPT ![r] = FALSE]
  /\ cached' = [cached EXCEPT ![r] = "failed"]
  /\ pc' = [pc EXCEPT ![r] = IF flavour = "rs" THEN "ready" ELSE "raised"]
  /\ UNCHANGED <<flavour, built, vote, uses, done>>

OutVoted(r) == pc[r] = "voted" /\ VoteComplete /\ ~Agreed(r) /\ Discard(r) /\ UNCHANGED raised

\* The vote tensor, the reduction or the read of its result raises: the rank
\* logs that and takes it for "not agreed", whatever its peers see.
VoteRaised(r) ==
  /\ pc[r] \in {"vote", "voted"}
  /\ Discard(r)
  /\ raised' = [raised EXCEPT ![r] = TRUE]

-----------------------------------------------------------------------------

\* A chunk takes the transport the singleton says, without a new vote.
EnterChunk(r) ==
  /\ pc[r] = "ready" /\ Len(uses[r]) < MaxChunks
  /\ done[r] = Len(uses[r])
  /\ uses' = [uses EXCEPT ![r] = Append(@, IF cached[r] = "channel" THEN "ring" ELSE "nccl")]
  /\ UNCHANGED <<flavour, pc, built, open, vote, raised, cached, done>>

\* A collective returns once every rank has entered it, on the same transport.
FinishChunk(r) ==
  LET n == done[r] + 1 IN
  /\ n <= Len(uses[r])
  /\ \A s \in Ranks : n <= Len(uses[s]) /\ uses[s][n] = uses[r][n]
  /\ done' = [done EXCEPT ![r] = n]
  /\ UNCHANGED <<flavour, pc, built, open, vote, raised, cached, uses>>

-----------------------------------------------------------------------------
Progress(r) ==
  \/ Construct(r) \/ CastVote(r) \/ Adopt(r) \/ OutVoted(r)
  \/ EnterChunk(r) \/ FinishChunk(r)

Next == \E r \in Ranks : Progress(r) \/ VoteRaised(r)

Spec == Init /\ [][Next]_vars

\* Every rank is a process that runs on; an exception need not happen.
FairSpec == Spec /\ \A r \in Ranks : WF_vars(Progress(r))

-----------------------------------------------------------------------------
(* Properties.                                                             *)

\* "ring-vs-NCCL must be a GROUP decision": no two ranks take a chunk over
\* different transports.  (The code does not keep this: a rank whose vote raises
\* falls back alone.)
GroupDecision ==
  \A r, s \in Ranks : \A i \in 1..Len(uses[r]) :
    i <= Len(uses[s]) => uses[r][i] = uses[s][i]

\* That is the only way to a mixed collective: a rank that takes a chunk over
\* NCCL while a peer takes it over the ring is one whose own vote has raised.  No
\* failure to build a channel, on any ranks and at any time, splits the group.
SplitOnlyByRaise ==
  \A r, s \in Ranks : \A i \in 1..Len(uses[r]) :
    i <= Len(uses[s]) /\ uses[r][i] = "ring" /\ uses[s][i] = "nccl" => raised[s]

\* A rank in the ring has the slabs of its peers: the losers of a vote destroy
\* theirs only when nobody uses the ring, and a slab that is not there belongs to
\* a rank whose own vote has raised.
SlabsOutliveUse ==
  \A r \in Ranks : Len(uses[r]) > done[r] /\ uses[r][Len(uses[r])] = "ring" =>
    \A s \in Ranks : open[s] \/ raised[s]

\* Some ranks have left the others alone: their votes raised before they were
\* cast, or although the group agreed, and somebody is there to wait for them.
Deserted ==
  /\ \E r \in Ranks : raised[r] /\ (vote[r] = "none" \/ Agreed(r))
  /\ \E r \in Ranks : ~raised[r]

\* Unless that happens, the group comes to an end everywhere: each rank has
\* raised to its caller, or has finished every chunk.  Nobody waits in a
\* collective that a peer replaced by another, or never reaches.
VoteSettles ==
  <>(\/ Deserted
     \/ \A r \in Ranks : pc[r] = "raised" \/ (pc[r] = "ready" /\ done[r] = MaxChunks))
=============================================================================
