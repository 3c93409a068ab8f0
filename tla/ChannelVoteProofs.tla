-------------------------- MODULE ChannelVoteProofs --------------------------
(***************************************************************************)
(* Proofs about ChannelVote for every group and number of chunks, whatever *)
(* raises.  A rank that goes on has decided by all votes, or its own vote  *)
(* has raised; and what the votes say when all are in does not change.     *)
(***************************************************************************)
EXTENDS ChannelVote, TLAPS

AllYes == \A s \in Ranks : vote[s] = "yes"

\* A rank votes once, for the channel it has, and keeps that until it decides.
VotesFixed ==
  \A r \in Ranks :
    /\ pc[r] \in {"construct", "vote"} => vote[r] = "none"
    /\ pc[r] \in {"vote", "voted"} => open[r] = built[r]
    /\ vote[r] = "yes" => built[r]

\* A rank that goes on with the channel has seen every vote agree and keeps its
\* slab; one that goes on without has seen a vote against it, or has raised.
DecidedByVote ==
  \A r \in Ranks : pc[r] = "ready" =>
    /\ cached[r] \in {"channel", "failed"}
    /\ cached[r] = "channel" => AllYes /\ open[r]
    /\ cached[r] = "failed" => raised[r] \/ (VoteComplete /\ ~AllYes)

\* Its chunks take what it has decided.
UsesByVote ==
  \A r \in Ranks :
    /\ uses[r] # <<>> => pc[r] = "ready"
    /\ \A i \in 1..Len(uses[r]) :
         uses[r][i] = IF cached[r] = "channel" THEN "ring" ELSE "nccl"

\* A rank whose vote raised is not in the vote any more.
RaisedLeft == \A r \in Ranks : raised[r] => pc[r] \in {"ready", "raised"} /\ cached[r] = "failed"

\* A rank gives its caller an exception only after its own vote, or a peer's,
\* went against the channel.
RaisedReason ==
  \A r \in Ranks : pc[r] = "raised" => raised[r] \/ (VoteComplete /\ ~AllYes)

VoteInv == VotesFixed /\ DecidedByVote /\ UsesByVote /\ RaisedLeft /\ RaisedReason

-----------------------------------------------------------------------------
LEMMA TypeInit == Init => TypeOK
  BY DEF Init, TypeOK

LEMMA TypeStep == TypeOK /\ [Next]_vars => TypeOK'
<1> SUFFICES ASSUME TypeOK, [Next]_vars PROVE TypeOK'
  OBVIOUS
<1> USE DEF TypeOK
<1>1. ASSUME NEW r \in Ranks, Construct(r) PROVE TypeOK'
  BY <1>1 DEF Construct
<1>2. ASSUME NEW r \in Ranks, CastVote(r) PROVE TypeOK'
  BY <1>2 DEF CastVote
<1>3. ASSUME NEW r \in Ranks, Adopt(r) PROVE TypeOK'
  BY <1>3 DEF Adopt
<1>4. ASSUME NEW r \in Ranks, OutVoted(r) \/ VoteRaised(r) PROVE TypeOK'
  BY <1>4 DEF OutVoted, VoteRaised, Discard
<1>5. ASSUME NEW r \in Ranks, EnterChunk(r) PROVE TypeOK'
  BY <1>5 DEF EnterChunk
<1>6. ASSUME NEW r \in Ranks, FinishChunk(r) PROVE TypeOK'
  BY <1>6 DEF FinishChunk
<1>7. CASE UNCHANGED vars
  BY <1>7 DEF vars
<1> QED
  BY <1>1, <1>2, <1>3, <1>4, <1>5, <1>6, <1>7 DEF Next, Progress

-----------------------------------------------------------------------------
LEMMA VoteInit == Init => VoteInv
  BY DEF Init, VoteInv, VotesFixed, DecidedByVote, UsesByVote, RaisedLeft, RaisedReason

\* While the votes stand, what they say stands.
LEMMA VotesSame ==
  ASSUME UNCHANGED vote
  PROVE  (AllYes' <=> AllYes) /\ (VoteComplete' <=> VoteComplete)
  BY DEF AllYes, VoteComplete

LEMMA VoteStep ==
  ASSUME TypeOK, VoteInv, [Next]_vars
  PROVE  VoteInv'
<1>0. VotesFixed /\ DecidedByVote /\ UsesByVote /\ RaisedLeft /\ RaisedReason
  BY DEF VoteInv
<1>1. ASSUME NEW r \in Ranks, Construct(r) PROVE VoteInv'
  <2>1. UNCHANGED <<vote, raised, cached, uses>> /\ pc' = [pc EXCEPT ![r] = "vote"]
        /\ pc[r] = "construct"
    BY <1>1 DEF Construct
  <2>2. VotesFixed'
    BY <1>0, <1>1, <2>1 DEF VotesFixed, Construct, TypeOK
  <2>3. DecidedByVote' /\ UsesByVote' /\ RaisedLeft' /\ RaisedReason'
    BY <1>0, <1>1, <2>1, VotesSame
       DEF DecidedByVote, UsesByVote, RaisedLeft, RaisedReason, Construct, TypeOK
  <2> QED BY <2>2, <2>3 DEF VoteInv
<1>2. ASSUME NEW r \in Ranks, CastVote(r) PROVE VoteInv'
  <2>1. vote[r] = "none" /\ ~VoteComplete /\ ~AllYes /\ pc' = [pc EXCEPT ![r] = "voted"]
        /\ UNCHANGED <<built, open, raised, cached, uses>> /\ pc[r] = "vote"
    BY <1>0, <1>2 DEF CastVote, VotesFixed, VoteComplete, AllYes
  <2>2. VotesFixed'
    BY <1>0, <1>2, <2>1 DEF VotesFixed, CastVote, TypeOK
  <2>3. DecidedByVote'
    BY <1>0, <2>1 DEF DecidedByVote, TypeOK
  <2>4. UsesByVote' /\ RaisedLeft' /\ RaisedReason'
    BY <1>0, <2>1 DEF UsesByVote, RaisedLeft, RaisedReason, TypeOK
  <2> QED BY <2>2, <2>3, <2>4 DEF VoteInv
<1>3. ASSUME NEW r \in Ranks, Adopt(r) PROVE VoteInv'
  <2>1. UNCHANGED <<built, open, vote, raised, uses>> /\ pc' = [pc EXCEPT ![r] = "ready"]
        /\ pc[r] = "voted" /\ VoteComplete /\ AllYes
        /\ cached' = [cached EXCEPT ![r] = "channel"]
    BY <1>3 DEF Adopt, Agreed, AllYes
  <2>2. VotesFixed'
    BY <1>0, <2>1 DEF VotesFixed, TypeOK
  <2>3. open[r] /\ ~raised[r] /\ uses[r] = <<>>
    BY <1>0, <2>1 DEF VotesFixed, AllYes, RaisedLeft, UsesByVote
  <2>4. DecidedByVote'
    BY <1>0, <2>1, <2>3, VotesSame DEF DecidedByVote, TypeOK
  <2>5. UsesByVote' /\ RaisedLeft' /\ RaisedReason'
    BY <1>0, <2>1, <2>3, VotesSame DEF UsesByVote, RaisedLeft, RaisedReason, TypeOK
  <2> QED BY <2>2, <2>4, <2>5 DEF VoteInv
<1>4. ASSUME NEW r \in Ranks, Discard(r), pc[r] \in {"vote", "voted"},
             \/ UNCHANGED raised /\ VoteComplete /\ ~AllYes
             \/ raised' = [raised EXCEPT ![r] = TRUE]
      PROVE  VoteInv'
  <2>1. UNCHANGED <<built, vote, uses>> /\ open' = [open EXCEPT ![r] = FALSE]
        /\ cached' = [cached EXCEPT ![r] = "failed"]
        /\ pc' = [pc EXCEPT ![r] = IF flavour = "rs" THEN "ready" ELSE "raised"]
    BY <1>4 DEF Discard
  <2>2. VotesFixed'
    BY <1>0, <2>1 DEF VotesFixed, TypeOK
  <2>3. uses[r] = <<>>
    BY <1>0, <1>4 DEF UsesByVote
  <2>4. \A s \in Ranks : raised[s] => raised'[s]
    BY <1>4 DEF TypeOK
  <2>5. raised'[r] \/ (VoteComplete /\ ~AllYes)
    BY <1>4 DEF TypeOK
  <2>6. \A s \in Ranks : s # r => raised'[s] = raised[s]
    BY <1>4 DEF TypeOK
  <2>7. DecidedByVote'
    BY <1>0, <2>1, <2>4, <2>5, VotesSame DEF DecidedByVote, TypeOK
  <2>8. RaisedReason'
    BY <1>0, <2>1, <2>4, <2>5, VotesSame DEF RaisedReason, TypeOK
  <2>9. UsesByVote' /\ RaisedLeft'
    BY <1>0, <2>1, <2>3, <2>6 DEF UsesByVote, RaisedLeft, TypeOK
  <2> QED BY <2>2, <2>7, <2>8, <2>9 DEF VoteInv
<1>5. ASSUME NEW r \in Ranks, EnterChunk(r) PROVE VoteInv'
  <2>1. UNCHANGED <<pc, built, open, vote, raised, cached>> /\ pc[r] = "ready"
        /\ uses' = [uses EXCEPT ![r] = Append(@, IF cached[r] = "channel" THEN "ring" ELSE "nccl")]
    BY <1>5 DEF EnterChunk
  <2>2. VotesFixed' /\ DecidedByVote' /\ RaisedLeft' /\ RaisedReason'
    BY <1>0, <2>1, VotesSame DEF VotesFixed, DecidedByVote, RaisedLeft, RaisedReason
  <2>3. ASSUME NEW s \in Ranks, NEW i \in 1..Len(uses'[s])
        PROVE  uses'[s][i] = IF cached[s] = "channel" THEN "ring" ELSE "nccl"
    <3>1. CASE s = r /\ i = Len(uses[r]) + 1
      BY <2>1, <3>1 DEF TypeOK
    <3>2. CASE ~(s = r /\ i = Len(uses[r]) + 1)
      <4>1. i \in 1..Len(uses[s]) /\ uses'[s][i] = uses[s][i]
        BY <2>1, <2>3, <3>2 DEF TypeOK
      <4> QED BY <1>0, <4>1 DEF UsesByVote
    <3> QED BY <3>1, <3>2
  <2>4. UsesByVote'
    BY <1>0, <2>1, <2>3 DEF UsesByVote, TypeOK
  <2> QED BY <2>2, <2>4 DEF VoteInv
<1>6. ASSUME UNCHANGED <<pc, built, open, vote, raised, cached, uses>> PROVE VoteInv'
  BY <1>0, <1>6, VotesSame
     DEF VoteInv, VotesFixed, DecidedByVote, UsesByVote, RaisedLeft, RaisedReason
<1>7. ASSUME NEW r \in Ranks, OutVoted(r) PROVE VoteInv'
  BY <1>4, <1>7 DEF OutVoted, Agreed, AllYes
<1>8. ASSUME NEW r \in Ranks, VoteRaised(r) PROVE VoteInv'
  BY <1>4, <1>8 DEF VoteRaised
<1>9. ASSUME NEW r \in Ranks, FinishChunk(r) PROVE VoteInv'
  BY <1>6, <1>9 DEF FinishChunk
<1>10. CASE UNCHANGED vars
  BY <1>6, <1>10 DEF vars
<1> QED
  BY <1>1, <1>2, <1>3, <1>5, <1>7, <1>8, <1>9, <1>10 DEF Next, Progress

-----------------------------------------------------------------------------
\* Every variable keeps its type.
THEOREM TypeCorrect == Spec => []TypeOK
  BY TypeInit, TypeStep, PTL DEF Spec

\* A rank that goes on has decided by the votes of all, or its own vote raised.
THEOREM VoteInvariant == Spec => []VoteInv
<1>1. TypeOK /\ VoteInv /\ [Next]_vars => VoteInv'
  BY VoteStep
<1> QED BY <1>1, TypeInit, TypeStep, VoteInit, PTL DEF Spec

\* Where a chunk is split over both transports, every rank on NCCL has raised in
\* its own vote.
THEOREM SplitsNeedARaise == Spec => []SplitOnlyByRaise
<1>1. VoteInv => SplitOnlyByRaise
  <2> SUFFICES ASSUME VoteInv, NEW r \in Ranks, NEW s \in Ranks, NEW i \in 1..Len(uses[r]),
                      i <= Len(uses[s]), uses[r][i] = "ring", uses[s][i] = "nccl"
               PROVE  raised[s]
    BY DEF SplitOnlyByRaise
  <2>1. uses[r] # <<>> /\ uses[s] # <<>> /\ i \in 1..Len(uses[s])
    OBVIOUS
  <2>2. pc[r] = "ready" /\ pc[s] = "ready" /\ cached[r] = "channel" /\ cached[s] # "channel"
    BY <2>1 DEF VoteInv, UsesByVote
  <2>3. AllYes
    BY <2>2 DEF VoteInv, DecidedByVote
  <2> QED BY <2>2, <2>3 DEF VoteInv, DecidedByVote
<1> QED BY <1>1, VoteInvariant, PTL

\* As long as no vote raises, no two ranks take a chunk over different transports.
THEOREM DecisionIsTheGroups == Spec => []((\A r \in Ranks : ~raised[r]) => GroupDecision)
<1>1. VoteInv => ((\A r \in Ranks : ~raised[r]) => GroupDecision)
  <2> SUFFICES ASSUME VoteInv, \A r \in Ranks : ~raised[r], NEW r \in Ranks, NEW s \in Ranks,
                      NEW i \in 1..Len(uses[r]), i <= Len(uses[s])
               PROVE  uses[r][i] = uses[s][i]
    BY DEF GroupDecision
  <2>1. uses[r] # <<>> /\ uses[s] # <<>> /\ i \in 1..Len(uses[s])
    OBVIOUS
  <2>2. pc[r] = "ready" /\ pc[s] = "ready"
    BY <2>1 DEF VoteInv, UsesByVote
  <2>3. cached[r] = "channel" <=> cached[s] = "channel"
    BY <2>2 DEF VoteInv, DecidedByVote
  <2> QED BY <2>1, <2>3 DEF VoteInv, UsesByVote
<1> QED BY <1>1, VoteInvariant, PTL

\* A rank in a ring collective has the slabs of all peers whose vote has not raised.
THEOREM SlabsAreThere == Spec => []SlabsOutliveUse
<1>1. TypeOK /\ VoteInv => SlabsOutliveUse
  <2> SUFFICES ASSUME TypeOK, VoteInv, NEW r \in Ranks, Len(uses[r]) > done[r],
                      uses[r][Len(uses[r])] = "ring", NEW s \in Ranks, ~raised[s]
               PROVE  open[s]
    BY DEF SlabsOutliveUse
  <2>1. Len(uses[r]) \in 1..Len(uses[r]) /\ uses[r] # <<>>
    BY DEF TypeOK
  <2>2. pc[r] = "ready" /\ cached[r] = "channel"
    BY <2>1 DEF VoteInv, UsesByVote
  <2>3. AllYes
    BY <2>2 DEF VoteInv, DecidedByVote
  <2>4. pc[s] \in {"voted", "ready"} /\ built[s]
    BY <2>3 DEF AllYes, VoteInv, VotesFixed, RaisedReason, TypeOK
  <2>5. CASE pc[s] = "voted"
    BY <2>4, <2>5 DEF VoteInv, VotesFixed
  <2>6. CASE pc[s] = "ready"
    BY <2>3, <2>6 DEF VoteInv, DecidedByVote
  <2> QED BY <2>4, <2>5, <2>6
<1> QED BY <1>1, TypeCorrect, VoteInvariant, PTL

=============================================================================
