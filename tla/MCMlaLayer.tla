------------------------------ MODULE MCMlaLayer ------------------------------
(* Three parts of a layer's call that share no state, one in each behaviour: *)
(* the dispatch of a batch (sizes: MCPrefillDispatch), the workspaces, and   *)
(* the vote on a channel (one rank to raise, one to fail, one to adopt).     *)
(* The parts that do not run stay in one initial state.                      *)
(*                                                                           *)
(* The deployed workspaces are divided by about 700: a synchronous gather of *)
(* a full batch takes two chunks, a double-buffered one three, so that the   *)
(* third reuses the first one's slot.                                        *)
EXTENDS MCPrefillDispatch, LayerWorkspace

CONSTANTS r1, r2, r3, MaxSends

Voters == {r1, r2, r3}

Q(n) == [route |-> "query", rows |-> n]
P(n) == [route |-> "packed", rows |-> n]

\* Long, short and again long calls, and the packed route in between.
Steps == {<<Q(5), Q(2)>>, <<Q(3), P(2), Q(5)>>, <<P(5), P(3)>>}

VARIABLES part, flavour, voting, built, open, vote, raised, cached, uses, done

Vote == INSTANCE ChannelVote WITH Ranks <- Voters, MaxChunks <- MaxSends, pc <- voting

voteVars  == <<flavour, voting, built, open, vote, raised, cached, uses, done>>
layerVars == <<part, vars, workspaceVars, voteVars>>

-----------------------------------------------------------------------------
LayerInit ==
  /\ part \in {"dispatch", "workspace", "vote"}
  /\ IF part = "dispatch" THEN given \in Batches /\ config \in Configs
     ELSE given = (CHOOSE b \in Batches : TRUE) /\ config = (CHOOSE c \in Configs : TRUE)
  /\ capturing \in IF part = "dispatch" THEN BOOLEAN ELSE {FALSE}
  /\ IF part = "workspace" THEN mode \in Modes /\ program \in Programs
     ELSE mode = (CHOOSE m \in Modes : TRUE) /\ program = (CHOOSE p \in Programs : TRUE)
  /\ flavour \in IF part = "vote" THEN {"rs", "ckv"} ELSE {"rs"}
  /\ Init /\ WorkspaceInit /\ Vote!Init

DispatchOnly  == part = "dispatch" /\ UNCHANGED <<part, workspaceVars, voteVars>>
WorkspaceOnly == part = "workspace" /\ UNCHANGED <<part, vars, voteVars>>
VoteOnly      == part = "vote" /\ UNCHANGED <<part, vars, workspaceVars>>

DispatchNext ==
  \/ DispatchOnly /\ Order
  \/ DispatchOnly /\ Build
  \/ DispatchOnly /\ Dispatch
  \/ DispatchOnly /\ Done

MainNext(r) ==
  \/ WorkspaceOnly /\ Enter(r)
  \/ WorkspaceOnly /\ Stage(r)
  \/ WorkspaceOnly /\ Place(r)
  \/ WorkspaceOnly /\ Attend(r)
  \/ WorkspaceOnly /\ Transpose(r)
  \/ WorkspaceOnly /\ Project(r)
  \/ WorkspaceOnly /\ Correct(r)
  \/ WorkspaceOnly /\ Reduce(r)
  \/ WorkspaceOnly /\ Pack(r)
  \/ WorkspaceOnly /\ AttendPacked(r)
  \/ WorkspaceOnly /\ Store(r)
CommNext(r) ==
  \/ WorkspaceOnly /\ GatherStart(r)
  \/ WorkspaceOnly /\ GatherFinish(r)

VoteNext(r) ==
  \/ VoteOnly /\ Vote!Construct(r)
  \/ VoteOnly /\ Vote!CastVote(r)
  \/ VoteOnly /\ Vote!Adopt(r)
  \/ VoteOnly /\ Vote!OutVoted(r)
  \/ VoteOnly /\ Vote!EnterChunk(r)
  \/ VoteOnly /\ Vote!FinishChunk(r)

LayerNext ==
  \/ DispatchNext
  \/ \E r \in Ranks : MainNext(r) \/ CommNext(r)
  \/ WorkspaceOnly /\ Drained
  \/ \E r \in Voters : VoteNext(r)
  \/ \E r \in Voters : VoteOnly /\ Vote!VoteRaised(r)

\* Each part with the fairness of its own specification.
LayerSpec ==
  /\ LayerInit /\ [][LayerNext]_layerVars
  /\ WF_layerVars(DispatchNext)
  /\ \A r \in Ranks : WF_layerVars(MainNext(r)) /\ WF_layerVars(CommNext(r))
  /\ \A r \in Voters : WF_layerVars(VoteNext(r))

-----------------------------------------------------------------------------
(* The properties of the vote, and those an idle part does not satisfy.      *)

\* Every batch is ordered, built and dispatched (or refused).
BatchDispatched == part = "dispatch" => Dispatched

\* A mixed collective needs a rank whose own vote has raised.
SplitOnlyByRaise == Vote!SplitOnlyByRaise

\* A rank in the ring has the slabs of every peer whose own vote has not raised.
SlabsOutliveUse == Vote!SlabsOutliveUse

\* Unless a rank deserts it, the group comes to an end everywhere.
VoteSettles == part = "vote" => Vote!VoteSettles
=============================================================================
