--------------------------- MODULE LayerWorkspace ---------------------------
(***************************************************************************)
(* The two borrowed workspaces of a sparse-MLA layer and what the large    *)
(* prefill routes keep in them: on the query route the chunks of the query *)
(* gather, the global query, the attention output, the projection's input  *)
(* and output and the reduce-scatter's output; on the packed-CKV route the *)
(* packed payload, the gathered records, the local query and the same      *)
(* projection.  Each use begins where the one before it is dead.           *)
(*                                                                         *)
(* A rank is two in-order streams: main, and the communication stream of   *)
(* the DCP process group, which runs the query gathers.  A gather starts   *)
(* after what main had enqueued when it was issued; main goes on until it  *)
(* waits for the gather.  The other collectives run on the main stream.    *)
(*                                                                         *)
(* One cell of a workspace holds one rank's heads of one token.  (The head *)
(* dimension shrinks from 576 to 512 to 256 on the way, so every layout    *)
(* below is a prefix of the code's.)                                       *)
(***************************************************************************)
EXTENDS Integers, Sequences, DcpGroup

CONSTANTS
  MaxBatched, \* rows of the query workspace (_max_batched)
  Capacity,   \* rows of all ranks that fit in the scratch prefix (chunk_capacity)
  Fp8Rows,    \* rows of an FP8 chunk (fp8_slot_capacity)
  Modes,      \* how the process gathers queries: "sync", "async", "fp8"
  Programs    \* the calls a step may make, the same on every rank

ASSUME SizesAssumption ==
  /\ MaxBatched \in Nat /\ Fp8Rows \in 1..Capacity
  /\ Capacity \in 2..MaxBatched
ASSUME ModesAssumption == Modes \subseteq {"sync", "async", "fp8"}
ASSUME ProgramsAssumption ==
  Programs \subseteq Seq([route : {"query", "packed"}, rows : 1..MaxBatched])

QueryCells   == 0..MaxBatched*W-1
\* The local query, or the scratch prefix; then the 16-head attention's scratch.
CkvOffset    == MaxBatched * W
ScratchCells == 0..CkvOffset + MaxBatched - 1

Dead == <<"dead">>
\* The heads of rank s of token t in call c; "fp8" if they went over the wire
\* quantized.
Query(s, t, c, wire) == <<"query", s, t, c, wire>>
Record(o, i, c)      == <<"record", o, i, c>>
Hole(o, c)           == <<"hole", o, c>>
\* Attention of rank r over its own records, and over all gathered records.
Partial(r, q)        == <<"partial", r, q>>
Corrected(x)         == <<"corrected", x>>
Full(records, holes, q) == <<"full", records, holes, q>>
Projected(x)         == <<"projected", x>>
Merged(xs)           == <<"merged", xs>>

VARIABLES
  mode,      \* the gather mode of this run
  program,   \* the calls of this run
  call,      \* call[r]: index of the current (or last) call of r
  doing,     \* doing[r]: what the main stream of r does next
  staged,    \* staged[r]: chunks main has staged, their gathers issued
  started,   \* started[r]: gathers the communication stream has started
  finished,  \* finished[r]: gathers it has finished
  placed,    \* placed[r]: chunks main has copied to the query workspace
  gathers,   \* gathers[r]: what r has sent in each gather, in order of all calls
  entered,   \* entered[r]: what r has put into each collective of its main stream
  query,     \* query[r]: the query workspace
  scratch,   \* scratch[r]: the scratch workspace
  staging,   \* staging[r]: _fp8_staging_pool
  output     \* output[r]: the durable output of the last call

comm          == <<started, finished, gathers>>
memory        == <<query, scratch, staging, output>>
workspaceVars == <<mode, program, call, doing, staged, placed, comm, entered, memory>>

\* Tokens of call c and its route; those of the call r is in.
Tokens(c)   == program[c].rows
IsQuery(c)  == program[c].route = "query"
CallRows(r) == Tokens(call[r])

-----------------------------------------------------------------------------
(* Chunks.                                                                 *)

\* Chunks in flight: two scratch slots in async mode, else one.
Depth == IF mode = "async" THEN 2 ELSE 1

\* Faulty variant: each rank sizes its chunks by its own rank.
ChunkRowsSkewed(r) == IF r = 0 THEN Capacity ELSE Capacity \div 2

\* slot_capacity of the modes; r is unused, the value is the same everywhere.
ChunkRows(r) ==
  CASE mode = "sync" -> Capacity
    [] mode = "async" -> Capacity \div 2
    [] mode = "fp8" -> Fp8Rows

Start(r, k)  == k * ChunkRows(r)
Size(r, k)   == IF CallRows(r) - Start(r, k) < ChunkRows(r) THEN CallRows(r) - Start(r, k)
                ELSE ChunkRows(r)
Chunks(r)    == (CallRows(r) + ChunkRows(r) - 1) \div ChunkRows(r)

\* Faulty variant: both chunks in flight share a slot.
SlotAtSame(r, k) == 0

\* Where the gathered chunk k lies in the scratch.
SlotAt(r, k) == (k % Depth) * ChunkRows(r) * W
SlotCells(r, k) == SlotAt(r, k)..SlotAt(r, k) + Size(r, k) * W - 1

\* Faulty variant: the offset counts local rows, not rows of all ranks.
StageAtLocal(r, k) == Start(r, k)

\* Where the local rows of chunk k wait for their gather: at the start of the
\* rows of the query workspace that the gathered chunk will fill.
StageAt(r, k) == Start(r, k) * W
StageCells(r, k) == IF mode = "fp8" THEN {} ELSE StageAt(r, k)..StageAt(r, k) + Size(r, k) - 1
PlaceCells(r, k) == Start(r, k) * W..(Start(r, k) + Size(r, k)) * W - 1

\* mem with n cells from `base' on replaced by those of block.
Put(mem, base, n, block) ==
  [i \in DOMAIN mem |-> IF base <= i /\ i < base + n THEN block[i - base] ELSE mem[i]]

-----------------------------------------------------------------------------
WorkspaceInit ==
  /\ mode \in Modes
  /\ program \in Programs
  /\ call     = [r \in Ranks |-> 0]
  /\ doing    = [r \in Ranks |-> "idle"]
  /\ staged   = call /\ started = call /\ finished = call /\ placed = call
  /\ gathers  = [r \in Ranks |-> <<>>]
  /\ entered  = gathers
  /\ query    = [r \in Ranks |-> [i \in QueryCells |-> Dead]]
  /\ scratch  = [r \in Ranks |-> [i \in ScratchCells |-> Dead]]
  /\ staging  = gathers
  /\ output   = gathers

Enter(r) ==
  /\ doing[r] = "idle" /\ call[r] < Len(program)
  /\ call'     = [call EXCEPT ![r] = @ + 1]
  /\ doing'    = [doing EXCEPT ![r] =
                    IF IsQuery(call[r] + 1) THEN "gather" ELSE "pack"]
  /\ staged'   = [staged EXCEPT ![r] = 0]
  /\ started'  = [started EXCEPT ![r] = 0]
  /\ finished' = [finished EXCEPT ![r] = 0]
  /\ placed'   = [placed EXCEPT ![r] = 0]
  /\ UNCHANGED <<mode, program, gathers, entered, memory>>

-----------------------------------------------------------------------------
(* The query gather: main stages chunk k and issues its gather, and copies *)
(* out chunk k (async: chunk k-1) once its gather is over.                 *)

MayStage(r) == doing[r] = "gather" /\ staged[r] < Chunks(r) /\ staged[r] - placed[r] < Depth

MayPlace(r) ==
  /\ doing[r] = "gather" /\ placed[r] < staged[r]
  /\ staged[r] - placed[r] = Depth \/ staged[r] = Chunks(r)
  /\ finished[r] > placed[r]

\* concat_mla_q into the query workspace, or dma_quant into the staging pool.
Stage(r) ==
  LET k == staged[r]
      rows == [i \in 0..Size(r, k)-1 |->
                 Query(r, Start(r, k) + i, call[r], IF mode = "fp8" THEN "fp8" ELSE "exact")]
  IN
  /\ MayStage(r)
  /\ IF mode = "fp8"
     THEN staging' = [staging EXCEPT ![r] = rows] /\ UNCHANGED query
     ELSE /\ query' = [query EXCEPT ![r] = Put(@, StageAt(r, k), Size(r, k), rows)]
          /\ UNCHANGED staging
  /\ staged' = [staged EXCEPT ![r] = k + 1]
  /\ UNCHANGED <<mode, program, call, doing, placed, comm, entered, scratch, output>>

\* The gather reads the local rows while it runs; nothing else may write them.
GatherStart(r) ==
  LET k == started[r] IN
  /\ k < staged[r]
  /\ started[r] = finished[r]
  /\ gathers' = [gathers EXCEPT ![r] = Append(@,
       IF mode = "fp8" THEN staging[r]
       ELSE [i \in 0..Size(r, k)-1 |-> query[r][StageAt(r, k) + i]])]
  /\ started' = [started EXCEPT ![r] = k + 1]
  /\ UNCHANGED <<mode, program, call, doing, staged, finished, placed, entered, memory>>

\* The collective is over: every rank has started it.
GatherFinish(r) ==
  LET k == finished[r]
      n == Len(gathers[r])
      block == [i \in 0..Size(r, k)*W-1 |-> gathers[i \div Size(r, k)][n][i % Size(r, k)]]
  IN
  /\ k < started[r]
  /\ \A s \in Ranks : Len(gathers[s]) >= n /\ DOMAIN gathers[s][n] = 0..Size(r, k)-1
  /\ scratch' = [scratch EXCEPT ![r] = Put(@, SlotAt(r, k), Size(r, k) * W, block)]
  /\ finished' = [finished EXCEPT ![r] = k + 1]
  /\ UNCHANGED <<mode, program, call, doing, staged, started, placed, gathers, entered>>
  /\ UNCHANGED <<query, staging, output>>

\* The rank-major copies (FP8: from the exact local rows for the own heads,
\* dequantized for the others).
Place(r) ==
  LET k == placed[r]
      Cell(s, t) == IF mode = "fp8" /\ s = r THEN Query(r, Start(r, k) + t, call[r], "exact")
                    ELSE scratch[r][SlotAt(r, k) + s * Size(r, k) + t]
      block == [i \in 0..Size(r, k)*W-1 |-> Cell(i % W, i \div W)]
  IN
  /\ MayPlace(r)
  /\ query' = [query EXCEPT ![r] = Put(@, Start(r, k) * W, Size(r, k) * W, block)]
  /\ placed' = [placed EXCEPT ![r] = k + 1]
  /\ doing' = [doing EXCEPT ![r] = IF k + 1 = Chunks(r) THEN "attend" ELSE "gather"]
  /\ UNCHANGED <<mode, program, call, staged, comm, entered, scratch, staging, output>>

-----------------------------------------------------------------------------
(* The rest of the query route.                                            *)

Goto(r, next) ==
  doing' = [doing EXCEPT ![r] = next] /\ UNCHANGED <<mode, program, call, staged, placed, comm>>

\* forward_mqa finds the query in place and writes its output over the slots.
Attend(r) ==
  LET out == [i \in 0..CallRows(r)*W-1 |-> Partial(r, query[r][i])] IN
  /\ doing[r] = "attend"
  /\ scratch' = [scratch EXCEPT ![r] = Put(@, 0, CallRows(r) * W, out)]
  /\ Goto(r, "transpose")
  /\ UNCHANGED <<entered, query, staging, output>>

\* The projection's input, head-major, over the dead query.
Transpose(r) ==
  LET T == CallRows(r)
      block == [i \in 0..T*W-1 |-> scratch[r][(i % T) * W + i \div T]]
  IN
  /\ doing[r] = "transpose"
  /\ query' = [query EXCEPT ![r] = Put(@, 0, T * W, block)]
  /\ Goto(r, "project")
  /\ UNCHANGED <<entered, scratch, staging, output>>

\* The projection, over the dead attention output; then r enters the gather of
\* the LSEs.
Project(r) ==
  LET block == [i \in 0..CallRows(r)*W-1 |-> Projected(query[r][i])] IN
  /\ doing[r] = "project"
  /\ scratch' = [scratch EXCEPT ![r] = Put(@, 0, CallRows(r) * W, block)]
  /\ entered' = [entered EXCEPT ![r] = Append(@, <<"lse">>)]
  /\ Goto(r, "correct")
  /\ UNCHANGED <<query, staging, output>>

\* Every rank has entered the collective r waits in.
EveryoneIn(r) == \A s \in Ranks : Len(entered[s]) >= Len(entered[r])
Sent(o, r)    == entered[o][Len(entered[r])]

\* The correction in place, and the entry of the reduce-scatter.
Correct(r) ==
  LET block == [i \in 0..CallRows(r)*W-1 |-> Corrected(scratch[r][i])] IN
  /\ doing[r] = "correct" /\ EveryoneIn(r)
  /\ scratch' = [scratch EXCEPT ![r] = Put(@, 0, CallRows(r) * W, block)]
  /\ entered' = [entered EXCEPT ![r] = Append(@, block)]
  /\ Goto(r, "reduce")
  /\ UNCHANGED <<query, staging, output>>

\* The reduced heads of the rank, over the dead projection input.
Reduce(r) ==
  LET block == [i \in 0..CallRows(r)-1 |->
                  Merged({Sent(o, r)[r * CallRows(r) + i] : o \in Ranks})] IN
  /\ doing[r] = "reduce" /\ EveryoneIn(r)
  /\ query' = [query EXCEPT ![r] = Put(@, 0, CallRows(r), block)]
  /\ Goto(r, "store")
  /\ UNCHANGED <<entered, scratch, staging, output>>

-----------------------------------------------------------------------------
(* The packed-CKV route; see PackedCkv for what is packed and selected.    *)

\* As many records as rows, and their validity behind them.
Pack(r) ==
  LET payload == [i \in 0..CallRows(r) |->
                    IF i < CallRows(r) THEN Record(r, i, call[r]) ELSE Hole(r, call[r])] IN
  /\ doing[r] = "pack"
  /\ scratch' = [scratch EXCEPT ![r] = Put(@, 0, CallRows(r) + 1, payload)]
  /\ entered' = [entered EXCEPT ![r] = Append(@, payload)]
  /\ Goto(r, "packed")
  /\ UNCHANGED <<query, staging, output>>

\* Gathered records over the query workspace and holes behind the payload;
\* remap; then the local query over payload and holes; attention; projection
\* input over the records; projection over the local query.
AttendPacked(r) ==
  LET T == CallRows(r)
      records  == [i \in 0..T*W-1 |-> Sent(i \div T, r)[i % T]]
      holes    == [o \in Ranks |-> Sent(o, r)[T]]
      local    == [i \in 0..T-1 |-> Query(r, i, call[r], "exact")]
      gathered == Put(query[r], 0, T * W, records)
      valid    == Put(scratch[r], T + 1, W, holes)
      loaded   == Put(valid, 0, T, local)
      attended == [i \in 0..T-1 |-> Full({gathered[j] : j \in 0..T*W-1},
                                         {valid[T + 1 + o] : o \in Ranks}, loaded[i])]
      kept     == Put(loaded, CkvOffset, T, attended)
      input    == Put(gathered, 0, T, [i \in 0..T-1 |-> kept[CkvOffset + i]])
  IN
  /\ doing[r] = "packed" /\ EveryoneIn(r)
  /\ query'   = [query EXCEPT ![r] = input]
  /\ scratch' = [scratch EXCEPT ![r] = Put(kept, 0, T, [i \in 0..T-1 |-> Projected(input[i])])]
  /\ Goto(r, "storeLocal")
  /\ UNCHANGED <<entered, staging, output>>

\* The copy of the result to the layer's own output ends either route.
Store(r) ==
  /\ doing[r] \in {"store", "storeLocal"}
  /\ output' = [output EXCEPT ![r] =
       [t \in 1..CallRows(r) |-> IF doing[r] = "store" THEN query[r][t-1] ELSE scratch[r][t-1]]]
  /\ Goto(r, "idle")
  /\ UNCHANGED <<entered, query, scratch, staging>>

-----------------------------------------------------------------------------
MainStep(r) ==
  \/ Enter(r) \/ Stage(r) \/ Place(r) \/ Attend(r) \/ Transpose(r) \/ Project(r)
  \/ Correct(r) \/ Reduce(r) \/ Pack(r) \/ AttendPacked(r) \/ Store(r)
CommStep(r) == GatherStart(r) \/ GatherFinish(r)

Drained ==
  /\ \A r \in Ranks : doing[r] = "idle" /\ call[r] = Len(program)
  /\ UNCHANGED workspaceVars

WorkspaceNext == (\E r \in Ranks : MainStep(r) \/ CommStep(r)) \/ Drained

WorkspaceSpec == WorkspaceInit /\ [][WorkspaceNext]_workspaceVars

FairWorkspaceSpec ==
  WorkspaceSpec
  /\ \A r \in Ranks : WF_workspaceVars(MainStep(r)) /\ WF_workspaceVars(CommStep(r))

-----------------------------------------------------------------------------
(* Properties.                                                             *)

Doings == {"idle", "gather", "attend", "transpose", "project", "correct", "reduce", "store",
           "pack", "packed", "storeLocal"}

\* Every rank is somewhere in its calls, and no stream is ahead of the one before.
WorkspaceTypeOK ==
  /\ mode \in Modes /\ program \in Programs
  /\ doing \in [Ranks -> Doings]
  /\ call \in [Ranks -> 0..Len(program)]
  /\ staged \in [Ranks -> Nat] /\ started \in [Ranks -> Nat]
  /\ finished \in [Ranks -> Nat] /\ placed \in [Ranks -> Nat]
  /\ DOMAIN gathers = Ranks /\ DOMAIN entered = Ranks /\ DOMAIN output = Ranks
  /\ DOMAIN query = Ranks /\ DOMAIN scratch = Ranks /\ DOMAIN staging = Ranks
  /\ \A r \in Ranks :
       /\ 0 <= placed[r] /\ placed[r] <= finished[r] /\ finished[r] <= started[r]
       /\ started[r] <= finished[r] + 1 /\ started[r] <= staged[r]
       /\ DOMAIN query[r] = QueryCells /\ DOMAIN scratch[r] = ScratchCells

\* What rank o computed its partial for the heads of rank s from.
SeenBy(o, s, t, c) == Query(s, t, c, IF mode = "fp8" /\ o # s THEN "fp8" ELSE "exact")

\* What call c should leave for token t on rank r: its heads of that token and
\* that call, merged from every rank's partial, or over every rank's records.
ResultOf(r, c, t) ==
  IF IsQuery(c)
  THEN Merged({Corrected(Projected(Partial(o, SeenBy(o, r, t, c)))) : o \in Ranks})
  ELSE Projected(Full({Record(o, i, c) : o \in Ranks, i \in 0..Tokens(c)-1},
                      {Hole(o, c) : o \in Ranks}, Query(r, t, c, "exact")))

\* A call of either route leaves that in its output for every token.  Whatever
\* was in the workspaces before has no part in it.
OutputExact ==
  \A r \in Ranks :
    doing[r] = "idle" /\ call[r] > 0 =>
      output[r] = [t \in 1..CallRows(r) |-> ResultOf(r, call[r], t - 1)]

\* Cells of the two workspaces the next operation of the main stream touches.
MainQueryWrites(r) ==
  CASE MayStage(r) -> StageCells(r, staged[r])
    [] MayPlace(r) -> PlaceCells(r, placed[r])
    [] doing[r] \in {"transpose", "reduce", "packed"} -> QueryCells
    [] OTHER -> {}
MainScratch(r) ==
  CASE MayPlace(r) -> SlotCells(r, placed[r])
    [] doing[r] \in {"attend", "transpose", "project", "correct", "pack", "packed"} -> ScratchCells
    [] OTHER -> {}

\* While a gather is in flight the main stream neither writes the local rows it
\* sends nor touches the slot it fills, and two gathers have different slots
\* ("fp8 path forced SYNC: local staging is single-buffered").
NoStreamRace ==
  \A r \in Ranks : \A k \in finished[r]..staged[r]-1 :
    /\ MainQueryWrites(r) \cap StageCells(r, k) = {}
    /\ mode = "fp8" => ~MayStage(r)
    /\ MainScratch(r) \cap SlotCells(r, k) = {}
    /\ k > placed[r] => SlotCells(r, k) \cap SlotCells(r, placed[r]) = {}

\* Every call returns on every rank.
CallsReturn == \A r \in Ranks : (doing[r] # "idle") ~> (doing[r] = "idle")
=============================================================================
