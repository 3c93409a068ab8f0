------------------------------ MODULE PackedCkv ------------------------------
(***************************************************************************)
(* The packed-CKV prefill: the metadata builder, the pack kernel, the      *)
(* gather of pages (active route) or of whole pools (pool route), the      *)
(* remap of logical token ids to gathered slots, and the attention's reads.*)
(*                                                                         *)
(* Tokens of a request are dealt round-robin: token p belongs to rank      *)
(* (p % V) % W, at offset (p % V) \div W of that rank's page for virtual   *)
(* block p \div V.  Every rank attends for its own heads over all tokens,  *)
(* so it needs the records of all ranks.                                   *)
(*                                                                         *)
(* A rank is a host, which builds the metadata of a step in pinned buffers *)
(* and enqueues the step, and a device stream, which runs what is enqueued *)
(* in order.  The gathers are collectives: a rank passes one only when     *)
(* every rank has entered it.                                              *)
(***************************************************************************)
EXTENDS Integers, Sequences, FiniteSets, DcpGroup, PrefixSums

CONSTANTS
  PageRecords,    \* records of a page (_CKV_BLOCK_SIZE)
  PoolPages,      \* pages of a rank's cache (num_gpu_blocks_override)
  ActiveCapacity, \* _CKV_ACTIVE_CAPACITY
  MaxPacked,      \* _ckv_max_packed_blocks: the builder's capacity
  Phases,         \* the values _CKV_PHASE2_NCCL may have
  Layers,         \* packed-CKV layers of a step (bounds the model)
  TopK,           \* the logical ids the indexer selects for every row
  Workloads       \* the sequences of batches the scheduler may issue

ASSUME CacheAssumption ==
  /\ PageRecords \in Nat \ {0} /\ PoolPages \in Nat \ {0}
  /\ ActiveCapacity \in Nat /\ MaxPacked \in Nat /\ Layers \in Nat \ {0}
  /\ Phases \subseteq BOOLEAN /\ TopK \in Seq(Int)

V == W * PageRecords      \* _CKV_VIRTUAL_BLOCK

\* A batch: lens[q] and qlens[q] of every request, padding rows, and every
\* rank's block table (a page, or -1 for none).
RequestsOf(b) == 1..Len(b.lens)

\* What a record holds: the rank, page and offset that own it, as of a step.
CacheRecord(o, page, off, s) == <<o, page, off, s>>
Zero == <<>>

-----------------------------------------------------------------------------
(* The metadata builder.                                                   *)

\* Faulty variant: the lengths of the rank's own share of the tokens.
LocalLens(b, r, q) == (b.lens[q] + W - 1 - r) \div W

\* The builder uses the global lengths, the same on every rank.
LensFor(b, r, q) == b.lens[q]

RequestBlocks(b, r, q) == (LensFor(b, r, q) + V - 1) \div V

\* A batch the scheduler may issue: the rows of a request are its last tokens,
\* and the tables, as wide on every rank, have a column for every block of it.
WellFormed(b) ==
  /\ b.lens \in Seq(Nat) /\ b.qlens \in Seq(Nat) /\ Len(b.qlens) = Len(b.lens) /\ b.pad \in Nat
  /\ \A q \in RequestsOf(b) : b.qlens[q] <= b.lens[q]
  /\ \A r \in Ranks :
       /\ b.tables[r] \in Seq(Seq(-1..PoolPages-1)) /\ Len(b.tables[r]) = Len(b.lens)
       /\ \A q \in RequestsOf(b) : RequestBlocks(b, r, q) <= Len(b.tables[r][q])
  /\ \A r, p \in Ranks : \A q, k \in RequestsOf(b) : Len(b.tables[r][q]) = Len(b.tables[p][k])

ASSUME WorkloadsAssumption ==
  \A w \in Workloads : Len(w) \in Nat /\ \A s \in 1..Len(w) : WellFormed(w[s])

\* req_base: where the run of packed blocks of each request starts, and their end.
BaseOf(b, r) == PrefixSum([q \in RequestsOf(b) |-> RequestBlocks(b, r, q)])

TotalBlocks(b, r) == BaseOf(b, r)[Len(b.lens)]

\* Rows in request order, one per query token, each with its causal length;
\* padding rows belong to request 0 (here 1) with length 0.
RowsOf(b) ==
  LET start == PrefixSum(b.qlens)
      rows  == start[Len(b.qlens)]
      request(i) == CHOOSE q \in RequestsOf(b) : start[q-1] < i /\ i <= start[q]
  IN [i \in 1..rows + b.pad |->
        IF i > rows THEN [req |-> 1, causal |-> 0]
        ELSE [req    |-> request(i),
              causal |-> b.lens[request(i)] - b.qlens[request(i)] + i - start[request(i) - 1]]]

\* The request of a packed block.
RequestOf(b, r, pb) ==
  CHOOSE q \in RequestsOf(b) : BaseOf(b, r)[q-1] <= pb /\ pb < BaseOf(b, r)[q]

\* The arrays that live in persistent pinned buffers.
Arrays(b, r) ==
  LET packed == 0..TotalBlocks(b, r)-1
  IN [ base   |-> [q \in RequestsOf(b) |-> BaseOf(b, r)[q-1]],
       blocks |-> [q \in RequestsOf(b) |-> RequestBlocks(b, r, q)],
       req    |-> [pb \in packed |-> RequestOf(b, r, pb)],
       vblock |-> [pb \in packed |-> pb - BaseOf(b, r)[RequestOf(b, r, pb) - 1]],
       causal |-> [i \in DOMAIN RowsOf(b) |-> RowsOf(b)[i].causal] ]

VARIABLES
  phase2,    \* _CKV_PHASE2_NCCL of this process, the same on every rank
  work,      \* the batches of this run, the same on every rank
  built,     \* built[r]: steps the host has built and enqueued
  refused,   \* refused[r]: the host has refused a batch and raised
  pinned,    \* pinned[r]: the step whose arrays are in the pinned buffers
  step,      \* step[r]: the step the device is in, or has last finished
  stage,     \* stage[r]: the next device operation
  layer,     \* layer[r]: layers of the step the device has finished
  device,    \* device[r]: the step whose arrays the device buffers hold
  wire,      \* wire[r]: what r has contributed to each collective, in order
  passed,    \* passed[r]: collectives r has passed
  gathered,  \* gathered[r]: records in the query workspace, rank-major
  holes,     \* holes[r]: gathered validity (active) or owner tables (pool)
  reads      \* reads[r]: the records attention read for each row

packedVars == <<phase2, work, built, refused, pinned, step, stage, layer, device, wire, passed, gathered, holes, reads>>

Batch(r)  == work[step[r]]
Mine(r)   == Arrays(work[device[r]], r)     \* the arrays the kernels read
Packed(r) == TotalBlocks(Batch(r), r)       \* a host integer, passed by value

Route(r) == IF phase2 /\ Packed(r) > ActiveCapacity THEN "pool" ELSE "active"

PackedTypeOK ==
  /\ phase2 \in Phases /\ work \in Workloads
  /\ built \in [Ranks -> 0..Len(work)] /\ refused \in [Ranks -> BOOLEAN]
  /\ pinned \in [Ranks -> 0..Len(work)] /\ step \in [Ranks -> 0..Len(work)]
  /\ device \in [Ranks -> 0..Len(work)]
  /\ stage \in [Ranks -> {"idle", "pack", "records", "holes", "remap"}]
  /\ layer \in [Ranks -> 0..Layers] /\ passed \in [Ranks -> Nat]
  /\ DOMAIN wire = Ranks /\ DOMAIN gathered = Ranks /\ DOMAIN holes = Ranks
  /\ DOMAIN reads = Ranks
  /\ \A r \in Ranks : pinned[r] <= built[r] /\ step[r] <= built[r] /\ passed[r] <= Len(wire[r])

PackedInit ==
  /\ phase2   \in Phases
  /\ work     \in Workloads
  /\ built    = [r \in Ranks |-> 0]
  /\ refused  = [r \in Ranks |-> FALSE]
  /\ pinned   = built /\ step = built /\ device = built
  /\ stage    = [r \in Ranks |-> "idle"]
  /\ layer    = [r \in Ranks |-> 0]
  /\ wire     = [r \in Ranks |-> <<>>]
  /\ passed   = [r \in Ranks |-> 0]
  /\ gathered = [r \in Ranks |-> <<>>]
  /\ holes    = [r \in Ranks |-> <<>>]
  /\ reads    = [r \in Ranks |-> <<>>]

-----------------------------------------------------------------------------
(* The host.                                                               *)

\* The runner has waited for the last step's host-to-device copies.
HostMayBuild(r) == built[r] < Len(work) /\ ~refused[r] /\ step[r] = built[r]

BuildStep(r) ==
  /\ HostMayBuild(r)
  /\ TotalBlocks(work[built[r] + 1], r) <= MaxPacked
  /\ built'  = [built EXCEPT ![r] = @ + 1]
  /\ pinned' = [pinned EXCEPT ![r] = built[r] + 1]
  /\ UNCHANGED <<phase2, work, refused, step, stage, layer, device, wire, passed, gathered, holes, reads>>

\* The builder refuses a batch beyond its capacity.
Refuse(r) ==
  /\ HostMayBuild(r)
  /\ TotalBlocks(work[built[r] + 1], r) > MaxPacked
  /\ refused' = [refused EXCEPT ![r] = TRUE]
  /\ UNCHANGED <<phase2, work, built, pinned, step, stage, layer, device, wire, passed, gathered, holes, reads>>

-----------------------------------------------------------------------------
(* The device.                                                             *)

\* The copies of the pinned arrays, and the step's writes to the cache.
Upload(r) ==
  /\ stage[r] = "idle" /\ step[r] < built[r]
  /\ step'   = [step EXCEPT ![r] = @ + 1]
  /\ device' = [device EXCEPT ![r] = pinned[r]]
  /\ layer'  = [layer EXCEPT ![r] = 0]
  /\ stage'  = [stage EXCEPT ![r] = "pack"]
  /\ UNCHANGED <<phase2, work, built, refused, pinned, wire, passed, gathered, holes, reads>>

\* The kernels read element i of an array a stale size may have left short.
At(f, i, default) == IF i \in DOMAIN f THEN f[i] ELSE default

PageOf(r, q, vb) == At(At(Batch(r).tables[r], q, <<>>), vb + 1, -1)

PackedPage(r, pb) == PageOf(r, At(Mine(r).req, pb, 0), At(Mine(r).vblock, pb, 0))

\* _pack_ckv_pages_kernel: one page per packed block, zeros for a missing one.
ActiveRecords(r) ==
  [ i \in 0..Packed(r) * PageRecords - 1 |->
      LET page == PackedPage(r, i \div PageRecords)
      IN IF page >= 0 THEN CacheRecord(r, page, i % PageRecords, step[r]) ELSE Zero ]

Validity(r) == [pb \in 0..Packed(r)-1 |-> PackedPage(r, pb) >= 0]

PoolRecords(r) ==
  [i \in 0..PoolPages * PageRecords - 1 |->
     CacheRecord(r, i \div PageRecords, i % PageRecords, step[r])]

Contribute(r, kind, data) ==
  wire' = [wire EXCEPT ![r] = Append(@, [kind |-> kind, data |-> data])]

\* Pack (active route) or take the cache as it is (pool route), and enter the
\* gather of the records; the phase-1 ring carries the validity with them.
PackPages(r) ==
  /\ stage[r] = "pack"
  /\ IF Route(r) = "active"
     THEN Contribute(r, "records", IF phase2 THEN ActiveRecords(r)
                              ELSE <<ActiveRecords(r), Validity(r)>>)
     ELSE Contribute(r, "pool", PoolRecords(r))
  /\ stage' = [stage EXCEPT ![r] = "records"]
  /\ UNCHANGED <<phase2, work, built, refused, pinned, step, layer, device, passed, gathered, holes, reads>>

AllContributed(r) == \A s \in Ranks : Len(wire[s]) > passed[r]
From(o, r)    == wire[o][passed[r] + 1].data

\* Rank-major concatenation of the ranks' blocks of n elements.
Concat(n, blocks) == [i \in 0..W * n - 1 |-> At(blocks[i \div n], i % n, Zero)]

\* The direct gather of records, then the one of validity or owner tables.
GatherRecords(r) ==
  /\ stage[r] = "records" /\ phase2 /\ AllContributed(r)
  /\ gathered' = [gathered EXCEPT ![r] =
       Concat((IF Route(r) = "active" THEN Packed(r) ELSE PoolPages) * PageRecords,
              [o \in Ranks |-> From(o, r)])]
  /\ IF Route(r) = "active" THEN Contribute(r, "validity", Validity(r))
     ELSE Contribute(r, "tables", Batch(r).tables[r])
  /\ passed' = [passed EXCEPT ![r] = @ + 1]
  /\ stage' = [stage EXCEPT ![r] = "holes"]
  /\ UNCHANGED <<phase2, work, built, refused, pinned, step, layer, device, holes, reads>>

GatherHoles(r) ==
  /\ stage[r] = "holes" /\ AllContributed(r)
  /\ holes' = [holes EXCEPT ![r] =
       LET blocks == [o \in Ranks |-> From(o, r)]
       IN IF Route(r) = "active" THEN Concat(Packed(r), blocks) ELSE blocks]
  /\ passed' = [passed EXCEPT ![r] = @ + 1]
  /\ stage' = [stage EXCEPT ![r] = "remap"]
  /\ UNCHANGED <<phase2, work, built, refused, pinned, step, layer, device, wire, gathered, reads>>

\* The phase-1 gather of records and validity in one call of the byte ring,
\* which is the barrier RingAllGather is shown to implement.
GatherBoth(r) ==
  /\ stage[r] = "records" /\ ~phase2 /\ AllContributed(r)
  /\ gathered' = [gathered EXCEPT ![r] =
       Concat(Packed(r) * PageRecords, [o \in Ranks |-> From(o, r)[1]])]
  /\ holes' = [holes EXCEPT ![r] = Concat(Packed(r), [o \in Ranks |-> From(o, r)[2]])]
  /\ passed' = [passed EXCEPT ![r] = @ + 1]
  /\ stage' = [stage EXCEPT ![r] = "remap"]
  /\ UNCHANGED <<phase2, work, built, refused, pinned, step, layer, device, wire, reads>>

-----------------------------------------------------------------------------
(* The remap kernels and the attention.                                    *)

Owner(id)  == (id % V) % W

\* Faulty variant: a page holds consecutive tokens.
OffsetBlocked(id) == (id % V) % PageRecords

Offset(id) == (id % V) \div W

Causal(r, row, id) == 0 <= id /\ id < At(Mine(r).causal, row, 0)

\* The slot of a logical id among the gathered records, or -1 if it has none.
ActiveSlot(r, row, q, id) ==
  LET vb == id \div V
      pb == At(Mine(r).base, q, 0) + vb
      at == Owner(id) * Packed(r) + pb
  IN IF /\ Causal(r, row, id)
        /\ vb < At(Mine(r).blocks, q, 0)
        /\ At(holes[r], at, FALSE)
     THEN at * PageRecords + Offset(id) ELSE -1

PoolSlot(r, row, q, id) ==
  LET page == At(At(At(holes[r], Owner(id), <<>>), q, <<>>), id \div V + 1, -1)
  IN IF Causal(r, row, id) /\ 0 <= page /\ page < PoolPages
     THEN (Owner(id) * PoolPages + page) * PageRecords + Offset(id) ELSE -1

\* The members of a set of positions in order: the compaction's running count.
InOrder(positions) ==
  [j \in 1..Cardinality(positions) |->
     CHOOSE i \in positions : Cardinality({k \in positions : k <= i}) = j]

Slot(r, row, q, id) ==
  IF Route(r) = "active" THEN ActiveSlot(r, row, q, id) ELSE PoolSlot(r, row, q, id)

\* What attention reads for a row: valid slots are compacted to the front, in
\* the indexer's order.
ReadsOf(r, row, q) ==
  LET order == InOrder({i \in 1..Len(TopK) : Slot(r, row, q, TopK[i]) >= 0})
  IN [j \in DOMAIN order |-> At(gathered[r], Slot(r, row, q, TopK[order[j]]), Zero)]

\* Remap, then attention over the selected slots, projection and release; the
\* stream goes on to the next layer or to the next step.
AttendRows(r) ==
  LET rows == RowsOf(Batch(r)) IN
  /\ stage[r] = "remap"
  /\ reads' = [reads EXCEPT ![r] =
       [i \in DOMAIN rows |-> ReadsOf(r, i, rows[i].req)]]
  /\ layer' = [layer EXCEPT ![r] = @ + 1]
  /\ stage' = [stage EXCEPT ![r] = IF layer[r] + 1 = Layers THEN "idle" ELSE "pack"]
  /\ UNCHANGED <<phase2, work, built, refused, pinned, step, device, wire, passed, gathered, holes>>

-----------------------------------------------------------------------------
Device(r) ==
  Upload(r) \/ PackPages(r) \/ GatherRecords(r) \/ GatherHoles(r) \/ GatherBoth(r) \/ AttendRows(r)

\* The scheduler issues no further batch, or a batch was refused.
Stopped ==
  /\ \A r \in Ranks : stage[r] = "idle" /\ step[r] = built[r] /\ (refused[r] \/ built[r] = Len(work))
  /\ UNCHANGED packedVars

PackedNext == (\E r \in Ranks : BuildStep(r) \/ Refuse(r) \/ Device(r)) \/ Stopped

PackedSpec == PackedInit /\ [][PackedNext]_packedVars

-----------------------------------------------------------------------------
(* Properties.                                                             *)

\* The reference is where the owners write: token id is the (id \div W)-th token
\* of rank id % W, whose pages hold PageRecords tokens each.  For every selected
\* id within the row's causal length, the record there, if the rank has the
\* page; in the indexer's order.
DirectRead(b, s, row) ==
  LET own(id)  == id \div W
      page(id) == b.tables[id % W][row.req][own(id) \div PageRecords + 1]
      has(id)  == 0 <= id /\ id < row.causal /\ page(id) >= 0
      order    == InOrder({i \in 1..Len(TopK) : has(TopK[i])})
  IN [j \in DOMAIN order |->
        CacheRecord(TopK[order[j]] % W, page(TopK[order[j]]),
                    own(TopK[order[j]]) % PageRecords, s)]

\* On both routes, in every layer and whatever the ranks' skew, attention reads
\* for each row exactly the records of its own step that a direct read of the
\* owners would give, and nothing for padding rows.
ReadsExact ==
  \A r \in Ranks :
    layer[r] > 0 =>
      reads[r] = [i \in DOMAIN RowsOf(Batch(r)) |->
                    DirectRead(Batch(r), step[r], RowsOf(Batch(r))[i])]

\* Two contributions to one collective fit: the same kind, and as many records,
\* as many entries of validity (in phase 1 next to the records, in the same
\* call), as many rows and columns of a table.
SameShape(m, n) ==
  /\ m.kind = n.kind
  /\ DOMAIN m.data = DOMAIN n.data
  /\ m.kind = "tables" \/ (m.kind = "records" /\ ~phase2) =>
       \A i \in DOMAIN m.data : DOMAIN m.data[i] = DOMAIN n.data[i]

\* The route and the sizes are a group decision without a vote: however far one
\* rank is ahead of another in steps and layers, the i-th collectives of the two
\* fit.  (A rank that sent another size would have the ring or NCCL overrun or
\* wait for ever.)
CollectivesMatch ==
  \A r, s \in Ranks : \A i \in 1..Len(wire[r]) :
    i <= Len(wire[s]) => SameShape(wire[r][i], wire[s][i])
=============================================================================
