------------------------------- MODULE FusedMoe -------------------------------
(***************************************************************************)
(* The fused mixture-of-experts kernel: FC1, activation and FC2 of all     *)
(* routes in one persistent grid.  The tiles of a GEMM that fill whole     *)
(* waves of the grid belong to one CTA each; the k range of the others is  *)
(* cut evenly over all CTAs, and the CTAs that share a tile add their      *)
(* partial sums in c_tmp, in turn, under a lock.  Phases are separated by  *)
(* the grid barrier of GridBarrier.  Locks, barrier words and scratch stay *)
(* as they are for the next launch.                                        *)
(*                                                                         *)
(* A launch is "direct" (one block per route, FC2 added atomically into    *)
(* the token rows), "packed" (blocks of routes of one expert, FC2 stored   *)
(* in route rows over the buffer FC1 has used) or "hybrid" (direct, over   *)
(* two weight tiers, whole tiles only).  One cell of a buffer is one       *)
(* 256-column tile of a row, which a CTA's 256 threads write at once.      *)
(***************************************************************************)
EXTENDS GridBarrier, Sequences

CONSTANTS
  TopK,       \* routes per token
  MaxTokens,  \* tokens of the largest launch
  Resident    \* CTAs the device holds at once

ASSUME FusedAssumption ==
  TopK \in Nat \ {0} /\ MaxTokens \in Nat \ {0} /\ Resident \in Nat \ {0}

VARIABLES
  kernel,  \* the launch: mode, m8, tokens, blocks, and the tiles k1 n1 k2 n2
  at,      \* at[c]: index of c's phase, 0 until c is on the device
  todo,    \* todo[c]: the segments c has left in its GEMM, run in order of tiles
  step,    \* step[c]: within a segment: "tile", "turn", "publish", "store"
  acc,     \* acc[c]: k tiles summed in c's registers, -1 among them: wrong
  locks,   \* lock slots of the workspace
  tmp,     \* tmp[phase][slot]: partial sum of a tile, [tile, ks]
  fc1, act, fc2,  \* cells of the intermediate buffers
  out      \* out[<<t, n>>]: the routes summed in a token's cell

kernelVars == <<kernel, at, todo, step, acc, locks, tmp, fc1, act, fc2, out>>

Wrong == -1
Routes == 0..(MaxTokens * TopK - 1)
LockSlots == 0..MaxGrid
NoTile == [tile |-> -1, ks |-> {}]

Phases ==
  IF kernel.mode = "packed"
  THEN <<"fc1", "barrier", "act", "barrier", "clear", "barrier", "fc2", "exit">>
  ELSE <<"zero", "fc1", "barrier", "act", "barrier", "fc2", "exit">>

Phase(c) == IF at[c] = 0 THEN "queued" ELSE Phases[at[c]]

-----------------------------------------------------------------------------

\* The tiles whose k range is cut: all of them if they fit the grid, else the
\* remainder, with one more wave if that would leave most CTAs idle.
TailTiles(T, G) ==
  IF T <= G THEN T
  ELSE IF 3 * (T % G) <= G THEN (T % G) + G ELSE T % G

Whole(tile, K) ==
  [tile |-> tile, k |-> 0, len |-> K, slices |-> 1, index |-> 0, slot |-> 0]

\* Number of slices tail tile t is cut into, and which of them CTA c has; they
\* count down along k, so that the first k tiles are added last.
Slicing(t, c, K, iters) ==
  LET bound  == iters * ((K * t + iters - 1) \div iters)
      offset == bound - K * t
      extra  == IF offset > 0 THEN 1 ELSE 0
      parts  == ((K - offset + iters - 1) \div iters) + extra
      delta  == iters * c - bound
  IN IF bound > K * (t + 1) THEN [slices |-> 1, index |-> 0]
     ELSE [slices |-> parts,
           index  |-> IF delta < 0 \/ (delta = 0 /\ offset = 0) THEN parts - 1
                      ELSE parts - 1 - (delta \div iters) - extra]

\* CTA c's share of T tiles of K k-tiles on a grid of G CTAs: its segments.
Share(c, T, K, G, m8) ==
  LET single == m8 /\ T <= G
      tail   == IF single THEN 0 ELSE TailTiles(T, G)
      waves  == IF single THEN 1 ELSE (T - tail) \div G
      iters  == (K * tail + G - 1) \div G
      first  == (iters * c) \div K
      last   == IF iters = 0 THEN first - 1
                ELSE LET l == (iters * (c + 1) - 1) \div K
                     IN IF l < tail THEN l ELSE tail - 1
      Cut(t) == Slicing(t, c, K, iters)
      Slot(t) == IF tail < G THEN t
                 ELSE c + Cardinality({u \in first..t :
                            Cut(u).slices > 1 /\ Cut(u).index = Cut(u).slices - 1})
      Part(t) == LET k == IF t = first THEN iters * c - K * t ELSE 0
                     left == iters * (c + 1) - (K * t + k)
                 IN [tile |-> T - tail + t, k |-> k,
                     len |-> IF k + left > K THEN K - k ELSE left,
                     slices |-> Cut(t).slices, index |-> Cut(t).index,
                     slot |-> Slot(t)]
  IN {Whole(c + i * G, K) : i \in 0..waves-1} \union {Part(t) : t \in first..last}

\* The one-grid kernel has no tail: every tile is whole.
WaveShare(c, T, K, G) == {Whole(t, K) : t \in {u \in 0..T-1 : u % G = c}}

KTiles(p) == IF p = "fc1" THEN kernel.k1 ELSE kernel.k2
NTiles(p) == IF p = "fc1" THEN kernel.n1 ELSE kernel.n2
Tiles(p)  == Len(kernel.blocks) * NTiles(p)
BlockOf(p, tile)  == kernel.blocks[(tile \div NTiles(p)) + 1]
ColumnOf(p, tile) == tile % NTiles(p)

\* Blocks without an expert of this tier are passed over.
Segments(p, c) ==
  LET share == IF kernel.mode = "hybrid"
               THEN WaveShare(c, Tiles(p), KTiles(p), grid)
               ELSE Share(c, Tiles(p), KTiles(p), grid, kernel.m8)
  IN {s \in share : s.tile < Tiles(p) /\ BlockOf(p, s.tile).expert >= 0}

\* All segments of a GEMM, with the CTAs they go to.
Slices(T, K, G, m8) ==
  {x \in UNION {{c} \X Share(c, T, K, G, m8) : c \in 0..G-1} : x[2].tile < T}

\* The shares are a partition: every k tile of every tile is summed by exactly
\* one CTA; the CTAs of a tile agree on its lock and on their order in it, the
\* holder of the first k tiles being last; and no two cut tiles share a lock.
ShareExact(T, K, G, m8) ==
  \A t \in 0..T-1 :
    LET parts == {x[2] : x \in {y \in Slices(T, K, G, m8) : y[2].tile = t}}
    IN /\ \A k \in 0..K-1 :
            Cardinality({x \in Slices(T, K, G, m8) :
               x[2].tile = t /\ k \in x[2].k .. x[2].k + x[2].len - 1}) = 1
       /\ {s.index : s \in parts} = 0..Cardinality(parts) - 1
       /\ \A s, u \in parts : /\ s.slices = Cardinality(parts)
                              /\ s.slot = u.slot
                              /\ s.k < u.k => s.index > u.index
       /\ \A x \in Slices(T, K, G, m8), s \in parts :
            x[2].tile # t /\ x[2].slices > 1 /\ s.slices > 1
              => x[2].slot # s.slot

-----------------------------------------------------------------------------
KernelInit ==
  /\ at = [c \in CTAs |-> 0]
  /\ todo = [c \in CTAs |-> {}]
  /\ step = [c \in CTAs |-> "tile"]
  /\ acc = [c \in CTAs |-> {}]
  /\ locks = [s \in LockSlots |-> 0]
  /\ tmp = [p \in {"fc1", "fc2"} |-> [s \in LockSlots |-> NoTile]]
  /\ fc1 = <<>> /\ act = <<>> /\ fc2 = <<>> /\ out = <<>>

\* A cell of a buffer is "stale" (left by an earlier launch), "zero", "good" or
\* "wrong"; a cell of the output is stale when it holds Wrong.
Launch(k, g) ==
  LET routes == 0..(k.tokens * TopK - 1)
  IN /\ Relaunch(g)
     /\ kernel' = k
     /\ at' = [c \in CTAs |-> 0]
     /\ tmp' = [p \in {"fc1", "fc2"} |-> [s \in LockSlots |-> NoTile]]
     /\ fc1' = [x \in routes \X (0..k.n1-1) |-> "stale"]
     /\ act' = [x \in routes \X (0..k.k2-1) |-> "stale"]
     /\ fc2' = [x \in routes \X (0..k.n2-1) |-> "stale"]
     /\ out' = [x \in (0..k.tokens-1) \X (0..k.n2-1) |-> {Wrong}]
     /\ UNCHANGED <<todo, step, acc, locks>>

\* The device runs at most Resident CTAs; one that has left makes room.
Start(c) ==
  /\ Phase(c) = "queued"
  /\ Cardinality({d \in Running : Phase(d) \notin {"queued", "exit"}}) < Resident
  /\ at' = [at EXCEPT ![c] = 1]
  /\ todo' = [todo EXCEPT ![c] = IF Phases[1] = "fc1" THEN Segments("fc1", c)
                                                     ELSE {}]
  /\ UNCHANGED <<barrierVars, kernel, step, acc, locks, tmp, fc1, act, fc2, out>>

\* On to the next phase, with the segments it gives c.
Advance(c) ==
  LET p == Phases[at[c] + 1]
  IN /\ at' = [at EXCEPT ![c] = @ + 1]
     /\ todo' = [todo EXCEPT ![c] = IF p \in {"fc1", "fc2"} THEN Segments(p, c)
                                                            ELSE {}]

-----------------------------------------------------------------------------
\* Phases every CTA runs on its own stride of the cells.
Strided(rows, columns, c) ==
  {x \in (0..rows-1) \X (0..columns-1) : ((x[1] * columns + x[2]) % grid) = c}

Written(f, cells, value) == [x \in DOMAIN f |-> IF x \in cells THEN value ELSE f[x]]

\* FC2's buffer of a packed launch lies over FC1's.
Clobber == fc1' = [x \in DOMAIN fc1 |-> "wrong"]

ZeroOutput(c) ==
  /\ Phase(c) = "zero"
  /\ out' = Written(out, Strided(kernel.tokens, kernel.n2, c), {})
  /\ Advance(c)
  /\ UNCHANGED <<barrierVars, kernel, step, acc, locks, tmp, fc1, act, fc2>>

\* Faulty variant: the stride of the token rows, not of the route rows.
ClearShort(c) ==
  /\ Phase(c) = "clear"
  /\ fc2' = Written(fc2, Strided(kernel.tokens, kernel.n2, c), "zero")
  /\ Clobber
  /\ Advance(c)
  /\ UNCHANGED <<barrierVars, kernel, step, acc, locks, tmp, act, out>>

ClearFc2(c) ==
  /\ Phase(c) = "clear"
  /\ fc2' = Written(fc2, Strided(kernel.tokens * TopK, kernel.n2, c), "zero")
  /\ Clobber
  /\ Advance(c)
  /\ UNCHANGED <<barrierVars, kernel, step, acc, locks, tmp, act, out>>

\* Unit j of a row takes gate and up from the two halves of FC1's columns.
Activated(row, j) ==
  LET gate == fc1[<<row, (j * kernel.n1) \div (2 * kernel.k2)>>]
      up   == fc1[<<row, ((kernel.k2 + j) * kernel.n1) \div (2 * kernel.k2)>>]
  IN IF gate = up THEN gate ELSE "wrong"

Activate(c) ==
  /\ Phase(c) = "act"
  /\ act' = [x \in DOMAIN act |->
               IF x \in Strided(kernel.tokens * TopK, kernel.k2, c)
               THEN Activated(x[1], x[2]) ELSE act[x]]
  /\ Advance(c)
  /\ UNCHANGED <<barrierVars, kernel, step, acc, locks, tmp, fc1, fc2, out>>

-----------------------------------------------------------------------------
InGemm(c) == Phase(c) \in {"fc1", "fc2"}
Segment(c) == CHOOSE s \in todo[c] : \A u \in todo[c] : s.tile <= u.tile
Rows(c) == BlockOf(Phase(c), Segment(c).tile).rows
LastSlice(s) == s.index = s.slices - 1

\* The tile's MMA loop over the segment's k tiles, folded over the warps.
RunTile(c) ==
  /\ InGemm(c) /\ todo[c] # {} /\ step[c] = "tile"
  /\ LET ks == Segment(c).k .. Segment(c).k + Segment(c).len - 1
         read == IF Phase(c) = "fc1" THEN {}
                 ELSE {act[<<r, k>>] : r \in Rows(c), k \in ks}
     IN acc' = [acc EXCEPT ![c] =
                  IF read \subseteq {"good"} THEN ks ELSE ks \union {Wrong}]
  /\ step' = [step EXCEPT ![c] = IF Segment(c).slices > 1 THEN "turn"
                                                          ELSE "store"]
  /\ UNCHANGED <<barrierVars, kernel, at, todo, locks, tmp, fc1, act, fc2, out>>

\* c's own sum and the partial sum before it, which must be of the same tile.
Merged(c) ==
  LET s == Segment(c)
      part == tmp[Phase(c)][s.slot]
  IN IF s.index = 0 THEN acc[c]
     ELSE IF part.tile = s.tile /\ part.ks \intersect acc[c] = {}
          THEN part.ks \union acc[c]
          ELSE acc[c] \union {Wrong}

\* Wait for the turn, add, and leave the sum to the next unless there is none.
Combine(c) ==
  /\ InGemm(c) /\ step[c] = "turn"
  /\ LET s == Segment(c)
     IN /\ locks[s.slot] = s.index
        /\ acc' = [acc EXCEPT ![c] = Merged(c)]
        /\ tmp' = IF LastSlice(s) THEN tmp
                  ELSE [tmp EXCEPT ![Phase(c)][s.slot] =
                          [tile |-> s.tile, ks |-> Merged(c)]]
  /\ step' = [step EXCEPT ![c] = "publish"]
  /\ UNCHANGED <<barrierVars, kernel, at, todo, locks, fc1, act, fc2, out>>

NextSegment(c) ==
  /\ todo' = [todo EXCEPT ![c] = @ \ {Segment(c)}]
  /\ step' = [step EXCEPT ![c] = "tile"]
  /\ acc' = [acc EXCEPT ![c] = {}]

\* Faulty variant: the last slice leaves its lock as it found it.
PublishKept(c) ==
  /\ InGemm(c) /\ step[c] = "publish"
  /\ LET s == Segment(c)
     IN IF LastSlice(s) THEN /\ step' = [step EXCEPT ![c] = "store"]
                        /\ UNCHANGED <<todo, acc, locks>>
        ELSE /\ locks' = [locks EXCEPT ![s.slot] = @ + 1]
             /\ NextSegment(c)
  /\ UNCHANGED <<barrierVars, kernel, at, tmp, fc1, act, fc2, out>>

\* The lock goes to the next slice; the last one puts it back to 0 and stores.
Publish(c) ==
  /\ InGemm(c) /\ step[c] = "publish"
  /\ LET s == Segment(c)
     IN IF LastSlice(s) THEN /\ locks' = [locks EXCEPT ![s.slot] = 0]
                        /\ step' = [step EXCEPT ![c] = "store"]
                        /\ UNCHANGED <<todo, acc>>
        ELSE /\ locks' = [locks EXCEPT ![s.slot] = @ + 1]
             /\ NextSegment(c)
  /\ UNCHANGED <<barrierVars, kernel, at, tmp, fc1, act, fc2, out>>

\* What row r of the tile holds: right if every k tile was summed once, under
\* the expert the route asked for.
Result(c, r) ==
  IF /\ acc[c] = 0..KTiles(Phase(c))-1
     /\ BlockOf(Phase(c), Segment(c).tile).expert = kernel.local[r]
  THEN "good" ELSE "wrong"

\* The atomic adds of routes to their token's cell, right if each is new to it.
Added(cell, routes, right) ==
  IF routes \subseteq right /\ routes \intersect cell = {} THEN cell \union routes
                                                       ELSE cell \union {Wrong}

StoreTile(c) ==
  /\ InGemm(c) /\ step[c] = "store"
  /\ LET n == ColumnOf(Phase(c), Segment(c).tile)
         cells == Rows(c) \X {n}
         Stored(f) == [x \in DOMAIN f |-> IF x \in cells THEN Result(c, x[1])
                                                         ELSE f[x]]
     IN CASE Phase(c) = "fc1" ->
               fc1' = Stored(fc1) /\ UNCHANGED <<fc2, out>>
          [] Phase(c) = "fc2" /\ kernel.mode = "packed" ->
               fc2' = Stored(fc2) /\ Clobber /\ UNCHANGED out
          [] OTHER ->
               /\ out' = [x \in DOMAIN out |->
                     IF x[2] # n THEN out[x]
                     ELSE Added(out[x], {r \in Rows(c) : r \div TopK = x[1]},
                                {r \in Rows(c) : Result(c, r) = "good"})]
               /\ UNCHANGED <<fc1, fc2>>
  /\ NextSegment(c)
  /\ UNCHANGED <<barrierVars, kernel, at, locks, tmp, act>>

EndGemm(c) ==
  /\ InGemm(c) /\ todo[c] = {}
  /\ Advance(c)
  /\ UNCHANGED <<barrierVars, kernel, step, acc, locks, tmp, fc1, act, fc2, out>>

-----------------------------------------------------------------------------
InBarrier(c) ==
  /\ Phase(c) = "barrier"
  /\ ReadSense(c) \/ Arrive(c) \/ ResetCount(c)
  /\ UNCHANGED kernelVars

LeaveBarrier(c) ==
  /\ Phase(c) = "barrier"
  /\ ReleaseAll(c) \/ SpinOut(c)
  /\ Advance(c)
  /\ UNCHANGED <<kernel, step, acc, locks, tmp, fc1, act, fc2, out>>

Cta(c) ==
  \/ Start(c) \/ ZeroOutput(c) \/ Activate(c) \/ ClearFc2(c)
  \/ RunTile(c) \/ Combine(c) \/ Publish(c) \/ StoreTile(c) \/ EndGemm(c)
  \/ InBarrier(c) \/ LeaveBarrier(c)

KernelDone == \A c \in Running : Phase(c) = "exit"

-----------------------------------------------------------------------------
\* A finished launch leaves the workspace as the next one needs it: no lock is
\* held, whichever slices shared it and however large the grid was, and no
\* arrival is counted.
WorkspaceClean ==
  KernelDone => count = 0 /\ \A s \in LockSlots : locks[s] = 0
=============================================================================
