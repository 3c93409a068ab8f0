--------------------------- MODULE DraftSpeculator ---------------------------
(***************************************************************************)
(* The autoregressive speculator (propose): after a target step, one       *)
(* forward of the draft model over the target's rows, rejected ones        *)
(* included, then one row per request and draft step.  Positions, lengths, *)
(* tokens and hidden states live in persistent buffers that kernels update *)
(* in place; a full CUDA graph runs more rows than there are requests, and *)
(* these, like the rows of rejected tokens, hold what earlier calls left.  *)
(*                                                                         *)
(* <<r, p>> labels the token, or the hidden state, of request r at         *)
(* position p that is right in this call; any other is Junk.  At position  *)
(* p the draft model takes the token of p + 1 and the hidden state of p,   *)
(* and gives the token of p + 2 and a stand-in for the hidden state of     *)
(* p + 1.                                                                  *)
(***************************************************************************)
EXTENDS Integers, Sequences, Functions

CONSTANTS
  Requests,   \* request states
  MaxReqs,    \* max_num_reqs, the rows of a full graph
  Steps,      \* num_speculative_steps
  MaxLen,     \* max_model_len
  MaxPrompt,  \* longest prompt
  MaxCalls    \* bound of the model: calls of one behaviour

ASSUME SpeculatorAssumption ==
  /\ MaxReqs \in Nat \ {0} /\ Steps \in Nat \ {0} /\ MaxLen \in Nat
  /\ MaxPrompt \in 1..MaxLen-1 /\ MaxCalls \in Nat

VARIABLES
  calls,       \* calls so far
  prompt,      \* prompt[r]: its length, 0 for a free state
  computed,    \* computed[r]: tokens of r the target has processed and kept
  offered,     \* offered[r]: drafts the next target step may verify
  phase,       \* "idle", "prefill", "prepare", "draft", "returned"
  batch,       \* the call's requests, by row
  num,         \* num_speculative_tokens of the call
  graph,       \* whether the draft steps replay a full graph
  inputIds, positions, hidden,  \* by token row
  queryStart,  \* query_start_loc
  seqLens,     \* seq_lens
  lastIndex,   \* last_token_indices
  idxMapping,  \* idx_mapping: the state of a row
  step,        \* current_draft_step
  draftTokens, \* draft_tokens[row][step]
  logits,      \* draft_logits[state][step], for the next rejection sampling
  kv           \* the draft model's cache: "target", "draft" or "junk"

requestVars == <<prompt, computed, offered>>
callVars    == <<batch, num, graph>>
tokenVars   == <<inputIds, positions, hidden>>
rowVars     == <<queryStart, seqLens, lastIndex, idxMapping>>
outVars     == <<step, draftTokens, logits>>
vars == <<calls, requestVars, phase, callVars, tokenVars, rowVars, outVars, kv>>

Junk == <<>>
Rows == 0..(MaxReqs - 1)
TokenRows == 0..(MaxReqs * (IF Steps < MaxPrompt THEN MaxPrompt ELSE Steps + 1) - 1)
Drafts == 0..(Steps - 1)
Least(a, b) == IF a < b THEN a ELSE b
Cleared(S) == [x \in S |-> [j \in Drafts |-> Junk]]

Init ==
  /\ calls = 0
  /\ prompt = [r \in Requests |-> 0]
  /\ computed = [r \in Requests |-> 0]
  /\ offered = [r \in Requests |-> 0]
  /\ phase = "idle"
  /\ batch = <<>> /\ num = 1 /\ graph = FALSE
  /\ inputIds = [t \in TokenRows |-> Junk]
  /\ positions = [t \in TokenRows |-> 0]
  /\ hidden = [t \in TokenRows |-> Junk]
  /\ queryStart = [b \in 0..MaxReqs |-> 0]
  /\ seqLens = [b \in Rows |-> 0]
  /\ lastIndex = [b \in Rows |-> 0]
  /\ \E first \in Requests : idxMapping = [b \in Rows |-> first]
  /\ step = 0
  /\ draftTokens = Cleared(Rows) /\ logits = Cleared(Requests)
  /\ kv = [r \in Requests |-> [p \in 0..MaxLen-1 |-> "junk"]]

-----------------------------------------------------------------------------
\* Batches.  Row b of the buffers is entry b + 1.
Kept(entry) == entry.len - entry.rejected
\* The position of the token the target has sampled and not yet processed.
End(entry) == entry.start + Kept(entry)
\* query_start_loc: the token rows before each row, padded with their number.
Starts(entries) ==
  LET sum[b \in 0..MaxReqs] ==
        IF b = 0 THEN 0
        ELSE sum[b - 1] + (IF b <= Len(entries) THEN entries[b].len ELSE 0)
  IN sum
\* The rows token row t may belong to: at most one.
RowOf(starts, t) == {b \in Rows : starts[b] <= t /\ t < starts[b + 1]}
RowAt(starts, t) == CHOOSE b \in RowOf(starts, t) : TRUE

\* What the scheduler may give the target for r, and what comes of it: a chunk
\* of the prompt, or the last token and the drafts, of which some are rejected.
Scheduled(r) ==
  IF computed[r] < prompt[r]
  THEN {[req |-> r, start |-> computed[r], len |-> n, rejected |-> 0,
         sampled |-> computed[r] + n = prompt[r]] :
          n \in 1..(prompt[r] - computed[r])}
  ELSE LET drafts == Least(offered[r], MaxLen - 2 - computed[r])
       IN {[req |-> r, start |-> computed[r], len |-> 1 + drafts, rejected |-> n,
            sampled |-> TRUE] : n \in 0..drafts}

Batches ==
  UNION {{[b \in DOMAIN order |-> f[order[b]]] :
            f \in {g \in [Range(order) -> UNION {Scheduled(r) : r \in Range(order)}] :
                     \A r \in Range(order) : g[r] \in Scheduled(r)}} :
          order \in {s \in UNION {[1..n -> Requests] : n \in 1..MaxReqs} :
                       IsInjective(s) /\ \A b \in DOMAIN s : prompt[s[b]] > 0}}

\* What the target's buffers hold for token i of an entry, and what comes next.
Target(entry, i) ==
  IF i < Kept(entry) THEN <<entry.req, entry.start + i>> ELSE Junk
LastSampled(entry) == IF entry.sampled THEN <<entry.req, End(entry)>> ELSE Junk
NextPrefill(entry) == IF entry.sampled THEN Junk ELSE <<entry.req, End(entry)>>

\* A request takes a free state; its cache is in blocks others have used.
Arrive(r, n) ==
  /\ phase = "idle" /\ prompt[r] = 0
  /\ prompt' = [prompt EXCEPT ![r] = n]
  /\ UNCHANGED <<calls, computed, offered, phase, callVars, tokenVars, rowVars, outVars, kv>>

-----------------------------------------------------------------------------
NextToken(entry) ==
  IF entry.sampled THEN LastSampled(entry) ELSE NextPrefill(entry)

\* The target's tokens shifted by one; tokens of rejected rows are not written.
Shifted(entry, i) ==
  IF i < Kept(entry) - 1 THEN Target(entry, i + 1)
  ELSE IF i = Kept(entry) - 1 THEN NextToken(entry) ELSE Junk

\* A call copies the target's hidden states and prepares the first forward.
\* Positions of rejected rows are not written, and lengths still count them.
Propose(entries, n) ==
  LET reqs == Len(entries)
      starts == Starts(entries)
      owned == {t \in TokenRows : RowOf(starts, t) # {}}
      entry == [t \in owned |-> entries[RowAt(starts, t) + 1]]
      index == [t \in owned |-> t - starts[RowAt(starts, t)]]
  IN /\ phase = "idle" /\ calls < MaxCalls
     /\ calls' = calls + 1
     /\ batch' = entries /\ num' = n
     /\ hidden' = [t \in TokenRows |->
          IF t \in owned THEN Target(entry[t], index[t]) ELSE Junk]
     /\ inputIds' = [t \in TokenRows |->
          IF t \in owned THEN Shifted(entry[t], index[t]) ELSE Junk]
     /\ positions' = [t \in TokenRows |->
          IF t \in owned /\ index[t] < Kept(entry[t]) THEN entry[t].start + index[t]
          ELSE positions[t]]
     /\ queryStart' = starts
     /\ seqLens' = [b \in Rows |->
          IF b < reqs THEN entries[b + 1].start + entries[b + 1].len ELSE 0]
     /\ lastIndex' = [b \in Rows |->
          IF b < reqs THEN starts[b] + Kept(entries[b + 1]) - 1 ELSE 0]
     /\ idxMapping' = [b \in Rows |->
          IF b < reqs THEN entries[b + 1].req ELSE idxMapping[b]]
     /\ step' = 0
     /\ phase' = "prefill"
     /\ UNCHANGED <<requestVars, graph, draftTokens, logits, kv>>

-----------------------------------------------------------------------------
\* The draft model.
Active == {b \in Rows : b < Len(batch)}
EndOf(r) == End(batch[CHOOSE b \in DOMAIN batch : batch[b].req = r])

\* Row t has the inputs for position p of r.
Inputs(t, r, p) ==
  positions[t] = p /\ inputIds[t] = <<r, p + 1>> /\ hidden[t] = <<r, p>>

\* The cache of r up to position p is what a draft of this call must see.
Context(cache, r, p) ==
  \A x \in 0..p : cache[r][x] = IF x < EndOf(r) THEN "target" ELSE "draft"

\* Faulty variant: padding rows are not kept from the logits of the state they
\* name.
LogitsUnguarded(rows, token) ==
  [r \in Requests |-> [j \in Drafts |->
     LET writers == {b \in rows : idxMapping[b] = r}
     IN IF j = step /\ writers # {}
        THEN token[CHOOSE b \in writers : \A x \in writers : x <= b]
        ELSE logits[r][j]]]

\* A sampled row leaves its logits in the state of its request, unless it is
\* beyond active_num_reqs.
Logits(rows, token) ==
  [r \in Requests |-> [j \in Drafts |->
     LET writers == {b \in rows \cap Active : idxMapping[b] = r}
     IN IF j = step /\ writers # {} THEN token[CHOOSE b \in writers : TRUE]
                                    ELSE logits[r][j]]]

\* Faulty variant: the slots are computed anew, from the speculator's positions.
PrefillSlotRebuilt(t, b) == <<idxMapping[b], positions[t]>>

\* The first forward uses the target's slots, those of rejected rows included.
PrefillSlot(t, b) == <<batch[b + 1].req, batch[b + 1].start + t - queryStart[b]>>

PrefillCache ==
  LET tokens == {t \in TokenRows : RowOf(queryStart, t) # {}}
      slot == [t \in tokens |-> PrefillSlot(t, RowAt(queryStart, t))]
      Writers(r, p) == {t \in tokens : slot[t] = <<r, p>>}
  IN [r \in Requests |-> [p \in 0..MaxLen-1 |->
       IF Writers(r, p) = {} THEN kv[r][p]
       ELSE IF \A t \in Writers(r, p) : Inputs(t, r, p) THEN "target"
       ELSE "junk"]]

\* The request and position a sampled row is right for, if it is for any.
PrefillPlace(cache, b) ==
  LET t == lastIndex[b]
      entry == batch[RowAt(queryStart, t) + 1]
      p == entry.start + t - queryStart[RowAt(queryStart, t)]
  IN IF Inputs(t, entry.req, p) /\ Context(cache, entry.req, p) THEN <<entry.req, p>> ELSE Junk

\* The label d positions further.
Ahead(place, d) == IF place = Junk THEN Junk ELSE <<place[1], place[2] + d>>

\* The first forward, over the target's rows; a full graph samples a row of every
\* request it was captured for, by indices that are 0 beyond the batch.
Prefill(full) ==
  LET rows == IF full THEN Rows ELSE Active
      cache == PrefillCache
      place == [b \in rows |-> PrefillPlace(cache, b)]
  IN /\ phase = "prefill"
     /\ full => \A b, c \in DOMAIN batch : batch[b].len = batch[c].len
     /\ kv' = cache
     /\ draftTokens' = [b \in Rows |->
          IF b \in rows THEN [draftTokens[b] EXCEPT ![0] = Ahead(place[b], 2)]
                        ELSE draftTokens[b]]
     /\ logits' = Logits(rows, [b \in rows |-> Ahead(place[b], 2)])
     /\ hidden' = [t \in TokenRows |-> IF t \in rows THEN Ahead(place[t], 1) ELSE hidden[t]]
     /\ positions' = [t \in TokenRows |->
          IF t \in rows THEN positions[lastIndex[t]] ELSE positions[t]]
     /\ phase' = IF num = 1 THEN "returned" ELSE "prepare"
     /\ UNCHANGED <<calls, requestVars, callVars, inputIds, rowVars, step>>

-----------------------------------------------------------------------------
\* Faulty variant: positions are bounded by the model length itself.
NextPositionLate(p) == Least(p + 1, MaxLen)

NextPosition(p) == Least(p + 1, MaxLen - 1)
NextLength(n)   == Least(n + 1, MaxLen)

\* One row per request: the first draft at the position after the last kept
\* token, and lengths without the rejected ones.
PrepareDecode(full) ==
  /\ phase = "prepare"
  /\ graph' = full
  /\ inputIds' = [t \in TokenRows |-> IF t \in Active THEN draftTokens[t][0]
                                                      ELSE inputIds[t]]
  /\ positions' = [t \in TokenRows |-> IF t \in Active THEN NextPosition(positions[t])
                                                       ELSE positions[t]]
  /\ queryStart' = [b \in 0..MaxReqs |-> Least(b, Len(batch))]
  /\ seqLens' = [b \in Rows |->
       IF b \in Active
       THEN NextLength(batch[b + 1].start + batch[b + 1].len - batch[b + 1].rejected)
       ELSE 0]
  /\ step' = 1
  /\ phase' = "draft"
  /\ UNCHANGED <<calls, requestVars, batch, num, hidden, lastIndex, idxMapping,
                 draftTokens, logits, kv>>

\* The inputs of the next draft step, written by all rows that ran but not after
\* the last of Steps.
UpdateInputs(rows, token, state) ==
  /\ inputIds' = [t \in TokenRows |-> IF t \in rows THEN token[t] ELSE inputIds[t]]
  /\ hidden' = [t \in TokenRows |-> IF t \in rows THEN state[t] ELSE hidden[t]]
  /\ positions' = [t \in TokenRows |-> IF t \in rows THEN NextPosition(positions[t])
                                                      ELSE positions[t]]
  /\ seqLens' = [b \in Rows |-> IF b \in rows THEN NextLength(seqLens[b])
                                               ELSE seqLens[b]]

\* Slots are computed from the current positions; those of rows beyond the batch
\* are padding.
DraftCache ==
  LET Writers(r, p) == {b \in Active : RowOf(queryStart, b) = {b}
                                       /\ idxMapping[b] = r /\ positions[b] = p}
  IN [r \in Requests |-> [p \in 0..MaxLen-1 |->
       IF Writers(r, p) = {} THEN kv[r][p]
       ELSE IF \A b \in Writers(r, p) : Inputs(b, r, p) THEN "draft" ELSE "junk"]]

DraftPlace(cache, b) ==
  IF /\ b \in Active
     /\ Inputs(b, idxMapping[b], positions[b])
     /\ Context(cache, idxMapping[b], seqLens[b] - 1)
  THEN <<idxMapping[b], positions[b]>> ELSE Junk

\* One draft step: slots and metadata, the forward, the sampling and the update
\* of the buffers.  A full graph does it for every row it was captured for.
DraftStep ==
  LET rows == IF graph THEN Rows ELSE Active
      cache == DraftCache
      place == [b \in rows |-> DraftPlace(cache, b)]
  IN /\ phase = "draft"
     /\ kv' = cache
     /\ draftTokens' = [b \in Rows |->
          IF b \in rows THEN [draftTokens[b] EXCEPT ![step] = Ahead(place[b], 2)]
                        ELSE draftTokens[b]]
     /\ logits' = Logits(rows, [b \in rows |-> Ahead(place[b], 2)])
     /\ UpdateInputs(IF step < Steps - 1 THEN rows ELSE {},
                     [b \in rows |-> Ahead(place[b], 2)], [b \in rows |-> Ahead(place[b], 1)])
     /\ IF step + 1 < num THEN step' = step + 1 /\ UNCHANGED phase
                          ELSE phase' = "returned" /\ UNCHANGED step
     /\ UNCHANGED <<calls, requestVars, callVars, queryStart, lastIndex, idxMapping>>

\* The host keeps what the target has accepted; requests in ended are finished,
\* those that have reached the model length among them.  What the call has left
\* in tokens, hidden states, logits and drafted cache is Junk for the next; what
\* the next call overwrites altogether is forgotten.
Return(ended) ==
  LET Of(r) == {b \in DOMAIN batch : batch[b].req = r}
      Entry(r) == batch[CHOOSE b \in Of(r) : TRUE]
  IN /\ phase = "returned"
     /\ \A b \in DOMAIN batch : End(batch[b]) >= MaxLen - 1 => batch[b].req \in ended
     /\ prompt' = [r \in Requests |-> IF r \in ended THEN 0 ELSE prompt[r]]
     /\ computed' = [r \in Requests |-> IF r \in ended THEN 0
                                         ELSE IF Of(r) = {} THEN computed[r]
                                         ELSE End(Entry(r))]
     /\ offered' = [r \in Requests |-> IF r \in ended THEN 0
                                        ELSE IF Of(r) = {} THEN offered[r]
                                        ELSE IF Entry(r).sampled THEN num ELSE 0]
     /\ phase' = "idle"
     /\ batch' = <<>> /\ num' = 1 /\ graph' = FALSE
     /\ inputIds' = [t \in TokenRows |-> Junk]
     /\ hidden' = [t \in TokenRows |-> Junk]
     /\ queryStart' = [b \in 0..MaxReqs |-> 0]
     /\ seqLens' = [b \in Rows |-> 0]
     /\ lastIndex' = [b \in Rows |-> 0]
     /\ step' = 0
     /\ draftTokens' = Cleared(Rows) /\ logits' = Cleared(Requests)
     /\ kv' = [r \in Requests |-> [p \in 0..MaxLen-1 |->
                 IF r \notin ended /\ kv[r][p] = "target" THEN "target" ELSE "junk"]]
     /\ UNCHANGED <<calls, positions, idxMapping>>

\* The bound of the model: a behaviour ends after MaxCalls calls.
Finished == phase = "idle" /\ calls = MaxCalls /\ UNCHANGED vars

Next ==
  \/ \E r \in Requests, n \in 1..MaxPrompt : Arrive(r, n)
  \/ \E entries \in Batches, n \in 1..Steps : Propose(entries, n)
  \/ \E full \in BOOLEAN : Prefill(full) \/ PrepareDecode(full)
  \/ DraftStep
  \/ \E ended \in SUBSET {batch[b].req : b \in DOMAIN batch} : Return(ended)
  \/ Finished

Spec == Init /\ [][Next]_vars

-----------------------------------------------------------------------------
\* Every draft that can still be used was made from the kept tokens and the
\* drafts before it and nothing else, and the logits rejection sampling will
\* look up for it are its own: no rejected row, padding row, stale position or
\* earlier call shows through.
DraftsExact ==
  phase = "returned" =>
    \A b \in Active : batch[b + 1].sampled =>
      \A j \in 0..num-1 :
        LET r == batch[b + 1].req
            token == <<r, End(batch[b + 1]) + 1 + j>>
        IN token[2] < MaxLen => draftTokens[b][j] = token /\ logits[r][j] = token

\* Whatever rejected rows, drafts and clamped positions have written, between
\* calls the draft cache of a live request holds every kept token.
PrefixIntact ==
  phase = "idle" =>
    \A r \in Requests : prompt[r] > 0 =>
      \A p \in 0..computed[r]-1 : kv[r][p] = "target"

\* In every draft step a row attends up to its own position and no further, its
\* length stays within the host's upper bound (the target's length and num), and
\* no row, padding included, leaves the model length.
LengthsBounded ==
  phase = "draft" =>
    /\ \A b \in Active : /\ seqLens[b] = positions[b] + 1
                         /\ seqLens[b] <= batch[b + 1].start + batch[b + 1].len + num
    /\ \A b \in Rows : positions[b] \in 0..MaxLen-1 /\ seqLens[b] \in 0..MaxLen
=============================================================================
