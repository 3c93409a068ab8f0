------------------------ MODULE DraftSpeculatorProofs ------------------------
(***************************************************************************)
(* Proofs about DraftSpeculator for every set of requests, every number of *)
(* rows and draft steps, every model length and any number of calls.       *)
(*                                                                         *)
(* The call's rows are laid out one request after the other (Starts), so   *)
(* that a token row has one owner.  From there the invariant follows a     *)
(* request through its call: what the first forward finds, what it leaves  *)
(* in the request's row, and what each draft step makes of that, up to the *)
(* step in which the position runs into the model length.                  *)
(***************************************************************************)
EXTENDS DraftSpeculator, WellFoundedInduction, TLAPS

USE SpeculatorAssumption

\* The token rows a request may have in a call.
Capacity == IF Steps < MaxPrompt THEN MaxPrompt ELSE Steps + 1

Labels == {Junk} \cup (Requests \X Nat)
Marks  == {"target", "draft", "junk"}
Phases == {"idle", "prefill", "prepare", "draft", "returned"}
Entries == [req : Requests, start : Nat, len : Nat, rejected : Nat, sampled : BOOLEAN]

-----------------------------------------------------------------------------
(* The inductive invariant.                                                *)

TypeOK ==
  /\ prompt \in [Requests -> 0..MaxPrompt]
  /\ computed \in [Requests -> Nat]
  /\ offered \in [Requests -> 0..Steps]
  /\ phase \in Phases
  /\ batch \in Seq(Entries)
  /\ num \in 1..Steps
  /\ graph \in BOOLEAN
  /\ inputIds \in [TokenRows -> Labels]
  /\ positions \in [TokenRows -> 0..MaxLen-1]
  /\ hidden \in [TokenRows -> Labels]
  /\ queryStart \in [0..MaxReqs -> Nat]
  /\ seqLens \in [Rows -> 0..MaxLen]
  /\ lastIndex \in [Rows -> TokenRows]
  /\ idxMapping \in [Rows -> Requests]
  /\ step \in Drafts
  /\ draftTokens \in [Rows -> [Drafts -> Labels]]
  /\ logits \in [Requests -> [Drafts -> Labels]]
  /\ kv \in [Requests -> [0..MaxLen-1 -> Marks]]

\* A live request has room for its next token.
Host ==
  \A r \in Requests :
    /\ prompt[r] = 0 => computed[r] = 0
    /\ prompt[r] > 0 => computed[r] <= MaxLen - 2

\* The draft cache holds every token kept so far.
Prefix ==
  \A r \in Requests : prompt[r] > 0 => \A p \in 0..computed[r]-1 : kv[r][p] = "target"

\* One entry per request, which starts after the request's tokens, keeps at least
\* one of its own and leaves room for a token after them.
IsEntry(e) ==
  /\ prompt[e.req] > 0 /\ e.start = computed[e.req]
  /\ e.len \in 1..Capacity /\ e.rejected < e.len
  /\ e.start + e.len <= MaxLen - 1

IsBatch(entries) ==
  /\ entries \in Seq(Entries) /\ Len(entries) \in 1..MaxReqs
  /\ \A b \in 1..Len(entries) : IsEntry(entries[b])
  /\ \A b, c \in 1..Len(entries) : entries[b].req = entries[c].req => b = c

InCall ==
  phase # "idle" =>
    /\ IsBatch(batch)
    /\ \A b \in Active : idxMapping[b] = batch[b + 1].req

\* What the first forward finds for the rows it keeps.
Prefilling ==
  phase = "prefill" =>
    /\ step = 0
    /\ queryStart = Starts(batch)
    /\ \A b \in Active :
         /\ lastIndex[b] = queryStart[b] + Kept(batch[b + 1]) - 1
         /\ \A i \in 0..Kept(batch[b + 1])-1 :
              Inputs(queryStart[b] + i, batch[b + 1].req, batch[b + 1].start + i)

\* The kept tokens of this call are in the cache too.
Cached ==
  phase \in {"prepare", "draft", "returned"} =>
    \A b \in Active : \A p \in 0..End(batch[b + 1])-1 : kv[batch[b + 1].req][p] = "target"

\* The first n drafts and their logits are right, as long as the position they
\* were made at is one of the model.
DraftsOf(b, n) ==
  \A j \in 0..n-1 :
    LET token == <<batch[b + 1].req, End(batch[b + 1]) + 1 + j>>
    IN End(batch[b + 1]) + j <= MaxLen =>
         draftTokens[b][j] = token /\ logits[batch[b + 1].req][j] = token

Drafted ==
  \A b \in Active :
    /\ phase = "prepare" => DraftsOf(b, 1)
    /\ phase = "draft" => DraftsOf(b, step)
    /\ phase = "returned" => DraftsOf(b, num)

Preparing ==
  phase = "prepare" =>
    /\ step = 0 /\ num > 1
    /\ \A b \in Active : /\ positions[b] = End(batch[b + 1]) - 1
                         /\ hidden[b] = <<batch[b + 1].req, End(batch[b + 1])>>

\* The position of a row in draft step s, if no clamp has held it back.
Reached(b) == End(batch[b + 1]) + step - 1

Drafting ==
  phase = "draft" =>
    /\ step \in 1..num-1
    /\ \A b \in 0..MaxReqs : queryStart[b] = Least(b, Len(batch))
    /\ \A b \in Active :
         /\ positions[b] = Least(Reached(b), MaxLen - 1)
         /\ seqLens[b] = positions[b] + 1
         /\ Reached(b) <= MaxLen - 1 =>
              /\ Inputs(b, batch[b + 1].req, Reached(b))
              /\ \A p \in End(batch[b + 1])..Reached(b)-1 : kv[batch[b + 1].req][p] = "draft"

Inv ==
  /\ TypeOK /\ Host /\ Prefix /\ InCall
  /\ Prefilling /\ Cached /\ Drafted /\ Preparing /\ Drafting

-----------------------------------------------------------------------------
(* Rows and batches.                                                       *)

LEMMA LeastNumber ==
  ASSUME NEW T \in SUBSET Nat, T # {}
  PROVE  \E x \in T : \A y \in T : x <= y
<1> DEFINE R == {p \in Nat \X Nat : p[1] < p[2]}
<1>1. IsWellFoundedOn(R, Nat)
  BY NatLessThanWellFounded, Zenon DEF OpToRel
<1>2. PICK x \in T : \A y \in T : ~(<<y, x>> \in R)
  <2> HIDE DEF R
  <2> QED BY <1>1, WFMin
<1>3. ASSUME NEW y \in T, y < x PROVE FALSE
  <2>1. <<y, x>> \in Nat \X Nat
    OBVIOUS
  <2>2. <<y, x>> \in R
    BY <2>1, <1>3
  <2> QED BY <1>2, <2>2
<1> QED BY <1>3

\* The rows an entry has, none beyond the batch.
Width(entries, b) == IF b <= Len(entries) THEN entries[b].len ELSE 0

LEMMA WidthType ==
  ASSUME NEW entries \in Seq(Entries), NEW b \in Nat \ {0}
  PROVE  Width(entries, b) \in Nat
<1>1. CASE b <= Len(entries)
  <2>1. b \in 1..Len(entries)
    BY <1>1
  <2>2. entries[b] \in Entries
    BY <2>1
  <2>3. entries[b].len \in Nat
    BY <2>2 DEF Entries
  <2> QED BY <1>1, <2>3 DEF Width
<1>2. CASE ~(b <= Len(entries))
  BY <1>2 DEF Width
<1> QED BY <1>1, <1>2

\* The sums that Starts defines exist.
LEMMA SumsExist ==
  ASSUME NEW entries \in Seq(Entries)
  PROVE  \A n \in 0..MaxReqs : \E s \in [0..n -> Nat] :
           s = [b \in 0..n |-> IF b = 0 THEN 0 ELSE s[b-1] + Width(entries, b)]
<1> DEFINE Sums(n) == {s \in [0..n -> Nat] :
                        s = [b \in 0..n |-> IF b = 0 THEN 0 ELSE s[b-1] + Width(entries, b)]}
           T == {n \in 0..MaxReqs : Sums(n) = {}}
<1>1. SUFFICES ASSUME T # {} PROVE FALSE
  OBVIOUS
<1>2. PICK n \in T : \A m \in T : n <= m
  <2>1. T \in SUBSET Nat
    OBVIOUS
  <2> HIDE DEF T
  <2> QED BY <1>1, <2>1, LeastNumber
<1>3. CASE n = 0
  <2> DEFINE s == [b \in 0..0 |-> 0]
  <2>1. s \in [0..0 -> Nat]
        /\ s = [b \in 0..0 |-> IF b = 0 THEN 0 ELSE s[b-1] + Width(entries, b)]
    OBVIOUS
  <2>2. s \in Sums(0)
    BY <2>1
  <2> QED BY <1>2, <1>3, <2>2
<1>4. CASE n # 0
  <2>1. n-1 \in 0..MaxReqs /\ n-1 \notin T /\ n \in 1..MaxReqs
    <3>1. n \in 0..MaxReqs
      OBVIOUS
    <3> HIDE DEF T
    <3> QED BY <1>2, <1>4, <3>1
  <2>2. PICK t : t \in Sums(n-1)
    BY <2>1
  <2> DEFINE s == [b \in 0..n |-> IF b = n THEN t[n-1] + Width(entries, n) ELSE t[b]]
  <2>3. Width(entries, n) \in Nat /\ t \in [0..n-1 -> Nat]
    BY <2>1, <2>2, WidthType
  <2>4. s \in [0..n -> Nat]
    BY <2>1, <2>3
  <2>5. ASSUME NEW b \in 0..n
        PROVE  s[b] = IF b = 0 THEN 0 ELSE s[b-1] + Width(entries, b)
    <3>1. CASE b = n
      BY <2>1, <3>1
    <3>2. CASE b # n
      <4>1. b \in 0..n-1 /\ (b # 0 => b-1 \in 0..n-1 /\ b-1 # n)
        BY <2>1, <3>2
      <4>2. t = [c \in 0..n-1 |-> IF c = 0 THEN 0 ELSE t[c-1] + Width(entries, c)]
        BY <2>2
      <4>3. t[b] = IF b = 0 THEN 0 ELSE t[b-1] + Width(entries, b)
        <5> HIDE DEF T, Sums
        <5> QED BY <4>1, <4>2
      <4> QED BY <2>1, <3>2, <4>1, <4>3
    <3> QED BY <3>1, <3>2
  <2> HIDE DEF s
  <2>6. s = [b \in 0..n |-> IF b = 0 THEN 0 ELSE s[b-1] + Width(entries, b)]
    BY <2>4, <2>5
  <2>7. s \in Sums(n)
    BY <2>4, <2>6
  <2> QED BY <1>2, <2>7
<1> QED BY <1>3, <1>4

LEMMA StartsDef ==
  ASSUME NEW entries \in Seq(Entries)
  PROVE  /\ Starts(entries) \in [0..MaxReqs -> Nat]
         /\ Starts(entries)[0] = 0
         /\ \A b \in 1..MaxReqs :
              Starts(entries)[b] = Starts(entries)[b-1] + Width(entries, b)
<1> DEFINE f == Starts(entries)
           D == 0..MaxReqs
<1>1. PICK s \in [D -> Nat] :
        s = [b \in D |-> IF b = 0 THEN 0 ELSE s[b-1] + Width(entries, b)]
  <2>1. MaxReqs \in 0..MaxReqs
    OBVIOUS
  <2> QED BY <2>1, SumsExist
<1>2. f = CHOOSE g : g = [b \in D |-> IF b = 0 THEN 0
                           ELSE g[b-1] + (IF b <= Len(entries) THEN entries[b].len ELSE 0)]
  BY DEF Starts
<1>3. f = [b \in D |-> IF b = 0 THEN 0 ELSE f[b-1] + Width(entries, b)]
  <2> HIDE DEF f, D
  <2>1. s = [b \in D |-> IF b = 0 THEN 0
                          ELSE s[b-1] + (IF b <= Len(entries) THEN entries[b].len ELSE 0)]
    BY <1>1 DEF Width
  <2>2. f = [b \in D |-> IF b = 0 THEN 0
                          ELSE f[b-1] + (IF b <= Len(entries) THEN entries[b].len ELSE 0)]
    BY <1>2, <2>1
  <2> QED BY <2>2 DEF Width
<1>4. f[0] = 0 /\ \A b \in 1..MaxReqs : f[b] = f[b-1] + Width(entries, b)
  <2> HIDE DEF f
  <2> QED BY <1>3
<1> DEFINE T == {n \in D : f[n] \notin Nat}
<1>5. ASSUME T # {} PROVE FALSE
  <2>1. T \in SUBSET Nat
    OBVIOUS
  <2>2. PICK n \in T : \A m \in T : n <= m
    <3> HIDE DEF T
    <3> QED BY <1>5, <2>1, LeastNumber
  <2> HIDE DEF f
  <2>3. n # 0
    BY <1>4
  <2>4. n-1 \in 0..MaxReqs /\ n-1 \notin T /\ n \in 1..MaxReqs
    BY <2>2, <2>3
  <2>5. f[n-1] \in Nat
    BY <2>4
  <2>6. Width(entries, n) \in Nat /\ f[n] = f[n-1] + Width(entries, n)
    BY <1>4, <2>4, WidthType
  <2> QED BY <2>5, <2>6
<1>6. f \in [D -> Nat]
  <2> HIDE DEF f
  <2> QED BY <1>3, <1>5
<1> QED BY <1>4, <1>6

LEMMA StartsGrow ==
  ASSUME NEW entries \in Seq(Entries)
  PROVE  \A b \in 0..MaxReqs : \A c \in b..MaxReqs : Starts(entries)[b] <= Starts(entries)[c]
<1> DEFINE f == Starts(entries)
<1>1. /\ f \in [0..MaxReqs -> Nat]
      /\ \A b \in 1..MaxReqs : f[b] = f[b-1] + Width(entries, b)
  BY StartsDef
<1> HIDE DEF f
<1>2. SUFFICES ASSUME NEW b \in 0..MaxReqs PROVE \A c \in b..MaxReqs : f[b] <= f[c]
  BY DEF f
<1> DEFINE T == {c \in b..MaxReqs : ~(f[b] <= f[c])}
<1>3. ASSUME T # {} PROVE FALSE
  <2>1. T \in SUBSET Nat
    OBVIOUS
  <2>2. PICK n \in T : \A m \in T : n <= m
    <3> HIDE DEF T
    <3> QED BY <1>3, <2>1, LeastNumber
  <2>3. n # b
    BY <1>1
  <2>4. n-1 \in b..MaxReqs /\ n-1 \notin T /\ n \in 1..MaxReqs
    BY <2>2, <2>3
  <2>5. f[b] <= f[n-1] /\ f[n-1] \in Nat /\ f[b] \in Nat
    BY <1>1, <2>4
  <2>6. Width(entries, n) \in Nat /\ f[n] = f[n-1] + Width(entries, n)
    <3>1. n \in Nat \ {0}
      BY <2>4
    <3>2. Width(entries, n) \in Nat
      BY <3>1, WidthType
    <3>3. f[n] = f[n-1] + Width(entries, n)
      BY <1>1, <2>4
    <3> QED BY <3>2, <3>3
  <2> QED BY <2>5, <2>6
<1> QED BY <1>3

LEMMA StartsBound ==
  ASSUME NEW entries, IsBatch(entries)
  PROVE  \A b \in 0..MaxReqs : Starts(entries)[b] <= b * Capacity
<1> DEFINE f == Starts(entries)
           C == Capacity
<1>0. entries \in Seq(Entries) /\ C \in Nat
  BY DEF IsBatch, Capacity
<1>1. /\ f \in [0..MaxReqs -> Nat] /\ f[0] = 0
      /\ \A b \in 1..MaxReqs : f[b] = f[b-1] + Width(entries, b)
  BY <1>0, StartsDef
<1>2. \A b \in 1..MaxReqs : Width(entries, b) \in 0..C
  BY <1>0 DEF Width, IsBatch, IsEntry
<1> HIDE DEF f, C
<1> DEFINE T == {c \in 0..MaxReqs : ~(f[c] <= c * C)}
<1>3. ASSUME T # {} PROVE FALSE
  <2>1. T \in SUBSET Nat
    OBVIOUS
  <2>2. PICK n \in T : \A m \in T : n <= m
    <3> HIDE DEF T
    <3> QED BY <1>3, <2>1, LeastNumber
  <2>3. n # 0
    BY <1>0, <1>1
  <2>4. n-1 \in 0..MaxReqs /\ n-1 \notin T /\ n \in 1..MaxReqs
    BY <2>2, <2>3
  <2>5. PICK a \in Int : a = (n-1) * C
    BY <1>0
  <2>6. f[n-1] <= a /\ f[n-1] \in Nat
    BY <1>1, <2>4, <2>5
  <2>7. n * C = a + C
    BY <1>0, <2>5
  <2>8. f[n] <= a + C
    <3>1. f[n] = f[n-1] + Width(entries, n) /\ Width(entries, n) \in 0..C
      BY <1>1, <1>2, <2>4
    <3> QED BY <1>0, <2>6, <3>1
  <2> QED BY <2>7, <2>8
<1> QED BY <1>3 DEF f, C

LEMMA EntryFacts ==
  ASSUME NEW entries, IsBatch(entries), NEW b \in 0..Len(entries)-1
  PROVE  LET e == entries[b + 1] IN
         /\ b \in Rows /\ b+1 \in 1..Len(entries) /\ b+1 \in 1..MaxReqs
         /\ e \in Entries /\ e.req \in Requests /\ IsEntry(e)
         /\ e.start \in Nat /\ e.len \in Nat /\ e.len \in 1..Capacity /\ e.rejected \in Nat
         /\ Kept(e) \in 1..e.len /\ End(e) = e.start + Kept(e) /\ End(e) \in 1..MaxLen-1
         /\ Width(entries, b+1) = e.len
         /\ Starts(entries)[b] \in Nat /\ Starts(entries)[b+1] = Starts(entries)[b] + e.len
<1> DEFINE e == entries[b + 1]
<1>1. /\ entries \in Seq(Entries) /\ Len(entries) \in 1..MaxReqs
      /\ b+1 \in 1..Len(entries) /\ b+1 \in 1..MaxReqs /\ b \in 0..MaxReqs
      /\ b \in Rows
  BY DEF IsBatch, Rows
<1>2. e \in Entries /\ IsEntry(e)
  BY <1>1 DEF IsBatch
<1>3. e.req \in Requests /\ e.start \in Nat /\ e.len \in Nat /\ e.rejected \in Nat
  BY <1>2 DEF Entries
<1>4. e.len \in 1..Capacity /\ e.rejected < e.len /\ e.start + e.len <= MaxLen - 1
  BY <1>2 DEF IsEntry
<1> HIDE DEF e
<1>5. Kept(e) \in 1..e.len /\ End(e) = e.start + Kept(e) /\ End(e) \in 1..MaxLen-1
  BY <1>3, <1>4 DEF Kept, End
<1>6. Width(entries, b+1) = e.len
  BY <1>1 DEF Width, e
<1>7. Starts(entries)[b] \in Nat /\ Starts(entries)[b+1] = Starts(entries)[b] + e.len
  <2>1. Starts(entries)[b+1] = Starts(entries)[b+1-1] + Width(entries, b+1)
    BY <1>1, StartsDef
  <2>2. b+1-1 = b /\ Starts(entries)[b] \in Nat
    BY <1>1, StartsDef
  <2> QED BY <1>6, <2>1, <2>2
<1> QED BY <1>1, <1>2, <1>3, <1>4, <1>5, <1>6, <1>7 DEF e

\* A token row of an entry belongs to that entry's row and no other.
LEMMA RowFacts ==
  ASSUME NEW entries, IsBatch(entries), NEW b \in 0..Len(entries)-1,
         NEW i \in 0..entries[b+1].len-1
  PROVE  /\ Starts(entries)[b] + i \in TokenRows
         /\ RowOf(Starts(entries), Starts(entries)[b] + i) = {b}
         /\ RowAt(Starts(entries), Starts(entries)[b] + i) = b
<1> DEFINE f == Starts(entries)
           t == f[b] + i
<1>1. /\ entries \in Seq(Entries) /\ b \in Rows /\ b \in 0..MaxReqs /\ b+1 \in 0..MaxReqs
      /\ f[b] \in Nat /\ f[b+1] = f[b] + entries[b+1].len /\ i \in Nat
      /\ entries[b+1].len \in Nat
  <2>1. entries \in Seq(Entries) /\ Len(entries) \in 1..MaxReqs
    BY DEF IsBatch
  <2>2. /\ b \in Rows /\ f[b] \in Nat /\ f[b+1] = f[b] + entries[b+1].len
        /\ entries[b+1].len \in Nat
    BY EntryFacts
  <2> QED BY <2>1, <2>2 DEF Rows
<1>2. f \in [0..MaxReqs -> Nat]
  BY <1>1, StartsDef
<1>3. \A c, d \in 0..MaxReqs : c <= d => f[c] <= f[d]
  BY <1>1, StartsGrow
<1>4. f[MaxReqs] <= MaxReqs * Capacity
  BY StartsBound
<1> HIDE DEF f
<1>5. t \in Nat /\ t < f[b+1] /\ f[b] <= t
  BY <1>1
<1>6. t \in TokenRows
  <2>1. t < f[MaxReqs] /\ f[MaxReqs] \in Nat
    BY <1>1, <1>2, <1>3, <1>5
  <2>2. PICK m \in Nat : m = MaxReqs * Capacity
    BY DEF Capacity
  <2>3. TokenRows = 0..(m-1)
    BY <2>2 DEF TokenRows, Capacity
  <2> QED BY <1>4, <1>5, <2>1, <2>2, <2>3
<1>7. ASSUME NEW c \in RowOf(f, t) PROVE c = b
  <2>1. c \in 0..MaxReqs /\ c+1 \in 0..MaxReqs /\ f[c] <= t /\ t < f[c+1]
    BY DEF RowOf, Rows
  <2>2. f[c] \in Nat /\ f[c+1] \in Nat
    BY <1>2, <2>1
  <2>3. ~(c < b)
    <3>1. c+1 <= b => f[c+1] <= f[b]
      BY <1>1, <1>3, <2>1
    <3> QED BY <1>1, <1>5, <2>1, <2>2, <3>1
  <2>4. ~(b < c)
    <3>1. b+1 <= c => f[b+1] <= f[c]
      BY <1>1, <1>3, <2>1
    <3> QED BY <1>1, <1>2, <1>5, <2>1, <2>2, <3>1
  <2> QED BY <1>1, <2>1, <2>3, <2>4
<1>8. b \in RowOf(f, t)
  BY <1>1, <1>5 DEF RowOf
<1>9. RowOf(f, t) = {b}
  <2> HIDE DEF t
  <2> QED BY <1>7, <1>8
<1>10. RowAt(f, t) = b
  BY <1>9 DEF RowAt
<1> QED BY <1>6, <1>9, <1>10 DEF f

\* A token row that has an owner is one of that owner's.
LEMMA RowOwner ==
  ASSUME NEW entries, IsBatch(entries), NEW t \in TokenRows, RowOf(Starts(entries), t) # {}
  PROVE  LET b == RowAt(Starts(entries), t) IN
         /\ b \in 0..Len(entries)-1
         /\ t - Starts(entries)[b] \in 0..entries[b+1].len-1
<1> DEFINE f == Starts(entries)
           b == RowAt(f, t)
<1>1. b \in RowOf(f, t)
  BY DEF RowAt
<1>2. entries \in Seq(Entries)
  BY DEF IsBatch
<1>3. /\ f \in [0..MaxReqs -> Nat]
      /\ \A c \in 1..MaxReqs : f[c] = f[c-1] + Width(entries, c)
  BY <1>2, StartsDef
<1> HIDE DEF b, f
<1>4. b \in 0..MaxReqs-1 /\ f[b] <= t /\ t < f[b+1]
  BY <1>1 DEF RowOf, Rows
<1>5. f[b+1] = f[b] + Width(entries, b+1)
  <2>1. PICK c \in 1..MaxReqs : c = b+1
    BY <1>4
  <2>2. f[c] = f[c-1] + Width(entries, c)
    BY <1>3, <2>1
  <2>3. c-1 = b
    BY <1>4, <2>1
  <2> QED BY <2>1, <2>2, <2>3
<1>6. f[b] \in Nat /\ t \in Int
  BY <1>3, <1>4 DEF TokenRows
<1>7. b+1 <= Len(entries)
  <2>1. CASE ~(b+1 <= Len(entries))
    <3>1. Width(entries, b+1) = 0
      BY <2>1 DEF Width
    <3> QED BY <1>4, <1>5, <1>6, <3>1
  <2> QED BY <2>1
<1>8. b \in 0..Len(entries)-1
  BY <1>2, <1>4, <1>7
<1>9. f[b+1] = f[b] + entries[b+1].len /\ entries[b+1].len \in Nat
  BY <1>8, EntryFacts DEF f, Capacity
<1>10. t - f[b] \in 0..entries[b+1].len-1
  BY <1>4, <1>6, <1>9
<1> QED BY <1>8, <1>10 DEF b, f

\* What the scheduler may start from is a batch of the host's requests.
LEMMA BatchesAreBatches ==
  ASSUME TypeOK, Host, NEW entries \in Batches
  PROVE  IsBatch(entries)
<1> DEFINE
      Orders == {s \in UNION {[1..n -> Requests] : n \in 1..MaxReqs} :
                   IsInjective(s) /\ \A b \in DOMAIN s : prompt[s[b]] > 0}
      Outcomes(order) == {g \in [Range(order) -> UNION {Scheduled(r) : r \in Range(order)}] :
                            \A r \in Range(order) : g[r] \in Scheduled(r)}
      Of(order) == {[b \in DOMAIN order |-> f[order[b]]] : f \in Outcomes(order)}
<1>0. Batches = UNION {Of(order) : order \in Orders}
  BY Zenon DEF Batches
<1>1. PICK order \in Orders :
        \E f \in Outcomes(order) : entries = [b \in DOMAIN order |-> f[order[b]]]
  <2> HIDE DEF Orders, Of
  <2>1. PICK order \in Orders : entries \in Of(order)
    BY <1>0
  <2> HIDE DEF Outcomes
  <2> QED BY <2>1 DEF Of
<1>2. PICK n \in 1..MaxReqs : order \in [1..n -> Requests]
  BY <1>1
<1>3. /\ DOMAIN order = 1..n
      /\ \A b \in 1..n : order[b] \in Requests /\ prompt[order[b]] > 0 /\ order[b] \in Range(order)
      /\ \A b, c \in 1..n : order[b] = order[c] => b = c
  BY <1>1, <1>2 DEF IsInjective, Range
<1>4. PICK f : /\ \A r \in Range(order) : f[r] \in Scheduled(r)
               /\ entries = [b \in DOMAIN order |-> f[order[b]]]
  BY <1>1
<1>5. \A b \in 1..n : entries[b] \in Scheduled(order[b])
  BY <1>3, <1>4
<1>6. ASSUME NEW r \in Requests, prompt[r] > 0, NEW e \in Scheduled(r)
      PROVE  e \in Entries /\ e.req = r /\ IsEntry(e)
  <2>1. /\ prompt[r] \in 0..MaxPrompt /\ computed[r] \in Nat /\ offered[r] \in 0..Steps
        /\ computed[r] <= MaxLen - 2
    BY <1>6 DEF TypeOK, Host
  <2>2. CASE computed[r] < prompt[r]
    <3>1. PICK m \in 1..(prompt[r] - computed[r]) :
            e = [req |-> r, start |-> computed[r], len |-> m, rejected |-> 0,
                 sampled |-> computed[r] + m = prompt[r]]
      BY <2>2 DEF Scheduled
    <3>2. (computed[r] + m = prompt[r]) \in BOOLEAN
      OBVIOUS
    <3>3. m \in 1..Capacity /\ computed[r] + m <= MaxLen - 1
      BY <2>1, <3>1 DEF Capacity
    <3> QED BY <1>6, <2>1, <3>1, <3>2, <3>3 DEF Entries, IsEntry
  <2>3. CASE ~(computed[r] < prompt[r])
    <3> DEFINE drafts == Least(offered[r], MaxLen - 2 - computed[r])
    <3>1. drafts \in 0..Steps /\ drafts <= MaxLen - 2 - computed[r]
      BY <2>1 DEF Least
    <3>2. PICK m \in 0..drafts :
            e = [req |-> r, start |-> computed[r], len |-> 1 + drafts, rejected |-> m,
                 sampled |-> TRUE]
      BY <2>3 DEF Scheduled
    <3> HIDE DEF drafts
    <3>3. 1 + drafts \in 1..Capacity /\ computed[r] + (1 + drafts) <= MaxLen - 1 /\ m \in Nat
      BY <2>1, <3>1, <3>2 DEF Capacity
    <3> QED BY <1>6, <2>1, <3>1, <3>2, <3>3 DEF Entries, IsEntry
  <2> QED BY <2>2, <2>3
<1>7. \A b \in 1..n : entries[b] \in Entries /\ entries[b].req = order[b] /\ IsEntry(entries[b])
  BY <1>3, <1>5, <1>6
<1>8. entries = [b \in 1..n |-> entries[b]]
  BY <1>3, <1>4
<1>9. entries \in Seq(Entries) /\ Len(entries) = n
  <2>1. entries \in [1..n -> Entries]
    BY <1>7, <1>8
  <2> QED BY <2>1
<1> QED BY <1>3, <1>7, <1>9 DEF IsBatch

-----------------------------------------------------------------------------
(* Facts about a call.                                                     *)

\* A row of the call, its entry and its request.
LEMMA ActiveFacts ==
  ASSUME TypeOK, InCall, phase # "idle", NEW b \in Active
  PROVE  LET e == batch[b + 1] IN
         /\ b \in Rows /\ b \in TokenRows /\ b \in 0..Len(batch)-1 /\ b + 1 \in 1..Len(batch)
         /\ e \in Entries /\ e.req \in Requests /\ e.start \in Nat /\ e.len \in Nat
         /\ prompt[e.req] > 0 /\ e.start = computed[e.req] /\ e.start + e.len <= MaxLen - 1
         /\ e.len \in 1..Capacity /\ Kept(e) \in 1..e.len
         /\ End(e) = e.start + Kept(e) /\ End(e) \in 1..MaxLen-1
         /\ idxMapping[b] = e.req /\ EndOf(e.req) = End(e)
         /\ \A c \in Active : batch[c + 1].req = e.req => c = b
<1>1. IsBatch(batch) /\ idxMapping[b] = batch[b + 1].req
  BY DEF InCall
<1>2. b \in Rows /\ b \in 0..Len(batch)-1 /\ Len(batch) \in Nat
  BY <1>1 DEF Active, Rows, IsBatch
<1>3. b \in TokenRows
  <2>1. PICK m \in Nat : m = MaxReqs * Capacity
    BY DEF Capacity
  <2>2. m >= MaxReqs
    BY <2>1 DEF Capacity
  <2> QED BY <1>2, <2>1, <2>2 DEF TokenRows, Capacity, Rows
<1>4. /\ batch[b + 1] \in Entries /\ IsEntry(batch[b + 1]) /\ b + 1 \in 1..Len(batch)
      /\ batch[b + 1].req \in Requests /\ batch[b + 1].start \in Nat
      /\ batch[b + 1].len \in 1..Capacity
      /\ Kept(batch[b + 1]) \in 1..batch[b + 1].len
      /\ End(batch[b + 1]) = batch[b + 1].start + Kept(batch[b + 1])
      /\ End(batch[b + 1]) \in 1..MaxLen-1
  BY <1>1, <1>2, EntryFacts
<1>5. \A c, d \in 1..Len(batch) : batch[c].req = batch[d].req => c = d
  BY <1>1 DEF IsBatch
<1>6. DOMAIN batch = 1..Len(batch)
  BY DEF TypeOK
<1>7. (CHOOSE c \in DOMAIN batch : batch[c].req = batch[b + 1].req) = b + 1
  BY <1>4, <1>5, <1>6
<1>8. EndOf(batch[b + 1].req) = End(batch[b + 1])
  BY <1>7 DEF EndOf
<1>9. \A c \in Active : batch[c + 1].req = batch[b + 1].req => c = b
  <2> SUFFICES ASSUME NEW c \in Active, batch[c + 1].req = batch[b + 1].req PROVE c = b
    OBVIOUS
  <2>1. c + 1 \in 1..Len(batch) /\ c \in Int
    BY <1>2 DEF Active, Rows
  <2> QED BY <1>2, <1>4, <1>5, <2>1
<1>10. prompt[batch[b+1].req] > 0 /\ batch[b+1].start = computed[batch[b+1].req]
       /\ batch[b+1].start + batch[b+1].len <= MaxLen - 1 /\ batch[b+1].len \in Nat
  BY <1>4 DEF IsEntry, Capacity
<1> QED BY <1>1, <1>2, <1>3, <1>4, <1>8, <1>9, <1>10

LEMMA RowsInTokenRows == Rows \subseteq TokenRows /\ 0 \in Rows /\ 0 \in Drafts
<1>1. PICK m \in Nat : m = MaxReqs * Capacity
  BY DEF Capacity
<1>2. m >= MaxReqs
  BY <1>1 DEF Capacity
<1> QED BY <1>1, <1>2 DEF TokenRows, Capacity, Rows, Drafts

LEMMA ActiveOf ==
  ASSUME TypeOK, InCall, phase # "idle"
  PROVE  Active = 0..Len(batch)-1 /\ Active \subseteq Rows
  BY DEF InCall, IsBatch, Active, Rows

-----------------------------------------------------------------------------
(* Init, and requests that arrive.                                         *)

LEMMA InvInit == Init => Inv
<1> SUFFICES ASSUME Init PROVE Inv
  OBVIOUS
<1> USE DEF Init
<1>1. TypeOK
  <2>1. Junk \in Labels /\ 0 \in 0..MaxLen-1 /\ 0 \in Rows /\ 0 \in Drafts /\ 0 \in TokenRows
    BY RowsInTokenRows DEF Labels
  <2>2. /\ inputIds \in [TokenRows -> Labels] /\ hidden \in [TokenRows -> Labels]
        /\ positions \in [TokenRows -> 0..MaxLen-1]
    BY <2>1
  <2>3. /\ draftTokens \in [Rows -> [Drafts -> Labels]]
        /\ logits \in [Requests -> [Drafts -> Labels]]
    BY <2>1 DEF Cleared
  <2>4. /\ kv \in [Requests -> [0..MaxLen-1 -> Marks]]
        /\ idxMapping \in [Rows -> Requests] /\ lastIndex \in [Rows -> TokenRows]
    BY <2>1 DEF Marks
  <2>5. /\ prompt \in [Requests -> 0..MaxPrompt] /\ computed \in [Requests -> Nat]
        /\ offered \in [Requests -> 0..Steps] /\ phase \in Phases /\ batch \in Seq(Entries)
        /\ num \in 1..Steps /\ graph \in BOOLEAN /\ queryStart \in [0..MaxReqs -> Nat]
        /\ seqLens \in [Rows -> 0..MaxLen] /\ step \in Drafts
    <3>1. <<>> \in Seq(Entries)
      OBVIOUS
    <3>2. /\ prompt \in [Requests -> 0..MaxPrompt] /\ computed \in [Requests -> Nat]
          /\ offered \in [Requests -> 0..Steps] /\ queryStart \in [0..MaxReqs -> Nat]
          /\ seqLens \in [Rows -> 0..MaxLen]
      OBVIOUS
    <3>3. phase \in Phases /\ num \in 1..Steps /\ step \in Drafts /\ batch \in Seq(Entries)
      BY <2>1, <3>1 DEF Phases
    <3>4. graph \in BOOLEAN
      OBVIOUS
    <3> HIDE DEF Init
    <3> QED BY <3>2, <3>3, <3>4
  <2> QED BY <2>2, <2>3, <2>4, <2>5 DEF TypeOK
<1>2. Host /\ Prefix
  BY DEF Host, Prefix
<1> QED BY <1>1, <1>2 DEF Inv, InCall, Prefilling, Cached, Drafted, Preparing, Drafting

LEMMA ArriveInv ==
  ASSUME Inv, NEW r \in Requests, NEW n \in 1..MaxPrompt, Arrive(r, n)
  PROVE  Inv'
<1>1. /\ phase = "idle" /\ phase' = "idle" /\ prompt[r] = 0
      /\ prompt' = [prompt EXCEPT ![r] = n]
      /\ UNCHANGED <<computed, offered, callVars, tokenVars, rowVars, outVars, kv>>
  BY DEF Arrive
<1>2. TypeOK /\ Host /\ Prefix
  BY DEF Inv
<1>3. TypeOK'
  <2>1. prompt' \in [Requests -> 0..MaxPrompt] /\ phase' \in Phases
    BY <1>1, <1>2 DEF TypeOK, Phases
  <2>2. UNCHANGED <<computed, offered, batch, num, graph, inputIds, positions, hidden, queryStart,
                    seqLens, lastIndex, idxMapping, step, draftTokens, logits, kv>>
    BY <1>1 DEF callVars, tokenVars, rowVars, outVars
  <2> QED BY <1>2, <2>1, <2>2 DEF TypeOK
<1>4. Host' /\ Prefix'
  <2> SUFFICES ASSUME NEW q \in Requests
               PROVE  /\ prompt'[q] = 0 => computed[q] = 0
                      /\ prompt'[q] > 0 => /\ computed[q] <= MaxLen - 2
                                           /\ \A p \in 0..computed[q]-1 : kv[q][p] = "target"
    BY <1>1 DEF Host, Prefix
  <2>1. CASE q = r
    <3>1. prompt'[q] = n /\ computed[q] = 0
      BY <1>1, <1>2, <2>1 DEF TypeOK, Host
    <3> QED BY <3>1
  <2>2. CASE q # r
    <3>1. prompt'[q] = prompt[q]
      BY <1>1, <1>2, <2>2 DEF TypeOK
    <3> QED BY <1>2, <3>1 DEF Host, Prefix
  <2> QED BY <2>1, <2>2
<1> QED BY <1>1, <1>3, <1>4 DEF Inv, InCall, Prefilling, Cached, Drafted, Preparing, Drafting

-----------------------------------------------------------------------------
(* Propose.                                                                *)

LEMMA TargetType ==
  ASSUME NEW entries, IsBatch(entries), NEW b \in 0..Len(entries)-1,
         NEW i \in 0..entries[b+1].len-1
  PROVE  /\ Target(entries[b+1], i) \in Labels /\ Shifted(entries[b+1], i) \in Labels
         /\ i < Kept(entries[b+1]) =>
              /\ Target(entries[b+1], i) = <<entries[b+1].req, entries[b+1].start + i>>
              /\ Shifted(entries[b+1], i) = <<entries[b+1].req, entries[b+1].start + i + 1>>
              /\ entries[b+1].start + i \in 0..MaxLen-1
<1> DEFINE e == entries[b+1]
<1>1. /\ e.req \in Requests /\ e.start \in Nat /\ e.len \in Nat
      /\ Kept(e) \in 1..e.len /\ End(e) = e.start + Kept(e) /\ End(e) \in 1..MaxLen-1
  <2> HIDE DEF e
  <2> QED BY EntryFacts DEF e
<1> HIDE DEF e
<1>2. i \in Nat
  BY <1>1 DEF e
<1>3. ASSUME NEW k \in Nat
      PROVE  Target(e, k) \in Labels /\ (k < Kept(e) => Target(e, k) = <<e.req, e.start + k>>)
  <2>1. <<e.req, e.start + k>> \in Labels /\ Junk \in Labels
    <3>1. e.start + k \in Nat
      BY <1>1, <1>3
    <3> QED BY <1>1, <3>1 DEF Labels
  <2> QED BY <2>1 DEF Target
<1>4. NextToken(e) = <<e.req, End(e)>> /\ NextToken(e) \in Labels
  BY <1>1 DEF NextToken, LastSampled, NextPrefill, Labels
<1>5. Shifted(e, i) \in Labels
  <2>1. Target(e, i+1) \in Labels /\ Junk \in Labels
    BY <1>2, <1>3 DEF Labels
  <2> QED BY <1>4, <2>1 DEF Shifted
<1>6. ASSUME i < Kept(e) PROVE Shifted(e, i) = <<e.req, e.start + i + 1>>
  <2>1. CASE i < Kept(e) - 1
    <3>0. Kept(e) \in Int /\ e.start \in Int
      BY <1>1
    <3>1. i+1 \in Nat /\ i+1 < Kept(e) /\ e.start + (i+1) = e.start + i + 1
      BY <1>2, <2>1, <3>0
    <3>2. Target(e, i+1) = <<e.req, e.start + (i+1)>>
      BY <1>3, <3>1
    <3> QED BY <2>1, <3>1, <3>2 DEF Shifted
  <2>2. CASE i = Kept(e) - 1
    <3>1. ~(i < Kept(e) - 1) /\ End(e) = e.start + i + 1
      BY <1>1, <1>2, <2>2
    <3> QED BY <1>4, <2>2, <3>1 DEF Shifted
  <2> QED BY <1>1, <1>2, <1>6, <2>1, <2>2
<1>7. i < Kept(e) => e.start + i \in 0..MaxLen-1
  BY <1>1, <1>2
<1> QED BY <1>2, <1>3, <1>5, <1>6, <1>7 DEF e

LEMMA ProposeRows ==
  ASSUME TypeOK, NEW entries, IsBatch(entries), NEW n \in 1..Steps, Propose(entries, n)
  PROVE  /\ \A b \in 0..Len(entries)-1 : \A i \in 0..entries[b+1].len-1 :
              LET t == Starts(entries)[b] + i
                  e == entries[b+1]
              IN /\ hidden'[t] = Target(e, i) /\ inputIds'[t] = Shifted(e, i)
                 /\ positions'[t] = IF i < Kept(e) THEN e.start + i ELSE positions[t]
         /\ hidden' \in [TokenRows -> Labels] /\ inputIds' \in [TokenRows -> Labels]
         /\ positions' \in [TokenRows -> 0..MaxLen-1]
<1> DEFINE starts == Starts(entries)
           owned == {t \in TokenRows : RowOf(starts, t) # {}}
           entry == [t \in owned |-> entries[RowAt(starts, t) + 1]]
           index == [t \in owned |-> t - starts[RowAt(starts, t)]]
<1>1. /\ hidden' = [t \in TokenRows |->
           IF t \in owned THEN Target(entry[t], index[t]) ELSE Junk]
      /\ inputIds' = [t \in TokenRows |->
           IF t \in owned THEN Shifted(entry[t], index[t]) ELSE Junk]
      /\ positions' = [t \in TokenRows |->
           IF t \in owned /\ index[t] < Kept(entry[t]) THEN entry[t].start + index[t]
           ELSE positions[t]]
  BY DEF Propose
<1>2. ASSUME NEW t \in owned
      PROVE  \E b \in 0..Len(entries)-1 : \E i \in 0..entries[b+1].len-1 :
               t = starts[b] + i /\ entry[t] = entries[b+1] /\ index[t] = i
  <2>1. t \in TokenRows /\ RowOf(starts, t) # {}
    OBVIOUS
  <2> DEFINE b == RowAt(starts, t)
             i == t - starts[b]
  <2>2. b \in 0..Len(entries)-1 /\ i \in 0..entries[b+1].len-1
    BY <2>1, RowOwner
  <2>3. entry[t] = entries[b+1] /\ index[t] = i
    OBVIOUS
  <2> HIDE DEF b, entry, index, owned
  <2>4. starts[b] \in Nat /\ t \in Int
    BY <2>1, <2>2, EntryFacts DEF TokenRows
  <2>5. t = starts[b] + i
    BY <2>4
  <2> QED BY <2>2, <2>3, <2>5
<1>3. ASSUME NEW b \in 0..Len(entries)-1, NEW i \in 0..entries[b+1].len-1
      PROVE  /\ starts[b] + i \in owned /\ starts[b] + i \in TokenRows
             /\ entry[starts[b] + i] = entries[b+1] /\ index[starts[b] + i] = i
  <2>1. PICK t : t = starts[b] + i
    OBVIOUS
  <2>2. t \in TokenRows /\ RowOf(starts, t) = {b} /\ RowAt(starts, t) = b
    BY <2>1, RowFacts
  <2>3. t \in owned
    BY <2>2
  <2>4. entry[t] = entries[b+1] /\ index[t] = t - starts[b]
    BY <2>2, <2>3
  <2>5. starts[b] \in Nat /\ i \in Int
    BY EntryFacts DEF Capacity
  <2> HIDE DEF entry, index, owned, starts
  <2>6. index[t] = i
    BY <2>1, <2>4, <2>5
  <2> QED BY <2>1, <2>2, <2>3, <2>4, <2>6
<1> HIDE DEF entry, index, owned
<1>4. ASSUME NEW b \in 0..Len(entries)-1, NEW i \in 0..entries[b+1].len-1
      PROVE  LET t == starts[b] + i
                 e == entries[b+1]
             IN /\ hidden'[t] = Target(e, i) /\ inputIds'[t] = Shifted(e, i)
                /\ positions'[t] = IF i < Kept(e) THEN e.start + i ELSE positions[t]
  <2> HIDE DEF starts
  <2> QED BY <1>1, <1>3
<1>5. ASSUME NEW t \in TokenRows
      PROVE  /\ hidden'[t] \in Labels /\ inputIds'[t] \in Labels
             /\ positions'[t] \in 0..MaxLen-1
  <2>1. CASE t \in owned
    <3>0. PICK b \in 0..Len(entries)-1 : \E i \in 0..entries[b+1].len-1 : t = starts[b] + i
      BY <1>2, <2>1
    <3>1. PICK i \in 0..entries[b+1].len-1 : t = starts[b] + i
      BY <3>0
    <3>2. /\ Target(entries[b+1], i) \in Labels /\ Shifted(entries[b+1], i) \in Labels
          /\ i < Kept(entries[b+1]) => entries[b+1].start + i \in 0..MaxLen-1
      BY <3>1, TargetType
    <3>3. positions[t] \in 0..MaxLen-1
      BY DEF TypeOK
    <3> HIDE DEF starts
    <3> QED BY <1>4, <3>1, <3>2, <3>3
  <2>2. CASE t \notin owned
    <3>1. positions[t] \in 0..MaxLen-1 /\ Junk \in Labels
      BY DEF TypeOK, Labels
    <3> QED BY <1>1, <2>2, <3>1
  <2> QED BY <2>1, <2>2
<1>6. /\ hidden' \in [TokenRows -> Labels] /\ inputIds' \in [TokenRows -> Labels]
      /\ positions' \in [TokenRows -> 0..MaxLen-1]
  BY <1>1, <1>5
<1> QED BY <1>4, <1>6

LEMMA ProposeInv ==
  ASSUME Inv, NEW entries \in Batches, NEW n \in 1..Steps, Propose(entries, n)
  PROVE  Inv'
<1> DEFINE starts == Starts(entries)
<1>1. TypeOK /\ Host /\ Prefix
  BY DEF Inv
<1>2. IsBatch(entries) /\ entries \in Seq(Entries) /\ Len(entries) \in 1..MaxReqs
  BY <1>1, BatchesAreBatches DEF IsBatch
<1>3. /\ phase' = "prefill" /\ batch' = entries /\ num' = n /\ step' = 0
      /\ queryStart' = starts
      /\ UNCHANGED <<prompt, computed, offered, graph, draftTokens, logits, kv>>
  BY DEF Propose, requestVars
<1>4. seqLens' = [b \in Rows |->
        IF b < Len(entries) THEN entries[b + 1].start + entries[b + 1].len ELSE 0]
  BY DEF Propose
<1>5. lastIndex' = [b \in Rows |->
        IF b < Len(entries) THEN starts[b] + Kept(entries[b + 1]) - 1 ELSE 0]
  BY DEF Propose
<1>6. idxMapping' = [b \in Rows |->
        IF b < Len(entries) THEN entries[b + 1].req ELSE idxMapping[b]]
  BY DEF Propose
<1>7. ASSUME NEW b \in 0..Len(entries)-1
      PROVE  LET e == entries[b+1] IN
             /\ b \in Rows /\ e \in Entries /\ e.req \in Requests /\ e.start \in Nat /\ e.len \in Nat
             /\ Kept(e) \in 1..e.len /\ End(e) = e.start + Kept(e) /\ End(e) \in 1..MaxLen-1
             /\ e.start + e.len <= MaxLen - 1 /\ starts[b] \in Nat
  BY <1>2, EntryFacts DEF IsEntry
<1>8. \A b \in Rows : b < Len(entries) => b \in 0..Len(entries)-1
  BY <1>2 DEF Rows
<1>9. starts \in [0..MaxReqs -> Nat]
  BY <1>2, StartsDef
<1>10. ASSUME NEW b \in 0..Len(entries)-1 PROVE starts[b] + Kept(entries[b+1]) - 1 \in TokenRows
  <2>0. Kept(entries[b+1]) \in 1..entries[b+1].len /\ entries[b+1].len \in Nat
    BY <1>7
  <2>1. PICK i \in 0..entries[b+1].len-1 : i = Kept(entries[b+1]) - 1
    BY <2>0
  <2>2. starts[b] + i \in TokenRows
    BY <1>2, RowFacts
  <2>3. starts[b] + i = starts[b] + Kept(entries[b+1]) - 1
    BY <1>7, <2>1
  <2> QED BY <2>2, <2>3
<1> HIDE DEF starts
<1>11. TypeOK'
  <2>1. seqLens' \in [Rows -> 0..MaxLen]
    <3>1. ASSUME NEW b \in Rows, b < Len(entries)
          PROVE  entries[b + 1].start + entries[b + 1].len \in 0..MaxLen
      <4>1. b \in 0..Len(entries)-1
        BY <1>8, <3>1
      <4>2. /\ entries[b + 1].start \in Nat /\ entries[b + 1].len \in Nat
            /\ entries[b + 1].start + entries[b + 1].len <= MaxLen - 1
        BY <1>7, <4>1
      <4> QED BY <4>2
    <3> QED BY <1>4, <3>1
  <2>2. lastIndex' \in [Rows -> TokenRows]
    <3>1. 0 \in TokenRows
      BY RowsInTokenRows
    <3> QED BY <1>5, <1>8, <1>10, <3>1
  <2>3. idxMapping' \in [Rows -> Requests]
    BY <1>1, <1>6, <1>7, <1>8 DEF TypeOK
  <2>4. /\ hidden' \in [TokenRows -> Labels] /\ inputIds' \in [TokenRows -> Labels]
        /\ positions' \in [TokenRows -> 0..MaxLen-1]
    BY <1>1, <1>2, ProposeRows
  <2>5. phase' \in Phases /\ step' \in Drafts
    BY <1>3, RowsInTokenRows DEF Phases
  <2> QED BY <1>1, <1>2, <1>3, <1>9, <2>1, <2>2, <2>3, <2>4, <2>5 DEF TypeOK
<1>12. Host' /\ Prefix'
  BY <1>1, <1>3 DEF Host, Prefix
<1>13. Active' = 0..Len(entries)-1
  BY <1>2, <1>3 DEF Active, Rows
<1>14. InCall'
  <2>1. IsBatch(batch)'
    BY <1>2, <1>3 DEF IsBatch, IsEntry
  <2>2. ASSUME NEW b \in 0..Len(entries)-1 PROVE idxMapping'[b] = entries[b + 1].req
    BY <1>6, <1>7, <2>2
  <2> QED BY <1>3, <1>13, <2>1, <2>2 DEF InCall
<1>15. Prefilling'
  <2> SUFFICES ASSUME NEW b \in 0..Len(entries)-1
               PROVE  /\ lastIndex'[b] = starts[b] + Kept(entries[b + 1]) - 1
                      /\ \A i \in 0..Kept(entries[b + 1])-1 :
                           Inputs(starts[b] + i, entries[b + 1].req, entries[b + 1].start + i)'
    BY <1>3, <1>13 DEF Prefilling, starts
  <2>1. lastIndex'[b] = starts[b] + Kept(entries[b + 1]) - 1
    BY <1>5, <1>7
  <2>2. ASSUME NEW i \in 0..Kept(entries[b + 1])-1
        PROVE  Inputs(starts[b] + i, entries[b + 1].req, entries[b + 1].start + i)'
    <3> DEFINE e == entries[b+1]
               t == starts[b] + i
    <3>1. i \in 0..e.len-1 /\ i < Kept(e)
      <4>1. Kept(e) \in 1..e.len /\ e.len \in Nat
        BY <1>7
      <4> QED BY <4>1
    <3>2. hidden'[t] = Target(e, i) /\ inputIds'[t] = Shifted(e, i) /\ positions'[t] = e.start + i
      BY <1>1, <1>2, <3>1, ProposeRows DEF starts
    <3>3. Target(e, i) = <<e.req, e.start + i>> /\ Shifted(e, i) = <<e.req, e.start + i + 1>>
      BY <1>2, <3>1, TargetType
    <3> QED BY <3>2, <3>3 DEF Inputs
  <2> QED BY <2>1, <2>2
<1>16. Cached' /\ Drafted' /\ Preparing' /\ Drafting'
  BY <1>3 DEF Cached, Drafted, Preparing, Drafting
<1> QED BY <1>11, <1>12, <1>14, <1>15, <1>16 DEF Inv

-----------------------------------------------------------------------------
(* What rows leave behind.                                                 *)

LEMMA AheadType ==
  ASSUME NEW place \in Labels, NEW d \in Nat
  PROVE  /\ Ahead(place, d) \in Labels
         /\ \A r \in Requests, p \in Nat : place = <<r, p>> => Ahead(place, d) = <<r, p + d>>
<1>1. CASE place = Junk
  BY <1>1 DEF Ahead, Labels, Junk
<1>2. CASE place # Junk
  <2>1. PICK r \in Requests, p \in Nat : place = <<r, p>>
    BY <1>2 DEF Labels
  <2>2. Ahead(place, d) = <<r, p + d>>
    BY <1>2, <2>1 DEF Ahead
  <2>3. <<r, p + d>> \in Labels
    BY DEF Labels
  <2> QED BY <2>1, <2>2, <2>3
<1> QED BY <1>1, <1>2

\* The logits of a sampled row go to its request, at this step.
LEMMA LogitsFacts ==
  ASSUME TypeOK, InCall, phase # "idle",
         NEW rows \in SUBSET Rows, Active \subseteq rows, NEW token \in [rows -> Labels]
  PROVE  /\ Logits(rows, token) \in [Requests -> [Drafts -> Labels]]
         /\ \A b \in Active, j \in Drafts :
              Logits(rows, token)[batch[b + 1].req][j] =
                IF j = step THEN token[b] ELSE logits[batch[b + 1].req][j]
<1> DEFINE Writers(r) == {b \in rows \cap Active : idxMapping[b] = r}
           At(r, j) == IF j = step /\ Writers(r) # {} THEN token[CHOOSE b \in Writers(r) : TRUE]
                                                      ELSE logits[r][j]
<1>1. Logits(rows, token) = [r \in Requests |-> [j \in Drafts |-> At(r, j)]]
  BY DEF Logits
<1>2. ASSUME NEW r \in Requests, NEW j \in Drafts PROVE At(r, j) \in Labels
  <2>1. logits[r][j] \in Labels
    BY DEF TypeOK
  <2>2. ASSUME Writers(r) # {} PROVE (CHOOSE b \in Writers(r) : TRUE) \in rows
    <3>1. (CHOOSE b \in Writers(r) : TRUE) \in Writers(r)
      BY <2>2
    <3> QED BY <3>1
  <2> HIDE DEF Writers
  <2> QED BY <2>1, <2>2
<1>3. ASSUME NEW b \in Active, NEW j \in Drafts
      PROVE  /\ batch[b + 1].req \in Requests
             /\ At(batch[b + 1].req, j) = IF j = step THEN token[b] ELSE logits[batch[b + 1].req][j]
  <2>1. \A c \in Active : idxMapping[c] = batch[c + 1].req
    BY DEF InCall
  <2>2. batch[b + 1].req \in Requests /\ \A c \in Active : batch[c + 1].req = batch[b + 1].req => c = b
    BY ActiveFacts
  <2>3. Writers(batch[b + 1].req) = {b}
    BY <2>1, <2>2
  <2> QED BY <2>2, <2>3
<1> HIDE DEF At
<1> QED BY <1>1, <1>2, <1>3

-----------------------------------------------------------------------------
(* The first forward.                                                      *)

\* It writes the kept tokens of every request of the call, rejected rows spoil
\* nothing below them, and other requests are left alone.
LEMMA PrefillCacheFacts ==
  ASSUME Inv, phase = "prefill"
  PROVE  /\ PrefillCache \in [Requests -> [0..MaxLen-1 -> Marks]]
         /\ \A b \in Active : \A p \in 0..End(batch[b + 1])-1 :
              PrefillCache[batch[b + 1].req][p] = "target"
         /\ \A r \in Requests : (\A b \in Active : batch[b + 1].req # r) =>
              \A p \in 0..MaxLen-1 : PrefillCache[r][p] = kv[r][p]
<1> DEFINE qs == queryStart
           tokens == {t \in TokenRows : RowOf(qs, t) # {}}
           slot == [t \in tokens |-> PrefillSlot(t, RowAt(qs, t))]
           Writers(r, p) == {t \in tokens : slot[t] = <<r, p>>}
           Mark(r, p) == IF Writers(r, p) = {} THEN kv[r][p]
                         ELSE IF \A t \in Writers(r, p) : Inputs(t, r, p) THEN "target"
                         ELSE "junk"
<1>1. PrefillCache = [r \in Requests |-> [p \in 0..MaxLen-1 |-> Mark(r, p)]]
  BY DEF PrefillCache
<1>2. /\ TypeOK /\ InCall /\ Prefix /\ qs = Starts(batch) /\ IsBatch(batch)
      /\ Active = 0..Len(batch)-1
      /\ \A b \in Active : \A i \in 0..Kept(batch[b + 1])-1 :
           Inputs(qs[b] + i, batch[b + 1].req, batch[b + 1].start + i)
  <2>1. TypeOK /\ InCall /\ Prefix /\ phase # "idle"
    BY DEF Inv
  <2>2. IsBatch(batch) /\ Prefilling
    BY <2>1 DEF Inv, InCall
  <2> QED BY <2>1, <2>2, ActiveOf DEF Prefilling
<1>3. ASSUME NEW t \in tokens
      PROVE  \E b \in Active : \E i \in 0..batch[b + 1].len-1 :
               t = qs[b] + i /\ slot[t] = <<batch[b + 1].req, batch[b + 1].start + i>>
  <2> DEFINE b == RowAt(qs, t)
             i == t - qs[b]
  <2>1. t \in TokenRows /\ RowOf(Starts(batch), t) # {}
    BY <1>2
  <2>2. b \in Active /\ i \in 0..batch[b + 1].len-1
    BY <1>2, <2>1, RowOwner
  <2>3. slot[t] = <<batch[b + 1].req, batch[b + 1].start + t - qs[b]>>
    BY DEF PrefillSlot
  <2>4. batch[b + 1].start \in Nat /\ qs[b] \in Nat /\ t \in Int
    BY <1>2, <2>1, <2>2, EntryFacts DEF TokenRows
  <2> HIDE DEF b, slot, tokens, qs
  <2>5. t = qs[b] + i /\ batch[b + 1].start + t - qs[b] = batch[b + 1].start + i
    BY <2>4
  <2> QED BY <2>2, <2>3, <2>5
<1>4. ASSUME NEW b \in Active, NEW i \in 0..batch[b + 1].len-1
      PROVE  /\ qs[b] + i \in tokens
             /\ slot[qs[b] + i] = <<batch[b + 1].req, batch[b + 1].start + i>>
  <2>1. PICK t : t = qs[b] + i
    OBVIOUS
  <2>2. t \in TokenRows /\ RowOf(qs, t) = {b} /\ RowAt(qs, t) = b
    BY <1>2, <2>1, RowFacts
  <2>3. t \in tokens /\ slot[t] = <<batch[b + 1].req, batch[b + 1].start + t - qs[b]>>
    BY <2>2 DEF PrefillSlot
  <2>4. batch[b + 1].start \in Nat /\ qs[b] \in Nat /\ i \in Int
    BY <1>2, EntryFacts
  <2> HIDE DEF slot, tokens, qs
  <2>5. batch[b + 1].start + t - qs[b] = batch[b + 1].start + i
    BY <2>1, <2>4
  <2> QED BY <2>1, <2>3, <2>5
<1> HIDE DEF qs, slot, tokens
<1>5. ASSUME NEW b \in Active, NEW p \in 0..End(batch[b + 1])-1
      PROVE  /\ batch[b + 1].req \in Requests /\ p \in 0..MaxLen-1
             /\ Mark(batch[b + 1].req, p) = "target"
  <2> DEFINE e == batch[b + 1]
  <2>1. /\ e.req \in Requests /\ e.start \in Nat /\ e.len \in Nat /\ prompt[e.req] > 0
        /\ e.start = computed[e.req] /\ Kept(e) \in 1..e.len
        /\ End(e) = e.start + Kept(e) /\ End(e) \in 1..MaxLen-1
        /\ \A c \in Active : batch[c + 1].req = e.req => c = b
    BY <1>2, ActiveFacts DEF InCall
  <2>2. ASSUME NEW t \in Writers(e.req, p)
        PROVE  \E i \in 0..e.len-1 : t = qs[b] + i /\ p = e.start + i
    <3>1. t \in tokens /\ slot[t] = <<e.req, p>>
      OBVIOUS
    <3>2. PICK c \in Active : \E i \in 0..batch[c + 1].len-1 :
            t = qs[c] + i /\ slot[t] = <<batch[c + 1].req, batch[c + 1].start + i>>
      BY <1>3, <3>1
    <3>3. PICK i \in 0..batch[c + 1].len-1 :
            t = qs[c] + i /\ slot[t] = <<batch[c + 1].req, batch[c + 1].start + i>>
      BY <3>2
    <3>4. batch[c + 1].req = e.req /\ batch[c + 1].start + i = p
      BY <3>1, <3>3
    <3>5. c = b
      BY <2>1, <3>4
    <3> QED BY <3>3, <3>4, <3>5
  <2> HIDE DEF e, Writers
  <2>3. p \in Nat /\ p < End(e) /\ p \in 0..MaxLen-1
    BY <2>1 DEF e
  <2>4. CASE p < e.start
    <3>1. Writers(e.req, p) = {}
      <4> SUFFICES ASSUME NEW t \in Writers(e.req, p) PROVE FALSE
        OBVIOUS
      <4>1. PICK i \in 0..e.len-1 : p = e.start + i
        BY <2>2
      <4> QED BY <2>1, <2>4, <4>1
    <3>2. kv[e.req][p] = "target"
      BY <1>2, <2>1, <2>3, <2>4 DEF Prefix
    <3> QED BY <2>1, <2>3, <3>1, <3>2 DEF e
  <2>5. CASE ~(p < e.start)
    <3>1. PICK i \in 0..Kept(e)-1 : i = p - e.start
      BY <2>1, <2>3, <2>5
    <3>2. i \in 0..e.len-1 /\ e.start + i = p /\ i \in Nat
      BY <2>1, <2>3, <3>1
    <3>3. qs[b] + i \in Writers(e.req, p)
      BY <1>4, <3>2 DEF e, Writers
    <3>4. ASSUME NEW t \in Writers(e.req, p) PROVE Inputs(t, e.req, p)
      <4>1. PICK j \in 0..e.len-1 : t = qs[b] + j /\ p = e.start + j
        BY <2>2
      <4>2. j = i
        BY <2>1, <3>1, <4>1
      <4>3. Inputs(qs[b] + i, e.req, e.start + i)
        BY <1>2, <3>1 DEF e
      <4> QED BY <3>2, <4>1, <4>2, <4>3
    <3>5. Mark(e.req, p) = "target"
      BY <3>3, <3>4
    <3> QED BY <2>1, <2>3, <3>5 DEF e
  <2> QED BY <2>4, <2>5
<1>6. ASSUME NEW r \in Requests, \A b \in Active : batch[b + 1].req # r, NEW p \in 0..MaxLen-1
      PROVE  Mark(r, p) = kv[r][p]
  <2>1. ASSUME NEW t \in Writers(r, p) PROVE FALSE
    <3>1. t \in tokens /\ slot[t] = <<r, p>>
      OBVIOUS
    <3>2. PICK b \in Active : \E i \in 0..batch[b + 1].len-1 :
            t = qs[b] + i /\ slot[t] = <<batch[b + 1].req, batch[b + 1].start + i>>
      BY <1>3, <3>1
    <3> QED BY <1>6, <3>1, <3>2
  <2> HIDE DEF Writers
  <2> QED BY <2>1
<1>7. ASSUME NEW r \in Requests, NEW p \in 0..MaxLen-1 PROVE Mark(r, p) \in Marks
  <2>1. kv[r][p] \in Marks
    BY <1>2 DEF TypeOK
  <2> HIDE DEF Writers
  <2> QED BY <2>1 DEF Marks
<1> HIDE DEF Mark
<1> QED BY <1>1, <1>5, <1>6, <1>7

\* A row of the call samples at the last kept token of its request.
LEMMA PrefillPlaceFacts ==
  ASSUME Inv, phase = "prefill"
  PROVE  /\ \A b \in Rows : PrefillPlace(PrefillCache, b) \in Labels
         /\ \A b \in Active : /\ PrefillPlace(PrefillCache, b)
                                    = <<batch[b + 1].req, End(batch[b + 1]) - 1>>
                              /\ positions[lastIndex[b]] = End(batch[b + 1]) - 1
<1>1. /\ TypeOK /\ InCall /\ phase # "idle" /\ Prefilling
      /\ IsBatch(batch) /\ Active = 0..Len(batch)-1
  BY ActiveOf DEF Inv, InCall
<1> DEFINE E(b) == batch[RowAt(queryStart, lastIndex[b]) + 1]
           P(b) == E(b).start + lastIndex[b] - queryStart[RowAt(queryStart, lastIndex[b])]
<1>2. \A b : PrefillPlace(PrefillCache, b) =
        IF Inputs(lastIndex[b], E(b).req, P(b)) /\ Context(PrefillCache, E(b).req, P(b))
        THEN <<E(b).req, P(b)>> ELSE Junk
  BY DEF PrefillPlace
<1>3. ASSUME NEW b \in Active
      PROVE  /\ RowAt(queryStart, lastIndex[b]) = b
             /\ P(b) = End(batch[b + 1]) - 1
             /\ Inputs(lastIndex[b], batch[b + 1].req, End(batch[b + 1]) - 1)
  <2> DEFINE e == batch[b + 1]
  <2>1. /\ e.start \in Nat /\ e.len \in Nat /\ Kept(e) \in 1..e.len
        /\ End(e) = e.start + Kept(e)
    BY <1>1, ActiveFacts
  <2>2. lastIndex[b] = queryStart[b] + Kept(e) - 1 /\ queryStart = Starts(batch)
    BY <1>1 DEF Prefilling
  <2>3. queryStart[b] \in Nat
    BY <1>1, <2>2, EntryFacts
  <2> HIDE DEF e
  <2>4. PICK i \in 0..Kept(e)-1 : i = Kept(e) - 1
    BY <2>1
  <2>5. lastIndex[b] = queryStart[b] + i /\ i \in 0..e.len-1 /\ e.start + i = End(e) - 1
    BY <2>1, <2>2, <2>3, <2>4
  <2>6. RowAt(queryStart, lastIndex[b]) = b
    BY <1>1, <2>2, <2>5, RowFacts DEF e
  <2>7. P(b) = e.start + lastIndex[b] - queryStart[b]
    BY <2>6 DEF e
  <2>8. Inputs(queryStart[b] + i, e.req, e.start + i)
    BY <1>1, <2>4 DEF Prefilling, e
  <2> HIDE DEF P
  <2>9. P(b) = End(e) - 1
    BY <2>1, <2>3, <2>5, <2>7
  <2> QED BY <2>5, <2>6, <2>8, <2>9 DEF e
<1>4. ASSUME NEW b \in Active
      PROVE  PrefillPlace(PrefillCache, b) = <<batch[b + 1].req, End(batch[b + 1]) - 1>>
  <2> DEFINE e == batch[b + 1]
  <2>1. E(b) = e /\ P(b) = End(e) - 1 /\ Inputs(lastIndex[b], e.req, End(e) - 1)
    BY <1>3
  <2>2. EndOf(e.req) = End(e) /\ End(e) \in Nat
    <3>1. EndOf(e.req) = End(e) /\ End(e) \in 1..MaxLen-1
      BY <1>1, ActiveFacts
    <3> HIDE DEF e
    <3> QED BY <3>1
  <2>3. \A x \in 0..End(e)-1 : PrefillCache[e.req][x] = "target"
    BY PrefillCacheFacts
  <2> HIDE DEF e, E, P
  <2>4. Context(PrefillCache, e.req, End(e) - 1)
    BY <2>2, <2>3 DEF Context
  <2> QED BY <1>2, <2>1, <2>4 DEF e
<1>5. ASSUME NEW b \in Active PROVE positions[lastIndex[b]] = End(batch[b + 1]) - 1
  BY <1>3 DEF Inputs
<1>6. ASSUME NEW b \in Rows PROVE PrefillPlace(PrefillCache, b) \in Labels
  <2> HIDE DEF E, P
  <2>1. CASE Inputs(lastIndex[b], E(b).req, P(b))
    <3>1. lastIndex[b] \in TokenRows
      BY <1>1 DEF TypeOK
    <3>2. positions[lastIndex[b]] \in 0..MaxLen-1 /\ inputIds[lastIndex[b]] \in Labels
      BY <1>1, <3>1 DEF TypeOK
    <3>3. P(b) \in Nat /\ <<E(b).req, P(b) + 1>> \in Labels
      BY <2>1, <3>2 DEF Inputs
    <3>4. E(b).req \in Requests
      BY <3>3 DEF Labels, Junk
    <3>5. <<E(b).req, P(b)>> \in Labels /\ Junk \in Labels
      BY <3>3, <3>4 DEF Labels
    <3> QED BY <1>2, <3>5
  <2>2. CASE ~Inputs(lastIndex[b], E(b).req, P(b))
    <3>1. Junk \in Labels
      BY DEF Labels
    <3> QED BY <1>2, <2>2, <3>1
  <2> QED BY <2>1, <2>2
<1> QED BY <1>4, <1>5, <1>6

LEMMA PrefillInv ==
  ASSUME Inv, NEW full \in BOOLEAN, Prefill(full)
  PROVE  Inv'
<1> DEFINE rows == IF full THEN Rows ELSE Active
           place == [b \in rows |-> PrefillPlace(PrefillCache, b)]
           ahead(d) == [b \in rows |-> Ahead(place[b], d)]
<1>1. /\ phase = "prefill" /\ kv' = PrefillCache
      /\ draftTokens' = [b \in Rows |->
           IF b \in rows THEN [draftTokens[b] EXCEPT ![0] = Ahead(place[b], 2)] ELSE draftTokens[b]]
      /\ logits' = Logits(rows, ahead(2))
      /\ hidden' = [t \in TokenRows |-> IF t \in rows THEN Ahead(place[t], 1) ELSE hidden[t]]
      /\ positions' = [t \in TokenRows |-> IF t \in rows THEN positions[lastIndex[t]] ELSE positions[t]]
      /\ phase' = IF num = 1 THEN "returned" ELSE "prepare"
      /\ UNCHANGED <<prompt, computed, offered, batch, num, graph, inputIds, queryStart, seqLens,
                     lastIndex, idxMapping, step>>
  BY DEF Prefill, requestVars, callVars, rowVars
<1>2. TypeOK /\ Host /\ Prefix /\ InCall /\ Prefilling /\ phase # "idle"
  BY <1>1 DEF Inv
<1>3. step = 0 /\ IsBatch(batch)
  BY <1>1, <1>2 DEF Prefilling, InCall
<1>4. Active \subseteq Rows /\ Active \subseteq rows /\ rows \in SUBSET Rows
  BY <1>2, ActiveOf
<1>5. /\ \A b \in rows : place[b] = PrefillPlace(PrefillCache, b) /\ place[b] \in Labels
      /\ \A b \in Active : /\ place[b] = <<batch[b + 1].req, End(batch[b + 1]) - 1>>
                           /\ positions[lastIndex[b]] = End(batch[b + 1]) - 1
  BY <1>1, <1>4, PrefillPlaceFacts
<1>6. /\ PrefillCache \in [Requests -> [0..MaxLen-1 -> Marks]]
      /\ \A b \in Active : \A p \in 0..End(batch[b + 1])-1 :
           PrefillCache[batch[b + 1].req][p] = "target"
      /\ \A r \in Requests : (\A b \in Active : batch[b + 1].req # r) =>
           \A p \in 0..MaxLen-1 : PrefillCache[r][p] = kv[r][p]
  BY <1>1, PrefillCacheFacts
<1> HIDE DEF rows, place
<1>7. \A b \in rows, d \in Nat : Ahead(place[b], d) \in Labels
  BY <1>5, AheadType
<1>8. PICK token \in [rows -> Labels] : token = ahead(2)
  BY <1>7
<1>9. /\ logits' \in [Requests -> [Drafts -> Labels]]
      /\ \A b \in Active, j \in Drafts :
           logits'[batch[b + 1].req][j] =
             IF j = step THEN token[b] ELSE logits[batch[b + 1].req][j]
  <2>1. logits' = Logits(rows, token)
    BY <1>1, <1>8
  <2>2. /\ Logits(rows, token) \in [Requests -> [Drafts -> Labels]]
        /\ \A b \in Active, j \in Drafts :
             Logits(rows, token)[batch[b + 1].req][j] =
               IF j = step THEN token[b] ELSE logits[batch[b + 1].req][j]
    BY <1>2, <1>4, LogitsFacts
  <2> QED BY <2>1, <2>2
<1>10. TypeOK'
  <2>1. draftTokens' \in [Rows -> [Drafts -> Labels]]
    <3>1. 0 \in Drafts
      BY RowsInTokenRows
    <3>2. ASSUME NEW b \in Rows
          PROVE  /\ draftTokens[b] \in [Drafts -> Labels]
                 /\ b \in rows => [draftTokens[b] EXCEPT ![0] = Ahead(place[b], 2)] \in [Drafts -> Labels]
      BY <1>2, <1>7, <3>1 DEF TypeOK
    <3> QED BY <1>1, <3>2
  <2>2. hidden' \in [TokenRows -> Labels]
    BY <1>1, <1>2, <1>7 DEF TypeOK
  <2>3. positions' \in [TokenRows -> 0..MaxLen-1]
    <3>1. \A t \in rows : positions[lastIndex[t]] \in 0..MaxLen-1
      BY <1>2, <1>4 DEF TypeOK
    <3> QED BY <1>1, <1>2, <3>1 DEF TypeOK
  <2>4. phase' \in Phases
    BY <1>1 DEF Phases
  <2> QED BY <1>1, <1>2, <1>6, <1>9, <2>1, <2>2, <2>3, <2>4 DEF TypeOK
<1>11. Host'
  BY <1>1, <1>2 DEF Host
<1>12. Prefix'
  <2> SUFFICES ASSUME NEW r \in Requests, prompt[r] > 0, NEW p \in 0..computed[r]-1
               PROVE  PrefillCache[r][p] = "target"
    BY <1>1 DEF Prefix
  <2>1. computed[r] \in Nat /\ computed[r] <= MaxLen - 2 /\ p \in 0..MaxLen-1 /\ kv[r][p] = "target"
    BY <1>2 DEF TypeOK, Host, Prefix
  <2>2. CASE \A b \in Active : batch[b + 1].req # r
    BY <1>6, <2>1, <2>2
  <2>3. CASE \E b \in Active : batch[b + 1].req = r
    <3>1. PICK b \in Active : batch[b + 1].req = r
      BY <2>3
    <3> DEFINE e == batch[b + 1]
    <3>2. e.start = computed[r] /\ Kept(e) \in 1..e.len /\ e.len \in Nat /\ End(e) = e.start + Kept(e)
      BY <1>2, <3>1, ActiveFacts
    <3> HIDE DEF e
    <3>3. p \in 0..End(e)-1
      BY <2>1, <3>2
    <3> QED BY <1>6, <3>1, <3>3 DEF e
  <2> QED BY <2>2, <2>3
<1>13. Active' = Active
  BY <1>1 DEF Active
<1>14. InCall'
  <2>1. IsBatch(batch)'
    BY <1>1, <1>3 DEF IsBatch, IsEntry
  <2> QED BY <1>1, <1>2, <1>13, <2>1 DEF InCall
<1>15. Prefilling' /\ Drafting'
  BY <1>1 DEF Prefilling, Drafting
<1>16. Cached'
  BY <1>1, <1>6, <1>13 DEF Cached, End, Kept
<1>17. ASSUME NEW b \in Active PROVE DraftsOf(b, 1)'
  <2> DEFINE draft == <<batch[b + 1].req, End(batch[b + 1]) + 1>>
  <2>1. b \in Rows /\ b \in rows /\ batch[b + 1].req \in Requests /\ End(batch[b + 1]) \in 1..MaxLen-1
    BY <1>2, <1>4, ActiveFacts
  <2>2. place[b] = <<batch[b + 1].req, End(batch[b + 1]) - 1>> /\ place[b] \in Labels
    BY <1>4, <1>5
  <2>3. Ahead(place[b], 2) = <<batch[b + 1].req, End(batch[b + 1]) - 1 + 2>>
    <3>1. End(batch[b + 1]) - 1 \in Nat
      BY <2>1
    <3> QED BY <2>1, <2>2, <3>1, AheadType
  <2>4. Ahead(place[b], 2) = draft
    <3>1. End(batch[b + 1]) - 1 + 2 = End(batch[b + 1]) + 1
      BY <2>1
    <3> QED BY <2>3, <3>1
  <2>5. draftTokens'[b][0] = draft
    <3>1. draftTokens[b] \in [Drafts -> Labels] /\ 0 \in Drafts
      BY <1>2, <2>1, RowsInTokenRows DEF TypeOK
    <3> QED BY <1>1, <2>1, <2>4, <3>1
  <2>6. logits'[batch[b + 1].req][0] = draft
    <3>1. token[b] = draft
      BY <1>8, <2>1, <2>4
    <3> QED BY <1>3, <1>9, <3>1, RowsInTokenRows
  <2>7. draft = <<batch[b + 1].req, End(batch[b + 1]) + 1 + 0>>
    BY <2>1
  <2>8. \A j \in 0..1-1 : j = 0
    OBVIOUS
  <2> HIDE DEF draft
  <2> QED BY <1>1, <2>5, <2>6, <2>7, <2>8 DEF DraftsOf, End, Kept
<1>18. Drafted'
  BY <1>1, <1>13, <1>17 DEF Drafted
<1>19. Preparing'
  <2> SUFFICES ASSUME num # 1
               PROVE  /\ num > 1
                      /\ \A b \in Active : /\ positions'[b] = End(batch[b + 1]) - 1
                                           /\ hidden'[b] = <<batch[b + 1].req, End(batch[b + 1])>>
    BY <1>1, <1>3, <1>13 DEF Preparing, End, Kept
  <2>1. num > 1
    BY <1>2 DEF TypeOK
  <2>2. ASSUME NEW b \in Active
        PROVE  /\ positions'[b] = End(batch[b + 1]) - 1
               /\ hidden'[b] = <<batch[b + 1].req, End(batch[b + 1])>>
    <3>1. b \in TokenRows /\ b \in rows /\ batch[b + 1].req \in Requests /\ End(batch[b + 1]) \in 1..MaxLen-1
      BY <1>2, <1>4, ActiveFacts
    <3>2. Ahead(place[b], 1) = <<batch[b + 1].req, End(batch[b + 1]) - 1 + 1>>
      <4>1. End(batch[b + 1]) - 1 \in Nat
        BY <3>1
      <4>2. place[b] = <<batch[b + 1].req, End(batch[b + 1]) - 1>> /\ place[b] \in Labels
        BY <1>5, <3>1
      <4> QED BY <3>1, <4>1, <4>2, AheadType
    <3>3. End(batch[b + 1]) - 1 + 1 = End(batch[b + 1])
      BY <3>1
    <3> QED BY <1>1, <1>5, <3>1, <3>2, <3>3
  <2> QED BY <2>1, <2>2
<1> QED BY <1>10, <1>11, <1>12, <1>14, <1>15, <1>16, <1>18, <1>19 DEF Inv

-----------------------------------------------------------------------------
(* The draft steps.                                                        *)

LEMMA PrepareInv ==
  ASSUME Inv, NEW full \in BOOLEAN, PrepareDecode(full)
  PROVE  Inv'
<1>1. /\ phase = "prepare" /\ phase' = "draft" /\ step' = 1 /\ graph' = full
      /\ inputIds' = [t \in TokenRows |-> IF t \in Active THEN draftTokens[t][0] ELSE inputIds[t]]
      /\ positions' = [t \in TokenRows |->
           IF t \in Active THEN NextPosition(positions[t]) ELSE positions[t]]
      /\ queryStart' = [b \in 0..MaxReqs |-> Least(b, Len(batch))]
      /\ seqLens' = [b \in Rows |->
           IF b \in Active
           THEN NextLength(batch[b + 1].start + batch[b + 1].len - batch[b + 1].rejected) ELSE 0]
      /\ UNCHANGED <<prompt, computed, offered, batch, num, hidden, lastIndex, idxMapping,
                     draftTokens, logits, kv>>
  BY DEF PrepareDecode, requestVars
<1>2. /\ TypeOK /\ Host /\ Prefix /\ InCall /\ Cached /\ Drafted /\ Preparing /\ phase # "idle"
      /\ IsBatch(batch)
  BY <1>1 DEF Inv, InCall
<1>3. step = 0 /\ num > 1 /\ num \in 1..Steps
  BY <1>1, <1>2 DEF Preparing, TypeOK
<1>4. Active' = Active /\ Active \subseteq Rows /\ Len(batch) \in Nat
  BY <1>1, <1>2, ActiveOf DEF Active, IsBatch
<1>5. ASSUME NEW b \in Active
      PROVE  LET e == batch[b + 1] IN
             /\ b \in Rows /\ b \in TokenRows /\ e.req \in Requests /\ End(e) \in 1..MaxLen-1
             /\ inputIds'[b] = <<e.req, End(e) + 1>> /\ hidden'[b] = <<e.req, End(e)>>
             /\ positions'[b] = End(e) /\ seqLens'[b] = End(e) + 1
             /\ draftTokens[b][0] \in Labels
  <2> DEFINE e == batch[b + 1]
  <2>1. /\ b \in Rows /\ b \in TokenRows /\ e.req \in Requests /\ End(e) \in 1..MaxLen-1
        /\ End(e) = e.start + Kept(e) /\ Kept(e) = e.len - e.rejected
        /\ e.start \in Nat /\ e.len \in Nat /\ e.rejected \in Nat
    BY <1>2, ActiveFacts DEF Kept, Entries
  <2>2. positions[b] = End(e) - 1 /\ hidden[b] = <<e.req, End(e)>>
    BY <1>1, <1>2 DEF Preparing
  <2>3. DraftsOf(b, 1)
    BY <1>1, <1>2 DEF Drafted
  <2> HIDE DEF e
  <2>4. draftTokens[b][0] = <<e.req, End(e) + 1 + 0>>
    <3>1. 0 \in 0..1-1 /\ End(e) + 0 <= MaxLen
      BY <2>1
    <3> QED BY <2>3, <3>1 DEF DraftsOf, e
  <2>5. End(e) + 1 + 0 = End(e) + 1
    BY <2>1
  <2>6. NextPosition(End(e) - 1) = End(e)
    BY <2>1 DEF NextPosition, Least
  <2>7. NextLength(e.start + e.len - e.rejected) = End(e) + 1
    BY <2>1 DEF NextLength, Least
  <2>8. inputIds'[b] = <<e.req, End(e) + 1>> /\ positions'[b] = End(e)
    BY <1>1, <2>1, <2>2, <2>4, <2>5, <2>6
  <2>9. seqLens'[b] = End(e) + 1
    BY <1>1, <2>1, <2>7 DEF e
  <2>10. draftTokens[b][0] \in Labels
    BY <1>2, <2>1, RowsInTokenRows DEF TypeOK
  <2> QED BY <1>1, <2>1, <2>2, <2>8, <2>9, <2>10 DEF e
<1>6. TypeOK'
  <2>1. inputIds' \in [TokenRows -> Labels]
    BY <1>1, <1>2, <1>5 DEF TypeOK
  <2>2. positions' \in [TokenRows -> 0..MaxLen-1]
    <3>1. ASSUME NEW t \in TokenRows PROVE positions'[t] \in 0..MaxLen-1
      <4>1. positions[t] \in 0..MaxLen-1
        BY <1>2 DEF TypeOK
      <4>2. NextPosition(positions[t]) \in 0..MaxLen-1
        BY <4>1 DEF NextPosition, Least
      <4> QED BY <1>1, <4>1, <4>2
    <3> QED BY <1>1, <3>1
  <2>3. seqLens' \in [Rows -> 0..MaxLen]
    <3>1. ASSUME NEW b \in Rows PROVE seqLens'[b] \in 0..MaxLen
      <4>1. CASE b \in Active
        <5>1. End(batch[b + 1]) \in 1..MaxLen-1 /\ seqLens'[b] = End(batch[b + 1]) + 1
          BY <1>5, <4>1
        <5> QED BY <5>1
      <4>2. CASE b \notin Active
        <5>1. seqLens'[b] = 0
          BY <1>1, <4>2
        <5> QED BY <5>1
      <4> QED BY <4>1, <4>2
    <3> QED BY <1>1, <3>1
  <2>4. queryStart' \in [0..MaxReqs -> Nat]
    BY <1>1, <1>4 DEF Least
  <2>5. phase' \in Phases /\ step' \in Drafts
    BY <1>1, <1>3 DEF Phases, Drafts
  <2> QED BY <1>1, <1>2, <2>1, <2>2, <2>3, <2>4, <2>5 DEF TypeOK
<1>7. Host' /\ Prefix'
  BY <1>1, <1>2 DEF Host, Prefix
<1>8. InCall'
  <2>1. IsBatch(batch)'
    BY <1>1, <1>2 DEF IsBatch, IsEntry
  <2> QED BY <1>1, <1>2, <1>4, <2>1 DEF InCall
<1>9. Prefilling' /\ Preparing'
  BY <1>1 DEF Prefilling, Preparing
<1>10. Cached'
  BY <1>1, <1>2, <1>4 DEF Cached, End, Kept
<1>11. Drafted'
  <2>1. ASSUME NEW b \in Active PROVE DraftsOf(b, 1)'
    <3>1. DraftsOf(b, 1)
      BY <1>1, <1>2 DEF Drafted
    <3> QED BY <1>1, <3>1 DEF DraftsOf, End, Kept
  <2> QED BY <1>1, <1>4, <2>1 DEF Drafted, DraftsOf
<1>12. Drafting'
  <2>1. ASSUME NEW b \in Active
        PROVE  /\ Reached(b)' = End(batch[b + 1])
               /\ positions'[b] = Least(End(batch[b + 1]), MaxLen - 1)
               /\ seqLens'[b] = positions'[b] + 1
               /\ Inputs(b, batch[b + 1].req, End(batch[b + 1]))'
    <3>1. End(batch[b + 1]) \in 1..MaxLen-1
      BY <1>5
    <3>2. Reached(b)' = End(batch[b + 1]) + 1 - 1
      BY <1>1 DEF Reached, End, Kept
    <3>3. Least(End(batch[b + 1]), MaxLen - 1) = End(batch[b + 1])
      BY <3>1 DEF Least
    <3>4. Inputs(b, batch[b + 1].req, End(batch[b + 1]))'
      BY <1>1, <1>5 DEF Inputs, End, Kept
    <3> QED BY <1>5, <3>1, <3>2, <3>3, <3>4
  <2>2. ASSUME NEW b \in Active, NEW p \in End(batch[b + 1])..End(batch[b + 1])-1 PROVE FALSE
    <3>1. End(batch[b + 1]) \in 1..MaxLen-1
      BY <1>5
    <3> QED BY <2>2, <3>1
  <2>3. step' \in 1..num'-1
    BY <1>1, <1>3
  <2>4. \A b \in 0..MaxReqs : queryStart'[b] = Least(b, Len(batch'))
    BY <1>1
  <2>5. ASSUME NEW b \in Active
        PROVE  /\ positions'[b] = Least(Reached(b)', MaxLen - 1)
               /\ seqLens'[b] = positions'[b] + 1
               /\ Inputs(b, batch[b + 1].req, Reached(b))'
               /\ \A p \in End(batch'[b + 1])..Reached(b)'-1 : kv'[batch'[b + 1].req][p] = "draft"
    <3>1. Reached(b)' = End(batch[b + 1]) /\ batch' = batch
      BY <1>1, <2>1
    <3>2. Inputs(b, batch[b + 1].req, Reached(b))'
      BY <1>1, <1>5, <3>1 DEF Inputs
    <3> QED BY <2>1, <2>2, <3>1, <3>2
  <2> QED BY <1>1, <1>4, <2>3, <2>4, <2>5 DEF Drafting
<1> QED BY <1>6, <1>7, <1>8, <1>9, <1>10, <1>11, <1>12 DEF Inv

\* A draft step writes the next slot of every request of the call, at or after
\* its new token, and the slots of no other request.
LEMMA DraftCacheFacts ==
  ASSUME Inv, phase = "draft"
  PROVE  /\ DraftCache \in [Requests -> [0..MaxLen-1 -> Marks]]
         /\ \A b \in Active :
              /\ \A p \in 0..End(batch[b + 1])-1 : DraftCache[batch[b + 1].req][p] = "target"
              /\ Reached(b) <= MaxLen - 1 =>
                   \A p \in End(batch[b + 1])..Reached(b) : DraftCache[batch[b + 1].req][p] = "draft"
         /\ \A r \in Requests : (\A b \in Active : batch[b + 1].req # r) =>
              \A p \in 0..MaxLen-1 : DraftCache[r][p] = kv[r][p]
<1> DEFINE Writers(r, p) == {b \in Active : RowOf(queryStart, b) = {b}
                                            /\ idxMapping[b] = r /\ positions[b] = p}
           Mark(r, p) == IF Writers(r, p) = {} THEN kv[r][p]
                         ELSE IF \A b \in Writers(r, p) : Inputs(b, r, p) THEN "draft" ELSE "junk"
<1>1. DraftCache = [r \in Requests |-> [p \in 0..MaxLen-1 |-> Mark(r, p)]]
  BY DEF DraftCache
<1>2. /\ TypeOK /\ InCall /\ Prefix /\ Cached /\ Drafting /\ phase # "idle"
      /\ Active = 0..Len(batch)-1 /\ Len(batch) \in 1..MaxReqs
      /\ \A b \in Active : idxMapping[b] = batch[b + 1].req
  BY ActiveOf DEF Inv, InCall, IsBatch
<1>3. ASSUME NEW b \in Active PROVE RowOf(queryStart, b) = {b}
  <2>1. \A c \in 0..MaxReqs : queryStart[c] = Least(c, Len(batch))
    BY <1>2 DEF Drafting
  <2>2. b \in 0..Len(batch)-1 /\ b \in Rows
    BY <1>2 DEF Rows
  <2>3. \A c \in Rows : c \in 0..MaxReqs /\ c+1 \in 0..MaxReqs
    BY DEF Rows
  <2>4. \A c \in Rows : /\ queryStart[c] = Least(c, Len(batch))
                        /\ queryStart[c + 1] = Least(c + 1, Len(batch))
    BY <2>1, <2>3
  <2>5. ASSUME NEW c \in Rows PROVE (queryStart[c] <= b /\ b < queryStart[c + 1]) <=> c = b
    <3>1. PICK n \in Nat : n = Len(batch)
      BY <1>2
    <3>2. queryStart[c] = Least(c, n) /\ queryStart[c + 1] = Least(c + 1, n)
      BY <2>4, <3>1
    <3>3. b \in Nat /\ b < n /\ c \in Nat
      BY <2>2, <3>1 DEF Rows
    <3>4. (Least(c, n) <= b /\ b < Least(c + 1, n)) <=> c = b
      BY <3>3 DEF Least
    <3> QED BY <3>2, <3>4
  <2> QED BY <2>2, <2>5 DEF RowOf
<1>4. ASSUME NEW b \in Active, NEW p
      PROVE  Writers(batch[b + 1].req, p) = IF positions[b] = p THEN {b} ELSE {}
  <2>1. \A c \in Active : batch[c + 1].req = batch[b + 1].req => c = b
    BY <1>2, ActiveFacts
  <2> QED BY <1>2, <1>3, <2>1
<1>5. ASSUME NEW b \in Active
      PROVE  /\ batch[b + 1].req \in Requests
             /\ End(batch[b + 1]) \in 1..MaxLen-1
             /\ Reached(b) \in Nat /\ Reached(b) >= End(batch[b + 1])
             /\ positions[b] \in Nat /\ positions[b] = Least(Reached(b), MaxLen - 1)
  <2>1. batch[b + 1].req \in Requests /\ End(batch[b + 1]) \in 1..MaxLen-1
    BY <1>2, ActiveFacts
  <2>2. step \in 1..num-1 /\ num \in 1..Steps /\ positions[b] = Least(Reached(b), MaxLen - 1)
    BY <1>2 DEF Drafting, TypeOK
  <2>3. Reached(b) \in Nat /\ Reached(b) >= End(batch[b + 1])
    BY <2>1, <2>2 DEF Reached
  <2>4. positions[b] \in Nat
    BY <2>1, <2>2, <2>3 DEF Least
  <2> QED BY <2>1, <2>2, <2>3, <2>4
<1>6. ASSUME NEW b \in Active, NEW p \in 0..End(batch[b + 1])-1
      PROVE  p \in 0..MaxLen-1 /\ Mark(batch[b + 1].req, p) = "target"
  <2>1. positions[b] # p /\ p \in 0..MaxLen-1
    BY <1>5 DEF Least
  <2>2. Writers(batch[b + 1].req, p) = {}
    BY <1>4, <2>1
  <2>3. kv[batch[b + 1].req][p] = "target"
    BY <1>2 DEF Cached
  <2> QED BY <2>1, <2>2, <2>3
<1>7. ASSUME NEW b \in Active, Reached(b) <= MaxLen - 1, NEW p \in End(batch[b + 1])..Reached(b)
      PROVE  p \in 0..MaxLen-1 /\ Mark(batch[b + 1].req, p) = "draft"
  <2>1. p \in 0..MaxLen-1 /\ positions[b] = Reached(b)
    BY <1>5, <1>7 DEF Least
  <2>2. /\ Inputs(b, batch[b + 1].req, Reached(b))
        /\ \A q \in End(batch[b + 1])..Reached(b)-1 : kv[batch[b + 1].req][q] = "draft"
    BY <1>2, <1>7 DEF Drafting
  <2>3. CASE p = Reached(b)
    BY <1>4, <2>1, <2>2, <2>3
  <2>4. CASE p # Reached(b)
    <3>1. p \in End(batch[b + 1])..Reached(b)-1
      BY <1>5, <2>4
    <3>2. Writers(batch[b + 1].req, p) = {}
      BY <1>4, <2>1, <2>4
    <3> QED BY <2>1, <2>2, <3>1, <3>2
  <2> QED BY <2>3, <2>4
<1>8. ASSUME NEW r \in Requests, \A b \in Active : batch[b + 1].req # r, NEW p \in 0..MaxLen-1
      PROVE  Mark(r, p) = kv[r][p]
  BY <1>2, <1>8
<1>9. ASSUME NEW r \in Requests, NEW p \in 0..MaxLen-1 PROVE Mark(r, p) \in Marks
  <2>1. kv[r][p] \in Marks
    BY <1>2 DEF TypeOK
  <2> HIDE DEF Writers
  <2> QED BY <2>1 DEF Marks
<1> HIDE DEF Mark
<1> QED BY <1>1, <1>5, <1>6, <1>7, <1>8, <1>9

\* Until its position runs into the model length, a row sees the kept tokens and
\* the drafts before it.
LEMMA DraftPlaceFacts ==
  ASSUME Inv, phase = "draft"
  PROVE  /\ \A b \in Rows : DraftPlace(DraftCache, b) \in Labels
         /\ \A b \in Active : Reached(b) <= MaxLen - 1 =>
              DraftPlace(DraftCache, b) = <<batch[b + 1].req, Reached(b)>>
<1>1. /\ TypeOK /\ InCall /\ Drafting /\ phase # "idle"
      /\ \A b \in Active : idxMapping[b] = batch[b + 1].req
  BY DEF Inv, InCall
<1>2. ASSUME NEW b \in Rows PROVE DraftPlace(DraftCache, b) \in Labels
  <2>1. b \in TokenRows
    BY RowsInTokenRows
  <2>2. idxMapping[b] \in Requests /\ positions[b] \in Nat
    BY <1>1, <2>1 DEF TypeOK
  <2>3. <<idxMapping[b], positions[b]>> \in Labels /\ Junk \in Labels
    BY <2>2 DEF Labels
  <2> QED BY <2>3 DEF DraftPlace
<1>3. ASSUME NEW b \in Active, Reached(b) <= MaxLen - 1
      PROVE  DraftPlace(DraftCache, b) = <<batch[b + 1].req, Reached(b)>>
  <2> DEFINE e == batch[b + 1]
  <2>1. e.req \in Requests /\ End(e) \in 1..MaxLen-1 /\ EndOf(e.req) = End(e)
    BY <1>1, ActiveFacts
  <2>2. step \in 1..num-1 /\ num \in 1..Steps /\ Reached(b) = End(e) + step - 1
    BY <1>1 DEF Drafting, TypeOK, Reached
  <2>3. /\ positions[b] = Least(Reached(b), MaxLen - 1) /\ seqLens[b] = positions[b] + 1
        /\ Inputs(b, e.req, Reached(b)) /\ idxMapping[b] = e.req
    BY <1>1, <1>3 DEF Drafting
  <2>4. /\ \A p \in 0..End(e)-1 : DraftCache[e.req][p] = "target"
        /\ \A p \in End(e)..Reached(b) : DraftCache[e.req][p] = "draft"
    BY <1>3, DraftCacheFacts
  <2> HIDE DEF e
  <2>5. Reached(b) \in Nat /\ positions[b] = Reached(b) /\ seqLens[b] - 1 = Reached(b)
    BY <1>3, <2>1, <2>2, <2>3 DEF Least
  <2>6. ASSUME NEW x \in 0..Reached(b)
        PROVE  DraftCache[e.req][x] = IF x < End(e) THEN "target" ELSE "draft"
    BY <2>1, <2>4, <2>5
  <2>7. Context(DraftCache, e.req, Reached(b))
    BY <2>1, <2>6 DEF Context
  <2> QED BY <2>3, <2>5, <2>7 DEF DraftPlace, e
<1> QED BY <1>2, <1>3

LEMMA DraftStepInv ==
  ASSUME Inv, DraftStep
  PROVE  Inv'
<1> DEFINE rows == IF graph THEN Rows ELSE Active
           place == [b \in rows |-> DraftPlace(DraftCache, b)]
           ahead(d) == [b \in rows |-> Ahead(place[b], d)]
           updated == IF step < Steps - 1 THEN rows ELSE {}
<1>1. /\ phase = "draft" /\ kv' = DraftCache
      /\ draftTokens' = [b \in Rows |->
           IF b \in rows THEN [draftTokens[b] EXCEPT ![step] = Ahead(place[b], 2)] ELSE draftTokens[b]]
      /\ logits' = Logits(rows, ahead(2))
      /\ inputIds' = [t \in TokenRows |-> IF t \in updated THEN ahead(2)[t] ELSE inputIds[t]]
      /\ hidden' = [t \in TokenRows |-> IF t \in updated THEN ahead(1)[t] ELSE hidden[t]]
      /\ positions' = [t \in TokenRows |->
           IF t \in updated THEN NextPosition(positions[t]) ELSE positions[t]]
      /\ seqLens' = [b \in Rows |-> IF b \in updated THEN NextLength(seqLens[b]) ELSE seqLens[b]]
      /\ UNCHANGED <<prompt, computed, offered, batch, num, graph, queryStart, lastIndex, idxMapping>>
  BY DEF DraftStep, UpdateInputs, requestVars, callVars
<1>2. IF step + 1 < num THEN step' = step + 1 /\ phase' = phase
                        ELSE phase' = "returned" /\ step' = step
  BY DEF DraftStep
<1>3. /\ TypeOK /\ Host /\ Prefix /\ InCall /\ Cached /\ Drafted /\ Drafting /\ phase # "idle"
      /\ IsBatch(batch)
  BY <1>1 DEF Inv, InCall
<1>4. /\ Active \subseteq Rows /\ Active \subseteq rows /\ rows \in SUBSET Rows
      /\ updated \subseteq rows /\ Active' = Active
  BY <1>1, <1>3, ActiveOf DEF Active
<1>5. /\ step \in 1..num-1 /\ num \in 1..Steps /\ step \in Drafts
      /\ step + 1 < num => updated = rows
  BY <1>1, <1>3 DEF Drafting, TypeOK
<1>5a. PICK n \in Nat : n = step + 1
  BY <1>5
<1>6. /\ \A b \in rows : place[b] \in Labels
      /\ \A b \in Active : Reached(b) <= MaxLen - 1 => place[b] = <<batch[b + 1].req, Reached(b)>>
  BY <1>1, <1>4, DraftPlaceFacts
<1>7. /\ DraftCache \in [Requests -> [0..MaxLen-1 -> Marks]]
      /\ \A b \in Active :
           /\ \A p \in 0..End(batch[b + 1])-1 : DraftCache[batch[b + 1].req][p] = "target"
           /\ Reached(b) <= MaxLen - 1 =>
                \A p \in End(batch[b + 1])..Reached(b) : DraftCache[batch[b + 1].req][p] = "draft"
      /\ \A r \in Requests : (\A b \in Active : batch[b + 1].req # r) =>
           \A p \in 0..MaxLen-1 : DraftCache[r][p] = kv[r][p]
  BY <1>1, DraftCacheFacts
<1> HIDE DEF rows, place, updated
<1>8. \A b \in rows, d \in Nat : Ahead(place[b], d) \in Labels
  BY <1>6, AheadType
<1>9. PICK token \in [rows -> Labels] : token = ahead(2)
  BY <1>8
<1>10. /\ logits' \in [Requests -> [Drafts -> Labels]]
       /\ \A b \in Active, j \in Drafts :
            logits'[batch[b + 1].req][j] =
              IF j = step THEN token[b] ELSE logits[batch[b + 1].req][j]
  <2>1. logits' = Logits(rows, token)
    BY <1>1, <1>9
  <2>2. /\ Logits(rows, token) \in [Requests -> [Drafts -> Labels]]
        /\ \A b \in Active, j \in Drafts :
             Logits(rows, token)[batch[b + 1].req][j] =
               IF j = step THEN token[b] ELSE logits[batch[b + 1].req][j]
    BY <1>3, <1>4, LogitsFacts
  <2> QED BY <2>1, <2>2
<1>11. ASSUME NEW b \in Active
       PROVE  /\ b \in Rows /\ b \in rows /\ b \in TokenRows
              /\ batch[b + 1].req \in Requests /\ End(batch[b + 1]) \in 1..MaxLen-1
              /\ Reached(b) \in Nat /\ Reached(b) = End(batch[b + 1]) + step - 1
              /\ Reached(b) <= MaxLen - 1 =>
                   /\ Ahead(place[b], 2) = <<batch[b + 1].req, Reached(b) + 2>>
                   /\ Ahead(place[b], 1) = <<batch[b + 1].req, Reached(b) + 1>>
  <2>1. /\ b \in Rows /\ b \in rows /\ b \in TokenRows
        /\ batch[b + 1].req \in Requests /\ End(batch[b + 1]) \in 1..MaxLen-1
    BY <1>3, <1>4, ActiveFacts
  <2>2. Reached(b) \in Nat /\ Reached(b) = End(batch[b + 1]) + step - 1
    BY <1>5, <2>1 DEF Reached
  <2>3. ASSUME Reached(b) <= MaxLen - 1, NEW d \in Nat
        PROVE  Ahead(place[b], d) = <<batch[b + 1].req, Reached(b) + d>>
    <3>1. place[b] = <<batch[b + 1].req, Reached(b)>> /\ place[b] \in Labels
      BY <1>6, <2>1, <2>3
    <3> QED BY <2>1, <2>2, <3>1, AheadType
  <2> QED BY <2>1, <2>2, <2>3
<1>12. TypeOK'
  <2>1. draftTokens' \in [Rows -> [Drafts -> Labels]]
    <3>1. ASSUME NEW b \in Rows
          PROVE  /\ draftTokens[b] \in [Drafts -> Labels]
                 /\ b \in rows =>
                      [draftTokens[b] EXCEPT ![step] = Ahead(place[b], 2)] \in [Drafts -> Labels]
      BY <1>3, <1>5, <1>8 DEF TypeOK
    <3> QED BY <1>1, <3>1
  <2>2. inputIds' \in [TokenRows -> Labels] /\ hidden' \in [TokenRows -> Labels]
    BY <1>1, <1>3, <1>4, <1>8 DEF TypeOK
  <2>3. positions' \in [TokenRows -> 0..MaxLen-1]
    <3>1. ASSUME NEW t \in TokenRows PROVE positions'[t] \in 0..MaxLen-1
      <4>1. positions[t] \in 0..MaxLen-1
        BY <1>3 DEF TypeOK
      <4>2. NextPosition(positions[t]) \in 0..MaxLen-1
        BY <4>1 DEF NextPosition, Least
      <4> QED BY <1>1, <4>1, <4>2
    <3> QED BY <1>1, <3>1
  <2>4. seqLens' \in [Rows -> 0..MaxLen]
    <3>1. ASSUME NEW b \in Rows PROVE seqLens'[b] \in 0..MaxLen
      <4>1. seqLens[b] \in 0..MaxLen
        BY <1>3 DEF TypeOK
      <4>2. NextLength(seqLens[b]) \in 0..MaxLen
        BY <4>1 DEF NextLength, Least
      <4> QED BY <1>1, <4>1, <4>2
    <3> QED BY <1>1, <3>1
  <2>5. phase' \in Phases /\ step' \in Drafts
    BY <1>1, <1>2, <1>5 DEF Phases, Drafts
  <2> QED BY <1>1, <1>3, <1>7, <1>10, <2>1, <2>2, <2>3, <2>4, <2>5 DEF TypeOK
<1>13. Host'
  BY <1>1, <1>3 DEF Host
<1>14. Prefix'
  <2> SUFFICES ASSUME NEW r \in Requests, prompt[r] > 0, NEW p \in 0..computed[r]-1
               PROVE  DraftCache[r][p] = "target"
    BY <1>1 DEF Prefix
  <2>1. computed[r] \in Nat /\ computed[r] <= MaxLen - 2 /\ p \in 0..MaxLen-1 /\ kv[r][p] = "target"
    BY <1>3 DEF TypeOK, Host, Prefix
  <2>2. CASE \A b \in Active : batch[b + 1].req # r
    BY <1>7, <2>1, <2>2
  <2>3. CASE \E b \in Active : batch[b + 1].req = r
    <3>1. PICK b \in Active : batch[b + 1].req = r
      BY <2>3
    <3> DEFINE e == batch[b + 1]
    <3>2. e.start = computed[r] /\ Kept(e) \in 1..e.len /\ e.len \in Nat /\ End(e) = e.start + Kept(e)
      BY <1>3, <3>1, ActiveFacts
    <3> HIDE DEF e
    <3>3. p \in 0..End(e)-1
      BY <2>1, <3>2
    <3> QED BY <1>7, <3>1, <3>3 DEF e
  <2> QED BY <2>2, <2>3
<1>15. InCall'
  <2>1. IsBatch(batch)'
    BY <1>1, <1>3 DEF IsBatch, IsEntry
  <2> QED BY <1>1, <1>3, <1>4, <2>1 DEF InCall
<1>16. Prefilling' /\ Preparing'
  BY <1>1, <1>2 DEF Prefilling, Preparing
<1>17. Cached'
  BY <1>1, <1>4, <1>7 DEF Cached, End, Kept
<1>18. ASSUME NEW b \in Active PROVE DraftsOf(b, n)'
  <2> DEFINE e == batch[b + 1]
  <2>1. /\ b \in Rows /\ b \in rows /\ e.req \in Requests /\ End(e) \in 1..MaxLen-1
        /\ Reached(b) = End(e) + step - 1
        /\ Reached(b) <= MaxLen - 1 => Ahead(place[b], 2) = <<e.req, Reached(b) + 2>>
    BY <1>11
  <2>2. draftTokens[b] \in [Drafts -> Labels]
    BY <1>3, <2>1 DEF TypeOK
  <2>3. DraftsOf(b, step)
    BY <1>1, <1>3 DEF Drafted
  <2>4. \A j \in Drafts : /\ draftTokens'[b][j] = IF j = step THEN token[b] ELSE draftTokens[b][j]
                          /\ logits'[e.req][j] = IF j = step THEN token[b] ELSE logits[e.req][j]
    <3>1. token[b] = Ahead(place[b], 2)
      BY <1>9, <2>1
    <3> QED BY <1>1, <1>5, <1>10, <2>1, <2>2, <3>1
  <2>5. ASSUME NEW j \in 0..step, End(e) + j <= MaxLen
        PROVE  /\ draftTokens'[b][j] = <<e.req, End(e) + 1 + j>>
               /\ logits'[e.req][j] = <<e.req, End(e) + 1 + j>>
    <3> HIDE DEF e
    <3>1. j \in Drafts
      BY <1>5 DEF Drafts
    <3>2. CASE j = step
      <4>1. Reached(b) <= MaxLen - 1 /\ Reached(b) + 2 = End(e) + 1 + j
        BY <1>5, <2>1, <2>5, <3>2
      <4>2. token[b] = <<e.req, End(e) + 1 + j>>
        BY <1>9, <2>1, <4>1
      <4> QED BY <2>4, <3>1, <3>2, <4>2
    <3>3. CASE j # step
      <4>1. j \in 0..step-1
        BY <1>5, <3>3
      <4>2. /\ draftTokens[b][j] = <<e.req, End(e) + 1 + j>>
            /\ logits[e.req][j] = <<e.req, End(e) + 1 + j>>
        BY <2>3, <2>5, <4>1 DEF DraftsOf, e
      <4> QED BY <2>4, <3>1, <3>3, <4>2
    <3> QED BY <3>2, <3>3
  <2>6. \A j \in 0..n-1 : j \in 0..step
    BY <1>5a, <1>5
  <2> QED BY <1>1, <2>5, <2>6 DEF DraftsOf, End, Kept
<1>19. Drafted'
  <2>1. step + 1 < num => step' = n /\ phase' = "draft"
    BY <1>5a, <1>1, <1>2
  <2>2. ~(step + 1 < num) => n = num /\ phase' = "returned"
    BY <1>5a, <1>2, <1>5
  <2>3. num' = num
    BY <1>1
  <2>4. CASE step + 1 < num
    <3>1. ASSUME NEW b \in Active PROVE DraftsOf(b, step)'
      BY <1>18, <2>1, <2>4 DEF DraftsOf
    <3> QED BY <1>4, <2>1, <2>4, <3>1 DEF Drafted
  <2>5. CASE ~(step + 1 < num)
    <3>1. ASSUME NEW b \in Active PROVE DraftsOf(b, num)'
      BY <1>18, <2>2, <2>3, <2>5 DEF DraftsOf
    <3> QED BY <1>4, <2>2, <2>5, <3>1 DEF Drafted
  <2> QED BY <2>4, <2>5
<1>20. Drafting'
  <2> SUFFICES ASSUME step + 1 < num PROVE Drafting'
    BY <1>2 DEF Drafting
  <2>1. step' = step + 1 /\ step' \in 1..num'-1 /\ updated = rows
    BY <1>1, <1>2, <1>5
  <2>2. \A b \in 0..MaxReqs : queryStart'[b] = Least(b, Len(batch'))
    BY <1>1, <1>3 DEF Drafting
  <2>3. ASSUME NEW b \in Active
        PROVE  /\ positions'[b] = Least(Reached(b)', MaxLen - 1)
               /\ seqLens'[b] = positions'[b] + 1
               /\ Reached(b)' <= MaxLen - 1 =>
                    /\ Inputs(b, batch[b + 1].req, Reached(b))'
                    /\ \A p \in End(batch'[b + 1])..Reached(b)'-1 :
                         kv'[batch'[b + 1].req][p] = "draft"
    <3> DEFINE e == batch[b + 1]
               R == Reached(b)
    <3>1. /\ b \in Rows /\ b \in rows /\ b \in TokenRows
          /\ e.req \in Requests /\ End(e) \in 1..MaxLen-1
          /\ R \in Nat /\ R = End(e) + step - 1
          /\ R <= MaxLen - 1 => /\ Ahead(place[b], 2) = <<e.req, R + 2>>
                                /\ Ahead(place[b], 1) = <<e.req, R + 1>>
      BY <1>11
    <3>2. positions[b] = Least(R, MaxLen - 1) /\ seqLens[b] = positions[b] + 1
      BY <1>1, <1>3 DEF Drafting
    <3>3. Reached(b)' = End(e) + step' - 1 /\ batch' = batch
      BY <1>1 DEF Reached, End, Kept
    <3>4. /\ positions'[b] = NextPosition(positions[b])
          /\ seqLens'[b] = NextLength(seqLens[b])
          /\ inputIds'[b] = Ahead(place[b], 2) /\ hidden'[b] = Ahead(place[b], 1)
      BY <1>1, <2>1, <3>1
    <3> HIDE DEF e, R
    <3>5. PICK m \in Nat : m = R + 1
      BY <3>1
    <3>6. Reached(b)' = m
      BY <1>5, <2>1, <3>1, <3>3, <3>5
    <3>7. positions'[b] = Least(m, MaxLen - 1) /\ seqLens'[b] = positions'[b] + 1
      BY <3>1, <3>2, <3>4, <3>5 DEF NextPosition, NextLength, Least
    <3>8. ASSUME m <= MaxLen - 1
          PROVE  /\ Inputs(b, e.req, m)'
                 /\ \A p \in End(e)..m-1 : kv'[e.req][p] = "draft"
      <4>1. R <= MaxLen - 1 /\ R + 2 = m + 1 /\ positions'[b] = m
        BY <3>1, <3>5, <3>7, <3>8 DEF Least
      <4>2. inputIds'[b] = <<e.req, m + 1>> /\ hidden'[b] = <<e.req, m>>
        BY <3>1, <3>4, <3>5, <4>1
      <4>3. e.req' = e.req
        BY <3>3 DEF e
      <4>4. \A p \in End(e)..R : DraftCache[e.req][p] = "draft"
        BY <1>7, <4>1 DEF e, R
      <4>5. m - 1 = R
        BY <3>1, <3>5
      <4> QED BY <1>1, <4>1, <4>2, <4>3, <4>4, <4>5 DEF Inputs
    <3>9. e = batch'[b + 1] /\ e' = e
      BY <3>3 DEF e
    <3>10. Reached(b)' <= MaxLen - 1 =>
             /\ Inputs(b, batch[b + 1].req, Reached(b))'
             /\ \A p \in End(batch'[b + 1])..Reached(b)'-1 : kv'[batch'[b + 1].req][p] = "draft"
      BY <3>6, <3>8, <3>9 DEF Inputs, e
    <3> QED BY <3>6, <3>7, <3>10
  <2> QED BY <1>4, <2>1, <2>2, <2>3 DEF Drafting
<1> QED BY <1>12, <1>13, <1>14, <1>15, <1>16, <1>17, <1>19, <1>20 DEF Inv

-----------------------------------------------------------------------------
(* The end of a call.                                                      *)

LEMMA ReturnInv ==
  ASSUME Inv, NEW ended \in SUBSET {batch[b].req : b \in DOMAIN batch}, Return(ended)
  PROVE  Inv'
<1> DEFINE Of(r) == {b \in DOMAIN batch : batch[b].req = r}
           Entry(r) == batch[CHOOSE b \in Of(r) : TRUE]
<1>1. /\ phase = "returned" /\ phase' = "idle"
      /\ \A b \in DOMAIN batch : End(batch[b]) >= MaxLen - 1 => batch[b].req \in ended
      /\ prompt' = [r \in Requests |-> IF r \in ended THEN 0 ELSE prompt[r]]
      /\ computed' = [r \in Requests |-> IF r \in ended THEN 0
                                          ELSE IF Of(r) = {} THEN computed[r] ELSE End(Entry(r))]
      /\ offered' = [r \in Requests |-> IF r \in ended THEN 0
                                         ELSE IF Of(r) = {} THEN offered[r]
                                         ELSE IF Entry(r).sampled THEN num ELSE 0]
      /\ batch' = <<>> /\ num' = 1 /\ graph' = FALSE
      /\ inputIds' = [t \in TokenRows |-> Junk] /\ hidden' = [t \in TokenRows |-> Junk]
      /\ queryStart' = [b \in 0..MaxReqs |-> 0]
      /\ seqLens' = [b \in Rows |-> 0] /\ lastIndex' = [b \in Rows |-> 0]
      /\ step' = 0
      /\ draftTokens' = Cleared(Rows) /\ logits' = Cleared(Requests)
      /\ kv' = [r \in Requests |-> [p \in 0..MaxLen-1 |->
                  IF r \notin ended /\ kv[r][p] = "target" THEN "target" ELSE "junk"]]
      /\ positions' = positions /\ idxMapping' = idxMapping
  BY DEF Return
<1>2. /\ TypeOK /\ Host /\ Prefix /\ InCall /\ Cached /\ phase # "idle" /\ IsBatch(batch)
      /\ Active = 0..Len(batch)-1 /\ DOMAIN batch = 1..Len(batch) /\ Len(batch) \in Nat
  <2>1. TypeOK /\ Host /\ Prefix /\ InCall /\ Cached /\ phase # "idle" /\ IsBatch(batch)
    BY <1>1 DEF Inv, InCall
  <2> QED BY <2>1, ActiveOf DEF IsBatch
<1>3. ASSUME NEW r \in Requests, Of(r) # {}
      PROVE  LET e == Entry(r) IN
             /\ e.req = r /\ End(e) \in 1..MaxLen-1
             /\ (End(e) >= MaxLen - 1 => r \in ended)
             /\ \A p \in 0..End(e)-1 : kv[r][p] = "target"
  <2>1. PICK c \in DOMAIN batch : c = (CHOOSE b \in Of(r) : TRUE) /\ batch[c].req = r
    <3>1. (CHOOSE b \in Of(r) : TRUE) \in Of(r)
      BY <1>3
    <3> QED BY <3>1
  <2>2. Entry(r) = batch[c]
    BY <2>1
  <2>3. PICK b \in Active : b + 1 = c
    <3>1. c \in 1..Len(batch) /\ Len(batch) \in Nat
      BY <1>2
    <3>2. c - 1 \in 0..Len(batch)-1 /\ (c - 1) + 1 = c
      BY <3>1
    <3> QED BY <1>2, <3>2
  <2>4. End(batch[b + 1]) \in 1..MaxLen-1
    BY <1>2, ActiveFacts
  <2>5. \A p \in 0..End(batch[b + 1])-1 : kv[batch[b + 1].req][p] = "target"
    BY <1>1, <1>2 DEF Cached
  <2> HIDE DEF Of, Entry
  <2> QED BY <1>1, <2>1, <2>2, <2>3, <2>4, <2>5
<1> HIDE DEF Of, Entry
<1>4. TypeOK'
  <2>1. Junk \in Labels /\ 0 \in 0..MaxLen /\ 0 \in Rows /\ 0 \in Drafts /\ 0 \in TokenRows
    BY RowsInTokenRows DEF Labels
  <2>2. /\ inputIds' \in [TokenRows -> Labels] /\ hidden' \in [TokenRows -> Labels]
        /\ queryStart' \in [0..MaxReqs -> Nat] /\ seqLens' \in [Rows -> 0..MaxLen]
        /\ lastIndex' \in [Rows -> TokenRows] /\ step' \in Drafts
    BY <1>1, <2>1
  <2>3. /\ draftTokens' \in [Rows -> [Drafts -> Labels]]
        /\ logits' \in [Requests -> [Drafts -> Labels]]
    BY <1>1, <2>1 DEF Cleared
  <2>4. kv' \in [Requests -> [0..MaxLen-1 -> Marks]]
    BY <1>1 DEF Marks
  <2>5. prompt' \in [Requests -> 0..MaxPrompt]
    BY <1>1, <1>2 DEF TypeOK
  <2>6. computed' \in [Requests -> Nat]
    BY <1>1, <1>2, <1>3 DEF TypeOK
  <2>7. offered' \in [Requests -> 0..Steps]
    BY <1>1, <1>2 DEF TypeOK
  <2>8. phase' \in Phases /\ batch' \in Seq(Entries) /\ num' \in 1..Steps /\ graph' \in BOOLEAN
    <3>1. phase' \in Phases /\ graph' \in BOOLEAN
      BY <1>1 DEF Phases
    <3>2. batch' \in Seq(Entries) /\ num' \in 1..Steps
      BY <1>1
    <3> QED BY <3>1, <3>2
  <2> QED BY <1>1, <1>2, <2>2, <2>3, <2>4, <2>5, <2>6, <2>7, <2>8 DEF TypeOK
<1>5. Host'
  <2> SUFFICES ASSUME NEW r \in Requests
               PROVE  /\ prompt'[r] = 0 => computed'[r] = 0
                      /\ prompt'[r] > 0 => computed'[r] <= MaxLen - 2
    BY DEF Host
  <2>1. CASE r \in ended
    BY <1>1, <2>1
  <2>2. CASE r \notin ended /\ Of(r) = {}
    BY <1>1, <1>2, <2>2 DEF Host
  <2>3. CASE r \notin ended /\ Of(r) # {}
    <3>1. End(Entry(r)) \in 1..MaxLen-1 /\ ~(End(Entry(r)) >= MaxLen - 1) /\ Entry(r).req = r
      BY <1>3, <2>3
    <3>2. prompt'[r] = prompt[r] /\ computed'[r] = End(Entry(r))
      BY <1>1, <2>3
    <3>3. prompt[r] > 0
      <4>1. PICK b \in DOMAIN batch : batch[b].req = r
        BY <2>3 DEF Of
      <4> QED BY <1>2, <4>1 DEF IsBatch, IsEntry
    <3> QED BY <3>1, <3>2, <3>3
  <2> QED BY <2>1, <2>2, <2>3
<1>6. Prefix'
  <2> SUFFICES ASSUME NEW r \in Requests, prompt'[r] > 0, NEW p \in 0..computed'[r]-1
               PROVE  kv'[r][p] = "target"
    BY DEF Prefix
  <2>1. r \notin ended /\ prompt[r] > 0
    BY <1>1
  <2>2. p \in 0..MaxLen-1 /\ kv[r][p] = "target"
    <3>1. CASE Of(r) = {}
      <4>1. computed'[r] = computed[r]
        BY <1>1, <2>1, <3>1
      <4> QED BY <1>2, <2>1, <4>1 DEF Host, Prefix, TypeOK
    <3>2. CASE Of(r) # {}
      <4>1. computed'[r] = End(Entry(r))
        BY <1>1, <2>1, <3>2
      <4> QED BY <1>3, <3>2, <4>1
    <3> QED BY <3>1, <3>2
  <2> QED BY <1>1, <2>1, <2>2
<1>7. InCall' /\ Prefilling' /\ Cached' /\ Preparing' /\ Drafting'
  BY <1>1 DEF InCall, Prefilling, Cached, Preparing, Drafting
<1>8. Drafted'
  BY <1>1 DEF Drafted
<1> QED BY <1>4, <1>5, <1>6, <1>7, <1>8 DEF Inv

LEMMA StutterInv == Inv /\ UNCHANGED vars => Inv'
<1> SUFFICES ASSUME Inv, UNCHANGED vars PROVE Inv'
  OBVIOUS
<1>1. UNCHANGED <<prompt, computed, offered, phase, batch, num, graph, inputIds, positions, hidden,
                  queryStart, seqLens, lastIndex, idxMapping, step, draftTokens, logits, kv>>
  BY DEF vars, requestVars, callVars, tokenVars, rowVars, outVars
<1>2. TypeOK' /\ Host' /\ Prefix'
  BY <1>1 DEF Inv, TypeOK, Host, Prefix
<1>3. Active' = Active /\ \A b : Reached(b)' = Reached(b)
  BY <1>1 DEF Active, Reached, End, Kept
<1>4. InCall'
  BY <1>1, <1>3 DEF Inv, InCall, IsBatch, IsEntry
<1>5. Prefilling' /\ Cached' /\ Preparing'
  BY <1>1, <1>3 DEF Inv, Prefilling, Cached, Preparing, Inputs, End, Kept
<1>6. Drafted'
  BY <1>1, <1>3 DEF Inv, Drafted, DraftsOf, End, Kept
<1>7. Drafting'
  BY <1>1, <1>3 DEF Inv, Drafting, Inputs, End, Kept
<1> QED BY <1>2, <1>4, <1>5, <1>6, <1>7 DEF Inv

LEMMA InvStep == Inv /\ [Next]_vars => Inv'
<1> SUFFICES ASSUME Inv, [Next]_vars PROVE Inv'
  OBVIOUS
<1>1. ASSUME NEW r \in Requests, NEW n \in 1..MaxPrompt, Arrive(r, n) PROVE Inv'
  BY <1>1, ArriveInv
<1>2. ASSUME NEW entries \in Batches, NEW n \in 1..Steps, Propose(entries, n) PROVE Inv'
  BY <1>2, ProposeInv
<1>3. ASSUME NEW full \in BOOLEAN, Prefill(full) PROVE Inv'
  BY <1>3, PrefillInv
<1>4. ASSUME NEW full \in BOOLEAN, PrepareDecode(full) PROVE Inv'
  BY <1>4, PrepareInv
<1>5. CASE DraftStep
  BY <1>5, DraftStepInv
<1>6. ASSUME NEW ended \in SUBSET {batch[b].req : b \in DOMAIN batch}, Return(ended) PROVE Inv'
  BY <1>6, ReturnInv
<1>7. CASE Finished \/ UNCHANGED vars
  BY <1>7, StutterInv DEF Finished
<1> QED BY <1>1, <1>2, <1>3, <1>4, <1>5, <1>6, <1>7 DEF Next

-----------------------------------------------------------------------------
(* What the invariant gives.                                               *)

LEMMA InvLengths == Inv => LengthsBounded
<1> SUFFICES ASSUME Inv, phase = "draft" PROVE LengthsBounded
  BY DEF LengthsBounded
<1>1. TypeOK /\ InCall /\ Drafting /\ phase # "idle"
  BY DEF Inv
<1>2. ASSUME NEW b \in Active
      PROVE  /\ seqLens[b] = positions[b] + 1
             /\ seqLens[b] <= batch[b + 1].start + batch[b + 1].len + num
  <2> DEFINE e == batch[b + 1]
  <2>1. /\ e.start \in Nat /\ e.len \in Nat /\ Kept(e) \in 1..e.len
        /\ End(e) = e.start + Kept(e)
    BY <1>1, ActiveFacts
  <2>2. step \in 1..num-1 /\ num \in 1..Steps
    BY <1>1 DEF Drafting, TypeOK
  <2>3. /\ positions[b] = Least(Reached(b), MaxLen - 1) /\ seqLens[b] = positions[b] + 1
        /\ Reached(b) = End(e) + step - 1
    BY <1>1 DEF Drafting, Reached
  <2> HIDE DEF e
  <2>4. Reached(b) \in Nat
    BY <2>1, <2>2, <2>3
  <2>5. positions[b] <= Reached(b) /\ positions[b] \in Int
    BY <2>3, <2>4 DEF Least
  <2>6. seqLens[b] <= e.start + e.len + num
    BY <2>1, <2>2, <2>3, <2>4, <2>5
  <2> QED BY <2>3, <2>6 DEF e
<1>3. \A b \in Rows : positions[b] \in 0..MaxLen-1 /\ seqLens[b] \in 0..MaxLen
  BY <1>1, RowsInTokenRows DEF TypeOK
<1> QED BY <1>2, <1>3 DEF LengthsBounded

LEMMA InvDrafts == Inv => DraftsExact
<1> SUFFICES ASSUME Inv, phase = "returned" PROVE DraftsExact
  BY DEF DraftsExact
<1>1. TypeOK /\ InCall /\ Drafted /\ phase # "idle"
  BY DEF Inv
<1>2. ASSUME NEW b \in Active, NEW j \in 0..num-1, End(batch[b + 1]) + 1 + j < MaxLen
      PROVE  /\ draftTokens[b][j] = <<batch[b + 1].req, End(batch[b + 1]) + 1 + j>>
             /\ logits[batch[b + 1].req][j] = <<batch[b + 1].req, End(batch[b + 1]) + 1 + j>>
  <2>1. End(batch[b + 1]) \in 1..MaxLen-1
    BY <1>1, ActiveFacts
  <2>2. End(batch[b + 1]) + j <= MaxLen
    BY <1>2, <2>1
  <2> QED BY <1>1, <2>2 DEF Drafted, DraftsOf
<1> QED BY <1>2 DEF DraftsExact

-----------------------------------------------------------------------------
\* Every reachable state satisfies the invariant.
THEOREM Invariance == Spec => []Inv
<1> QED BY InvInit, InvStep, PTL DEF Spec

\* Every buffer keeps its type: in particular no position leaves the model and no
\* row index leaves the buffers, whatever stale rows a full graph runs.
THEOREM TypeCorrect == Spec => []TypeOK
<1>1. Inv => TypeOK
  BY DEF Inv
<1> QED BY <1>1, Invariance, PTL

\* In every draft step a row attends up to its own position and no further, within
\* the host's bound and the model length.
THEOREM LengthsAreBounded == Spec => []LengthsBounded
<1> QED BY InvLengths, Invariance, PTL

\* Between calls the draft cache of a live request holds every kept token.
THEOREM PrefixStaysIntact == Spec => []PrefixIntact
<1>1. Inv => PrefixIntact
  BY DEF Inv, Prefix, PrefixIntact
<1> QED BY <1>1, Invariance, PTL

\* Every draft that can still be used, and the logits kept for it, come from the
\* kept tokens and the drafts before it and from nothing else.
THEOREM DraftsAreExact == Spec => []DraftsExact
<1> QED BY InvDrafts, Invariance, PTL
=============================================================================
