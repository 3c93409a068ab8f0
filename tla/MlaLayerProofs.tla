--------------------------- MODULE MlaLayerProofs ---------------------------
(***************************************************************************)
(* Proofs about the sparse-MLA layer: PrefillDispatch, which orders a      *)
(* batch and chooses the route of its attention, LayerWorkspace, in which  *)
(* the routes keep what they exchange and compute, and PackedCkv, the      *)
(* gather and the reads of the packed route.                               *)
(*                                                                         *)
(* PrefillDispatch, for every batch, threshold, configuration of the       *)
(* process and bound of the routes:                                        *)
(*   - the destinations of the misplaced requests are a permutation that   *)
(*     takes each into its region, because as many requests of a region    *)
(*     are misplaced as foreign ones stand in its place;                   *)
(*   - WalkInv: the cycle walk fills a set of positions closed under that  *)
(*     permutation, but for the cycle it is in;                            *)
(*   - the counts found by the split are those of the regions, and the     *)
(*     checks of the packed route follow from the layer's choice.          *)
(*                                                                         *)
(* LayerWorkspace, for every number of ranks, size of the workspaces, mode *)
(* and sequence of calls:                                                  *)
(*   - chunks tile the rows of a call and the slots of the chunks in       *)
(*     flight are apart, so no stream touches what a gather in flight does;*)
(*   - the k-th collective of a call is the same on every rank, because it *)
(*     comes after the same number of collectives, so what a rank receives *)
(*     is what every rank sent for that chunk of that call;                *)
(*   - WorkspaceInv: what the workspaces hold between two operations, for  *)
(*     every place of a call where the main stream can be.                 *)
(*                                                                         *)
(* PackedCkv, for every number of ranks, size of pages, pools, batches and *)
(* tables, selection and sequence of steps:                                *)
(*   - the remap finds a token where its owner numbers it, and the packed  *)
(*     block it looks in is the one the builder gave to its request;       *)
(*   - PackedInv: the number of a collective gives its step and its half,  *)
(*     so when all ranks have contributed, each takes the blocks of its    *)
(*     own step, however far the others have run ahead.                    *)
(***************************************************************************)
EXTENDS PrefillDispatch, LayerWorkspace, PackedCkv, FiniteSetTheorems, WellFoundedInduction, TLAPS

-----------------------------------------------------------------------------
(* Minima, and sums of the first numbers of a sequence.                    *)

LEMMA LeastNumber ==
  ASSUME NEW T \in SUBSET Nat, T # {}
  PROVE  \E x \in T : \A y \in T : x <= y
<1> DEFINE R == {p \in Nat \X Nat : p[1] < p[2]}
<1>1. IsWellFoundedOn(R, Nat)
  BY NatLessThanWellFounded, Zenon DEF OpToRel
<1>2. PICK x \in T : \A y \in T : ~(<<y, x>> \in R)
  <2> HIDE DEF R
  <2> QED BY <1>1, WFMin
<1>3. ASSUME NEW y \in T, y < x PROVE FALSE
  <2>1. <<y, x>> \in Nat \X Nat
    OBVIOUS
  <2>2. <<y, x>> \in R
    BY <2>1, <1>3
  <2> QED BY <1>2, <2>2
<1> QED BY <1>3

LEMMA FirstIsLeast ==
  ASSUME NEW T \in SUBSET Nat, T # {}
  PROVE  First(T) \in T /\ \A i \in T : First(T) <= i
  BY LeastNumber, Zenon DEF First

\* s is the sequence of sums of a up to n.
IsSumTo(s, a, n) ==
  s \in [0..n -> Nat] /\ s = [i \in 0..n |-> IF i = 0 THEN 0 ELSE s[i-1] + a[i]]

LEMMA SumsExist ==
  ASSUME NEW a \in Seq(Nat)
  PROVE  \A n \in 0..Len(a) : \E s : IsSumTo(s, a, n)
<1> DEFINE T == {n \in 0..Len(a) : ~ \E s : IsSumTo(s, a, n)}
<1>1. SUFFICES ASSUME T # {} PROVE FALSE
  OBVIOUS
<1>2. PICK n \in T : \A m \in T : n <= m
  <2>1. T \in SUBSET Nat
    OBVIOUS
  <2> HIDE DEF T
  <2> QED BY <1>1, <2>1, LeastNumber
<1>3. CASE n = 0
  <2> DEFINE s == [i \in 0..0 |-> 0]
  <2>1. s \in [0..0 -> Nat] /\ s = [i \in 0..0 |-> IF i = 0 THEN 0 ELSE s[i-1] + a[i]]
    OBVIOUS
  <2>2. IsSumTo(s, a, 0)
    BY <2>1 DEF IsSumTo
  <2> QED BY <1>3, <2>2
<1>4. CASE n # 0
  <2>1. n-1 \in 0..Len(a) /\ n-1 \notin T /\ n \in 1..Len(a)
    BY <1>2, <1>4
  <2>2. PICK t : IsSumTo(t, a, n-1)
    BY <2>1
  <2> DEFINE s == [i \in 0..n |-> IF i = n THEN t[n-1] + a[n] ELSE t[i]]
  <2>3. a[n] \in Nat
    BY <2>1
  <2>4. s \in [0..n -> Nat]
    BY <2>1, <2>2, <2>3 DEF IsSumTo
  <2>5. ASSUME NEW i \in 0..n
        PROVE  s[i] = IF i = 0 THEN 0 ELSE s[i-1] + a[i]
    <3>1. CASE i = n
      BY <2>1, <3>1
    <3>2. CASE i # n
      <4>1. i \in 0..n-1 /\ (i # 0 => i-1 \in 0..n-1 /\ i-1 # n)
        BY <2>1, <3>2
      <4>2. t = [j \in 0..n-1 |-> IF j = 0 THEN 0 ELSE t[j-1] + a[j]]
        BY <2>2 DEF IsSumTo
      <4>3. t[i] = IF i = 0 THEN 0 ELSE t[i-1] + a[i]
        <5> HIDE DEF T
        <5> QED BY <4>1, <4>2
      <4> QED BY <2>1, <3>2, <4>1, <4>3
    <3> QED BY <3>1, <3>2
  <2> HIDE DEF s
  <2>6. s = [i \in 0..n |-> IF i = 0 THEN 0 ELSE s[i-1] + a[i]]
    BY <2>4, <2>5
  <2>7. IsSumTo(s, a, n)
    BY <2>4, <2>6 DEF IsSumTo
  <2> QED BY <2>7
<1> QED BY <1>3, <1>4

LEMMA PrefixSumDef ==
  ASSUME NEW a \in Seq(Nat)
  PROVE  IsSumTo(PrefixSum(a), a, Len(a))
<1>1. PICK s : IsSumTo(s, a, Len(a))
  <2>1. Len(a) \in 0..Len(a)
    OBVIOUS
  <2> QED BY <2>1, SumsExist
<1>2. PrefixSum(a) = [i \in 0..Len(a) |-> IF i = 0 THEN 0 ELSE PrefixSum(a)[i-1] + a[i]]
  BY <1>1 DEF PrefixSum, IsSumTo
<1> DEFINE f == PrefixSum(a)
    T == {n \in 0..Len(a) : f[n] \notin Nat}
<1>3. f[0] = 0 /\ \A i \in 1..Len(a) : f[i] = f[i-1] + a[i]
  BY <1>2
<1> HIDE DEF f
<1>4. ASSUME T # {} PROVE FALSE
  <2>1. T \in SUBSET Nat
    OBVIOUS
  <2>2. PICK n \in T : \A m \in T : n <= m
    <3> HIDE DEF T
    <3> QED BY <1>4, <2>1, LeastNumber
  <2>3. n # 0
    BY <1>3
  <2>4. n-1 \in 0..Len(a) /\ n-1 \notin T
    BY <2>2, <2>3
  <2>5. n \in 1..Len(a) /\ f[n-1] \in Nat
    BY <2>3, <2>4
  <2>6. a[n] \in Nat /\ f[n] = f[n-1] + a[n]
    BY <1>3, <2>5
  <2> QED BY <2>5, <2>6
<1>5. f \in [0..Len(a) -> Nat]
  BY <1>2, <1>4 DEF f
<1> QED BY <1>2, <1>5 DEF IsSumTo, f

\* The sums grow: each is at least every one of its numbers.
LEMMA PrefixSumFacts ==
  ASSUME NEW a \in Seq(Nat)
  PROVE  /\ \A i \in 0..Len(a) : PrefixSum(a)[i] \in Nat
         /\ \A i \in 1..Len(a), n \in 1..Len(a) : i <= n => a[i] <= PrefixSum(a)[n]
<1>1. /\ PrefixSum(a) \in [0..Len(a) -> Nat]
      /\ PrefixSum(a)[0] = 0
      /\ \A i \in 1..Len(a) : PrefixSum(a)[i] = PrefixSum(a)[i-1] + a[i]
  BY PrefixSumDef DEF IsSumTo
<1>2. ASSUME NEW i \in 1..Len(a) PROVE \A n \in 1..Len(a) : i <= n => a[i] <= PrefixSum(a)[n]
  <2> DEFINE T == {n \in i..Len(a) : ~(a[i] <= PrefixSum(a)[n])}
  <2>1. ASSUME T # {} PROVE FALSE
    <3>1. T \in SUBSET Nat
      OBVIOUS
    <3>2. PICK n \in T : \A m \in T : n <= m
      <4> HIDE DEF T
      <4> QED BY <2>1, <3>1, LeastNumber
    <3> n \in 1..Len(a) /\ n-1 \in 0..Len(a)
      OBVIOUS
    <3>3. /\ PrefixSum(a)[n] = PrefixSum(a)[n-1] + a[n] /\ PrefixSum(a)[n-1] \in Nat
          /\ a[n] \in Nat /\ a[i] \in Nat
      <4>1. a[n] \in Nat /\ a[i] \in Nat
        OBVIOUS
      <4> HIDE DEF T
      <4> QED BY <1>1, <4>1
    <3>4. n # i
      BY <3>3
    <3>5. n-1 \in i..Len(a) /\ n-1 \notin T
      BY <3>2, <3>4
    <3> QED BY <3>3, <3>5
  <2> QED BY <2>1
<1> QED BY <1>1, <1>2

-----------------------------------------------------------------------------
(* The place of an element in a strict total order of a finite set: the    *)
(* places are 0 up to the size of the set, each taken once.                *)

LEMMA FirstNumbers ==
  ASSUME NEW n \in Nat
  PROVE  /\ IsFiniteSet(1..n) /\ Cardinality(1..n) = n
         /\ IsFiniteSet(0..n-1) /\ Cardinality(0..n-1) = n
<1>1. 0 \in Int /\ 1 \in Int /\ n \in Int /\ n-1 \in Int
  OBVIOUS
<1>2. IsFiniteSet(1..n) /\ Cardinality(1..n) = IF 1 > n THEN 0 ELSE n-1+1
  BY <1>1, FS_Interval
<1>3. IsFiniteSet(0..n-1) /\ Cardinality(0..n-1) = IF 0 > n-1 THEN 0 ELSE n-1-0+1
  BY <1>1, FS_Interval
<1> QED BY <1>2, <1>3

StrictOrder(R, N) ==
  /\ \A i \in N : <<i, i>> \notin R
  /\ \A i, j, k \in N : <<i, j>> \in R /\ <<j, k>> \in R => <<i, k>> \in R
  /\ \A i, j \in N : i # j => <<i, j>> \in R \/ <<j, i>> \in R

Places(R, N) == [i \in N |-> Cardinality({j \in N : <<j, i>> \in R})]

LEMMA PlacesInOrder ==
  ASSUME NEW N, IsFiniteSet(N), NEW R, StrictOrder(R, N)
  PROVE  Places(R, N) \in Bijection(N, 0..Cardinality(N)-1)
<1> DEFINE below(i) == {j \in N : <<j, i>> \in R}
           f == [i \in N |-> Cardinality(below(i))]
           n == Cardinality(N)
<1> USE DEF StrictOrder
<1>1. n \in Nat
  BY FS_CardinalityType
<1>2. ASSUME NEW i \in N
      PROVE  /\ IsFiniteSet(below(i)) /\ Cardinality(below(i)) \in Nat
             /\ Cardinality(below(i) \cup {i}) = Cardinality(below(i)) + 1
             /\ i \notin below(i) /\ below(i) \cup {i} \in SUBSET N
  <2>1. below(i) \in SUBSET N /\ i \notin below(i) /\ below(i) \cup {i} \in SUBSET N
    OBVIOUS
  <2> HIDE DEF below
  <2>2. IsFiniteSet(below(i))
    BY <2>1, FS_Subset
  <2> QED BY <2>1, <2>2, FS_CardinalityType, FS_AddElement
<1>3. ASSUME NEW i \in N PROVE f[i] \in 0..n-1
  <2>1. Cardinality(below(i) \cup {i}) <= n
    BY <1>2, FS_Subset
  <2> HIDE DEF below
  <2> QED BY <1>1, <1>2, <2>1
<1>4. ASSUME NEW i \in N, NEW k \in N, <<i, k>> \in R PROVE f[i] < f[k]
  <2>1. below(i) \cup {i} \in SUBSET below(k)
    BY <1>4
  <2> HIDE DEF below
  <2>2. Cardinality(below(i) \cup {i}) <= Cardinality(below(k))
    BY <1>2, <2>1, FS_Subset
  <2>3. f[i] = Cardinality(below(i)) /\ f[k] = Cardinality(below(k))
    OBVIOUS
  <2>4. /\ Cardinality(below(i)) \in Nat /\ Cardinality(below(k)) \in Nat
        /\ Cardinality(below(i) \cup {i}) = Cardinality(below(i)) + 1
    BY <1>2
  <2> HIDE DEF f
  <2> QED BY <2>2, <2>3, <2>4
<1>5. f \in Injection(N, 0..n-1)
  <2>1. f \in [N -> 0..n-1]
    BY <1>3
  <2>2. ASSUME NEW i \in N, NEW k \in N, f[i] = f[k] PROVE i = k
    <3>1. f[i] \in Int /\ f[k] \in Int
      BY <1>3
    <3> HIDE DEF f
    <3>2. ASSUME <<i, k>> \in R PROVE FALSE
      BY <1>4, <2>2, <3>1, <3>2
    <3>3. ASSUME <<k, i>> \in R PROVE FALSE
      <4>1. f[k] < f[i]
        BY <1>4, <3>3
      <4> QED BY <2>2, <3>1, <4>1
    <3> QED BY <3>2, <3>3
  <2> HIDE DEF f
  <2> QED BY <2>1, <2>2 DEF Injection, IsInjective
<1>6. IsFiniteSet(0..n-1) /\ Cardinality(0..n-1) = n
  BY <1>1, FirstNumbers
<1>7. f \in Surjection(N, 0..n-1)
  <2> HIDE DEF f
  <2> QED BY <1>5, <1>6, FS_Injection
<1> QED BY <1>5, <1>7 DEF Bijection, Places

-----------------------------------------------------------------------------
(* Where the requests of a batch stand and where they should.              *)

USE ThresholdAssumption

LEMMA RegionType ==
  ASSUME NEW b \in Seq(Requests), NEW i \in DOMAIN b
  PROVE  b[i] \in Requests /\ Region(b[i]) \in 0..3
<1>1. b[i] \in Requests
  OBVIOUS
<1>2. b[i].computed \in Nat /\ b[i].sched \in Nat /\ b[i].prompt \in Nat
  BY <1>1 DEF Requests
<1>3. Region(b[i]) \in 0..3
  BY <1>2 DEF Region, HasContext, BelowThreshold, DonePrefilling
<1> QED BY <1>1, <1>3

LEMMA UpToFacts ==
  ASSUME NEW b \in Seq(Requests)
  PROVE  /\ DOMAIN b = 1..Len(b) /\ IsFiniteSet(DOMAIN b)
         /\ \A k \in -1..3 : UpTo(b, k) \in 0..Len(b)
         /\ UpTo(b, -1) = 0 /\ UpTo(b, 3) = Len(b)
         /\ \A k \in 0..3 : UpTo(b, k-1) <= UpTo(b, k)
<1> DEFINE S(k) == {j \in DOMAIN b : Region(b[j]) <= k}
<1>1. DOMAIN b = 1..Len(b) /\ IsFiniteSet(DOMAIN b) /\ Cardinality(DOMAIN b) = Len(b)
  <2>1. DOMAIN b = 1..Len(b) /\ Len(b) \in Nat
    OBVIOUS
  <2> QED BY <2>1, FirstNumbers
<1>2. ASSUME NEW k \in -1..3
      PROVE  IsFiniteSet(S(k)) /\ Cardinality(S(k)) \in 0..Len(b)
  <2>1. S(k) \in SUBSET DOMAIN b
    OBVIOUS
  <2>2. IsFiniteSet(S(k)) /\ Cardinality(S(k)) <= Cardinality(DOMAIN b)
    <3> HIDE DEF S
    <3> QED BY <1>1, <2>1, FS_Subset
  <2>3. Cardinality(S(k)) \in Nat
    BY <2>2, FS_CardinalityType
  <2> QED BY <1>1, <2>2, <2>3
<1>3. S(-1) = {} /\ S(3) = DOMAIN b
  <2>1. \A j \in DOMAIN b : ~(Region(b[j]) <= -1) /\ Region(b[j]) <= 3
    <3> TAKE j \in DOMAIN b
    <3>1. Region(b[j]) \in 0..3
      BY RegionType
    <3> QED BY <3>1
  <2> QED BY <2>1
<1>4. ASSUME NEW k \in 0..3 PROVE Cardinality(S(k-1)) <= Cardinality(S(k))
  <2>1. S(k-1) \in SUBSET S(k)
    BY RegionType
  <2> HIDE DEF S
  <2> QED BY <1>2, <2>1, FS_Subset
<1> QED BY <1>1, <1>2, <1>3, <1>4, FS_EmptySet DEF UpTo

LEMMA TargetFacts ==
  ASSUME NEW b \in Seq(Requests), NEW i \in DOMAIN b
  PROVE  /\ Target(b, i) \in 0..3
         /\ \A k \in -1..3 : Target(b, i) <= k <=> i <= UpTo(b, k)
<1> DEFINE u(k) == UpTo(b, k)
<1>1. i \in 1..Len(b)
  OBVIOUS
<1>2. /\ \A k \in -1..3 : u(k) \in Nat
      /\ u(-1) = 0 /\ u(3) = Len(b)
      /\ u(-1) <= u(0) /\ u(0) <= u(1) /\ u(1) <= u(2) /\ u(2) <= u(3)
  BY UpToFacts
<1> HIDE DEF u
<1>3. \E k \in 0..3 : u(k-1) < i /\ i <= u(k)
  <2>1. CASE i <= u(0)
    BY <1>1, <1>2, <2>1
  <2>2. CASE ~(i <= u(0)) /\ i <= u(1)
    BY <1>1, <1>2, <2>2
  <2>3. CASE ~(i <= u(1)) /\ i <= u(2)
    BY <1>1, <1>2, <2>3
  <2>4. CASE ~(i <= u(2))
    BY <1>1, <1>2, <2>4
  <2> QED BY <2>1, <2>2, <2>3, <2>4
<1>4. Target(b, i) \in 0..3 /\ u(Target(b, i) - 1) < i /\ i <= u(Target(b, i))
  BY <1>3 DEF Target, u
<1>5. ASSUME NEW t \in 0..3, u(t-1) < i, i <= u(t), NEW k \in -1..3
      PROVE  t <= k <=> i <= u(k)
  <2>1. /\ u(-1) \in Nat /\ u(0) \in Nat /\ u(1) \in Nat /\ u(2) \in Nat /\ u(3) \in Nat
    BY <1>2
  <2>2. t \in {0, 1, 2, 3} /\ k \in {-1, 0, 1, 2, 3}
    OBVIOUS
  <2>3. CASE t = 0
    BY <1>1, <1>2, <1>5, <2>1, <2>2, <2>3
  <2>4. CASE t = 1
    BY <1>1, <1>2, <1>5, <2>1, <2>2, <2>4
  <2>5. CASE t = 2
    BY <1>1, <1>2, <1>5, <2>1, <2>2, <2>5
  <2>6. CASE t = 3
    BY <1>1, <1>2, <1>5, <2>1, <2>2, <2>6
  <2> QED BY <2>2, <2>3, <2>4, <2>5, <2>6
<1>6. \A k \in -1..3 : Target(b, i) <= k <=> i <= u(k)
  BY <1>4, <1>5
<1> QED BY <1>4, <1>6 DEF u

LEMMA DisjointUnion ==
  ASSUME NEW A, NEW B, IsFiniteSet(A), IsFiniteSet(B), A \cap B = {}
  PROVE  /\ Cardinality(A) \in Nat /\ Cardinality(B) \in Nat
         /\ Cardinality(A \cup B) = Cardinality(A) + Cardinality(B)
<1>1. Cardinality(A \cap B) = 0
  BY FS_EmptySet
<1>2. Cardinality(A) \in Nat /\ Cardinality(B) \in Nat
  BY FS_CardinalityType
<1>3. Cardinality(A \cup B) = Cardinality(A) + Cardinality(B) - Cardinality(A \cap B)
  BY FS_Union
<1> QED BY <1>1, <1>2, <1>3

LEMMA StrictSubset ==
  ASSUME NEW A, IsFiniteSet(A), NEW x \in A, NEW B, B \in SUBSET (A \ {x})
  PROVE  Cardinality(B) <= Cardinality(A) - 1
<1>1. IsFiniteSet(A \ {x}) /\ Cardinality(A \ {x}) = Cardinality(A) - 1
  BY FS_RemoveElement
<1>2. Cardinality(B) <= Cardinality(A \ {x})
  BY <1>1, FS_Subset
<1> QED BY <1>1, <1>2

\* As many requests of the first regions are misplaced as positions of those
\* regions hold another's request.
LEMMA MisplacedBalance ==
  ASSUME NEW b \in Seq(Requests), NEW k \in -1..3
  PROVE  /\ IsFiniteSet({j \in NeedsSwap(b) : Region(b[j]) <= k})
         /\ IsFiniteSet({j \in NeedsSwap(b) : Target(b, j) <= k})
         /\ Cardinality({j \in NeedsSwap(b) : Region(b[j]) <= k}) \in Nat
         /\ Cardinality({j \in NeedsSwap(b) : Region(b[j]) <= k})
              = Cardinality({j \in NeedsSwap(b) : Target(b, j) <= k})
<1> DEFINE N == NeedsSwap(b)
           A == {j \in N : Region(b[j]) <= k}
           B == {j \in N : Target(b, j) <= k}
           C == {j \in DOMAIN b \ N : Region(b[j]) <= k}
<1>1. N \in SUBSET DOMAIN b /\ \A j \in DOMAIN b \ N : Region(b[j]) = Target(b, j)
  BY DEF NeedsSwap
<1>2. IsFiniteSet(DOMAIN b) /\ DOMAIN b = 1..Len(b) /\ UpTo(b, k) \in 0..Len(b)
  BY UpToFacts
<1>3. A \cup C = {j \in DOMAIN b : Region(b[j]) <= k}
  BY <1>1
<1>4. B \cup C = 1..UpTo(b, k)
  <2>1. \A j \in DOMAIN b : Target(b, j) <= k <=> j <= UpTo(b, k)
    BY TargetFacts
  <2>2. B \cup C = {j \in DOMAIN b : Target(b, j) <= k}
    BY <1>1
  <2>3. {j \in DOMAIN b : Target(b, j) <= k} = {j \in DOMAIN b : j <= UpTo(b, k)}
    BY <2>1
  <2>4. {j \in DOMAIN b : j <= UpTo(b, k)} = 1..UpTo(b, k)
    BY <1>2
  <2> QED BY <2>2, <2>3, <2>4
<1>5. A \in SUBSET DOMAIN b /\ B \in SUBSET DOMAIN b /\ C \in SUBSET DOMAIN b
  BY <1>1
<1>6. IsFiniteSet(A) /\ IsFiniteSet(B) /\ IsFiniteSet(C)
  <2> HIDE DEF A, B, C
  <2> QED BY <1>2, <1>5, FS_Subset
<1>7. A \cap C = {} /\ B \cap C = {}
  OBVIOUS
<1>8. Cardinality(A \cup C) = UpTo(b, k)
  BY <1>3 DEF UpTo
<1>9. Cardinality(B \cup C) = UpTo(b, k)
  <2>1. UpTo(b, k) \in Nat
    BY <1>2
  <2> HIDE DEF B, C
  <2> QED BY <1>4, <2>1, FirstNumbers
<1>10. /\ Cardinality(A) \in Nat /\ Cardinality(B) \in Nat /\ Cardinality(C) \in Nat
       /\ Cardinality(A) + Cardinality(C) = Cardinality(B) + Cardinality(C)
  <2> HIDE DEF A, B, C
  <2> QED BY <1>6, <1>7, <1>8, <1>9, DisjointUnion
<1> QED BY <1>6, <1>10

\* The destinations: a permutation of the misplaced positions that takes every
\* request into its region.
LEMMA DestinationFacts ==
  ASSUME NEW b \in Seq(Requests)
  PROVE  /\ Destination(b) \in [NeedsSwap(b) -> NeedsSwap(b)]
         /\ \A i, j \in NeedsSwap(b) : Destination(b)[i] = Destination(b)[j] => i = j
         /\ \A i \in NeedsSwap(b) : Target(b, Destination(b)[i]) = Region(b[i])
<1> DEFINE N == NeedsSwap(b)
           P == {p \in N \X N : p[1] < p[2]}
           Q == {p \in N \X N : \/ Region(b[p[1]]) < Region(b[p[2]])
                                \/ Region(b[p[1]]) = Region(b[p[2]]) /\ p[1] < p[2]}
           n == Cardinality(N)
           left(d) == {j \in N : j < d}
           f == Places(P, N)
           g == Places(Q, N)
<1>1. N \in SUBSET DOMAIN b /\ IsFiniteSet(N) /\ N \in SUBSET Nat
  <2>1. N \in SUBSET DOMAIN b /\ IsFiniteSet(DOMAIN b) /\ DOMAIN b \in SUBSET Nat
    BY UpToFacts DEF NeedsSwap
  <2> QED BY <2>1, FS_Subset
<1>2. \A i \in N : Region(b[i]) \in 0..3
  BY <1>1, RegionType
<1>3. f \in Bijection(N, 0..n-1)
  <2>1. \A i \in N : <<i, i>> \notin P
    BY <1>1
  <2>2. \A i, j, k \in N : <<i, j>> \in P /\ <<j, k>> \in P => <<i, k>> \in P
    BY <1>1
  <2>3. \A i, j \in N : i # j => <<i, j>> \in P \/ <<j, i>> \in P
    BY <1>1
  <2>4. StrictOrder(P, N)
    BY <2>1, <2>2, <2>3 DEF StrictOrder
  <2> HIDE DEF P, N
  <2> QED BY <1>1, <2>4, PlacesInOrder
<1>4. g \in Bijection(N, 0..n-1)
  <2>1. \A i \in N : <<i, i>> \notin Q
    BY <1>1, <1>2
  <2>2. \A i, j, k \in N : <<i, j>> \in Q /\ <<j, k>> \in Q => <<i, k>> \in Q
    BY <1>1, <1>2
  <2>3. \A i, j \in N : i # j => <<i, j>> \in Q \/ <<j, i>> \in Q
    BY <1>1, <1>2
  <2>4. StrictOrder(Q, N)
    BY <2>1, <2>2, <2>3 DEF StrictOrder
  <2> HIDE DEF Q, N
  <2> QED BY <1>1, <2>4, PlacesInOrder
<1>5. \A d \in N : f[d] = Cardinality(left(d))
  <2> TAKE d \in N
  <2>1. {j \in N : <<j, d>> \in P} = left(d)
    BY <1>1
  <2> QED BY <2>1 DEF Places
<1>6. \A i \in N : g[i] = Cardinality(Before(b, i))
  <2> TAKE i \in N
  <2>1. {j \in N : <<j, i>> \in Q} = Before(b, i)
    BY <1>1 DEF Before
  <2> QED BY <2>1 DEF Places
<1> HIDE DEF f, g
<1>7. \A i \in N : \E d \in N : f[d] = g[i]
  BY <1>3, <1>4 DEF Bijection, Surjection, Injection
<1>8. ASSUME NEW i \in N
      PROVE  Destination(b)[i] \in N /\ f[Destination(b)[i]] = g[i]
  <2>1. Destination(b)[i] = CHOOSE d \in N : f[d] = g[i]
    BY <1>5, <1>6 DEF Destination
  <2> QED BY <1>7, <2>1
<1>9. Destination(b) \in [N -> N]
  <2>1. Destination(b) = [i \in N |-> Destination(b)[i]]
    BY DEF Destination
  <2> QED BY <1>8, <2>1
<1>10. ASSUME NEW i \in N, NEW j \in N, Destination(b)[i] = Destination(b)[j]
       PROVE  i = j
  <2>1. g[i] = g[j]
    BY <1>8, <1>10
  <2> QED BY <1>4, <2>1 DEF Bijection, Injection, IsInjective
<1>11. ASSUME NEW i \in N PROVE Target(b, Destination(b)[i]) = Region(b[i])
  <2> DEFINE d == Destination(b)[i]
             k == Region(b[i])
             A(m) == {j \in N : Region(b[j]) <= m}
             B(m) == {j \in N : Target(b, j) <= m}
  <2>1. d \in N /\ k \in 0..3 /\ k-1 \in -1..3 /\ k \in -1..3
    BY <1>2, <1>8
  <2>2. Cardinality(left(d)) = Cardinality(Before(b, i))
    BY <1>5, <1>6, <1>8
  <2> HIDE DEF d
  <2>3. \A j \in N : Target(b, j) \in 0..3 /\ \A m \in -1..3 : Target(b, j) <= m <=> j <= UpTo(b, m)
    BY <1>1, TargetFacts
  <2>4. ASSUME NEW m \in -1..3
        PROVE  /\ IsFiniteSet(A(m)) /\ IsFiniteSet(B(m)) /\ Cardinality(A(m)) \in Nat
               /\ Cardinality(A(m)) = Cardinality(B(m))
    BY MisplacedBalance
  <2>5. IsFiniteSet(left(d)) /\ IsFiniteSet(Before(b, i)) /\ Cardinality(left(d)) \in Nat
    <3>1. left(d) \in SUBSET N /\ Before(b, i) \in SUBSET N
      BY DEF Before
    <3> HIDE DEF N, left
    <3> QED BY <1>1, <3>1, FS_Subset, FS_CardinalityType
  <2>6. CASE Target(b, d) < k
    <3>1. d \in B(k-1) /\ left(d) \in SUBSET (B(k-1) \ {d})
      BY <1>1, <2>1, <2>3, <2>6, UpToFacts
    <3>2. A(k-1) \in SUBSET Before(b, i)
      BY <1>1, <1>2, <2>1 DEF Before
    <3> HIDE DEF A, B, left, N, k
    <3>3. Cardinality(left(d)) <= Cardinality(B(k-1)) - 1
      BY <2>1, <2>4, <3>1, StrictSubset
    <3>4. Cardinality(A(k-1)) <= Cardinality(Before(b, i))
      BY <2>5, <3>2, FS_Subset
    <3> QED BY <2>1, <2>2, <2>4, <2>5, <3>3, <3>4
  <2>7. CASE Target(b, d) > k
    <3>1. B(k) \in SUBSET left(d)
      BY SMTT(30), <1>1, <2>1, <2>3, <2>7, UpToFacts
    <3>2. i \in A(k) /\ Before(b, i) \in SUBSET (A(k) \ {i})
      BY <1>1, <1>2, <2>1 DEF Before
    <3> HIDE DEF A, B, left, N, k
    <3>3. Cardinality(B(k)) <= Cardinality(left(d))
      BY <2>5, <3>1, FS_Subset
    <3>4. Cardinality(Before(b, i)) <= Cardinality(A(k)) - 1
      BY <2>1, <2>4, <3>2, StrictSubset
    <3> QED BY <2>1, <2>2, <2>4, <2>5, <3>3, <3>4
  <2> QED BY <2>1, <2>3, <2>6, <2>7 DEF d
<1> QED BY <1>9, <1>10, <1>11

-----------------------------------------------------------------------------
(* The invariant.                                                          *)

USE BatchesAssumption

\* The batch is a permutation of the one given.
Permuted ==
  \E p \in Bijection(DOMAIN given, DOMAIN given) :
    \A i \in DOMAIN given : batch[i] = given[p[i]]

\* The misplaced positions that have their request: marked, or the start of a
\* finished cycle.
Filled ==
  {x \in NeedsSwap(given) : \/ destination[x] = x
                            \/ x \notin todo /\ (pc = "swap" => x # src)}

\* The filled positions are closed under the permutation, except that inside a
\* cycle they end before dst, whose request is next to leave: it stands at src.
WalkInv ==
  /\ pc = "reorder" => batch = given
  /\ pc \in {"walk", "swap"} =>
       /\ \A x \in DOMAIN given \ NeedsSwap(given) : batch[x] = given[x]
       /\ \A x \in Filled : Region(batch[x]) = Target(given, x)
       /\ \A x \in NeedsSwap(given) \ Filled :
            /\ destination[x] = Destination(given)[x]
            /\ (pc = "swap" /\ x = src) \/ batch[x] = given[x]
  /\ pc = "walk" =>
       \A x \in NeedsSwap(given) : x \in Filled <=> Destination(given)[x] \in Filled
  /\ pc = "swap" =>
       /\ src # dst /\ src \notin todo /\ src \notin Filled /\ dst \notin Filled
       /\ Region(batch[src]) = Target(given, dst)
       /\ \A x \in NeedsSwap(given) :
            x \in Filled \cup {src} <=> Destination(given)[x] \in Filled \cup {dst}
  /\ pc \in {"ordered", "built", "refused", "dispatched"} =>
       \A x \in DOMAIN given : Region(batch[x]) = Target(given, x)

\* What is built is the metadata of the batch, and what is chosen its route.
BuiltInv ==
  /\ pc \in {"reorder", "walk", "swap", "ordered"} => meta = NoMeta
  /\ pc \in {"built", "refused", "dispatched"} =>
       \E pad \in 0..MaxPad : meta = Meta(batch, Rows(batch)[Len(batch)] + pad)
  /\ pc \in {"built", "dispatched"} => ~Refuses(meta)
  /\ pc = "dispatched" => route = RouteOf(meta)

-----------------------------------------------------------------------------
LEMMA TypeInit == Init => TypeOK
<1> SUFFICES ASSUME Init PROVE TypeOK
  OBVIOUS
<1> QED BY DEF Init, OrderInit, TypeOK

LEMMA GivenFacts ==
  ASSUME TypeOK
  PROVE  /\ given \in Seq(Requests) /\ batch \in Seq(Requests)
         /\ DOMAIN batch = DOMAIN given /\ DOMAIN given = 1..Len(given)
         /\ NeedsSwap(given) \in SUBSET DOMAIN given
  BY DEF TypeOK, NeedsSwap

\* Actions leave the batch a sequence of the same length.
LEMMA SwapEffect ==
  ASSUME TypeOK, NEW i \in DOMAIN given, NEW j \in DOMAIN given, i # j
  PROVE  /\ Swapped(batch, i, j) \in Seq(Requests)
         /\ Len(Swapped(batch, i, j)) = Len(batch)
         /\ Swapped(batch, i, j)[i] = batch[j] /\ Swapped(batch, i, j)[j] = batch[i]
         /\ \A x \in DOMAIN given \ {i, j} : Swapped(batch, i, j)[x] = batch[x]
<1>1. batch \in Seq(Requests) /\ DOMAIN batch = DOMAIN given
  BY GivenFacts
<1>2. batch[i] \in Requests /\ batch[j] \in Requests
  BY <1>1
<1> QED BY <1>1, <1>2 DEF Swapped

LEMMA TypeStep == TypeOK /\ WalkInv /\ [Next]_vars => TypeOK'
<1> SUFFICES ASSUME TypeOK, WalkInv, [Next]_vars PROVE TypeOK'
  OBVIOUS
<1> USE DEF TypeOK
<1>1. CASE Reorder /\ UNCHANGED <<config, capturing, meta, route>>
  <2>1. destination' \in [NeedsSwap(given) -> NeedsSwap(given)] /\ todo' = NeedsSwap(given)
    <3>1. batch = given
      BY <1>1 DEF WalkInv, Reorder
    <3> QED BY <1>1, <3>1, GivenFacts, DestinationFacts DEF Reorder
  <2> QED BY <1>1, <2>1 DEF Reorder
<1>2. CASE Walk /\ UNCHANGED <<config, capturing, meta, route>>
  <2>1. PICK s \in todo : /\ src' = s /\ dst' = destination[s] /\ todo' = todo \ {s}
                           /\ pc' = IF destination[s] # s THEN "swap" ELSE "walk"
    BY <1>2 DEF Walk
  <2>2. destination[s] \in NeedsSwap(given) /\ s \in NeedsSwap(given)
    BY <1>2, <2>1 DEF Walk
  <2> QED BY <1>2, <2>1, <2>2 DEF Walk
<1>3. CASE Walked /\ UNCHANGED <<config, capturing, meta, route>>
  BY <1>3 DEF Walked
<1>4. CASE Swap /\ UNCHANGED <<config, capturing, meta, route>>
  <2>1. src \in NeedsSwap(given) /\ dst \in NeedsSwap(given) /\ src # dst
        /\ destination \in [NeedsSwap(given) -> NeedsSwap(given)]
    BY <1>4 DEF Swap, WalkInv
  <2>2. batch' \in Seq(Requests) /\ Len(batch') = Len(given)
    BY <1>4, <2>1, SwapEffect, GivenFacts DEF Swap
  <2>3. destination' \in [NeedsSwap(given) -> NeedsSwap(given)] /\ dst' \in NeedsSwap(given)
    BY <1>4, <2>1 DEF Swap, MarkedDone, NextOf
  <2>4. pc' \in {"walk", "swap"} /\ UNCHANGED <<given, todo, src>>
    BY <1>4 DEF Swap
  <2> QED BY <1>4, <2>1, <2>2, <2>3, <2>4
<1>5. CASE Build
  <2>1. pc' \in {"refused", "built"}
        /\ UNCHANGED <<given, batch, destination, todo, src, dst, config, capturing, route>>
    BY <1>5 DEF Build
  <2> QED BY <2>1
<1>6. CASE Dispatch
  <2>1. route'.gather \in {"b12x", "packed", "workspace", "plain"}
    BY <1>6 DEF Dispatch, RouteOf
  <2> QED BY <1>6, <2>1 DEF Dispatch
<1>7. CASE UNCHANGED vars
  BY <1>7 DEF vars, orderVars
<1> QED BY <1>1, <1>2, <1>3, <1>4, <1>5, <1>6, <1>7 DEF Next, Order, OrderNext, Done

LEMMA WalkInit == Init => WalkInv
  BY DEF Init, OrderInit, WalkInv

\* The facts about the permutation that the walk follows.
LEMMA WalkFacts ==
  ASSUME TypeOK, NEW x \in NeedsSwap(given)
  PROVE  /\ Destination(given)[x] \in NeedsSwap(given)
         /\ Target(given, Destination(given)[x]) = Region(given[x])
         /\ Destination(given)[x] # x
         /\ \A y \in NeedsSwap(given) :
              Destination(given)[x] = Destination(given)[y] => x = y
<1>1. /\ Destination(given)[x] \in NeedsSwap(given)
      /\ Target(given, Destination(given)[x]) = Region(given[x])
      /\ \A y \in NeedsSwap(given) : Destination(given)[x] = Destination(given)[y] => x = y
  BY GivenFacts, DestinationFacts
<1>2. Region(given[x]) # Target(given, x)
  BY DEF NeedsSwap
<1> QED BY <1>1, <1>2

LEMMA WalkStep == TypeOK /\ WalkInv /\ [Next]_vars => WalkInv'
<1> SUFFICES ASSUME TypeOK, WalkInv, [Next]_vars PROVE WalkInv'
  OBVIOUS
<1> DEFINE N == NeedsSwap(given)
           D == Destination(given)
<1>1. CASE Reorder /\ UNCHANGED <<config, capturing, meta, route>>
  <2>1. /\ batch = given /\ UNCHANGED <<given, batch>> /\ destination' = D /\ todo' = N
        /\ pc' \in {"ordered", "walk"} /\ (pc' = "ordered" => N = {})
    BY <1>1 DEF Reorder, WalkInv
  <2>2. CASE pc' = "ordered"
    <3>1. \A x \in DOMAIN given : Region(given[x]) = Target(given, x)
      BY <2>1, <2>2 DEF NeedsSwap
    <3> QED BY <2>1, <2>2, <3>1 DEF WalkInv
  <2>3. CASE pc' = "walk"
    <3>1. Filled' = {}
      BY <2>1, <2>3, WalkFacts DEF Filled
    <3> QED BY <2>1, <2>3, <3>1, WalkFacts DEF WalkInv
  <2> QED BY <2>1, <2>2, <2>3
<1>2. CASE Walk /\ UNCHANGED <<config, capturing, meta, route>>
  <2>1. PICK s \in todo : /\ src' = s /\ dst' = destination[s] /\ todo' = todo \ {s}
                           /\ pc' = IF destination[s] # s THEN "swap" ELSE "walk"
    BY <1>2 DEF Walk
  <2>2. pc = "walk" /\ UNCHANGED <<given, batch, destination>> /\ s \in N
    BY <1>2, <2>1 DEF Walk, TypeOK
  <2>3. Filled' = Filled
    <3>1. CASE destination[s] # s
      BY <2>1, <2>2, <3>1 DEF Filled
    <3>2. CASE destination[s] = s
      BY <2>1, <2>2, <3>2 DEF Filled
    <3> QED BY <3>1, <3>2
  <2>4. CASE destination[s] = s
    BY <2>1, <2>2, <2>3, <2>4 DEF WalkInv
  <2>5. CASE destination[s] # s
    <3>1. s \notin Filled
      BY <2>1, <2>2, <2>5 DEF Filled
    <3>2. destination[s] = D[s] /\ batch[s] = given[s] /\ D[s] \notin Filled
      BY <2>2, <3>1 DEF WalkInv
    <3>3. Region(batch[s]) = Target(given, D[s])
      BY <2>2, <3>2, WalkFacts
    <3>4. \A x \in N : x \in Filled \cup {s} <=> D[x] \in Filled \cup {D[s]}
      BY <2>2, WalkFacts DEF WalkInv
    <3>5. pc' = "swap" /\ src' = s /\ dst' = D[s] /\ src' \notin todo'
      BY <2>1, <2>5, <3>2
    <3> QED BY <2>2, <2>3, <2>5, <3>1, <3>2, <3>3, <3>4, <3>5 DEF WalkInv
  <2> QED BY <2>4, <2>5
<1>3. CASE Walked /\ UNCHANGED <<config, capturing, meta, route>>
  <2>1. pc = "walk" /\ todo = {} /\ pc' = "ordered" /\ UNCHANGED <<given, batch>>
    BY <1>3 DEF Walked
  <2>2. Filled = N
    BY <2>1 DEF Filled
  <2>3. \A x \in DOMAIN given : Region(batch[x]) = Target(given, x)
    <3> TAKE x \in DOMAIN given
    <3>1. CASE x \in N
      BY <2>1, <2>2, <3>1 DEF WalkInv
    <3>2. CASE x \notin N
      <4>1. batch[x] = given[x]
        BY <2>1, <3>2 DEF WalkInv
      <4> QED BY <3>2, <4>1 DEF NeedsSwap
    <3> QED BY <3>1, <3>2
  <2> QED BY <2>1, <2>3 DEF WalkInv
<1>4. CASE Swap /\ UNCHANGED <<config, capturing, meta, route>>
  <2>1. /\ pc = "swap" /\ src \in N /\ dst \in N /\ src # dst
        /\ src \notin Filled /\ dst \notin Filled
        /\ destination \in [N -> N]
    BY <1>4 DEF Swap, WalkInv, TypeOK
  <2>2. /\ UNCHANGED <<given, todo, src>>
        /\ batch' = Swapped(batch, src, dst)
        /\ destination' = [destination EXCEPT ![dst] = dst]
        /\ dst' = destination[dst]
        /\ pc' = IF dst' = src THEN "walk" ELSE "swap"
    BY <1>4 DEF Swap, MarkedDone, NextOf
  <2>3. /\ batch'[src] = batch[dst] /\ batch'[dst] = batch[src]
        /\ \A x \in DOMAIN given \ {src, dst} : batch'[x] = batch[x]
    BY SMTT(30), <2>1, <2>2, SwapEffect, GivenFacts
  <2>4. destination[dst] = D[dst] /\ batch[dst] = given[dst] /\ src \notin todo
    BY <2>1 DEF WalkInv
  <2>5. \A x \in N : destination'[x] = x <=> destination[x] = x \/ x = dst
    BY <2>1, <2>2
  <2>6. /\ D[dst] \in N /\ D[dst] # dst /\ dst' = D[dst]
        /\ Region(batch'[src]) = Target(given, D[dst])
        /\ \A x \in N : D[x] = D[dst] => x = dst
    BY <2>1, <2>2, <2>3, <2>4, WalkFacts
  <2>7. Region(batch'[dst]) = Target(given, dst)
    BY <2>1, <2>3 DEF WalkInv
  <2>8. \A x \in N : x \in Filled \cup {src} <=> D[x] \in Filled \cup {dst}
    BY <2>1 DEF WalkInv
  <2>9. \A x \in DOMAIN given \ N : batch'[x] = given[x]
    BY <2>1, <2>3 DEF WalkInv
  <2>10. \A x \in Filled : Region(batch'[x]) = Target(given, x)
    <3>1. Filled \in SUBSET (DOMAIN given \ {src, dst})
      BY <2>1, GivenFacts DEF Filled
    <3> QED BY <2>1, <2>3, <3>1 DEF WalkInv
  <2>11. \A x \in N \ (Filled \cup {dst}) :
           destination'[x] = D[x] /\ (x = src \/ batch'[x] = given[x])
    <3>1. N \in SUBSET DOMAIN given
      BY GivenFacts
    <3> QED BY <2>1, <2>2, <2>3, <3>1 DEF WalkInv
  <2>12. CASE D[dst] # src
    <3>1. pc' = "swap"
      BY <2>2, <2>6, <2>12
    <3>2. Filled' = Filled \cup {dst}
      BY <2>1, <2>2, <2>5, <3>1 DEF Filled
    <3>3. D[dst] \notin Filled \cup {dst}
      BY <2>1, <2>6, <2>8
    <3>4. \A x \in N : x \in Filled \cup {dst} \cup {src} <=> D[x] \in Filled \cup {dst} \cup {D[dst]}
      BY <2>1, <2>6, <2>8
    <3> QED BY <2>1, <2>2, <2>4, <2>6, <2>7, <2>9, <2>10, <2>11, <2>12,
               <3>1, <3>2, <3>3, <3>4 DEF WalkInv
  <2>13. CASE D[dst] = src
    <3>1. pc' = "walk"
      BY <2>2, <2>6, <2>13
    <3>2. Filled' = Filled \cup {dst, src}
      BY <2>1, <2>2, <2>4, <2>5, <3>1 DEF Filled
    <3>3. \A x \in N : x \in Filled \cup {dst, src} <=> D[x] \in Filled \cup {dst, src}
      BY <2>1, <2>6, <2>8, <2>13
    <3> QED BY <2>1, <2>2, <2>6, <2>7, <2>9, <2>10, <2>11, <2>13,
               <3>1, <3>2, <3>3 DEF WalkInv
  <2> QED BY <2>12, <2>13
<1>5. CASE Build
  BY <1>5 DEF Build, WalkInv, Filled
<1>6. CASE Dispatch
  BY <1>6 DEF Dispatch, WalkInv, Filled
<1>7. CASE UNCHANGED vars
  BY <1>7 DEF vars, orderVars, WalkInv, Filled
<1> QED BY <1>1, <1>2, <1>3, <1>4, <1>5, <1>6, <1>7 DEF Next, Order, OrderNext, Done

LEMMA PermutedInit == Init => Permuted
<1> SUFFICES ASSUME Init PROVE Permuted
  OBVIOUS
<1> DEFINE p == [i \in DOMAIN given |-> i]
<1>1. p \in Bijection(DOMAIN given, DOMAIN given)
  BY DEF Bijection, Injection, Surjection, IsInjective
<1>2. \A i \in DOMAIN given : batch[i] = given[p[i]]
  BY DEF Init, OrderInit
<1> HIDE DEF p
<1> QED BY <1>1, <1>2 DEF Permuted

LEMMA PermutedStep == TypeOK /\ WalkInv /\ Permuted /\ [Next]_vars => Permuted'
<1> SUFFICES ASSUME TypeOK, WalkInv, Permuted, [Next]_vars PROVE Permuted'
  OBVIOUS
<1>1. CASE UNCHANGED <<given, batch>>
  BY <1>1 DEF Permuted
<1>2. CASE Swap
  <2> DEFINE S == DOMAIN given
  <2>1. src \in S /\ dst \in S /\ src # dst /\ given' = given
        /\ batch' = Swapped(batch, src, dst)
    BY <1>2, GivenFacts DEF Swap, TypeOK, WalkInv
  <2>2. PICK p \in Bijection(S, S) : \A i \in S : batch[i] = given[p[i]]
    BY DEF Permuted
  <2> DEFINE q == [i \in S |-> IF i = src THEN p[dst] ELSE IF i = dst THEN p[src] ELSE p[i]]
  <2>3. /\ p \in [S -> S] /\ \A i, j \in S : p[i] = p[j] => i = j
        /\ \A j \in S : \E i \in S : p[i] = j
    BY DEF Bijection, Injection, Surjection, IsInjective
  <2> HIDE DEF S
  <2>4. q \in [S -> S] /\ \A i, j \in S : q[i] = q[j] => i = j
    BY <2>1, <2>3
  <2>5. \A j \in S : \E i \in S : q[i] = j
    <3> TAKE j \in S
    <3>1. PICK i \in S : p[i] = j
      BY <2>3
    <3>2. CASE i = src
      <4>1. q[dst] = j
        BY <2>1, <3>1, <3>2
      <4> QED BY <2>1, <4>1
    <3>3. CASE i = dst
      <4>1. q[src] = j
        BY <2>1, <3>1, <3>3
      <4> QED BY <2>1, <4>1
    <3>4. CASE i # src /\ i # dst
      <4>1. q[i] = j
        BY <3>1, <3>4
      <4> QED BY <4>1
    <3> QED BY <3>2, <3>3, <3>4
  <2>6. \A i \in S : batch'[i] = given[q[i]]
    <3>1. /\ batch'[src] = batch[dst] /\ batch'[dst] = batch[src]
          /\ \A x \in S \ {src, dst} : batch'[x] = batch[x]
      BY <2>1, SwapEffect DEF S
    <3> QED BY <2>1, <2>2, <3>1
  <2> HIDE DEF q
  <2>7. q \in Bijection(S, S)
    BY <2>4, <2>5 DEF Bijection, Injection, Surjection, IsInjective
  <2> QED BY <2>1, <2>6, <2>7 DEF Permuted, S
<1>3. UNCHANGED <<given, batch>> \/ Swap
  BY DEF Next, Order, OrderNext, Reorder, Walk, Walked, Build, Dispatch, Done, vars, orderVars
<1> QED BY <1>1, <1>2, <1>3

LEMMA BuiltInit == Init => BuiltInv
  BY DEF Init, OrderInit, BuiltInv

LEMMA BuiltStep == TypeOK /\ BuiltInv /\ [Next]_vars => BuiltInv'
<1> SUFFICES ASSUME TypeOK, BuiltInv, [Next]_vars PROVE BuiltInv'
  OBVIOUS
<1>1. CASE OrderNext /\ UNCHANGED <<config, capturing, meta, route>>
  <2>1. pc' \in {"walk", "swap", "ordered"} /\ pc \in {"reorder", "walk", "swap"}
    BY <1>1 DEF OrderNext, Reorder, Walk, Walked, Swap
  <2> QED BY <1>1, <2>1 DEF BuiltInv
<1>2. CASE Build
  <2>1. PICK pad \in 0..MaxPad :
          /\ meta' = Meta(batch, Rows(batch)[Len(batch)] + pad)
          /\ pc' = IF Refuses(meta') THEN "refused" ELSE "built"
    BY <1>2 DEF Build
  <2>2. UNCHANGED <<batch, config>> /\ Refuses(meta)' = Refuses(meta')
    BY <1>2 DEF Build, Refuses
  <2>3. Meta(batch, Rows(batch)[Len(batch)] + pad)' = Meta(batch, Rows(batch)[Len(batch)] + pad)
    BY <2>2 DEF Meta
  <2>4. \E e \in 0..MaxPad : meta' = Meta(batch, Rows(batch)[Len(batch)] + e)'
    BY <2>1, <2>3
  <2>5. pc' \in {"refused", "built"} /\ (pc' = "built" => ~Refuses(meta)')
    BY <2>1, <2>2
  <2> QED BY <2>4, <2>5 DEF BuiltInv
<1>3. CASE Dispatch
  <2>1. /\ pc = "built" /\ pc' = "dispatched" /\ UNCHANGED <<batch, meta, config, capturing>>
        /\ route' = RouteOf(meta)
    BY <1>3 DEF Dispatch
  <2>2. RouteOf(meta)' = RouteOf(meta)
    BY <2>1 DEF RouteOf, UseB12x, UseA2A, SmallBatch, PackedEligible, GatherEligible,
                PersistentW, PurePrefill
  <2>3. (~Refuses(meta))' /\ \E e \in 0..MaxPad : meta' = Meta(batch, Rows(batch)[Len(batch)] + e)'
    BY <2>1 DEF BuiltInv, Refuses, Meta
  <2> QED BY <2>1, <2>2, <2>3 DEF BuiltInv
<1>4. CASE UNCHANGED vars
  BY <1>4 DEF vars, orderVars, BuiltInv, Meta, Refuses, RouteOf, UseB12x, UseA2A, SmallBatch,
              PackedEligible, GatherEligible, PersistentW, PurePrefill
<1> QED BY <1>1, <1>2, <1>3, <1>4 DEF Next, Order, Done

-----------------------------------------------------------------------------
(* The invariant implies the properties.                                   *)

\* Positions later in a batch are meant for later regions.
LEMMA TargetsAscend ==
  ASSUME NEW b \in Seq(Requests), NEW i \in DOMAIN b, NEW j \in DOMAIN b, i < j
  PROVE  Target(b, i) <= Target(b, j)
<1>1. Target(b, j) \in 0..3 /\ j <= UpTo(b, Target(b, j))
  BY TargetFacts
<1>2. UpTo(b, Target(b, j)) \in Nat /\ i \in Nat /\ j \in Nat
  BY <1>1, UpToFacts
<1>3. i <= UpTo(b, Target(b, j))
  BY <1>1, <1>2
<1> QED BY <1>1, <1>3, TargetFacts

LEMMA RegionsAscend ==
  ASSUME TypeOK, WalkInv, pc \in {"ordered", "built", "refused", "dispatched"}
  PROVE  \A i, j \in DOMAIN batch : i < j => Region(batch[i]) <= Region(batch[j])
  BY GivenFacts, TargetsAscend DEF WalkInv

LEMMA BatchOrderedHolds == TypeOK /\ WalkInv /\ Permuted => BatchOrdered
<1> SUFFICES ASSUME TypeOK, WalkInv, Permuted PROVE BatchOrdered
  OBVIOUS
<1> DEFINE S == DOMAIN given
<1>1. DOMAIN batch = S /\ IsFiniteSet(S)
  BY GivenFacts, UpToFacts
<1>2. PICK p \in Bijection(S, S) : \A i \in S : batch[i] = given[p[i]]
  BY DEF Permuted
<1> HIDE DEF S
<1>3. ASSUME NEW v
      PROVE  Cardinality({j \in S : batch[j] = v}) = Cardinality({j \in S : given[j] = v})
  <2> DEFINE A == {j \in S : batch[j] = v}
             B == {j \in S : given[j] = v}
             f == [j \in A |-> p[j]]
  <2>1. /\ p \in [S -> S] /\ \A i, j \in S : p[i] = p[j] => i = j
        /\ \A j \in S : \E i \in S : p[i] = j
    BY <1>2 DEF Bijection, Injection, Surjection, IsInjective
  <2>2. f \in [A -> B] /\ \A i, j \in A : f[i] = f[j] => i = j
    BY <1>2, <2>1
  <2>3. \A j \in B : \E i \in A : f[i] = j
    <3> TAKE j \in B
    <3>1. PICK i \in S : p[i] = j
      BY <2>1
    <3>2. i \in A /\ f[i] = j
      BY <1>2, <3>1
    <3> QED BY <3>2
  <2>4. A \in SUBSET S
    OBVIOUS
  <2> HIDE DEF A, B, f
  <2>5. f \in Bijection(A, B)
    BY <2>2, <2>3 DEF Bijection, Injection, Surjection, IsInjective
  <2>6. IsFiniteSet(A) /\ ExistsBijection(A, B)
    BY <1>1, <2>4, <2>5, FS_Subset DEF ExistsBijection
  <2>7. Cardinality(B) = Cardinality(A)
    BY <2>6, FS_Bijection
  <2> QED BY <2>7 DEF A, B
<1> QED BY <1>1, <1>3, RegionsAscend DEF BatchOrdered, S

\* The arrays of lengths of a batch, and their sums.
LEMMA RowsFacts ==
  ASSUME NEW b \in Seq(Requests)
  PROVE  /\ \A i \in 0..Len(b) : Rows(b)[i] \in Nat
         /\ \A n \in 1..Len(b) : Rows(b)[n] > 0
<1> DEFINE a == [i \in DOMAIN b |-> b[i].sched]
<1>1. \A i \in DOMAIN b : b[i] \in Requests /\ b[i].sched \in Nat /\ b[i].sched > 0
  BY RegionType DEF Requests
<1>2. a \in Seq(Nat) /\ Len(a) = Len(b) /\ \A i \in 1..Len(b) : a[i] = b[i].sched
  BY <1>1
<1>3. /\ \A i \in 0..Len(a) : PrefixSum(a)[i] \in Nat
      /\ \A i \in 1..Len(a), n \in 1..Len(a) : i <= n => a[i] <= PrefixSum(a)[n]
  BY <1>2, PrefixSumFacts
<1>4. ASSUME NEW n \in 1..Len(b) PROVE PrefixSum(a)[n] > 0
  <2>1. n \in DOMAIN b /\ n \in 0..Len(b)
    OBVIOUS
  <2> HIDE DEF a
  <2>2. a[n] <= PrefixSum(a)[n] /\ PrefixSum(a)[n] \in Nat
    BY <1>2, <1>3, <2>1
  <2>3. a[n] > 0 /\ a[n] \in Nat
    BY <1>1, <1>2, <2>1
  <2> QED BY <2>2, <2>3
<1> QED BY <1>2, <1>3, <1>4 DEF Rows

\* The cut of a batch in the order of its regions.
LEMMA CutFacts ==
  ASSUME NEW b \in Seq(Requests), NEW tokens \in Nat,
         \A i, j \in DOMAIN b : i < j => Region(b[i]) <= Region(b[j])
  PROVE  LET split == Split(b, tokens) IN
         /\ split.decodes \in 0..Len(b)
         /\ \A i \in 1..split.decodes : BelowThreshold(b[i])
         /\ \A i \in split.decodes+1..Len(b) : HasContext(b[i]) => ~BelowThreshold(b[i])
         /\ split.decodeTokens \in Nat /\ split.prefillTokens \in Int
         /\ split.decodeTokens + split.prefillTokens = tokens
         /\ split.prefillTokens > 0 =>
              split.decodeTokens = Rows(b)[split.decodes] /\ split.decodes # Len(b)
<1> DEFINE split == Split(b, tokens)
<1>1. /\ DOMAIN b = 1..Len(b) /\ Len(b) \in Nat
      /\ \A i \in DOMAIN b : b[i].sched \in Nat /\ b[i].computed \in Nat /\ b[i].prompt \in Nat
  BY RegionType DEF Requests
<1>2. CASE Long(b) = {}
  <2>1. split = [decodes |-> Len(b), prefills |-> 0, decodeTokens |-> tokens, prefillTokens |-> 0]
    BY <1>2 DEF Split
  <2>2. \A i \in DOMAIN b : BelowThreshold(b[i])
    <3> TAKE i \in DOMAIN b
    <3>1. i \notin Long(b)
      BY <1>2
    <3> QED BY <1>1, <3>1 DEF Long, BelowThreshold
  <2> HIDE DEF split
  <2>3. /\ split.decodes = Len(b) /\ split.decodeTokens = tokens /\ split.prefillTokens = 0
    BY <2>1
  <2> QED BY SMTT(30), <1>1, <2>2, <2>3 DEF split
<1>3. CASE Long(b) # {}
  <2> DEFINE cut == First(Long(b))
  <2>1. cut \in Long(b) /\ \A i \in Long(b) : cut <= i
    <3>1. Long(b) \in SUBSET Nat
      BY <1>1 DEF Long
    <3> QED BY <1>3, <3>1, FirstIsLeast
  <2>2. cut \in 1..Len(b) /\ b[cut].sched > Threshold
    BY <1>1, <2>1 DEF Long
  <2>3. split = [decodes |-> cut - 1, prefills |-> Len(b) - cut + 1,
                 decodeTokens |-> Rows(b)[cut - 1], prefillTokens |-> tokens - Rows(b)[cut - 1]]
    BY <1>3 DEF Split
  <2> HIDE DEF cut, split
  <2>4. /\ split.decodes = cut - 1 /\ split.decodeTokens = Rows(b)[cut - 1]
        /\ split.prefillTokens = tokens - Rows(b)[cut - 1]
    BY <2>3
  <2>5. Rows(b)[cut - 1] \in Nat
    BY <2>2, RowsFacts
  <2>6. \A i \in 1..cut-1 : BelowThreshold(b[i])
    <3> TAKE i \in 1..cut-1
    <3>1. i \in DOMAIN b /\ i \notin Long(b)
      BY <1>1, <2>1, <2>2
    <3> QED BY <1>1, <3>1 DEF Long, BelowThreshold
  <2>7. ASSUME NEW i \in cut..Len(b), HasContext(b[i]), BelowThreshold(b[i])
        PROVE  FALSE
    <3>1. i \in DOMAIN b /\ cut \in DOMAIN b
      BY <1>1, <2>2
    <3>2. Region(b[cut]) \in {2, 3}
      BY <1>1, <2>2, <3>1 DEF Region, BelowThreshold
    <3>3. Region(b[i]) \in {0, 1}
      BY <1>1, <2>7, <3>1 DEF Region
    <3>4. cut # i => Region(b[cut]) <= Region(b[i])
      BY <2>2, <3>1
    <3> QED BY <3>2, <3>3, <3>4
  <2> QED BY <2>2, <2>4, <2>5, <2>6, <2>7 DEF split
<1> QED BY <1>2, <1>3

LEMMA MaxQueryFacts ==
  ASSUME NEW b \in Seq(Requests), Len(b) > 0
  PROVE  MaxQueryLen(b) \in Nat
<1> DEFINE a == [i \in DOMAIN b |-> b[i].sched]
           T == {n \in Nat : \A i \in DOMAIN b : b[i].sched <= n}
<1>1. DOMAIN b = 1..Len(b) /\ \A i \in DOMAIN b : b[i].sched \in Nat /\ b[i].sched > 0
  BY RegionType DEF Requests
<1>2. a \in Seq(Nat) /\ Len(a) = Len(b) /\ \A i \in 1..Len(b) : a[i] = b[i].sched
  BY <1>1
<1> HIDE DEF a
<1>3. PrefixSum(a)[Len(b)] \in T
  <2>1. PrefixSum(a)[Len(b)] \in Nat
    BY <1>2, PrefixSumFacts
  <2>2. ASSUME NEW i \in DOMAIN b PROVE b[i].sched <= PrefixSum(a)[Len(b)]
    BY <1>1, <1>2, PrefixSumFacts
  <2> QED BY <2>1, <2>2
<1>4. PICK m \in T : \A n \in T : m <= n
  <2>1. T \in SUBSET Nat
    OBVIOUS
  <2> HIDE DEF T
  <2> QED BY <1>3, <2>1, LeastNumber
<1>5. ASSUME \A i \in DOMAIN b : b[i].sched # m PROVE FALSE
  <2>1. m # 0
    BY <1>1
  <2>2. m-1 \in T
    BY <1>1, <1>5, <2>1
  <2> QED BY <1>4, <2>2
<1>6. m \in {b[i].sched : i \in DOMAIN b} /\ \A i \in DOMAIN b : b[i].sched <= m
  BY <1>5
<1>7. \E x \in {b[i].sched : i \in DOMAIN b} : \A i \in DOMAIN b : b[i].sched <= x
  BY <1>6
<1>8. MaxQueryLen(b) \in {b[i].sched : i \in DOMAIN b}
  BY <1>7, Zenon DEF MaxQueryLen
<1> QED BY <1>1, <1>8

LEMMA QuotientPositive ==
  ASSUME NEW x \in Nat, NEW v \in Nat \ {0}, x >= v
  PROVE  x \div v \in Nat /\ x \div v > 0
  OBVIOUS

LEMMA BlocksFacts ==
  ASSUME NEW b \in Seq(Requests), Len(b) > 0
  PROVE  PackedBlocks(b) \in Nat /\ PackedBlocks(b) > 0
<1> DEFINE a == [i \in DOMAIN b |-> BlocksOf(b[i])]
<1>1. \A i \in DOMAIN b : BlocksOf(b[i]) \in Nat /\ BlocksOf(b[i]) > 0
  <2> TAKE i \in DOMAIN b
  <2>1. b[i].computed \in Nat /\ b[i].sched \in Nat \ {0}
    BY RegionType DEF Requests
  <2> DEFINE x == b[i].computed + b[i].sched + VirtualBlock - 1
  <2>2. x \in Nat /\ x >= VirtualBlock /\ VirtualBlock \in Nat \ {0}
    BY <2>1, RowsAssumption
  <2> HIDE DEF x
  <2>3. x \div VirtualBlock \in Nat /\ x \div VirtualBlock > 0
    BY <2>2, QuotientPositive
  <2> QED BY <2>3 DEF BlocksOf, x
<1>2. a \in Seq(Nat) /\ Len(a) = Len(b) /\ \A i \in 1..Len(b) : a[i] = BlocksOf(b[i])
  BY <1>1
<1>3. Len(b) \in 1..Len(b) /\ a[Len(b)] > 0 /\ a[Len(b)] \in Nat
  BY <1>1, <1>2
<1> HIDE DEF a
<1>4. a[Len(b)] <= PrefixSum(a)[Len(b)] /\ PrefixSum(a)[Len(b)] \in Nat
  BY <1>2, <1>3, PrefixSumFacts
<1>5. PackedBlocks(b) = PrefixSum(a)[Len(b)]
  BY DEF PackedBlocks, a
<1> QED BY <1>3, <1>4, <1>5

\* Once built, the metadata is that of an ordered batch.
LEMMA MetaFacts ==
  ASSUME TypeOK, WalkInv, BuiltInv, meta # NoMeta
  PROVE  /\ batch \in Seq(Requests) /\ Len(batch) > 0
         /\ \A i, j \in DOMAIN batch : i < j => Region(batch[i]) <= Region(batch[j])
         /\ \E tokens \in Nat : tokens > 0 /\ meta = Meta(batch, tokens)
<1>1. pc \in {"built", "refused", "dispatched"}
  BY DEF TypeOK, BuiltInv
<1>2. batch \in Seq(Requests) /\ Len(batch) > 0
  BY DEF TypeOK
<1>3. PICK pad \in 0..MaxPad : meta = Meta(batch, Rows(batch)[Len(batch)] + pad)
  BY <1>1 DEF BuiltInv
<1>4. Rows(batch)[Len(batch)] \in Nat /\ Rows(batch)[Len(batch)] > 0
  BY <1>2, RowsFacts
<1>5. Rows(batch)[Len(batch)] + pad \in Nat /\ Rows(batch)[Len(batch)] + pad > 0
  BY <1>4, RowsAssumption
<1> QED BY <1>1, <1>2, <1>3, <1>5, RegionsAscend

LEMMA SplitSoundHolds == TypeOK /\ WalkInv /\ BuiltInv => SplitSound
<1> SUFFICES ASSUME TypeOK, WalkInv, BuiltInv, meta # NoMeta PROVE SplitSound
  BY DEF SplitSound
<1>1. PICK tokens \in Nat : tokens > 0 /\ meta = Meta(batch, tokens)
  BY MetaFacts
<1>2. /\ meta.tokens = tokens
      /\ meta.decodeTokens = Split(batch, tokens).decodeTokens
      /\ meta.prefillTokens = Split(batch, tokens).prefillTokens
  BY <1>1 DEF Meta
<1> QED BY <1>1, <1>2, MetaFacts, CutFacts DEF SplitSound

LEMMA EntryAcceptsHolds == TypeOK /\ WalkInv /\ BuiltInv => EntryAccepts
<1> SUFFICES ASSUME TypeOK, WalkInv, BuiltInv, pc = "dispatched" PROVE EntryAccepts
  BY DEF EntryAccepts
<1>1. route = RouteOf(meta) /\ ~Refuses(meta)
  BY DEF BuiltInv
<1>2. PICK pad \in 0..MaxPad : meta = Meta(batch, Rows(batch)[Len(batch)] + pad)
  BY DEF BuiltInv
<1>3. batch \in Seq(Requests) /\ Len(batch) > 0
  BY DEF TypeOK
<1> DEFINE tokens == Rows(batch)[Len(batch)] + pad
<1>4. /\ meta.tokens = tokens /\ meta.maxQuery = MaxQueryLen(batch)
      /\ meta.ckv = (config.transport = "ckv" /\ ~PureDecode(batch, tokens))
      /\ meta.blocks = IF PureDecode(batch, tokens) THEN 0 ELSE PackedBlocks(batch)
  BY <1>2 DEF Meta
<1>5. tokens \in Nat
  <2>1. Rows(batch)[Len(batch)] \in Nat
    BY <1>3, RowsFacts
  <2> QED BY <2>1, RowsAssumption
<1> HIDE DEF tokens
<1>6. CASE route.gather = "packed"
  <2>1. PackedEligible(meta)
    BY <1>1, <1>6 DEF RouteOf
  <2>2. config.transport = "ckv" /\ PurePrefill(meta) /\ GatherEligible(meta)
    BY <2>1 DEF PackedEligible
  <2>3. meta.tokens \in GatherRows /\ ~capturing /\ meta.maxQuery > 1
    BY <2>2 DEF GatherEligible, PersistentW
  <2>4. ~PureDecode(batch, tokens)
    BY <1>3, <1>4, <2>3, MaxQueryFacts DEF PureDecode
  <2>5. meta.ckv /\ 0 < meta.blocks
    BY <1>3, <1>4, <2>2, <2>4, BlocksFacts
  <2>6. meta.blocks <= MaxBlocks
    BY <1>1, <1>3, <1>4, <2>4, <2>5, BlocksFacts, RowsAssumption DEF Refuses
  <2>7. MinRows <= meta.tokens /\ meta.tokens <= MaxRows
    BY <2>3, RowsAssumption DEF GatherRows
  <2>8. meta.decodeTokens = 0 /\ meta.prefillTokens = meta.tokens
    BY <2>2 DEF PurePrefill
  <2> QED BY <1>6, <2>2, <2>3, <2>5, <2>6, <2>7, <2>8 DEF EntryAccepts
<1>7. CASE route.gather = "workspace"
  <2>1. GatherEligible(meta) /\ ~PackedEligible(meta)
    BY <1>1, <1>7 DEF RouteOf
  <2>2. route.project /\ route.merge = "rs"
    BY <1>1, <2>1 DEF RouteOf, GatherEligible
  <2>3. meta.tokens <= MaxRows
    BY <2>1, RowsAssumption DEF GatherEligible, GatherRows
  <2> QED BY <1>7, <2>2, <2>3 DEF EntryAccepts
<1> QED BY <1>6, <1>7 DEF EntryAccepts

LEMMA ShortRowsQueryOwnedHolds == TypeOK /\ WalkInv /\ BuiltInv => ShortRowsQueryOwned
<1> SUFFICES ASSUME TypeOK, WalkInv, BuiltInv, pc = "dispatched", route.gather = "packed"
             PROVE  \A i \in DOMAIN batch : ~(HasContext(batch[i]) /\ BelowThreshold(batch[i]))
  BY DEF ShortRowsQueryOwned
<1>1. route = RouteOf(meta)
  BY DEF BuiltInv
<1>2. PurePrefill(meta)
  BY <1>1 DEF RouteOf, PackedEligible
<1>3. meta # NoMeta
  <2>1. PICK pad \in 0..MaxPad : meta = Meta(batch, Rows(batch)[Len(batch)] + pad)
    BY DEF BuiltInv
  <2>2. "ckv" \in DOMAIN meta
    BY <2>1 DEF Meta
  <2>3. "ckv" \notin DOMAIN NoMeta
    BY DEF NoMeta
  <2> QED BY <2>2, <2>3
<1>4. PICK tokens \in Nat : tokens > 0 /\ meta = Meta(batch, tokens)
  BY <1>3, MetaFacts
<1> DEFINE split == Split(batch, tokens)
<1>5. split.decodeTokens = 0 /\ split.prefillTokens > 0
  BY <1>2, <1>4 DEF Meta, PurePrefill
<1> HIDE DEF split
<1>6. /\ split.decodes \in 0..Len(batch)
      /\ \A i \in split.decodes+1..Len(batch) : HasContext(batch[i]) => ~BelowThreshold(batch[i])
      /\ Rows(batch)[split.decodes] = 0
  BY <1>3, <1>5, MetaFacts, CutFacts DEF split
<1>7. split.decodes = 0
  BY <1>3, <1>6, MetaFacts, RowsFacts
<1> QED BY <1>3, <1>6, <1>7, MetaFacts

-----------------------------------------------------------------------------
(* The theorems.                                                           *)

LEMMA Invariants == Spec => [](TypeOK /\ WalkInv /\ Permuted /\ BuiltInv)
<1>1. Init => TypeOK /\ WalkInv /\ Permuted /\ BuiltInv
  BY TypeInit, WalkInit, PermutedInit, BuiltInit
<1>2. TypeOK /\ WalkInv /\ Permuted /\ BuiltInv /\ [Next]_vars
        => (TypeOK /\ WalkInv /\ Permuted /\ BuiltInv)'
  BY TypeStep, WalkStep, PermutedStep, BuiltStep
<1> QED BY <1>1, <1>2, PTL DEF Spec

\* The batch stays a sequence of requests, and every destination the walk
\* follows is a misplaced position.
THEOREM TypeCorrect == Spec => []TypeOK
  BY Invariants, PTL

\* However many requests a batch has and whatever they are, swapping keeps each
\* of them and ends with the batch in the order of the regions.
THEOREM BatchIsOrdered == Spec => []BatchOrdered
  BY Invariants, BatchOrderedHolds, PTL

\* For every threshold, the counts taken from the query lengths alone are those
\* of the regions.
THEOREM SplitIsSound == Spec => []SplitSound
  BY Invariants, SplitSoundHolds, PTL

\* For every configuration of the process and every bound, the entry checks of
\* the packed forward and of the workspace gather hold where the layer chooses
\* them.
THEOREM EntryIsAccepted == Spec => []EntryAccepts
  BY Invariants, EntryAcceptsHolds, PTL

\* No request with context and at most as many rows as the threshold, so no decode
\* of one row and no short extend, is in a packed call.
THEOREM ShortRowsStayQueryOwned == Spec => []ShortRowsQueryOwned
  BY Invariants, ShortRowsQueryOwnedHolds, PTL

\* Sums of the first numbers do not shrink.
LEMMA PrefixSumGrows ==
  ASSUME NEW a \in Seq(Nat), NEW i \in 0..Len(a)
  PROVE  \A n \in i..Len(a) : PrefixSum(a)[i] <= PrefixSum(a)[n]
<1>1. /\ PrefixSum(a) \in [0..Len(a) -> Nat]
      /\ \A n \in 1..Len(a) : PrefixSum(a)[n] = PrefixSum(a)[n-1] + a[n]
  BY PrefixSumDef DEF IsSumTo
<1> DEFINE f == PrefixSum(a)
           T == {n \in i..Len(a) : ~(f[i] <= f[n])}
<1>2. \A n \in 0..Len(a) : f[n] \in Nat
  BY <1>1
<1>3. \A n \in 1..Len(a) : f[n] = f[n-1] + a[n] /\ a[n] \in Nat
  BY <1>1
<1> HIDE DEF f
<1>4. ASSUME T # {} PROVE FALSE
  <2>1. T \in SUBSET Nat
    OBVIOUS
  <2>2. PICK n \in T : \A m \in T : n <= m
    <3> HIDE DEF T
    <3> QED BY <1>4, <2>1, LeastNumber
  <2>3. n # i
    BY <1>2
  <2>4. n-1 \in i..Len(a) /\ n-1 \notin T
    BY <2>2, <2>3
  <2>5. n \in 1..Len(a) /\ n-1 \in 0..Len(a) /\ f[i] <= f[n-1]
    BY <2>4
  <2>6. f[n] = f[n-1] + a[n] /\ a[n] \in Nat /\ f[n-1] \in Nat /\ f[i] \in Nat
    BY <1>2, <1>3, <2>5
  <2> QED BY <2>5, <2>6
<1> QED BY <1>4 DEF f

-----------------------------------------------------------------------------
(* Arithmetic of the layouts.                                              *)

LEMMA ProductMonotone ==
  ASSUME NEW a \in Nat, NEW b \in Nat, NEW m \in Nat, a <= b
  PROVE  a * m \in Nat /\ b * m \in Nat /\ a * m <= b * m
  OBVIOUS

LEMMA ProductStrict ==
  ASSUME NEW a \in Nat, NEW b \in Nat, NEW m \in Nat, a < b
  PROVE  a * m + m <= b * m /\ a * m \in Nat /\ b * m \in Nat
<1>1. (a + 1) * m <= b * m /\ a * m \in Nat /\ b * m \in Nat
  BY ProductMonotone
<1>2. (a + 1) * m = a * m + m
  OBVIOUS
<1> QED BY <1>1, <1>2

LEMMA DivMod ==
  ASSUME NEW n \in Nat, NEW m \in Nat, m > 0
  PROVE  /\ n \div m \in Nat /\ n % m \in 0..m-1 /\ (n \div m) * m \in Nat
         /\ n = (n \div m) * m + (n % m)
<1>1. n \div m \in Nat /\ n % m \in 0..m-1
  OBVIOUS
<1>2. n = m * (n \div m) + (n % m)
  OBVIOUS
<1> QED BY <1>1, <1>2

\* The quotient and the remainder of a number given by its parts.
LEMMA PartsUnique ==
  ASSUME NEW a \in Nat, NEW i \in Nat, NEW m \in Nat, i < m
  PROVE  /\ a * m + i \in Nat
         /\ (a * m + i) \div m = a /\ (a * m + i) % m = i
<1> DEFINE n == a * m + i
<1>1. a * m \in Nat
  BY ProductMonotone
<1>2. n \in Nat
  BY <1>1
<1>3. /\ n \div m \in Nat /\ n % m \in 0..m-1 /\ (n \div m) * m \in Nat
      /\ n = (n \div m) * m + (n % m)
  BY <1>2, DivMod
<1> DEFINE q == n \div m
           j == n % m
<1>4. q \in Nat /\ j \in 0..m-1 /\ q * m \in Nat /\ a * m + i = q * m + j
  BY <1>3
<1> HIDE DEF q, j
<1>5. ASSUME a < q PROVE FALSE
  <2>1. a * m + m <= q * m
    BY <1>4, <1>5, ProductStrict
  <2> QED BY <1>1, <1>4, <2>1
<1>6. ASSUME q < a PROVE FALSE
  <2>1. q * m + m <= a * m
    BY <1>4, <1>6, ProductStrict
  <2> QED BY <1>1, <1>4, <2>1
<1>7. a = q
  BY <1>4, <1>5, <1>6
<1>8. i = j
  BY <1>1, <1>4, <1>7
<1> QED BY <1>2, <1>7, <1>8 DEF q, j, n

\* A cell of an n-by-m layout is one of its n*m cells.
LEMMA CellInside ==
  ASSUME NEW n \in Nat, NEW m \in Nat, NEW a \in 0..n-1, NEW i \in 0..m-1
  PROVE  a * m + i \in 0..n*m-1 /\ a * m \in Nat /\ n * m \in Nat
<1>1. a \in Nat /\ a < n
  OBVIOUS
<1>2. a * m + m <= n * m /\ a * m \in Nat /\ n * m \in Nat
  BY <1>1, ProductStrict
<1> QED BY <1>2

LEMMA CellParts ==
  ASSUME NEW n \in Nat, NEW m \in Nat, NEW j \in 0..n*m-1
  PROVE  /\ j \div m \in 0..n-1 /\ j % m \in 0..m-1
         /\ (j \div m) * m \in Nat /\ j = (j \div m) * m + (j % m)
<1>0. n * m \in Nat
  BY ProductMonotone
<1>1. j \in Nat /\ j < n * m
  BY <1>0
<1>2. m > 0
  <2>1. ASSUME m = 0 PROVE FALSE
    <3>1. n * 0 = 0
      OBVIOUS
    <3> QED BY <1>1, <2>1, <3>1
  <2> QED BY <2>1
<1> DEFINE q == j \div m
           i == j % m
<1>3. q \in Nat /\ i \in 0..m-1 /\ q * m \in Nat /\ j = q * m + i
  BY <1>1, <1>2, DivMod
<1> HIDE DEF q, i
<1>4. ASSUME n <= q PROVE FALSE
  <2>1. n * m <= q * m
    BY <1>3, <1>4, ProductMonotone
  <2> QED BY <1>0, <1>1, <1>3, <2>1
<1>5. q \in 0..n-1
  BY <1>3, <1>4
<1> QED BY <1>3, <1>5 DEF q, i
-----------------------------------------------------------------------------
(* The invariant of the workspaces.                                        *)

\* Chunks are the same on every rank.
PerChunk     == ChunkRows(0)
SizeOf(c, k) == IF Tokens(c) - k * PerChunk < PerChunk THEN Tokens(c) - k * PerChunk ELSE PerChunk

\* Collectives of a call on either stream, and those of the calls up to it.
GathersIn(c) == IF IsQuery(c) THEN (Tokens(c) + PerChunk - 1) \div PerChunk ELSE 0
EntriesIn(c) == IF IsQuery(c) THEN 2 ELSE 1
GathersTo    == PrefixSum([c \in 1..Len(program) |-> GathersIn(c)])
EntriesTo    == PrefixSum([c \in 1..Len(program) |-> EntriesIn(c)])

\* What rank r sends in them.
Wire == IF mode = "fp8" THEN "fp8" ELSE "exact"
GatherOf(r, c, k) == [i \in 0..SizeOf(c, k)-1 |-> Query(r, k * PerChunk + i, c, Wire)]
ReduceOf(r, c) == [i \in 0..Tokens(c)*W-1 |->
  Corrected(Projected(Partial(r, SeenBy(r, i \div Tokens(c), i % Tokens(c), c))))]
PayloadOf(r, c) == [i \in 0..Tokens(c) |-> IF i < Tokens(c) THEN Record(r, i, c) ELSE Hole(r, c)]

QueryPlaces  == {"gather", "attend", "transpose", "project", "correct", "reduce", "store"}
PackedPlaces == {"pack", "packed", "storeLocal"}

\* Where rank r can be: no call goes on before all its chunks are placed.
PositionOf(r) ==
  /\ call[r] = 0 => doing[r] = "idle" /\ staged[r] = 0 /\ placed[r] = 0
  /\ doing[r] \in QueryPlaces => IsQuery(call[r])
  /\ doing[r] \in PackedPlaces => ~IsQuery(call[r])
  /\ staged[r] <= placed[r] + Depth
  /\ call[r] > 0 => staged[r] <= GathersIn(call[r])
  /\ doing[r] = "gather" => placed[r] < GathersIn(call[r])
  /\ call[r] > 0 /\ doing[r] # "gather" => placed[r] = GathersIn(call[r])

-----------------------------------------------------------------------------
(* Chunks, and the collectives of a call.                                  *)

LEMMA WorkspaceSizes ==
  /\ W \in Nat /\ W > 0 /\ MaxBatched \in Nat /\ MaxBatched > 1
  /\ Capacity \in Nat /\ Capacity <= MaxBatched
  /\ Ranks \subseteq Nat /\ \A r \in Ranks : r < W
  /\ MaxBatched * W \in Nat
<1>1. /\ W \in Nat /\ W > 0 /\ MaxBatched \in Nat /\ MaxBatched > 1
      /\ Capacity \in Nat /\ Capacity <= MaxBatched
  BY GroupAssumption, SizesAssumption
<1>2. MaxBatched * W \in Nat
  BY <1>1, ProductMonotone
<1> QED BY <1>1, <1>2 DEF Ranks

LEMMA RunFacts ==
  ASSUME WorkspaceTypeOK
  PROVE  /\ Len(program) \in Nat
         /\ \A c \in 1..Len(program) : Tokens(c) \in 1..MaxBatched
         /\ \A r \in Ranks : ChunkRows(r) = PerChunk
         /\ PerChunk \in 1..Capacity
         /\ Depth = (IF mode = "async" THEN 2 ELSE 1)
         /\ Depth * PerChunk <= Capacity /\ Depth \in {1, 2}
<1> DEFINE SomeCall == [route : {"query", "packed"}, rows : 1..MaxBatched]
<1>1. program \in Seq(SomeCall)
  BY ProgramsAssumption DEF WorkspaceTypeOK
<1>2. Len(program) \in Nat
  BY <1>1
<1>3. ASSUME NEW c \in 1..Len(program) PROVE Tokens(c) \in 1..MaxBatched
  <2>1. program[c] \in SomeCall
    <3> HIDE DEF SomeCall
    <3> QED BY <1>1
  <2> QED BY <2>1 DEF Tokens
<1>4. mode \in {"sync", "async", "fp8"}
  BY ModesAssumption DEF WorkspaceTypeOK
<1>5. \A r \in Ranks : ChunkRows(r) = PerChunk
  BY DEF PerChunk, ChunkRows
<1>6. Capacity \in Nat /\ Capacity >= 2 /\ Fp8Rows \in 1..Capacity
  BY SizesAssumption
<1>7. /\ mode = "sync" => PerChunk = Capacity /\ Depth = 1
      /\ mode = "async" => PerChunk = Capacity \div 2 /\ Depth = 2
      /\ mode = "fp8" => PerChunk = Fp8Rows /\ Depth = 1
  BY DEF PerChunk, ChunkRows, Depth
<1>8. Capacity \div 2 \in 1..Capacity /\ 2 * (Capacity \div 2) <= Capacity
  BY <1>6
<1>9. PerChunk \in 1..Capacity /\ Depth * PerChunk <= Capacity /\ Depth \in {1, 2}
  <2>1. CASE mode = "sync"
    BY <1>6, <1>7, <2>1
  <2>2. CASE mode = "async"
    BY <1>6, <1>7, <1>8, <2>2
  <2>3. CASE mode = "fp8"
    BY <1>6, <1>7, <2>3
  <2> QED BY <1>4, <2>1, <2>2, <2>3
<1> QED BY <1>2, <1>3, <1>5, <1>9 DEF Depth

\* T rows in chunks of m: all of them full but the last.
LEMMA ChunksOfRows ==
  ASSUME NEW T \in Nat, T > 0, NEW m \in Nat, m > 0
  PROVE  LET n == (T + m - 1) \div m
         IN  n \in Nat /\ n > 0 /\ (n - 1) * m < T /\ T <= n * m /\ n * m \in Nat
<1> DEFINE n == (T + m - 1) \div m
           j == (T + m - 1) % m
<1>1. n \in Nat /\ j \in 0..m-1 /\ n * m \in Nat /\ T + m - 1 = n * m + j
  BY DivMod
<1> HIDE DEF n, j
<1>2. n # 0
  <2>1. ASSUME n = 0 PROVE FALSE
    <3>1. 0 * m = 0
      OBVIOUS
    <3> QED BY <1>1, <2>1, <3>1
  <2> QED BY <2>1
<1>3. (n - 1) * m = n * m - m
  BY <1>1
<1>4. n \in Nat /\ n > 0 /\ (n - 1) * m < T /\ T <= n * m /\ n * m \in Nat
  BY <1>1, <1>2, <1>3
<1> QED BY <1>4 DEF n

LEMMA GathersFacts ==
  ASSUME WorkspaceTypeOK, NEW c \in 1..Len(program)
  PROVE  /\ GathersIn(c) \in Nat /\ EntriesIn(c) \in Nat
         /\ IsQuery(c) => /\ GathersIn(c) > 0
                          /\ (GathersIn(c) - 1) * PerChunk < Tokens(c)
                          /\ Tokens(c) <= GathersIn(c) * PerChunk
         /\ ~IsQuery(c) => GathersIn(c) = 0
<1>1. Tokens(c) \in 1..MaxBatched /\ PerChunk \in 1..Capacity
  BY RunFacts
<1>2. Tokens(c) \in Nat /\ Tokens(c) > 0 /\ PerChunk \in Nat /\ PerChunk > 0
  BY <1>1, WorkspaceSizes
<1> DEFINE n == (Tokens(c) + PerChunk - 1) \div PerChunk
<1>3. n \in Nat /\ n > 0 /\ (n - 1) * PerChunk < Tokens(c) /\ Tokens(c) <= n * PerChunk
  BY <1>2, ChunksOfRows
<1>4. GathersIn(c) = IF IsQuery(c) THEN n ELSE 0
  BY DEF GathersIn
<1> HIDE DEF n
<1> QED BY <1>3, <1>4 DEF EntriesIn

LEMMA ChunkFacts ==
  ASSUME WorkspaceTypeOK, NEW c \in 1..Len(program), IsQuery(c), NEW k \in 0..GathersIn(c)-1
  PROVE  /\ SizeOf(c, k) \in 1..PerChunk
         /\ k * PerChunk \in Nat
         /\ k * PerChunk + SizeOf(c, k) <= Tokens(c)
         /\ k + 1 = GathersIn(c) => k * PerChunk + SizeOf(c, k) = Tokens(c)
         /\ k + 1 < GathersIn(c) => k * PerChunk + SizeOf(c, k) = (k + 1) * PerChunk
<1> DEFINE n == GathersIn(c)
           m == PerChunk
           T == Tokens(c)
<1>1. n \in Nat /\ n > 0 /\ (n - 1) * m < T /\ T <= n * m
  BY GathersFacts
<1>2. T \in Nat /\ T > 0 /\ m \in Nat /\ m > 0
  BY RunFacts, WorkspaceSizes
<1>3. SizeOf(c, k) = IF T - k * m < m THEN T - k * m ELSE m
  BY DEF SizeOf
<1> DEFINE s == SizeOf(c, k)
<1>10. s = IF T - k * m < m THEN T - k * m ELSE m
  BY <1>3
<1> HIDE DEF n, m, T, s
<1> DEFINE Conclusion == /\ s \in 1..m
                         /\ k * m \in Nat
                         /\ k * m + s <= T
                         /\ k + 1 = n => k * m + s = T
                         /\ k + 1 < n => k * m + s = (k + 1) * m
<1>4. k \in Nat /\ k <= n - 1 /\ n - 1 \in Nat
  BY <1>1 DEF n
<1>5. k * m \in Nat /\ k * m <= (n - 1) * m /\ (n - 1) * m \in Nat
  BY <1>2, <1>4, ProductMonotone
<1>6. (k + 1) * m = k * m + m
  BY <1>2, <1>4
<1>7. ASSUME k + 1 = n PROVE Conclusion
  BY <1>1, <1>2, <1>4, <1>5, <1>6, <1>7, <1>10
<1>8. ASSUME k + 1 < n PROVE Conclusion
  <2>1. k + 1 \in Nat /\ k + 1 <= n - 1
    BY <1>1, <1>4, <1>8
  <2>2. (k + 1) * m <= (n - 1) * m
    BY <1>2, <1>4, <2>1, ProductMonotone
  <2> QED BY <1>1, <1>2, <1>4, <1>5, <1>6, <1>8, <1>10, <2>2
<1>9. k + 1 = n \/ k + 1 < n
  BY <1>1, <1>4
<1> QED BY <1>7, <1>8, <1>9 DEF n, m, T, s

\* The layout of a rank in a call, by the rows of the call.
LEMMA LayoutFacts ==
  ASSUME WorkspaceTypeOK, NEW r \in Ranks
  PROVE  /\ CallRows(r) = Tokens(call[r])
         /\ \A k : /\ Start(r, k) = k * PerChunk /\ Size(r, k) = SizeOf(call[r], k)
                   /\ StageAt(r, k) = (k * PerChunk) * W
                   /\ SlotAt(r, k) = (k % Depth) * PerChunk * W
         /\ IsQuery(call[r]) => Chunks(r) = GathersIn(call[r])
<1>1. ChunkRows(r) = PerChunk
  BY RunFacts
<1>2. CallRows(r) = Tokens(call[r])
  BY DEF CallRows
<1> QED BY <1>1, <1>2 DEF Start, Size, SizeOf, StageAt, SlotAt, Chunks, GathersIn

-----------------------------------------------------------------------------
(* What a step leaves alone.                                               *)

\* The layout is that of the run, and a run keeps its mode and its program.
LEMMA LayoutFixed ==
  ASSUME mode' = mode, program' = program
  PROVE  /\ PerChunk' = PerChunk /\ Depth' = Depth /\ Wire' = Wire
         /\ GathersTo' = GathersTo /\ EntriesTo' = EntriesTo
         /\ \A s \in Ranks : /\ Tokens(call[s])' = Tokens(call'[s])
                             /\ IsQuery(call[s])' = IsQuery(call'[s])
                             /\ GathersIn(call[s])' = GathersIn(call'[s])
<1>1. PerChunk' = PerChunk /\ Depth' = Depth /\ Wire' = Wire
  BY DEF PerChunk, ChunkRows, Depth, Wire
<1>2. GathersTo' = GathersTo
  BY <1>1 DEF GathersTo, GathersIn, IsQuery, Tokens
<1>3. EntriesTo' = EntriesTo
  BY DEF EntriesTo, EntriesIn, IsQuery
<1>4. \A s \in Ranks : /\ Tokens(call[s])' = Tokens(call'[s])
                       /\ IsQuery(call[s])' = IsQuery(call'[s])
                       /\ GathersIn(call[s])' = GathersIn(call'[s])
  BY <1>1 DEF Tokens, IsQuery, GathersIn
<1> QED BY <1>1, <1>2, <1>3, <1>4

LEMMA PutCells ==
  ASSUME NEW mem, NEW base, NEW n, NEW block
  PROVE  /\ DOMAIN Put(mem, base, n, block) = DOMAIN mem
         /\ \A i \in DOMAIN mem :
              Put(mem, base, n, block)[i] =
                IF base <= i /\ i < base + n THEN block[i - base] ELSE mem[i]
  BY DEF Put

LEMMA RunKept ==
  ASSUME [WorkspaceNext]_workspaceVars
  PROVE  mode' = mode /\ program' = program
  BY ZenonT(60) DEF WorkspaceNext, workspaceVars, Drained, MainStep, CommStep, Enter, Stage, Place, Attend,
         Transpose, Project, Correct, Reduce, Pack, AttendPacked, Store, GatherStart,
         GatherFinish, Goto

-----------------------------------------------------------------------------
(* Where the ranks are.                                                    *)

PositionInv == WorkspaceTypeOK /\ \A r \in Ranks : PositionOf(r)

\* What the types say of one rank.
LEMMA RankFacts ==
  ASSUME WorkspaceTypeOK, NEW r \in Ranks
  PROVE  /\ r \in Nat /\ r < W
         /\ call[r] \in 0..Len(program) /\ call[r] \in Nat /\ doing[r] \in Doings
         /\ staged[r] \in Nat /\ started[r] \in Nat /\ finished[r] \in Nat /\ placed[r] \in Nat
         /\ placed[r] <= finished[r] /\ finished[r] <= started[r] /\ started[r] <= staged[r]
         /\ started[r] <= finished[r] + 1
         /\ call[r] > 0 => call[r] \in 1..Len(program)
<1>1. Len(program) \in Nat
  BY RunFacts
<1> QED BY <1>1, WorkspaceSizes DEF WorkspaceTypeOK

\* A rank that is somewhere is in a call.
LEMMA InCall ==
  ASSUME PositionInv, NEW r \in Ranks, doing[r] # "idle"
  PROVE  call[r] > 0 /\ call[r] \in 1..Len(program)
<1>1. call[r] # 0 /\ call[r] \in Nat
  BY RankFacts DEF PositionInv, PositionOf
<1> QED BY <1>1, RankFacts DEF PositionInv

LEMMA PositionElsewhere ==
  ASSUME mode' = mode, program' = program, NEW s \in Ranks, PositionOf(s),
         call'[s] = call[s], doing'[s] = doing[s], staged'[s] = staged[s],
         placed'[s] = placed[s]
  PROVE  PositionOf(s)'
  BY LayoutFixed DEF PositionOf

\* The rest of a call changes only where the main stream is.
LEMMA GotoPosition ==
  ASSUME PositionInv, NEW r \in Ranks, NEW next \in Doings, Goto(r, next),
         \/ doing[r] \in QueryPlaces \ {"gather"} /\ next \in (QueryPlaces \ {"gather"}) \cup {"idle"}
         \/ doing[r] \in PackedPlaces /\ next \in PackedPlaces \cup {"idle"},
         DOMAIN query' = Ranks, DOMAIN scratch' = Ranks,
         DOMAIN entered' = Ranks, DOMAIN output' = Ranks, staging' = staging,
         \A s \in Ranks : DOMAIN query'[s] = QueryCells /\ DOMAIN scratch'[s] = ScratchCells
  PROVE  PositionInv'
<1>1. mode' = mode /\ program' = program
  BY DEF Goto
<1>2. WorkspaceTypeOK'
  BY DEF PositionInv, WorkspaceTypeOK, Goto, comm
<1>3. ASSUME NEW s \in Ranks PROVE PositionOf(s)'
  <2>0. PositionOf(s) /\ PositionOf(r)
    BY DEF PositionInv
  <2>1. CASE s # r
    BY <1>1, <2>0, <2>1, PositionElsewhere DEF Goto, PositionInv, WorkspaceTypeOK
  <2>2. CASE s = r
    <3>1. /\ call'[r] = call[r] /\ staged'[r] = staged[r] /\ placed'[r] = placed[r]
          /\ doing'[r] = next
      BY DEF Goto, PositionInv, WorkspaceTypeOK
    <3>2. doing[r] # "idle" /\ doing[r] # "gather" /\ next # "gather"
      BY DEF QueryPlaces, PackedPlaces
    <3>3. call[r] > 0
      BY <3>2, InCall
    <3>4. next \in QueryPlaces => IsQuery(call[r])
      BY <2>0 DEF QueryPlaces, PackedPlaces, PositionOf
    <3>5. next \in PackedPlaces => ~IsQuery(call[r])
      BY <2>0 DEF QueryPlaces, PackedPlaces, PositionOf
    <3> QED BY <1>1, <2>0, <2>2, <3>1, <3>2, <3>3, <3>4, <3>5, LayoutFixed DEF PositionOf
  <2> QED BY <2>1, <2>2
<1> QED BY <1>2, <1>3 DEF PositionInv

LEMMA PositionInit == WorkspaceInit => PositionInv
<1> SUFFICES ASSUME WorkspaceInit PROVE PositionInv
  OBVIOUS
<1>1. WorkspaceTypeOK
  <2>1. program \in Programs /\ mode \in Modes
    BY DEF WorkspaceInit
  <2>2. Len(program) \in Nat
    BY <2>1, ProgramsAssumption
  <2>3. /\ call = [r \in Ranks |-> 0] /\ staged = call /\ started = call /\ finished = call
        /\ placed = call /\ doing = [r \in Ranks |-> "idle"]
    BY DEF WorkspaceInit
  <2>4. /\ DOMAIN gathers = Ranks /\ DOMAIN entered = Ranks /\ DOMAIN output = Ranks
        /\ DOMAIN query = Ranks /\ DOMAIN scratch = Ranks /\ DOMAIN staging = Ranks
        /\ \A r \in Ranks : DOMAIN query[r] = QueryCells /\ DOMAIN scratch[r] = ScratchCells
    BY DEF WorkspaceInit
  <2>5. call \in [Ranks -> 0..Len(program)] /\ call \in [Ranks -> Nat]
    BY <2>2, <2>3
  <2> QED BY <2>1, <2>3, <2>4, <2>5 DEF WorkspaceTypeOK, Doings
<1>2. Depth \in {1, 2}
  BY <1>1, RunFacts
<1>3. \A r \in Ranks : call[r] = 0 /\ doing[r] = "idle" /\ staged[r] = 0 /\ placed[r] = 0
  BY DEF WorkspaceInit
<1> QED BY <1>1, <1>2, <1>3 DEF PositionInv, PositionOf, QueryPlaces, PackedPlaces

LEMMA EnterPosition ==
  ASSUME PositionInv, NEW r \in Ranks, Enter(r)
  PROVE  PositionInv'
<1>1. mode' = mode /\ program' = program
  BY DEF Enter
<1>2. /\ call'[r] = call[r] + 1 /\ call'[r] \in 1..Len(program) /\ call'[r] \in 0..Len(program)
      /\ doing'[r] = (IF IsQuery(call'[r]) THEN "gather" ELSE "pack")
      /\ staged'[r] = 0 /\ started'[r] = 0 /\ finished'[r] = 0 /\ placed'[r] = 0
  <2>1. call'[r] = call[r] + 1 /\ call[r] < Len(program)
    BY DEF Enter, PositionInv, WorkspaceTypeOK
  <2>2. call[r] \in Nat /\ Len(program) \in Nat
    BY RankFacts, RunFacts DEF PositionInv
  <2>3. /\ doing'[r] = (IF IsQuery(call[r] + 1) THEN "gather" ELSE "pack")
        /\ staged'[r] = 0 /\ started'[r] = 0 /\ finished'[r] = 0 /\ placed'[r] = 0
    BY DEF Enter, PositionInv, WorkspaceTypeOK
  <2> QED BY <2>1, <2>2, <2>3 DEF IsQuery
<1>3. ASSUME NEW s \in Ranks, s # r
      PROVE  /\ call'[s] = call[s] /\ doing'[s] = doing[s] /\ staged'[s] = staged[s]
             /\ started'[s] = started[s] /\ finished'[s] = finished[s] /\ placed'[s] = placed[s]
  BY <1>3 DEF Enter, PositionInv, WorkspaceTypeOK
<1>4. WorkspaceTypeOK'
  <2>1. /\ doing' \in [Ranks -> Doings] /\ call' \in [Ranks -> 0..Len(program)]
        /\ staged' \in [Ranks -> Nat] /\ started' \in [Ranks -> Nat]
        /\ finished' \in [Ranks -> Nat] /\ placed' \in [Ranks -> Nat]
    BY <1>2 DEF Enter, PositionInv, WorkspaceTypeOK, Doings
  <2>2. \A s \in Ranks :
          /\ 0 <= placed'[s] /\ placed'[s] <= finished'[s] /\ finished'[s] <= started'[s]
          /\ started'[s] <= finished'[s] + 1 /\ started'[s] <= staged'[s]
    <3> TAKE s \in Ranks
    <3>1. CASE s = r
      BY <1>2, <3>1
    <3>2. CASE s # r
      BY <1>3, <3>2 DEF PositionInv, WorkspaceTypeOK
    <3> QED BY <3>1, <3>2
  <2> QED BY <1>1, <2>1, <2>2 DEF PositionInv, WorkspaceTypeOK, Enter, memory
<1>5. ASSUME NEW s \in Ranks PROVE PositionOf(s)'
  <2>0. PositionOf(s)
    BY DEF PositionInv
  <2>1. CASE s # r
    BY <1>1, <1>3, <2>0, <2>1, PositionElsewhere
  <2>2. CASE s = r
    <3>1. Depth \in {1, 2} /\ call'[r] > 0
      BY <1>2, RunFacts DEF PositionInv
    <3>2. /\ GathersIn(call'[r]) \in Nat
          /\ IsQuery(call'[r]) => GathersIn(call'[r]) > 0
          /\ ~IsQuery(call'[r]) => GathersIn(call'[r]) = 0
      BY <1>2, GathersFacts DEF PositionInv
    <3>3. /\ doing'[r] \in QueryPlaces <=> IsQuery(call'[r])
          /\ doing'[r] \in PackedPlaces <=> ~IsQuery(call'[r])
          /\ doing'[r] = "gather" <=> IsQuery(call'[r])
      BY <1>2 DEF QueryPlaces, PackedPlaces
    <3> QED BY <1>1, <1>2, <2>2, <3>1, <3>2, <3>3, LayoutFixed DEF PositionOf
  <2> QED BY <2>1, <2>2
<1> QED BY <1>4, <1>5 DEF PositionInv

\* A query call that gathers.
LEMMA Gathering ==
  ASSUME PositionInv, NEW r \in Ranks, doing[r] = "gather"
  PROVE  /\ call[r] \in 1..Len(program) /\ call[r] > 0 /\ IsQuery(call[r])
         /\ Chunks(r) = GathersIn(call[r]) /\ GathersIn(call[r]) \in Nat
         /\ placed[r] < GathersIn(call[r]) /\ staged[r] <= GathersIn(call[r])
         /\ staged[r] <= placed[r] + Depth
<1>1. call[r] \in 1..Len(program) /\ call[r] > 0
  BY InCall
<1>2. PositionOf(r) /\ IsQuery(call[r])
  BY DEF PositionInv, PositionOf, QueryPlaces
<1>3. Chunks(r) = GathersIn(call[r]) /\ GathersIn(call[r]) \in Nat
  BY <1>1, <1>2, LayoutFacts, GathersFacts DEF PositionInv
<1> QED BY <1>1, <1>2, <1>3 DEF PositionOf

\* Chunks are staged that are not placed only while the query is gathered.
LEMMA Staging ==
  ASSUME PositionInv, NEW r \in Ranks, placed[r] < staged[r]
  PROVE  doing[r] = "gather"
<1>1. placed[r] \in Nat /\ staged[r] \in Nat /\ call[r] \in Nat /\ PositionOf(r)
      /\ (call[r] > 0 => call[r] \in 1..Len(program))
  BY RankFacts DEF PositionInv
<1>2. call[r] > 0
  BY <1>1 DEF PositionOf
<1>3. GathersIn(call[r]) \in Nat
  BY <1>1, <1>2, GathersFacts DEF PositionInv
<1> QED BY <1>1, <1>2, <1>3 DEF PositionOf

LEMMA StagePosition ==
  ASSUME PositionInv, NEW r \in Ranks, Stage(r)
  PROVE  PositionInv'
<1>1. mode' = mode /\ program' = program /\ MayStage(r)
  BY DEF Stage
<1>2. /\ call' = call /\ doing' = doing /\ started' = started /\ finished' = finished
      /\ placed' = placed /\ staged' = [staged EXCEPT ![r] = @ + 1]
  BY DEF Stage, comm
<1>3. WorkspaceTypeOK'
  <2>1. /\ DOMAIN query' = Ranks /\ DOMAIN staging' = Ranks
        /\ \A s \in Ranks : DOMAIN query'[s] = QueryCells
    <3>1. CASE mode = "fp8"
      BY <3>1 DEF Stage, PositionInv, WorkspaceTypeOK
    <3>2. CASE mode # "fp8"
      <4>1. PICK rows : query' = [query EXCEPT ![r] =
                                    Put(@, StageAt(r, staged[r]), Size(r, staged[r]), rows)]
        BY <3>2 DEF Stage
      <4>2. staging' = staging
        BY <3>2 DEF Stage
      <4> QED BY <4>1, <4>2, PutCells DEF PositionInv, WorkspaceTypeOK
    <3> QED BY <3>1, <3>2
  <2>2. /\ DOMAIN gathers' = Ranks /\ DOMAIN entered' = Ranks /\ DOMAIN output' = Ranks
        /\ DOMAIN scratch' = Ranks /\ \A s \in Ranks : DOMAIN scratch'[s] = ScratchCells
    BY DEF Stage, PositionInv, WorkspaceTypeOK, comm
  <2>3. staged' \in [Ranks -> Nat] /\ \A s \in Ranks : started[s] <= staged'[s]
    BY <1>2 DEF PositionInv, WorkspaceTypeOK
  <2> QED BY <1>1, <1>2, <2>1, <2>2, <2>3 DEF PositionInv, WorkspaceTypeOK
<1>4. ASSUME NEW s \in Ranks PROVE PositionOf(s)'
  <2>0. PositionOf(s)
    BY DEF PositionInv
  <2>1. CASE s # r
    BY <1>1, <1>2, <2>0, <2>1, PositionElsewhere DEF PositionInv, WorkspaceTypeOK
  <2>2. CASE s = r
    <3>1. doing[r] = "gather" /\ staged[r] < Chunks(r) /\ staged[r] - placed[r] < Depth
      BY <1>1 DEF MayStage
    <3>2. /\ call[r] > 0 /\ GathersIn(call[r]) \in Nat /\ Chunks(r) = GathersIn(call[r])
      BY <3>1, Gathering
    <3>3. staged[r] \in Nat /\ placed[r] \in Nat /\ Depth \in {1, 2} /\ staged'[r] = staged[r] + 1
      BY <1>2, RankFacts, RunFacts DEF PositionInv, WorkspaceTypeOK
    <3>4. staged'[r] <= placed[r] + Depth /\ staged'[r] <= GathersIn(call[r])
      BY <3>1, <3>2, <3>3
    <3> QED BY <1>1, <1>2, <2>0, <2>2, <3>1, <3>2, <3>4, LayoutFixed DEF PositionOf
  <2> QED BY <2>1, <2>2
<1> QED BY <1>3, <1>4 DEF PositionInv

LEMMA PlacePosition ==
  ASSUME PositionInv, NEW r \in Ranks, Place(r)
  PROVE  PositionInv'
<1>1. mode' = mode /\ program' = program /\ MayPlace(r)
  BY DEF Place
<1>2. /\ call' = call /\ staged' = staged /\ started' = started /\ finished' = finished
      /\ placed' = [placed EXCEPT ![r] = @ + 1]
      /\ doing' = [doing EXCEPT ![r] = IF placed[r] + 1 = Chunks(r) THEN "attend" ELSE "gather"]
  BY DEF Place, comm
<1>3. WorkspaceTypeOK'
  <2>1. DOMAIN query' = Ranks /\ \A s \in Ranks : DOMAIN query'[s] = QueryCells
    BY PutCells DEF Place, PositionInv, WorkspaceTypeOK
  <2>2. /\ DOMAIN gathers' = Ranks /\ DOMAIN entered' = Ranks /\ DOMAIN output' = Ranks
        /\ DOMAIN scratch' = Ranks /\ DOMAIN staging' = Ranks
        /\ \A s \in Ranks : DOMAIN scratch'[s] = ScratchCells
    BY DEF Place, PositionInv, WorkspaceTypeOK, comm
  <2>3. /\ placed' \in [Ranks -> Nat] /\ doing' \in [Ranks -> Doings]
        /\ \A s \in Ranks : 0 <= placed'[s] /\ placed'[s] <= finished[s]
    <3>1. finished[r] > placed[r]
      BY <1>1 DEF MayPlace
    <3>2. finished[r] \in Nat /\ placed[r] \in Nat
      BY RankFacts DEF PositionInv
    <3> QED BY <1>2, <3>1, <3>2 DEF PositionInv, WorkspaceTypeOK, Doings
  <2> QED BY <1>1, <1>2, <2>1, <2>2, <2>3 DEF PositionInv, WorkspaceTypeOK
<1>4. ASSUME NEW s \in Ranks PROVE PositionOf(s)'
  <2>0. PositionOf(s)
    BY DEF PositionInv
  <2>1. CASE s # r
    BY <1>1, <1>2, <2>0, <2>1, PositionElsewhere DEF PositionInv, WorkspaceTypeOK
  <2>2. CASE s = r
    <3>1. doing[r] = "gather" /\ placed[r] < staged[r]
      BY <1>1 DEF MayPlace
    <3>2. /\ call[r] > 0 /\ GathersIn(call[r]) \in Nat /\ Chunks(r) = GathersIn(call[r])
          /\ IsQuery(call[r]) /\ staged[r] <= GathersIn(call[r]) /\ staged[r] <= placed[r] + Depth
      BY <3>1, Gathering
    <3>3. /\ staged[r] \in Nat /\ placed[r] \in Nat /\ Depth \in {1, 2}
          /\ placed'[r] = placed[r] + 1
          /\ doing'[r] = IF placed[r] + 1 = Chunks(r) THEN "attend" ELSE "gather"
      BY <1>2, RankFacts, RunFacts DEF PositionInv, WorkspaceTypeOK
    <3>4. /\ staged[r] <= placed'[r] + Depth
          /\ doing'[r] = "gather" => placed'[r] < GathersIn(call[r])
          /\ doing'[r] # "gather" => placed'[r] = GathersIn(call[r])
      BY <3>1, <3>2, <3>3
    <3>5. doing'[r] \in QueryPlaces /\ doing'[r] \notin PackedPlaces
      BY <3>3 DEF QueryPlaces, PackedPlaces
    <3> QED BY <1>1, <1>2, <2>2, <3>2, <3>4, <3>5, LayoutFixed DEF PositionOf
  <2> QED BY <2>1, <2>2
<1> QED BY <1>3, <1>4 DEF PositionInv

LEMMA GatherStartPosition ==
  ASSUME PositionInv, NEW r \in Ranks, GatherStart(r)
  PROVE  PositionInv'
<1>1. /\ mode' = mode /\ program' = program /\ call' = call /\ doing' = doing
      /\ staged' = staged /\ finished' = finished /\ placed' = placed
      /\ started' = [started EXCEPT ![r] = @ + 1]
      /\ started[r] < staged[r] /\ started[r] = finished[r]
  BY DEF GatherStart
<1>2. /\ started' \in [Ranks -> Nat]
      /\ \A s \in Ranks : /\ finished[s] <= started'[s] /\ started'[s] <= finished[s] + 1
                          /\ started'[s] <= staged[s]
  BY <1>1 DEF PositionInv, WorkspaceTypeOK
<1>3. WorkspaceTypeOK'
  BY <1>1, <1>2 DEF PositionInv, WorkspaceTypeOK, GatherStart, memory
<1>4. \A s \in Ranks : PositionOf(s)'
  BY <1>1, PositionElsewhere DEF PositionInv
<1> QED BY <1>3, <1>4 DEF PositionInv

LEMMA GatherFinishPosition ==
  ASSUME PositionInv, NEW r \in Ranks, GatherFinish(r)
  PROVE  PositionInv'
<1>1. /\ mode' = mode /\ program' = program /\ call' = call /\ doing' = doing
      /\ staged' = staged /\ started' = started /\ placed' = placed
      /\ finished' = [finished EXCEPT ![r] = @ + 1] /\ finished[r] < started[r]
  BY DEF GatherFinish
<1>2. /\ finished' \in [Ranks -> Nat]
      /\ \A s \in Ranks : /\ placed[s] <= finished'[s] /\ finished'[s] <= started[s]
                          /\ started[s] <= finished'[s] + 1
  BY <1>1 DEF PositionInv, WorkspaceTypeOK
<1>3. DOMAIN scratch' = Ranks /\ \A s \in Ranks : DOMAIN scratch'[s] = ScratchCells
  BY PutCells DEF GatherFinish, PositionInv, WorkspaceTypeOK
<1>4. WorkspaceTypeOK'
  BY <1>1, <1>2, <1>3 DEF PositionInv, WorkspaceTypeOK, GatherFinish
<1>5. \A s \in Ranks : PositionOf(s)'
  BY <1>1, PositionElsewhere DEF PositionInv
<1> QED BY <1>4, <1>5 DEF PositionInv

\* The steps that only move the main stream on.
LEMMA MovePosition ==
  ASSUME PositionInv, NEW r \in Ranks,
         \/ Attend(r) \/ Transpose(r) \/ Project(r) \/ Correct(r) \/ Reduce(r)
         \/ Pack(r) \/ AttendPacked(r) \/ Store(r)
  PROVE  PositionInv'
<1> DEFINE Kept == /\ DOMAIN query' = Ranks /\ DOMAIN scratch' = Ranks
                   /\ DOMAIN entered' = Ranks /\ DOMAIN output' = Ranks /\ staging' = staging
                   /\ \A s \in Ranks : /\ DOMAIN query'[s] = QueryCells
                                       /\ DOMAIN scratch'[s] = ScratchCells
<1>0. /\ DOMAIN query = Ranks /\ DOMAIN scratch = Ranks
      /\ DOMAIN entered = Ranks /\ DOMAIN output = Ranks
      /\ \A s \in Ranks : DOMAIN query[s] = QueryCells /\ DOMAIN scratch[s] = ScratchCells
  BY DEF PositionInv, WorkspaceTypeOK
<1> USE DEF QueryPlaces, PackedPlaces, Doings
<1>1. CASE Attend(r)
  <2>1. Kept
    BY <1>0, <1>1, PutCells DEF Attend
  <2> QED BY <1>1, <2>1, GotoPosition DEF Attend
<1>2. CASE Transpose(r)
  <2>1. Kept
    BY <1>0, <1>2, PutCells DEF Transpose
  <2> QED BY <1>2, <2>1, GotoPosition DEF Transpose
<1>3. CASE Project(r)
  <2>1. Kept
    BY <1>0, <1>3, PutCells DEF Project
  <2> QED BY <1>3, <2>1, GotoPosition DEF Project
<1>4. CASE Correct(r)
  <2>1. Kept
    BY <1>0, <1>4, PutCells DEF Correct
  <2> QED BY <1>4, <2>1, GotoPosition DEF Correct
<1>5. CASE Reduce(r)
  <2>1. Kept
    BY <1>0, <1>5, PutCells DEF Reduce
  <2> QED BY <1>5, <2>1, GotoPosition DEF Reduce
<1>6. CASE Pack(r)
  <2>1. Kept
    BY <1>0, <1>6, PutCells DEF Pack
  <2> QED BY <1>6, <2>1, GotoPosition DEF Pack
<1>7. CASE AttendPacked(r)
  <2>1. PICK b1, n1, f1, b2, n2, f2 :
          query' = [query EXCEPT ![r] = Put(Put(query[r], b1, n1, f1), b2, n2, f2)]
    BY <1>7 DEF AttendPacked
  <2>2. PICK b3, n3, f3, b4, n4, f4, b5, n5, f5, b6, n6, f6 :
          scratch' = [scratch EXCEPT ![r] =
            Put(Put(Put(Put(scratch[r], b3, n3, f3), b4, n4, f4), b5, n5, f5), b6, n6, f6)]
    BY <1>7 DEF AttendPacked
  <2>3. DOMAIN Put(Put(query[r], b1, n1, f1), b2, n2, f2) = DOMAIN query[r]
    BY PutCells
  <2>4. DOMAIN Put(Put(Put(Put(scratch[r], b3, n3, f3), b4, n4, f4), b5, n5, f5), b6, n6, f6)
          = DOMAIN scratch[r]
    BY PutCells
  <2>5. DOMAIN query' = Ranks /\ \A s \in Ranks : DOMAIN query'[s] = QueryCells
    BY <1>0, <2>1, <2>3
  <2>6. DOMAIN scratch' = Ranks /\ \A s \in Ranks : DOMAIN scratch'[s] = ScratchCells
    BY <1>0, <2>2, <2>4
  <2>7. Kept
    BY <1>0, <1>7, <2>5, <2>6 DEF AttendPacked
  <2> QED BY <1>7, <2>7, GotoPosition DEF AttendPacked
<1>8. CASE Store(r)
  <2>1. Kept
    BY <1>0, <1>8 DEF Store
  <2> QED BY <1>8, <2>1, GotoPosition DEF Store
<1> QED BY <1>1, <1>2, <1>3, <1>4, <1>5, <1>6, <1>7, <1>8

LEMMA PositionStep == PositionInv /\ [WorkspaceNext]_workspaceVars => PositionInv'
<1> SUFFICES ASSUME PositionInv, [WorkspaceNext]_workspaceVars PROVE PositionInv'
  OBVIOUS
<1>1. CASE UNCHANGED workspaceVars
  <2>1. mode' = mode /\ program' = program
    BY RunKept
  <2>2. WorkspaceTypeOK'
    BY <1>1 DEF PositionInv, WorkspaceTypeOK, workspaceVars, comm, memory
  <2>3. \A s \in Ranks : PositionOf(s)'
    BY <1>1, <2>1, PositionElsewhere DEF PositionInv, workspaceVars
  <2> QED BY <2>2, <2>3 DEF PositionInv
<1>2. ASSUME NEW r \in Ranks, MainStep(r) PROVE PositionInv'
  BY <1>2, EnterPosition, StagePosition, PlacePosition, MovePosition DEF MainStep
<1>3. ASSUME NEW r \in Ranks, CommStep(r) PROVE PositionInv'
  BY <1>3, GatherStartPosition, GatherFinishPosition DEF CommStep
<1> QED BY <1>1, <1>2, <1>3 DEF WorkspaceNext, Drained

-----------------------------------------------------------------------------
(* The streams.                                                            *)

\* Chunks below each other do not meet in the query workspace.
LEMMA ChunksApart ==
  ASSUME WorkspaceTypeOK, NEW j \in Nat, NEW k \in Nat, j < k
  PROVE  /\ (j * PerChunk) * W \in Nat /\ (k * PerChunk) * W \in Nat
         /\ (j * PerChunk + PerChunk) * W <= (k * PerChunk) * W
         /\ (j * PerChunk) * W + PerChunk <= (j * PerChunk + PerChunk) * W
<1>1. PerChunk \in Nat /\ W \in Nat /\ W > 0 /\ PerChunk > 0
  BY RunFacts, WorkspaceSizes
<1>2. /\ j * PerChunk + PerChunk <= k * PerChunk
      /\ j * PerChunk \in Nat /\ k * PerChunk \in Nat
  BY <1>1, ProductStrict
<1> DEFINE a == j * PerChunk
           b == k * PerChunk
           m == PerChunk
<1> HIDE DEF a, b, m
<1>3. a \in Nat /\ b \in Nat /\ m \in Nat /\ a + m <= b /\ a + m \in Nat
  BY <1>1, <1>2 DEF a, b, m
<1>4. (a + m) * W <= b * W /\ a * W \in Nat /\ b * W \in Nat
  BY <1>1, <1>3, ProductMonotone
<1>5. (a + m) * W = a * W + m * W /\ m * W >= m /\ m * W \in Nat
  BY <1>1, <1>3
<1> QED BY <1>1, <1>3, <1>4, <1>5 DEF a, b, m

\* The rows of a chunk over all ranks lie before those of the next chunk.
LEMMA ChunkCells ==
  ASSUME WorkspaceTypeOK, NEW c \in 1..Len(program), IsQuery(c), NEW k \in 0..GathersIn(c)-1
  PROVE  /\ (k * PerChunk) * W \in Nat
         /\ SizeOf(c, k) * W \in Nat /\ SizeOf(c, k) <= SizeOf(c, k) * W
         /\ (k * PerChunk + SizeOf(c, k)) * W = (k * PerChunk) * W + SizeOf(c, k) * W
         /\ SizeOf(c, k) * W <= PerChunk * W /\ PerChunk * W \in Nat
         /\ (k * PerChunk) * W + SizeOf(c, k) * W <= Tokens(c) * W /\ Tokens(c) * W \in Nat
<1>1. PerChunk \in Nat /\ W \in Nat /\ W > 0 /\ Tokens(c) \in Nat
  BY RunFacts, WorkspaceSizes
<1>2. /\ SizeOf(c, k) \in Nat /\ SizeOf(c, k) <= PerChunk /\ k * PerChunk \in Nat
      /\ k * PerChunk + SizeOf(c, k) <= Tokens(c)
  BY <1>1, ChunkFacts
<1> DEFINE a == k * PerChunk
           s == SizeOf(c, k)
           m == PerChunk
           T == Tokens(c)
<1> HIDE DEF a, s, m, T
<1>3. a \in Nat /\ s \in Nat /\ m \in Nat /\ T \in Nat /\ s <= m /\ a + s <= T /\ a + s \in Nat
  BY <1>1, <1>2 DEF a, s, m, T
<1>4. /\ s * W <= m * W /\ (a + s) * W <= T * W /\ s * W \in Nat /\ m * W \in Nat
      /\ T * W \in Nat /\ a * W \in Nat
  BY <1>1, <1>3, ProductMonotone
<1>5. (a + s) * W = a * W + s * W /\ s * W >= s
  BY <1>1, <1>3
<1> QED BY <1>4, <1>5 DEF a, s, m, T

\* The two slots of an asynchronous call do not meet.
LEMMA SlotsApart ==
  ASSUME WorkspaceTypeOK, NEW j \in Nat, NEW k \in Nat, j < k, k < j + Depth
  PROVE  /\ Depth = 2 /\ k = j + 1
         /\ (j % Depth) * PerChunk * W \in Nat /\ (k % Depth) * PerChunk * W \in Nat
         /\ \/ (j % Depth) * PerChunk * W + PerChunk * W <= (k % Depth) * PerChunk * W
            \/ (k % Depth) * PerChunk * W + PerChunk * W <= (j % Depth) * PerChunk * W
<1>1. Depth \in {1, 2} /\ PerChunk \in Nat /\ W \in Nat
  BY RunFacts, WorkspaceSizes
<1>2. Depth = 2 /\ k = j + 1
  BY <1>1
<1>3. \/ j % 2 = 0 /\ k % 2 = 1
      \/ j % 2 = 1 /\ k % 2 = 0
  BY <1>2
<1>4. /\ 0 * PerChunk * W = 0 /\ 1 * PerChunk * W = PerChunk * W /\ PerChunk * W \in Nat
  BY <1>1, ProductMonotone
<1>5. CASE j % 2 = 0 /\ k % 2 = 1
  BY <1>2, <1>4, <1>5
<1>6. CASE j % 2 = 1 /\ k % 2 = 0
  BY <1>2, <1>4, <1>6
<1> QED BY <1>3, <1>5, <1>6

\* What is staged and not yet received.
LEMMA InFlight ==
  ASSUME PositionInv, NEW r \in Ranks, NEW k \in finished[r]..staged[r]-1
  PROVE  /\ doing[r] = "gather" /\ k \in Nat /\ k < staged[r] /\ placed[r] <= k
         /\ finished[r] <= k
         /\ k < placed[r] + Depth
         /\ k \in 0..GathersIn(call[r])-1
<1>1. /\ finished[r] \in Nat /\ staged[r] \in Nat /\ placed[r] \in Nat
      /\ placed[r] <= finished[r]
  BY RankFacts DEF PositionInv
<1>2. doing[r] = "gather"
  BY <1>1, Staging
<1>3. /\ staged[r] <= GathersIn(call[r]) /\ GathersIn(call[r]) \in Nat
      /\ staged[r] <= placed[r] + Depth
  BY <1>2, Gathering
<1>4. Depth \in {1, 2}
  BY RunFacts DEF PositionInv
<1> QED BY <1>1, <1>2, <1>3, <1>4

LEMMA StagesApart ==
  ASSUME PositionInv, NEW r \in Ranks, NEW k \in finished[r]..staged[r]-1, NEW j \in Nat,
         j \in 0..GathersIn(call[r])-1
  PROVE  /\ j > k => StageCells(r, j) \cap StageCells(r, k) = {}
         /\ j < k => PlaceCells(r, j) \cap StageCells(r, k) = {}
<1> DEFINE c == call[r]
           m == PerChunk
           pk == (k * m) * W
           pj == (j * m) * W
           sk == SizeOf(c, k)
           sj == SizeOf(c, j)
<1>1. /\ k \in Nat /\ k \in 0..GathersIn(c)-1 /\ c \in 1..Len(program) /\ IsQuery(c)
  BY InFlight, Gathering
<1>2. /\ sk \in 1..m /\ sj \in 1..m /\ m \in Nat
  BY <1>1, ChunkFacts, RunFacts, WorkspaceSizes DEF PositionInv
<1>3. /\ pj \in Nat /\ sj * W \in Nat /\ sj <= sj * W /\ (j * m + sj) * W = pj + sj * W
      /\ sj * W <= m * W /\ m * W \in Nat
  BY <1>1, ChunkCells DEF PositionInv
<1>4. /\ StageCells(r, j) \subseteq pj..pj + sj - 1
      /\ StageCells(r, k) \subseteq pk..pk + sk - 1
      /\ PlaceCells(r, j) = pj..(j * m + sj) * W - 1
  BY LayoutFacts DEF PositionInv, StageCells, PlaceCells
<1>5. pk \in Nat
  BY <1>1, ChunkCells DEF PositionInv
<1>6. ASSUME j > k PROVE pk + m <= pj
  <2>1. k < j
    BY <1>1, <1>6
  <2>2. (k * m) * W + m <= (k * m + m) * W /\ (k * m + m) * W <= (j * m) * W
        /\ (k * m) * W \in Nat /\ (j * m) * W \in Nat
    BY <1>1, <2>1, ChunksApart DEF PositionInv
  <2>3. (k * m + m) * W \in Nat
    BY <1>1, <1>2, WorkspaceSizes
  <2> HIDE DEF m
  <2> QED BY <1>2, <2>2, <2>3
<1>7. ASSUME j < k PROVE pj + sj * W <= pk
  <2>1. (j * m + m) * W <= (k * m) * W
    BY <1>1, <1>7, ChunksApart DEF PositionInv
  <2>2. (j * m + m) * W = pj + m * W
    BY <1>1, <1>2, WorkspaceSizes
  <2> DEFINE a == sj * W
             b == m * W
             e == (j * m + m) * W
  <2>3. e <= pk /\ e = pj + b /\ a <= b /\ a \in Nat /\ b \in Nat /\ pj \in Nat /\ pk \in Nat
    BY <1>3, <1>5, <2>1, <2>2
  <2> HIDE DEF a, b, e, pj, pk
  <2>4. pj + a <= pk
    BY <2>3
  <2> QED BY <2>4 DEF a
<1> HIDE DEF pk, pj, sk, sj, m, c
<1>8. ASSUME j > k PROVE StageCells(r, j) \cap StageCells(r, k) = {}
  <2>1. pk + sk <= pj /\ pk \in Nat /\ pj \in Nat /\ sk \in Nat /\ sj \in Nat
    <3>1. pk + m <= pj /\ pk \in Nat /\ pj \in Nat
      BY <1>3, <1>5, <1>6, <1>8
    <3> QED BY <1>2, <3>1
  <2>2. (pj..pj + sj - 1) \cap (pk..pk + sk - 1) = {}
    BY <2>1
  <2> QED BY <1>4, <2>2
<1>9. ASSUME j < k PROVE PlaceCells(r, j) \cap StageCells(r, k) = {}
  <2>1. pj + sj * W <= pk
    BY <1>7, <1>9
  <2> DEFINE a == sj * W
  <2>2. PlaceCells(r, j) = pj..pj + a - 1 /\ a \in Nat /\ pj + a <= pk
    BY <1>3, <1>4, <2>1
  <2> HIDE DEF a
  <2> QED BY <1>2, <1>3, <1>4, <1>5, <2>2
<1> QED BY <1>8, <1>9

LEMMA SlotsOfFlight ==
  ASSUME PositionInv, NEW r \in Ranks, NEW k \in finished[r]..staged[r]-1, k > placed[r]
  PROVE  SlotCells(r, placed[r]) \cap SlotCells(r, k) = {} /\ mode = "async"
<1> DEFINE c == call[r]
           j == placed[r]
           m == PerChunk
           pk == (k % Depth) * m * W
           pj == (j % Depth) * m * W
           sk == SizeOf(c, k) * W
           sj == SizeOf(c, j) * W
           b  == m * W
<1>1. /\ k \in Nat /\ k \in 0..GathersIn(c)-1 /\ c \in 1..Len(program) /\ IsQuery(c)
      /\ k < j + Depth /\ j \in Nat /\ j < k /\ GathersIn(c) \in Nat
  BY InFlight, Gathering, RankFacts DEF PositionInv
<1>2. j \in 0..GathersIn(c)-1
  BY <1>1
<1>3. /\ Depth = 2 /\ pj \in Nat /\ pk \in Nat
      /\ pj + b <= pk \/ pk + b <= pj
  BY <1>1, SlotsApart DEF PositionInv
<1>4. sk \in Nat /\ sk <= b /\ sj \in Nat /\ sj <= b /\ b \in Nat
  BY <1>1, <1>2, ChunkCells DEF PositionInv
<1>5. SlotCells(r, j) = pj..pj + sj - 1 /\ SlotCells(r, k) = pk..pk + sk - 1
  BY LayoutFacts DEF PositionInv, SlotCells
<1>6. mode = "async"
  BY <1>3 DEF Depth
<1> HIDE DEF j, pk, pj, sk, sj, b
<1>7. SlotCells(r, j) \cap SlotCells(r, k) = {}
  BY <1>3, <1>4, <1>5
<1> QED BY <1>6, <1>7 DEF j

LEMMA NoStreamRaceHolds == PositionInv => NoStreamRace
<1> SUFFICES ASSUME PositionInv, NEW r \in Ranks, NEW k \in finished[r]..staged[r]-1
             PROVE  /\ MainQueryWrites(r) \cap StageCells(r, k) = {}
                    /\ mode = "fp8" => ~MayStage(r)
                    /\ MainScratch(r) \cap SlotCells(r, k) = {}
                    /\ k > placed[r] => SlotCells(r, k) \cap SlotCells(r, placed[r]) = {}
  BY DEF NoStreamRace
<1>1. /\ doing[r] = "gather" /\ k \in Nat /\ k < staged[r] /\ placed[r] <= k
      /\ finished[r] <= k
  BY InFlight
<1>2. /\ Chunks(r) = GathersIn(call[r]) /\ GathersIn(call[r]) \in Nat
      /\ staged[r] \in Nat /\ placed[r] \in Nat /\ finished[r] \in Nat
      /\ placed[r] < GathersIn(call[r])
  BY <1>1, Gathering, RankFacts DEF PositionInv
<1>3. ASSUME MayStage(r) PROVE StageCells(r, staged[r]) \cap StageCells(r, k) = {}
  <2>1. staged[r] \in 0..GathersIn(call[r])-1 /\ staged[r] > k
    BY <1>1, <1>2, <1>3 DEF MayStage
  <2> QED BY <1>2, <2>1, StagesApart
<1>4. ASSUME MayPlace(r)
      PROVE  /\ PlaceCells(r, placed[r]) \cap StageCells(r, k) = {}
             /\ SlotCells(r, placed[r]) \cap SlotCells(r, k) = {}
  <2>1. placed[r] \in 0..GathersIn(call[r])-1 /\ placed[r] < k /\ k > placed[r]
    BY <1>1, <1>2, <1>4 DEF MayPlace
  <2> QED BY <1>2, <2>1, StagesApart, SlotsOfFlight
<1>5. MainQueryWrites(r) \cap StageCells(r, k) = {}
  BY <1>1, <1>3, <1>4 DEF MainQueryWrites
<1>6. MainScratch(r) \cap SlotCells(r, k) = {}
  BY <1>1, <1>4 DEF MainScratch
<1>7. mode = "fp8" => ~MayStage(r)
  <2>1. ASSUME mode = "fp8", MayStage(r) PROVE FALSE
    <3>1. Depth = 1
      BY <2>1 DEF Depth
    <3> QED BY <1>1, <1>2, <2>1, <3>1 DEF MayStage
  <2> QED BY <2>1
<1>8. k > placed[r] => SlotCells(r, k) \cap SlotCells(r, placed[r]) = {}
  BY SlotsOfFlight
<1> QED BY <1>5, <1>6, <1>7, <1>8

-----------------------------------------------------------------------------
(* The collectives.                                                        *)

\* Every rank sends the same gathers in the same order, with the local rows
\* they should carry.
GathersSentBy(r) ==
  /\ \E S : gathers[r] \in Seq(S)
  /\ Len(gathers[r]) = IF call[r] = 0 THEN 0 ELSE GathersTo[call[r] - 1] + started[r]
  /\ \A c \in 1..call[r] : \A k \in 0..GathersIn(c)-1 :
       c < call[r] \/ k < started[r] => gathers[r][GathersTo[c - 1] + k + 1] = GatherOf(r, c, k)

\* The last collective of a call on the main stream, and how many rank r has
\* entered in the call it is in.
Exchange(r, c) == IF IsQuery(c) THEN ReduceOf(r, c) ELSE PayloadOf(r, c)
EntriesDone(r) ==
  IF doing[r] = "idle" THEN EntriesIn(call[r])
  ELSE IF doing[r] \in {"correct", "packed", "storeLocal"} THEN 1
  ELSE IF doing[r] \in {"reduce", "store"} THEN 2
  ELSE 0

EntriesSentBy(r) ==
  /\ \E S : entered[r] \in Seq(S)
  /\ Len(entered[r]) = IF call[r] = 0 THEN 0 ELSE EntriesTo[call[r] - 1] + EntriesDone(r)
  /\ \A c \in 1..call[r] :
       c < call[r] \/ EntriesDone(r) = EntriesIn(c) => entered[r][EntriesTo[c]] = Exchange(r, c)

\* What a run keeps.
LEMMA TermsFixed ==
  ASSUME mode' = mode, program' = program
  PROVE  /\ \A c : /\ Tokens(c)' = Tokens(c) /\ IsQuery(c)' = IsQuery(c)
                   /\ GathersIn(c)' = GathersIn(c) /\ EntriesIn(c)' = EntriesIn(c)
         /\ \A c, k : SizeOf(c, k)' = SizeOf(c, k)
         /\ \A r, k : SlotAt(r, k)' = SlotAt(r, k)
         /\ \A o, s, t, c : SeenBy(o, s, t, c)' = SeenBy(o, s, t, c)
         /\ \A r, c, k : GatherOf(r, c, k)' = GatherOf(r, c, k)
         /\ \A r, c : Exchange(r, c)' = Exchange(r, c)
         /\ \A r, c, t : ResultOf(r, c, t)' = ResultOf(r, c, t)
<1>1. PerChunk' = PerChunk /\ Depth' = Depth /\ Wire' = Wire
  BY LayoutFixed
<1>2. \A c : /\ Tokens(c)' = Tokens(c) /\ IsQuery(c)' = IsQuery(c)
             /\ GathersIn(c)' = GathersIn(c) /\ EntriesIn(c)' = EntriesIn(c)
  BY <1>1 DEF Tokens, IsQuery, GathersIn, EntriesIn
<1>3. \A c, k : SizeOf(c, k)' = SizeOf(c, k)
  BY <1>1, <1>2 DEF SizeOf
<1>4. \A r, k : SlotAt(r, k)' = SlotAt(r, k)
  BY <1>1 DEF SlotAt, ChunkRows, Depth
<1>5. \A o, s, t, c : SeenBy(o, s, t, c)' = SeenBy(o, s, t, c)
  BY DEF SeenBy
<1>6. \A r, c, k : GatherOf(r, c, k)' = GatherOf(r, c, k)
  BY <1>1, <1>3 DEF GatherOf
<1>7. \A r, c : ReduceOf(r, c)' = ReduceOf(r, c)
  BY <1>2, <1>5 DEF ReduceOf
<1>8. \A r, c : PayloadOf(r, c)' = PayloadOf(r, c)
  BY <1>2 DEF PayloadOf
<1>9. \A r, c : Exchange(r, c)' = Exchange(r, c)
  BY <1>2, <1>7, <1>8 DEF Exchange
<1>10. \A r, c, t : ResultOf(r, c, t)' = ResultOf(r, c, t)
  BY DEF ResultOf, SeenBy, IsQuery, Tokens
<1> QED BY <1>2, <1>3, <1>4, <1>5, <1>6, <1>9, <1>10

LEMMA GathersToFacts ==
  ASSUME WorkspaceTypeOK
  PROVE  /\ \A c \in 0..Len(program) : GathersTo[c] \in Nat
         /\ GathersTo[0] = 0
         /\ \A c \in 1..Len(program) : GathersTo[c] = GathersTo[c-1] + GathersIn(c)
         /\ \A c, d \in 0..Len(program) : c <= d => GathersTo[c] <= GathersTo[d]
<1> DEFINE N == Len(program)
           g == [c \in 1..N |-> GathersIn(c)]
<1>1. N \in Nat /\ \A c \in 1..N : GathersIn(c) \in Nat
  BY RunFacts, GathersFacts
<1>2. g \in Seq(Nat) /\ Len(g) = N /\ \A c \in 1..N : g[c] = GathersIn(c)
  <2> HIDE DEF N
  <2> QED BY <1>1
<1>3. GathersTo = PrefixSum(g)
  BY DEF GathersTo
<1> HIDE DEF g
<1>4. /\ PrefixSum(g) \in [0..N -> Nat] /\ PrefixSum(g)[0] = 0
      /\ \A c \in 1..N : PrefixSum(g)[c] = PrefixSum(g)[c-1] + g[c]
  BY <1>1, <1>2, PrefixSumDef DEF IsSumTo
<1>5. \A c, d \in 0..N : c <= d => PrefixSum(g)[c] <= PrefixSum(g)[d]
  BY <1>1, <1>2, PrefixSumGrows
<1> QED BY <1>1, <1>2, <1>3, <1>4, <1>5

LEMMA EntriesToFacts ==
  ASSUME WorkspaceTypeOK
  PROVE  /\ \A c \in 0..Len(program) : EntriesTo[c] \in Nat
         /\ EntriesTo[0] = 0
         /\ \A c \in 1..Len(program) : EntriesTo[c] = EntriesTo[c-1] + EntriesIn(c)
         /\ \A c, d \in 0..Len(program) : c <= d => EntriesTo[c] <= EntriesTo[d]
<1> DEFINE N == Len(program)
           g == [c \in 1..N |-> EntriesIn(c)]
<1>1. N \in Nat /\ \A c \in 1..N : EntriesIn(c) \in Nat
  BY RunFacts, GathersFacts
<1>2. g \in Seq(Nat) /\ Len(g) = N /\ \A c \in 1..N : g[c] = EntriesIn(c)
  <2> HIDE DEF N
  <2> QED BY <1>1
<1>3. EntriesTo = PrefixSum(g)
  BY DEF EntriesTo
<1> HIDE DEF g
<1>4. /\ PrefixSum(g) \in [0..N -> Nat] /\ PrefixSum(g)[0] = 0
      /\ \A c \in 1..N : PrefixSum(g)[c] = PrefixSum(g)[c-1] + g[c]
  BY <1>1, <1>2, PrefixSumDef DEF IsSumTo
<1>5. \A c, d \in 0..N : c <= d => PrefixSum(g)[c] <= PrefixSum(g)[d]
  BY <1>1, <1>2, PrefixSumGrows
<1> QED BY <1>1, <1>2, <1>3, <1>4, <1>5

\* Rank s has sent what rank r waits for in the k-th gather of its call.
LEMMA GatherArrived ==
  ASSUME PositionInv, NEW r \in Ranks, NEW s \in Ranks, GathersSentBy(s), call[r] > 0,
         started[r] > 0,
         Len(gathers[s]) >= GathersTo[call[r] - 1] + started[r]
  PROVE  gathers[s][GathersTo[call[r] - 1] + started[r]] = GatherOf(s, call[r], started[r] - 1)
<1> DEFINE c == call[r]
           d == call[s]
           k == started[r] - 1
<1>1. /\ c \in 1..Len(program) /\ c \in Nat /\ d \in Nat /\ d \in 0..Len(program)
      /\ started[r] \in Nat /\ started[s] \in Nat /\ started[r] <= staged[r]
      /\ started[s] <= staged[s] /\ staged[r] \in Nat /\ staged[s] \in Nat
      /\ k \in Nat /\ Len(program) \in Nat /\ (d > 0 => d \in 1..Len(program))
  <2>1. /\ c \in 1..Len(program) /\ c \in Nat /\ started[r] \in Nat /\ staged[r] \in Nat
        /\ started[r] <= staged[r] /\ Len(program) \in Nat
    BY RankFacts, RunFacts DEF PositionInv
  <2>2. /\ d \in Nat /\ d \in 0..Len(program) /\ started[s] \in Nat /\ staged[s] \in Nat
        /\ started[s] <= staged[s] /\ (d > 0 => d \in 1..Len(program))
    BY RankFacts DEF PositionInv
  <2> QED BY <2>1, <2>2
<1>2. /\ GathersIn(c) \in Nat /\ staged[r] <= GathersIn(c)
      /\ d > 0 => GathersIn(d) \in Nat /\ staged[s] <= GathersIn(d)
  BY <1>1, GathersFacts DEF PositionInv, PositionOf
<1>3. /\ GathersTo[c-1] \in Nat
      /\ d > 0 => /\ GathersTo[d] = GathersTo[d-1] + GathersIn(d) /\ GathersTo[d] \in Nat
                  /\ GathersTo[d-1] \in Nat
      /\ d <= c-1 => GathersTo[d] <= GathersTo[c-1]
  <2>1. c-1 \in 0..Len(program) /\ (d > 0 => d-1 \in 0..Len(program))
    BY SMTT(30), <1>1
  <2> HIDE DEF c, d
  <2> QED BY <1>1, <2>1, GathersToFacts DEF PositionInv
<1>4. Len(gathers[s]) = IF d = 0 THEN 0 ELSE GathersTo[d-1] + started[s]
  BY DEF GathersSentBy
<1>5. k \in 0..GathersIn(c)-1
  BY <1>1, <1>2
<1>6. ASSUME d < c PROVE FALSE
  <2>1. d <= c-1
    BY <1>1, <1>6
  <2> DEFINE x == GathersTo[c-1]
             y == GathersTo[d]
             z == GathersTo[d-1]
             l == Len(gathers[s])
             u == started[r]
             v == started[s]
             i == GathersIn(d)
  <2>2. x \in Nat /\ u \in Nat /\ u > 0 /\ l >= x + u
    BY <1>1, <1>3
  <2>3. d > 0 => /\ y = z + i /\ y \in Nat /\ z \in Nat /\ i \in Nat /\ v \in Nat /\ v <= i
                 /\ y <= x /\ l = z + v
    <3>1. ASSUME d > 0 PROVE started[s] <= GathersIn(d)
      BY <1>1, <1>2, <3>1
    <3> QED BY <1>1, <1>2, <1>3, <1>4, <2>1, <3>1
  <2>4. d = 0 => l = 0
    BY <1>4
  <2> HIDE DEF x, y, z, l, u, v, i, d
  <2> QED BY <1>1, <2>2, <2>3, <2>4
<1>7. c < d \/ k < started[s]
  <2>1. ASSUME c = d PROVE k < started[s]
    <3>1. Len(gathers[s]) = GathersTo[c-1] + started[s]
      BY <1>1, <1>4, <2>1
    <3> HIDE DEF c, d
    <3> QED BY SMTT(30), <1>1, <1>3, <3>1 DEF c
  <2> QED BY <1>1, <1>6, <2>1
<1>8. c \in 1..d
  BY <1>1, <1>6
<1>9. gathers[s][GathersTo[c-1] + k + 1] = GatherOf(s, c, k)
  BY <1>5, <1>7, <1>8 DEF GathersSentBy
<1>10. GathersTo[c-1] + k + 1 = GathersTo[c-1] + started[r]
  BY <1>1, <1>3
<1> QED BY <1>9, <1>10

\* Rank s has sent what rank r waits for in the last collective of its call.
LEMMA ExchangeArrived ==
  ASSUME PositionInv, NEW r \in Ranks, NEW s \in Ranks, EntriesSentBy(r), EntriesSentBy(s),
         EveryoneIn(r), call[r] > 0, EntriesDone(r) = EntriesIn(call[r])
  PROVE  Sent(s, r) = Exchange(s, call[r])
<1> DEFINE c == call[r]
           d == call[s]
<1>1. /\ c \in 1..Len(program) /\ c \in Nat /\ d \in Nat /\ d \in 0..Len(program)
      /\ Len(program) \in Nat /\ (d > 0 => d \in 1..Len(program))
  BY RankFacts, RunFacts DEF PositionInv
<1>2. /\ EntriesTo[c-1] \in Nat /\ EntriesTo[c] = EntriesTo[c-1] + EntriesIn(c)
      /\ d > 0 => /\ EntriesTo[d] = EntriesTo[d-1] + EntriesIn(d) /\ EntriesTo[d] \in Nat
                  /\ EntriesTo[d-1] \in Nat
      /\ d <= c-1 => EntriesTo[d] <= EntriesTo[c-1]
  <2> DEFINE N == Len(program)
             f == EntriesTo
  <2>1. /\ \A x \in 0..N : f[x] \in Nat
        /\ \A x \in 1..N : f[x] = f[x-1] + EntriesIn(x)
        /\ \A x, y \in 0..N : x <= y => f[x] <= f[y]
    BY EntriesToFacts DEF PositionInv
  <2>2. /\ c-1 \in 0..N /\ d \in 0..N /\ c \in 1..N
        /\ d > 0 => d-1 \in 0..N /\ d \in 1..N
    BY <1>1
  <2> HIDE DEF c, d, N, f
  <2>3. /\ f[c-1] \in Nat /\ f[c] = f[c-1] + EntriesIn(c)
        /\ d <= c-1 => f[d] <= f[c-1]
    BY <2>1, <2>2
  <2>4. d > 0 => f[d] = f[d-1] + EntriesIn(d) /\ f[d] \in Nat /\ f[d-1] \in Nat
    BY <2>1, <2>2
  <2> QED BY <2>3, <2>4 DEF f
<1>3. /\ EntriesIn(c) \in {1, 2}
      /\ d > 0 => EntriesDone(s) \in Nat /\ EntriesDone(s) <= EntriesIn(d)
  <2>1. EntriesIn(c) \in {1, 2} /\ EntriesIn(d) \in {1, 2}
    BY DEF EntriesIn
  <2>2. doing[s] \in {"correct", "reduce", "store"} => IsQuery(d)
    BY DEF PositionInv, PositionOf, QueryPlaces
  <2>3. CASE doing[s] = "idle"
    BY <2>1, <2>3 DEF EntriesDone
  <2>4. CASE doing[s] \in {"correct", "packed", "storeLocal"}
    BY <2>1, <2>4 DEF EntriesDone
  <2>5. CASE doing[s] \in {"reduce", "store"}
    BY <2>2, <2>5 DEF EntriesDone, EntriesIn
  <2>6. CASE doing[s] \notin {"idle", "correct", "packed", "storeLocal", "reduce", "store"}
    BY <2>1, <2>6 DEF EntriesDone
  <2> QED BY <2>1, <2>3, <2>4, <2>5, <2>6
<1>4. /\ Len(entered[s]) = IF d = 0 THEN 0 ELSE EntriesTo[d-1] + EntriesDone(s)
      /\ Len(entered[r]) = EntriesTo[c]
      /\ Len(entered[s]) >= Len(entered[r])
  BY <1>1, <1>2 DEF EntriesSentBy, EveryoneIn
<1>5. ASSUME d < c PROVE FALSE
  <2>1. d <= c-1
    BY <1>1, <1>5
  <2> DEFINE x == EntriesTo[c-1]
             y == EntriesTo[d]
             z == EntriesTo[d-1]
             l == Len(entered[s])
             v == EntriesDone(s)
             i == EntriesIn(d)
             j == EntriesIn(c)
  <2>2. x \in Nat /\ j \in Nat /\ j > 0 /\ l >= x + j
    BY <1>2, <1>3, <1>4
  <2>3. d > 0 => /\ y = z + i /\ y \in Nat /\ z \in Nat /\ v \in Nat /\ v <= i
                 /\ y <= x /\ l = z + v
    BY <1>2, <1>3, <1>4, <2>1
  <2>4. d = 0 => l = 0
    BY <1>4
  <2>5. d > 0 => i \in Nat
    BY DEF EntriesIn
  <2> HIDE DEF x, y, z, l, v, i, j, d
  <2> QED BY <1>1, <2>2, <2>3, <2>4, <2>5
<1>6. c < d \/ EntriesDone(s) = EntriesIn(c)
  BY <1>1, <1>2, <1>3, <1>4, <1>5
<1>7. entered[s][EntriesTo[c]] = Exchange(s, c)
  BY <1>1, <1>5, <1>6 DEF EntriesSentBy
<1> QED BY <1>4, <1>7 DEF Sent

-----------------------------------------------------------------------------
(* The contents of the workspaces.                                         *)

\* While the query is gathered: rows in place, local rows that wait for their
\* gather, and gathered chunks that wait to be placed.
InPlace(r) ==
  \A s \in Ranks, t \in 0..Tokens(call[r])-1 :
    t < placed[r] * PerChunk => query[r][t * W + s] = SeenBy(r, s, t, call[r])

Waiting(r) ==
  \A k \in started[r]..staged[r]-1 :
    /\ mode = "fp8" => staging[r] = GatherOf(r, call[r], k)
    /\ mode # "fp8" =>
         \A i \in 0..SizeOf(call[r], k)-1 :
           query[r][(k * PerChunk) * W + i] = Query(r, k * PerChunk + i, call[r], "exact")

Received(r) ==
  \A k \in placed[r]..finished[r]-1 : \A s \in Ranks, t \in 0..SizeOf(call[r], k)-1 :
    scratch[r][SlotAt(r, k) + (s * SizeOf(call[r], k) + t)]
      = Query(s, k * PerChunk + t, call[r], Wire)

\* Between two operations of the query route, and before the copy to the output.
Attended(r) ==
  \A s \in Ranks, t \in 0..Tokens(call[r])-1 :
    scratch[r][t * W + s] = Partial(r, SeenBy(r, s, t, call[r]))
Transposed(r) ==
  \A s \in Ranks, t \in 0..Tokens(call[r])-1 :
    query[r][s * Tokens(call[r]) + t] = Partial(r, SeenBy(r, s, t, call[r]))
HasProjected(r) ==
  \A s \in Ranks, t \in 0..Tokens(call[r])-1 :
    scratch[r][s * Tokens(call[r]) + t] = Projected(Partial(r, SeenBy(r, s, t, call[r])))

ContentOf(r) ==
  /\ doing[r] \in {"gather", "attend"} => InPlace(r)
  /\ doing[r] = "gather" => Waiting(r) /\ Received(r)
  /\ doing[r] = "transpose" => Attended(r)
  /\ doing[r] = "project" => Transposed(r)
  /\ doing[r] = "correct" => HasProjected(r)
  /\ doing[r] = "store" =>
       \A t \in 0..Tokens(call[r])-1 : query[r][t] = ResultOf(r, call[r], t)
  /\ doing[r] = "storeLocal" =>
       \A t \in 0..Tokens(call[r])-1 : scratch[r][t] = ResultOf(r, call[r], t)
  /\ doing[r] = "idle" /\ call[r] > 0 =>
       output[r] = [t \in 1..Tokens(call[r]) |-> ResultOf(r, call[r], t - 1)]

WorkspaceInv ==
  /\ PositionInv
  /\ \A r \in Ranks : GathersSentBy(r) /\ EntriesSentBy(r) /\ ContentOf(r)

LEMMA GathersElsewhere ==
  ASSUME mode' = mode, program' = program, NEW s \in Ranks, GathersSentBy(s),
         call'[s] = call[s], started'[s] = started[s], gathers'[s] = gathers[s]
  PROVE  GathersSentBy(s)'
<1>1. GathersTo' = GathersTo
  BY LayoutFixed
<1>2. \A c, k : GathersIn(c)' = GathersIn(c) /\ GatherOf(s, c, k)' = GatherOf(s, c, k)
  BY TermsFixed
<1> QED BY <1>1, <1>2 DEF GathersSentBy

LEMMA EntriesElsewhere ==
  ASSUME mode' = mode, program' = program, NEW s \in Ranks, EntriesSentBy(s),
         call'[s] = call[s], EntriesDone(s)' = EntriesDone(s), entered'[s] = entered[s]
  PROVE  EntriesSentBy(s)'
<1>1. EntriesTo' = EntriesTo
  BY LayoutFixed
<1>2. \A c : EntriesIn(c)' = EntriesIn(c) /\ Exchange(s, c)' = Exchange(s, c)
  BY TermsFixed
<1> QED BY <1>1, <1>2 DEF EntriesSentBy

LEMMA EntriesDoneFixed ==
  ASSUME mode' = mode, program' = program, NEW s \in Ranks,
         call'[s] = call[s], doing'[s] = doing[s]
  PROVE  EntriesDone(s)' = EntriesDone(s)
<1>1. \A c : EntriesIn(c)' = EntriesIn(c)
  BY TermsFixed
<1> QED BY <1>1 DEF EntriesDone

LEMMA ContentElsewhere ==
  ASSUME mode' = mode, program' = program, NEW s \in Ranks, ContentOf(s),
         call'[s] = call[s], doing'[s] = doing[s], staged'[s] = staged[s],
         started'[s] = started[s], finished'[s] = finished[s], placed'[s] = placed[s],
         query'[s] = query[s], scratch'[s] = scratch[s], staging'[s] = staging[s],
         output'[s] = output[s]
  PROVE  ContentOf(s)'
<1>1. PerChunk' = PerChunk /\ Wire' = Wire
  BY LayoutFixed
<1>2. /\ \A c : Tokens(c)' = Tokens(c) /\ IsQuery(c)' = IsQuery(c)
      /\ \A c, k : SizeOf(c, k)' = SizeOf(c, k)
      /\ \A r, k : SlotAt(r, k)' = SlotAt(r, k)
      /\ \A o, q, t, c : SeenBy(o, q, t, c)' = SeenBy(o, q, t, c)
      /\ \A r, c, k : GatherOf(r, c, k)' = GatherOf(r, c, k)
      /\ \A r, c, t : ResultOf(r, c, t)' = ResultOf(r, c, t)
  BY TermsFixed
<1>3. /\ InPlace(s) => InPlace(s)'
      /\ Attended(s) => Attended(s)'
      /\ Transposed(s) => Transposed(s)'
      /\ HasProjected(s) => HasProjected(s)'
  BY <1>1, <1>2 DEF InPlace, Attended, Transposed, HasProjected
<1>4. Waiting(s) => Waiting(s)'
  BY <1>1, <1>2 DEF Waiting
<1>5. Received(s) => Received(s)'
  BY <1>1, <1>2 DEF Received
<1> QED BY <1>2, <1>3, <1>4, <1>5 DEF ContentOf

-----------------------------------------------------------------------------
(* Cells.                                                                  *)

\* The cells of a call in the token-major and in the head-major layout.
LEMMA CellFacts ==
  ASSUME WorkspaceTypeOK, NEW c \in 1..Len(program), NEW s \in Ranks, NEW t \in 0..Tokens(c)-1
  PROVE  /\ t * W + s \in 0..Tokens(c)*W-1 /\ t * W \in Nat
         /\ (t * W + s) \div W = t /\ (t * W + s) % W = s
         /\ s * Tokens(c) + t \in 0..Tokens(c)*W-1 /\ s * Tokens(c) \in Nat
         /\ (s * Tokens(c) + t) \div Tokens(c) = s /\ (s * Tokens(c) + t) % Tokens(c) = t
<1> DEFINE T == Tokens(c)
<1>1. T \in Nat /\ T > 0 /\ W \in Nat /\ W > 0
  BY RunFacts, WorkspaceSizes
<1>2. s \in 0..W-1 /\ s \in Nat /\ s < W /\ t \in Nat /\ t < T
  BY <1>1 DEF Ranks
<1>3. T * W = W * T
  BY <1>1
<1> HIDE DEF T
<1>4. t \in 0..T-1
  BY <1>1, <1>2
<1>5. t * W + s \in 0..T*W-1 /\ t * W \in Nat
  BY <1>1, <1>2, <1>4, CellInside
<1>6. s * T + t \in 0..W*T-1 /\ s * T \in Nat
  BY <1>1, <1>2, <1>4, CellInside
<1>7. (t * W + s) \div W = t /\ (t * W + s) % W = s
  BY <1>1, <1>2, PartsUnique
<1>8. (s * T + t) \div T = s /\ (s * T + t) % T = t
  BY <1>1, <1>2, PartsUnique
<1> QED BY <1>3, <1>5, <1>6, <1>7, <1>8 DEF T

\* A call fits in both workspaces.
LEMMA CellsOfCall ==
  ASSUME WorkspaceTypeOK, NEW c \in 1..Len(program)
  PROVE  /\ Tokens(c) \in Nat /\ Tokens(c) > 0 /\ Tokens(c) * W \in Nat
         /\ Tokens(c) <= Tokens(c) * W
         /\ Tokens(c) <= MaxBatched /\ Tokens(c) * W <= MaxBatched * W
         /\ \A i \in Nat : i < Tokens(c) * W => i \in QueryCells /\ i \in ScratchCells
         /\ \A i \in Nat : i < Tokens(c) => i \in QueryCells /\ i \in ScratchCells
<1> DEFINE T == Tokens(c)
           M == MaxBatched
<1>1. T \in Nat /\ T > 0 /\ T <= M /\ W \in Nat /\ W > 0 /\ M \in Nat /\ M > 1
  BY RunFacts, WorkspaceSizes
<1> HIDE DEF T, M
<1>2. T * W <= M * W /\ T * W \in Nat /\ M * W \in Nat
  BY <1>1, ProductMonotone
<1>3. T <= T * W
  BY <1>1
<1> DEFINE a == T * W
           b == M * W
<1>4. QueryCells = 0..b-1 /\ ScratchCells = 0..b + M - 1
  BY DEF QueryCells, ScratchCells, CkvOffset, M
<1>5. a \in Nat /\ b \in Nat /\ a <= b /\ T <= a
  BY <1>2, <1>3
<1> HIDE DEF a, b
<1>6. /\ \A i \in Nat : i < a => i \in QueryCells /\ i \in ScratchCells
      /\ \A i \in Nat : i < T => i \in QueryCells /\ i \in ScratchCells
  BY <1>1, <1>4, <1>5
<1> QED BY <1>1, <1>5, <1>6 DEF a, b, T, M

LEMMA CellsFit ==
  ASSUME WorkspaceTypeOK, NEW c \in 1..Len(program), NEW s \in Ranks, NEW t \in 0..Tokens(c)-1
  PROVE  /\ t * W + s \in QueryCells /\ t * W + s \in ScratchCells
         /\ s * Tokens(c) + t \in QueryCells /\ s * Tokens(c) + t \in ScratchCells
<1> DEFINE i == t * W + s
           j == s * Tokens(c) + t
           n == Tokens(c) * W
<1>1. i \in 0..n-1 /\ j \in 0..n-1
  BY CellFacts
<1>2. n \in Nat /\ \A x \in Nat : x < n => x \in QueryCells /\ x \in ScratchCells
  BY CellsOfCall
<1> HIDE DEF i, j, n
<1>3. i \in QueryCells /\ i \in ScratchCells /\ j \in QueryCells /\ j \in ScratchCells
  BY <1>1, <1>2
<1> QED BY <1>3 DEF i, j

\* A row placed lies before the chunks that are not.
LEMMA RowBefore ==
  ASSUME WorkspaceTypeOK, NEW k \in Nat, NEW t \in Nat, t < k * PerChunk, NEW s \in Ranks
  PROVE  /\ t * W + s \in Nat /\ t * W + s < (k * PerChunk) * W
         /\ k * PerChunk \in Nat /\ (k * PerChunk) * W \in Nat
<1>1. PerChunk \in Nat /\ W \in Nat /\ s \in 0..W-1
  BY RunFacts, WorkspaceSizes DEF Ranks
<1> DEFINE n == k * PerChunk
<1>2. n \in Nat
  BY <1>1, ProductMonotone
<1>3. t \in 0..n-1
  BY <1>2
<1> HIDE DEF n
<1>4. t * W + s \in 0..n*W-1 /\ n * W \in Nat
  BY <1>1, <1>2, <1>3, CellInside
<1> QED BY <1>2, <1>4 DEF n

\* A cell of a gathered chunk: rank-major in the slot, token-major in place.
LEMMA SlotCell ==
  ASSUME WorkspaceTypeOK, NEW c \in 1..Len(program), IsQuery(c), NEW k \in 0..GathersIn(c)-1,
         NEW s \in Ranks, NEW t \in 0..SizeOf(c, k)-1
  PROVE  /\ s * SizeOf(c, k) + t \in 0..SizeOf(c, k)*W-1
         /\ (s * SizeOf(c, k) + t) \div SizeOf(c, k) = s
         /\ (s * SizeOf(c, k) + t) % SizeOf(c, k) = t
         /\ t * W + s \in 0..SizeOf(c, k)*W-1
         /\ (t * W + s) \div W = t /\ (t * W + s) % W = s
         /\ SizeOf(c, k) * W \in Nat
<1> DEFINE S == SizeOf(c, k)
<1>1. S \in Nat /\ S > 0 /\ W \in Nat /\ W > 0
  BY SMTT(30), ChunkFacts, RunFacts, WorkspaceSizes
<1>2. s \in 0..W-1 /\ s \in Nat /\ s < W /\ t \in Nat /\ t < S
  BY <1>1 DEF Ranks
<1>3. S * W = W * S
  BY <1>1
<1> HIDE DEF S
<1>4. t \in 0..S-1
  BY <1>1, <1>2
<1>5. t * W + s \in 0..S*W-1 /\ S * W \in Nat
  BY <1>1, <1>2, <1>4, CellInside
<1>6. s * S + t \in 0..W*S-1
  BY <1>1, <1>2, <1>4, CellInside
<1>7. (t * W + s) \div W = t /\ (t * W + s) % W = s
  BY <1>1, <1>2, PartsUnique
<1>8. (s * S + t) \div S = s /\ (s * S + t) % S = t
  BY <1>1, <1>2, PartsUnique
<1> QED BY <1>3, <1>5, <1>6, <1>7, <1>8 DEF S

\* A slot lies in the scratch prefix of the query.
LEMMA SlotInside ==
  ASSUME WorkspaceTypeOK, NEW c \in 1..Len(program), IsQuery(c), NEW k \in 0..GathersIn(c)-1,
         NEW r \in Ranks
  PROVE  /\ SlotAt(r, k) \in Nat /\ SizeOf(c, k) * W \in Nat
         /\ \A i \in 0..SizeOf(c, k)*W-1 :
              /\ SlotAt(r, k) + i \in ScratchCells
              /\ SlotAt(r, k) <= SlotAt(r, k) + i
              /\ SlotAt(r, k) + i < SlotAt(r, k) + SizeOf(c, k) * W
              /\ (SlotAt(r, k) + i) - SlotAt(r, k) = i
<1> DEFINE m == PerChunk
           d == k % Depth
           b == m * W
           p == d * m * W
           n == SizeOf(c, k) * W
           M == MaxBatched
<1>1. /\ m \in Nat /\ Depth \in {1, 2} /\ Depth * m <= Capacity /\ W \in Nat /\ k \in Nat
      /\ Capacity <= M /\ Capacity \in Nat /\ M \in Nat /\ M * W \in Nat
  BY RunFacts, WorkspaceSizes
<1>2. d \in Nat /\ d + 1 <= Depth
  BY <1>1
<1>3. SlotAt(r, k) = p
  BY LayoutFacts
<1>4. n \in Nat /\ n <= b /\ b \in Nat
  BY ChunkCells
<1>5. p \in Nat /\ p + b <= M * W
  <2>1. (d + 1) * m <= Depth * m /\ (d + 1) * m \in Nat /\ Depth * m \in Nat
    BY <1>1, <1>2, ProductMonotone
  <2>2. (d + 1) * m <= M
    BY <1>1, <2>1
  <2>3. ((d + 1) * m) * W <= M * W
    BY <1>1, <2>1, <2>2, ProductMonotone
  <2>4. ((d + 1) * m) * W = d * m * W + m * W /\ d * m * W \in Nat
    <3> HIDE DEF d, m
    <3>1. d * m \in Nat /\ (d + 1) * m = d * m + m
      BY <1>1, <1>2
    <3> DEFINE e == d * m
    <3>2. e \in Nat
      BY <3>1
    <3> HIDE DEF e
    <3>3. (e + m) * W = e * W + m * W /\ e * W \in Nat
      BY <1>1, <3>2
    <3> QED BY <3>1, <3>3 DEF e
  <2> QED BY <2>3, <2>4
<1>6. ScratchCells = 0..M * W + M - 1
  BY DEF ScratchCells, CkvOffset
<1> DEFINE q == M * W
<1>7. q \in Nat /\ p + b <= q /\ ScratchCells = 0..q + M - 1
  BY <1>1, <1>5, <1>6
<1> HIDE DEF p, n, b, q, M
<1>8. \A i \in 0..n-1 : /\ p + i \in ScratchCells /\ p <= p + i /\ p + i < p + n
                        /\ (p + i) - p = i
  BY <1>1, <1>4, <1>5, <1>7
<1> QED BY <1>3, <1>4, <1>5, <1>8 DEF n

-----------------------------------------------------------------------------
(* Each step keeps what was sent and what the workspaces hold.             *)

LEMMA EnterInv ==
  ASSUME WorkspaceInv, NEW r \in Ranks, Enter(r), NEW s \in Ranks
  PROVE  GathersSentBy(s)' /\ EntriesSentBy(s)' /\ ContentOf(s)'
<1>0. PositionInv /\ WorkspaceTypeOK /\ GathersSentBy(s) /\ EntriesSentBy(s) /\ ContentOf(s)
  BY DEF WorkspaceInv, PositionInv
<1>1. /\ mode' = mode /\ program' = program /\ gathers' = gathers /\ entered' = entered
      /\ query' = query /\ scratch' = scratch /\ staging' = staging /\ output' = output
  BY DEF Enter, memory
<1>2. CASE s # r
  <2>1. /\ call'[s] = call[s] /\ doing'[s] = doing[s] /\ staged'[s] = staged[s]
        /\ started'[s] = started[s] /\ finished'[s] = finished[s] /\ placed'[s] = placed[s]
    BY <1>0, <1>2 DEF Enter, WorkspaceTypeOK
  <2>2. EntriesDone(s)' = EntriesDone(s)
    BY <1>1, <2>1, EntriesDoneFixed
  <2> QED BY <1>0, <1>1, <2>1, <2>2, GathersElsewhere, EntriesElsewhere, ContentElsewhere
<1>3. CASE s = r
  <2> DEFINE c == call[r]
  <2>1. /\ call'[r] = c + 1 /\ c < Len(program) /\ doing[r] = "idle"
        /\ doing'[r] \in {"gather", "pack"}
        /\ staged'[r] = 0 /\ started'[r] = 0 /\ finished'[r] = 0 /\ placed'[r] = 0
    BY <1>0 DEF Enter, WorkspaceTypeOK
  <2>2. /\ c \in Nat /\ (c > 0 => c \in 1..Len(program)) /\ Len(program) \in Nat
        /\ staged[r] \in Nat /\ started[r] \in Nat /\ placed[r] \in Nat
        /\ placed[r] <= started[r] /\ started[r] <= staged[r]
    BY SMTT(30), <1>0, RankFacts, RunFacts
  <2>3. c > 0 => started[r] = GathersIn(c) /\ GathersIn(c) \in Nat
    BY <1>0, <2>1, <2>2, GathersFacts DEF PositionInv, PositionOf
  <2>4. GathersTo' = GathersTo /\ EntriesTo' = EntriesTo /\ PerChunk' = PerChunk
    BY <1>1, LayoutFixed
  <2>5. /\ \A x, k : GathersIn(x)' = GathersIn(x) /\ GatherOf(r, x, k)' = GatherOf(r, x, k)
        /\ \A x : EntriesIn(x)' = EntriesIn(x) /\ Exchange(r, x)' = Exchange(r, x)
    BY <1>1, TermsFixed
  <2>6. GathersSentBy(r)'
    <3>1. Len(gathers[r]) = GathersTo[c]
      <4>1. CASE c = 0
        BY <1>0, <1>3, <4>1, GathersToFacts DEF GathersSentBy
      <4>2. CASE c # 0
        BY <1>0, <1>3, <2>2, <2>3, <4>2, GathersToFacts DEF GathersSentBy
      <4> QED BY <4>1, <4>2
    <3>2. GathersTo[c] \in Nat
      BY <1>0, <2>1, <2>2, GathersToFacts
    <3>3. /\ call'[r] # 0 /\ call'[r] - 1 = c
          /\ Len(gathers'[r]) = GathersTo[call'[r] - 1] + started'[r]
      BY <1>1, <2>1, <2>2, <3>1, <3>2
    <3>4. ASSUME NEW x \in 1..call'[r], NEW k \in 0..GathersIn(x)-1,
                 x < call'[r] \/ k < started'[r]
          PROVE  gathers'[r][GathersTo[x - 1] + k + 1] = GatherOf(r, x, k)
      <4>1. GathersIn(x) \in Nat
        <5>1. x \in 1..Len(program)
          BY <2>1, <2>2
        <5> QED BY <1>0, <5>1, GathersFacts
      <4>2. x \in 1..c /\ (x < c \/ k < started[r])
        BY <2>1, <2>2, <2>3, <3>4, <4>1
      <4> QED BY <1>0, <1>1, <1>3, <4>2 DEF GathersSentBy
    <3> QED BY <1>0, <1>1, <1>3, <2>4, <2>5, <3>3, <3>4 DEF GathersSentBy
  <2>7. EntriesSentBy(r)'
    <3>0. EntriesDone(r)' = 0 /\ EntriesDone(r) = EntriesIn(c)
      BY <2>1 DEF EntriesDone
    <3>1. Len(entered[r]) = EntriesTo[c]
      <4>1. CASE c = 0
        BY <1>0, <1>3, <4>1, EntriesToFacts DEF EntriesSentBy
      <4>2. CASE c # 0
        BY <1>0, <1>3, <2>2, <3>0, <4>2, EntriesToFacts DEF EntriesSentBy
      <4> QED BY <4>1, <4>2
    <3>2. EntriesTo[c] \in Nat
      BY <1>0, <2>1, <2>2, EntriesToFacts
    <3>3. /\ call'[r] # 0 /\ call'[r] - 1 = c
          /\ Len(entered'[r]) = EntriesTo[call'[r] - 1] + EntriesDone(r)'
      BY <1>1, <2>1, <2>2, <3>0, <3>1, <3>2
    <3>4. ASSUME NEW x \in 1..call'[r], x < call'[r] \/ EntriesDone(r)' = EntriesIn(x)
          PROVE  entered'[r][EntriesTo[x]] = Exchange(r, x)
      <4>1. EntriesIn(x) # 0
        BY DEF EntriesIn
      <4>2. x \in 1..c /\ (x < c \/ EntriesDone(r) = EntriesIn(x))
        BY <2>1, <2>2, <3>0, <3>4, <4>1
      <4> QED BY <1>0, <1>1, <1>3, <4>2 DEF EntriesSentBy
    <3> QED BY <1>0, <1>1, <1>3, <2>4, <2>5, <3>3, <3>4 DEF EntriesSentBy
  <2>8. ContentOf(r)'
    <3>1. 0 * PerChunk = 0
      BY <1>0, RunFacts, WorkspaceSizes
    <3>2. InPlace(r)'
      BY <2>1, <2>4, <3>1 DEF InPlace
    <3>3. Waiting(r)' /\ Received(r)'
      BY <2>1 DEF Waiting, Received
    <3> QED BY <2>1, <3>2, <3>3 DEF ContentOf
  <2> QED BY <1>3, <2>6, <2>7, <2>8
<1> QED BY <1>2, <1>3

LEMMA StageInv ==
  ASSUME WorkspaceInv, NEW r \in Ranks, Stage(r), NEW s \in Ranks
  PROVE  GathersSentBy(s)' /\ EntriesSentBy(s)' /\ ContentOf(s)'
<1> DEFINE c == call[r]
           k == staged[r]
           m == PerChunk
           n == SizeOf(c, k)
           base == (k * m) * W
           rows == [i \in 0..n-1 |-> Query(r, k * m + i, c, Wire)]
<1>0. PositionInv /\ WorkspaceTypeOK /\ GathersSentBy(s) /\ EntriesSentBy(s) /\ ContentOf(s)
  BY DEF WorkspaceInv, PositionInv
<1>1. /\ mode' = mode /\ program' = program /\ gathers' = gathers /\ entered' = entered
      /\ scratch' = scratch /\ output' = output /\ call' = call /\ doing' = doing
      /\ started' = started /\ finished' = finished /\ placed' = placed
      /\ staged' = [staged EXCEPT ![r] = k + 1] /\ MayStage(r)
  BY DEF Stage, comm
<1>2. GathersSentBy(s)' /\ EntriesSentBy(s)'
  BY <1>0, <1>1, GathersElsewhere, EntriesElsewhere, EntriesDoneFixed
<1>3. \A i : Start(r, k) + i = k * m + i
  BY <1>0, LayoutFacts
<1>4. /\ Start(r, k) = k * m /\ Size(r, k) = n /\ StageAt(r, k) = base
  BY <1>0, LayoutFacts
<1>5. /\ mode = "fp8" => staging' = [staging EXCEPT ![r] = rows] /\ query' = query
      /\ mode # "fp8" => /\ query' = [query EXCEPT ![r] = Put(query[r], base, n, rows)]
                         /\ staging' = staging
  <2>1. Wire = IF mode = "fp8" THEN "fp8" ELSE "exact"
    BY DEF Wire
  <2>2. rows = [i \in 0..Size(r, k)-1 |->
                  Query(r, Start(r, k) + i, c, IF mode = "fp8" THEN "fp8" ELSE "exact")]
    BY <1>4, <2>1
  <2>3. /\ mode = "fp8" => staging' = [staging EXCEPT ![r] = rows] /\ query' = query
        /\ mode # "fp8" => /\ query' = [query EXCEPT ![r] = Put(query[r], StageAt(r, k), Size(r, k), rows)]
                           /\ staging' = staging
    <3> HIDE DEF rows
    <3>1. Stage(r) <=>
            /\ MayStage(r)
            /\ IF mode = "fp8"
               THEN staging' = [staging EXCEPT ![r] = rows] /\ UNCHANGED query
               ELSE /\ query' = [query EXCEPT ![r] = Put(@, StageAt(r, k), Size(r, k), rows)]
                    /\ UNCHANGED staging
            /\ staged' = [staged EXCEPT ![r] = k + 1]
            /\ UNCHANGED <<mode, program, call, doing, placed, comm, entered, scratch, output>>
      BY <2>2 DEF Stage
    <3> QED BY <3>1
  <2> QED BY <1>4, <2>3
<1>6. CASE s # r
  <2>1. staged'[s] = staged[s] /\ query'[s] = query[s] /\ staging'[s] = staging[s]
    BY <1>0, <1>1, <1>5, <1>6 DEF WorkspaceTypeOK
  <2> QED BY <1>0, <1>1, <1>2, <2>1, ContentElsewhere
<1>7. CASE s = r
  <2>1. /\ doing[r] = "gather" /\ c \in 1..Len(program) /\ IsQuery(c) /\ k \in Nat
        /\ k \in 0..GathersIn(c)-1 /\ GathersIn(c) \in Nat /\ k < placed[r] + Depth
        /\ placed[r] \in Nat /\ started[r] \in Nat /\ placed[r] <= started[r] /\ started[r] <= k
        /\ placed[r] <= k
    <3>1. doing[r] = "gather" /\ k < Chunks(r) /\ k - placed[r] < Depth
      BY <1>1 DEF MayStage
    <3>2. /\ c \in 1..Len(program) /\ IsQuery(c) /\ Chunks(r) = GathersIn(c)
          /\ GathersIn(c) \in Nat
      BY <1>0, <3>1, Gathering
    <3>3. /\ k \in Nat /\ placed[r] \in Nat /\ started[r] \in Nat /\ finished[r] \in Nat
          /\ placed[r] <= finished[r] /\ finished[r] <= started[r] /\ started[r] <= k
          /\ Depth \in {1, 2}
      BY <1>0, RankFacts, RunFacts
    <3> QED BY <3>1, <3>2, <3>3
  <2>2. /\ n \in 1..m /\ m \in Nat /\ base \in Nat /\ n <= n * W /\ n * W \in Nat
        /\ base + n * W <= Tokens(c) * W /\ Tokens(c) * W \in Nat
    <3>1. n \in 1..m
      BY <1>0, <2>1, ChunkFacts
    <3>2. m \in Nat
      BY <1>0, RunFacts, WorkspaceSizes
    <3>3. /\ base \in Nat /\ n <= n * W /\ n * W \in Nat
          /\ base + n * W <= Tokens(c) * W /\ Tokens(c) * W \in Nat
      BY <1>0, <2>1, ChunkCells
    <3> QED BY <3>1, <3>2, <3>3
  <2>3. staged'[r] = k + 1
    BY <1>0, <1>1 DEF WorkspaceTypeOK
  <2>4. /\ DOMAIN query[r] = QueryCells
        /\ mode # "fp8" => query'[r] = Put(query[r], base, n, rows)
        /\ mode = "fp8" => staging'[r] = rows
    BY <1>0, <1>5 DEF WorkspaceTypeOK
  <2>5. PerChunk' = m /\ Wire' = Wire
    BY <1>1, LayoutFixed
  <2>6. InPlace(r) /\ Waiting(r) /\ Received(r)
    BY <1>0, <1>7, <2>1 DEF ContentOf
  <2>7. InPlace(r)'
    <3>1. ASSUME NEW q \in Ranks, NEW t \in 0..Tokens(c)-1, t < placed[r] * m
          PROVE  query'[r][t * W + q] = SeenBy(r, q, t, c)
      <4>1. query[r][t * W + q] = SeenBy(r, q, t, c)
        BY <2>6, <3>1 DEF InPlace
      <4>2. CASE mode = "fp8"
        BY <1>5, <4>1, <4>2
      <4>3. CASE mode # "fp8"
        <5>1. t \in Nat /\ t * W + q \in Nat
          BY <1>0, <2>1, CellFacts
        <5>2. placed[r] * m <= k * m /\ placed[r] * m \in Nat /\ k * m \in Nat
          BY <2>1, <2>2, ProductMonotone
        <5>3. t < k * m
          BY <3>1, <5>1, <5>2
        <5>4. t * W + q < base
          BY <1>0, <2>1, <5>1, <5>3, RowBefore
        <5>5. t * W + q \in QueryCells
          BY <1>0, <2>1, CellsFit
        <5> HIDE DEF base, rows, n
        <5>6. query'[r][t * W + q] = query[r][t * W + q]
          <6> DEFINE i == t * W + q
          <6>1. i \in QueryCells /\ ~(base <= i) 
            BY <2>2, <5>1, <5>4, <5>5
          <6> HIDE DEF i
          <6>2. Put(query[r], base, n, rows)[i] = query[r][i]
            BY <2>4, <6>1, PutCells
          <6> QED BY <2>4, <4>3, <6>2 DEF i
        <5> QED BY <4>1, <5>6
      <4> QED BY <4>2, <4>3
    <3> QED BY <1>1, <2>5, <3>1, TermsFixed DEF InPlace
  <2>8. Received(r)'
    BY <1>1, <2>5, <2>6, TermsFixed DEF Received
  <2>9. Waiting(r)'
    <3>1. ASSUME mode = "fp8", NEW j \in started[r]..staged'[r]-1
          PROVE  staging'[r] = GatherOf(r, c, j)
      <4>1. Depth = 1
        BY <3>1 DEF Depth
      <4>2. j = k
        BY <2>1, <2>3, <4>1
      <4> QED BY <2>4, <3>1, <4>2 DEF GatherOf
    <3>2. ASSUME mode # "fp8", NEW j \in started[r]..staged'[r]-1,
                 NEW i \in 0..SizeOf(c, j)-1
          PROVE  query'[r][(j * m) * W + i] = Query(r, j * m + i, c, "exact")
      <4>0. Wire = "exact"
        BY <3>2 DEF Wire
      <4>1. CASE j = k
        <5>1. i \in 0..n-1 /\ i \in Nat /\ i < n
          BY <2>2, <4>1
        <5>2. base + i \in QueryCells
          <6> DEFINE a == n * W
                     b == Tokens(c) * W
          <6>1. \A x \in Nat : x < b => x \in QueryCells
            BY <1>0, <2>1, CellsOfCall
          <6>2. base \in Nat /\ n \in Nat /\ n <= a /\ a \in Nat /\ base + a <= b /\ b \in Nat
            BY <2>2
          <6> HIDE DEF base, a, b, n
          <6> QED BY <5>1, <6>1, <6>2
        <5>3. base + i - base = i /\ base <= base + i /\ base + i < base + n
          <6> HIDE DEF base, n
          <6> QED BY <2>2, <5>1
        <5>4. rows[i] = Query(r, k * m + i, c, "exact")
          BY <4>0, <5>1
        <5> HIDE DEF base, rows, n
        <5>5. Put(query[r], base, n, rows)[base + i] = rows[i]
          <6> DEFINE x == base + i
          <6>1. x - base = i /\ base <= x /\ x < base + n /\ x \in QueryCells
            BY <2>2, <5>1, <5>2
          <6> HIDE DEF x
          <6>2. Put(query[r], base, n, rows)[x] = rows[x - base]
            BY <2>4, <6>1, PutCells
          <6> QED BY <6>1, <6>2 DEF x
        <5> QED BY <2>4, <3>2, <4>1, <5>4, <5>5 DEF base
      <4>2. CASE j # k
        <5>1. j \in started[r]..staged[r]-1 /\ j \in Nat /\ j < k /\ j \in 0..GathersIn(c)-1
          BY SMTT(30), <2>1, <2>3, <4>2
        <5> DEFINE p == (j * m) * W
        <5>2. query[r][p + i] = Query(r, j * m + i, c, "exact")
          BY <2>6, <3>2, <5>1 DEF Waiting
        <5>3. SizeOf(c, j) \in 1..m
          BY <1>0, <2>1, <5>1, ChunkFacts
        <5>4. p + m <= base /\ p \in Nat
          <6> DEFINE e == (j * m + m) * W
          <6>1. e <= base /\ p + m <= e /\ p \in Nat /\ base \in Nat
            BY <1>0, <2>1, <5>1, ChunksApart
          <6>2. e \in Int
            <7>1. j * m + m \in Int
              BY <2>2, <5>1
            <7> QED BY <7>1, WorkspaceSizes
          <6> HIDE DEF e, p, base, m
          <6> QED BY <2>2, <6>1, <6>2
        <5>5. i \in Nat /\ i < m
          BY <2>2, <5>3
        <5> HIDE DEF p
        <5>6. p + i < base /\ p + i \in Nat
          <6> HIDE DEF base, m
          <6> QED BY <2>2, <5>4, <5>5
        <5>7. p + i \in QueryCells
          <6> DEFINE b == Tokens(c) * W
                     a == n * W
          <6>1. \A x \in Nat : x < b => x \in QueryCells
            BY <1>0, <2>1, CellsOfCall
          <6>2. base \in Nat /\ a \in Nat /\ base + a <= b /\ b \in Nat
            BY <2>2
          <6> HIDE DEF base, a, b
          <6> QED BY <5>6, <6>1, <6>2
        <5> HIDE DEF base, rows, n
        <5>8. Put(query[r], base, n, rows)[p + i] = query[r][p + i]
          <6> DEFINE x == p + i
          <6>1. x \in QueryCells /\ ~(base <= x)
            BY <2>2, <5>6, <5>7
          <6> HIDE DEF x
          <6>2. Put(query[r], base, n, rows)[x] = query[r][x]
            BY <2>4, <6>1, PutCells
          <6> QED BY <6>2 DEF x
        <5> QED BY <2>4, <3>2, <5>2, <5>8 DEF p
      <4> QED BY <4>1, <4>2
    <3> QED BY <1>1, <2>5, <3>1, <3>2, TermsFixed DEF Waiting
  <2> QED BY <1>1, <1>2, <1>7, <2>1, <2>7, <2>8, <2>9 DEF ContentOf
<1> QED BY <1>6, <1>7

LEMMA AppendAny ==
  ASSUME NEW S, NEW q \in Seq(S), NEW x
  PROVE  /\ \E T : Append(q, x) \in Seq(T)
         /\ Len(q) \in Nat /\ Len(Append(q, x)) = Len(q) + 1
         /\ \A i \in 1..Len(q) : Append(q, x)[i] = q[i]
         /\ Append(q, x)[Len(q) + 1] = x
<1> DEFINE T == S \cup {x}
<1>1. q \in Seq(T) /\ x \in T
  OBVIOUS
<1> HIDE DEF T
<1>2. Append(q, x) \in Seq(T)
  BY <1>1
<1>3. /\ Len(q) \in Nat /\ Len(Append(q, x)) = Len(q) + 1
      /\ \A i \in 1..Len(q) : Append(q, x)[i] = q[i]
      /\ Append(q, x)[Len(q) + 1] = x
  BY <1>1
<1> QED BY <1>2, <1>3

\* Where the gathers of a call are among those of all calls.
LEMMA GatherPlace ==
  ASSUME WorkspaceTypeOK, NEW c \in 1..Len(program), NEW d \in 1..Len(program),
         NEW k \in 0..GathersIn(c)-1, NEW j \in Nat, c < d \/ (c = d /\ k < j)
  PROVE  GathersTo[c-1] + k + 1 \in 1..GathersTo[d-1] + j
<1> DEFINE x == GathersTo[c-1]
           y == GathersTo[c]
           z == GathersTo[d-1]
           n == GathersIn(c)
<1>1. Len(program) \in Nat /\ n \in Nat
  BY RunFacts, GathersFacts
<1>2. /\ x \in Nat /\ z \in Nat /\ y = x + n
      /\ c < d => y <= z
  <2>1. c-1 \in 0..Len(program) /\ d-1 \in 0..Len(program) /\ c \in 0..Len(program)
        /\ (c < d => c <= d-1)
    BY <1>1
  <2> QED BY <2>1, GathersToFacts
<1>3. c = d => x = z
  OBVIOUS
<1> HIDE DEF x, y, z, n
<1>4. CASE c < d
  <2>1. y <= z /\ k \in 0..n-1
    BY <1>2, <1>4 DEF n
  <2>2. x + k + 1 \in 1..z + j
    BY <1>1, <1>2, <2>1
  <2> QED BY <2>2 DEF x, z
<1>5. CASE c = d /\ k < j
  <2>1. x = z /\ k \in 0..n-1
    BY <1>3, <1>5 DEF n
  <2>2. x + k + 1 \in 1..z + j
    BY <1>1, <1>2, <1>5, <2>1
  <2> QED BY <2>2 DEF x, z
<1> QED BY <1>4, <1>5

LEMMA GatherStartInv ==
  ASSUME WorkspaceInv, NEW r \in Ranks, GatherStart(r), NEW s \in Ranks
  PROVE  GathersSentBy(s)' /\ EntriesSentBy(s)' /\ ContentOf(s)'
<1> DEFINE c == call[r]
           k == started[r]
           m == PerChunk
           sent == IF mode = "fp8" THEN staging[r]
                   ELSE [i \in 0..Size(r, k)-1 |-> query[r][StageAt(r, k) + i]]
<1>0. PositionInv /\ WorkspaceTypeOK /\ GathersSentBy(s) /\ EntriesSentBy(s) /\ ContentOf(s)
  BY DEF WorkspaceInv, PositionInv
<1>1. /\ mode' = mode /\ program' = program /\ entered' = entered
      /\ scratch' = scratch /\ output' = output /\ query' = query /\ staging' = staging
      /\ call' = call /\ doing' = doing
      /\ staged' = staged /\ finished' = finished /\ placed' = placed
      /\ started' = [started EXCEPT ![r] = k + 1]
      /\ gathers' = [gathers EXCEPT ![r] = Append(@, sent)]
      /\ k < staged[r] /\ finished[r] = k
  BY DEF GatherStart, memory
<1>2. EntriesSentBy(s)'
  BY <1>0, <1>1, EntriesElsewhere, EntriesDoneFixed
<1>3. CASE s # r
  <2>1. started'[s] = started[s] /\ gathers'[s] = gathers[s]
    BY <1>0, <1>1, <1>3 DEF WorkspaceTypeOK
  <2> QED BY <1>0, <1>1, <1>2, <2>1, GathersElsewhere, ContentElsewhere
<1>4. CASE s = r
  <2>1. /\ doing[r] = "gather" /\ c \in 1..Len(program) /\ c > 0 /\ IsQuery(c) /\ k \in Nat
        /\ GathersIn(c) \in Nat /\ k \in 0..GathersIn(c)-1 /\ staged[r] \in Nat
        /\ placed[r] \in Nat
    <3>1. /\ k \in Nat /\ staged[r] \in Nat /\ placed[r] \in Nat
          /\ placed[r] <= finished[r] /\ finished[r] <= k
      BY <1>0, RankFacts
    <3>2. doing[r] = "gather"
      BY <1>0, <1>1, <3>1, Staging
    <3>3. /\ c \in 1..Len(program) /\ c > 0 /\ IsQuery(c) /\ GathersIn(c) \in Nat
          /\ staged[r] <= GathersIn(c)
      BY <1>0, <3>2, Gathering
    <3> QED BY <1>1, <3>1, <3>2, <3>3
  <2>2. started'[r] = k + 1 /\ gathers'[r] = Append(gathers[r], sent)
    BY <1>0, <1>1 DEF WorkspaceTypeOK
  <2>3. PerChunk' = m /\ Wire' = Wire /\ GathersTo' = GathersTo
    BY <1>1, LayoutFixed
  <2>4. InPlace(r) /\ Waiting(r) /\ Received(r)
    BY <1>0, <1>4, <2>1 DEF ContentOf
  <2>5. sent = GatherOf(r, c, k)
    <3>0. k \in started[r]..staged[r]-1
      BY <1>1, <2>1
    <3>1. CASE mode = "fp8"
      BY <2>4, <3>0, <3>1 DEF Waiting
    <3>2. CASE mode # "fp8"
      <4>1. Wire = "exact"
        BY <3>2 DEF Wire
      <4>2. Size(r, k) = SizeOf(c, k) /\ StageAt(r, k) = (k * m) * W
        BY <1>0, LayoutFacts
      <4>3. \A i \in 0..SizeOf(c, k)-1 :
              query[r][(k * m) * W + i] = Query(r, k * m + i, c, "exact")
        BY <2>4, <3>0, <3>2 DEF Waiting
      <4> QED BY <3>2, <4>1, <4>2, <4>3 DEF GatherOf
    <3> QED BY <3>1, <3>2
  <2> HIDE DEF sent
  <2>6. GathersSentBy(r)'
    <3>1. PICK S : gathers[r] \in Seq(S)
      BY <1>0, <1>4 DEF GathersSentBy
    <3> DEFINE n == Len(gathers[r])
               new == Append(gathers[r], sent)
    <3>2. /\ \E T : new \in Seq(T)
          /\ n \in Nat /\ Len(new) = n + 1 /\ new[n + 1] = sent
          /\ \A i \in 1..n : new[i] = gathers[r][i]
      BY ZenonT(60), <3>1, AppendAny
    <3>3. n = GathersTo[c-1] + k
      BY <1>0, <1>4, <2>1 DEF GathersSentBy
    <3>4. GathersTo[c-1] \in Nat
      BY <1>0, <2>1, GathersToFacts
    <3> HIDE DEF new
    <3>5. Len(new) = GathersTo[c-1] + (k + 1)
      <4> HIDE DEF n
      <4> QED BY <2>1, <3>2, <3>3, <3>4
    <3>6. ASSUME NEW x \in 1..c, NEW j \in 0..GathersIn(x)-1, x < c \/ j < k + 1
          PROVE  new[GathersTo[x - 1] + j + 1] = GatherOf(r, x, j)
      <4>1. CASE x < c \/ j < k
        <5>1. x \in 1..Len(program) /\ (x < c \/ (x = c /\ j < k))
          BY <1>0, <2>1, <4>1, RunFacts
        <5>2. GathersTo[x-1] + j + 1 \in 1..GathersTo[c-1] + k
          BY <1>0, <2>1, <5>1, GatherPlace
        <5>3. gathers[r][GathersTo[x - 1] + j + 1] = GatherOf(r, x, j)
          BY <1>0, <1>4, <4>1 DEF GathersSentBy
        <5> QED BY <3>2, <3>3, <5>2, <5>3
      <4>2. CASE ~(x < c \/ j < k)
        <5>1. x = c /\ j = k
          <6>1. x = c
            BY <2>1, <4>2
          <6> QED BY <2>1, <3>6, <4>2, <6>1
        <5>2. new[n + 1] = GatherOf(r, c, k)
          BY <2>5, <3>2
        <5> QED BY <3>3, <5>1, <5>2
      <4> QED BY <4>1, <4>2
    <3>7. /\ call'[r] = c /\ started'[r] = k + 1 /\ gathers'[r] = new
      BY <1>1, <2>2 DEF new
    <3>8. \A x, j : GathersIn(x)' = GathersIn(x) /\ GatherOf(r, x, j)' = GatherOf(r, x, j)
      BY <1>1, TermsFixed
    <3>9. \E T : gathers'[r] \in Seq(T)
      BY <3>2, <3>7
    <3>10. Len(gathers'[r]) = IF call'[r] = 0 THEN 0 ELSE GathersTo[call'[r] - 1] + started'[r]
      BY <2>1, <3>5, <3>7
    <3> HIDE DEF c, k, n
    <3> QED BY <2>3, <3>6, <3>7, <3>8, <3>9, <3>10 DEF GathersSentBy
  <2>7. ContentOf(r)'
    <3>1. InPlace(r)'
      BY <1>1, <2>3, <2>4, TermsFixed DEF InPlace
    <3>2. Received(r)'
      BY <1>1, <2>3, <2>4, TermsFixed DEF Received
    <3>3. \A j \in started'[r]..staged'[r]-1 : j \in started[r]..staged[r]-1
      BY <1>1, <2>1, <2>2
    <3>4. Waiting(r)'
      <4>1. /\ mode' = mode /\ call'[r] = c /\ query'[r] = query[r] /\ staging'[r] = staging[r]
            /\ \A j : GatherOf(r, c, j)' = GatherOf(r, c, j) /\ SizeOf(c, j)' = SizeOf(c, j)
        BY <1>1, TermsFixed
      <4>2. ASSUME NEW j \in started'[r]..staged'[r]-1
            PROVE  /\ mode = "fp8" => staging[r] = GatherOf(r, c, j)
                   /\ mode # "fp8" =>
                        \A i \in 0..SizeOf(c, j)-1 :
                          query[r][(j * m) * W + i] = Query(r, j * m + i, c, "exact")
        BY <2>4, <3>3 DEF Waiting
      <4> HIDE DEF c, m
      <4> QED BY <2>3, <4>1, <4>2 DEF Waiting, c, m
    <3> QED BY <1>1, <2>1, <3>1, <3>2, <3>4 DEF ContentOf
  <2> QED BY <1>2, <1>4, <2>6, <2>7
<1> QED BY <1>3, <1>4

LEMMA GatherFinishInv ==
  ASSUME WorkspaceInv, NEW r \in Ranks, GatherFinish(r), NEW s \in Ranks
  PROVE  GathersSentBy(s)' /\ EntriesSentBy(s)' /\ ContentOf(s)'
<1> DEFINE c == call[r]
           k == finished[r]
           m == PerChunk
           n == SizeOf(c, k)
           last == Len(gathers[r])
           base == SlotAt(r, k)
           block == [i \in 0..n*W-1 |-> gathers[i \div n][last][i % n]]
<1>0. PositionInv /\ WorkspaceTypeOK /\ GathersSentBy(s) /\ EntriesSentBy(s) /\ ContentOf(s)
  BY DEF WorkspaceInv, PositionInv
<1>1. /\ mode' = mode /\ program' = program /\ entered' = entered /\ gathers' = gathers
      /\ output' = output /\ query' = query /\ staging' = staging
      /\ call' = call /\ doing' = doing
      /\ staged' = staged /\ started' = started /\ placed' = placed
      /\ finished' = [finished EXCEPT ![r] = k + 1]
      /\ k < started[r] /\ \A o \in Ranks : Len(gathers[o]) >= last
  BY DEF GatherFinish
<1>2. Size(r, k) = n
  BY <1>0, LayoutFacts
<1>3. scratch' = [scratch EXCEPT ![r] = Put(@, base, n * W, block)]
  BY <1>2 DEF GatherFinish
<1>4. GathersSentBy(s)' /\ EntriesSentBy(s)'
  BY <1>0, <1>1, GathersElsewhere, EntriesElsewhere, EntriesDoneFixed
<1>5. CASE s # r
  <2>1. finished'[s] = finished[s] /\ scratch'[s] = scratch[s]
    BY <1>0, <1>1, <1>3, <1>5 DEF WorkspaceTypeOK
  <2> QED BY <1>0, <1>1, <1>4, <2>1, ContentElsewhere
<1>6. CASE s = r
  <2>1. /\ k \in Nat /\ staged[r] \in Nat /\ placed[r] \in Nat /\ started[r] = k + 1
        /\ placed[r] <= k /\ k < staged[r]
    BY <1>0, <1>1, RankFacts
  <2>2. /\ doing[r] = "gather" /\ c \in 1..Len(program) /\ c > 0 /\ IsQuery(c)
        /\ GathersIn(c) \in Nat /\ k \in 0..GathersIn(c)-1 /\ k < placed[r] + Depth
        /\ Depth \in {1, 2}
    <3>1. doing[r] = "gather"
      BY <1>0, <2>1, Staging
    <3>2. /\ c \in 1..Len(program) /\ c > 0 /\ IsQuery(c) /\ GathersIn(c) \in Nat
          /\ staged[r] <= GathersIn(c) /\ staged[r] <= placed[r] + Depth /\ Depth \in {1, 2}
      BY <1>0, <3>1, Gathering, RunFacts
    <3> QED BY <2>1, <3>1, <3>2
  <2>3. finished'[r] = k + 1 /\ scratch'[r] = Put(scratch[r], base, n * W, block)
        /\ DOMAIN scratch[r] = ScratchCells
    BY <1>0, <1>1, <1>3 DEF WorkspaceTypeOK
  <2>4. PerChunk' = m /\ Wire' = Wire
    BY <1>1, LayoutFixed
  <2>5. InPlace(r) /\ Waiting(r) /\ Received(r)
    BY <1>0, <1>6, <2>2 DEF ContentOf
  <2>6. ASSUME NEW o \in Ranks PROVE gathers[o][last] = GatherOf(o, c, k)
    <3>1. last = GathersTo[c-1] + started[r] /\ started[r] > 0 /\ started[r] - 1 = k
      BY <1>0, <1>6, <2>1, <2>2 DEF GathersSentBy
    <3>2. Len(gathers[o]) >= GathersTo[c-1] + started[r] /\ GathersSentBy(o)
      BY <1>1, <3>1 DEF WorkspaceInv
    <3>3. gathers[o][GathersTo[c-1] + started[r]] = GatherOf(o, c, started[r] - 1)
      BY <1>0, <2>2, <3>1, <3>2, GatherArrived
    <3> QED BY <3>1, <3>3
  <2>7. ASSUME NEW o \in Ranks, NEW t \in 0..n-1
        PROVE  block[o * n + t] = Query(o, k * m + t, c, Wire) /\ o * n + t \in 0..n*W-1
    <3>1. o * n + t \in 0..n*W-1 /\ (o * n + t) \div n = o /\ (o * n + t) % n = t
      BY <1>0, <2>2, <2>7, SlotCell
    <3>2. GatherOf(o, c, k)[t] = Query(o, k * m + t, c, Wire)
      BY DEF GatherOf
    <3>3. gathers[o][last] = GatherOf(o, c, k)
      BY <2>6
    <3> DEFINE i == o * n + t
    <3>4. block[i] = gathers[i \div n][last][i % n]
      BY <3>1
    <3> HIDE DEF block
    <3> QED BY <3>1, <3>2, <3>3, <3>4
  <2> HIDE DEF block, last
  <2>8. /\ base \in Nat /\ n * W \in Nat
        /\ \A i \in 0..n*W-1 : /\ base + i \in ScratchCells /\ base <= base + i
                               /\ base + i < base + n * W /\ (base + i) - base = i
    BY <1>0, <2>2, SlotInside
  <2>9. Received(r)'
    <3>1. ASSUME NEW j \in placed[r]..finished'[r]-1, NEW o \in Ranks,
                 NEW t \in 0..SizeOf(c, j)-1
          PROVE  scratch'[r][SlotAt(r, j) + (o * SizeOf(c, j) + t)]
                   = Query(o, j * m + t, c, Wire)
      <4>1. CASE j = k
        <5> DEFINE i == o * n + t
                   x == base + i
        <5>1. i \in 0..n*W-1 /\ block[i] = Query(o, k * m + t, c, Wire)
          BY <2>7, <4>1
        <5>2. x \in ScratchCells /\ base <= x /\ x < base + n * W /\ x - base = i
          <6> HIDE DEF i, base
          <6> QED BY <2>8, <5>1
        <5> HIDE DEF x, base
        <5>3. Put(scratch[r], base, n * W, block)[x] = block[x - base]
          BY <2>3, <5>2, PutCells
        <5>4. scratch'[r][x] = Query(o, k * m + t, c, Wire)
          BY <2>3, <5>1, <5>2, <5>3
        <5> QED BY <4>1, <5>4 DEF x, base
      <4>2. CASE j # k
        <5>1. /\ j \in placed[r]..finished[r]-1 /\ j \in Nat /\ j < k
              /\ j \in 0..GathersIn(c)-1 /\ k < j + Depth
          <6> DEFINE N == GathersIn(c)
          <6>1. /\ k \in 0..N-1 /\ k < placed[r] + Depth /\ Depth \in {1, 2} /\ N \in Nat
                /\ placed[r] \in Nat /\ j \in placed[r]..k /\ j # k
            BY <2>1, <2>2, <2>3, <4>2
          <6> HIDE DEF k, c, N
          <6>2. /\ j \in placed[r]..k-1 /\ j \in Nat /\ j < k
                /\ j \in 0..N-1 /\ k < j + Depth
            BY <6>1
          <6> QED BY <6>2 DEF k, N
        <5> DEFINE l == SizeOf(c, j)
                   i == o * l + t
                   p == SlotAt(r, j)
                   x == p + i
                   a == l * W
                   b == n * W
                   e == m * W
        <5>2. scratch[r][x] = Query(o, j * m + t, c, Wire)
          BY <2>5, <5>1 DEF Received
        <5>3. i \in 0..a-1
          BY <1>0, <2>2, <5>1, SlotCell
        <5>4. x \in ScratchCells /\ p <= x /\ x < p + a /\ p \in Nat /\ a \in Nat
          <6>1. \A y \in 0..a-1 : /\ p + y \in ScratchCells /\ p <= p + y
                                  /\ p + y < p + a /\ p \in Nat /\ a \in Nat
            BY <1>0, <2>2, <5>1, SlotInside
          <6> HIDE DEF i, p, a
          <6> QED BY <5>3, <6>1
        <5>5. p + e <= base \/ base + e <= p
          <6>1. SlotAt(r, j) = (j % Depth) * PerChunk * W /\ SlotAt(r, k) = (k % Depth) * PerChunk * W
            BY <1>0, LayoutFacts
          <6> QED BY <1>0, <2>1, <5>1, <6>1, SlotsApart
        <5>6. a <= e /\ b <= e /\ a \in Nat /\ b \in Nat /\ e \in Nat
          BY <1>0, <2>2, <5>1, ChunkCells
        <5>7. x \in Int /\ base \in Nat
          BY <2>8, <5>1, <5>3, <5>4
        <5> HIDE DEF x, p, a, b, e, base
        <5>8. ~(base <= x /\ x < base + b)
          BY <5>4, <5>5, <5>6, <5>7
        <5>9. Put(scratch[r], base, b, block)[x] = scratch[r][x]
          BY <2>3, <5>4, <5>8, PutCells
        <5>10. scratch'[r][x] = Query(o, j * m + t, c, Wire)
          BY <2>3, <5>2, <5>9 DEF b
        <5> QED BY <5>10 DEF x, p
      <4> QED BY <4>1, <4>2
    <3>2. \A x, j : SizeOf(x, j)' = SizeOf(x, j) /\ SlotAt(r, j)' = SlotAt(r, j)
      BY <1>1, TermsFixed
    <3> QED BY SMTT(30), <1>1, <2>4, <3>1, <3>2 DEF Received
  <2>10. InPlace(r)'
    <3>1. /\ \A x : Tokens(x)' = Tokens(x)
          /\ \A o, q, t, x : SeenBy(o, q, t, x)' = SeenBy(o, q, t, x)
      BY <1>1, TermsFixed
    <3> QED BY <1>1, <2>4, <2>5, <3>1 DEF InPlace
  <2>11. Waiting(r)'
    <3>1. /\ \A x, j : SizeOf(x, j)' = SizeOf(x, j)
          /\ \A o, x, j : GatherOf(o, x, j)' = GatherOf(o, x, j)
      BY <1>1, TermsFixed
    <3> QED BY <1>1, <2>4, <2>5, <3>1 DEF Waiting
  <2> QED BY <1>1, <1>4, <1>6, <2>2, <2>9, <2>10, <2>11 DEF ContentOf
<1> QED BY <1>5, <1>6

LEMMA PlaceInv ==
  ASSUME WorkspaceInv, NEW r \in Ranks, Place(r), NEW s \in Ranks
  PROVE  GathersSentBy(s)' /\ EntriesSentBy(s)' /\ ContentOf(s)'
<1> DEFINE c == call[r]
           k == placed[r]
           m == PerChunk
           n == SizeOf(c, k)
           base == (k * m) * W
           slot == SlotAt(r, k)
           Cell(o, t) == IF mode = "fp8" /\ o = r THEN Query(r, k * m + t, c, "exact")
                         ELSE scratch[r][slot + o * n + t]
           block == [i \in 0..n*W-1 |-> Cell(i % W, i \div W)]
<1>0. PositionInv /\ WorkspaceTypeOK /\ GathersSentBy(s) /\ EntriesSentBy(s) /\ ContentOf(s)
  BY DEF WorkspaceInv, PositionInv
<1>1. /\ mode' = mode /\ program' = program /\ entered' = entered /\ gathers' = gathers
      /\ output' = output /\ scratch' = scratch /\ staging' = staging
      /\ call' = call /\ staged' = staged /\ started' = started /\ finished' = finished
      /\ placed' = [placed EXCEPT ![r] = k + 1]
      /\ doing' = [doing EXCEPT ![r] = IF k + 1 = Chunks(r) THEN "attend" ELSE "gather"]
      /\ MayPlace(r)
  BY DEF Place, comm
<1>2. Size(r, k) = n /\ Start(r, k) = k * m
  BY <1>0, LayoutFacts
<1>3. query' = [query EXCEPT ![r] = Put(@, base, n * W, block)]
  BY <1>2 DEF Place
<1>4. GathersSentBy(s)'
  BY <1>0, <1>1, GathersElsewhere
<1>5. CASE s # r
  <2>1. placed'[s] = placed[s] /\ query'[s] = query[s] /\ doing'[s] = doing[s]
    BY <1>0, <1>1, <1>3, <1>5 DEF WorkspaceTypeOK
  <2>2. EntriesDone(s)' = EntriesDone(s)
    BY <1>1, <2>1, EntriesDoneFixed
  <2> QED BY <1>0, <1>1, <1>4, <2>1, <2>2, ContentElsewhere, EntriesElsewhere
<1>6. CASE s = r
  <2>1. /\ k \in Nat /\ staged[r] \in Nat /\ started[r] \in Nat /\ finished[r] \in Nat
        /\ k < finished[r] /\ finished[r] <= started[r] /\ started[r] <= staged[r]
        /\ doing[r] = "gather"
    BY <1>0, <1>1, RankFacts DEF MayPlace
  <2>2. /\ c \in 1..Len(program) /\ c > 0 /\ IsQuery(c)
        /\ GathersIn(c) \in Nat /\ k \in 0..GathersIn(c)-1
        /\ staged[r] <= GathersIn(c)
    <3>1. /\ c \in 1..Len(program) /\ c > 0 /\ IsQuery(c) /\ GathersIn(c) \in Nat
          /\ staged[r] <= GathersIn(c) /\ k < GathersIn(c)
      BY <1>0, <2>1, Gathering
    <3> QED BY <2>1, <3>1
  <2>3. /\ placed'[r] = k + 1 /\ query'[r] = Put(query[r], base, n * W, block)
        /\ DOMAIN query[r] = QueryCells /\ doing'[r] \in {"attend", "gather"}
    BY <1>0, <1>1, <1>3 DEF WorkspaceTypeOK
  <2>4. PerChunk' = m /\ Wire' = Wire
    BY <1>1, LayoutFixed
  <2>5. InPlace(r) /\ Waiting(r) /\ Received(r)
    BY <1>0, <1>6, <2>1 DEF ContentOf
  <2>6. EntriesSentBy(r)'
    <3>1. EntriesDone(r)' = EntriesDone(r)
      BY <2>1, <2>3 DEF EntriesDone
    <3> QED BY <1>0, <1>1, <1>6, <3>1, EntriesElsewhere
  <2>7. ASSUME NEW q \in Ranks, NEW u \in 0..n-1
        PROVE  block[u * W + q] = SeenBy(r, q, k * m + u, c) /\ u * W + q \in 0..n*W-1
    <3>1. u * W + q \in 0..n*W-1 /\ (u * W + q) \div W = u /\ (u * W + q) % W = q
      BY <1>0, <2>2, SlotCell
    <3>2. Cell(q, u) = SeenBy(r, q, k * m + u, c)
      <4>1. scratch[r][slot + (q * n + u)] = Query(q, k * m + u, c, Wire)
        <5>1. k \in placed[r]..finished[r]-1
          BY <2>1
        <5> QED BY <2>5, <5>1 DEF Received
      <4>2. slot + q * n + u = slot + (q * n + u)
        <5>1. slot \in Nat /\ n \in Nat /\ q \in Nat /\ u \in Nat
          <6>1. slot \in Nat
            BY <1>0, <2>2, SlotInside
          <6>2. n \in 1..m /\ m \in Nat
            BY SMTT(30), <1>0, <2>2, ChunkFacts, RunFacts, WorkspaceSizes
          <6>3. q \in Nat
            BY WorkspaceSizes
          <6> QED BY <6>1, <6>2, <6>3
        <5> HIDE DEF slot, n
        <5> QED BY <5>1
      <4>3. CASE mode = "fp8" /\ q = r
        BY <4>3 DEF SeenBy
      <4>4. CASE ~(mode = "fp8" /\ q = r)
        <5>1. Cell(q, u) = Query(q, k * m + u, c, Wire)
          BY <4>1, <4>2, <4>4
        <5>2. SeenBy(r, q, k * m + u, c) = Query(q, k * m + u, c, Wire)
          BY <4>4 DEF SeenBy, Wire
        <5> QED BY <5>1, <5>2
      <4> QED BY <4>3, <4>4
    <3> DEFINE i == u * W + q
    <3>3. block[i] = Cell(i % W, i \div W)
      BY <3>1
    <3> HIDE DEF block, Cell
    <3> QED BY <3>1, <3>2, <3>3
  <2> HIDE DEF block
  <2>8. /\ base \in Nat /\ n * W \in Nat /\ n * W <= m * W /\ m * W \in Nat /\ n \in 1..m
        /\ m \in Nat /\ k * m \in Nat /\ k * m + n <= Tokens(c)
        /\ base + n * W <= Tokens(c) * W /\ Tokens(c) * W \in Nat /\ Tokens(c) \in Nat
    <3>1. n \in 1..m /\ k * m \in Nat /\ k * m + n <= Tokens(c)
      BY <1>0, <2>2, ChunkFacts
    <3>2. m \in Nat
      BY <1>0, RunFacts, WorkspaceSizes
    <3>3. /\ base \in Nat /\ n * W \in Nat /\ n * W <= m * W /\ m * W \in Nat
          /\ base + n * W <= Tokens(c) * W /\ Tokens(c) * W \in Nat
      BY <1>0, <2>2, ChunkCells
    <3>4. Tokens(c) \in Nat
      BY <1>0, <2>2, CellsOfCall
    <3> QED BY <3>1, <3>2, <3>3, <3>4
  <2>9. InPlace(r)'
    <3>1. ASSUME NEW q \in Ranks, NEW t \in 0..Tokens(c)-1, t < placed'[r] * m
          PROVE  query'[r][t * W + q] = SeenBy(r, q, t, c)
      <4> DEFINE x == t * W + q
      <4>1. x \in QueryCells /\ x \in Nat /\ t \in Nat
        <5>1. x \in QueryCells
          BY <1>0, <2>2, CellsFit
        <5>2. x \in 0..Tokens(c)*W-1
          BY <1>0, <2>2, CellFacts
        <5> HIDE DEF x
        <5> QED BY <2>8, <5>1, <5>2
      <4>2. CASE t < k * m
        <5>1. query[r][x] = SeenBy(r, q, t, c)
          BY <2>5, <4>2 DEF InPlace
        <5>2. x < base
          BY <1>0, <2>1, <4>1, <4>2, RowBefore
        <5> HIDE DEF x, base
        <5>3. ~(base <= x)
          BY <2>8, <4>1, <5>2
        <5>4. Put(query[r], base, n * W, block)[x] = query[r][x]
          BY <2>3, <4>1, <5>3, PutCells
        <5> QED BY <2>3, <5>1, <5>4 DEF x
      <4>3. CASE ~(t < k * m)
        <5> DEFINE u == t - k * m
                   i == u * W + q
        <5>1. u \in 0..n-1 /\ t = k * m + u
          <6>1. (k + 1) * m = k * m + m
            BY <2>1, <2>8
          <6>2. t < k * m + m
            BY <2>3, <3>1, <6>1
          <6>3. t < k * m + n
            <7>1. CASE k + 1 = GathersIn(c)
              <8>1. k * m + n = Tokens(c)
                BY <1>0, <2>2, <7>1, ChunkFacts
              <8> QED BY <2>8, <8>1
            <7>2. CASE k + 1 # GathersIn(c)
              <8>1. k + 1 < GathersIn(c)
                BY <2>2, <7>2
              <8>2. k * m + n = (k + 1) * m
                BY <1>0, <2>2, <8>1, ChunkFacts
              <8> QED BY <6>1, <6>2, <8>2
            <7> QED BY <7>1, <7>2
          <6> DEFINE a == k * m
          <6>4. a \in Nat /\ t < a + n /\ ~(t < a) /\ n \in Nat
            BY <2>8, <4>3, <6>3
          <6> HIDE DEF a, n
          <6>5. t - a \in 0..n-1 /\ t = a + (t - a)
            BY <4>1, <6>4
          <6> QED BY <6>5 DEF a
        <5>2. block[i] = SeenBy(r, q, t, c) /\ i \in 0..n*W-1
          BY <2>7, <5>1
        <5>3. x = base + i
          <6> DEFINE a == k * m
          <6>1. a \in Nat /\ u \in Nat /\ q \in Nat /\ W \in Nat /\ t = a + u
            BY SMTT(30), <2>8, <5>1, WorkspaceSizes
          <6> HIDE DEF a, u
          <6>2. (a + u) * W + q = a * W + (u * W + q)
            BY <6>1
          <6> QED BY <6>1, <6>2 DEF a
        <5> DEFINE b == n * W
        <5>4. x - base = i /\ base <= x /\ x < base + b
          <6>1. base \in Nat /\ b \in Nat /\ i \in 0..b-1
            BY <2>8, <5>2
          <6> HIDE DEF x, base, i, b
          <6> QED BY <5>3, <6>1
        <5> HIDE DEF x, base, i, b
        <5>5. Put(query[r], base, b, block)[x] = block[x - base]
          BY <2>3, <4>1, <5>4, PutCells
        <5>6. query'[r][x] = SeenBy(r, q, t, c)
          BY <2>3, <5>2, <5>4, <5>5 DEF b
        <5> QED BY <5>6 DEF x
      <4> QED BY <4>2, <4>3
    <3> QED BY <1>1, <2>4, <3>1, TermsFixed DEF InPlace
  <2>10. Waiting(r)'
    <3>1. ASSUME mode # "fp8", NEW j \in started[r]..staged[r]-1,
                 NEW i \in 0..SizeOf(c, j)-1
          PROVE  query'[r][(j * m) * W + i] = Query(r, j * m + i, c, "exact")
      <4> DEFINE p == (j * m) * W
                 x == p + i
      <4>1. j \in Nat /\ k < j /\ j \in 0..GathersIn(c)-1
        BY <2>1, <2>2
      <4>2. query[r][x] = Query(r, j * m + i, c, "exact")
        BY <2>5, <3>1 DEF Waiting
      <4>3. base + n * W <= p /\ p \in Nat
        <5> DEFINE e == (k * m + m) * W
                   a == n * W
                   b == m * W
        <5>1. e <= p /\ p \in Nat
          BY <1>0, <2>1, <4>1, ChunksApart
        <5>2. e = base + b
          BY SMTT(30), <2>8, WorkspaceSizes
        <5>3. a <= b /\ a \in Nat /\ b \in Nat /\ base \in Nat
          BY <2>8
        <5> HIDE DEF e, a, b, p, base
        <5>4. base + a <= p
          BY <5>1, <5>2, <5>3
        <5> QED BY <5>1, <5>4 DEF a
      <4>4. x \in QueryCells /\ i \in Nat
        <5> DEFINE a == SizeOf(c, j) * W
                   b == Tokens(c) * W
        <5>1. p + a <= b /\ b \in Nat /\ a \in Nat /\ SizeOf(c, j) <= a
          BY <1>0, <2>2, <4>1, ChunkCells
        <5>2. SizeOf(c, j) \in Nat
          <6>1. SizeOf(c, j) \in 1..m
            BY <1>0, <2>2, <4>1, ChunkFacts
          <6> QED BY <2>8, <6>1
        <5>3. \A y \in Nat : y < b => y \in QueryCells
          BY <1>0, <2>2, CellsOfCall
        <5> HIDE DEF a, b, p
        <5>4. p + i \in Nat /\ p + i < b /\ i \in Nat
          BY <4>3, <5>1, <5>2
        <5> QED BY <5>3, <5>4
      <4> DEFINE b == n * W
      <4>5. ~(x < base + b) /\ x \in Int
        <5>1. base \in Nat /\ b \in Nat /\ base + b <= p
          BY <2>8, <4>3
        <5> HIDE DEF base, b, p
        <5> QED BY <4>3, <4>4, <5>1
      <4> HIDE DEF x, base, b
      <4>6. Put(query[r], base, b, block)[x] = query[r][x]
        BY <2>3, <4>4, <4>5, PutCells
      <4> QED BY <2>3, <4>2, <4>6 DEF x, b
    <3>2. \A x, j : SizeOf(x, j)' = SizeOf(x, j)
      BY <1>1, TermsFixed
    <3>3. \A x, j : GatherOf(r, x, j)' = GatherOf(r, x, j)
      BY <1>1, TermsFixed
    <3> QED BY <1>1, <2>4, <2>5, <3>1, <3>2, <3>3 DEF Waiting
  <2>11. Received(r)'
    <3>1. \A j \in placed'[r]..finished'[r]-1 : j \in placed[r]..finished[r]-1
      BY <1>1, <2>1, <2>3
    <3>2. \A x, j : SizeOf(x, j)' = SizeOf(x, j) /\ SlotAt(r, j)' = SlotAt(r, j)
      BY <1>1, TermsFixed
    <3> QED BY <1>1, <2>4, <2>5, <3>1, <3>2 DEF Received
  <2> QED BY <1>4, <1>6, <2>3, <2>6, <2>9, <2>10, <2>11 DEF ContentOf
<1> QED BY <1>5, <1>6

-----------------------------------------------------------------------------
(* The steps that move the main stream on.                                 *)

LEMMA GotoOther ==
  ASSUME WorkspaceInv, NEW r \in Ranks, NEW next, Goto(r, next), NEW s \in Ranks, s # r,
         query'[s] = query[s], scratch'[s] = scratch[s], staging'[s] = staging[s],
         output'[s] = output[s], entered'[s] = entered[s]
  PROVE  GathersSentBy(s)' /\ EntriesSentBy(s)' /\ ContentOf(s)'
<1>0. WorkspaceTypeOK /\ GathersSentBy(s) /\ EntriesSentBy(s) /\ ContentOf(s)
  BY DEF WorkspaceInv, PositionInv
<1>1. /\ mode' = mode /\ program' = program /\ call'[s] = call[s] /\ doing'[s] = doing[s]
      /\ staged'[s] = staged[s] /\ started'[s] = started[s] /\ finished'[s] = finished[s]
      /\ placed'[s] = placed[s] /\ gathers'[s] = gathers[s]
  BY <1>0 DEF Goto, comm, WorkspaceTypeOK
<1>2. EntriesDone(s)' = EntriesDone(s)
  BY <1>1, EntriesDoneFixed
<1> QED BY <1>0, <1>1, <1>2, GathersElsewhere, EntriesElsewhere, ContentElsewhere

LEMMA GotoFacts ==
  ASSUME WorkspaceInv, NEW r \in Ranks, NEW next, Goto(r, next), doing[r] # "idle"
  PROVE  /\ mode' = mode /\ program' = program /\ call' = call
         /\ doing'[r] = next /\ GathersSentBy(r)'
         /\ call[r] > 0 /\ call[r] \in 1..Len(program)
         /\ WorkspaceTypeOK /\ EntriesSentBy(r) /\ ContentOf(r)
         /\ DOMAIN query = Ranks /\ DOMAIN scratch = Ranks /\ DOMAIN entered = Ranks
         /\ DOMAIN output = Ranks
         /\ DOMAIN query[r] = QueryCells /\ DOMAIN scratch[r] = ScratchCells
<1>0. /\ PositionInv /\ WorkspaceTypeOK /\ GathersSentBy(r) /\ EntriesSentBy(r)
      /\ ContentOf(r)
  BY DEF WorkspaceInv, PositionInv
<1>1. /\ mode' = mode /\ program' = program /\ call' = call /\ doing'[r] = next
      /\ started'[r] = started[r] /\ gathers'[r] = gathers[r]
  BY <1>0 DEF Goto, comm, WorkspaceTypeOK
<1>2. GathersSentBy(r)'
  BY <1>0, <1>1, GathersElsewhere
<1>3. call[r] > 0 /\ call[r] \in 1..Len(program)
  BY <1>0, InCall
<1> QED BY <1>0, <1>1, <1>2, <1>3 DEF WorkspaceTypeOK

\* A rank enters one more collective of its call.
LEMMA EntryAdded ==
  ASSUME WorkspaceTypeOK, mode' = mode, program' = program, call' = call,
         NEW r \in Ranks, EntriesSentBy(r), call[r] \in 1..Len(program),
         EntriesDone(r) \in Nat, EntriesDone(r)' = EntriesDone(r) + 1,
         EntriesDone(r) < EntriesIn(call[r]),
         NEW x, entered'[r] = Append(entered[r], x),
         EntriesDone(r)' = EntriesIn(call[r]) => x = Exchange(r, call[r])
  PROVE  EntriesSentBy(r)'
<1> DEFINE c == call[r]
           n == EntriesDone(r)
           l == Len(entered[r])
           new == Append(entered[r], x)
<1>1. PICK S : entered[r] \in Seq(S)
  BY DEF EntriesSentBy
<1>2. /\ \E T : new \in Seq(T)
      /\ l \in Nat /\ Len(new) = l + 1 /\ new[l + 1] = x
      /\ \A i \in 1..l : new[i] = entered[r][i]
  BY ZenonT(60), <1>1, AppendAny
<1>3. /\ c \in Nat /\ c > 0 /\ Len(program) \in Nat /\ EntriesIn(c) \in Nat
      /\ EntriesTo[c-1] \in Nat /\ EntriesTo[c] = EntriesTo[c-1] + EntriesIn(c)
  <2> DEFINE N == Len(program)
             f == EntriesTo
  <2>1. N \in Nat /\ c \in 1..N
    BY RunFacts
  <2>2. EntriesIn(c) \in Nat
    BY GathersFacts
  <2>3. /\ \A d \in 0..N : f[d] \in Nat
        /\ \A d \in 1..N : f[d] = f[d-1] + EntriesIn(d)
    BY EntriesToFacts
  <2> HIDE DEF c, N, f
  <2>4. c \in Nat /\ c > 0 /\ c-1 \in 0..N
    BY <2>1
  <2>5. f[c-1] \in Nat /\ f[c] = f[c-1] + EntriesIn(c)
    BY <2>1, <2>3, <2>4
  <2> QED BY <2>1, <2>2, <2>4, <2>5 DEF N, f
<1>4. l = EntriesTo[c-1] + n
  BY <1>3 DEF EntriesSentBy
<1> HIDE DEF new
<1> DEFINE a == EntriesTo[c-1]
           e == EntriesIn(c)
<1>12. /\ a \in Nat /\ e \in Nat /\ EntriesTo[c] = a + e /\ l = a + n /\ Len(new) = l + 1
       /\ n \in Nat
  BY <1>2, <1>3, <1>4
<1>13. /\ EntriesDone(r)' = n + 1 /\ n < EntriesIn(c)
       /\ n + 1 = EntriesIn(c) => x = Exchange(r, c)
  OBVIOUS
<1> HIDE DEF n
<1>5. Len(new) = a + (n + 1)
  <2> HIDE DEF a, e, l
  <2> QED BY <1>12
<1>6. ASSUME NEW d \in 1..c, d < c \/ n + 1 = EntriesIn(d)
      PROVE  new[EntriesTo[d]] = Exchange(r, d)
  <2>1. CASE d < c
    <3>1. entered[r][EntriesTo[d]] = Exchange(r, d)
      BY <2>1 DEF EntriesSentBy, n
    <3>2. /\ EntriesTo[d] = EntriesTo[d-1] + EntriesIn(d) /\ EntriesTo[d-1] \in Nat
          /\ EntriesTo[d] <= EntriesTo[c-1]
      <4>1. d \in 1..Len(program) /\ d-1 \in 0..Len(program) /\ c-1 \in 0..Len(program)
            /\ d \in 0..Len(program) /\ d <= c-1
        <5> DEFINE N == Len(program)
        <5>1. c \in 1..N /\ N \in Nat
          BY <1>3
        <5>2. d \in 1..c /\ d < c
          BY <2>1
        <5> HIDE DEF c, N
        <5>3. d \in 1..N /\ d-1 \in 0..N /\ c-1 \in 0..N /\ d \in 0..N /\ d <= c-1
          BY <5>1, <5>2
        <5> QED BY <5>3 DEF N
      <4> DEFINE N == Len(program)
      <4>2. /\ EntriesTo[d] = EntriesTo[d-1] + EntriesIn(d)
            /\ \A u \in 0..N : EntriesTo[u] \in Nat
            /\ \A u, v \in 0..N : u <= v => EntriesTo[u] <= EntriesTo[v]
        BY <4>1, EntriesToFacts
      <4> HIDE DEF c, N
      <4> QED BY <4>1, <4>2 DEF N
    <3>3. EntriesIn(d) \in {1, 2}
      BY DEF EntriesIn
    <3>4. EntriesTo[d] \in 1..l
      <4> DEFINE b == EntriesTo[d]
                 f == EntriesTo[d-1]
                 g == EntriesIn(d)
      <4>1. b = f + g /\ f \in Nat /\ b <= a /\ g \in {1, 2}
        BY <3>2, <3>3
      <4> HIDE DEF a, b, e, f, g, l
      <4>2. b \in 1..l
        BY <1>12, <4>1
      <4> QED BY <4>2 DEF b
    <3> QED BY <1>2, <3>1, <3>4
  <2>2. CASE ~(d < c)
    <3>1. d = c
      BY <1>3, <2>2
    <3>2. n + 1 = EntriesIn(c)
      BY <1>6, <2>2, <3>1
    <3>3. EntriesTo[c] = l + 1
      <4>1. n + 1 = e
        BY <3>2
      <4> HIDE DEF a, e, l, c
      <4> QED BY <1>12, <4>1
    <3> QED BY <1>2, <1>13, <3>1, <3>2, <3>3
  <2> QED BY <2>1, <2>2
<1>7. EntriesTo' = EntriesTo
  BY LayoutFixed
<1>8. \A d : EntriesIn(d)' = EntriesIn(d) /\ Exchange(r, d)' = Exchange(r, d)
  BY TermsFixed
<1>9. call'[r] = c /\ entered'[r] = new
  BY DEF new
<1>10. \E T : entered'[r] \in Seq(T)
  BY <1>2, <1>9
<1>11. Len(entered'[r]) = IF call'[r] = 0 THEN 0 ELSE EntriesTo[call'[r] - 1] + EntriesDone(r)'
  BY <1>3, <1>5, <1>9, <1>13
<1> HIDE DEF c, l
<1> QED BY <1>6, <1>7, <1>8, <1>9, <1>10, <1>11, <1>13 DEF EntriesSentBy

\* The cells from 0 on take the block.
LEMMA PutFirst ==
  ASSUME NEW mem, NEW n \in Nat, NEW block, NEW i \in 0..n-1, i \in DOMAIN mem
  PROVE  Put(mem, 0, n, block)[i] = block[i]
<1>1. i \in Nat /\ 0 <= i /\ i < 0 + n /\ i - 0 = i
  OBVIOUS
<1>2. Put(mem, 0, n, block)[i] = block[i - 0]
  BY <1>1, PutCells
<1> QED BY <1>1, <1>2

LEMMA AttendInv ==
  ASSUME WorkspaceInv, NEW r \in Ranks, Attend(r), NEW s \in Ranks
  PROVE  GathersSentBy(s)' /\ EntriesSentBy(s)' /\ ContentOf(s)'
<1> DEFINE c == call[r]
           T == Tokens(c)
           out == [i \in 0..T*W-1 |-> Partial(r, query[r][i])]
<1>1. Goto(r, "transpose") /\ doing[r] = "attend" /\ doing[r] # "idle"
  BY DEF Attend
<1>2. /\ mode' = mode /\ program' = program /\ call' = call /\ doing'[r] = "transpose"
      /\ GathersSentBy(r)' /\ c > 0 /\ c \in 1..Len(program)
      /\ WorkspaceTypeOK /\ EntriesSentBy(r) /\ ContentOf(r)
      /\ DOMAIN scratch = Ranks /\ DOMAIN scratch[r] = ScratchCells
  BY <1>1, GotoFacts
<1>3. CallRows(r) = T
  BY <1>2, LayoutFacts
<1>4. /\ scratch' = [scratch EXCEPT ![r] = Put(@, 0, T * W, out)]
      /\ entered' = entered /\ query' = query /\ staging' = staging /\ output' = output
  BY <1>3 DEF Attend
<1>5. CASE s # r
  <2>1. scratch'[s] = scratch[s]
    BY <1>2, <1>4, <1>5
  <2> QED BY <1>1, <1>4, <1>5, <2>1, GotoOther
<1>6. CASE s = r
  <2>1. EntriesSentBy(r)'
    <3>1. EntriesDone(r)' = EntriesDone(r)
      BY <1>1, <1>2 DEF EntriesDone
    <3> QED BY <1>2, <1>4, <3>1, EntriesElsewhere
  <2>2. ASSUME NEW q \in Ranks, NEW t \in 0..T-1
        PROVE  scratch'[r][t * W + q] = Partial(r, SeenBy(r, q, t, c))
    <3> DEFINE i == t * W + q
    <3>1. query[r][i] = SeenBy(r, q, t, c)
      <4>1. IsQuery(c) /\ placed[r] = GathersIn(c)
        BY <1>1, <1>2 DEF WorkspaceInv, PositionInv, PositionOf, QueryPlaces
      <4>2. T <= placed[r] * PerChunk
        BY <1>2, <4>1, GathersFacts
      <4>3. t < placed[r] * PerChunk
        <5>1. T \in Nat /\ PerChunk \in Nat /\ placed[r] \in Nat
          <6>1. T \in Nat
            BY <1>2, CellsOfCall
          <6>2. PerChunk \in Nat
            BY <1>2, RunFacts, WorkspaceSizes
          <6>3. placed[r] \in Nat
            BY <1>2, RankFacts
          <6> QED BY <6>1, <6>2, <6>3
        <5>2. placed[r] * PerChunk \in Nat
          BY <5>1, ProductMonotone
        <5> QED BY <4>2, <5>1, <5>2
      <4>4. InPlace(r)
        BY <1>1, <1>2 DEF ContentOf
      <4> QED BY <4>3, <4>4 DEF InPlace
    <3>2. i \in 0..T*W-1 /\ i \in ScratchCells /\ T * W \in Nat
      BY <1>2, CellFacts, CellsFit, CellsOfCall
    <3>3. out[i] = Partial(r, SeenBy(r, q, t, c))
      BY <3>1, <3>2
    <3> HIDE DEF i, out
    <3>4. Put(scratch[r], 0, T * W, out)[i] = out[i]
      BY <1>2, <3>2, PutFirst
    <3>5. scratch'[r][i] = Partial(r, SeenBy(r, q, t, c))
      BY <1>2, <1>4, <3>3, <3>4
    <3> QED BY <3>5 DEF i
  <2>3. Attended(r)'
    <3>1. /\ \A x : Tokens(x)' = Tokens(x)
          /\ \A o, q, t, x : SeenBy(o, q, t, x)' = SeenBy(o, q, t, x)
      BY <1>2, TermsFixed
    <3> QED BY <1>2, <2>2, <3>1 DEF Attended
  <2> QED BY <1>2, <1>6, <2>1, <2>3 DEF ContentOf
<1> QED BY <1>5, <1>6

LEMMA TransposeInv ==
  ASSUME WorkspaceInv, NEW r \in Ranks, Transpose(r), NEW s \in Ranks
  PROVE  GathersSentBy(s)' /\ EntriesSentBy(s)' /\ ContentOf(s)'
<1> DEFINE c == call[r]
           T == Tokens(c)
           block == [i \in 0..T*W-1 |-> scratch[r][(i % T) * W + i \div T]]
<1>1. Goto(r, "project") /\ doing[r] = "transpose" /\ doing[r] # "idle"
  BY DEF Transpose
<1>2. /\ mode' = mode /\ program' = program /\ call' = call /\ doing'[r] = "project"
      /\ GathersSentBy(r)' /\ c > 0 /\ c \in 1..Len(program)
      /\ WorkspaceTypeOK /\ EntriesSentBy(r) /\ ContentOf(r)
      /\ DOMAIN query = Ranks /\ DOMAIN query[r] = QueryCells
  BY <1>1, GotoFacts
<1>3. CallRows(r) = T
  BY <1>2, LayoutFacts
<1>4. /\ query' = [query EXCEPT ![r] = Put(@, 0, T * W, block)]
      /\ entered' = entered /\ scratch' = scratch /\ staging' = staging /\ output' = output
  BY <1>3 DEF Transpose
<1>5. CASE s # r
  <2>1. query'[s] = query[s]
    BY <1>2, <1>4, <1>5
  <2> QED BY <1>1, <1>4, <1>5, <2>1, GotoOther
<1>6. CASE s = r
  <2>1. EntriesSentBy(r)'
    <3>1. EntriesDone(r)' = EntriesDone(r)
      BY <1>1, <1>2 DEF EntriesDone
    <3> QED BY <1>2, <1>4, <3>1, EntriesElsewhere
  <2>2. ASSUME NEW q \in Ranks, NEW t \in 0..T-1
        PROVE  query'[r][q * T + t] = Partial(r, SeenBy(r, q, t, c))
    <3> DEFINE i == q * T + t
    <3>1. scratch[r][t * W + q] = Partial(r, SeenBy(r, q, t, c))
      BY <1>1, <1>2 DEF ContentOf, Attended
    <3>2. /\ i \in 0..T*W-1 /\ i \in QueryCells /\ T * W \in Nat
          /\ i \div T = q /\ i % T = t
      BY <1>2, CellFacts, CellsFit, CellsOfCall
    <3>3. block[i] = Partial(r, SeenBy(r, q, t, c))
      <4>1. block[i] = scratch[r][(i % T) * W + i \div T]
        BY <3>2
      <4> HIDE DEF i, block
      <4> QED BY <3>1, <3>2, <4>1
    <3> HIDE DEF i, block
    <3>4. Put(query[r], 0, T * W, block)[i] = block[i]
      BY <1>2, <3>2, PutFirst
    <3>5. query'[r][i] = Partial(r, SeenBy(r, q, t, c))
      BY <1>2, <1>4, <3>3, <3>4
    <3> QED BY <3>5 DEF i
  <2>3. Transposed(r)'
    BY <1>2, <2>2, TermsFixed DEF Transposed
  <2> QED BY <1>2, <1>6, <2>1, <2>3 DEF ContentOf
<1> QED BY <1>5, <1>6

LEMMA ProjectInv ==
  ASSUME WorkspaceInv, NEW r \in Ranks, Project(r), NEW s \in Ranks
  PROVE  GathersSentBy(s)' /\ EntriesSentBy(s)' /\ ContentOf(s)'
<1> DEFINE c == call[r]
           T == Tokens(c)
           block == [i \in 0..T*W-1 |-> Projected(query[r][i])]
<1>1. Goto(r, "correct") /\ doing[r] = "project" /\ doing[r] # "idle"
  BY DEF Project
<1>2. /\ mode' = mode /\ program' = program /\ call' = call /\ doing'[r] = "correct"
      /\ GathersSentBy(r)' /\ c > 0 /\ c \in 1..Len(program)
      /\ WorkspaceTypeOK /\ EntriesSentBy(r) /\ ContentOf(r)
      /\ DOMAIN scratch = Ranks /\ DOMAIN scratch[r] = ScratchCells /\ DOMAIN entered = Ranks
  BY <1>1, GotoFacts
<1>3. CallRows(r) = T
  BY <1>2, LayoutFacts
<1>4. /\ scratch' = [scratch EXCEPT ![r] = Put(@, 0, T * W, block)]
      /\ entered' = [entered EXCEPT ![r] = Append(@, <<"lse">>)]
      /\ query' = query /\ staging' = staging /\ output' = output
  BY <1>3 DEF Project
<1>5. CASE s # r
  <2>1. scratch'[s] = scratch[s] /\ entered'[s] = entered[s]
    BY <1>2, <1>4, <1>5
  <2> QED BY <1>1, <1>4, <1>5, <2>1, GotoOther
<1>6. CASE s = r
  <2>1. EntriesSentBy(r)'
    <3>1. EntriesDone(r) = 0 /\ EntriesDone(r)' = 1
      BY <1>1, <1>2 DEF EntriesDone
    <3>2. EntriesIn(c) = 2
      <4>1. IsQuery(c)
        BY <1>1 DEF WorkspaceInv, PositionInv, PositionOf, QueryPlaces
      <4> QED BY <4>1 DEF EntriesIn
    <3>3. entered'[r] = Append(entered[r], <<"lse">>)
      BY <1>2, <1>4
    <3>4. /\ EntriesDone(r) \in Nat /\ EntriesDone(r)' = EntriesDone(r) + 1
          /\ EntriesDone(r) < EntriesIn(c)
          /\ EntriesDone(r)' = EntriesIn(c) => <<"lse">> = Exchange(r, c)
      BY <3>1, <3>2
    <3>5. WorkspaceTypeOK /\ EntriesSentBy(r) /\ c \in 1..Len(program)
      BY <1>2
    <3> QED BY <1>2, <3>3, <3>4, <3>5, EntryAdded
  <2>2. ASSUME NEW q \in Ranks, NEW t \in 0..T-1
        PROVE  scratch'[r][q * T + t] = Projected(Partial(r, SeenBy(r, q, t, c)))
    <3> DEFINE i == q * T + t
    <3>1. query[r][i] = Partial(r, SeenBy(r, q, t, c))
      BY <1>1, <1>2 DEF ContentOf, Transposed
    <3>2. i \in 0..T*W-1 /\ i \in ScratchCells /\ T * W \in Nat
      BY <1>2, CellFacts, CellsFit, CellsOfCall
    <3>3. block[i] = Projected(Partial(r, SeenBy(r, q, t, c)))
      BY <3>1, <3>2
    <3> HIDE DEF i, block
    <3>4. Put(scratch[r], 0, T * W, block)[i] = block[i]
      BY <1>2, <3>2, PutFirst
    <3>5. scratch'[r][i] = Projected(Partial(r, SeenBy(r, q, t, c)))
      BY <1>2, <1>4, <3>3, <3>4
    <3> QED BY <3>5 DEF i
  <2>3. HasProjected(r)'
    BY <1>2, <2>2, TermsFixed DEF HasProjected
  <2> QED BY <1>2, <1>6, <2>1, <2>3 DEF ContentOf
<1> QED BY <1>5, <1>6

LEMMA CorrectInv ==
  ASSUME WorkspaceInv, NEW r \in Ranks, Correct(r), NEW s \in Ranks
  PROVE  GathersSentBy(s)' /\ EntriesSentBy(s)' /\ ContentOf(s)'
<1> DEFINE c == call[r]
           T == Tokens(c)
           block == [i \in 0..T*W-1 |-> Corrected(scratch[r][i])]
<1>1. Goto(r, "reduce") /\ doing[r] = "correct" /\ doing[r] # "idle"
  BY DEF Correct
<1>2. /\ mode' = mode /\ program' = program /\ call' = call /\ doing'[r] = "reduce"
      /\ GathersSentBy(r)' /\ c > 0 /\ c \in 1..Len(program)
      /\ WorkspaceTypeOK /\ EntriesSentBy(r) /\ ContentOf(r)
      /\ DOMAIN scratch = Ranks /\ DOMAIN scratch[r] = ScratchCells /\ DOMAIN entered = Ranks
  BY <1>1, GotoFacts
<1>3. CallRows(r) = T
  BY <1>2, LayoutFacts
<1>4. /\ scratch' = [scratch EXCEPT ![r] = Put(@, 0, T * W, block)]
      /\ entered' = [entered EXCEPT ![r] = Append(@, block)]
      /\ query' = query /\ staging' = staging /\ output' = output
  BY <1>3 DEF Correct
<1>5. CASE s # r
  <2>1. scratch'[s] = scratch[s] /\ entered'[s] = entered[s]
    BY <1>2, <1>4, <1>5
  <2> QED BY <1>1, <1>4, <1>5, <2>1, GotoOther
<1>6. CASE s = r
  <2>0. IsQuery(c)
    BY <1>1 DEF WorkspaceInv, PositionInv, PositionOf, QueryPlaces
  <2>1. block = Exchange(r, c)
    <3>1. ASSUME NEW i \in 0..T*W-1
          PROVE  Corrected(scratch[r][i])
                   = Corrected(Projected(Partial(r, SeenBy(r, i \div T, i % T, c))))
      <4>1. T \in Nat /\ W \in Nat /\ W * T = T * W
        BY <1>2, CellsOfCall, WorkspaceSizes
      <4>2. i \in 0..W*T-1
        BY <4>1
      <4>3. i \div T \in 0..W-1 /\ i % T \in 0..T-1 /\ i = (i \div T) * T + (i % T)
        BY <4>1, <4>2, CellParts
      <4>4. HasProjected(r)
        BY <1>1, <1>2 DEF ContentOf
      <4>5. scratch[r][(i \div T) * T + (i % T)]
              = Projected(Partial(r, SeenBy(r, i \div T, i % T, c)))
        BY <4>3, <4>4 DEF HasProjected, Ranks
      <4> QED BY <4>3, <4>5
    <3> QED BY <2>0, <3>1 DEF Exchange, ReduceOf
  <2> HIDE DEF block
  <2>2. EntriesSentBy(r)'
    <3>1. EntriesDone(r) = 1 /\ EntriesDone(r)' = 2
      BY <1>1, <1>2 DEF EntriesDone
    <3>2. EntriesIn(c) = 2
      BY <2>0 DEF EntriesIn
    <3>3. entered'[r] = Append(entered[r], block)
      BY <1>2, <1>4
    <3>4. /\ EntriesDone(r) \in Nat /\ EntriesDone(r)' = EntriesDone(r) + 1
          /\ EntriesDone(r) < EntriesIn(c)
          /\ EntriesDone(r)' = EntriesIn(c) => block = Exchange(r, c)
      BY <2>1, <3>1, <3>2
    <3>5. WorkspaceTypeOK /\ EntriesSentBy(r) /\ c \in 1..Len(program)
      BY <1>2
    <3> QED BY <1>2, <3>3, <3>4, <3>5, EntryAdded
  <2> QED BY <1>2, <1>6, <2>2 DEF ContentOf
<1> QED BY <1>5, <1>6


LEMMA ReduceInv ==
  ASSUME WorkspaceInv, NEW r \in Ranks, Reduce(r), NEW s \in Ranks
  PROVE  GathersSentBy(s)' /\ EntriesSentBy(s)' /\ ContentOf(s)'
<1> DEFINE c == call[r]
           T == Tokens(c)
           block == [i \in 0..T-1 |-> Merged({Sent(o, r)[r * T + i] : o \in Ranks})]
<1>1. Goto(r, "store") /\ doing[r] = "reduce" /\ doing[r] # "idle" /\ EveryoneIn(r)
  BY DEF Reduce
<1>2. /\ mode' = mode /\ program' = program /\ call' = call /\ doing'[r] = "store"
      /\ GathersSentBy(r)' /\ c > 0 /\ c \in 1..Len(program)
      /\ WorkspaceTypeOK /\ EntriesSentBy(r) /\ ContentOf(r)
      /\ DOMAIN query = Ranks /\ DOMAIN query[r] = QueryCells
  BY <1>1, GotoFacts
<1>3. CallRows(r) = T
  BY <1>2, LayoutFacts
<1>4. /\ query' = [query EXCEPT ![r] = Put(@, 0, T, block)]
      /\ entered' = entered /\ scratch' = scratch /\ staging' = staging /\ output' = output
  BY <1>3 DEF Reduce
<1>5. CASE s # r
  <2>1. query'[s] = query[s]
    BY <1>2, <1>4, <1>5
  <2> QED BY <1>1, <1>4, <1>5, <2>1, GotoOther
<1>6. CASE s = r
  <2>0. IsQuery(c)
    BY <1>1 DEF WorkspaceInv, PositionInv, PositionOf, QueryPlaces
  <2>1. EntriesSentBy(r)'
    <3>1. EntriesDone(r)' = EntriesDone(r)
      BY <1>1, <1>2 DEF EntriesDone
    <3> QED BY <1>2, <1>4, <3>1, EntriesElsewhere
  <2>2. ASSUME NEW o \in Ranks
        PROVE  Sent(o, r) = ReduceOf(o, c)
    <3>1. EntriesDone(r) = EntriesIn(c)
      BY <1>1, <2>0 DEF EntriesDone, EntriesIn
    <3>2. PositionInv /\ EntriesSentBy(r) /\ EntriesSentBy(o)
      BY DEF WorkspaceInv
    <3>3. Sent(o, r) = Exchange(o, c)
      BY <1>1, <1>2, <3>1, <3>2, ExchangeArrived
    <3> QED BY <2>0, <3>3 DEF Exchange
  <2>3. ASSUME NEW t \in 0..T-1
        PROVE  query'[r][t] = ResultOf(r, c, t)
    <3>1. ASSUME NEW o \in Ranks
          PROVE  Sent(o, r)[r * T + t] = Corrected(Projected(Partial(o, SeenBy(o, r, t, c))))
      <4> DEFINE i == r * T + t
      <4>1. i \in 0..T*W-1 /\ i \div T = r /\ i % T = t
        BY <1>2, CellFacts
      <4>2. ReduceOf(o, c)[i] = Corrected(Projected(Partial(o, SeenBy(o, i \div T, i % T, c))))
        BY <4>1 DEF ReduceOf
      <4> HIDE DEF i
      <4>3. Sent(o, r)[i] = Corrected(Projected(Partial(o, SeenBy(o, r, t, c))))
        BY <2>2, <4>1, <4>2
      <4> QED BY <4>3 DEF i
    <3>2. block[t] = Merged({Corrected(Projected(Partial(o, SeenBy(o, r, t, c)))) : o \in Ranks})
      <4>1. block[t] = Merged({Sent(o, r)[r * T + t] : o \in Ranks})
        OBVIOUS
      <4>2. {Sent(o, r)[r * T + t] : o \in Ranks}
              = {Corrected(Projected(Partial(o, SeenBy(o, r, t, c)))) : o \in Ranks}
        BY <3>1
      <4> QED BY <4>1, <4>2
    <3>3. T \in Nat /\ t \in QueryCells
      BY <1>2, CellsOfCall
    <3>4. block[t] = ResultOf(r, c, t)
      BY <2>0, <3>2 DEF ResultOf
    <3> HIDE DEF block
    <3>5. Put(query[r], 0, T, block)[t] = block[t]
      BY <1>2, <3>3, PutFirst
    <3> QED BY <1>2, <1>4, <3>4, <3>5
  <2>4. \A t \in 0..Tokens(c)'-1 : query'[r][t] = ResultOf(r, c, t)'
    BY <1>2, <2>3, TermsFixed
  <2> QED BY <1>2, <1>6, <2>1, <2>4 DEF ContentOf
<1> QED BY <1>5, <1>6

LEMMA StoreInv ==
  ASSUME WorkspaceInv, NEW r \in Ranks, Store(r), NEW s \in Ranks
  PROVE  GathersSentBy(s)' /\ EntriesSentBy(s)' /\ ContentOf(s)'
<1> DEFINE c == call[r]
           T == Tokens(c)
           result == [t \in 1..T |-> IF doing[r] = "store" THEN query[r][t-1]
                                     ELSE scratch[r][t-1]]
<1>1. /\ Goto(r, "idle") /\ doing[r] \in {"store", "storeLocal"} /\ doing[r] # "idle"
  BY DEF Store
<1>2. /\ mode' = mode /\ program' = program /\ call' = call /\ doing'[r] = "idle"
      /\ GathersSentBy(r)' /\ c > 0 /\ c \in 1..Len(program)
      /\ WorkspaceTypeOK /\ EntriesSentBy(r) /\ ContentOf(r)
      /\ DOMAIN output = Ranks
  BY <1>1, GotoFacts
<1>3. CallRows(r) = T
  BY <1>2, LayoutFacts
<1>4. /\ output' = [output EXCEPT ![r] = result]
      /\ entered' = entered /\ scratch' = scratch /\ staging' = staging /\ query' = query
  BY <1>3 DEF Store
<1>5. CASE s # r
  <2>1. output'[s] = output[s]
    BY <1>2, <1>4, <1>5
  <2> QED BY <1>1, <1>4, <1>5, <2>1, GotoOther
<1>6. CASE s = r
  <2>1. EntriesSentBy(r)'
    <3>1. EntriesDone(r)' = EntriesIn(c)'
      BY <1>2 DEF EntriesDone
    <3>2. EntriesDone(r) = EntriesIn(c)
      <4>1. doing[r] = "store" => IsQuery(c)
        BY DEF WorkspaceInv, PositionInv, PositionOf, QueryPlaces
      <4>2. doing[r] = "storeLocal" => ~IsQuery(c)
        BY DEF WorkspaceInv, PositionInv, PositionOf, PackedPlaces
      <4> QED BY <1>1, <4>1, <4>2 DEF EntriesDone, EntriesIn
    <3>3. EntriesDone(r)' = EntriesDone(r)
      BY <1>2, <3>1, <3>2, TermsFixed
    <3> QED BY <1>2, <1>4, <3>3, EntriesElsewhere
  <2>2. ASSUME NEW t \in 1..T
        PROVE  result[t] = ResultOf(r, c, t - 1)
    <3>1. T \in Nat
      BY <1>2, CellsOfCall
    <3>2. t - 1 \in 0..T-1
      BY <3>1
    <3>3. CASE doing[r] = "store"
      BY <1>2, <3>2, <3>3 DEF ContentOf
    <3>4. CASE doing[r] = "storeLocal"
      BY <1>2, <3>2, <3>4 DEF ContentOf
    <3> QED BY <1>1, <3>3, <3>4
  <2>3. result = [t \in 1..T |-> ResultOf(r, c, t - 1)]
    BY <2>2
  <2>4. output'[r] = [t \in 1..T |-> ResultOf(r, c, t - 1)]
    BY <1>2, <1>4, <2>3
  <2>5. [t \in 1..Tokens(c)' |-> ResultOf(r, c, t - 1)'] = [t \in 1..T |-> ResultOf(r, c, t - 1)]
    BY <1>2, TermsFixed
  <2> QED BY <1>2, <1>6, <2>1, <2>4, <2>5 DEF ContentOf
<1> QED BY <1>5, <1>6

LEMMA PackInv ==
  ASSUME WorkspaceInv, NEW r \in Ranks, Pack(r), NEW s \in Ranks
  PROVE  GathersSentBy(s)' /\ EntriesSentBy(s)' /\ ContentOf(s)'
<1> DEFINE c == call[r]
           T == Tokens(c)
           payload == [i \in 0..T |-> IF i < T THEN Record(r, i, c) ELSE Hole(r, c)]
<1>1. Goto(r, "packed") /\ doing[r] = "pack" /\ doing[r] # "idle"
  BY DEF Pack
<1>2. /\ mode' = mode /\ program' = program /\ call' = call /\ doing'[r] = "packed"
      /\ GathersSentBy(r)' /\ c > 0 /\ c \in 1..Len(program)
      /\ WorkspaceTypeOK /\ EntriesSentBy(r) /\ ContentOf(r)
      /\ DOMAIN scratch = Ranks /\ DOMAIN entered = Ranks
  BY <1>1, GotoFacts
<1>3. CallRows(r) = T
  BY <1>2, LayoutFacts
<1>4. /\ scratch' = [scratch EXCEPT ![r] = Put(@, 0, T + 1, payload)]
      /\ entered' = [entered EXCEPT ![r] = Append(@, payload)]
      /\ query' = query /\ staging' = staging /\ output' = output
  BY <1>3 DEF Pack
<1>5. CASE s # r
  <2>1. scratch'[s] = scratch[s] /\ entered'[s] = entered[s]
    BY <1>2, <1>4, <1>5
  <2> QED BY <1>1, <1>4, <1>5, <2>1, GotoOther
<1>6. CASE s = r
  <2>0. ~IsQuery(c)
    BY <1>1 DEF WorkspaceInv, PositionInv, PositionOf, PackedPlaces
  <2>1. payload = Exchange(r, c)
    BY <2>0 DEF Exchange, PayloadOf
  <2> HIDE DEF payload
  <2>2. EntriesSentBy(r)'
    <3>1. EntriesDone(r) = 0 /\ EntriesDone(r)' = 1
      BY <1>1, <1>2 DEF EntriesDone
    <3>2. EntriesIn(c) = 1
      BY <2>0 DEF EntriesIn
    <3>3. entered'[r] = Append(entered[r], payload)
      BY <1>2, <1>4
    <3>4. /\ EntriesDone(r) \in Nat /\ EntriesDone(r)' = EntriesDone(r) + 1
          /\ EntriesDone(r) < EntriesIn(c)
          /\ EntriesDone(r)' = EntriesIn(c) => payload = Exchange(r, c)
      BY <2>1, <3>1, <3>2
    <3>5. WorkspaceTypeOK /\ EntriesSentBy(r) /\ c \in 1..Len(program)
      BY <1>2
    <3> QED BY <1>2, <3>3, <3>4, <3>5, EntryAdded
  <2> QED BY <1>2, <1>6, <2>2 DEF ContentOf
<1> QED BY <1>5, <1>6

\* The cells from base on take the block.
LEMMA PutAt ==
  ASSUME NEW mem, NEW base \in Nat, NEW n \in Nat, NEW block, NEW i \in 0..n-1,
         base + i \in DOMAIN mem
  PROVE  Put(mem, base, n, block)[base + i] = block[i]
<1> DEFINE x == base + i
<1>1. base <= x /\ x < base + n /\ x - base = i /\ x \in DOMAIN mem
  OBVIOUS
<1> HIDE DEF x
<1>2. Put(mem, base, n, block)[x] = block[x - base]
  BY <1>1, PutCells
<1> QED BY <1>1, <1>2 DEF x

\* The holes of all ranks lie behind the payload, and what the attention keeps
\* behind the scratch prefix.
LEMMA PackedCells ==
  ASSUME WorkspaceTypeOK, NEW c \in 1..Len(program)
  PROVE  /\ Tokens(c) + 1 \in Nat /\ CkvOffset \in Nat
         /\ \A o \in Ranks : (Tokens(c) + 1) + o \in ScratchCells
         /\ \A i \in 0..Tokens(c)-1 : CkvOffset + i \in ScratchCells
<1> DEFINE T == Tokens(c)
           M == MaxBatched
           p == M * W
<1>1. T \in Nat /\ T > 0 /\ T <= M /\ M \in Nat /\ M > 1 /\ W \in Nat /\ W > 0
  BY CellsOfCall, WorkspaceSizes
<1>2. p \in Nat /\ 2 * W <= p
  BY <1>1, ProductMonotone
<1>3. Ranks = 0..W-1 /\ ScratchCells = 0..p + M - 1 /\ CkvOffset = p
  BY DEF Ranks, ScratchCells, CkvOffset
<1> HIDE DEF T, M, p
<1>4. /\ T + 1 \in Nat
      /\ \A o \in Ranks : (T + 1) + o \in ScratchCells
      /\ \A i \in 0..T-1 : p + i \in ScratchCells
  BY <1>1, <1>2, <1>3
<1> QED BY <1>2, <1>3, <1>4 DEF T

LEMMA AttendPackedInv ==
  ASSUME WorkspaceInv, NEW r \in Ranks, AttendPacked(r), NEW s \in Ranks
  PROVE  GathersSentBy(s)' /\ EntriesSentBy(s)' /\ ContentOf(s)'
<1> DEFINE c == call[r]
           T == CallRows(r)
           records  == [i \in 0..T*W-1 |-> Sent(i \div T, r)[i % T]]
           holeCells == [o \in Ranks |-> Sent(o, r)[T]]
           local    == [i \in 0..T-1 |-> Query(r, i, c, "exact")]
           taken    == Put(query[r], 0, T * W, records)
           valid    == Put(scratch[r], T + 1, W, holeCells)
           loaded   == Put(valid, 0, T, local)
           seen     == {taken[j] : j \in 0..T*W-1}
           missing  == {valid[T + 1 + o] : o \in Ranks}
           all      == {Record(o, i, c) : o \in Ranks, i \in 0..Tokens(c)-1}
           none     == {Hole(o, c) : o \in Ranks}
           attended == [i \in 0..T-1 |-> Full(seen, missing, loaded[i])]
           kept     == Put(loaded, CkvOffset, T, attended)
           input    == Put(taken, 0, T, [i \in 0..T-1 |-> kept[CkvOffset + i]])
           stored   == Put(kept, 0, T, [i \in 0..T-1 |-> Projected(input[i])])
<1>1. Goto(r, "storeLocal") /\ doing[r] = "packed" /\ doing[r] # "idle" /\ EveryoneIn(r)
  BY DEF AttendPacked
<1>2. /\ mode' = mode /\ program' = program /\ call' = call /\ doing'[r] = "storeLocal"
      /\ GathersSentBy(r)' /\ c > 0 /\ c \in 1..Len(program)
      /\ WorkspaceTypeOK /\ EntriesSentBy(r) /\ ContentOf(r)
      /\ DOMAIN query = Ranks /\ DOMAIN query[r] = QueryCells
      /\ DOMAIN scratch = Ranks /\ DOMAIN scratch[r] = ScratchCells
  BY <1>1, GotoFacts
<1>3. T = Tokens(c)
  BY <1>2, LayoutFacts
<1>4. /\ query' = [query EXCEPT ![r] = input]
      /\ scratch' = [scratch EXCEPT ![r] = stored]
      /\ entered' = entered /\ staging' = staging /\ output' = output
  BY DEF AttendPacked
<1> HIDE DEF T
<1>5. CASE s # r
  <2>1. query'[s] = query[s] /\ scratch'[s] = scratch[s]
    BY <1>2, <1>4, <1>5
  <2> QED BY <1>1, <1>4, <1>5, <2>1, GotoOther
<1>6. CASE s = r
  <2>0. ~IsQuery(c)
    BY <1>1 DEF WorkspaceInv, PositionInv, PositionOf, PackedPlaces
  <2>1. EntriesSentBy(r)'
    <3>1. EntriesDone(r)' = EntriesDone(r)
      BY <1>1, <1>2 DEF EntriesDone
    <3> QED BY <1>2, <1>4, <3>1, EntriesElsewhere
  <2>2. ASSUME NEW o \in Ranks
        PROVE  Sent(o, r) = PayloadOf(o, c)
    <3>1. EntriesDone(r) = EntriesIn(c)
      BY <1>1, <2>0 DEF EntriesDone, EntriesIn
    <3>2. PositionInv /\ EntriesSentBy(r) /\ EntriesSentBy(o)
      BY DEF WorkspaceInv
    <3>3. Sent(o, r) = Exchange(o, c)
      BY <1>1, <1>2, <3>1, <3>2, ExchangeArrived
    <3> QED BY <2>0, <3>3 DEF Exchange
  <2>3. /\ T \in Nat /\ T > 0 /\ T * W \in Nat /\ W \in Nat /\ W > 0 /\ W * T = T * W
        /\ T <= T * W
        /\ \A i \in 0..T*W-1 : i \in QueryCells
        /\ \A i \in 0..T-1 : i \in QueryCells /\ i \in ScratchCells
    <3>1. /\ T \in Nat /\ T > 0 /\ T * W \in Nat /\ T <= T * W
          /\ \A i \in Nat : i < T * W => i \in QueryCells /\ i \in ScratchCells
          /\ \A i \in Nat : i < T => i \in QueryCells /\ i \in ScratchCells
      BY <1>2, <1>3, CellsOfCall
    <3>2. W \in Nat /\ W > 0
      BY WorkspaceSizes
    <3>3. W * T = T * W
      BY <3>1, <3>2
    <3> DEFINE n == T * W
    <3>4. n \in Nat /\ \A i \in Nat : i < n => i \in QueryCells
      BY <3>1
    <3> HIDE DEF n
    <3>5. \A i \in 0..n-1 : i \in QueryCells
      BY <3>4
    <3>6. \A i \in 0..T-1 : i \in QueryCells /\ i \in ScratchCells
      BY <3>1
    <3> QED BY <3>1, <3>2, <3>3, <3>5, <3>6 DEF n
  <2>4. seen = all
    <3>1. ASSUME NEW j \in 0..T*W-1
          PROVE  /\ j \div T \in Ranks /\ j % T \in 0..T-1
                 /\ taken[j] = Record(j \div T, j % T, c)
      <4>1. j \in 0..W*T-1
        BY <2>3
      <4>2. j \div T \in 0..W-1 /\ j % T \in 0..T-1
        BY <2>3, <4>1, CellParts
      <4>3. j \div T \in Ranks
        BY <4>2 DEF Ranks
      <4>4. PayloadOf(j \div T, c)[j % T] = Record(j \div T, j % T, c)
        <5> DEFINE x == j % T
        <5>1. x \in 0..T /\ x < T
          BY <2>3, <4>2
        <5> HIDE DEF x
        <5>2. PayloadOf(j \div T, c)[x] = Record(j \div T, x, c)
          BY <1>3, <5>1 DEF PayloadOf
        <5> QED BY <5>2 DEF x
      <4>5. records[j] = Record(j \div T, j % T, c)
        BY <2>2, <4>3, <4>4
      <4> HIDE DEF records
      <4>7. j \in QueryCells /\ T * W \in Nat
        BY <2>3
      <4>6. taken[j] = records[j]
        <5> DEFINE n == T * W
        <5>1. n \in Nat /\ j \in 0..n-1 /\ j \in DOMAIN query[r]
          BY <1>2, <4>7
        <5> DEFINE mem == query[r]
        <5>3. j \in DOMAIN mem
          BY <5>1
        <5> HIDE DEF n, mem
        <5>2. Put(mem, 0, n, records)[j] = records[j]
          BY <5>1, <5>3, PutFirst
        <5> QED BY <5>2 DEF n, mem
      <4> HIDE DEF taken
      <4> QED BY <4>2, <4>3, <4>5, <4>6
    <3>2. ASSUME NEW o \in Ranks, NEW i \in 0..T-1
          PROVE  \E j \in 0..T*W-1 : taken[j] = Record(o, i, c)
      <4> DEFINE j == o * T + i
      <4>1. j \in 0..T*W-1 /\ j \div T = o /\ j % T = i
        BY <1>2, <1>3, CellFacts
      <4> HIDE DEF j, taken
      <4>2. taken[j] = Record(o, i, c)
        BY <3>1, <4>1
      <4> QED BY <4>1, <4>2
    <3> HIDE DEF taken
    <3>3. \A x : x \in seen => x \in all
      BY <1>3, <3>1
    <3>4. \A x : x \in all => x \in seen
      BY <1>3, <3>2
    <3> HIDE DEF seen, all
    <3> QED BY <3>3, <3>4
  <2>5. missing = none
    <3>1. ASSUME NEW o \in Ranks
          PROVE  valid[T + 1 + o] = Hole(o, c)
      <4>1. PayloadOf(o, c)[T] = Hole(o, c)
        BY <1>3, <2>3 DEF PayloadOf
      <4>2. holeCells[o] = Hole(o, c)
        BY <2>2, <4>1
      <4>3. T + 1 \in Nat /\ (T + 1) + o \in ScratchCells /\ o \in 0..W-1
        BY <1>2, <1>3, PackedCells DEF Ranks
      <4> HIDE DEF holeCells
      <4>4. valid[T + 1 + o] = holeCells[o]
        BY <1>2, <2>3, <4>3, PutAt
      <4> QED BY <4>2, <4>4
    <3> HIDE DEF valid
    <3> QED BY <3>1
  <2>6. /\ DOMAIN taken = QueryCells /\ DOMAIN valid = ScratchCells
        /\ DOMAIN loaded = ScratchCells /\ DOMAIN kept = ScratchCells
    <3>1. DOMAIN taken = QueryCells /\ DOMAIN valid = ScratchCells
      <4> HIDE DEF records, holeCells
      <4> QED BY <1>2, PutCells
    <3>2. DOMAIN loaded = ScratchCells
      <4> HIDE DEF valid, local
      <4> QED BY <3>1, PutCells
    <3>3. DOMAIN kept = ScratchCells
      <4> HIDE DEF loaded, attended
      <4> QED BY <3>2, PutCells
    <3> QED BY <3>1, <3>2, <3>3
  <2>7. ASSUME NEW t \in 0..T-1
        PROVE  scratch'[r][t] = ResultOf(r, c, t)
    <3>1. loaded[t] = Query(r, t, c, "exact")
      <4>1. local[t] = Query(r, t, c, "exact")
        OBVIOUS
      <4> HIDE DEF valid, local
      <4>2. loaded[t] = local[t]
        BY <2>3, <2>6, PutFirst
      <4> QED BY <4>1, <4>2
    <3> DEFINE held == Full(all, none, Query(r, t, c, "exact"))
    <3>2. attended[t] = held
      <4> HIDE DEF seen, missing, all, none, loaded
      <4>1. attended[t] = Full(seen, missing, loaded[t])
        OBVIOUS
      <4> QED BY <2>4, <2>5, <3>1, <4>1
    <3> HIDE DEF held
    <3>3. kept[CkvOffset + t] = held
      <4>1. CkvOffset \in Nat /\ CkvOffset + t \in ScratchCells
        BY <1>2, <1>3, PackedCells
      <4> HIDE DEF loaded, attended
      <4>2. kept[CkvOffset + t] = attended[t]
        BY <2>3, <2>6, <4>1, PutAt
      <4> QED BY <3>2, <4>2
    <3>4. input[t] = held
      <4> DEFINE block == [i \in 0..T-1 |-> kept[CkvOffset + i]]
      <4>1. block[t] = held
        <5> HIDE DEF kept
        <5> QED BY <3>3
      <4> HIDE DEF block, taken
      <4>2. Put(taken, 0, T, block)[t] = block[t]
        BY <2>3, <2>6, PutFirst
      <4> QED BY <4>1, <4>2 DEF block
    <3>5. stored[t] = Projected(held)
      <4> DEFINE block == [i \in 0..T-1 |-> Projected(input[i])]
      <4>1. block[t] = Projected(held)
        <5> HIDE DEF input
        <5> QED BY <3>4
      <4> HIDE DEF block, kept
      <4>2. Put(kept, 0, T, block)[t] = block[t]
        BY <2>3, <2>6, PutFirst
      <4> QED BY <4>1, <4>2 DEF block
    <3>6. scratch'[r] = stored
      <4> HIDE DEF stored
      <4> QED BY <1>2, <1>4
    <3> HIDE DEF stored
    <3> QED BY <2>0, <3>5, <3>6 DEF ResultOf, held
  <2>8. \A t \in 0..Tokens(c)'-1 : scratch'[r][t] = ResultOf(r, c, t)'
    BY <1>2, <1>3, <2>7, TermsFixed
  <2> HIDE DEF input, stored
  <2> QED BY <1>2, <1>6, <2>1, <2>8 DEF ContentOf
<1> QED BY <1>5, <1>6

-----------------------------------------------------------------------------
(* The invariant holds initially, is kept by every step and makes every    *)
(* call's output exact.                                                    *)

LEMMA WorkspaceInvInit == WorkspaceInit => WorkspaceInv
<1> SUFFICES ASSUME WorkspaceInit PROVE WorkspaceInv
  OBVIOUS
<1>1. PositionInv
  BY PositionInit
<1>2. ASSUME NEW r \in Ranks
      PROVE  GathersSentBy(r) /\ EntriesSentBy(r) /\ ContentOf(r)
  <2>1. /\ call[r] = 0 /\ doing[r] = "idle" /\ gathers[r] = <<>> /\ entered[r] = <<>>
    BY DEF WorkspaceInit
  <2>2. \E S : <<>> \in Seq(S)
    <3>1. <<>> \in Seq({})
      OBVIOUS
    <3> QED BY <3>1
  <2>3. Len(<<>>) = 0
    OBVIOUS
  <2>4. GathersSentBy(r)
    BY <2>1, <2>2, <2>3 DEF GathersSentBy
  <2>5. EntriesSentBy(r)
    BY <2>1, <2>2, <2>3 DEF EntriesSentBy
  <2>6. ContentOf(r)
    BY <2>1 DEF ContentOf
  <2> QED BY <2>4, <2>5, <2>6
<1> QED BY <1>1, <1>2 DEF WorkspaceInv

LEMMA WorkspaceInvStep == WorkspaceInv /\ [WorkspaceNext]_workspaceVars => WorkspaceInv'
<1> SUFFICES ASSUME WorkspaceInv, [WorkspaceNext]_workspaceVars PROVE WorkspaceInv'
  OBVIOUS
<1>1. PositionInv'
  BY PositionStep DEF WorkspaceInv
<1> DEFINE Kept(s) == GathersSentBy(s)' /\ EntriesSentBy(s)' /\ ContentOf(s)'
<1>2. ASSUME UNCHANGED workspaceVars, NEW s \in Ranks PROVE Kept(s)
  <2>1. /\ mode' = mode /\ program' = program /\ call' = call /\ doing' = doing
        /\ staged' = staged /\ started' = started /\ finished' = finished /\ placed' = placed
        /\ gathers' = gathers /\ entered' = entered /\ query' = query /\ scratch' = scratch
        /\ staging' = staging /\ output' = output
    BY <1>2 DEF workspaceVars, comm, memory
  <2>2. GathersSentBy(s) /\ EntriesSentBy(s) /\ ContentOf(s)
    BY DEF WorkspaceInv
  <2>3. EntriesDone(s)' = EntriesDone(s)
    BY <2>1, EntriesDoneFixed
  <2>4. GathersSentBy(s)'
    BY <2>1, <2>2, GathersElsewhere
  <2>5. EntriesSentBy(s)'
    BY <2>1, <2>2, <2>3, EntriesElsewhere
  <2>6. ContentOf(s)'
    BY <2>1, <2>2, ContentElsewhere
  <2> QED BY <2>4, <2>5, <2>6
<1>3. ASSUME NEW r \in Ranks, MainStep(r), NEW s \in Ranks PROVE Kept(s)
  <2> HIDE DEF Kept
  <2>1. CASE Enter(r)        BY <2>1, EnterInv DEF Kept
  <2>2. CASE Stage(r)        BY <2>2, StageInv DEF Kept
  <2>3. CASE Place(r)        BY <2>3, PlaceInv DEF Kept
  <2>4. CASE Attend(r)       BY <2>4, AttendInv DEF Kept
  <2>5. CASE Transpose(r)    BY <2>5, TransposeInv DEF Kept
  <2>6. CASE Project(r)      BY <2>6, ProjectInv DEF Kept
  <2>7. CASE Correct(r)      BY <2>7, CorrectInv DEF Kept
  <2>8. CASE Reduce(r)       BY <2>8, ReduceInv DEF Kept
  <2>9. CASE Pack(r)         BY <2>9, PackInv DEF Kept
  <2>10. CASE AttendPacked(r) BY <2>10, AttendPackedInv DEF Kept
  <2>11. CASE Store(r)       BY <2>11, StoreInv DEF Kept
  <2> QED BY <1>3, <2>1, <2>2, <2>3, <2>4, <2>5, <2>6, <2>7, <2>8, <2>9, <2>10, <2>11
         DEF MainStep
<1>4. ASSUME NEW r \in Ranks, CommStep(r), NEW s \in Ranks PROVE Kept(s)
  <2> HIDE DEF Kept
  <2>1. CASE GatherStart(r)  BY <2>1, GatherStartInv DEF Kept
  <2>2. CASE GatherFinish(r) BY <2>2, GatherFinishInv DEF Kept
  <2> QED BY <1>4, <2>1, <2>2 DEF CommStep
<1> HIDE DEF Kept
<1>5. \/ UNCHANGED workspaceVars
      \/ \E r \in Ranks : MainStep(r) \/ CommStep(r)
  BY DEF WorkspaceNext, Drained
<1>6. \A s \in Ranks : Kept(s)
  BY <1>2, <1>3, <1>4, <1>5
<1> QED BY <1>1, <1>6 DEF WorkspaceInv, Kept

LEMMA OutputExactHolds == WorkspaceInv => OutputExact
  BY DEF WorkspaceInv, ContentOf, OutputExact, CallRows

LEMMA WorkspaceInvariant == WorkspaceSpec => []WorkspaceInv
  BY WorkspaceInvInit, WorkspaceInvStep, PTL DEF WorkspaceSpec

\* However many ranks there are, whatever the mode and the calls, and however
\* the streams interleave: placed <= finished <= started <= staged on every rank.
THEOREM WorkspaceTypeCorrect == WorkspaceSpec => []WorkspaceTypeOK
<1>1. WorkspaceInv => WorkspaceTypeOK
  BY DEF WorkspaceInv, PositionInv
<1> QED BY <1>1, WorkspaceInvariant, PTL

\* While a gather is in flight the main stream neither writes what it sends nor
\* touches the slot it fills.
THEOREM StreamsDoNotRace == WorkspaceSpec => []NoStreamRace
<1>1. WorkspaceInv => NoStreamRace
  BY NoStreamRaceHolds DEF WorkspaceInv
<1> QED BY <1>1, WorkspaceInvariant, PTL

\* Every call, of either route and after any others, leaves in its output each
\* token's own heads of that call, from what every rank sent for that call.
THEOREM CallsAreExact == WorkspaceSpec => []OutputExact
  BY OutputExactHolds, WorkspaceInvariant, PTL

-----------------------------------------------------------------------------
(* Where a token of a request is, and where a batch's packed blocks are.   *)

LEMMA CacheSizes ==
  /\ W \in Nat /\ W > 0 /\ PageRecords \in Nat /\ PageRecords > 0
  /\ PoolPages \in Nat /\ V \in Nat /\ V > 0 /\ V = PageRecords * W
  /\ TopK \in Seq(Int) /\ Layers \in Nat /\ Layers > 0
<1>1. /\ W \in Nat /\ W > 0 /\ PageRecords \in Nat /\ PageRecords > 0
      /\ PoolPages \in Nat /\ TopK \in Seq(Int) /\ Layers \in Nat /\ Layers > 0
  BY GroupAssumption, CacheAssumption
<1>2. W * PageRecords \in Nat /\ W * PageRecords = PageRecords * W
  BY <1>1, ProductMonotone
<1>3. 0 * PageRecords + PageRecords <= W * PageRecords
  BY <1>1, ProductStrict
<1>4. W * PageRecords > 0
  BY <1>1, <1>2, <1>3
<1> QED BY <1>1, <1>2, <1>4 DEF V

\* The remap's arithmetic finds the owner, the offset and the block of a token
\* where the owner's own numbering of its tokens has them.
LEMMA TokenPlace ==
  ASSUME NEW id \in Nat
  PROVE  /\ id \div W \in Nat /\ id % W \in Ranks
         /\ Owner(id) = id % W
         /\ Offset(id) = (id \div W) % PageRecords
         /\ id \div V = (id \div W) \div PageRecords
         /\ Offset(id) \in 0..PageRecords-1 /\ id \div V \in Nat
<1> DEFINE a == id \div W
           i == id % W
           c == a \div PageRecords
           k == a % PageRecords
<1>0. W \in Nat /\ W > 0 /\ PageRecords \in Nat /\ PageRecords > 0 /\ V = PageRecords * W
      /\ V \in Nat /\ V > 0
  BY CacheSizes
<1>1. a \in Nat /\ i \in 0..W-1 /\ a * W \in Nat /\ id = a * W + i
  BY <1>0, DivMod
<1>2. c \in Nat /\ k \in 0..PageRecords-1 /\ c * PageRecords \in Nat /\ a = c * PageRecords + k
  <2> HIDE DEF a
  <2> QED BY <1>0, <1>1, DivMod
<1> HIDE DEF a, i, c, k
<1>3. k * W + i \in 0..PageRecords*W-1 /\ k * W \in Nat
  BY <1>0, <1>1, <1>2, CellInside
<1>4. id = c * V + (k * W + i)
  <2>1. (c * PageRecords + k) * W = c * (PageRecords * W) + k * W
    <3>1. (c * PageRecords + k) * W = (c * PageRecords) * W + k * W
      BY <1>0, <1>2
    <3>2. (c * PageRecords) * W = c * (PageRecords * W)
      BY <1>0, <1>2
    <3> QED BY <3>1, <3>2
  <2>2. c * V \in Nat
    BY <1>0, <1>2, ProductMonotone
  <2> QED BY <1>0, <1>1, <1>2, <1>3, <2>1, <2>2
<1> DEFINE n == k * W + i
<1>5. n \in Nat /\ n < V /\ id = c * V + n
  BY <1>0, <1>3, <1>4
<1> HIDE DEF n
<1>6. id \div V = c /\ id % V = n
  BY <1>0, <1>2, <1>5, PartsUnique
<1>7. n \div W = k /\ n % W = i
  BY <1>0, <1>1, <1>2, PartsUnique DEF n
<1> QED BY <1>0, <1>1, <1>2, <1>6, <1>7 DEF Owner, Offset, Ranks, a, i, c, k

\* The packed blocks are those of the whole batch, the same on every rank.
BlockCounts(b) == [q \in RequestsOf(b) |-> (b.lens[q] + V - 1) \div V]

LEMMA BatchBlocks ==
  ASSUME NEW b, WellFormed(b)
  PROVE  /\ Len(b.lens) \in Nat /\ BlockCounts(b) \in Seq(Nat) /\ Len(BlockCounts(b)) = Len(b.lens)
         /\ \A r : /\ BaseOf(b, r) = PrefixSum(BlockCounts(b))
                   /\ TotalBlocks(b, r) = PrefixSum(BlockCounts(b))[Len(b.lens)]
                   /\ TotalBlocks(b, r) \in Nat
                   /\ \A q \in RequestsOf(b) : RequestBlocks(b, r, q) = BlockCounts(b)[q]
<1>1. b.lens \in Seq(Nat) /\ Len(b.lens) \in Nat /\ RequestsOf(b) = 1..Len(b.lens)
  BY DEF WellFormed, RequestsOf
<1>2. ASSUME NEW q \in RequestsOf(b) PROVE (b.lens[q] + V - 1) \div V \in Nat
  <2>1. b.lens[q] \in Nat
    BY <1>1
  <2>2. b.lens[q] + V - 1 \in Nat /\ V \in Nat /\ V > 0
    BY <2>1, CacheSizes
  <2> QED BY <2>2, DivMod
<1>3. BlockCounts(b) \in Seq(Nat) /\ Len(BlockCounts(b)) = Len(b.lens)
  <2> DEFINE n == Len(b.lens)
             f == BlockCounts(b)
  <2>1. f = [q \in 1..n |-> (b.lens[q] + V - 1) \div V] /\ n \in Nat
    BY <1>1 DEF BlockCounts
  <2>2. \A q \in 1..n : (b.lens[q] + V - 1) \div V \in Nat
    BY <1>1, <1>2
  <2> HIDE DEF n, f
  <2>3. f \in [1..n -> Nat]
    BY <2>1, <2>2
  <2>4. f \in Seq(Nat) /\ Len(f) = n
    BY <2>1, <2>3
  <2> QED BY <2>4 DEF n, f
<1>4. PrefixSum(BlockCounts(b))[Len(b.lens)] \in Nat
  BY <1>1, <1>3, PrefixSumDef DEF IsSumTo
<1>5. ASSUME NEW r
      PROVE  /\ BaseOf(b, r) = PrefixSum(BlockCounts(b))
             /\ \A q \in RequestsOf(b) : RequestBlocks(b, r, q) = BlockCounts(b)[q]
  BY DEF BaseOf, RequestBlocks, LensFor, BlockCounts
<1> QED BY <1>1, <1>3, <1>4, <1>5 DEF TotalBlocks

\* A sum grows by each number, so the ranges between successive sums are apart.
LEMMA SumRange ==
  ASSUME NEW a \in Seq(Nat), NEW q \in 1..Len(a)
  PROVE  /\ PrefixSum(a)[q-1] \in Nat /\ PrefixSum(a)[q] \in Nat /\ a[q] \in Nat
         /\ PrefixSum(a)[q] = PrefixSum(a)[q-1] + a[q]
         /\ PrefixSum(a)[Len(a)] \in Nat /\ PrefixSum(a)[q] <= PrefixSum(a)[Len(a)]
         /\ \A p \in 1..Len(a) : p < q => PrefixSum(a)[p] <= PrefixSum(a)[q-1]
         /\ \A p \in 1..Len(a) : q < p => PrefixSum(a)[q] <= PrefixSum(a)[p-1]
<1>1. /\ PrefixSum(a) \in [0..Len(a) -> Nat]
      /\ \A n \in 1..Len(a) : PrefixSum(a)[n] = PrefixSum(a)[n-1] + a[n]
  BY PrefixSumDef DEF IsSumTo
<1>2. Len(a) \in Nat /\ q-1 \in 0..Len(a) /\ q \in 0..Len(a) /\ Len(a) \in q..Len(a) /\ a[q] \in Nat
  OBVIOUS
<1>0. /\ PrefixSum(a)[q-1] \in Nat /\ PrefixSum(a)[q] \in Nat /\ PrefixSum(a)[Len(a)] \in Nat
      /\ PrefixSum(a)[q] = PrefixSum(a)[q-1] + a[q]
  <2> DEFINE s == PrefixSum(a)
             n == Len(a)
  <2>1. s \in [0..n -> Nat] /\ s[q] = s[q-1] + a[q]
    BY <1>1
  <2> HIDE DEF s, n
  <2>2. q-1 \in 0..n /\ q \in 0..n /\ n \in 0..n
    BY <1>2 DEF n
  <2>3. s[q-1] \in Nat /\ s[q] \in Nat /\ s[n] \in Nat
    BY <2>1, <2>2
  <2> QED BY <2>1, <2>3 DEF s, n
<1>3. PrefixSum(a)[q] <= PrefixSum(a)[Len(a)]
  BY <1>2, PrefixSumGrows
<1>4. \A p \in 1..Len(a) : p < q => PrefixSum(a)[p] <= PrefixSum(a)[q-1]
  <2> TAKE p \in 1..Len(a)
  <2> HAVE p < q
  <2>1. p \in 0..Len(a) /\ q-1 \in p..Len(a)
    OBVIOUS
  <2> QED BY <2>1, PrefixSumGrows
<1>5. \A p \in 1..Len(a) : q < p => PrefixSum(a)[q] <= PrefixSum(a)[p-1]
  <2> TAKE p \in 1..Len(a)
  <2> HAVE q < p
  <2>1. p-1 \in q..Len(a)
    OBVIOUS
  <2> QED BY <1>2, <2>1, PrefixSumGrows
<1> QED BY <1>0, <1>2, <1>3, <1>4, <1>5

\* The block of a request's token is in the request's range of packed blocks,
\* and its entries lead back to the request.
LEMMA BlockOfToken ==
  ASSUME NEW b, WellFormed(b), NEW r, NEW q \in RequestsOf(b), NEW id \in Nat, id < b.lens[q]
  PROVE  LET pb == BaseOf(b, r)[q-1] + id \div V
         IN /\ pb \in 0..TotalBlocks(b, r)-1 /\ id \div V \in Nat
            /\ id \div V < RequestBlocks(b, r, q) /\ RequestBlocks(b, r, q) \in Nat
            /\ RequestOf(b, r, pb) = q /\ pb - BaseOf(b, r)[q-1] = id \div V
<1> DEFINE a == BlockCounts(b)
           s == PrefixSum(a)
           vb == id \div V
           pb == s[q-1] + vb
<1>1. /\ Len(b.lens) \in Nat /\ a \in Seq(Nat) /\ Len(a) = Len(b.lens)
      /\ BaseOf(b, r) = s /\ TotalBlocks(b, r) = s[Len(a)] /\ RequestBlocks(b, r, q) = a[q]
  BY BatchBlocks
<1>2. /\ s[q-1] \in Nat /\ s[q] \in Nat /\ a[q] \in Nat /\ s[q] = s[q-1] + a[q]
      /\ s[Len(a)] \in Nat /\ s[q] <= s[Len(a)]
      /\ \A p \in 1..Len(a) : p < q => s[p] <= s[q-1]
      /\ \A p \in 1..Len(a) : q < p => s[q] <= s[p-1]
  <2>1. q \in 1..Len(a)
    BY <1>1 DEF RequestsOf
  <2> HIDE DEF a
  <2> QED BY <1>1, <2>1, SumRange
<1>3. vb \in Nat /\ vb < a[q]
  <2>1. V \in Nat /\ V > 0
    BY CacheSizes
  <2>2. b.lens[q] \in Nat
    BY DEF WellFormed, RequestsOf
  <2> DEFINE l == b.lens[q]
             u == (l + V - 1) \div V
  <2>3. vb \in Nat /\ vb * V \in Nat /\ vb * V <= id
    <3>1. vb \in Nat /\ id % V \in 0..V-1 /\ vb * V \in Nat /\ id = vb * V + (id % V)
      BY <2>1, DivMod
    <3> HIDE DEF vb
    <3> QED BY <3>1
  <2>4. u \in Nat /\ u * V \in Nat /\ l + V - 1 < u * V + V
    <3> DEFINE n == l + V - 1
    <3>1. n \in Nat
      BY <2>1, <2>2
    <3> HIDE DEF n
    <3>2. /\ n \div V \in Nat /\ n % V \in 0..V-1 /\ (n \div V) * V \in Nat
          /\ n = (n \div V) * V + (n % V)
      BY <2>1, <3>1, DivMod
    <3>3. n < (n \div V) * V + V
      BY <2>1, <3>1, <3>2
    <3> QED BY <3>2, <3>3 DEF n
  <2> HIDE DEF vb, u
  <2>5. ASSUME u <= vb PROVE FALSE
    <3>1. u * V <= vb * V
      BY <2>1, <2>3, <2>4, <2>5, ProductMonotone
    <3> QED BY <2>1, <2>2, <2>3, <2>4, <3>1
  <2>6. a[q] = u
    BY DEF BlockCounts, u
  <2> QED BY <2>3, <2>4, <2>5, <2>6
<1> HIDE DEF vb, s, a
<1>4. pb \in Nat /\ s[q-1] <= pb /\ pb < s[q] /\ pb < s[Len(a)] /\ pb - s[q-1] = vb
  BY SMTT(30), <1>2, <1>3
<1> HIDE DEF pb
<1>5. ASSUME NEW p \in RequestsOf(b), s[p-1] <= pb, pb < s[p] PROVE p = q
  <2>1. p \in 1..Len(a) /\ q \in 1..Len(a)
    BY <1>1 DEF RequestsOf
  <2>2. s[p] \in Nat /\ s[p-1] \in Nat
    BY <1>1, <2>1, SumRange DEF s
  <2>3. ~(p < q)
    BY <1>2, <1>4, <1>5, <2>1, <2>2
  <2>4. ~(q < p)
    BY <1>2, <1>4, <1>5, <2>1, <2>2
  <2> QED BY <2>1, <2>3, <2>4
<1>6. RequestOf(b, r, pb) = q
  BY <1>1, <1>4, <1>5 DEF RequestOf
<1> QED BY <1>1, <1>2, <1>3, <1>4, <1>6 DEF pb, vb

\* A row is padding, or one of the last tokens of a request.
LEMMA RowsOfBatch ==
  ASSUME NEW b, WellFormed(b), NEW i \in DOMAIN RowsOf(b)
  PROVE  /\ RowsOf(b)[i].causal \in Int
         /\ \/ RowsOf(b)[i].causal <= 0
            \/ /\ RowsOf(b)[i].req \in RequestsOf(b)
               /\ RowsOf(b)[i].causal <= b.lens[RowsOf(b)[i].req]
<1> DEFINE a == b.qlens
           s == PrefixSum(a)
           n == Len(a)
           rows == s[n]
           request(j) == CHOOSE q \in RequestsOf(b) : s[q-1] < j /\ j <= s[q]
           x == request(i)
<1>1. a \in Seq(Nat) /\ RequestsOf(b) = 1..n /\ n \in Nat /\ b.pad \in Nat
  BY DEF WellFormed, RequestsOf
<1>2. s \in [0..n -> Nat] /\ s[0] = 0 /\ \A k \in 1..n : s[k] = s[k-1] + a[k]
  BY <1>1, PrefixSumDef DEF IsSumTo
<1>3. RowsOf(b) = [j \in 1..rows + b.pad |->
        IF j > rows THEN [req |-> 1, causal |-> 0]
        ELSE [req |-> request(j),
              causal |-> b.lens[request(j)] - b.qlens[request(j)] + j - s[request(j) - 1]]]
  BY DEF RowsOf
<1> HIDE DEF a, s, n, request
<1>4. rows \in Nat /\ i \in 1..rows + b.pad
  BY <1>1, <1>2, <1>3
<1>5. RowsOf(b)[i] = IF i > rows THEN [req |-> 1, causal |-> 0]
                     ELSE [req |-> x, causal |-> b.lens[x] - b.qlens[x] + i - s[x - 1]]
  BY <1>3, <1>4 DEF x
<1>6. CASE i > rows
  BY <1>5, <1>6
<1>7. CASE ~(i > rows)
  <2>1. \E q \in 1..n : s[q-1] < i /\ i <= s[q]
    <3> DEFINE T == {k \in 0..n : i <= s[k]}
    <3>1. T \in SUBSET Nat /\ n \in T
      BY <1>1, <1>4, <1>7
    <3>2. PICK k \in T : \A m \in T : k <= m
      <4>1. T # {}
        BY <3>1
      <4> HIDE DEF T
      <4> QED BY <3>1, <4>1, LeastNumber
    <3>3. k # 0
      BY <1>2, <1>4
    <3>4. k \in 1..n /\ k-1 \in 0..n /\ k-1 \notin T
      BY <1>1, <3>2, <3>3
    <3>5. s[k-1] \in Nat
      BY <1>2, <3>4
    <3> QED BY <1>4, <3>4, <3>5
  <2>2. x \in RequestsOf(b) /\ s[x-1] < i /\ i <= s[x]
    BY <1>1, <2>1 DEF x, request
  <2>3. x \in 1..n /\ x-1 \in 0..n /\ x \in 0..n
    BY <1>1, <2>2
  <2>4. s[x-1] \in Nat /\ s[x] = s[x-1] + a[x]
    BY <1>2, <2>3
  <2>5. b.lens[x] \in Nat /\ b.qlens[x] \in Nat
    BY SMTT(30), <2>2 DEF WellFormed, RequestsOf
  <2> DEFINE c == b.lens[x] - b.qlens[x] + i - s[x-1]
  <2>6. c \in Int /\ c <= b.lens[x]
    BY SMTT(30), <1>4, <2>2, <2>4, <2>5 DEF a
  <2>7. RowsOf(b)[i].req = x /\ RowsOf(b)[i].causal = c
    BY <1>5, <1>7
  <2> QED BY <2>2, <2>6, <2>7
<1> QED BY <1>6, <1>7

\* The page of a token in its owner's table is a page of the cache, or none.
LEMMA PageFacts ==
  ASSUME NEW b, WellFormed(b), NEW o \in Ranks, NEW q \in RequestsOf(b), NEW id \in Nat, id < b.lens[q]
  PROVE  /\ q \in DOMAIN b.tables[o] /\ id \div V + 1 \in DOMAIN b.tables[o][q]
         /\ b.tables[o][q][id \div V + 1] \in -1..PoolPages-1
<1> DEFINE t == b.tables[o]
           vb == id \div V
<1>1. /\ t \in Seq(Seq(-1..PoolPages-1)) /\ Len(t) = Len(b.lens)
      /\ RequestBlocks(b, o, q) <= Len(t[q])
  BY DEF WellFormed
<1>2. vb \in Nat /\ vb < RequestBlocks(b, o, q) /\ RequestBlocks(b, o, q) \in Nat
  BY BlockOfToken
<1> HIDE DEF t, vb
<1>3. q \in DOMAIN t /\ t[q] \in Seq(-1..PoolPages-1)
  BY <1>1 DEF RequestsOf
<1>4. vb + 1 \in DOMAIN t[q]
  <2>1. Len(t[q]) \in Nat /\ DOMAIN t[q] = 1..Len(t[q])
    BY <1>3
  <2> QED BY <1>1, <1>2, <2>1
<1>5. t[q][vb + 1] \in -1..PoolPages-1
  <2> DEFINE f == t[q]
             P == -1..PoolPages-1
             j == vb + 1
  <2>1. f \in Seq(P) /\ j \in DOMAIN f
    BY <1>3, <1>4
  <2> HIDE DEF f, P, j
  <2>2. f[j] \in P
    BY <2>1
  <2> QED BY <2>2 DEF f, P, j
<1> QED BY <1>3, <1>4, <1>5 DEF t, vb

-----------------------------------------------------------------------------
(* What the ranks gather for a step.                                       *)

BlocksIn(s) == TotalBlocks(work[s], 0)
StepRoute(s)  == IF phase2 /\ BlocksIn(s) > ActiveCapacity THEN "pool" ELSE "active"

\* What rank r packs for step s, or sends of its cache as it is.
PageIn(r, s, pb) ==
  At(At(work[s].tables[r], At(Arrays(work[s], r).req, pb, 0), <<>>),
     At(Arrays(work[s], r).vblock, pb, 0) + 1, -1)
RecordsIn(r, s) ==
  [ i \in 0..BlocksIn(s) * PageRecords - 1 |->
      LET page == PageIn(r, s, i \div PageRecords)
      IN IF page >= 0 THEN CacheRecord(r, page, i % PageRecords, s) ELSE Zero ]
ValidityIn(r, s) == [pb \in 0..BlocksIn(s)-1 |-> PageIn(r, s, pb) >= 0]
PoolIn(r, s) ==
  [i \in 0..PoolPages * PageRecords - 1 |->
     CacheRecord(r, i \div PageRecords, i % PageRecords, s)]

\* What a rank has when it has gathered them.
GatheredIn(s) ==
  Concat((IF StepRoute(s) = "active" THEN BlocksIn(s) ELSE PoolPages) * PageRecords,
         [o \in Ranks |-> IF StepRoute(s) = "active" THEN RecordsIn(o, s) ELSE PoolIn(o, s)])
HolesIn(s) ==
  IF StepRoute(s) = "active" THEN Concat(BlocksIn(s), [o \in Ranks |-> ValidityIn(o, s)])
  ELSE [o \in Ranks |-> work[s].tables[o]]

\* A concatenation has element j of rank o at o * n + j.
LEMMA ConcatAt ==
  ASSUME NEW n \in Nat, NEW blocks, NEW o \in Ranks, NEW j \in 0..n-1
  PROVE  o * n + j \in DOMAIN Concat(n, blocks) /\ Concat(n, blocks)[o * n + j] = At(blocks[o], j, Zero)
<1>1. W \in Nat /\ o \in 0..W-1 /\ o \in Nat /\ j \in Nat /\ j < n
  BY CacheSizes DEF Ranks
<1> DEFINE p == o * n + j
<1>2. p \in 0..W*n-1
  BY <1>1, CellInside
<1>3. p \div n = o /\ p % n = j
  BY <1>1, PartsUnique
<1> HIDE DEF p
<1>4. p \in DOMAIN Concat(n, blocks) /\ Concat(n, blocks)[p] = At(blocks[p \div n], p % n, Zero)
  BY <1>2 DEF Concat
<1> QED BY <1>3, <1>4 DEF p

\* The page of a request's block on the rank that owns a token of it.
LEMMA PackedPageIn ==
  ASSUME NEW s, WellFormed(work[s]), NEW o \in Ranks, NEW q \in RequestsOf(work[s]),
         NEW id \in Nat, id < work[s].lens[q]
  PROVE  LET pb == BaseOf(work[s], o)[q-1] + id \div V
         IN pb \in 0..BlocksIn(s)-1 /\ PageIn(o, s, pb) = work[s].tables[o][q][id \div V + 1]
<1> DEFINE b == work[s]
           pb == BaseOf(b, o)[q-1] + id \div V
           arr == Arrays(b, o)
<1>1. /\ pb \in 0..TotalBlocks(b, o)-1 /\ RequestOf(b, o, pb) = q /\ pb - BaseOf(b, o)[q-1] = id \div V
  BY BlockOfToken
<1>2. TotalBlocks(b, o) = BlocksIn(s)
  BY BatchBlocks DEF BlocksIn
<1> HIDE DEF pb
<1>3. /\ pb \in DOMAIN arr.req /\ arr.req[pb] = q
      /\ pb \in DOMAIN arr.vblock /\ arr.vblock[pb] = id \div V
  BY <1>1 DEF Arrays
<1>4. q \in DOMAIN b.tables[o] /\ id \div V + 1 \in DOMAIN b.tables[o][q]
  BY PageFacts
<1> HIDE DEF arr, b
<1>5. At(arr.req, pb, 0) = q /\ At(arr.vblock, pb, 0) = id \div V
  BY <1>3 DEF At
<1>6. PageIn(o, s, pb) = At(At(b.tables[o], q, <<>>), id \div V + 1, -1)
  BY <1>5 DEF PageIn, b, arr
<1>7. At(b.tables[o], q, <<>>) = b.tables[o][q]
  BY <1>4 DEF At
<1>8. PageIn(o, s, pb) = b.tables[o][q][id \div V + 1]
  BY <1>4, <1>6, <1>7 DEF At
<1> QED BY <1>1, <1>2, <1>8 DEF pb, b

\* Record k of packed block pb of rank o, in what every rank has gathered.
LEMMA ActiveRecordAt ==
  ASSUME NEW s, StepRoute(s) = "active", BlocksIn(s) \in Nat,
         NEW o \in Ranks, NEW pb \in 0..BlocksIn(s)-1, NEW k \in 0..PageRecords-1,
         PageIn(o, s, pb) >= 0
  PROVE  /\ (o * BlocksIn(s) + pb) * PageRecords + k \in Nat
         /\ At(GatheredIn(s), (o * BlocksIn(s) + pb) * PageRecords + k, Zero)
              = CacheRecord(o, PageIn(o, s, pb), k, s)
<1> DEFINE B == BlocksIn(s)
           n == B * PageRecords
           j == pb * PageRecords + k
           blocks == [p \in Ranks |-> IF StepRoute(s) = "active" THEN RecordsIn(p, s) ELSE PoolIn(p, s)]
           at == (o * B + pb) * PageRecords + k
<1>0. /\ PageRecords \in Nat /\ PageRecords > 0 /\ o \in Nat /\ B \in Nat
      /\ pb \in Nat /\ k \in Nat /\ k < PageRecords
  BY CacheSizes DEF Ranks
<1> HIDE DEF B
<1>1. n \in Nat /\ j \in 0..n-1
  BY <1>0, CellInside DEF B
<1>2. at = o * n + j
  <2>1. (o * B + pb) * PageRecords = (o * B) * PageRecords + pb * PageRecords
    BY <1>0
  <2>2. (o * B) * PageRecords = o * n
    BY <1>0
  <2> QED BY <1>0, <2>1, <2>2
<1>3. j \div PageRecords = pb /\ j % PageRecords = k
  BY <1>0, PartsUnique
<1>4. At(RecordsIn(o, s), j, Zero) = CacheRecord(o, PageIn(o, s, pb), k, s)
  <2>1. RecordsIn(o, s) = [i \in 0..n-1 |->
          LET page == PageIn(o, s, i \div PageRecords)
          IN IF page >= 0 THEN CacheRecord(o, page, i % PageRecords, s) ELSE Zero]
    BY DEF RecordsIn, B
  <2> HIDE DEF j, n
  <2> QED BY <1>1, <1>3, <2>1 DEF At
<1>5. blocks[o] = RecordsIn(o, s)
  OBVIOUS
<1>6. GatheredIn(s) = Concat(n, blocks)
  BY DEF GatheredIn, B
<1>7. o * n + j \in Nat
  <2>1. o * n \in Nat
    BY <1>0, <1>1, ProductMonotone
  <2> QED BY <1>1, <2>1
<1> HIDE DEF n, j, blocks
<1>8. o * n + j \in DOMAIN Concat(n, blocks) /\ Concat(n, blocks)[o * n + j] = At(blocks[o], j, Zero)
  BY <1>1, ConcatAt
<1>9. At(GatheredIn(s), o * n + j, Zero) = CacheRecord(o, PageIn(o, s, pb), k, s)
  BY <1>4, <1>5, <1>6, <1>8 DEF At
<1> QED BY <1>2, <1>7, <1>9 DEF B

\* Record k of a page of rank o's pool, in what every rank has gathered.
LEMMA PoolRecordAt ==
  ASSUME NEW s, StepRoute(s) # "active",
         NEW o \in Ranks, NEW page \in 0..PoolPages-1, NEW k \in 0..PageRecords-1
  PROVE  /\ (o * PoolPages + page) * PageRecords + k \in Nat
         /\ At(GatheredIn(s), (o * PoolPages + page) * PageRecords + k, Zero)
              = CacheRecord(o, page, k, s)
<1> DEFINE n == PoolPages * PageRecords
           j == page * PageRecords + k
           blocks == [p \in Ranks |-> IF StepRoute(s) = "active" THEN RecordsIn(p, s) ELSE PoolIn(p, s)]
           at == (o * PoolPages + page) * PageRecords + k
<1>0. /\ PageRecords \in Nat /\ PageRecords > 0 /\ o \in Nat /\ PoolPages \in Nat
      /\ page \in Nat /\ k \in Nat /\ k < PageRecords
  BY CacheSizes DEF Ranks
<1>1. n \in Nat /\ j \in 0..n-1
  BY <1>0, CellInside
<1>2. at = o * n + j
  <2>1. (o * PoolPages + page) * PageRecords = (o * PoolPages) * PageRecords + page * PageRecords
    BY <1>0
  <2>2. (o * PoolPages) * PageRecords = o * n
    BY <1>0
  <2> QED BY <1>0, <2>1, <2>2
<1>3. j \div PageRecords = page /\ j % PageRecords = k
  BY <1>0, PartsUnique
<1>4. At(PoolIn(o, s), j, Zero) = CacheRecord(o, page, k, s)
  <2>1. PoolIn(o, s) = [i \in 0..n-1 |-> CacheRecord(o, i \div PageRecords, i % PageRecords, s)]
    BY DEF PoolIn
  <2> HIDE DEF j, n
  <2> QED BY <1>1, <1>3, <2>1 DEF At
<1>5. blocks[o] = PoolIn(o, s)
  OBVIOUS
<1>6. GatheredIn(s) = Concat(n, blocks)
  BY DEF GatheredIn
<1>7. o * n + j \in Nat
  <2>1. o * n \in Nat
    BY <1>0, <1>1, ProductMonotone
  <2> QED BY <1>1, <2>1
<1> HIDE DEF n, j, blocks
<1>8. o * n + j \in DOMAIN Concat(n, blocks) /\ Concat(n, blocks)[o * n + j] = At(blocks[o], j, Zero)
  BY <1>1, ConcatAt
<1>9. At(GatheredIn(s), o * n + j, Zero) = CacheRecord(o, page, k, s)
  BY <1>4, <1>5, <1>6, <1>8 DEF At
<1> QED BY <1>2, <1>7, <1>9

\* The validity that rank o sent of packed block pb.
LEMMA ValidityAt ==
  ASSUME NEW s, StepRoute(s) = "active", BlocksIn(s) \in Nat,
         NEW o \in Ranks, NEW pb \in 0..BlocksIn(s)-1
  PROVE  At(HolesIn(s), o * BlocksIn(s) + pb, FALSE) = (PageIn(o, s, pb) >= 0)
<1> DEFINE n == BlocksIn(s)
           blocks == [p \in Ranks |-> ValidityIn(p, s)]
<1>1. HolesIn(s) = Concat(n, blocks)
  BY DEF HolesIn
<1>2. At(blocks[o], pb, Zero) = (PageIn(o, s, pb) >= 0)
  BY DEF At, ValidityIn
<1> HIDE DEF n, blocks
<1>3. o * n + pb \in DOMAIN Concat(n, blocks) /\ Concat(n, blocks)[o * n + pb] = At(blocks[o], pb, Zero)
  BY ConcatAt DEF n
<1> QED BY <1>1, <1>2, <1>3 DEF At, n

\* What a rank needs to have for the step it is in when it remaps.
Ready(r) ==
  /\ WellFormed(Batch(r)) /\ device[r] = step[r]
  /\ gathered[r] = GatheredIn(step[r]) /\ holes[r] = HolesIn(step[r])

\* A direct read of one token.
DirectPage(b, req, id) == b.tables[id % W][req][(id \div W) \div PageRecords + 1]
DirectHas(b, row, id)  == 0 <= id /\ id < row.causal /\ DirectPage(b, row.req, id) >= 0

LEMMA ActiveSlotExact ==
  ASSUME NEW r \in Ranks, Ready(r), StepRoute(step[r]) = "active", Route(r) = "active",
         NEW i, NEW q \in RequestsOf(Batch(r)),
         NEW id \in Nat, id < Batch(r).lens[q], Causal(r, i, id)
  PROVE  /\ Slot(r, i, q, id) \in Int
         /\ Slot(r, i, q, id) >= 0 <=> DirectPage(Batch(r), q, id) >= 0
         /\ Slot(r, i, q, id) >= 0 =>
              At(gathered[r], Slot(r, i, q, id), Zero)
                = CacheRecord(id % W, DirectPage(Batch(r), q, id), (id \div W) % PageRecords, step[r])
<1> DEFINE b == Batch(r)
           s == step[r]
           o == id % W
           vb == id \div V
           k == Offset(id)
           B == BlocksIn(s)
           base == BaseOf(b, r)[q-1]
           pb == base + vb
           page == DirectPage(b, q, id)
           arr == Arrays(b, r)
<1>1. /\ o \in Ranks /\ Owner(id) = o /\ vb = (id \div W) \div PageRecords /\ vb \in Nat
      /\ k = (id \div W) % PageRecords /\ k \in 0..PageRecords-1
  BY TokenPlace
<1>2. WellFormed(b) /\ b = work[s] /\ Mine(r) = arr
  BY DEF Ready, Batch, Mine
<1>3. Packed(r) = B /\ B \in Nat
  BY <1>2, BatchBlocks DEF Packed, BlocksIn
<1>4. vb < RequestBlocks(b, r, q) /\ BaseOf(b, o) = BaseOf(b, r)
  BY <1>2, BlockOfToken, BatchBlocks
<1>5. pb \in 0..B-1 /\ PageIn(o, s, pb) = page
  <2>1. LET p == BaseOf(b, o)[q-1] + id \div V
        IN p \in 0..BlocksIn(s)-1 /\ PageIn(o, s, p) = b.tables[o][q][id \div V + 1]
    BY <1>1, <1>2, PackedPageIn
  <2>2. page = b.tables[o][q][vb + 1]
    BY <1>1 DEF DirectPage
  <2> QED BY <1>4, <2>1, <2>2
<1>6. At(arr.base, q, 0) = base /\ At(arr.blocks, q, 0) = RequestBlocks(b, r, q)
  BY DEF Arrays, At
<1>7. page \in Int
  <2>1. b.tables[o][q][vb + 1] \in -1..PoolPages-1
    BY <1>1, <1>2, PageFacts
  <2>2. page = b.tables[o][q][vb + 1]
    BY <1>1 DEF DirectPage
  <2> QED BY <2>1, <2>2, CacheSizes
<1> DEFINE at == o * B + pb
<1>8. Slot(r, i, q, id) = IF At(HolesIn(s), at, FALSE) THEN at * PageRecords + k ELSE -1
  <2> HIDE DEF b, s, o, vb, k, B, base, arr, page
  <2>1. At(Mine(r).base, q, 0) + id \div V = pb
    BY <1>2, <1>6 DEF vb
  <2>2. Owner(id) * Packed(r) + (At(Mine(r).base, q, 0) + id \div V) = at
    BY <1>1, <1>3, <2>1
  <2>3. id \div V < At(Mine(r).blocks, q, 0)
    BY <1>2, <1>4, <1>6 DEF vb
  <2>4. holes[r] = HolesIn(s)
    BY DEF Ready, s
  <2> QED BY <2>2, <2>3, <2>4 DEF Slot, ActiveSlot, k
<1> HIDE DEF b, s, o, vb, k, base, arr, page, pb, at
<1>9. At(HolesIn(s), at, FALSE) = (page >= 0)
  BY <1>1, <1>3, <1>5, ValidityAt DEF at, s
<1>10. CASE page >= 0
  <2>1. at * PageRecords + k \in Nat /\ At(GatheredIn(s), at * PageRecords + k, Zero) = CacheRecord(o, page, k, s)
    BY <1>1, <1>3, <1>5, <1>10, ActiveRecordAt DEF at, s
  <2>2. Slot(r, i, q, id) = at * PageRecords + k
    BY <1>8, <1>9, <1>10
  <2>3. gathered[r] = GatheredIn(s)
    BY DEF Ready, s
  <2> QED BY <1>1, <1>10, <2>1, <2>2, <2>3 DEF b, s, o, page
<1>11. CASE ~(page >= 0)
  <2>1. Slot(r, i, q, id) = -1
    BY <1>8, <1>9, <1>11
  <2> QED BY <1>11, <2>1 DEF b, page
<1> QED BY <1>10, <1>11

LEMMA PoolSlotExact ==
  ASSUME NEW r \in Ranks, Ready(r), StepRoute(step[r]) # "active", Route(r) # "active",
         NEW i, NEW q \in RequestsOf(Batch(r)),
         NEW id \in Nat, id < Batch(r).lens[q], Causal(r, i, id)
  PROVE  /\ Slot(r, i, q, id) \in Int
         /\ Slot(r, i, q, id) >= 0 <=> DirectPage(Batch(r), q, id) >= 0
         /\ Slot(r, i, q, id) >= 0 =>
              At(gathered[r], Slot(r, i, q, id), Zero)
                = CacheRecord(id % W, DirectPage(Batch(r), q, id), (id \div W) % PageRecords, step[r])
<1> DEFINE b == Batch(r)
           s == step[r]
           o == id % W
           vb == id \div V
           k == Offset(id)
           page == DirectPage(b, q, id)
<1>1. /\ o \in Ranks /\ Owner(id) = o /\ vb = (id \div W) \div PageRecords /\ vb \in Nat
      /\ k = (id \div W) % PageRecords /\ k \in 0..PageRecords-1
  BY TokenPlace
<1>2. WellFormed(b) /\ b = work[s]
  BY DEF Ready, Batch
<1>3. /\ q \in DOMAIN b.tables[o] /\ vb + 1 \in DOMAIN b.tables[o][q]
      /\ b.tables[o][q][vb + 1] \in -1..PoolPages-1
  BY <1>1, <1>2, PageFacts
<1>4. page = b.tables[o][q][vb + 1]
  BY <1>1 DEF DirectPage
<1>5. At(At(At(holes[r], Owner(id), <<>>), q, <<>>), id \div V + 1, -1) = page
  <2>1. holes[r] = [p \in Ranks |-> b.tables[p]]
    BY <1>2 DEF Ready, HolesIn
  <2>2. At(holes[r], Owner(id), <<>>) = b.tables[o]
    BY <1>1, <2>1 DEF At
  <2> HIDE DEF b, o, vb, page
  <2>3. At(b.tables[o], q, <<>>) = b.tables[o][q]
    BY <1>3 DEF At
  <2>4. At(b.tables[o][q], vb + 1, -1) = page
    BY <1>3, <1>4 DEF At
  <2> QED BY <2>2, <2>3, <2>4 DEF vb
<1> DEFINE slot == (o * PoolPages + page) * PageRecords + k
<1>6. Slot(r, i, q, id) = IF 0 <= page /\ page < PoolPages THEN slot ELSE -1
  <2> HIDE DEF b, s, o, page
  <2> QED BY <1>1, <1>5 DEF Slot, PoolSlot, k
<1>7. page \in -1..PoolPages-1 /\ PoolPages \in Nat
  BY <1>3, <1>4, CacheSizes
<1> HIDE DEF b, s, o, vb, k, page, slot
<1>8. CASE page >= 0
  <2>0. page \in 0..PoolPages-1
    BY <1>7, <1>8
  <2>1. slot \in Nat /\ At(GatheredIn(s), slot, Zero) = CacheRecord(o, page, k, s)
    BY <1>1, <2>0, PoolRecordAt DEF slot, s
  <2>2. Slot(r, i, q, id) = slot
    BY <1>6, <1>7, <2>0
  <2>3. gathered[r] = GatheredIn(s)
    BY DEF Ready, s
  <2> QED BY <1>1, <1>8, <2>1, <2>2, <2>3 DEF b, s, o, page
<1>9. CASE ~(page >= 0)
  <2>1. Slot(r, i, q, id) = -1
    BY <1>6, <1>7, <1>9
  <2> QED BY <1>9, <2>1 DEF b, page
<1> QED BY <1>8, <1>9

\* Every selected token is read as its owner would, on either route.
LEMMA SlotExact ==
  ASSUME NEW r \in Ranks, Ready(r), NEW i \in DOMAIN RowsOf(Batch(r)), NEW id \in Int
  PROVE  LET b    == Batch(r)
             row  == RowsOf(b)[i]
             slot == Slot(r, i, row.req, id)
         IN /\ slot >= 0 <=> DirectHas(b, row, id)
            /\ slot >= 0 => At(gathered[r], slot, Zero)
                 = CacheRecord(id % W, DirectPage(b, row.req, id), (id \div W) % PageRecords, step[r])
<1> DEFINE b == Batch(r)
           row == RowsOf(b)[i]
           q == row.req
<1>1. WellFormed(b) /\ b = work[step[r]] /\ Mine(r) = Arrays(b, r)
  BY DEF Ready, Batch, Mine
<1>2. row.causal \in Int /\ (row.causal <= 0 \/ (q \in RequestsOf(b) /\ row.causal <= b.lens[q]))
  BY <1>1, RowsOfBatch
<1>3. Causal(r, i, id) <=> 0 <= id /\ id < row.causal
  <2>1. Mine(r).causal = [j \in DOMAIN RowsOf(b) |-> RowsOf(b)[j].causal]
    BY <1>1 DEF Arrays
  <2>2. At(Mine(r).causal, i, 0) = row.causal
    BY <2>1 DEF At
  <2> QED BY <2>2 DEF Causal
<1>4. Route(r) = StepRoute(step[r])
  <2>1. Packed(r) = BlocksIn(step[r])
    BY <1>1, BatchBlocks DEF Packed, BlocksIn
  <2> QED BY <2>1 DEF Route, StepRoute
<1> HIDE DEF b, row, q
<1>5. CASE ~(0 <= id /\ id < row.causal)
  <2>1. Slot(r, i, q, id) = -1
    BY <1>3, <1>5 DEF Slot, ActiveSlot, PoolSlot
  <2>2. ~DirectHas(b, row, id)
    BY <1>5 DEF DirectHas
  <2> QED BY <2>1, <2>2 DEF b, row, q
<1>6. CASE 0 <= id /\ id < row.causal
  <2>1. q \in RequestsOf(Batch(r)) /\ id \in Nat /\ id < Batch(r).lens[q] /\ Causal(r, i, id)
    <3>1. q \in RequestsOf(b) /\ row.causal <= b.lens[q]
      BY <1>2, <1>6
    <3>2. b.lens[q] \in Nat
      <4>1. b.lens \in Seq(Nat) /\ q \in 1..Len(b.lens)
        BY <1>1, <3>1 DEF WellFormed, RequestsOf
      <4> QED BY <4>1
    <3> QED BY <1>2, <1>3, <1>6, <3>1, <3>2 DEF b
  <2>2. DirectHas(b, row, id) <=> DirectPage(b, q, id) >= 0
    BY <1>6 DEF DirectHas, q
  <2>3. /\ Slot(r, i, q, id) >= 0 <=> DirectPage(b, q, id) >= 0
        /\ Slot(r, i, q, id) >= 0 =>
             At(gathered[r], Slot(r, i, q, id), Zero)
               = CacheRecord(id % W, DirectPage(b, q, id), (id \div W) % PageRecords, step[r])
    <3>1. CASE Route(r) = "active"
      BY <1>4, <2>1, <3>1, ActiveSlotExact DEF b
    <3>2. CASE Route(r) # "active"
      BY <1>4, <2>1, <3>2, PoolSlotExact DEF b
    <3> QED BY <3>1, <3>2
  <2> QED BY <2>2, <2>3 DEF b, row, q
<1> QED BY <1>5, <1>6

\* The compaction takes members of the set.
LEMMA InOrderFacts ==
  ASSUME NEW n \in Nat, NEW S \in SUBSET 1..n, NEW j \in DOMAIN InOrder(S)
  PROVE  InOrder(S)[j] \in S
<1> DEFINE R == {p \in S \X S : p[1] < p[2]}
           upTo(i) == {k \in S : k <= i}
           below(i) == {k \in S : <<k, i>> \in R}
<1>1. IsFiniteSet(1..n)
  BY FirstNumbers
<1>2. IsFiniteSet(S) /\ Cardinality(S) \in Nat
  BY <1>1, FS_Subset, FS_CardinalityType
<1>3. j \in 1..Cardinality(S)
  BY DEF InOrder
<1>0. (\A i, k \in S : <<i, k>> \in R <=> i < k) /\ \A i \in S : i \in Int
  <2>1. \A i, k \in S : <<i, k>> \in R <=> i < k
    <3> TAKE i, k \in S
    <3>1. <<i, k>> \in S \X S /\ <<i, k>>[1] = i /\ <<i, k>>[2] = k
      OBVIOUS
    <3> QED BY <3>1
  <2> QED BY <2>1
<1> HIDE DEF R
<1>4. StrictOrder(R, S)
  BY <1>0 DEF StrictOrder
<1>5. Places(R, S) \in Bijection(S, 0..Cardinality(S)-1)
  BY <1>2, <1>4, PlacesInOrder
<1>6. PICK i \in S : Places(R, S)[i] = j - 1
  <2>1. j - 1 \in 0..Cardinality(S)-1
    BY <1>2, <1>3
  <2>2. Places(R, S) \in Surjection(S, 0..Cardinality(S)-1)
    BY <1>5 DEF Bijection
  <2> QED BY <2>1, <2>2 DEF Surjection
<1>7. Cardinality(upTo(i)) = j
  <2>1. upTo(i) = below(i) \cup {i} /\ i \notin below(i) /\ below(i) \in SUBSET S
    <3>1. \A k \in S : (k <= i <=> <<k, i>> \in R \/ k = i) /\ (k = i => ~(<<k, i>> \in R))
      BY <1>0
    <3>2. \A k \in S : (k \in upTo(i) <=> k \in below(i) \/ k = i) /\ (k = i => k \notin below(i))
      BY <3>1
    <3>3. upTo(i) \in SUBSET S /\ below(i) \in SUBSET S /\ i \in S
      OBVIOUS
    <3> HIDE DEF upTo, below
    <3> QED BY <3>2, <3>3
  <2>2. Cardinality(below(i)) = j - 1
    BY <1>6 DEF Places
  <2> HIDE DEF upTo, below
  <2>3. IsFiniteSet(below(i))
    BY <1>2, <2>1, FS_Subset
  <2>4. Cardinality(below(i) \cup {i}) = Cardinality(below(i)) + 1
    BY <2>1, <2>3, FS_AddElement
  <2> QED BY <1>2, <1>3, <2>1, <2>2, <2>4
<1>8. InOrder(S)[j] = CHOOSE k \in S : Cardinality(upTo(k)) = j
  BY <1>3 DEF InOrder
<1> HIDE DEF upTo
<1> QED BY <1>6, <1>7, <1>8

\* The rows attention reads are those of a direct read.
LEMMA ReadsAreDirect ==
  ASSUME NEW r \in Ranks, Ready(r), NEW i \in DOMAIN RowsOf(Batch(r))
  PROVE  ReadsOf(r, i, RowsOf(Batch(r))[i].req) = DirectRead(Batch(r), step[r], RowsOf(Batch(r))[i])
<1> DEFINE b == Batch(r)
           row == RowsOf(b)[i]
           q == row.req
           S == {j \in 1..Len(TopK) : Slot(r, i, q, TopK[j]) >= 0}
           order == InOrder(S)
           entry(id) == CacheRecord(id % W, DirectPage(b, q, id), (id \div W) % PageRecords, step[r])
<1>1. ASSUME NEW j \in 1..Len(TopK)
      PROVE  /\ Slot(r, i, q, TopK[j]) >= 0 <=> DirectHas(b, row, TopK[j])
             /\ Slot(r, i, q, TopK[j]) >= 0 =>
                  At(gathered[r], Slot(r, i, q, TopK[j]), Zero) = entry(TopK[j])
  <2>1. TopK[j] \in Int
    BY CacheSizes
  <2> QED BY <2>1, SlotExact
<1>2. S = {j \in 1..Len(TopK) : DirectHas(b, row, TopK[j])}
  BY <1>1
<1>3. DirectRead(b, step[r], row) = [j \in DOMAIN order |-> entry(TopK[order[j]])]
  <2>1. DirectRead(b, step[r], row)
          = LET o == InOrder({j \in 1..Len(TopK) : DirectHas(b, row, TopK[j])})
            IN [j \in DOMAIN o |-> entry(TopK[o[j]])]
    BY DEF DirectRead, DirectHas, DirectPage
  <2> HIDE DEF entry, S
  <2> QED BY <1>2, <2>1
<1>4. ASSUME NEW j \in DOMAIN order PROVE order[j] \in S
  <2>1. S \in SUBSET 1..Len(TopK) /\ Len(TopK) \in Nat
    BY CacheSizes
  <2> HIDE DEF S
  <2> QED BY <2>1, InOrderFacts
<1>5. ReadsOf(r, i, q) = [j \in DOMAIN order |-> At(gathered[r], Slot(r, i, q, TopK[order[j]]), Zero)]
  BY DEF ReadsOf
<1>6. \A j \in DOMAIN order :
        At(gathered[r], Slot(r, i, q, TopK[order[j]]), Zero) = entry(TopK[order[j]])
  <2> TAKE j \in DOMAIN order
  <2>1. order[j] \in S
    BY <1>4
  <2>2. order[j] \in 1..Len(TopK) /\ Slot(r, i, q, TopK[order[j]]) >= 0
    <3> HIDE DEF order
    <3> QED BY <2>1
  <2> HIDE DEF order, S, entry
  <2> QED BY <1>1, <2>2
<1> HIDE DEF order, entry, S
<1> QED BY <1>3, <1>5, <1>6

-----------------------------------------------------------------------------
(* The collectives of a rank, numbered from 1 over all layers and steps.   *)

Turns    == IF phase2 THEN 2 ELSE 1     \* of a layer
PerStep  == Layers * Turns
StepOf(i) == (i - 1) \div PerStep + 1
TurnOf(i) == (i - 1) % Turns

\* What rank r contributes to collective i.
Message(r, s, t) ==
  IF ~phase2 THEN [kind |-> "records", data |-> <<RecordsIn(r, s), ValidityIn(r, s)>>]
  ELSE IF t = 0
       THEN IF StepRoute(s) = "active" THEN [kind |-> "records", data |-> RecordsIn(r, s)]
            ELSE [kind |-> "pool", data |-> PoolIn(r, s)]
       ELSE IF StepRoute(s) = "active" THEN [kind |-> "validity", data |-> ValidityIn(r, s)]
            ELSE [kind |-> "tables", data |-> work[s].tables[r]]
SentAs(r, i) == Message(r, StepOf(i), TurnOf(i))

\* What attention should read in a step.
ReadsIn(s) == [i \in DOMAIN RowsOf(work[s]) |-> DirectRead(work[s], s, RowsOf(work[s])[i])]

\* Collectives a rank has passed before the layer it is in, and in it.
BeforeLayer(r)   == IF step[r] = 0 THEN 0 ELSE (step[r] - 1) * PerStep + layer[r] * Turns
PassedIn(r) == IF stage[r] = "remap" THEN Turns ELSE IF stage[r] = "holes" THEN 1 ELSE 0

\* Where rank r can be: the host is at most one step ahead, and what the device
\* and the kernels use is of the step the device is in.
StageOf(r) ==
  /\ pinned[r] = built[r] /\ built[r] <= step[r] + 1
  /\ device[r] = step[r]
  /\ stage[r] = "idle" => layer[r] = (IF step[r] = 0 THEN 0 ELSE Layers)
  /\ stage[r] # "idle" => step[r] > 0 /\ layer[r] < Layers
  /\ stage[r] = "holes" => phase2
  /\ passed[r] = BeforeLayer(r) + PassedIn(r)
  /\ Len(wire[r]) = passed[r] + (IF stage[r] \in {"records", "holes"} THEN 1 ELSE 0)

SentBy(r) ==
  /\ Len(wire[r]) \in Nat /\ wire[r] = [i \in 1..Len(wire[r]) |-> SentAs(r, i)]
  /\ \A i \in 1..Len(wire[r]) : StepOf(i) \in 1..step[r]

\* What rank r has while it is in step s.
HasIn(r, s) ==
  /\ stage[r] \in {"holes", "remap"} => gathered[r] = GatheredIn(s)
  /\ stage[r] = "remap" => holes[r] = HolesIn(s)
  /\ layer[r] > 0 => reads[r] = ReadsIn(s)
Has(r) == \A s \in {step[r]} : HasIn(r, s)

PackedInv == PackedTypeOK /\ \A r \in Ranks : StageOf(r) /\ SentBy(r) /\ Has(r)

LEMMA RunKeeps ==
  ASSUME phase2' = phase2, work' = work
  PROVE  /\ Turns' = Turns /\ PerStep' = PerStep
         /\ \A i : StepOf(i)' = StepOf(i)
         /\ \A r, i : SentAs(r, i)' = SentAs(r, i)
         /\ \A s : GatheredIn(s)' = GatheredIn(s) /\ HolesIn(s)' = HolesIn(s) /\ ReadsIn(s)' = ReadsIn(s)
<1>1. Turns' = Turns /\ PerStep' = PerStep
  BY DEF Turns, PerStep
<1>2. \A i : StepOf(i)' = StepOf(i) /\ TurnOf(i)' = TurnOf(i)
  BY <1>1 DEF StepOf, TurnOf
<1>3. \A s : BlocksIn(s)' = BlocksIn(s) /\ StepRoute(s)' = StepRoute(s)
  BY DEF BlocksIn, StepRoute
<1>4. \A r, s, pb : PageIn(r, s, pb)' = PageIn(r, s, pb)
  BY DEF PageIn
<1>5. \A r, s : RecordsIn(r, s)' = RecordsIn(r, s) /\ ValidityIn(r, s)' = ValidityIn(r, s)
  BY <1>3, <1>4 DEF RecordsIn, ValidityIn
<1>6. \A r, s : PoolIn(r, s)' = PoolIn(r, s)
  BY DEF PoolIn
<1>7. ASSUME NEW r, NEW i PROVE SentAs(r, i)' = SentAs(r, i)
  <2>1. StepOf(i)' = StepOf(i) /\ TurnOf(i)' = TurnOf(i)
    BY <1>2
  <2>2. ASSUME NEW s, NEW t PROVE Message(r, s, t)' = Message(r, s, t)
    <3>1. /\ RecordsIn(r, s)' = RecordsIn(r, s) /\ ValidityIn(r, s)' = ValidityIn(r, s)
          /\ PoolIn(r, s)' = PoolIn(r, s) /\ StepRoute(s)' = StepRoute(s)
      BY <1>3, <1>5, <1>6
    <3>2. CASE ~phase2
      BY <3>1, <3>2 DEF Message
    <3>3. CASE phase2
      BY <3>1, <3>3 DEF Message
    <3> QED BY <3>2, <3>3
  <2>3. SentAs(r, i)' = Message(r, StepOf(i), TurnOf(i))'
    BY DEF SentAs
  <2> QED BY <2>1, <2>2, <2>3 DEF SentAs
<1>8. \A s : GatheredIn(s)' = GatheredIn(s)
  BY <1>3, <1>5 DEF GatheredIn, PoolIn
<1>9. \A s : HolesIn(s)' = HolesIn(s) /\ ReadsIn(s)' = ReadsIn(s)
  BY <1>3, <1>5 DEF HolesIn, ReadsIn
<1> QED BY <1>1, <1>2, <1>7, <1>8, <1>9

LEMMA ElsewhereKept ==
  ASSUME phase2' = phase2, work' = work, NEW p \in Ranks, StageOf(p), SentBy(p), Has(p),
         built'[p] = built[p], pinned'[p] = pinned[p], step'[p] = step[p], stage'[p] = stage[p],
         layer'[p] = layer[p], device'[p] = device[p], wire'[p] = wire[p], passed'[p] = passed[p],
         gathered'[p] = gathered[p], holes'[p] = holes[p], reads'[p] = reads[p]
  PROVE  StageOf(p)' /\ SentBy(p)' /\ Has(p)'
<1>1. StageOf(p)'
  BY RunKeeps DEF StageOf, BeforeLayer, PassedIn
<1>2. SentBy(p)'
  <2>1. (\A i : StepOf(i)' = StepOf(i)) /\ \A i : SentAs(p, i)' = SentAs(p, i)
    BY RunKeeps
  <2>2. wire'[p] = [i \in 1..Len(wire'[p]) |-> SentAs(p, i)']
    BY <2>1 DEF SentBy
  <2>3. Len(wire'[p]) \in Nat /\ \A i \in 1..Len(wire'[p]) : StepOf(i)' \in 1..step'[p]
    BY <2>1 DEF SentBy
  <2> QED BY <2>2, <2>3 DEF SentBy
<1>3. Has(p)'
  BY RunKeeps DEF Has, HasIn
<1> QED BY <1>1, <1>2, <1>3

LEMMA TurnFacts ==
  /\ Turns \in {1, 2} /\ Turns \in Nat /\ Turns > 0 /\ PerStep \in Nat /\ PerStep > 0
  /\ \A s \in Nat, l \in 0..Layers-1, t \in 0..Turns-1 :
       /\ s * PerStep + l * Turns + t \in Nat
       /\ StepOf(s * PerStep + l * Turns + t + 1) = s + 1
       /\ TurnOf(s * PerStep + l * Turns + t + 1) = t
       /\ s * PerStep + Layers * Turns = (s + 1) * PerStep
<1>1. Turns \in {1, 2} /\ Turns \in Nat /\ Turns > 0 /\ Layers \in Nat /\ Layers > 0
  BY CacheSizes DEF Turns
<1>2. PerStep \in Nat /\ PerStep > 0
  BY <1>1 DEF PerStep
<1>3. ASSUME NEW s \in Nat, NEW l \in 0..Layers-1, NEW t \in 0..Turns-1
      PROVE  /\ s * PerStep + l * Turns + t \in Nat
             /\ StepOf(s * PerStep + l * Turns + t + 1) = s + 1
             /\ TurnOf(s * PerStep + l * Turns + t + 1) = t
             /\ s * PerStep + Layers * Turns = (s + 1) * PerStep
  <2> DEFINE j == l * Turns + t
             m == s * PerStep + j
             c == s * Layers + l
  <2>1. j \in 0..PerStep-1 /\ l * Turns \in Nat /\ t < Turns /\ t \in Nat /\ l \in Nat
    BY <1>1, CellInside DEF PerStep
  <2>2. s * PerStep \in Nat /\ s * Layers \in Nat
    BY <1>1, <1>2, ProductMonotone
  <2>3. m = c * Turns + t
    <3>1. (s * Layers + l) * Turns = (s * Layers) * Turns + l * Turns
      BY <1>1, <2>1, <2>2
    <3>2. (s * Layers) * Turns = s * PerStep
      BY <1>1 DEF PerStep
    <3> QED BY <1>1, <2>1, <2>2, <3>1, <3>2
  <2>4. s * PerStep + Layers * Turns = (s + 1) * PerStep
    BY <1>1, <1>2 DEF PerStep
  <2>5. s * PerStep + l * Turns + t = m
    BY <2>1, <2>2
  <2>6. c \in Nat
    BY <2>1, <2>2
  <2> HIDE DEF j, c
  <2>7. j \in Nat /\ j < PerStep
    BY <1>2, <2>1
  <2>8. m \in Nat /\ m \div PerStep = s
    BY <1>2, <2>7, PartsUnique
  <2>9. (c * Turns + t) % Turns = t
    BY <1>1, <2>1, <2>6, PartsUnique
  <2> HIDE DEF m
  <2>10. (m + 1) - 1 = m
    BY <2>8
  <2>11. StepOf(m + 1) = s + 1 /\ TurnOf(m + 1) = t
    BY <2>3, <2>8, <2>9, <2>10 DEF StepOf, TurnOf
  <2> QED BY <2>4, <2>5, <2>8, <2>11
<1> QED BY <1>1, <1>2, <1>3

LEMMA PackedRank ==
  ASSUME PackedInv, NEW r \in Ranks
  PROVE  /\ phase2 \in BOOLEAN /\ Len(work) \in Nat
         /\ built[r] \in Nat /\ built[r] <= Len(work) /\ step[r] \in Nat /\ step[r] <= built[r]
         /\ layer[r] \in 0..Layers /\ layer[r] \in Nat /\ Layers \in Nat /\ Layers > 0
         /\ passed[r] \in Nat /\ passed[r] <= Len(wire[r])
         /\ stage[r] \in {"idle", "pack", "records", "holes", "remap"}
         /\ \A s \in 1..Len(work) : WellFormed(work[s])
         /\ r \in DOMAIN wire /\ r \in DOMAIN gathered /\ r \in DOMAIN holes /\ r \in DOMAIN reads
         /\ StageOf(r) /\ SentBy(r) /\ Has(r)
<1>1. PackedTypeOK /\ StageOf(r) /\ SentBy(r) /\ Has(r)
  BY DEF PackedInv
<1>2. phase2 \in BOOLEAN /\ work \in Workloads
  BY <1>1, CacheAssumption DEF PackedTypeOK
<1>3. Len(work) \in Nat /\ \A s \in 1..Len(work) : WellFormed(work[s])
  BY <1>2, WorkloadsAssumption
<1>4. /\ built[r] \in Nat /\ built[r] <= Len(work) /\ step[r] \in Nat /\ step[r] <= built[r]
      /\ passed[r] \in Nat /\ passed[r] <= Len(wire[r])
      /\ stage[r] \in {"idle", "pack", "records", "holes", "remap"}
  BY <1>1, <1>3 DEF PackedTypeOK
<1>5. layer[r] \in 0..Layers /\ layer[r] \in Nat /\ Layers \in Nat /\ Layers > 0
  BY <1>1, CacheSizes DEF PackedTypeOK
<1>6. r \in DOMAIN wire /\ r \in DOMAIN gathered /\ r \in DOMAIN holes /\ r \in DOMAIN reads
  BY <1>1 DEF PackedTypeOK
<1> QED BY <1>1, <1>2, <1>3, <1>4, <1>5, <1>6

\* A rank in a step: its batch, and how many blocks and which route it has.
LEMMA InStep ==
  ASSUME PackedInv, NEW r \in Ranks, step[r] > 0
  PROVE  /\ step[r] \in 1..Len(work) /\ WellFormed(Batch(r)) /\ Batch(r) = work[step[r]]
         /\ Packed(r) = BlocksIn(step[r]) /\ BlocksIn(step[r]) \in Nat
         /\ Route(r) = StepRoute(step[r])
         /\ \A pb : PackedPage(r, pb) = PageIn(r, step[r], pb)
<1>1. step[r] \in 1..Len(work) /\ device[r] = step[r]
  BY PackedRank DEF StageOf
<1>2. WellFormed(Batch(r)) /\ Batch(r) = work[step[r]]
  BY <1>1, PackedRank DEF Batch
<1>3. Packed(r) = BlocksIn(step[r]) /\ BlocksIn(step[r]) \in Nat
  BY <1>2, BatchBlocks DEF Packed, BlocksIn
<1>4. Route(r) = StepRoute(step[r])
  BY <1>3 DEF Route, StepRoute
<1>5. \A pb : PackedPage(r, pb) = PageIn(r, step[r], pb)
  BY <1>1, <1>2 DEF PackedPage, PageOf, PageIn, Mine
<1> QED BY <1>1, <1>2, <1>3, <1>4, <1>5

\* One more contribution.
LEMMA AppendSent ==
  ASSUME NEW r, NEW w, Len(w) \in Nat, w = [i \in 1..Len(w) |-> SentAs(r, i)],
         NEW m, m = SentAs(r, Len(w) + 1)
  PROVE  Len(Append(w, m)) = Len(w) + 1 /\ Append(w, m) = [i \in 1..Len(w)+1 |-> SentAs(r, i)]
<1> DEFINE n == Len(w)
           T == {SentAs(r, i) : i \in 1..n+1}
<1>1. \A i \in 1..n+1 : SentAs(r, i) \in T
  OBVIOUS
<1> HIDE DEF n, T
<1>2. n \in Nat /\ \A i \in 1..n : i \in 1..n+1
  BY DEF n
<1>3. w \in [1..n -> T]
  BY <1>1, <1>2 DEF n
<1>4. w \in Seq(T) /\ m \in T /\ Len(w) = n
  <2>1. n + 1 \in 1..n+1
    BY <1>2
  <2> QED BY <1>1, <1>2, <1>3, <2>1 DEF n
<1>5. /\ Append(w, m) \in Seq(T) /\ Len(Append(w, m)) = n + 1
      /\ \A i \in 1..n : Append(w, m)[i] = w[i]
      /\ Append(w, m)[n + 1] = m
  BY <1>2, <1>4
<1>6. Append(w, m) \in [1..n+1 -> T]
  <2> DEFINE v == Append(w, m)
  <2>1. v \in Seq(T) /\ Len(v) = n + 1
    BY <1>5
  <2> HIDE DEF v
  <2>2. v \in [1..n+1 -> T]
    BY <2>1
  <2> QED BY <2>2 DEF v
<1>7. \A i \in 1..n+1 : Append(w, m)[i] = SentAs(r, i)
  <2> TAKE i \in 1..n+1
  <2>1. CASE i = n + 1
    BY <1>5, <2>1 DEF n
  <2>2. CASE i # n + 1
    <3>1. i \in 1..n
      BY <1>2, <2>2
    <3>2. w[i] = SentAs(r, i)
      BY <3>1 DEF n
    <3> QED BY <1>5, <3>1, <3>2
  <2> QED BY <2>1, <2>2
<1>8. Append(w, m) = [i \in 1..n+1 |-> SentAs(r, i)]
  BY <1>6, <1>7
<1> QED BY <1>5, <1>8 DEF n

\* The number of the collective a rank is in.
LEMMA NumberOf ==
  ASSUME PackedInv, NEW r \in Ranks, step[r] > 0, layer[r] < Layers, NEW t \in 0..Turns-1
  PROVE  /\ BeforeLayer(r) \in Nat /\ StepOf(BeforeLayer(r) + t + 1) = step[r] /\ TurnOf(BeforeLayer(r) + t + 1) = t
<1>1. step[r] \in Nat /\ layer[r] \in 0..Layers-1 /\ step[r] - 1 \in Nat
  BY PackedRank
<1> DEFINE s == step[r] - 1
           l == layer[r]
<1>2. BeforeLayer(r) = s * PerStep + l * Turns
  BY <1>1 DEF BeforeLayer
<1>3. s + 1 = step[r]
  BY <1>1
<1>4. s * PerStep \in Nat /\ l * Turns \in Nat
  BY <1>1, TurnFacts, ProductMonotone
<1> HIDE DEF s, l
<1>5. StepOf(s * PerStep + l * Turns + t + 1) = s + 1 /\ TurnOf(s * PerStep + l * Turns + t + 1) = t
  BY <1>1, TurnFacts DEF s, l
<1> QED BY <1>2, <1>3, <1>4, <1>5

\* When all have contributed, what a rank takes of another is its message of
\* the same step and turn.
LEMMA Collected ==
  ASSUME PackedInv, NEW r \in Ranks, stage[r] \in {"records", "holes"}, AllContributed(r), NEW o \in Ranks
  PROVE  From(o, r) = Message(o, step[r], PassedIn(r)).data
<1>1. /\ step[r] > 0 /\ layer[r] < Layers /\ passed[r] = BeforeLayer(r) + PassedIn(r) /\ passed[r] \in Nat
  BY PackedRank DEF StageOf
<1>2. PassedIn(r) \in 0..Turns-1
  <2>1. stage[r] = "holes" => Turns = 2
    BY PackedRank DEF StageOf, Turns
  <2> QED BY <2>1, TurnFacts DEF PassedIn
<1>3. /\ BeforeLayer(r) \in Nat /\ StepOf(BeforeLayer(r) + PassedIn(r) + 1) = step[r]
      /\ TurnOf(BeforeLayer(r) + PassedIn(r) + 1) = PassedIn(r)
  BY <1>1, <1>2, NumberOf
<1>4. /\ Len(wire[o]) \in Nat /\ Len(wire[o]) > passed[r]
      /\ wire[o] = [i \in 1..Len(wire[o]) |-> SentAs(o, i)]
  BY PackedRank DEF AllContributed, SentBy
<1>5. passed[r] + 1 \in 1..Len(wire[o])
  BY <1>1, <1>4
<1>6. wire[o][passed[r] + 1] = SentAs(o, passed[r] + 1)
  BY <1>4, <1>5
<1>7. SentAs(o, passed[r] + 1) = Message(o, step[r], PassedIn(r))
  BY <1>1, <1>3 DEF SentAs
<1> QED BY <1>6, <1>7 DEF From

LEMMA PackedInvInit == PackedInit => PackedInv
<1> SUFFICES ASSUME PackedInit PROVE PackedInv
  OBVIOUS
<1> USE DEF PackedInit
<1>1. PackedTypeOK
  <2>1. work \in Workloads /\ Len(work) \in Nat /\ Layers \in Nat
    BY WorkloadsAssumption, CacheSizes
  <2>2. 0 \in 0..Len(work) /\ 0 \in 0..Layers
    BY <2>1
  <2>3. \A r \in Ranks : Len(wire[r]) = 0
    OBVIOUS
  <2> QED BY <2>1, <2>2, <2>3 DEF PackedTypeOK
<1>2. ASSUME NEW r \in Ranks PROVE StageOf(r) /\ SentBy(r) /\ Has(r)
  <2>1. /\ built[r] = 0 /\ pinned[r] = 0 /\ step[r] = 0 /\ device[r] = 0 /\ layer[r] = 0
        /\ stage[r] = "idle" /\ passed[r] = 0 /\ wire[r] = <<>> /\ Len(wire[r]) = 0
    OBVIOUS
  <2>2. StageOf(r)
    BY <2>1 DEF StageOf, BeforeLayer, PassedIn
  <2>3. SentBy(r)
    <3>1. [i \in 1..0 |-> SentAs(r, i)] = <<>>
      OBVIOUS
    <3> QED BY <2>1, <3>1 DEF SentBy
  <2>4. Has(r)
    BY <2>1 DEF Has, HasIn
  <2> QED BY <2>2, <2>3, <2>4
<1> QED BY <1>1, <1>2 DEF PackedInv

\* A step of rank r leaves what the invariant says of the others.
LEMMA OthersKept ==
  ASSUME PackedInv, phase2' = phase2, work' = work, NEW r \in Ranks,
         \A p \in Ranks : p # r =>
           /\ built'[p] = built[p] /\ pinned'[p] = pinned[p] /\ step'[p] = step[p]
           /\ stage'[p] = stage[p] /\ layer'[p] = layer[p] /\ device'[p] = device[p]
           /\ wire'[p] = wire[p] /\ passed'[p] = passed[p] /\ gathered'[p] = gathered[p]
           /\ holes'[p] = holes[p] /\ reads'[p] = reads[p],
         PackedTypeOK', StageOf(r)', SentBy(r)', Has(r)'
  PROVE  PackedInv'
<1>1. \A p \in Ranks : StageOf(p)' /\ SentBy(p)' /\ Has(p)'
  <2> TAKE p \in Ranks
  <2>1. CASE p = r
    BY <2>1
  <2>2. CASE p # r
    <3>1. StageOf(p) /\ SentBy(p) /\ Has(p)
      BY DEF PackedInv
    <3> QED BY <2>2, <3>1, ElsewhereKept
  <2> QED BY <2>1, <2>2
<1>2. Ranks' = Ranks
  BY DEF Ranks
<1> QED BY <1>1, <1>2 DEF PackedInv

LEMMA BuildKeeps ==
  ASSUME PackedInv, NEW r \in Ranks, BuildStep(r)
  PROVE  PackedInv'
<1> USE DEF BuildStep, HostMayBuild
<1>0. PackedTypeOK /\ StageOf(r) /\ SentBy(r) /\ Has(r)
  BY DEF PackedInv
<1>1. built[r] \in Nat /\ built[r] + 1 \in 0..Len(work) /\ step[r] \in Nat /\ step[r] = built[r]
  BY PackedRank
<1>2. /\ built'[r] = built[r] + 1 /\ pinned'[r] = built[r] + 1
      /\ \A p \in Ranks : p # r => built'[p] = built[p] /\ pinned'[p] = pinned[p]
  BY <1>0 DEF PackedTypeOK
<1>3. PackedTypeOK'
  <2>1. built' \in [Ranks -> 0..Len(work)] /\ pinned' \in [Ranks -> 0..Len(work)]
    BY <1>0, <1>1 DEF PackedTypeOK
  <2>2. \A p \in Ranks : pinned'[p] <= built'[p] /\ step[p] <= built'[p] /\ passed[p] <= Len(wire[p])
    <3> TAKE p \in Ranks
    <3>1. pinned[p] <= built[p] /\ step[p] <= built[p] /\ passed[p] <= Len(wire[p])
      BY <1>0 DEF PackedTypeOK
    <3>2. CASE p = r
      BY <1>1, <1>2, <3>1, <3>2
    <3>3. CASE p # r
      BY <1>2, <3>1, <3>3
    <3> QED BY <3>2, <3>3
  <2> QED BY <1>0, <2>1, <2>2 DEF PackedTypeOK
<1>4. StageOf(r)'
  BY <1>0, <1>1, <1>2, RunKeeps DEF StageOf, BeforeLayer, PassedIn
<1>5. SentBy(r)' /\ Has(r)'
  <2>1. \A i : SentAs(r, i)' = SentAs(r, i) /\ StepOf(i)' = StepOf(i)
    BY RunKeeps
  <2>2. SentBy(r)'
    <3>1. wire'[r] = [i \in 1..Len(wire'[r]) |-> SentAs(r, i)']
      BY <1>0, <2>1 DEF SentBy
    <3> QED BY <1>0, <2>1, <3>1 DEF SentBy
  <2> QED BY <1>0, <2>2, RunKeeps DEF Has, HasIn
<1> QED BY <1>2, <1>3, <1>4, <1>5, OthersKept

LEMMA RefuseKeeps ==
  ASSUME PackedInv, NEW r \in Ranks, Refuse(r)
  PROVE  PackedInv'
<1>0. PackedTypeOK /\ StageOf(r) /\ SentBy(r) /\ Has(r)
  BY DEF PackedInv
<1>1. PackedTypeOK'
  BY <1>0 DEF PackedTypeOK, Refuse
<1>2. StageOf(r)' /\ SentBy(r)' /\ Has(r)'
  BY <1>0, ElsewhereKept DEF Refuse
<1> QED BY <1>1, <1>2, OthersKept DEF Refuse

LEMMA UploadKeeps ==
  ASSUME PackedInv, NEW r \in Ranks, Upload(r)
  PROVE  PackedInv'
<1>0. PackedTypeOK /\ StageOf(r) /\ SentBy(r) /\ Has(r)
  BY DEF PackedInv
<1>1. /\ built[r] \in Nat /\ step[r] \in Nat /\ built[r] = step[r] + 1 /\ built[r] <= Len(work)
      /\ Len(work) \in Nat /\ pinned[r] = step[r] + 1 /\ Layers > 0 /\ Layers \in Nat
  BY <1>0, PackedRank DEF Upload, StageOf
<1>2. /\ step'[r] = step[r] + 1 /\ device'[r] = step[r] + 1 /\ layer'[r] = 0 /\ stage'[r] = "pack"
      /\ \A p \in Ranks : p # r => /\ step'[p] = step[p] /\ device'[p] = device[p]
                                   /\ layer'[p] = layer[p] /\ stage'[p] = stage[p]
  BY <1>0, <1>1 DEF PackedTypeOK, Upload
<1>3. PackedTypeOK'
  <2>1. /\ step' \in [Ranks -> 0..Len(work)] /\ device' \in [Ranks -> 0..Len(work)]
        /\ layer' \in [Ranks -> 0..Layers]
        /\ stage' \in [Ranks -> {"idle", "pack", "records", "holes", "remap"}]
    BY <1>0, <1>1 DEF PackedTypeOK, Upload
  <2>2. \A p \in Ranks : pinned[p] <= built[p] /\ step'[p] <= built[p] /\ passed[p] <= Len(wire[p])
    <3> TAKE p \in Ranks
    <3>1. pinned[p] <= built[p] /\ step[p] <= built[p] /\ passed[p] <= Len(wire[p])
      BY <1>0 DEF PackedTypeOK
    <3>2. CASE p = r
      BY <1>1, <1>2, <3>1, <3>2
    <3>3. CASE p # r
      BY <1>2, <3>1, <3>3
    <3> QED BY <3>2, <3>3
  <2> QED BY <1>0, <2>1, <2>2 DEF PackedTypeOK, Upload
<1>4. phase2' = phase2 /\ work' = work /\ wire'[r] = wire[r]
  BY DEF Upload
<1>5. BeforeLayer(r)' = BeforeLayer(r)
  <2>1. BeforeLayer(r)' = ((step[r] + 1) - 1) * PerStep + 0 * Turns
    BY <1>1, <1>2, <1>4, RunKeeps DEF BeforeLayer
  <2>2. ((step[r] + 1) - 1) * PerStep + 0 * Turns = step[r] * PerStep
    BY <1>1, TurnFacts
  <2>3. CASE step[r] = 0
    BY <2>1, <2>2, <2>3, TurnFacts DEF BeforeLayer
  <2>4. CASE step[r] # 0
    <3>1. layer[r] = Layers
      BY <1>0, <2>4 DEF StageOf, Upload
    <3>2. BeforeLayer(r) = (step[r] - 1) * PerStep + Layers * Turns
      BY <2>4, <3>1 DEF BeforeLayer
    <3>3. (step[r] - 1) * PerStep + Layers * Turns = step[r] * PerStep
      <4>1. step[r] - 1 \in Nat /\ 0 \in 0..Layers-1 /\ 0 \in 0..Turns-1
        BY <1>1, <2>4, TurnFacts
      <4>2. (step[r] - 1) * PerStep + Layers * Turns = ((step[r] - 1) + 1) * PerStep
        BY <4>1, TurnFacts
      <4>3. (step[r] - 1) + 1 = step[r]
        BY <1>1
      <4> QED BY <4>2, <4>3
    <3> QED BY <2>1, <2>2, <3>2, <3>3
  <2> QED BY <2>3, <2>4
<1>6. StageOf(r)'
  <2>1. PassedIn(r) = 0 /\ PassedIn(r)' = 0
    BY <1>2 DEF PassedIn, Upload
  <2> QED BY <1>0, <1>1, <1>2, <1>4, <1>5, <2>1 DEF StageOf, Upload
<1>7. SentBy(r)'
  <2>1. \A i : SentAs(r, i)' = SentAs(r, i) /\ StepOf(i)' = StepOf(i)
    BY <1>4, RunKeeps
  <2>2. wire'[r] = [i \in 1..Len(wire'[r]) |-> SentAs(r, i)']
    BY <1>0, <1>4, <2>1 DEF SentBy
  <2>3. \A i \in 1..Len(wire[r]) : StepOf(i) \in 1..step[r] + 1
    <3>1. \A i \in 1..Len(wire[r]) : StepOf(i) \in 1..step[r]
      BY <1>0 DEF SentBy
    <3> QED BY <1>1, <3>1
  <2> QED BY <1>0, <1>2, <1>4, <2>1, <2>2, <2>3 DEF SentBy
<1>8. Has(r)'
  BY <1>2 DEF Has, HasIn
<1> QED BY <1>2, <1>3, <1>4, <1>6, <1>7, <1>8, OthersKept DEF Upload

\* What a kernel packs, sends of the pool and says of its blocks.
LEMMA Packs ==
  ASSUME PackedInv, NEW r \in Ranks, step[r] > 0
  PROVE  /\ ActiveRecords(r) = RecordsIn(r, step[r]) /\ Validity(r) = ValidityIn(r, step[r])
         /\ PoolRecords(r) = PoolIn(r, step[r]) /\ Batch(r).tables[r] = work[step[r]].tables[r]
<1>1. /\ Packed(r) = BlocksIn(step[r]) /\ Batch(r) = work[step[r]]
      /\ \A pb : PackedPage(r, pb) = PageIn(r, step[r], pb)
  BY InStep
<1>2. ActiveRecords(r) = RecordsIn(r, step[r])
  BY <1>1 DEF ActiveRecords, RecordsIn
<1>3. Validity(r) = ValidityIn(r, step[r])
  BY <1>1 DEF Validity, ValidityIn
<1>4. PoolRecords(r) = PoolIn(r, step[r])
  BY DEF PoolRecords, PoolIn
<1> QED BY <1>1, <1>2, <1>3, <1>4

LEMMA SendKept ==
  ASSUME PackedInv, NEW r \in Ranks, step[r] > 0, phase2' = phase2, work' = work,
         step'[r] = step[r], StepOf(Len(wire[r]) + 1) = step[r],
         wire'[r] = Append(wire[r], SentAs(r, Len(wire[r]) + 1))
  PROVE  SentBy(r)' /\ Len(wire'[r]) = Len(wire[r]) + 1
<1>1. SentBy(r) /\ step[r] \in Nat
  BY PackedRank
<1> DEFINE n == Len(wire[r])
<1>2. Len(wire'[r]) = n + 1 /\ wire'[r] = [i \in 1..n+1 |-> SentAs(r, i)] /\ n \in Nat
  BY <1>1, AppendSent DEF SentBy
<1>3. \A i : SentAs(r, i)' = SentAs(r, i) /\ StepOf(i)' = StepOf(i)
  BY RunKeeps
<1>4. \A i \in 1..n+1 : StepOf(i) \in 1..step[r]
  <2> TAKE i \in 1..n+1
  <2>1. CASE i = n + 1
    BY <1>1, <2>1
  <2>2. CASE i # n + 1
    <3>1. i \in 1..n
      BY <1>2, <2>2
    <3> QED BY <1>1, <3>1 DEF SentBy
  <2> QED BY <2>1, <2>2
<1>5. wire'[r] = [i \in 1..Len(wire'[r]) |-> SentAs(r, i)']
  BY <1>2, <1>3
<1>6. Len(wire'[r]) \in Nat /\ \A i \in 1..Len(wire'[r]) : StepOf(i)' \in 1..step'[r]
  BY <1>2, <1>3, <1>4
<1> QED BY <1>2, <1>5, <1>6 DEF SentBy

LEMMA PackKeeps ==
  ASSUME PackedInv, NEW r \in Ranks, PackPages(r)
  PROVE  PackedInv'
<1>0. PackedTypeOK /\ StageOf(r) /\ SentBy(r) /\ Has(r)
  BY DEF PackedInv
<1>1. step[r] > 0 /\ layer[r] < Layers /\ Len(wire[r]) = BeforeLayer(r) /\ passed[r] = BeforeLayer(r)
  <2>1. PassedIn(r) = 0 /\ stage[r] = "pack"
    BY DEF PassedIn, PackPages
  <2>2. passed[r] = BeforeLayer(r) + 0 /\ Len(wire[r]) = passed[r] + 0 /\ passed[r] \in Nat
    BY <1>0, <2>1, PackedRank DEF StageOf
  <2>3. step[r] > 0 /\ layer[r] < Layers
    BY <1>0, <2>1 DEF StageOf
  <2>4. BeforeLayer(r) \in Nat
    BY <2>3, NumberOf, TurnFacts
  <2> QED BY <2>2, <2>3, <2>4
<1>2. /\ BeforeLayer(r) \in Nat /\ StepOf(BeforeLayer(r) + 1) = step[r] /\ TurnOf(BeforeLayer(r) + 1) = 0
  <2>1. 0 \in 0..Turns-1
    BY TurnFacts
  <2>2. /\ BeforeLayer(r) \in Nat /\ StepOf(BeforeLayer(r) + 0 + 1) = step[r] /\ TurnOf(BeforeLayer(r) + 0 + 1) = 0
    BY <1>1, <2>1, NumberOf
  <2>3. BeforeLayer(r) + 0 + 1 = BeforeLayer(r) + 1
    BY <2>2
  <2> QED BY <2>2, <2>3
<1>3. wire' = [wire EXCEPT ![r] = Append(@, SentAs(r, Len(wire[r]) + 1))]
  <2>1. SentAs(r, Len(wire[r]) + 1) = Message(r, step[r], 0)
    BY <1>1, <1>2 DEF SentAs
  <2>2. Route(r) = StepRoute(step[r])
    BY <1>1, InStep
  <2>3. Message(r, step[r], 0) =
          IF Route(r) = "active"
          THEN [kind |-> "records", data |-> IF phase2 THEN ActiveRecords(r)
                                             ELSE <<ActiveRecords(r), Validity(r)>>]
          ELSE [kind |-> "pool", data |-> PoolRecords(r)]
    BY <1>1, <2>2, Packs DEF Message, Route
  <2> QED BY <2>1, <2>3 DEF PackPages, Contribute
<1>4. /\ wire'[r] = Append(wire[r], SentAs(r, Len(wire[r]) + 1)) /\ stage'[r] = "records"
      /\ \A p \in Ranks : p # r => wire'[p] = wire[p] /\ stage'[p] = stage[p]
  BY <1>0, <1>3 DEF PackedTypeOK, PackPages
<1>5. phase2' = phase2 /\ work' = work /\ step'[r] = step[r] /\ layer'[r] = layer[r] /\ passed'[r] = passed[r]
  BY DEF PackPages
<1>6. SentBy(r)' /\ Len(wire'[r]) = Len(wire[r]) + 1
  BY <1>1, <1>2, <1>4, <1>5, SendKept
<1>7. StageOf(r)'
  <2>1. BeforeLayer(r)' = BeforeLayer(r) /\ PassedIn(r)' = 0
    BY <1>4, <1>5, RunKeeps DEF BeforeLayer, PassedIn
  <2>2. stage'[r] \in {"records", "holes"} /\ stage'[r] # "idle" /\ stage'[r] # "holes"
    BY <1>4
  <2> QED BY <1>0, <1>1, <1>2, <1>4, <1>5, <1>6, <2>1, <2>2 DEF StageOf, PackPages
<1>8. Has(r)'
  <2>1. stage'[r] \notin {"holes", "remap"}
    BY <1>4
  <2> QED BY <1>0, <1>5, <2>1, RunKeeps DEF Has, HasIn, PackPages
<1>9. PackedTypeOK'
  <2>1. stage' \in [Ranks -> {"idle", "pack", "records", "holes", "remap"}] /\ DOMAIN wire' = Ranks
    BY <1>0, <1>3 DEF PackedTypeOK, PackPages
  <2>2. \A p \in Ranks : pinned[p] <= built[p] /\ step[p] <= built[p] /\ passed[p] <= Len(wire'[p])
    <3> TAKE p \in Ranks
    <3>1. pinned[p] <= built[p] /\ step[p] <= built[p] /\ passed[p] <= Len(wire[p])
      BY <1>0 DEF PackedTypeOK
    <3>2. CASE p = r
      BY <1>1, <1>2, <1>6, <3>1, <3>2
    <3>3. CASE p # r
      BY <1>4, <3>1, <3>3
    <3> QED BY <3>2, <3>3
  <2> QED BY <1>0, <2>1, <2>2 DEF PackedTypeOK, PackPages
<1> QED BY <1>4, <1>6, <1>7, <1>8, <1>9, OthersKept DEF PackPages

\* The gathered blocks of all ranks.
LEMMA GathersTheStep ==
  ASSUME PackedInv, NEW r \in Ranks, AllContributed(r), phase2
  PROVE  /\ stage[r] = "records" =>
              Concat((IF Route(r) = "active" THEN Packed(r) ELSE PoolPages) * PageRecords,
                     [o \in Ranks |-> From(o, r)]) = GatheredIn(step[r])
         /\ stage[r] = "holes" =>
              (IF Route(r) = "active" THEN Concat(Packed(r), [o \in Ranks |-> From(o, r)])
               ELSE [o \in Ranks |-> From(o, r)]) = HolesIn(step[r])
<1>1. SUFFICES ASSUME stage[r] \in {"records", "holes"} PROVE
         /\ stage[r] = "records" =>
              Concat((IF Route(r) = "active" THEN Packed(r) ELSE PoolPages) * PageRecords,
                     [o \in Ranks |-> From(o, r)]) = GatheredIn(step[r])
         /\ stage[r] = "holes" =>
              (IF Route(r) = "active" THEN Concat(Packed(r), [o \in Ranks |-> From(o, r)])
               ELSE [o \in Ranks |-> From(o, r)]) = HolesIn(step[r])
  OBVIOUS
<1>2. \A o \in Ranks : From(o, r) = Message(o, step[r], PassedIn(r)).data
  BY <1>1, Collected
<1>3. step[r] > 0
  BY <1>1, PackedRank DEF StageOf
<1>4. Packed(r) = BlocksIn(step[r]) /\ Route(r) = StepRoute(step[r])
  BY <1>3, InStep
<1>5. ASSUME stage[r] = "records"
      PROVE  Concat((IF Route(r) = "active" THEN Packed(r) ELSE PoolPages) * PageRecords,
                    [o \in Ranks |-> From(o, r)]) = GatheredIn(step[r])
  <2>1. PassedIn(r) = 0
    BY <1>5 DEF PassedIn
  <2>2. \A o \in Ranks : From(o, r) = IF StepRoute(step[r]) = "active" THEN RecordsIn(o, step[r]) ELSE PoolIn(o, step[r])
    BY <1>2, <2>1 DEF Message
  <2>3. [o \in Ranks |-> From(o, r)]
          = [o \in Ranks |-> IF StepRoute(step[r]) = "active" THEN RecordsIn(o, step[r]) ELSE PoolIn(o, step[r])]
    BY <2>2
  <2> QED BY <1>4, <2>3 DEF GatheredIn
<1>6. ASSUME stage[r] = "holes"
      PROVE  (IF Route(r) = "active" THEN Concat(Packed(r), [o \in Ranks |-> From(o, r)])
              ELSE [o \in Ranks |-> From(o, r)]) = HolesIn(step[r])
  <2>1. PassedIn(r) = 1
    BY <1>6 DEF PassedIn
  <2>2. \A o \in Ranks : From(o, r) = IF StepRoute(step[r]) = "active" THEN ValidityIn(o, step[r]) ELSE work[step[r]].tables[o]
    BY <1>2, <2>1 DEF Message
  <2>3. CASE StepRoute(step[r]) = "active"
    <3>1. [o \in Ranks |-> From(o, r)] = [o \in Ranks |-> ValidityIn(o, step[r])]
      BY <2>2, <2>3
    <3> QED BY <1>4, <2>3, <3>1 DEF HolesIn
  <2>4. CASE StepRoute(step[r]) # "active"
    <3>1. [o \in Ranks |-> From(o, r)] = [o \in Ranks |-> work[step[r]].tables[o]]
      BY <2>2, <2>4
    <3> QED BY <1>4, <2>4, <3>1 DEF HolesIn
  <2> QED BY <2>3, <2>4
<1> QED BY <1>5, <1>6

LEMMA GatherRecordsKeeps ==
  ASSUME PackedInv, NEW r \in Ranks, GatherRecords(r)
  PROVE  PackedInv'
<1>0. PackedTypeOK /\ StageOf(r) /\ SentBy(r) /\ Has(r)
  BY DEF PackedInv
<1>1. /\ step[r] > 0 /\ layer[r] < Layers /\ passed[r] = BeforeLayer(r) /\ Len(wire[r]) = BeforeLayer(r) + 1
      /\ BeforeLayer(r) \in Nat /\ Turns = 2 /\ phase2 /\ stage[r] = "records"
  <2>1. PassedIn(r) = 0 /\ stage[r] = "records" /\ stage[r] \in {"records", "holes"} /\ phase2
    BY DEF PassedIn, GatherRecords
  <2>2. passed[r] = BeforeLayer(r) + 0 /\ Len(wire[r]) = passed[r] + 1 /\ passed[r] \in Nat
    BY <1>0, <2>1, PackedRank DEF StageOf
  <2>3. step[r] > 0 /\ layer[r] < Layers
    BY <1>0, <2>1 DEF StageOf
  <2>4. BeforeLayer(r) \in Nat
    BY <2>3, NumberOf, TurnFacts
  <2> QED BY <2>1, <2>2, <2>3, <2>4 DEF Turns
<1>2. /\ StepOf(Len(wire[r]) + 1) = step[r] /\ TurnOf(Len(wire[r]) + 1) = 1
  <2>1. 1 \in 0..Turns-1
    BY <1>1
  <2> QED BY <1>1, <2>1, NumberOf
<1>3. wire' = [wire EXCEPT ![r] = Append(@, SentAs(r, Len(wire[r]) + 1))]
  <2>1. SentAs(r, Len(wire[r]) + 1) = Message(r, step[r], 1)
    BY <1>1, <1>2 DEF SentAs
  <2>2. Route(r) = StepRoute(step[r])
    BY <1>1, InStep
  <2>3. Message(r, step[r], 1) =
          IF Route(r) = "active" THEN [kind |-> "validity", data |-> Validity(r)]
          ELSE [kind |-> "tables", data |-> Batch(r).tables[r]]
    BY <1>1, <2>2, Packs DEF Message
  <2> QED BY <2>1, <2>3 DEF GatherRecords, Contribute
<1>4. /\ wire'[r] = Append(wire[r], SentAs(r, Len(wire[r]) + 1)) /\ stage'[r] = "holes"
      /\ passed'[r] = passed[r] + 1 /\ gathered'[r] = GatheredIn(step[r])
      /\ \A p \in Ranks : p # r => /\ wire'[p] = wire[p] /\ stage'[p] = stage[p]
                                   /\ passed'[p] = passed[p] /\ gathered'[p] = gathered[p]
  <2>1. gathered' = [gathered EXCEPT ![r] = GatheredIn(step[r])]
    BY <1>1, GathersTheStep DEF GatherRecords
  <2> QED BY <1>0, <1>3, <2>1 DEF PackedTypeOK, GatherRecords
<1>5. phase2' = phase2 /\ work' = work /\ step'[r] = step[r] /\ layer'[r] = layer[r] /\ reads'[r] = reads[r]
  BY DEF GatherRecords
<1>6. SentBy(r)' /\ Len(wire'[r]) = Len(wire[r]) + 1
  BY <1>1, <1>2, <1>4, <1>5, SendKept
<1>7. StageOf(r)'
  <2>1. BeforeLayer(r)' = BeforeLayer(r) /\ PassedIn(r)' = 1
    BY <1>4, <1>5, RunKeeps DEF BeforeLayer, PassedIn
  <2>2. stage'[r] \in {"records", "holes"} /\ stage'[r] # "idle"
    BY <1>4
  <2> QED BY <1>0, <1>1, <1>4, <1>5, <1>6, <2>1, <2>2 DEF StageOf, GatherRecords
<1>8. Has(r)'
  <2>1. stage'[r] # "remap"
    BY <1>4
  <2> QED BY <1>0, <1>4, <1>5, <2>1, RunKeeps DEF Has, HasIn
<1>9. PackedTypeOK'
  <2>1. /\ stage' \in [Ranks -> {"idle", "pack", "records", "holes", "remap"}] /\ DOMAIN wire' = Ranks
        /\ passed' \in [Ranks -> Nat] /\ DOMAIN gathered' = Ranks
    BY <1>0, <1>3 DEF PackedTypeOK, GatherRecords
  <2>2. \A p \in Ranks : pinned[p] <= built[p] /\ step[p] <= built[p] /\ passed'[p] <= Len(wire'[p])
    <3> TAKE p \in Ranks
    <3>1. pinned[p] <= built[p] /\ step[p] <= built[p] /\ passed[p] <= Len(wire[p])
      BY <1>0 DEF PackedTypeOK
    <3>2. CASE p = r
      BY <1>1, <1>4, <1>6, <3>1, <3>2
    <3>3. CASE p # r
      BY <1>4, <3>1, <3>3
    <3> QED BY <3>2, <3>3
  <2> QED BY <1>0, <2>1, <2>2 DEF PackedTypeOK, GatherRecords
<1> QED BY <1>4, <1>6, <1>7, <1>8, <1>9, OthersKept DEF GatherRecords

LEMMA GatherHolesKeeps ==
  ASSUME PackedInv, NEW r \in Ranks, GatherHoles(r)
  PROVE  PackedInv'
<1>0. PackedTypeOK /\ StageOf(r) /\ SentBy(r) /\ Has(r)
  BY DEF PackedInv
<1>1. /\ step[r] > 0 /\ layer[r] < Layers /\ passed[r] = BeforeLayer(r) + 1 /\ Len(wire[r]) = passed[r] + 1
      /\ passed[r] \in Nat /\ BeforeLayer(r) \in Nat /\ Turns = 2 /\ phase2 /\ stage[r] = "holes"
  <2>1. PassedIn(r) = 1 /\ stage[r] = "holes" /\ stage[r] \in {"records", "holes"} /\ phase2
    BY <1>0 DEF PassedIn, GatherHoles, StageOf
  <2>2. passed[r] = BeforeLayer(r) + 1 /\ Len(wire[r]) = passed[r] + 1 /\ passed[r] \in Nat
    BY <1>0, <2>1, PackedRank DEF StageOf
  <2>3. step[r] > 0 /\ layer[r] < Layers
    BY <1>0, <2>1 DEF StageOf
  <2>4. BeforeLayer(r) \in Nat
    BY <2>3, NumberOf, TurnFacts
  <2> QED BY <2>1, <2>2, <2>3, <2>4 DEF Turns
<1>2. holes' = [holes EXCEPT ![r] = HolesIn(step[r])]
  <2>1. (IF Route(r) = "active" THEN Concat(Packed(r), [o \in Ranks |-> From(o, r)])
         ELSE [o \in Ranks |-> From(o, r)]) = HolesIn(step[r])
    BY <1>1, GathersTheStep DEF GatherHoles
  <2> QED BY <2>1 DEF GatherHoles
<1>3. /\ stage'[r] = "remap" /\ passed'[r] = passed[r] + 1 /\ holes'[r] = HolesIn(step[r])
      /\ \A p \in Ranks : p # r => /\ stage'[p] = stage[p] /\ passed'[p] = passed[p] /\ holes'[p] = holes[p]
  BY <1>0, <1>2 DEF PackedTypeOK, GatherHoles
<1>4. /\ phase2' = phase2 /\ work' = work /\ step'[r] = step[r] /\ layer'[r] = layer[r]
      /\ reads'[r] = reads[r] /\ wire'[r] = wire[r] /\ gathered'[r] = gathered[r]
  BY DEF GatherHoles
<1>5. StageOf(r)'
  <2>1. BeforeLayer(r)' = BeforeLayer(r) /\ PassedIn(r)' = 2
    BY <1>1, <1>3, <1>4, RunKeeps DEF BeforeLayer, PassedIn
  <2>2. stage'[r] \notin {"records", "holes"} /\ stage'[r] # "idle" /\ stage'[r] # "holes"
    BY <1>3
  <2> QED BY <1>0, <1>1, <1>3, <1>4, <2>1, <2>2 DEF StageOf, GatherHoles
<1>6. SentBy(r)'
  <2>1. \A i : SentAs(r, i)' = SentAs(r, i) /\ StepOf(i)' = StepOf(i)
    BY <1>4, RunKeeps
  <2>2. wire'[r] = [i \in 1..Len(wire'[r]) |-> SentAs(r, i)']
    BY <1>0, <1>4, <2>1 DEF SentBy
  <2> QED BY <1>0, <1>4, <2>1, <2>2 DEF SentBy
<1>7. Has(r)'
  BY <1>0, <1>1, <1>3, <1>4, RunKeeps DEF Has, HasIn
<1>8. PackedTypeOK'
  <2>1. /\ stage' \in [Ranks -> {"idle", "pack", "records", "holes", "remap"}]
        /\ passed' \in [Ranks -> Nat] /\ DOMAIN holes' = Ranks
    BY <1>0 DEF PackedTypeOK, GatherHoles
  <2>2. \A p \in Ranks : pinned[p] <= built[p] /\ step[p] <= built[p] /\ passed'[p] <= Len(wire[p])
    <3> TAKE p \in Ranks
    <3>1. pinned[p] <= built[p] /\ step[p] <= built[p] /\ passed[p] <= Len(wire[p])
      BY <1>0 DEF PackedTypeOK
    <3>2. CASE p = r
      BY <1>1, <1>3, <3>1, <3>2
    <3>3. CASE p # r
      BY <1>3, <3>1, <3>3
    <3> QED BY <3>2, <3>3
  <2> QED BY <1>0, <2>1, <2>2 DEF PackedTypeOK, GatherHoles
<1> QED BY <1>3, <1>5, <1>6, <1>7, <1>8, OthersKept DEF GatherHoles

LEMMA GatherBothKeeps ==
  ASSUME PackedInv, NEW r \in Ranks, GatherBoth(r)
  PROVE  PackedInv'
<1>0. PackedTypeOK /\ StageOf(r) /\ SentBy(r) /\ Has(r)
  BY DEF PackedInv
<1>1. /\ step[r] > 0 /\ layer[r] < Layers /\ passed[r] = BeforeLayer(r) /\ Len(wire[r]) = passed[r] + 1
      /\ passed[r] \in Nat /\ Turns = 1 /\ ~phase2 /\ stage[r] = "records" /\ PassedIn(r) = 0
  <2>1. PassedIn(r) = 0 /\ stage[r] = "records" /\ stage[r] \in {"records", "holes"} /\ ~phase2
    BY DEF PassedIn, GatherBoth
  <2>2. passed[r] = BeforeLayer(r) + 0 /\ Len(wire[r]) = passed[r] + 1 /\ passed[r] \in Nat
    BY <1>0, <2>1, PackedRank DEF StageOf
  <2>3. step[r] > 0 /\ layer[r] < Layers
    BY <1>0, <2>1 DEF StageOf
  <2>4. BeforeLayer(r) \in Nat
    BY <2>3, NumberOf, TurnFacts
  <2> QED BY <2>1, <2>2, <2>3, <2>4 DEF Turns
<1>2. /\ gathered' = [gathered EXCEPT ![r] = GatheredIn(step[r])]
      /\ holes' = [holes EXCEPT ![r] = HolesIn(step[r])]
  <2>1. \A o \in Ranks : From(o, r) = <<RecordsIn(o, step[r]), ValidityIn(o, step[r])>>
    <3>1. \A o \in Ranks : From(o, r) = Message(o, step[r], 0).data
      BY <1>1, Collected DEF GatherBoth
    <3> QED BY <1>1, <3>1 DEF Message
  <2>2. \A o \in Ranks : From(o, r)[1] = RecordsIn(o, step[r]) /\ From(o, r)[2] = ValidityIn(o, step[r])
    BY <2>1
  <2>3. Packed(r) = BlocksIn(step[r]) /\ StepRoute(step[r]) = "active"
    BY <1>1, InStep DEF StepRoute
  <2>4. /\ [o \in Ranks |-> From(o, r)[1]]
             = [o \in Ranks |-> IF StepRoute(step[r]) = "active" THEN RecordsIn(o, step[r]) ELSE PoolIn(o, step[r])]
        /\ [o \in Ranks |-> From(o, r)[2]] = [o \in Ranks |-> ValidityIn(o, step[r])]
    BY <2>2, <2>3
  <2>5. Concat(Packed(r) * PageRecords, [o \in Ranks |-> From(o, r)[1]]) = GatheredIn(step[r])
    BY <2>3, <2>4 DEF GatheredIn
  <2>6. Concat(Packed(r), [o \in Ranks |-> From(o, r)[2]]) = HolesIn(step[r])
    BY <2>3, <2>4 DEF HolesIn
  <2> QED BY <2>5, <2>6 DEF GatherBoth
<1>3. /\ stage'[r] = "remap" /\ passed'[r] = passed[r] + 1
      /\ gathered'[r] = GatheredIn(step[r]) /\ holes'[r] = HolesIn(step[r])
      /\ \A p \in Ranks : p # r => /\ stage'[p] = stage[p] /\ passed'[p] = passed[p]
                                   /\ gathered'[p] = gathered[p] /\ holes'[p] = holes[p]
  BY <1>0, <1>2 DEF PackedTypeOK, GatherBoth
<1>4. /\ phase2' = phase2 /\ work' = work /\ step'[r] = step[r] /\ layer'[r] = layer[r]
      /\ reads'[r] = reads[r] /\ wire'[r] = wire[r]
  BY DEF GatherBoth
<1>5. StageOf(r)'
  <2>1. BeforeLayer(r)' = BeforeLayer(r) /\ PassedIn(r)' = 1
    BY <1>1, <1>3, <1>4, RunKeeps DEF BeforeLayer, PassedIn
  <2>2. stage'[r] \notin {"records", "holes"} /\ stage'[r] # "idle" /\ stage'[r] # "holes"
    BY <1>3
  <2> QED BY <1>0, <1>1, <1>3, <1>4, <2>1, <2>2 DEF StageOf, GatherBoth
<1>6. SentBy(r)'
  <2>1. \A i : SentAs(r, i)' = SentAs(r, i) /\ StepOf(i)' = StepOf(i)
    BY <1>4, RunKeeps
  <2>2. wire'[r] = [i \in 1..Len(wire'[r]) |-> SentAs(r, i)']
    BY <1>0, <1>4, <2>1 DEF SentBy
  <2> QED BY <1>0, <1>4, <2>1, <2>2 DEF SentBy
<1>7. Has(r)'
  BY <1>0, <1>3, <1>4, RunKeeps DEF Has, HasIn
<1>8. PackedTypeOK'
  <2>1. /\ stage' \in [Ranks -> {"idle", "pack", "records", "holes", "remap"}]
        /\ passed' \in [Ranks -> Nat] /\ DOMAIN holes' = Ranks /\ DOMAIN gathered' = Ranks
    BY <1>0 DEF PackedTypeOK, GatherBoth
  <2>2. \A p \in Ranks : pinned[p] <= built[p] /\ step[p] <= built[p] /\ passed'[p] <= Len(wire[p])
    <3> TAKE p \in Ranks
    <3>1. pinned[p] <= built[p] /\ step[p] <= built[p] /\ passed[p] <= Len(wire[p])
      BY <1>0 DEF PackedTypeOK
    <3>2. CASE p = r
      BY <1>1, <1>3, <3>1, <3>2
    <3>3. CASE p # r
      BY <1>3, <3>1, <3>3
    <3> QED BY <3>2, <3>3
  <2> QED BY <1>0, <2>1, <2>2 DEF PackedTypeOK, GatherBoth
<1> QED BY <1>3, <1>5, <1>6, <1>7, <1>8, OthersKept DEF GatherBoth

LEMMA AttendRowsKeeps ==
  ASSUME PackedInv, NEW r \in Ranks, AttendRows(r)
  PROVE  PackedInv'
<1>0. PackedTypeOK /\ StageOf(r) /\ SentBy(r) /\ Has(r)
  BY DEF PackedInv
<1>1. /\ step[r] > 0 /\ step[r] \in Nat /\ layer[r] < Layers /\ layer[r] \in Nat /\ Layers \in Nat
      /\ passed[r] = BeforeLayer(r) + Turns /\ Len(wire[r]) = passed[r] /\ passed[r] \in Nat
      /\ stage[r] = "remap" /\ device[r] = step[r]
  <2>1. PassedIn(r) = Turns /\ stage[r] = "remap" /\ stage[r] \notin {"records", "holes"}
    BY DEF PassedIn, AttendRows
  <2>2. passed[r] = BeforeLayer(r) + Turns /\ Len(wire[r]) = passed[r] + 0 /\ passed[r] \in Nat
    BY <1>0, <2>1, PackedRank DEF StageOf
  <2> QED BY <1>0, <2>1, <2>2, PackedRank DEF StageOf
<1>2. Ready(r)
  <2>1. gathered[r] = GatheredIn(step[r]) /\ holes[r] = HolesIn(step[r])
    BY <1>0, <1>1 DEF Has, HasIn
  <2> QED BY <1>1, <2>1, InStep DEF Ready
<1>3. reads' = [reads EXCEPT ![r] = ReadsIn(step[r])]
  <2>1. Batch(r) = work[step[r]]
    BY DEF Batch
  <2>2. [i \in DOMAIN RowsOf(Batch(r)) |-> ReadsOf(r, i, RowsOf(Batch(r))[i].req)] = ReadsIn(step[r])
    BY <1>2, <2>1, ReadsAreDirect DEF ReadsIn
  <2> QED BY <2>2 DEF AttendRows
<1>4. /\ reads'[r] = ReadsIn(step[r]) /\ layer'[r] = layer[r] + 1
      /\ stage'[r] = (IF layer[r] + 1 = Layers THEN "idle" ELSE "pack")
      /\ \A p \in Ranks : p # r => /\ reads'[p] = reads[p] /\ layer'[p] = layer[p] /\ stage'[p] = stage[p]
  BY <1>0, <1>3 DEF PackedTypeOK, AttendRows
<1>5. /\ phase2' = phase2 /\ work' = work /\ step'[r] = step[r] /\ passed'[r] = passed[r]
      /\ wire'[r] = wire[r]
  BY DEF AttendRows
<1>6. StageOf(r)'
  <2>1. BeforeLayer(r)' = BeforeLayer(r) + Turns
    <3>1. BeforeLayer(r)' = (step[r] - 1) * PerStep + (layer[r] + 1) * Turns
      BY <1>1, <1>4, <1>5, RunKeeps DEF BeforeLayer
    <3>2. BeforeLayer(r) = (step[r] - 1) * PerStep + layer[r] * Turns
      BY <1>1 DEF BeforeLayer
    <3>3. (step[r] - 1) * PerStep \in Nat /\ layer[r] * Turns \in Nat
      <4>1. step[r] - 1 \in Nat
        BY <1>1
      <4> QED BY <1>1, <4>1, TurnFacts, ProductMonotone
    <3>4. (layer[r] + 1) * Turns = layer[r] * Turns + Turns
      BY <1>1, TurnFacts
    <3> QED BY <3>1, <3>2, <3>3, <3>4, TurnFacts
  <2>2. PassedIn(r)' = 0 /\ stage'[r] \notin {"records", "holes"} /\ stage'[r] # "holes"
    BY <1>4 DEF PassedIn
  <2>3. stage'[r] = "idle" => layer[r] + 1 = Layers
    BY <1>4
  <2>4. stage'[r] # "idle" => layer[r] + 1 < Layers
    BY <1>1, <1>4
  <2>5. passed[r] = BeforeLayer(r)' + 0 /\ Len(wire[r]) = passed[r] + 0
    BY <1>1, <2>1
  <2> QED BY <1>0, <1>1, <1>4, <1>5, <2>2, <2>3, <2>4, <2>5 DEF StageOf, AttendRows
<1>7. SentBy(r)'
  <2>1. \A i : SentAs(r, i)' = SentAs(r, i) /\ StepOf(i)' = StepOf(i)
    BY <1>5, RunKeeps
  <2>2. wire'[r] = [i \in 1..Len(wire'[r]) |-> SentAs(r, i)']
    BY <1>0, <1>5, <2>1 DEF SentBy
  <2> QED BY <1>0, <1>5, <2>1, <2>2 DEF SentBy
<1>8. Has(r)'
  <2>1. stage'[r] \notin {"holes", "remap"}
    BY <1>4
  <2> QED BY <1>4, <1>5, <2>1, RunKeeps DEF Has, HasIn
<1>9. PackedTypeOK'
  <2>1. /\ stage' \in [Ranks -> {"idle", "pack", "records", "holes", "remap"}]
        /\ DOMAIN reads' = Ranks
    BY <1>0 DEF PackedTypeOK, AttendRows
  <2>2. layer' \in [Ranks -> 0..Layers]
    <3>1. layer[r] + 1 \in 0..Layers
      BY <1>1
    <3> QED BY <1>0, <3>1 DEF PackedTypeOK, AttendRows
  <2> QED BY <1>0, <2>1, <2>2 DEF PackedTypeOK, AttendRows
<1> QED BY <1>4, <1>6, <1>7, <1>8, <1>9, OthersKept DEF AttendRows

LEMMA PackedInvStep == PackedInv /\ [PackedNext]_packedVars => PackedInv'
<1> SUFFICES ASSUME PackedInv, [PackedNext]_packedVars PROVE PackedInv'
  OBVIOUS
<1>1. ASSUME NEW r \in Ranks, BuildStep(r) PROVE PackedInv'
  BY <1>1, BuildKeeps
<1>2. ASSUME NEW r \in Ranks, Refuse(r) PROVE PackedInv'
  BY <1>2, RefuseKeeps
<1>3. ASSUME NEW r \in Ranks, Upload(r) PROVE PackedInv'
  BY <1>3, UploadKeeps
<1>4. ASSUME NEW r \in Ranks, PackPages(r) PROVE PackedInv'
  BY <1>4, PackKeeps
<1>5. ASSUME NEW r \in Ranks, GatherRecords(r) PROVE PackedInv'
  BY <1>5, GatherRecordsKeeps
<1>6. ASSUME NEW r \in Ranks, GatherHoles(r) PROVE PackedInv'
  BY <1>6, GatherHolesKeeps
<1>7. ASSUME NEW r \in Ranks, GatherBoth(r) PROVE PackedInv'
  BY <1>7, GatherBothKeeps
<1>8. ASSUME NEW r \in Ranks, AttendRows(r) PROVE PackedInv'
  BY <1>8, AttendRowsKeeps
<1>9. CASE UNCHANGED packedVars
  <2>1. phase2' = phase2 /\ work' = work /\ PackedTypeOK'
    BY <1>9 DEF packedVars, PackedInv, PackedTypeOK
  <2>2. \A p \in Ranks : StageOf(p)' /\ SentBy(p)' /\ Has(p)'
    <3> TAKE p \in Ranks
    <3>1. StageOf(p) /\ SentBy(p) /\ Has(p)
      BY DEF PackedInv
    <3> QED BY <1>9, <3>1, ElsewhereKept DEF packedVars
  <2>3. Ranks' = Ranks
    BY DEF Ranks
  <2> QED BY <2>1, <2>2, <2>3 DEF PackedInv
<1> QED BY <1>1, <1>2, <1>3, <1>4, <1>5, <1>6, <1>7, <1>8, <1>9 DEF PackedNext, Device, Stopped

-----------------------------------------------------------------------------

LEMMA PackedInvariant == PackedSpec => []PackedInv
  BY PackedInvInit, PackedInvStep, PTL DEF PackedSpec

LEMMA ReadsExactHolds == PackedInv => ReadsExact
<1> SUFFICES ASSUME PackedInv, NEW r \in Ranks, layer[r] > 0
             PROVE  reads[r] = [i \in DOMAIN RowsOf(Batch(r)) |->
                                  DirectRead(Batch(r), step[r], RowsOf(Batch(r))[i])]
  BY DEF ReadsExact
<1>1. reads[r] = ReadsIn(step[r])
  BY PackedRank DEF Has, HasIn
<1> QED BY <1>1 DEF ReadsIn, Batch

LEMMA CollectivesMatchHolds == PackedInv => CollectivesMatch
<1> SUFFICES ASSUME PackedInv, NEW r \in Ranks, NEW s \in Ranks,
                    NEW i \in 1..Len(wire[r]), i <= Len(wire[s])
             PROVE  SameShape(wire[r][i], wire[s][i])
  BY DEF CollectivesMatch
<1> DEFINE n == StepOf(i)
           t == TurnOf(i)
<1>1. wire[r][i] = Message(r, n, t) /\ n \in 1..step[r]
  BY PackedRank DEF SentBy, SentAs
<1>2. wire[s][i] = Message(s, n, t)
  <2>1. Len(wire[s]) \in Nat /\ wire[s] = [j \in 1..Len(wire[s]) |-> SentAs(s, j)]
    BY PackedRank DEF SentBy
  <2>2. i \in 1..Len(wire[s])
    BY <2>1
  <2>3. wire[s][i] = SentAs(s, i)
    BY <2>1, <2>2
  <2> QED BY <2>3 DEF SentAs
<1>3. n \in 1..Len(work) /\ WellFormed(work[n])
  <2>1. n \in 1..Len(work)
    BY <1>1, PackedRank
  <2> QED BY <2>1, PackedRank
<1> HIDE DEF n, t
<1>4. Message(r, n, t).kind = Message(s, n, t).kind
  BY DEF Message
<1>5. DOMAIN RecordsIn(r, n) = DOMAIN RecordsIn(s, n) /\ DOMAIN ValidityIn(r, n) = DOMAIN ValidityIn(s, n)
  BY DEF RecordsIn, ValidityIn
<1>6. DOMAIN PoolIn(r, n) = DOMAIN PoolIn(s, n)
  BY DEF PoolIn
<1>7. DOMAIN work[n].tables[r] = DOMAIN work[n].tables[s]
  <2>1. \A p \in Ranks : /\ work[n].tables[p] \in Seq(Seq(-1..PoolPages-1))
                         /\ Len(work[n].tables[p]) = Len(work[n].lens)
    BY <1>3 DEF WellFormed
  <2>2. \A p \in Ranks : DOMAIN work[n].tables[p] = 1..Len(work[n].lens)
    BY <2>1
  <2> QED BY <2>2
<1>8. \A q \in DOMAIN work[n].tables[r] :
        DOMAIN work[n].tables[r][q] = DOMAIN work[n].tables[s][q]
  <2>1. \A q \in RequestsOf(work[n]) : Len(work[n].tables[r][q]) = Len(work[n].tables[s][q])
    BY <1>3 DEF WellFormed
  <2>2. \A p \in Ranks : /\ work[n].tables[p] \in Seq(Seq(-1..PoolPages-1))
                         /\ DOMAIN work[n].tables[p] = RequestsOf(work[n])
    BY <1>3 DEF WellFormed, RequestsOf
  <2>3. \A p \in Ranks : \A q \in RequestsOf(work[n]) :
          DOMAIN work[n].tables[p][q] = 1..Len(work[n].tables[p][q])
    <3> TAKE p \in Ranks
    <3> TAKE q \in RequestsOf(work[n])
    <3>1. work[n].tables[p][q] \in Seq(-1..PoolPages-1)
      BY <2>2
    <3> QED BY <3>1
  <2> QED BY <2>1, <2>2, <2>3
<1>9. CASE phase2
  <2>1. /\ DOMAIN Message(r, n, t).data = DOMAIN Message(s, n, t).data
        /\ Message(r, n, t).kind = "tables" =>
             \A q \in DOMAIN Message(r, n, t).data :
               DOMAIN Message(r, n, t).data[q] = DOMAIN Message(s, n, t).data[q]
    BY <1>5, <1>6, <1>7, <1>8, <1>9 DEF Message
  <2> QED BY <1>1, <1>2, <1>4, <1>9, <2>1 DEF SameShape
<1>10. CASE ~phase2
  <2>1. /\ Message(r, n, t).data = <<RecordsIn(r, n), ValidityIn(r, n)>>
        /\ Message(s, n, t).data = <<RecordsIn(s, n), ValidityIn(s, n)>>
    BY <1>10 DEF Message
  <2> QED BY <1>1, <1>2, <1>4, <1>5, <2>1 DEF SameShape
<1> QED BY <1>9, <1>10

\* What the packed-CKV ranks keep has its type in every reachable state.
THEOREM PackedTypeCorrect == PackedSpec => []PackedTypeOK
<1>1. PackedInv => PackedTypeOK
  BY DEF PackedInv
<1> QED BY <1>1, PackedInvariant, PTL

\* Attention reads, on both routes, in every layer and whatever the skew of the
\* ranks, the records of its own step that a direct read of the owners gives.
THEOREM ReadsAreExact == PackedSpec => []ReadsExact
  BY PackedInvariant, ReadsExactHolds, PTL

\* The i-th collective of any two ranks is of the same kind, and as long in each
\* of its parts, without a vote on the route or the sizes.
THEOREM CollectivesAgree == PackedSpec => []CollectivesMatch
  BY PackedInvariant, CollectivesMatchHolds, PTL
=============================================================================
