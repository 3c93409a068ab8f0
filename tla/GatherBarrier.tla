---------------------------- MODULE GatherBarrier ----------------------------
(***************************************************************************)
(* What one eager byte all-gather channel promises its callers, without    *)
(* the ring, the slots, the flags or the streams: call c of a rank may     *)
(* return only after every rank has entered its own call c, and it returns *)
(* with exactly the payload each rank contributed to call c, rank-major.   *)
(***************************************************************************)
EXTENDS Integers

CONSTANTS
  W,        \* size of the DCP group
  MaxCalls  \* calls each rank makes (bounds the model)

VARIABLES
  entered,  \* entered[r]: calls rank r has entered
  busy,     \* busy[r]: the last of them has not returned
  result    \* result[r]: what the last returned call of r left in its outputs

absVars == <<entered, busy, result>>

Ranks == 0..W-1

\* The payload (records and validity bytes) rank o contributes to its call c.
Contribution(o, c) == <<o, c>>

\* No output is readable before the first call, or while a call is running.
Unreadable == [o \in Ranks |-> Contribution(o, 0)]

AbsInit ==
  /\ entered = [r \in Ranks |-> 0]
  /\ busy    = [r \in Ranks |-> FALSE]
  /\ result  = [r \in Ranks |-> Unreadable]

AbsEnter(r) ==
  /\ ~busy[r]
  /\ entered[r] < MaxCalls
  /\ entered' = [entered EXCEPT ![r] = @ + 1]
  /\ busy'    = [busy EXCEPT ![r] = TRUE]
  /\ result'  = [result EXCEPT ![r] = Unreadable]

AbsReturn(r) ==
  /\ busy[r]
  /\ \A o \in Ranks : entered[o] >= entered[r]
  /\ busy'   = [busy EXCEPT ![r] = FALSE]
  /\ result' = [result EXCEPT ![r] = [o \in Ranks |-> Contribution(o, entered[r])]]
  /\ UNCHANGED entered

AbsNext == \E r \in Ranks : AbsEnter(r) \/ AbsReturn(r)

AbsSpec == AbsInit /\ [][AbsNext]_absVars
=============================================================================
