----------------------------- MODULE GridBarrier -----------------------------
(***************************************************************************)
(* The grid-wide barrier of the fused mixture-of-experts kernel            *)
(* (_grid_barrier): a counter and a sense word in the lock workspace.      *)
(* Both words outlive the launch: the counter is put back to 0 by the last *)
(* arrival, the sense is never put back, and the next launch, possibly of  *)
(* another grid size, starts from what it finds.                           *)
(***************************************************************************)
EXTENDS Integers, FiniteSets

CONSTANT MaxGrid  \* the largest grid any launch uses

ASSUME GridAssumption == MaxGrid \in Nat \ {0}

VARIABLES
  grid,    \* CTAs of the current launch
  count,   \* workspace[barrier_count_off]
  sense,   \* workspace[barrier_sense_off]
  bar,     \* bar[c]: where CTA c is: "out", "add", "reset", "release", "spin"
  old,     \* old[c]: old_sense, as c has read it
  passed   \* history: the sense value c has left its last barrier with

barrierVars == <<grid, count, sense, bar, old, passed>>

BarrierPlaces == {"out", "add", "reset", "release", "spin"}
CTAs == 0..(MaxGrid - 1)
Running == 0..(grid - 1)

BarrierTypeOK ==
  /\ grid \in 1..MaxGrid
  /\ count \in Nat
  /\ sense \in Nat
  /\ bar \in [CTAs -> BarrierPlaces]
  /\ old \in [CTAs -> Nat]
  /\ passed \in [CTAs -> Nat]

BarrierInit ==
  /\ grid \in 1..MaxGrid
  /\ count = 0
  /\ sense = 0
  /\ bar = [c \in CTAs |-> "out"]
  /\ old = [c \in CTAs |-> 0]
  /\ passed = [c \in CTAs |-> 0]

-----------------------------------------------------------------------------
\* The acquiring load of the sense, before the arrival is counted.
ReadSense(c) ==
  /\ bar[c] = "out"
  /\ old' = [old EXCEPT ![c] = sense]
  /\ bar' = [bar EXCEPT ![c] = "add"]
  /\ UNCHANGED <<grid, count, sense, passed>>

\* Faulty variant: the arrival after the last is taken for the last.
ArriveLate(c) ==
  /\ bar[c] = "add"
  /\ count' = count + 1
  /\ bar' = [bar EXCEPT ![c] = IF count + 2 >= grid THEN "reset" ELSE "spin"]
  /\ UNCHANGED <<grid, sense, old, passed>>

\* The atomic add: whoever finds grid - 1 before it is the last arrival.
Arrive(c) ==
  /\ bar[c] = "add"
  /\ count' = count + 1
  /\ bar' = [bar EXCEPT ![c] = IF count = grid - 1 THEN "reset" ELSE "spin"]
  /\ UNCHANGED <<grid, sense, old, passed>>

\* The last arrival stores 0 and fences before it releases the others.
ResetCount(c) ==
  /\ bar[c] = "reset"
  /\ count' = 0
  /\ bar' = [bar EXCEPT ![c] = "release"]
  /\ UNCHANGED <<grid, sense, old, passed>>

ReleaseAll(c) ==
  /\ bar[c] = "release"
  /\ sense' = sense + 1
  /\ bar' = [bar EXCEPT ![c] = "out"]
  /\ passed' = [passed EXCEPT ![c] = sense + 1]
  /\ UNCHANGED <<grid, count, old>>

\* The spin ends with the first load that differs from old_sense.
SpinOut(c) ==
  /\ bar[c] = "spin"
  /\ sense # old[c]
  /\ bar' = [bar EXCEPT ![c] = "out"]
  /\ passed' = [passed EXCEPT ![c] = sense]
  /\ UNCHANGED <<grid, count, sense, old>>

BarrierStep(c) ==
  \/ ReadSense(c) \/ Arrive(c) \/ ResetCount(c) \/ ReleaseAll(c) \/ SpinOut(c)

\* A kernel has returned and the next one starts on the same workspace.
Relaunch(g) ==
  /\ \A c \in Running : bar[c] = "out"
  /\ grid' = g
  /\ passed' = [c \in CTAs |-> sense]
  /\ UNCHANGED <<count, sense, bar, old>>

BarrierNext ==
  \/ \E c \in Running : BarrierStep(c)
  \/ \E g \in 1..MaxGrid : Relaunch(g)

BarrierSpec == BarrierInit /\ [][BarrierNext]_barrierVars

-----------------------------------------------------------------------------
\* No CTA is past a barrier that another one has not reached: whoever is
\* ahead of d has left d spinning in the barrier both of them entered.
BarrierSeparates ==
  \A c, d \in Running :
    passed[c] > passed[d] => bar[d] = "spin" /\ passed[c] = passed[d] + 1

\* Arrivals that nobody has released: the counter is their number until the
\* last of them stores 0, so that a barrier, and a later launch of any grid,
\* always starts from 0.
Waiters ==
  {c \in Running : bar[c] = "reset" \/ (bar[c] = "spin" /\ old[c] = sense)}

CounterIsWaiters ==
  count = IF \E d \in Running : bar[d] = "release" THEN 0
                                                   ELSE Cardinality(Waiters)
==============================================================================
