---------------------------- MODULE MCRingReduce ----------------------------
(* Call sequences for the ring.  AR and RS are the two entry points, p the   *)
(* number of pieces, w the wire of the call.                                 *)
EXTENDS RingReduce

AR(p, w) == [op |-> "all_reduce", pieces |-> p, wire |-> w]
RS(p, w) == [op |-> "reduce_scatter", pieces |-> p, wire |-> w]

\* Both entry points, both piece counts and all wires, in orders that reuse
\* flag slots of one call under another numbering in the next.
MixedPrograms ==
  { <<RS(1, "bf16"), AR(2, "bf16")>>, <<RS(2, "ag"), AR(1, "bf16")>>,
    <<AR(1, "bf16"), RS(2, "ring")>>, <<AR(1, "ring"), AR(1, "bf16")>>,
    <<AR(1, "ag"), RS(1, "ring")>> }

\* A small reduce-scatter (shard below 1 MiB, one piece), then a larger one.
GrowingPrograms == { <<RS(1, "bf16"), RS(2, "bf16")>> }
=============================================================================
