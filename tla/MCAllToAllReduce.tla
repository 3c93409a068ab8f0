-------------------------- MODULE MCAllToAllReduce --------------------------
(* Calls of equal and of different chunk counts.                             *)
EXTENDS AllToAllReduce

Group(n, c) == [world |-> n, chunks |-> c]

Equal ==
  {Group(4, <<1>>), Group(3, <<1, 1, 1>>), Group(2, <<2, 2, 2>>), Group(2, <<3, 3>>)}
=============================================================================
