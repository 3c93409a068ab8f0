------------------------------ MODULE DcpGroup ------------------------------
(***************************************************************************)
(* The ranks of a decode-context-parallel group, in the order in which a   *)
(* collective concatenates what they contribute.                           *)
(***************************************************************************)
EXTENDS Integers

CONSTANT W  \* ranks (_CKV_WORLD_SIZE)

ASSUME GroupAssumption == W \in Nat \ {0}

Ranks == 0..W-1
=============================================================================
