------------------------- MODULE MCObjectEndpoints -------------------------
(***************************************************************************)
(* Instances of ObjectEndpoints for TLC.                                   *)
(***************************************************************************)
EXTENDS ObjectEndpoints, TLC

CONSTANTS p1, p2

Twice == [c \in Repeating |-> 2]
=============================================================================
