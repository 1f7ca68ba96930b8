------------------------- MODULE MCNamespaceObjects -------------------------
(***************************************************************************)
(* The instance of NamespaceObjects for TLC.                               *)
(***************************************************************************)
EXTENDS NamespaceObjects, TLC

CONSTANTS w1, w2

Symmetry == Permutations(Workers)
=============================================================================
