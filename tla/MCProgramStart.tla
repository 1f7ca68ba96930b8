--------------------------- MODULE MCProgramStart ---------------------------
(***************************************************************************)
(* Instances of ProgramStart for TLC.                                      *)
(***************************************************************************)
EXTENDS ProgramStart, TLC

CONSTANTS p1, p2, c1, c2, l1

(* A rolling deployment: the new release knows one version more.           *)
Rolling == [p \in Pods |-> IF p = p1 THEN 2 ELSE 3]

OneOrTwo == {<<c1>>, <<c1, c2>>}
=============================================================================
