-------------------------- MODULE ClusterWideUpdate --------------------------
(***************************************************************************)
(* What the cluster-wide update promises: namespaces are brought up to     *)
(* date between a start and an end, none of them becomes outdated again,   *)
(* and an update ends as finished only when none is left.                  *)
(***************************************************************************)
CONSTANT Namespaces

VARIABLES
  status,     \* of the last or the ongoing update
  pending     \* the namespaces whose version is outdated

Ends == {"finished", "failed", "killed", "incomplete"}

Init ==
  /\ status \in Ends \cup {"updating"}
  /\ pending \in SUBSET Namespaces

Start ==
  /\ status' = "updating"
  /\ UNCHANGED pending

Progress ==
  /\ status = "updating"
  /\ pending' \in SUBSET pending
  /\ UNCHANGED status

End ==
  /\ status = "updating"
  /\ status' \in Ends
  /\ status' = "finished" => pending = {}
  /\ UNCHANGED pending

Next == Start \/ Progress \/ End

Spec == Init /\ [][Next]_<<status, pending>>
=============================================================================
