---------------------------- MODULE SchemaUpgrade ----------------------------
(***************************************************************************)
(* What Migrate promises, without transactions, locks and loops: the       *)
(* schema is upgraded version by version, never beyond the newest release, *)
(* and a pod is ready only when the schema has all versions of its release.*)
(***************************************************************************)
EXTENDS Naturals

CONSTANTS Pods, Programs

VARIABLES
  version,        \* number of versions applied
  ready           \* pods whose release finds its schema

vars == <<version, ready>>

Init == version = 0 /\ ready = {}

UpgradeFor(p) ==
  /\ version < Programs[p]
  /\ version' = version + 1
  /\ UNCHANGED ready

BecomesReady(p) ==
  /\ version >= Programs[p]
  /\ ready' = ready \cup {p}
  /\ UNCHANGED version

Stops(p) ==
  /\ ready' = ready \ {p}
  /\ UNCHANGED version

Next == \E p \in Pods : UpgradeFor(p) \/ BecomesReady(p) \/ Stops(p)

Spec == Init /\ [][Next]_vars
=============================================================================
