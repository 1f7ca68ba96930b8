---------------------------- MODULE ClusterLists ----------------------------
(***************************************************************************)
(* What the cluster service promises, without locks and copies: each pod   *)
(* has a list that is replaced as a whole, and a look-up finds what one    *)
(* list has for its target.                                                *)
(***************************************************************************)
EXTENDS Naturals, Sequences

CONSTANTS Pods, Lookups

VARIABLES
  list,           \* the list of each pod, entries with the field cluster
  found,          \* what each look-up has found: nothing yet, or one entry
  target          \* the cluster each look-up is about

vars == <<list, found, target>>

NoEntry == [cluster |-> "", token |-> 0]

First(entries, c) ==
  {entries[i] : i \in {j \in DOMAIN entries :
     entries[j].cluster = c /\ \A k \in 1 .. j - 1 : entries[k].cluster # c}}

Finds(entries, c) == IF First(entries, c) = {} THEN {NoEntry} ELSE First(entries, c)

Init ==
  /\ \A p \in Pods : list[p] = <<>>
  /\ \A p \in Pods, l \in Lookups : found[p][l] = {}

(* The list of p is replaced, or p stops and starts with no list.          *)
Replace(p) ==
  /\ \A q \in Pods \ {p} : list'[q] = list[q] /\ found'[q] = found[q]
  /\ \A l \in Lookups : found'[p][l] \in {found[p][l], {}}

Find(p, l) ==
  /\ found[p][l] = {}
  /\ found' = [found EXCEPT ![p][l] = Finds(list[p], target[p][l])]
  /\ UNCHANGED <<list, target>>

Other(p, l) ==
  /\ found' = [found EXCEPT ![p][l] = {}]
  /\ UNCHANGED list

Next == \E p \in Pods : Replace(p) \/ \E l \in Lookups : Find(p, l) \/ Other(p, l)

Spec == Init /\ [][Next]_vars
=============================================================================
