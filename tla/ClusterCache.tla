---------------------------- MODULE ClusterCache ----------------------------
(***************************************************************************)
(* The cluster service (cluster/service.go): every pod keeps a list of the *)
(* OpenShift clusters with a token for each, filled when the pod starts    *)
(* and refreshed by a ticker. A refresh asks the auth service for the list *)
(* and then, cluster by cluster, for a token, which it tries out at the    *)
(* cluster; in the meantime the list and the tokens may change, and        *)
(* requests of users look clusters up under the read lock of an RWMutex.   *)
(***************************************************************************)
EXTENDS Deployment, Sequences, Functions

CONSTANTS
  Clusters,
  Lists,          \* the lists of clusters the auth service may know
  Lookups,        \* requests of users that a pod handles at the same time
  MaxChanges      \* bound on the changes of the list and of tokens

ASSUME ClusterCacheAssumption ==
  /\ Lists \subseteq Seq(Clusters)
  /\ MaxChanges \in Nat

VARIABLES
  auth,           \* the list of clusters and their tokens, as auth knows them
  changes,        \* how often they have changed
  cached,         \* cachedClusters of each pod, and what auth had answered
  refresh,        \* where refreshCache of each pod is
  writer,         \* the writer of cacheRefreshLock: none, or waiting for readers
  look            \* where the look-ups of each pod are

authVars == <<auth, changes>>
cacheVars == <<cached, refresh, writer, look>>
clusterVars == <<auth, changes, cached, refresh, writer, look>>

-----------------------------------------------------------------------------
Token == 0 .. MaxChanges
Answer == [list : Lists \cup {<<>>}, token : [Clusters -> Token]]
Entry == [cluster : Clusters, token : Token]
NoEntry == [cluster |-> "", token |-> 0]                  \* Cluster{}

(* answer: the list auth sent and, history, the tokens it knew then.       *)
NoAnswer == [list |-> <<>>, token |-> [c \in Clusters |-> 0]]
Cache == [entries : Seq(Entry), answer : Answer]
EmptyCache == [entries |-> <<>>, answer |-> NoAnswer]

RefreshPcs == {"none", "list", "resolve", "verify", "publish", "loaded", "failed"}
Refreshing == [pc : RefreshPcs, entries : Seq(Entry), answer : Answer]
NoRefresh == [pc |-> "none", entries |-> <<>>, answer |-> NoAnswer]

(* target: the cluster of the user; size: the length of the list copied.   *)
LookPcs == {"idle", "ask", "waiting", "locked", "sized", "done"}
Lookup == [pc : LookPcs, target : Clusters \cup {""}, size : Nat,
           found : Entry \cup {NoEntry}]
NoLookup == [pc |-> "idle", target |-> "", size |-> 0, found |-> NoEntry]

ClusterTypeOK ==
  /\ auth \in [list : Lists, token : [Clusters -> Token]]
  /\ changes \in Token
  /\ cached \in [Pods -> Cache]
  /\ refresh \in [Pods -> Refreshing]
  /\ writer \in [Pods -> {"none", "waiting"}]
  /\ look \in [Pods -> [Lookups -> Lookup]]

ClusterInit ==
  /\ auth \in [list : Lists, token : {[c \in Clusters |-> 0]}]
  /\ changes = 0
  /\ cached = [p \in Pods |-> EmptyCache]
  /\ refresh = [p \in Pods |-> NoRefresh]
  /\ writer = [p \in Pods |-> "none"]
  /\ look = [p \in Pods |-> [l \in Lookups |-> NoLookup]]

-----------------------------------------------------------------------------
(* The auth service and the clusters *)

Changes == changes < MaxChanges /\ changes' = changes + 1

(* The token of a cluster is replaced; the old one is no longer valid.     *)
RotateToken(c) ==
  /\ Changes
  /\ auth' = [auth EXCEPT !.token[c] = @ + 1]
  /\ UNCHANGED cacheVars

ChangeList(list) ==
  /\ Changes
  /\ auth.list # list
  /\ auth' = [auth EXCEPT !.list = list]
  /\ UNCHANGED cacheVars

(* RetrieveToken: auth has tokens only for clusters that it knows.         *)
HasToken(c) == c \in Range(auth.list)

(* WhoAmI: the cluster accepts its current token only.                     *)
Accepts(entry) == entry.token = auth.token[entry.cluster]

-----------------------------------------------------------------------------
(* refreshCache *)

NextCluster(p) == refresh[p].answer.list[Len(refresh[p].entries) + 1]
Complete(p) == Len(refresh[p].entries) = Len(refresh[p].answer.list)

RefreshFails(p) == refresh' = [refresh EXCEPT ![p] = [NoRefresh EXCEPT !.pc = "failed"]]

BeginRefresh(p) == refresh' = [refresh EXCEPT ![p] = [NoRefresh EXCEPT !.pc = "list"]]

ShowClusters(p) ==
  /\ refresh[p].pc = "list"
  /\ \/ /\ refresh' = [refresh EXCEPT ![p].pc = "resolve", ![p].answer = auth]
        /\ NoFault
     \/ RefreshFails(p) /\ Fault("auth")
  /\ UNCHANGED <<cached, writer, look>>

(* One failure gives up the whole refresh.                                 *)
ResolveSaToken(p) ==
  /\ refresh[p].pc = "resolve"
  /\ ~Complete(p)
  /\ LET c == NextCluster(p) IN
       \/ /\ HasToken(c)
          /\ refresh' = [refresh EXCEPT ![p].pc = "verify",
               ![p].entries = Append(@, [cluster |-> c, token |-> auth.token[c]])]
          /\ NoFault
       \/ ~HasToken(c) /\ RefreshFails(p) /\ NoFault
       \/ RefreshFails(p) /\ Fault("auth")
  /\ UNCHANGED <<cached, writer, look>>

WhoAmI(p) ==
  /\ refresh[p].pc = "verify"
  /\ LET entry == refresh[p].entries[Len(refresh[p].entries)] IN
       \/ Accepts(entry) /\ refresh' = [refresh EXCEPT ![p].pc = "resolve"] /\ NoFault
       \/ ~Accepts(entry) /\ RefreshFails(p) /\ NoFault
       \/ RefreshFails(p) /\ Fault("cluster")
  /\ UNCHANGED <<cached, writer, look>>

(* Mutant of RequestLock: what has been resolved so far is published.      *)
RequestLockEarly(p) ==
  /\ refresh[p].pc = "resolve"
  /\ refresh' = [refresh EXCEPT ![p].pc = "publish"]
  /\ writer' = [writer EXCEPT ![p] = "waiting"]
  /\ UNCHANGED <<cached, look>>
  /\ NoFault

(* Lock: from now on new readers wait.                                     *)
RequestLock(p) ==
  /\ refresh[p].pc = "resolve"
  /\ Complete(p)
  /\ refresh' = [refresh EXCEPT ![p].pc = "publish"]
  /\ writer' = [writer EXCEPT ![p] = "waiting"]
  /\ UNCHANGED <<cached, look>>
  /\ NoFault

Readers(p) == {l \in Lookups : look[p][l].pc \in {"locked", "sized"}}

WakeReaders(p) ==
  look' = [look EXCEPT ![p] = [l \in Lookups |->
             IF @[l].pc = "waiting" THEN [@[l] EXCEPT !.pc = "locked"] ELSE @[l]]]

Replaced(p) ==
  cached' = [cached EXCEPT ![p] = [entries |-> refresh[p].entries,
                                   answer |-> refresh[p].answer]]

(* Mutant of Publish: the list is replaced while others read it.           *)
PublishUnlocked(p) ==
  /\ refresh[p].pc = "publish"
  /\ Replaced(p)
  /\ refresh' = [refresh EXCEPT ![p] = [NoRefresh EXCEPT !.pc = "loaded"]]
  /\ writer' = [writer EXCEPT ![p] = "none"]
  /\ WakeReaders(p)
  /\ NoFault

(* Mutant of Publish: the lock is not released.                            *)
PublishKeepingLock(p) ==
  /\ refresh[p].pc = "publish"
  /\ Readers(p) = {}
  /\ Replaced(p)
  /\ refresh' = [refresh EXCEPT ![p] = [NoRefresh EXCEPT !.pc = "loaded"]]
  /\ UNCHANGED <<writer, look>>
  /\ NoFault

(* The lock is held, the list is replaced, and Unlock lets the readers in. *)
Publish(p) ==
  /\ refresh[p].pc = "publish"
  /\ Readers(p) = {}
  /\ Replaced(p)
  /\ refresh' = [refresh EXCEPT ![p] = [NoRefresh EXCEPT !.pc = "loaded"]]
  /\ writer' = [writer EXCEPT ![p] = "none"]
  /\ WakeReaders(p)
  /\ NoFault

RefreshStep(p) ==
  ShowClusters(p) \/ ResolveSaToken(p) \/ WhoAmI(p) \/ RequestLock(p) \/ Publish(p)

-----------------------------------------------------------------------------
(* Look-ups of the cluster of a user *)

LookAt(p, l, pc) == look' = [look EXCEPT ![p][l].pc = pc]

(* GetUser: auth tells which cluster the user belongs to; a request that   *)
(* it does not answer ends there.                                          *)
GetUser(p, l) ==
  /\ look[p][l].pc = "idle"
  /\ \/ /\ \E c \in Range(auth.list) :
             look' = [look EXCEPT ![p][l] = [NoLookup EXCEPT !.pc = "ask", !.target = c]]
        /\ NoFault
     \/ UNCHANGED look /\ Fault("auth")
  /\ UNCHANGED <<cached, refresh, writer>>

(* RLock waits if a writer holds the lock or waits for it.                 *)
RLock(p, l) ==
  /\ look[p][l].pc = "ask"
  /\ LookAt(p, l, IF writer[p] = "none" THEN "locked" ELSE "waiting")
  /\ UNCHANGED <<cached, refresh, writer>>
  /\ NoFault

(* make([]Cluster, len(s.cachedClusters))                                  *)
MakeCopy(p, l) ==
  /\ look[p][l].pc = "locked"
  /\ look' = [look EXCEPT ![p][l].pc = "sized", ![p][l].size = Len(cached[p].entries)]
  /\ UNCHANGED <<cached, refresh, writer>>
  /\ NoFault

(* copy copies what both slices have room for; the rest stays blank.       *)
Copied(entries, size) ==
  [i \in 1 .. size |-> IF i <= Len(entries) THEN entries[i] ELSE NoEntry]

(* GetCluster: the first cluster with the URL of the target, or an error.  *)
Resolve(entries, target) ==
  LET IsFirst(i) == /\ entries[i].cluster = target
                    /\ \A j \in 1 .. i - 1 : entries[j].cluster # target
  IN IF \E i \in DOMAIN entries : IsFirst(i)
     THEN entries[CHOOSE i \in DOMAIN entries : IsFirst(i)]
     ELSE NoEntry

(* copy, RUnlock and the search in the copy.                               *)
CopyAndSearch(p, l) ==
  /\ look[p][l].pc = "sized"
  /\ look' = [look EXCEPT ![p][l].pc = "done", ![p][l].size = 0,
       ![p][l].found = Resolve(Copied(cached[p].entries, look[p][l].size),
                               look[p][l].target)]
  /\ UNCHANGED <<cached, refresh, writer>>
  /\ NoFault

EndLookup(p, l) ==
  /\ look[p][l].pc = "done"
  /\ look' = [look EXCEPT ![p][l] = NoLookup]
  /\ UNCHANGED <<cached, refresh, writer>>
  /\ NoFault

LookStep(p, l) == RLock(p, l) \/ MakeCopy(p, l) \/ CopyAndSearch(p, l) \/ EndLookup(p, l)

-----------------------------------------------------------------------------
(* The process of p ends, and the memory of its cluster service with it.   *)
ForgetClusters(p) ==
  /\ cached' = [cached EXCEPT ![p] = EmptyCache]
  /\ refresh' = [refresh EXCEPT ![p] = NoRefresh]
  /\ writer' = [writer EXCEPT ![p] = "none"]
  /\ look' = [look EXCEPT ![p] = [l \in Lookups |-> NoLookup]]

=============================================================================
