------------------------- MODULE ClusterCacheProofs -------------------------
(***************************************************************************)
(* Proofs about the cluster service within ProgramStart: the type          *)
(* invariant of the whole, that the list of a pod that serves is one whole *)
(* answer of auth, whatever changes or fails during its refreshes, and     *)
(* that copies and refreshes under the lock implement ClusterLists.        *)
(***************************************************************************)
EXTENDS ProgramStartProofs

(* What a refresh has resolved so far is a beginning of the answer, with   *)
(* tokens no older than the answer.                                        *)
Agrees(entries, answer) ==
  /\ Len(entries) <= Len(answer.list)
  /\ \A i \in 1 .. Len(entries) :
       /\ entries[i].cluster = answer.list[i]
       /\ entries[i].token >= answer.token[answer.list[i]]

Snapshot(p) ==
  /\ cached[p].answer.list \in Lists
  /\ Agrees(cached[p].entries, cached[p].answer)
  /\ Len(cached[p].entries) = Len(cached[p].answer.list)

RefreshAgrees(p) ==
  /\ refresh[p].pc \in {"resolve", "verify", "publish"} =>
       /\ refresh[p].answer.list \in Lists
       /\ Agrees(refresh[p].entries, refresh[p].answer)
       /\ \A c \in Clusters : refresh[p].answer.token[c] <= auth.token[c]
  /\ refresh[p].pc = "publish" => Complete(p)
  /\ refresh[p].pc = "list" => refresh[p].entries = <<>>

CacheAgrees(p) ==
  refresh[p].pc = "loaded" \/ program[p] = "serving" => Snapshot(p)

ClusterInv ==
  /\ ClusterTypeOK
  /\ \A c \in Clusters : auth.token[c] <= changes
  /\ \A p \in Pods : RefreshAgrees(p) /\ CacheAgrees(p)

-----------------------------------------------------------------------------
(* Types *)

LEMMA AnswerTypes ==
  /\ Lists \subseteq Seq(Clusters) /\ MaxChanges \in Nat /\ 0 \in Token /\ Token \subseteq Nat
  /\ NoAnswer \in Answer
  /\ <<>> \in Seq(Entry)
  /\ EmptyCache \in Cache
  /\ \A pc \in RefreshPcs : [NoRefresh EXCEPT !.pc = pc] \in Refreshing
  /\ NoRefresh \in Refreshing
  /\ NoLookup \in Lookup
  <1>1. Lists \subseteq Seq(Clusters) /\ MaxChanges \in Nat /\ 0 \in Token /\ Token \subseteq Nat
        BY ClusterCacheAssumption DEF Token
  <1>2. NoAnswer \in Answer
        BY <1>1 DEF NoAnswer, Answer
  <1>3. <<>> \in Seq(Entry)
        BY EmptySeq
  <1>4. EmptyCache \in Cache
        BY <1>2, <1>3 DEF EmptyCache, Cache
  <1>5. NoRefresh \in Refreshing /\ \A pc \in RefreshPcs : [NoRefresh EXCEPT !.pc = pc] \in Refreshing
        BY <1>2, <1>3 DEF NoRefresh, Refreshing, RefreshPcs
  <1>6. NoLookup \in Lookup
        BY DEF NoLookup, Lookup, LookPcs
  <1>7. QED  BY <1>1, <1>2, <1>3, <1>4, <1>5, <1>6

LEMMA ClusterTypes ==
  ASSUME ClusterInv
  PROVE  /\ auth \in [list : Lists, token : [Clusters -> Token]]
         /\ auth.list \in Seq(Clusters) /\ auth.list \in Lists
         /\ auth.token \in [Clusters -> Token]
         /\ auth \in Answer
         /\ changes \in Token
         /\ cached \in [Pods -> Cache] /\ refresh \in [Pods -> Refreshing]
         /\ writer \in [Pods -> {"none", "waiting"}]
         /\ look \in [Pods -> [Lookups -> Lookup]]
  BY AnswerTypes DEF ClusterInv, ClusterTypeOK, Answer

LEMMA RefreshTypes ==
  ASSUME ClusterInv, NEW p \in Pods
  PROVE  /\ refresh[p] \in Refreshing
         /\ refresh[p].pc \in RefreshPcs
         /\ refresh[p].entries \in Seq(Entry)
         /\ refresh[p].answer \in Answer
         /\ refresh[p].answer.list \in Seq(Clusters)
         /\ refresh[p].answer.token \in [Clusters -> Token]
  <1>1. refresh[p] \in Refreshing
        BY ClusterTypes
  <1>2. refresh[p].answer \in Answer
        BY <1>1 DEF Refreshing
  <1>3. <<>> \in Seq(Clusters)
        BY EmptySeq
  <1>4. QED  BY <1>1, <1>2, <1>3, AnswerTypes DEF Refreshing, Answer

-----------------------------------------------------------------------------
(* Steps and the pods they leave alone *)

LEMMA OthersAgree ==
  ASSUME ClusterInv, NEW q \in Pods,
         refresh'[q] = refresh[q], cached'[q] = cached[q],
         program'[q] = "serving" => program[q] = "serving" \/ refresh[q].pc = "loaded",
         \A c \in Clusters : auth'.token[c] \in Nat /\ auth.token[c] <= auth'.token[c]
  PROVE  RefreshAgrees(q)' /\ CacheAgrees(q)'
  <1>1. RefreshAgrees(q) /\ CacheAgrees(q)
        BY DEF ClusterInv
  <1>2. \A c \in Clusters : refresh[q].answer.token[c] \in Nat /\ auth.token[c] \in Nat
        BY ClusterTypes, RefreshTypes, AnswerTypes
  <1>3. RefreshAgrees(q)'
        BY <1>1, <1>2 DEF RefreshAgrees, Complete, Agrees
  <1>4. CacheAgrees(q)'
        BY <1>1 DEF CacheAgrees, Snapshot, Agrees
  <1>5. QED  BY <1>3, <1>4

(* A step of p that changes its refresh and its cache, not auth.           *)
LEMMA OwnStep ==
  ASSUME ClusterInv, NEW p \in Pods,
         NEW r \in Refreshing, NEW e \in Cache, UNCHANGED authVars,
         refresh' = [refresh EXCEPT ![p] = r], cached' = [cached EXCEPT ![p] = e],
         writer' \in [Pods -> {"none", "waiting"}], look' \in [Pods -> [Lookups -> Lookup]],
         \A q \in Pods \ {p} : program'[q] = "serving" => program[q] = "serving",
         RefreshAgrees(p)', CacheAgrees(p)'
  PROVE  ClusterInv'
  <1>1. /\ refresh' \in [Pods -> Refreshing] /\ cached' \in [Pods -> Cache]
        /\ \A q \in Pods \ {p} : refresh'[q] = refresh[q] /\ cached'[q] = cached[q]
        BY ClusterTypes
  <1>2. auth' = auth /\ changes' = changes
        BY DEF authVars
  <1>3. \A c \in Clusters : auth'.token[c] \in Nat /\ auth.token[c] <= auth'.token[c]
        BY <1>2, ClusterTypes, AnswerTypes
  <1>4. \A q \in Pods \ {p} : RefreshAgrees(q)' /\ CacheAgrees(q)'
        BY <1>1, <1>3, OthersAgree
  <1>5. ClusterTypeOK'
        BY <1>1, <1>2, ClusterTypes DEF ClusterTypeOK
  <1>6. QED  BY <1>2, <1>4, <1>5 DEF ClusterInv

(* A step that changes neither caches, nor refreshes, nor tokens back.     *)
LEMMA QuietStep ==
  ASSUME ClusterInv, UNCHANGED <<cached, refresh, writer>>,
         look' \in [Pods -> [Lookups -> Lookup]],
         auth' \in [list : Lists, token : [Clusters -> Token]], changes' \in Token,
         \A c \in Clusters : auth'.token[c] <= changes',
         \A c \in Clusters : auth.token[c] <= auth'.token[c],
         \A q \in Pods : program'[q] = "serving" =>
           program[q] = "serving" \/ refresh[q].pc = "loaded"
  PROVE  ClusterInv'
  <1>1. refresh' = refresh /\ cached' = cached /\ writer' = writer
        OBVIOUS
  <1>2. \A c \in Clusters : auth'.token[c] \in Nat
        BY AnswerTypes
  <1>3. \A q \in Pods : RefreshAgrees(q)' /\ CacheAgrees(q)'
        BY <1>1, <1>2, OthersAgree
  <1>4. ClusterTypeOK'
        BY <1>1, ClusterTypes DEF ClusterTypeOK
  <1>5. QED  BY <1>3, <1>4 DEF ClusterInv

-----------------------------------------------------------------------------
(* The steps of a refresh *)

(* A step of the refresh of p alone.                                       *)
LEMMA RefreshAlone ==
  ASSUME ClusterInv, NEW p \in Pods, NEW r \in Refreshing, UNCHANGED authVars,
         refresh' = [refresh EXCEPT ![p] = r], UNCHANGED <<cached, look>>,
         writer' \in [Pods -> {"none", "waiting"}],
         \A q \in Pods : program'[q] = "serving" => program[q] = "serving",
         RefreshAgrees(p)', r.pc # "loaded"
  PROVE  ClusterInv'
  <1>1. /\ cached[p] \in Cache /\ cached' = [cached EXCEPT ![p] = cached[p]]
        /\ cached' = cached /\ refresh'[p] = r
        BY ClusterTypes
  <1>2. look' \in [Pods -> [Lookups -> Lookup]]
        BY ClusterTypes
  <1>3. CacheAgrees(p)
        BY DEF ClusterInv
  <1>4. CacheAgrees(p)'
        BY <1>1, <1>3 DEF CacheAgrees, Snapshot, Agrees
  <1>5. QED  BY <1>1, <1>2, <1>4, OwnStep

(* A refresh that begins or fails has nothing resolved.                    *)
LEMMA RefreshReset ==
  ASSUME ClusterInv, NEW p \in Pods, NEW pc \in {"list", "failed"},
         refresh' = [refresh EXCEPT ![p] = [NoRefresh EXCEPT !.pc = pc]],
         UNCHANGED authVars, UNCHANGED <<cached, writer, look>>,
         \A q \in Pods : program'[q] = "serving" => program[q] = "serving"
  PROVE  ClusterInv'
  <1> DEFINE r == [NoRefresh EXCEPT !.pc = pc]
  <1>1. r \in Refreshing /\ r.pc = pc
        BY AnswerTypes DEF RefreshPcs, NoRefresh
  <1>2. refresh'[p] = r /\ r.entries = <<>> /\ writer' \in [Pods -> {"none", "waiting"}]
        BY ClusterTypes DEF NoRefresh
  <1>3. RefreshAgrees(p)'
        BY <1>1, <1>2 DEF RefreshAgrees
  <1>4. QED  BY <1>1, <1>2, <1>3, RefreshAlone

LEMMA ShowClustersKeeps ==
  ASSUME ClusterInv, NEW p \in Pods, ShowClusters(p), UNCHANGED authVars,
         \A q \in Pods : program'[q] = "serving" => program[q] = "serving"
  PROVE  ClusterInv'
  <1>1. CASE RefreshFails(p)
        BY <1>1, RefreshReset DEF RefreshFails, ShowClusters
  <1>2. CASE refresh' = [refresh EXCEPT ![p].pc = "resolve", ![p].answer = auth]
    <2> DEFINE r == [refresh[p] EXCEPT !.pc = "resolve", !.answer = auth]
    <2>1. /\ r \in Refreshing /\ r.pc = "resolve" /\ r.answer = auth
          /\ r.entries = refresh[p].entries
          BY RefreshTypes, ClusterTypes DEF Refreshing, RefreshPcs
    <2>2. refresh' = [refresh EXCEPT ![p] = r] /\ refresh'[p] = r
          BY <1>2, ClusterTypes
    <2>3. refresh[p].entries = <<>>
          BY DEF ClusterInv, RefreshAgrees, ShowClusters
    <2>4. Len(<<>>) = 0 /\ Len(auth.list) \in Nat
          BY ClusterTypes, EmptySeq, LenProperties
    <2>5. Agrees(r.entries, r.answer)
          BY <2>1, <2>3, <2>4 DEF Agrees
    <2>6. auth' = auth /\ \A c \in Clusters : auth.token[c] <= auth.token[c]
          BY ClusterTypes, AnswerTypes DEF authVars
    <2>7. RefreshAgrees(p)'
          BY <2>1, <2>2, <2>5, <2>6, ClusterTypes DEF RefreshAgrees
    <2>8. writer' \in [Pods -> {"none", "waiting"}] /\ cached' = cached /\ look' = look
          BY ClusterTypes DEF ShowClusters
    <2> HIDE DEF r
    <2>9. QED  BY <2>1, <2>2, <2>7, <2>8, RefreshAlone
  <1>3. QED  BY <1>1, <1>2 DEF ShowClusters

(* The token of a cluster is no older than the one auth had for it when it *)
(* sent the list.                                                          *)
LEMMA ResolveSaTokenKeeps ==
  ASSUME ClusterInv, NEW p \in Pods, ResolveSaToken(p), UNCHANGED authVars,
         \A q \in Pods : program'[q] = "serving" => program[q] = "serving"
  PROVE  ClusterInv'
  <1> DEFINE c == NextCluster(p)
             entry == [cluster |-> c, token |-> auth.token[c]]
             r == [refresh[p] EXCEPT !.pc = "verify", !.entries = Append(@, entry)]
  <1>1. CASE RefreshFails(p)
        BY <1>1, RefreshReset DEF RefreshFails, ResolveSaToken
  <1>2. CASE refresh' = [refresh EXCEPT ![p].pc = "verify", ![p].entries = Append(@, entry)]
    <2>1. /\ refresh[p].answer.list \in Lists
          /\ Agrees(refresh[p].entries, refresh[p].answer)
          /\ \A d \in Clusters : refresh[p].answer.token[d] <= auth.token[d]
          BY DEF ClusterInv, RefreshAgrees, ResolveSaToken
    <2>2. /\ Len(refresh[p].entries) \in Nat /\ Len(refresh[p].answer.list) \in Nat
          /\ Len(refresh[p].entries) < Len(refresh[p].answer.list)
          BY <2>1, RefreshTypes, LenProperties DEF Agrees, ResolveSaToken, Complete
    <2>3. c \in Clusters
          BY <2>2, RefreshTypes, ElementOfSeq DEF NextCluster
    <2>4. entry \in Entry
          BY <2>3, ClusterTypes DEF Entry
    <2>5. /\ Append(refresh[p].entries, entry) \in Seq(Entry)
          /\ Len(Append(refresh[p].entries, entry)) = Len(refresh[p].entries) + 1
          /\ \A i \in 1 .. Len(refresh[p].entries) :
               Append(refresh[p].entries, entry)[i] = refresh[p].entries[i]
          /\ Append(refresh[p].entries, entry)[Len(refresh[p].entries) + 1] = entry
          BY <2>4, RefreshTypes, AppendProperties
    <2>6. /\ r \in Refreshing /\ r.pc = "verify" /\ r.answer = refresh[p].answer
          /\ r.entries = Append(refresh[p].entries, entry)
          BY <2>5, RefreshTypes DEF Refreshing, RefreshPcs
    <2>7. refresh' = [refresh EXCEPT ![p] = r] /\ refresh'[p] = r
          BY <1>2, ClusterTypes
    <2>8. /\ entry.cluster = refresh[p].answer.list[Len(refresh[p].entries) + 1]
          /\ entry.token >= refresh[p].answer.token[entry.cluster]
      <3>1. refresh[p].answer.token[c] <= auth.token[c]
            BY <2>1, <2>3
      <3>2. refresh[p].answer.token[c] \in Nat /\ auth.token[c] \in Nat
            BY <2>3, RefreshTypes, ClusterTypes, AnswerTypes
      <3>3. QED  BY <3>1, <3>2 DEF NextCluster
    <2>9. Agrees(r.entries, r.answer)
      <3> DEFINE n == Len(refresh[p].entries)
      <3>1. \A i \in 1 .. n + 1 : i \in 1 .. n \/ i = n + 1
            BY <2>2
      <3>2. QED  BY <2>1, <2>2, <2>5, <2>6, <2>8, <3>1 DEF Agrees
    <2>10. auth' = auth
          BY DEF authVars
    <2>11. RefreshAgrees(p)'
          BY <2>1, <2>6, <2>7, <2>9, <2>10 DEF RefreshAgrees
    <2>12. writer' \in [Pods -> {"none", "waiting"}] /\ cached' = cached /\ look' = look
          BY ClusterTypes DEF ResolveSaToken
    <2> HIDE DEF r
    <2>13. QED  BY <2>6, <2>7, <2>11, <2>12, RefreshAlone
  <1>3. QED  BY <1>1, <1>2 DEF ResolveSaToken

(* A step that moves the refresh of p on and resolves nothing new.         *)
LEMMA RefreshMoves ==
  ASSUME ClusterInv, NEW p \in Pods, NEW pc \in {"resolve", "publish"},
         refresh[p].pc \in {"resolve", "verify"},
         pc = "publish" => Complete(p),
         refresh' = [refresh EXCEPT ![p].pc = pc],
         UNCHANGED authVars, UNCHANGED <<cached, look>>,
         writer' \in [Pods -> {"none", "waiting"}],
         \A q \in Pods : program'[q] = "serving" => program[q] = "serving"
  PROVE  ClusterInv'
  <1> DEFINE r == [refresh[p] EXCEPT !.pc = pc]
  <1>1. /\ r \in Refreshing /\ r.pc = pc /\ r.answer = refresh[p].answer
        /\ r.entries = refresh[p].entries
        BY RefreshTypes DEF Refreshing, RefreshPcs
  <1>2. refresh' = [refresh EXCEPT ![p] = r] /\ refresh'[p] = r
        BY ClusterTypes
  <1>3. RefreshAgrees(p)
        BY DEF ClusterInv
  <1>4. auth' = auth
        BY DEF authVars
  <1>5. RefreshAgrees(p)'
        BY <1>1, <1>2, <1>3, <1>4 DEF RefreshAgrees, Complete
  <1> HIDE DEF r
  <1>6. QED  BY <1>1, <1>2, <1>5, RefreshAlone

LEMMA WhoAmIKeeps ==
  ASSUME ClusterInv, NEW p \in Pods, WhoAmI(p), UNCHANGED authVars,
         \A q \in Pods : program'[q] = "serving" => program[q] = "serving"
  PROVE  ClusterInv'
  <1>1. CASE RefreshFails(p)
        BY <1>1, RefreshReset DEF RefreshFails, WhoAmI
  <1>2. CASE refresh' = [refresh EXCEPT ![p].pc = "resolve"]
        BY <1>2, ClusterTypes, RefreshMoves DEF WhoAmI
  <1>3. QED  BY <1>1, <1>2 DEF WhoAmI

LEMMA RequestLockKeeps ==
  ASSUME ClusterInv, NEW p \in Pods, RequestLock(p), UNCHANGED authVars,
         \A q \in Pods : program'[q] = "serving" => program[q] = "serving"
  PROVE  ClusterInv'
  BY ClusterTypes, RefreshMoves DEF RequestLock

LEMMA WokenReaders ==
  ASSUME ClusterInv, NEW p \in Pods, WakeReaders(p)
  PROVE  look' \in [Pods -> [Lookups -> Lookup]]
  <1>1. \A l \in Lookups : look[p][l] \in Lookup
        BY ClusterTypes
  <1>2. \A l \in Lookups : [look[p][l] EXCEPT !.pc = "locked"] \in Lookup
        BY <1>1 DEF Lookup, LookPcs
  <1>3. QED  BY <1>1, <1>2, ClusterTypes DEF WakeReaders

(* What is published agrees with the whole answer.                         *)
LEMMA PublishKeeps ==
  ASSUME ClusterInv, NEW p \in Pods, Publish(p), UNCHANGED authVars,
         \A q \in Pods : program'[q] = "serving" => program[q] = "serving"
  PROVE  ClusterInv'
  <1> DEFINE r == [NoRefresh EXCEPT !.pc = "loaded"]
             e == [entries |-> refresh[p].entries, answer |-> refresh[p].answer]
  <1>1. r \in Refreshing /\ r.pc = "loaded"
        BY AnswerTypes DEF RefreshPcs, NoRefresh
  <1>2. e \in Cache
        BY RefreshTypes DEF Cache
  <1>3. /\ refresh' = [refresh EXCEPT ![p] = r] /\ refresh'[p] = r
        /\ cached' = [cached EXCEPT ![p] = e] /\ cached'[p] = e
        /\ writer' \in [Pods -> {"none", "waiting"}]
        BY ClusterTypes DEF Publish, Replaced
  <1>4. RefreshAgrees(p)'
        BY <1>1, <1>3 DEF RefreshAgrees
  <1>5. RefreshAgrees(p) /\ refresh[p].pc = "publish"
        BY DEF ClusterInv, Publish
  <1>6. CacheAgrees(p)'
        BY <1>3, <1>5 DEF RefreshAgrees, CacheAgrees, Snapshot, Complete, Agrees
  <1>7. look' \in [Pods -> [Lookups -> Lookup]]
        BY WokenReaders DEF Publish
  <1> HIDE DEF r, e
  <1>8. QED  BY <1>1, <1>2, <1>3, <1>4, <1>6, <1>7, OwnStep

LEMMA RefreshStepKeeps ==
  ASSUME ClusterInv, NEW p \in Pods, RefreshStep(p), UNCHANGED authVars,
         \A q \in Pods : program'[q] = "serving" => program[q] = "serving"
  PROVE  ClusterInv'
  BY ShowClustersKeeps, ResolveSaTokenKeeps, WhoAmIKeeps, RequestLockKeeps, PublishKeeps
     DEF RefreshStep

-----------------------------------------------------------------------------
(* The other steps *)

LEMMA ResolvedIsThere ==
  ASSUME NEW entries, NEW target, NEW S, NoEntry \in S,
         \A i \in DOMAIN entries : entries[i] \in S
  PROVE  Resolve(entries, target) \in S
  <1> DEFINE IsFirst(i) == /\ entries[i].cluster = target
                           /\ \A j \in 1 .. i - 1 : entries[j].cluster # target
  <1>1. CASE \E i \in DOMAIN entries : IsFirst(i)
    <2>1. (CHOOSE i \in DOMAIN entries : IsFirst(i)) \in DOMAIN entries
          BY <1>1
    <2>2. QED  BY <1>1, <2>1 DEF Resolve
  <1>2. QED  BY <1>1 DEF Resolve

LEMMA ResolvedType ==
  ASSUME NEW entries \in Seq(Entry), NEW size \in Nat, NEW target
  PROVE  Resolve(Copied(entries, size), target) \in Entry \cup {NoEntry}
  <1>1. DOMAIN Copied(entries, size) = 1 .. size /\ Len(entries) \in Nat
        BY LenProperties DEF Copied
  <1>2. ASSUME NEW i \in 1 .. size
        PROVE  Copied(entries, size)[i] \in Entry \cup {NoEntry}
    <2>1. i <= Len(entries) => entries[i] \in Entry
          BY <1>1, <1>2, ElementOfSeq
    <2>2. QED  BY <2>1 DEF Copied
  <1>3. QED  BY <1>1, <1>2, ResolvedIsThere

(* A step of one look-up.                                                  *)
LEMMA OneLookup ==
  ASSUME ClusterInv, NEW p \in Pods, NEW l \in Lookups, NEW k \in Lookup,
         look' = [look EXCEPT ![p][l] = k]
  PROVE  look' \in [Pods -> [Lookups -> Lookup]]
  BY ClusterTypes

LEMMA LookTypes ==
  ASSUME ClusterInv, NEW p \in Pods, NEW l \in Lookups
  PROVE  /\ look[p][l] \in Lookup
         /\ cached[p].entries \in Seq(Entry) /\ Len(cached[p].entries) \in Nat
  <1>1. look[p][l] \in Lookup /\ cached[p] \in Cache
        BY ClusterTypes
  <1>2. QED  BY <1>1, LenProperties DEF Cache

LEMMA GetUserTypes ==
  ASSUME ClusterInv, NEW p \in Pods, NEW l \in Lookups, GetUser(p, l)
  PROVE  look' \in [Pods -> [Lookups -> Lookup]]
  <1>1. CASE UNCHANGED look
        BY <1>1, ClusterTypes
  <1>2. ASSUME NEW c \in Range(auth.list),
               look' = [look EXCEPT ![p][l] = [NoLookup EXCEPT !.pc = "ask", !.target = c]]
        PROVE  look' \in [Pods -> [Lookups -> Lookup]]
    <2>1. c \in Clusters
          BY ClusterTypes, RangeEquality, ElementOfSeq, LenProperties DEF Range
    <2>2. [NoLookup EXCEPT !.pc = "ask", !.target = c] \in Lookup
          BY <2>1 DEF NoLookup, Lookup, LookPcs
    <2>3. QED  BY <1>2, <2>2, OneLookup
  <1>3. QED  BY <1>1, <1>2 DEF GetUser

LEMMA LookStepTypes ==
  ASSUME ClusterInv, NEW p \in Pods, NEW l \in Lookups, LookStep(p, l)
  PROVE  look' \in [Pods -> [Lookups -> Lookup]]
  <1> DEFINE k == look[p][l]
  <1>1. k \in Lookup
        BY LookTypes
  <1>2. \A pc \in LookPcs : [k EXCEPT !.pc = pc] \in Lookup
        BY <1>1 DEF Lookup
  <1>3. CASE RLock(p, l)
    <2>1. \E pc \in LookPcs : look' = [look EXCEPT ![p][l] = [k EXCEPT !.pc = pc]]
          BY <1>3, ClusterTypes DEF RLock, LookAt, LookPcs
    <2>2. QED  BY <2>1, <1>2, OneLookup
  <1>4. CASE MakeCopy(p, l)
    <2>1. [k EXCEPT !.pc = "sized", !.size = Len(cached[p].entries)] \in Lookup
          BY <1>1, LookTypes DEF Lookup, LookPcs
    <2>2. look' = [look EXCEPT ![p][l] =
                     [k EXCEPT !.pc = "sized", !.size = Len(cached[p].entries)]]
          BY <1>4, ClusterTypes DEF MakeCopy
    <2>3. QED  BY <2>1, <2>2, OneLookup
  <1>5. CASE CopyAndSearch(p, l)
    <2> DEFINE found == Resolve(Copied(cached[p].entries, k.size), k.target)
    <2>1. k.size \in Nat
          BY <1>1 DEF Lookup
    <2>2. found \in Entry \cup {NoEntry}
          BY <2>1, LookTypes, ResolvedType
    <2>3. look' = [look EXCEPT ![p][l] =
                     [k EXCEPT !.pc = "done", !.size = 0, !.found = found]]
          BY ZenonT(60), <1>5, ClusterTypes DEF CopyAndSearch
    <2> HIDE DEF found
    <2>4. [k EXCEPT !.pc = "done", !.size = 0, !.found = found] \in Lookup
          BY <1>1, <2>2 DEF Lookup, LookPcs
    <2>5. QED  BY <2>3, <2>4, OneLookup
  <1>6. CASE EndLookup(p, l)
        BY <1>6, AnswerTypes, OneLookup DEF EndLookup
  <1>7. QED  BY <1>3, <1>4, <1>5, <1>6 DEF LookStep

(* Auth changes its list, or a token for a newer one.                      *)
LEMMA AuthChangesKeeps ==
  ASSUME ClusterInv, AuthChanges
  PROVE  ClusterInv'
  <1>1. changes \in Nat /\ changes + 1 \in Token /\ changes' = changes + 1
        BY ClusterTypes, AnswerTypes DEF AuthChanges, RotateToken, ChangeList, Changes, Token
  <1>2. \A c \in Clusters : auth.token[c] \in Nat /\ auth.token[c] <= changes
        BY ClusterTypes, AnswerTypes DEF ClusterInv
  <1>3. CASE \E c \in Clusters : RotateToken(c)
    <2>1. PICK c \in Clusters : RotateToken(c)
          BY <1>3
    <2>2. auth.token[c] + 1 \in Token
          BY <1>1, <1>2, AnswerTypes DEF Token
    <2>3. /\ auth' \in [list : Lists, token : [Clusters -> Token]]
          /\ auth'.token = [auth.token EXCEPT ![c] = auth.token[c] + 1]
          BY <2>1, <2>2, ClusterTypes DEF RotateToken
    <2>4. \A d \in Clusters : auth.token[d] <= auth'.token[d] /\ auth'.token[d] <= changes'
          BY <1>1, <1>2, <2>3, ClusterTypes
    <2>5. UNCHANGED <<cached, refresh, writer>> /\ look' \in [Pods -> [Lookups -> Lookup]]
          BY <2>1, ClusterTypes DEF RotateToken, cacheVars
    <2>6. QED  BY <1>1, <2>3, <2>4, <2>5, QuietStep DEF AuthChanges
  <1>4. CASE \E list \in Lists : ChangeList(list)
    <2>1. PICK list \in Lists : ChangeList(list)
          BY <1>4
    <2>2. /\ auth' \in [list : Lists, token : [Clusters -> Token]]
          /\ auth'.token = auth.token
          BY <2>1, ClusterTypes DEF ChangeList
    <2>3. \A d \in Clusters : auth.token[d] <= auth'.token[d] /\ auth'.token[d] <= changes'
          BY <1>1, <1>2, <2>2
    <2>4. UNCHANGED <<cached, refresh, writer>> /\ look' \in [Pods -> [Lookups -> Lookup]]
          BY <2>1, ClusterTypes DEF ChangeList, cacheVars
    <2>5. QED  BY <1>1, <2>2, <2>3, <2>4, QuietStep DEF AuthChanges
  <1>5. QED  BY <1>3, <1>4 DEF AuthChanges

(* The process of p ends; the cluster service of p forgets everything.     *)
LEMMA EndsKeeps ==
  ASSUME ClusterInv, NEW p \in Pods, Ends(p), program \in [Pods -> ProgramPcs]
  PROVE  ClusterInv'
  <1>1. /\ NoRefresh \in Refreshing /\ EmptyCache \in Cache
        /\ refresh' = [refresh EXCEPT ![p] = NoRefresh] /\ refresh'[p] = NoRefresh
        /\ cached' = [cached EXCEPT ![p] = EmptyCache]
        /\ writer' \in [Pods -> {"none", "waiting"}]
        BY ClusterTypes, AnswerTypes DEF Ends, ForgetClusters
  <1>2. look' \in [Pods -> [Lookups -> Lookup]]
        BY ClusterTypes, AnswerTypes DEF Ends, ForgetClusters
  <1>3. program'[p] # "serving" /\ \A q \in Pods \ {p} : program'[q] = program[q]
        BY DEF Ends, Goes
  <1>4. RefreshAgrees(p)' /\ CacheAgrees(p)'
        BY <1>1, <1>3 DEF RefreshAgrees, CacheAgrees, NoRefresh
  <1>5. QED  BY <1>1, <1>2, <1>3, <1>4, OwnStep DEF Ends

LEMMA BeginRefreshKeeps ==
  ASSUME ClusterInv, NEW p \in Pods, BeginRefresh(p), UNCHANGED authVars,
         UNCHANGED <<cached, writer, look>>,
         \A q \in Pods : program'[q] = "serving" => program[q] = "serving"
  PROVE  ClusterInv'
  BY RefreshReset DEF BeginRefresh

(* main goes on, from the loaded clusters to the service in particular.    *)
LEMMA OnlyMainMoves ==
  ASSUME ClusterInv, UNCHANGED clusterVars,
         \A q \in Pods : program'[q] = "serving" =>
           program[q] = "serving" \/ refresh[q].pc = "loaded"
  PROVE  ClusterInv'
  <1>1. /\ UNCHANGED <<cached, refresh, writer>>
        /\ look' = look /\ auth' = auth /\ changes' = changes
        BY DEF clusterVars
  <1>2. \A c \in Clusters : auth.token[c] <= auth.token[c] /\ auth.token[c] <= changes
        BY ClusterTypes, AnswerTypes DEF ClusterInv
  <1>3. QED  BY <1>1, <1>2, ClusterTypes, QuietStep

LEMMA MainStepKeepsClusters ==
  ASSUME ClusterInv, program \in [Pods -> ProgramPcs], NEW p \in Pods, MainStep(p)
  PROVE  ClusterInv'
  <1>1. CASE StartProgram(p)
        BY <1>1, OnlyMainMoves DEF StartProgram, Goes
  <1>2. CASE Connect(p)
        BY <1>2, OnlyMainMoves DEF Connect, Goes
  <1>3. CASE Migrates(p)
        BY <1>3, OnlyMainMoves DEF Migrates
  <1>4. CASE MigrationFails(p)
        BY <1>4, EndsKeeps DEF MigrationFails
  <1>5. CASE MigrationDone(p)
        BY <1>5, OnlyMainMoves DEF MigrationDone, Goes
  <1>6. CASE GetOAuthToken(p)
    <2>1. CASE Goes(p, "keys") /\ UNCHANGED clusterVars
          BY <2>1, OnlyMainMoves DEF Goes
    <2>2. CASE Ends(p)
          BY <2>2, EndsKeeps
    <2>3. QED  BY <1>6, <2>1, <2>2 DEF GetOAuthToken
  <1>7. CASE GetPublicKeys(p)
    <2>1. CASE Goes(p, "clusters") /\ BeginRefresh(p)
               /\ UNCHANGED authVars /\ UNCHANGED <<cached, writer, look>>
      <3>1. \A q \in Pods : program'[q] = "serving" => program[q] = "serving"
            BY <2>1 DEF Goes
      <3>2. QED  BY <2>1, <3>1, BeginRefreshKeeps
    <2>2. CASE Ends(p)
          BY <2>2, EndsKeeps
    <2>3. QED  BY <1>7, <2>1, <2>2 DEF GetPublicKeys
  <1>8. CASE ClustersFail(p)
        BY <1>8, EndsKeeps DEF ClustersFail
  <1>9. CASE ClustersLoaded(p)
        BY <1>9, OnlyMainMoves DEF ClustersLoaded, Goes
  <1>10. QED  BY <1>1, <1>2, <1>3, <1>4, <1>5, <1>6, <1>7, <1>8, <1>9 DEF MainStep

LEMMA LookupsKeepClusters ==
  ASSUME ClusterInv, NEW p \in Pods, NEW l \in Lookups,
         GetUser(p, l) \/ LookStep(p, l), UNCHANGED program, UNCHANGED authVars
  PROVE  ClusterInv'
  <1>1. look' \in [Pods -> [Lookups -> Lookup]]
        BY SMTT(40), GetUserTypes, LookStepTypes
  <1>2. UNCHANGED <<cached, refresh, writer>>
        BY DEF GetUser, LookStep, RLock, MakeCopy, CopyAndSearch, EndLookup
  <1>3. /\ auth' = auth /\ changes' = changes
        /\ \A c \in Clusters : auth.token[c] <= auth.token[c] /\ auth.token[c] <= changes
        BY ClusterTypes, AnswerTypes DEF ClusterInv, authVars
  <1>4. QED  BY <1>1, <1>2, <1>3, ClusterTypes, QuietStep

LEMMA ClusterStep ==
  ASSUME ClusterInv, program \in [Pods -> ProgramPcs], [Next]_vars
  PROVE  ClusterInv'
  <1>1. ASSUME NEW p \in Pods, MainStep(p)
        PROVE  ClusterInv'
        BY <1>1, MainStepKeepsClusters
  <1>2. ASSUME NEW p \in Pods, RefresherStep(p)
        PROVE  ClusterInv'
        BY <1>2, RefreshStepKeeps, BeginRefreshKeeps DEF RefresherStep, Refreshes, Tick
  <1>3. ASSUME NEW p \in Pods, AsksForCluster(p)
        PROVE  ClusterInv'
        BY <1>3, LookupsKeepClusters DEF AsksForCluster
  <1>4. ASSUME NEW p \in Pods, Crash(p)
        PROVE  ClusterInv'
        BY <1>4, EndsKeeps DEF Crash
  <1>5. ASSUME NEW p \in Pods, NEW l \in Lookups, LooksUp(p, l)
        PROVE  ClusterInv'
        BY <1>5, LookupsKeepClusters DEF LooksUp
  <1>6. CASE AuthChanges
        BY <1>6, AuthChangesKeeps
  <1>7. CASE UNCHANGED vars
        BY <1>7, OnlyMainMoves DEF vars, clusterVars
  <1>8. QED  BY <1>1, <1>2, <1>3, <1>4, <1>5, <1>6, <1>7 DEF Next

LEMMA ClustersStart ==
  ASSUME Init
  PROVE  ClusterInv
  <1>1. /\ changes = 0 /\ 0 \in Token
        /\ auth \in [list : Lists, token : [Clusters -> Token]]
        /\ \A c \in Clusters : auth.token[c] <= changes
        BY AnswerTypes DEF Init, ClusterInit
  <1>2. /\ cached \in [Pods -> Cache] /\ refresh \in [Pods -> Refreshing]
        /\ writer \in [Pods -> {"none", "waiting"}]
        /\ look \in [Pods -> [Lookups -> Lookup]]
        BY AnswerTypes DEF Init, ClusterInit
  <1>3. \A p \in Pods : refresh[p].pc = "none" /\ program[p] = "down"
        BY DEF Init, ClusterInit, NoRefresh
  <1>4. \A p \in Pods : RefreshAgrees(p) /\ CacheAgrees(p)
        BY <1>3 DEF RefreshAgrees, CacheAgrees
  <1>5. QED  BY <1>1, <1>2, <1>4 DEF ClusterInv, ClusterTypeOK

-----------------------------------------------------------------------------
(* ClusterInv is inductive: a cache, a refresh and a list that a lookup    *)
(* goes through are all lists that auth has had (cluster/service.go).      *)
THEOREM ClustersAgree == Spec => []ClusterInv
  <1>1. ProgramInv => program \in [Pods -> ProgramPcs]
        BY DEF ProgramInv
  <1>2. QED  BY <1>1, Invariance, ClustersStart, ClusterStep, PTL DEF Spec

(* TypeOK: the type invariant of the program's start and of its parts.     *)
THEOREM TypeCorrect == Spec => []TypeOK
  <1>1. ProgramInv /\ ClusterInv => TypeOK
        BY DEF ProgramInv, MigrationInv, ClusterInv, TypeOK
  <1>2. QED  BY <1>1, Invariance, ClustersAgree, PTL

(* SnapshotOfAuth: the cache of a pod that serves is one whole answer of   *)
(* auth, whatever changes and whichever refreshes fail.                    *)
THEOREM CacheIsSnapshot == Spec => []SnapshotOfAuth
  <1>1. ASSUME ClusterInv, NEW p \in Pods, program[p] = "serving"
        PROVE  LET entries == cached[p].entries  answer == cached[p].answer IN
                 /\ answer.list \in Lists
                 /\ Len(entries) = Len(answer.list)
                 /\ \A i \in DOMAIN entries :
                      /\ entries[i].cluster = answer.list[i]
                      /\ entries[i].token >= answer.token[answer.list[i]]
    <2>1. Snapshot(p)
          BY <1>1 DEF ClusterInv, CacheAgrees
    <2>2. DOMAIN cached[p].entries = 1 .. Len(cached[p].entries)
          BY <1>1, ClusterTypes, LenProperties DEF Cache
    <2>3. QED  BY <2>1, <2>2 DEF Snapshot, Agrees
  <1>2. ClusterInv => SnapshotOfAuth
        BY <1>1 DEF SnapshotOfAuth
  <1>3. QED  BY <1>2, ClustersAgree, PTL

-----------------------------------------------------------------------------
(* The cluster service implements ClusterLists: the copy that a look-up    *)
(* searches is a whole list, since nothing is published under the lock     *)

SizeKept == \A p \in Pods, l \in Lookups :
  look[p][l].pc = "sized" => look[p][l].size = Len(cached[p].entries)

Found == [p \in Pods |-> [l \in Lookups |->
            IF look[p][l].pc = "done" THEN {look[p][l].found} ELSE {}]]

List == [p \in Pods |-> cached[p].entries]

ListsInv == ClusterInv /\ SizeKept

(* No step of the look-up of l but MakeCopy makes it sized.                *)
LEMMA LookStepKeepsSize ==
  ASSUME ListsInv, NEW p \in Pods, NEW l \in Lookups, GetUser(p, l) \/ LookStep(p, l)
  PROVE  SizeKept' /\ cached' = cached
  <1>1. cached' = cached
        BY ZenonT(60) DEF GetUser, LookStep, RLock, MakeCopy, CopyAndSearch, EndLookup
  <1>2. look[p][l] \in Lookup /\ look \in [Pods -> [Lookups -> Lookup]]
        BY ClusterTypes DEF ListsInv
  <1>3. look'[p][l].pc = "sized" => look'[p][l].size = Len(cached[p].entries)
    <2>1. CASE GetUser(p, l)
          BY ZenonT(60), <1>2, <2>1 DEF GetUser, NoLookup, ListsInv, SizeKept
    <2>2. CASE RLock(p, l)
          BY <1>2, <2>2 DEF RLock, LookAt, Lookup
    <2>3. CASE MakeCopy(p, l)
          BY <1>2, <2>3 DEF MakeCopy, Lookup
    <2>4. CASE CopyAndSearch(p, l)
          BY <1>2, <2>4 DEF CopyAndSearch, Lookup
    <2>5. CASE EndLookup(p, l)
          BY <1>2, <2>5 DEF EndLookup, NoLookup
    <2>6. QED  BY <2>1, <2>2, <2>3, <2>4, <2>5 DEF LookStep
  <1>4. \A q \in Pods, k \in Lookups : q # p \/ k # l => look'[q][k] = look[q][k]
    <2>1. CASE GetUser(p, l)
      <3>1. CASE UNCHANGED look
            BY <3>1
      <3>2. CASE \E c \in Range(auth.list) :
                   look' = [look EXCEPT ![p][l] = [NoLookup EXCEPT !.pc = "ask", !.target = c]]
            BY <1>2, <3>2
      <3>3. QED  BY <2>1, <3>1, <3>2 DEF GetUser
    <2>2. CASE RLock(p, l) \/ MakeCopy(p, l)
          BY <1>2, <2>2 DEF RLock, LookAt, MakeCopy
    <2>3. CASE CopyAndSearch(p, l)
          BY <1>2, <2>3 DEF CopyAndSearch
    <2>4. CASE EndLookup(p, l)
          BY <1>2, <2>4 DEF EndLookup
    <2>5. QED  BY <2>1, <2>2, <2>3, <2>4 DEF LookStep
  <1>5. QED  BY SMTT(40), <1>1, <1>3, <1>4 DEF ListsInv, SizeKept

(* Nobody copies the list while it is replaced.                            *)
LEMMA PublishKeepsSize ==
  ASSUME ListsInv, NEW p \in Pods, Publish(p)
  PROVE  /\ \A q \in Pods \ {p} : look'[q] = look[q] /\ cached'[q] = cached[q]
         /\ \A l \in Lookups : look'[p][l].pc # "sized"
         /\ \A l \in Lookups : look'[p][l].pc = "done" =>
               look[p][l].pc = "done" /\ look'[p][l].found = look[p][l].found
  <1>1. /\ \A l \in Lookups : look[p][l] \in Lookup /\ look[p][l].pc # "sized"
        /\ look \in [Pods -> [Lookups -> Lookup]] /\ cached \in [Pods -> Cache]
        BY ClusterTypes DEF ListsInv, Publish, Readers
  <1>2. \A l \in Lookups : look'[p][l] = IF look[p][l].pc = "waiting"
                                        THEN [look[p][l] EXCEPT !.pc = "locked"]
                                        ELSE look[p][l]
        BY <1>1 DEF Publish, WakeReaders
  <1>3. \A q \in Pods \ {p} : look'[q] = look[q] /\ cached'[q] = cached[q]
        BY <1>1 DEF Publish, WakeReaders, Replaced
  <1>4. QED  BY <1>1, <1>2, <1>3 DEF Lookup

LEMMA EndsKeepsSize ==
  ASSUME ListsInv, NEW p \in Pods, Ends(p)
  PROVE  /\ \A q \in Pods \ {p} : look'[q] = look[q] /\ cached'[q] = cached[q]
         /\ \A l \in Lookups : look'[p][l].pc = "idle"
  BY ClusterTypes DEF ListsInv, Ends, ForgetClusters, NoLookup

(* What a step is for those that look clusters up.                         *)
Replaces == \E p \in Pods : Publish(p) \/ Ends(p)

LooksClustersUp == \E p \in Pods, l \in Lookups : GetUser(p, l) \/ LookStep(p, l)

LEMMA ListShapes ==
  ASSUME [Next]_vars
  PROVE  Replaces \/ LooksClustersUp \/ UNCHANGED <<cached, look>>
  <1>1. ASSUME NEW p \in Pods, MainStep(p)
        PROVE  Replaces \/ UNCHANGED <<cached, look>>
        BY <1>1 DEF MainStep, StartProgram, Connect, Migrates, MigrationFails, MigrationDone,
             GetOAuthToken, GetPublicKeys, ClustersFail, ClustersLoaded, clusterVars, Replaces
  <1>2. ASSUME NEW p \in Pods, RefresherStep(p)
        PROVE  Replaces \/ UNCHANGED <<cached, look>>
        BY <1>2 DEF RefresherStep, Refreshes, RefreshStep, Tick, ShowClusters,
             ResolveSaToken, WhoAmI, RequestLock, Replaces
  <1>3. ASSUME NEW p \in Pods, AsksForCluster(p) \/ \E l \in Lookups : LooksUp(p, l)
        PROVE  LooksClustersUp
        BY <1>3 DEF AsksForCluster, LooksUp, LooksClustersUp
  <1>4. ASSUME NEW p \in Pods, Crash(p)
        PROVE  Replaces
        BY <1>4 DEF Crash, Replaces
  <1>5. CASE AuthChanges \/ UNCHANGED vars
        BY <1>5 DEF AuthChanges, RotateToken, ChangeList, cacheVars, vars
  <1>6. QED  BY <1>1, <1>2, <1>3, <1>4, <1>5 DEF Next

LEMMA SizeStep ==
  ASSUME ListsInv, [Next]_vars
  PROVE  SizeKept'
  <1>1. CASE Replaces
        BY <1>1, PublishKeepsSize, EndsKeepsSize DEF Replaces, ListsInv, SizeKept
  <1>2. CASE LooksClustersUp
        BY <1>2, LookStepKeepsSize DEF LooksClustersUp
  <1>3. CASE UNCHANGED <<cached, look>>
        BY <1>3 DEF ListsInv, SizeKept
  <1>4. QED  BY <1>1, <1>2, <1>3, ListShapes

LEMMA WholeCopy ==
  ASSUME NEW entries \in Seq(Entry)
  PROVE  Copied(entries, Len(entries)) = entries
  BY LenProperties DEF Copied

(* Only one cluster of a list can be the first with its URL.               *)
LEMMA ResolvesToFirst ==
  ASSUME NEW entries \in Seq(Entry), NEW c
  PROVE  {Resolve(entries, c)} = Service!Finds(entries, c)
  <1> DEFINE IsFirst(i) == /\ entries[i].cluster = c
                           /\ \A j \in 1 .. i - 1 : entries[j].cluster # c
  <1>1. DOMAIN entries = 1 .. Len(entries) /\ Len(entries) \in Nat
        BY LenProperties
  <1>2. Service!First(entries, c) = {entries[i] : i \in {j \in DOMAIN entries : IsFirst(j)}}
        BY DEF Service!First
  <1>3. CASE \E i \in DOMAIN entries : IsFirst(i)
    <2>1. PICK i \in DOMAIN entries : IsFirst(i)
          BY <1>3
    <2>2. ASSUME NEW j \in DOMAIN entries, IsFirst(j)
          PROVE  j = i
          BY <1>1, <2>1, <2>2
    <2>3. Resolve(entries, c) = entries[i]
          BY <2>1, <2>2 DEF Resolve
    <2>4. Service!First(entries, c) = {entries[i]}
          BY <1>2, <2>1, <2>2
    <2>5. QED  BY <2>3, <2>4 DEF Service!Finds
  <1>4. CASE ~ \E i \in DOMAIN entries : IsFirst(i)
    <2>1. Resolve(entries, c) = NoEntry
          BY <1>4 DEF Resolve
    <2>2. Service!First(entries, c) = {}
          BY <1>2, <1>4
    <2>3. QED  BY <2>1, <2>2 DEF Service!Finds, Service!NoEntry, NoEntry
  <1>5. QED  BY <1>3, <1>4

LEMMA ReplacesList ==
  ASSUME ListsInv, NEW p \in Pods, Publish(p) \/ Ends(p)
  PROVE  Service!Replace(p)
  <1>1. /\ \A q \in Pods \ {p} : look'[q] = look[q] /\ cached'[q] = cached[q]
        /\ \A l \in Lookups : look'[p][l].pc = "done" =>
              look[p][l].pc = "done" /\ look'[p][l].found = look[p][l].found
        BY PublishKeepsSize, EndsKeepsSize
  <1>2. \A q \in Pods \ {p} : List'[q] = List[q] /\ Found'[q] = Found[q]
        BY <1>1 DEF List, Found
  <1>3. \A l \in Lookups : Found'[p][l] \in {Found[p][l], {}}
        BY <1>1 DEF Found
  <1>4. QED  BY <1>2, <1>3 DEF Service!Replace, List, Found

Target == [p \in Pods |-> [l \in Lookups |-> look[p][l].target]]

FoundBy(p, l) == IF look[p][l].pc = "done" THEN {look[p][l].found} ELSE {}

LEMMA FoundAfter ==
  ASSUME NEW p \in Pods, NEW l \in Lookups, NEW S,
         \A q \in Pods, k \in Lookups : q # p \/ k # l => look'[q][k] = look[q][k],
         S = FoundBy(p, l)'
  PROVE  Found' = [Found EXCEPT ![p][l] = S]
  <1>1. \A q \in Pods \ {p} : Found'[q] = Found[q]
        BY DEF Found
  <1>2. Found'[p] = [Found[p] EXCEPT ![l] = S]
        BY DEF Found, FoundBy
  <1>3. Found' = [q \in Pods |-> Found'[q]] /\ Found = [q \in Pods |-> Found[q]]
        BY DEF Found
  <1>4. QED  BY <1>1, <1>2, <1>3

LEMMA LooksUpInList ==
  ASSUME ListsInv, NEW p \in Pods, NEW l \in Lookups, GetUser(p, l) \/ LookStep(p, l)
  PROVE  \/ Service!Find(p, l) \/ Service!Other(p, l)
         \/ UNCHANGED <<List, Found, Target>>
  <1>1. look[p][l] \in Lookup /\ look \in [Pods -> [Lookups -> Lookup]]
        BY ClusterTypes DEF ListsInv
  <1>2. UNCHANGED List
        BY LookStepKeepsSize DEF List
  <1>3. CASE UNCHANGED look
        BY <1>2, <1>3 DEF Found, Target
  <1>4. CASE CopyAndSearch(p, l)
    <2> DEFINE r == Resolve(Copied(cached[p].entries, look[p][l].size), look[p][l].target)
    <2>1. look' = [look EXCEPT ![p][l] = [look[p][l] EXCEPT !.pc = "done", !.size = 0,
                                                            !.found = r]]
          BY <1>1, <1>4 DEF CopyAndSearch
    <2>2. look[p][l].size = Len(cached[p].entries) /\ cached[p].entries \in Seq(Entry)
          BY <1>4, LookTypes DEF CopyAndSearch, ListsInv, SizeKept
    <2>3. {r} = Service!Finds(List[p], Target[p][l])
          BY <2>2, WholeCopy, ResolvesToFirst DEF List, Target
    <2> HIDE DEF r
    <2>4. /\ look'[p][l].pc = "done" /\ look'[p][l].found = r
          /\ look'[p][l].target = look[p][l].target
          /\ \A q \in Pods, k \in Lookups : q # p \/ k # l => look'[q][k] = look[q][k]
          BY <1>1, <2>1 DEF Lookup
    <2>5. Found[p][l] = {} /\ Found' = [Found EXCEPT ![p][l] = {r}]
      <3>1. Found[p][l] = {}
            BY <1>4 DEF Found, CopyAndSearch
      <3>2. {r} = FoundBy(p, l)'
            BY <2>4 DEF FoundBy
      <3>3. QED  BY <2>4, <3>1, <3>2, FoundAfter
    <2>6. UNCHANGED Target
          BY <2>4 DEF Target
    <2>7. QED  BY <1>2, <2>3, <2>5, <2>6 DEF Service!Find, List, Found, Target
  <1>5. ASSUME NEW k \in Lookup, k.pc # "done", look' = [look EXCEPT ![p][l] = k]
        PROVE  Service!Other(p, l)
    <2>1. look'[p][l].pc # "done"
          /\ \A q \in Pods, j \in Lookups : q # p \/ j # l => look'[q][j] = look[q][j]
          BY <1>1, <1>5
    <2>2. {} = FoundBy(p, l)'
          BY <2>1 DEF FoundBy
    <2>3. Found' = [Found EXCEPT ![p][l] = {}]
          BY <2>1, <2>2, FoundAfter
    <2>4. QED  BY <1>2, <2>3 DEF Service!Other, List, Found
  <1>6. CASE RLock(p, l)
    <2>1. \E pc \in LookPcs \ {"done"} : look' = [look EXCEPT ![p][l] =
                                                   [look[p][l] EXCEPT !.pc = pc]]
          BY <1>1, <1>6 DEF RLock, LookAt, LookPcs
    <2>2. \A pc \in LookPcs : LET k == [look[p][l] EXCEPT !.pc = pc] IN
                               k \in Lookup /\ k.pc = pc
          BY <1>1 DEF Lookup
    <2>3. QED  BY <2>1, <2>2, <1>5
  <1>7. CASE MakeCopy(p, l)
    <2> DEFINE k == [look[p][l] EXCEPT !.pc = "sized", !.size = Len(cached[p].entries)]
    <2>1. k \in Lookup /\ k.pc = "sized"
          BY <1>1, LookTypes DEF Lookup, LookPcs, ListsInv
    <2>2. look' = [look EXCEPT ![p][l] = k]
          BY <1>1, <1>7 DEF MakeCopy
    <2> HIDE DEF k
    <2>3. QED  BY <2>1, <2>2, <1>5
  <1>8. CASE EndLookup(p, l)
        BY <1>5, <1>8, AnswerTypes DEF EndLookup, NoLookup
  <1>9. ASSUME NEW c \in Range(auth.list),
               look' = [look EXCEPT ![p][l] = [NoLookup EXCEPT !.pc = "ask", !.target = c]]
        PROVE  Service!Other(p, l)
    <2> DEFINE k == [NoLookup EXCEPT !.pc = "ask", !.target = c]
    <2>1. c \in Clusters
          BY <1>9, ClusterTypes, ElementOfSeq, LenProperties DEF Range, ListsInv
    <2>2. k \in Lookup /\ k.pc = "ask"
          BY ZenonT(60), <2>1 DEF NoLookup, Lookup, LookPcs
    <2> HIDE DEF k
    <2>3. QED  BY <1>9, <2>2, <1>5 DEF k
  <1>10. CASE GetUser(p, l)
        BY <1>3, <1>9, <1>10 DEF GetUser
  <1>11. QED  BY <1>4, <1>6, <1>7, <1>8, <1>10 DEF LookStep

(* ServiceSpec: whatever the locks, the copies and the failures, a look-up *)
(* finds what one list of its pod has for its target.                      *)
THEOREM ImplementsLists == Spec => ServiceSpec
  <1>1. Init => Service!Init /\ SizeKept
    <2>1. ASSUME Init
          PROVE  \A p \in Pods : /\ cached[p].entries = <<>>
                                 /\ \A l \in Lookups : look[p][l].pc = "idle"
          BY <2>1 DEF Init, ClusterInit, EmptyCache, NoLookup
    <2>2. QED  BY <2>1 DEF Service!Init, SizeKept
  <1>2. ListsInv /\ [Next]_vars => [Service!Next]_Service!vars
    <2>1. SUFFICES ASSUME ListsInv, [Next]_vars
                   PROVE  Service!Next \/ UNCHANGED <<List, Found, Target>>
          BY DEF Service!vars, List, Found, Target
    <2>2. CASE Replaces
          BY <2>1, <2>2, ReplacesList DEF Replaces, Service!Next
    <2>3. CASE LooksClustersUp
          BY <2>1, <2>3, LooksUpInList DEF LooksClustersUp, Service!Next
    <2>4. CASE UNCHANGED <<cached, look>>
          BY <2>4 DEF List, Found, Target
    <2>5. QED  BY <2>1, <2>2, <2>3, <2>4, ListShapes
  <1>3. Spec => []SizeKept
    <2>1. ClusterInv /\ SizeKept /\ [Next]_vars => SizeKept'
          BY SizeStep DEF ListsInv
    <2>2. QED  BY <1>1, <2>1, ClustersAgree, PTL DEF Spec
  <1>4. ClusterInv /\ SizeKept => ListsInv
        BY DEF ListsInv
  <1>5. QED  BY <1>1, <1>2, <1>3, <1>4, ClustersAgree, PTL DEF Spec, ServiceSpec, Service!Spec
=============================================================================
