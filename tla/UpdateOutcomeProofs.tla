------------------------- MODULE UpdateOutcomeProofs -------------------------
(***************************************************************************)
(* Proofs about what a cluster-wide update ends with: TenantsUpdate        *)
(* implements ClusterWideUpdate, nobody is forgotten and no failure is     *)
(* hidden, for any number of processes, tenants and clusters. They rest on *)
(* mutual exclusion and on its assumptions (TenantsUpdateProofs).          *)
(***************************************************************************)
EXTENDS TenantsUpdateProofs

-----------------------------------------------------------------------------
(* The inductive invariant *)

Full(u) == job[u].filter = EnvTypes /\ job[u].limit = AnyCluster

AllCurrent == \A t \in Tenants, ty \in EnvTypes : ns[t][ty].current

(* What was saved by this build is of its version.                         *)
CommitIsCurrent ==
  \A t \in Tenants, ty \in EnvTypes : ns[t][ty].byCommit => ns[t][ty].current

(* The types of the update are those of all outdated namespaces.           *)
CoversOutdated(u) ==
  \A t \in Tenants, ty \in EnvTypes : ~ns[t][ty].current => ty \in job[u].types

(* Nothing of these types is left on the cluster.                          *)
NothingLeft(types, c) ==
  \A t \in Tenants, ty \in EnvTypes :
    ClusterOf[t][ty] = c /\ ty \in types => ns[t][ty].current

Visited(u, c) == NothingLeft(job[u].types, c)

Thorough(u) ==
  /\ Running(u) /\ Full(u) => CoversOutdated(u)
  /\ pc[u] = "working" /\ Full(u) =>
       \A c \in Clusters : worker[u][c].pc \in {"none", "ok"} =>
         ~row.canContinue \/ Visited(u, c)
  /\ pc[u] = "status" /\ Full(u) => ~row.canContinue \/ AllCurrent
  /\ pc[u] = "save" => /\ tu[u].status \in Abstract!Ends
                       /\ tu[u].status = "finished" => AllCurrent

Outcome ==
  /\ CommitIsCurrent
  /\ NothingForgotten
  /\ \A u \in Updaters : Thorough(u)

-----------------------------------------------------------------------------
(* The table of namespaces *)

(* No row goes back to an earlier version.                                 *)
OnlyUpdates ==
  \A t \in Tenants, ty \in EnvTypes :
    /\ ns[t][ty].current => ns'[t][ty].current
    /\ ns'[t][ty].byCommit => ns'[t][ty].current

LEMMA SaveOnlyUpdates ==
  ASSUME TypeOK, CommitIsCurrent,
         NEW t, NEW saved, NEW bad, Save(t, saved, bad)
  PROVE  OnlyUpdates
  <1>1. \A ty \in EnvTypes : SavedRow(ty \in bad).current
        BY DEF SavedRow
  <1>2. \A s \in Tenants, ty \in EnvTypes :
          \/ ns'[s][ty] = ns[s][ty]
          \/ ns'[s][ty] = SavedRow(ty \in bad)
        BY DEF Save, TypeOK, NamespaceTable
  <1>3. QED  BY <1>1, <1>2 DEF OnlyUpdates, CommitIsCurrent

LEMMA SameNamespaces ==
  ASSUME CommitIsCurrent, ns' = ns
  PROVE  OnlyUpdates
  BY DEF CommitIsCurrent, OnlyUpdates

(* Where nothing is outdated everything is of the current version, since   *)
(* only what was saved by this build is left out of the query.             *)
LEMMA NothingOutdated ==
  ASSUME CommitIsCurrent, NEW types, NEW c \in Clusters,
         \A t \in Tenants, ty \in EnvTypes :
           ~(ClusterOf[t][ty] = c /\ IsOutdated(ns[t][ty], ty, types))
  PROVE  NothingLeft(types, c)
  BY DEF CommitIsCurrent, IsOutdated, NothingLeft

LEMMA NoneOfCluster ==
  ASSUME CommitIsCurrent, NEW types, NEW c \in Clusters, OutdatedTenants(ns, types, c) = {}
  PROVE  NothingLeft(types, c)
  <1>1. \A t \in Tenants, ty \in EnvTypes :
          ~(ClusterOf[t][ty] = c /\ IsOutdated(ns[t][ty], ty, types))
        BY DEF OutdatedTenants
  <1>2. QED  BY <1>1, NothingOutdated

LEMMA NoSuchCluster ==
  ASSUME CommitIsCurrent, NEW types, NEW c \in Clusters, c \notin GetClustersToUpdate(ns, types)
  PROVE  NothingLeft(types, c)
  <1>1. \A t \in Tenants, ty \in EnvTypes :
          ~(ClusterOf[t][ty] = c /\ IsOutdated(ns[t][ty], ty, types))
        BY DEF GetClustersToUpdate
  <1>2. QED  BY <1>1, NothingOutdated

-----------------------------------------------------------------------------
(* The steps of a worker *)

(* What a step of a worker leaves alone, and what it may change.           *)
WorkerChanges(u, c) ==
  /\ pc' = pc /\ job' = job /\ tu' = tu
  /\ pc[u] = "working" /\ worker[u][c].pc \notin {"none", "ok"}
  /\ \A v \in Updaters, d \in Clusters : v # u \/ d # c => worker'[v][d] = worker[v][d]
  /\ row'.status = row.status /\ row'.canContinue = row.canContinue
  /\ row'.failedCount \in {row.failedCount, row.failedCount + 1}

LEMMA OneWorker ==
  ASSUME TypeOK, NEW u \in Updaters, NEW c \in Clusters, NEW w, WorkerIs(u, c, w)
  PROVE  /\ worker'[u][c] = w
         /\ \A v \in Updaters, d \in Clusters : v # u \/ d # c => worker'[v][d] = worker[v][d]
  BY DEF WorkerIs, TypeOK

LEMMA RowOfWorker ==
  ASSUME TypeOK
  PROVE  /\ UpdateLastTimeUpdated(row).status = row.status
         /\ UpdateLastTimeUpdated(row).canContinue = row.canContinue
         /\ UpdateLastTimeUpdated(row).failedCount = row.failedCount
         /\ IncrementFailedCount(row).status = row.status
         /\ IncrementFailedCount(row).canContinue = row.canContinue
         /\ IncrementFailedCount(row).failedCount = row.failedCount + 1
  BY DEF TypeOK, TenantsUpdateRow, UpdateLastTimeUpdated, IncrementFailedCount

LEMMA WorkerStepChanges ==
  ASSUME TypeOK, NEW u \in Updaters, NEW c \in Clusters, WorkerStep(u, c)
  PROVE  WorkerChanges(u, c)
  <1>1. \E w : WorkerIs(u, c, w)
        BY ZenonT(60) DEF WorkerStep, FetchBatch, FetchFails, CheckCanContinue, CheckFails, EndOfBatch,
               Heartbeat, HeartbeatFails, ReadNamespaces, ExecutorSucceeds, ExecutorFails,
               CountFailure, CountFails, TakeTenant, WorkerGoto
  <1>2. \A v \in Updaters, d \in Clusters : v # u \/ d # c => worker'[v][d] = worker[v][d]
        BY SMTT(40), <1>1, OneWorker
  <1>3. pc' = pc /\ job' = job /\ tu' = tu
        BY ZenonT(60) DEF WorkerStep, FetchBatch, FetchFails, CheckCanContinue, CheckFails, EndOfBatch,
               Heartbeat, HeartbeatFails, ReadNamespaces, ExecutorSucceeds, ExecutorFails,
               CountFailure, CountFails
  <1>4. pc[u] = "working" /\ worker[u][c].pc \notin {"none", "ok"}
        BY ZenonT(60) DEF WorkerStep, FetchBatch, FetchFails, CheckCanContinue, CheckFails, EndOfBatch,
               Heartbeat, HeartbeatFails, ReadNamespaces, ExecutorSucceeds, ExecutorFails,
               CountFailure, CountFails, At
  <1>5. row' \in {row, UpdateLastTimeUpdated(row), IncrementFailedCount(row)}
        BY ZenonT(60) DEF WorkerStep, FetchBatch, FetchFails, CheckCanContinue, CheckFails, EndOfBatch,
               Heartbeat, HeartbeatFails, ReadNamespaces, ExecutorSucceeds, ExecutorFails,
               CountFailure, CountFails
  <1>6. QED  BY SMTT(40), <1>2, <1>3, <1>4, <1>5, RowOfWorker DEF WorkerChanges

LEMMA WorkerOnlyUpdates ==
  ASSUME TypeOK, CommitIsCurrent, NEW u \in Updaters, NEW c \in Clusters, WorkerStep(u, c)
  PROVE  OnlyUpdates
  <1>1. ns' = ns \/ \E t, saved, bad : Save(t, saved, bad)
        BY ZenonT(60) DEF WorkerStep, FetchBatch, FetchFails, CheckCanContinue, CheckFails, EndOfBatch,
               Heartbeat, HeartbeatFails, ReadNamespaces, ExecutorSucceeds, ExecutorFails,
               CountFailure, CountFails
  <1>2. QED  BY <1>1, SaveOnlyUpdates, SameNamespaces

(* A worker ends without an error when it was told to stop, or when there  *)
(* is nothing left to do.                                                  *)
LEMMA WorkerEnds ==
  ASSUME TypeOK, "query" \notin Faults, NEW u \in Updaters, NEW c \in Clusters,
         WorkerStep(u, c), worker'[u][c].pc \in {"none", "ok"}
  PROVE  ~row.canContinue \/ OutdatedTenants(ns, job[u].types, c) = {}
  <1> DEFINE w == worker[u][c]
  <1>0. w \in Worker
        BY DEF TypeOK
  <1>a. ASSUME NEW x, WorkerIs(u, c, x)
        PROVE  x.pc \in {"none", "ok"}
        BY <1>a, OneWorker
  <1>b. \A l \in WorkerPcs \ {"none", "ok"} :
          ~WorkerGoto(u, c, l) /\ ~WorkerIs(u, c, [IdleWorker EXCEPT !.pc = l])
    <2>1. \A l \in WorkerPcs : [w EXCEPT !.pc = l].pc = l /\ [IdleWorker EXCEPT !.pc = l].pc = l
          BY <1>0, WorkerPositions
    <2>2. QED  BY <1>a, <2>1 DEF WorkerGoto
  <1>c. {"err", "check", "beat", "fetch", "read", "exec", "incr"} \subseteq WorkerPcs
        BY DEF WorkerPcs
  <1>1. CASE FetchBatch(u, c)
    <2>1. ASSUME NEW b \in SUBSET Tenants
          PROVE  ~WorkerIs(u, c, [IdleWorker EXCEPT !.pc = "check", !.batch = b])
          BY <1>0, <1>a, WorkerPositions
    <2>2. Batches(OutdatedTenants(ns, job[u].types, c)) \subseteq SUBSET Tenants
          BY DEF Batches, OutdatedTenants
    <2>3. QED  BY <1>1, <2>1, <2>2 DEF FetchBatch
  <1>2. CASE FetchFails(u, c)
        BY <1>2, NoQueryFault DEF FetchFails
  <1>3. ~TakeTenant(u, c)
        BY ZenonT(60), <1>0, <1>a, WorkerPositions DEF TakeTenant
  <1>4. CASE CheckCanContinue(u, c)
        BY <1>3, <1>4 DEF CheckCanContinue
  <1>5. CASE CheckFails(u, c)
        BY <1>3, <1>5, NoQueryFault DEF CheckFails
  <1>6. CASE EndOfBatch(u, c)
        BY <1>b, <1>c, <1>6 DEF EndOfBatch
  <1>7. CASE Heartbeat(u, c) \/ HeartbeatFails(u, c)
        BY <1>b, <1>c, <1>7 DEF Heartbeat, HeartbeatFails
  <1>8. ~WorkerIs(u, c, TenantDone(w))
        BY <1>0, <1>a, WorkerPositions
  <1>9. CASE ReadNamespaces(u, c)
    <2>1. TypesToUpdate(ns[w.tenant], job[u].types) \in SUBSET EnvTypes
          BY DEF TypesToUpdate, TypeOK, Job
    <2>2. ASSUME NEW types \in SUBSET EnvTypes
          PROVE  ~WorkerIs(u, c, [w EXCEPT !.pc = "exec", !.types = types])
          BY ZenonT(60), <1>0, <1>a, WorkerPositions
    <2>3. QED  BY <1>8, <1>9, <2>1, <2>2 DEF ReadNamespaces
  <1>10. CASE ExecutorSucceeds(u, c)
        BY <1>8, <1>10 DEF ExecutorSucceeds
  <1>11. CASE ExecutorFails(u, c)
        BY <1>b, <1>c, <1>11 DEF ExecutorFails
  <1>12. CASE CountFailure(u, c) \/ CountFails(u, c)
        BY <1>8, <1>12 DEF CountFailure, CountFails
  <1>13. QED
        BY <1>1, <1>2, <1>4, <1>5, <1>6, <1>7, <1>9, <1>10, <1>11, <1>12 DEF WorkerStep
-----------------------------------------------------------------------------
(* Outcome is inductive *)

LEMMA IdleIsThorough ==
  ASSUME NEW u \in Updaters, pc'[u] \notin RunPcs
  PROVE  Thorough(u)'
  BY DEF Thorough, Running, RunPcs

LEMMA OthersThorough ==
  ASSUME NEW v \in Updaters, Thorough(v), ns' = ns, row'.canContinue => row.canContinue,
         pc'[v] = pc[v], job'[v] = job[v], tu'[v] = tu[v], worker'[v] = worker[v]
  PROVE  Thorough(v)'
  BY DEF Thorough, Running, Full, CoversOutdated, Visited, NothingLeft, AllCurrent

(* Nobody runs when the row invites to start.                              *)
LEMMA NobodyRuns ==
  ASSUME Lease, row.status # "updating" \/ IsOlderThanTimeout(row)
  PROVE  \A v \in Updaters : ~Running(v)
  BY TimeoutAssumption
     DEF Lease, RunIsVisible, IsOlderThanTimeout, TypeOK, TenantsUpdateRow, Ages

LEMMA OutcomeWorkerStep ==
  ASSUME Lease, Outcome, "query" \notin Faults,
         NEW u \in Updaters, NEW c \in Clusters, WorkerStep(u, c)
  PROVE  Outcome'
  <1>0. TypeOK /\ CommitIsCurrent /\ Thorough(u) /\ WorkerChanges(u, c) /\ OnlyUpdates
        BY WorkerStepChanges, WorkerOnlyUpdates DEF Lease, Outcome
  <1>1. Running(u) /\ row'.status = "updating"
        BY <1>0 DEF WorkerChanges, Running, RunPcs, Lease, RunIsVisible
  <1>2. CommitIsCurrent' /\ NothingForgotten'
        BY <1>0, <1>1 DEF OnlyUpdates, CommitIsCurrent, NothingForgotten
  <1>3. ASSUME NEW v \in Updaters, v # u
        PROVE  Thorough(v)'
        BY <1>0, <1>1, <1>3, IdleIsThorough DEF WorkerChanges, Lease, MutualExclusion, Running
  <1>4. \A types, d : NothingLeft(types, d) => NothingLeft(types, d)'
        BY <1>0 DEF OnlyUpdates, NothingLeft
  <1>5. ASSUME Full(u)
        PROVE  /\ CoversOutdated(u)'
               /\ \A d \in Clusters : worker'[u][d].pc \in {"none", "ok"} =>
                    ~row'.canContinue \/ Visited(u, d)'
    <2>1. CoversOutdated(u)'
          BY <1>0, <1>1, <1>5 DEF Thorough, WorkerChanges, OnlyUpdates, CoversOutdated
    <2>2. ASSUME NEW d \in Clusters, worker'[u][d].pc \in {"none", "ok"}
          PROVE  ~row.canContinue \/ Visited(u, d)
      <3>1. CASE d = c
        <4>1. ~row.canContinue \/ OutdatedTenants(ns, job[u].types, c) = {}
              BY <1>0, <2>2, <3>1, WorkerEnds
        <4>2. QED  BY <1>0, <3>1, <4>1, NoneOfCluster DEF Visited
      <3>2. CASE d # c
            BY <1>0, <1>5, <2>2, <3>2 DEF WorkerChanges, Thorough
      <3>3. QED  BY <3>1, <3>2
    <2>3. row'.canContinue = row.canContinue /\ job' = job
          BY <1>0 DEF WorkerChanges
    <2>4. QED  BY <1>4, <2>1, <2>2, <2>3 DEF Visited
  <1>6. Thorough(u)'
        BY <1>0, <1>1, <1>5 DEF WorkerChanges, Thorough, Full
  <1>7. QED  BY <1>2, <1>3, <1>6 DEF Outcome

(* A step of u that touches neither namespaces nor what others look at.    *)
LEMMA OutcomeOfStep ==
  ASSUME Outcome, NEW u \in Updaters, ns' = ns, Thorough(u)',
         row'.status = "finished" => AllCurrent \/ (row.status = "finished" /\ row'.stored = row.stored),
         \A v \in Updaters : v # u => Thorough(v)'
  PROVE  Outcome'
  <1>1. CommitIsCurrent'
        BY DEF Outcome, CommitIsCurrent
  <1>2. NothingForgotten'
        BY DEF Outcome, NothingForgotten, AllCurrent, OutdatedTypes
  <1>3. QED  BY <1>1, <1>2 DEF Outcome

LEMMA OutcomePrepare ==
  ASSUME Lease, Outcome, NEW u \in Updaters, NEW types, Prepare(u, types), ns' = ns,
         row.status # "updating" \/ IsOlderThanTimeout(row),
         \/ types = EnvTypes
         \/ types = OutdatedTypes(row) /\ row.status = "finished"
  PROVE  Outcome'
  <1>1. \A v \in Updaters : ~Running(v)
        BY NobodyRuns
  <1>2. row'.status = "updating"
        BY DEF Lease, TypeOK, Prepare, PrepareForUpdating, TenantsUpdateRow
  <1>3. pc'[u] = "clusters" /\ \A v \in Updaters : v # u => pc'[v] = pc[v]
        BY DEF Lease, TypeOK, Prepare, Goto
  <1>4. job'[u].types = types
        BY DEF Lease, TypeOK, Prepare, Job
  <1>5. CoversOutdated(u)'
        BY <1>4 DEF CoversOutdated, Outcome, NothingForgotten
  <1>6. Thorough(u)'
        BY <1>3, <1>5 DEF Thorough
  <1>7. ASSUME NEW v \in Updaters, v # u
        PROVE  Thorough(v)'
        BY <1>1, <1>3, <1>7, IdleIsThorough DEF Running
  <1>8. QED  BY <1>2, <1>6, <1>7, OutcomeOfStep
(* u goes to a place outside the run, or stays outside, with the row as it *)
(* was.                                                                    *)
LEMMA OutcomeLeaves ==
  ASSUME TypeOK, Outcome, NEW u \in Updaters, NEW l \in Pcs \ RunPcs, Goto(u, l),
         ns' = ns, row' = row,
         \A v \in Updaters : v # u =>
           job'[v] = job[v] /\ tu'[v] = tu[v] /\ worker'[v] = worker[v]
  PROVE  Outcome'
  <1>1. pc'[u] = l /\ \A v \in Updaters : v # u => pc'[v] = pc[v]
        BY DEF TypeOK, Goto
  <1>2. Thorough(u)'
        BY <1>1, IdleIsThorough
  <1>3. \A v \in Updaters : v # u => Thorough(v)'
        BY <1>1, OthersThorough DEF Outcome
  <1>4. QED  BY <1>2, <1>3, OutcomeOfStep

LEMMA OutcomeStartWorkers ==
  ASSUME TypeOK, Outcome, NEW u \in Updaters, StartWorkers(u)
  PROVE  Outcome'
  <1> DEFINE types == job[u].types \cap job[u].filter
  <1>1. pc[u] = "clusters" /\ pc'[u] = "working" /\ \A v \in Updaters : v # u => pc'[v] = pc[v]
        BY DEF TypeOK, StartWorkers, Goto
  <1>2. /\ row' = row /\ ns' = ns /\ tu' = tu
        /\ job'[u].types = types /\ job'[u].filter = job[u].filter /\ job'[u].limit = job[u].limit
        /\ \A v \in Updaters : v # u => job'[v] = job[v] /\ worker'[v] = worker[v]
        BY DEF TypeOK, Job, StartWorkers
  <1>3. ASSUME Full(u)
        PROVE  /\ CoversOutdated(u)'
               /\ \A c \in Clusters : worker'[u][c].pc \in {"none", "ok"} => Visited(u, c)'
    <2>1. types = job[u].types
          BY <1>3 DEF Full, TypeOK, Job
    <2>2. CoversOutdated(u)
          BY <1>1, <1>3 DEF Outcome, Thorough, Running, RunPcs
    <2>3. ASSUME NEW c \in Clusters, worker'[u][c].pc \in {"none", "ok"}
          PROVE  NothingLeft(types, c)
      <3>1. worker'[u][c] = IF c \in GetClustersToUpdate(ns, types)
                            THEN [IdleWorker EXCEPT !.pc = "fetch"] ELSE IdleWorker
            BY <1>3 DEF Full, TypeOK, StartWorkers
      <3>2. [IdleWorker EXCEPT !.pc = "fetch"].pc = "fetch"
            BY DEF IdleWorker
      <3>3. c \notin GetClustersToUpdate(ns, types)
            BY <2>3, <3>1, <3>2
      <3>4. QED  BY <3>3, NoSuchCluster DEF Outcome
    <2>4. QED  BY <1>2, <2>1, <2>2, <2>3 DEF CoversOutdated, Visited, NothingLeft
  <1>4. Thorough(u)'
        BY <1>1, <1>2, <1>3 DEF Thorough, Full
  <1>5. \A v \in Updaters : v # u => Thorough(v)'
        BY <1>1, <1>2, OthersThorough DEF Outcome
  <1>6. QED  BY <1>2, <1>4, <1>5, OutcomeOfStep

(* When all goroutines have come back everything was visited.              *)
LEMMA AllVisited ==
  ASSUME NEW u \in Updaters, CoversOutdated(u), \A c \in Clusters : Visited(u, c)
  PROVE  AllCurrent
  <1>1. \A t \in Tenants, ty \in EnvTypes : ClusterOf[t][ty] \in Clusters
        BY ClusterOfAssumption
  <1>2. QED  BY <1>1 DEF CoversOutdated, Visited, NothingLeft, AllCurrent

LEMMA OutcomeJoinWorkers ==
  ASSUME TypeOK, NobodyReportsError, Outcome, NEW u \in Updaters, JoinWorkers(u)
  PROVE  Outcome'
  <1>1. \A c \in Clusters : worker[u][c].pc \in {"none", "ok"}
        BY DEF JoinWorkers, NobodyReportsError
  <1>2. pc[u] = "working" /\ pc'[u] = "status" /\ \A v \in Updaters : v # u => pc'[v] = pc[v]
        BY DEF TypeOK, JoinWorkers, Goto, NobodyReportsError
  <1>3. /\ row' = row /\ ns' = ns /\ tu' = tu /\ job' = job
        /\ \A v \in Updaters : v # u => worker'[v] = worker[v]
        BY DEF TypeOK, JoinWorkers
  <1>4. ASSUME Full(u)
        PROVE  CoversOutdated(u) /\ (~row.canContinue \/ AllCurrent)
        BY <1>1, <1>2, <1>4, AllVisited DEF Outcome, Thorough, Running, RunPcs
  <1>5. Thorough(u)'
        BY <1>2, <1>3, <1>4 DEF Thorough, Full, CoversOutdated, AllCurrent
  <1>6. \A v \in Updaters : v # u => Thorough(v)'
        BY <1>2, <1>3, OthersThorough DEF Outcome
  <1>7. QED  BY <1>3, <1>5, <1>6, OutcomeOfStep

LEMMA OutcomeReadStatus ==
  ASSUME TypeOK, Outcome, NEW u \in Updaters, ReadStatus(u)
  PROVE  Outcome'
  <1>1. pc[u] = "status" /\ pc'[u] = "save" /\ \A v \in Updaters : v # u => pc'[v] = pc[v]
        BY DEF TypeOK, ReadStatus, Goto
  <1>2. /\ row' = row /\ ns' = ns /\ job' = job /\ worker' = worker
        /\ \A v \in Updaters : v # u => tu'[v] = tu[v]
        BY DEF TypeOK, ReadStatus
  <1>3. tu'[u].status = StatusAfterUpdate(u)
        BY DEF TypeOK, TenantsUpdateRow, ReadStatus, WithCurrentVersions
  <1>4. StatusAfterUpdate(u) \in Abstract!Ends
        BY DEF StatusAfterUpdate, Abstract!Ends
  <1>5. StatusAfterUpdate(u) = "finished" => AllCurrent
        BY <1>1 DEF StatusAfterUpdate, Outcome, Thorough, Full
  <1>6. CoversOutdated(u) => CoversOutdated(u)'
        BY <1>2 DEF CoversOutdated
  <1>7. Thorough(u)'
        BY <1>1, <1>2, <1>3, <1>4, <1>5, <1>6
           DEF Thorough, Outcome, Running, RunPcs, Full, AllCurrent
  <1>8. \A v \in Updaters : v # u => Thorough(v)'
        BY <1>1, <1>2, OthersThorough DEF Outcome
  <1>9. QED  BY <1>2, <1>7, <1>8, OutcomeOfStep

LEMMA OutcomeSaveStatus ==
  ASSUME Lease, Outcome, NEW u \in Updaters, SaveStatus(u)
  PROVE  Outcome'
  <1>1. pc[u] = "save" /\ pc'[u] = "done" /\ \A v \in Updaters : v # u => pc'[v] = pc[v]
        BY DEF Lease, TypeOK, SaveStatus, Goto
  <1>2. ns' = ns /\ row'.status = tu[u].status
        BY DEF Lease, TypeOK, TenantsUpdateRow, SaveStatus, SaveTenantsUpdate
  <1>3. row'.status = "finished" => AllCurrent
        BY <1>1, <1>2 DEF Outcome, Thorough
  <1>4. \A v \in Updaters : Thorough(v)'
    <2>1. \A v \in Updaters : v # u => ~Running(v)
          BY <1>1 DEF Lease, MutualExclusion, Running, RunPcs
    <2>2. QED  BY <1>1, <2>1, IdleIsThorough DEF Running, RunPcs
  <1>5. QED  BY <1>2, <1>3, <1>4, OutcomeOfStep

LEMMA OutcomeUpdaterStep ==
  ASSUME Lease, Outcome, "query" \notin Faults, NEW u \in Updaters, UpdaterStep(u)
  PROVE  Outcome'
  <1>0. /\ TypeOK /\ NobodyReportsError
        /\ {"waiting", "handle", "done"} \subseteq Pcs \ RunPcs
        BY DEF Lease, Pcs, RunPcs
  <1>1. CASE BeginUpdate(u)
        BY <1>1, OutcomePrepare DEF BeginUpdate, TypesToStart
  <1>2. CASE NothingToUpdate(u)
        BY <1>0, <1>2, OutcomeLeaves DEF NothingToUpdate
  <1>3. CASE FindOngoingUpdate(u)
    <2>1. \A v \in Updaters : v # u => job'[v] = job[v]
          BY <1>0, <1>3 DEF FindOngoingUpdate, TypeOK
    <2>2. QED  BY <1>0, <1>3, <2>1, OutcomeLeaves DEF FindOngoingUpdate
  <1>4. CASE BeginFails(u)
        BY <1>0, <1>4, OutcomeLeaves DEF BeginFails, TransactionFails
  <1>5. CASE Recheck(u)
    <2>1. CASE IsOlderThanTimeout(row) /\ Prepare(u, EnvTypes)
          BY <1>5, <2>1, OutcomePrepare DEF Recheck
    <2>2. CASE Goto(u, "done") /\ UNCHANGED <<row, job, execFailed>>
          BY <1>0, <1>5, <2>2, OutcomeLeaves DEF Recheck
    <2>3. QED  BY <1>5, <2>1, <2>2 DEF Recheck
  <1>6. CASE RecheckFails(u)
        BY <1>0, <1>6, OutcomeLeaves DEF RecheckFails, TransactionFails
  <1>7. CASE StartWorkers(u)
        BY <1>0, <1>7, OutcomeStartWorkers
  <1>8. CASE StartWorkersFails(u)
        BY <1>8, NoQueryFault DEF StartWorkersFails
  <1>9. CASE JoinWorkers(u)
        BY <1>0, <1>9, OutcomeJoinWorkers
  <1>10. CASE ReadStatus(u)
        BY <1>0, <1>10, OutcomeReadStatus
  <1>11. CASE SaveStatus(u)
        BY <1>11, OutcomeSaveStatus
  <1>12. CASE StatusFails(u)
        BY <1>0, <1>12, OutcomeLeaves, NoQueryFault DEF StatusFails, TransactionFails
  <1>13. CASE HandleTenantUpdateError(u)
        BY <1>0, <1>13 DEF HandleTenantUpdateError, NobodyReportsError
  <1>14. CASE HandleFails(u)
        BY <1>0, <1>14 DEF HandleFails, NobodyReportsError
  <1>15. QED
        BY <1>1, <1>2, <1>3, <1>4, <1>5, <1>6, <1>7, <1>8, <1>9, <1>10, <1>11, <1>12, <1>13, <1>14
           DEF UpdaterStep

(* The steps of everybody else.                                            *)
LEMMA OutcomeEnvironmentStep ==
  ASSUME TypeOK, Outcome,
         \/ StopRequest
         \/ Tick
         \/ \E u \in Updaters :
              StartPod(u) \/ (\E request \in Requests : StartRequest(u, request)) \/ Crash(u)
  PROVE  Outcome'
  <1>1. CASE StopRequest \/ Tick
    <2>1. /\ row'.status = row.status /\ row'.stored = row.stored
          /\ row'.canContinue => row.canContinue
          BY <1>1 DEF TypeOK, TenantsUpdateRow, StopRequest, Stop, Tick
    <2>2. UNCHANGED <<ns, pc, tu, worker>>
          BY <1>1 DEF StopRequest, Tick
    <2>3. \A v \in Updaters : /\ job'[v].types = job[v].types
                              /\ job'[v].filter = job[v].filter
                              /\ job'[v].limit = job[v].limit
          BY SMTT(40), <1>1 DEF TypeOK, Job, StopRequest, Tick
    <2>4. \A v \in Updaters : Thorough(v)'
          BY <2>1, <2>2, <2>3
             DEF Outcome, Thorough, Running, Full, CoversOutdated, Visited, NothingLeft, AllCurrent
    <2>5. QED
          BY <2>1, <2>2, <2>4 DEF Outcome, CommitIsCurrent, NothingForgotten, OutdatedTypes
  <1>2. ASSUME NEW u \in Updaters,
               StartPod(u) \/ \E request \in Requests : StartRequest(u, request)
        PROVE  Outcome'
    <2>1. Goto(u, "begin") /\ row' = row /\ ns' = ns /\ tu' = tu /\ worker' = worker
          BY ZenonT(60), <1>2 DEF StartPod, StartRequest
    <2>2. \A v \in Updaters : v # u => job'[v] = job[v]
          BY ZenonT(60), <1>2 DEF TypeOK, StartPod, StartRequest
    <2>3. "begin" \in Pcs \ RunPcs
          BY DEF Pcs, RunPcs
    <2>4. QED  BY <2>1, <2>2, <2>3, OutcomeLeaves
  <1>3. ASSUME NEW u \in Updaters, Crash(u)
        PROVE  Outcome'
    <2>1. Goto(u, "crashed") /\ row' = row /\ ns' = ns /\ job' = job
          BY <1>3 DEF Crash
    <2>2. \A v \in Updaters : v # u => tu'[v] = tu[v] /\ worker'[v] = worker[v]
          BY <1>3 DEF TypeOK, Crash
    <2>3. "crashed" \in Pcs \ RunPcs
          BY DEF Pcs, RunPcs
    <2>4. QED  BY <2>1, <2>2, <2>3, OutcomeLeaves
  <1>4. QED  BY <1>1, <1>2, <1>3

LEMMA OutcomeInit == Init => Outcome
  <1> SUFFICES ASSUME Init PROVE Outcome
      OBVIOUS
  <1>1. \A t \in Tenants : ns[t] \in [EnvTypes -> {r \in NamespaceRow : r.byCommit => r.current}]
        BY ConstantsAssumption DEF Init
  <1>2. CommitIsCurrent
        BY <1>1 DEF CommitIsCurrent
  <1>3. NothingForgotten /\ \A u \in Updaters : Thorough(u)
        BY DEF Init, NothingForgotten, Thorough, Running, RunPcs
  <1>4. QED  BY <1>2, <1>3 DEF Outcome

LEMMA OutcomeStep ==
  ASSUME Lease, Outcome, "query" \notin Faults, [Next]_vars
  PROVE  Outcome'
  <1>0. TypeOK
        BY DEF Lease
  <1>1. CASE UNCHANGED vars
        BY <1>1
           DEF vars, Outcome, CommitIsCurrent, NothingForgotten, Thorough, Running, Full,
               CoversOutdated, Visited, NothingLeft, AllCurrent
  <1>2. CASE StopRequest \/ Tick
        BY <1>0, <1>2, OutcomeEnvironmentStep
  <1>3. ASSUME NEW u \in Updaters,
               \/ StartPod(u)
               \/ \E request \in Requests : StartRequest(u, request)
               \/ Crash(u)
        PROVE  Outcome'
        BY <1>0, <1>3, OutcomeEnvironmentStep
  <1>4. ASSUME NEW u \in Updaters, UpdaterStep(u)
        PROVE  Outcome'
        BY <1>4, OutcomeUpdaterStep
  <1>5. ASSUME NEW u \in Updaters, NEW c \in Clusters, WorkerStep(u, c)
        PROVE  Outcome'
        BY <1>5, OutcomeWorkerStep
  <1>6. QED
        BY <1>1, <1>2, <1>3, <1>4, <1>5 DEF Next

(* Both invariants together.                                               *)
LEMMA OutcomeAlways ==
  ASSUME Punctual, "query" \notin Faults
  PROVE  Spec => [](Lease /\ Outcome)
  <1>1. Init => Lease /\ Outcome
        BY LeaseInit, OutcomeInit
  <1>2. Lease /\ Outcome /\ [Next]_vars => Lease' /\ Outcome'
        BY LeaseStep, OutcomeStep
  <1>3. QED  BY <1>1, <1>2, PTL DEF Spec

(* NothingForgotten: an update that ended as finished has left no outdated *)
(* namespace on any cluster which the next update would not select, though *)
(* tenants fail, rows are not saved, transactions do not begin, processes  *)
(* die and somebody asks to stop. It takes that no statement fails: the    *)
(* error of CanContinue is shadowed and its goroutine then stops early.    *)
THEOREM NobodyForgotten ==
  ASSUME Punctual, "query" \notin Faults
  PROVE  Spec => []NothingForgotten
  <1>1. Lease /\ Outcome => NothingForgotten
        BY DEF Outcome
  <1>2. QED  BY <1>1, OutcomeAlways, PTL
-----------------------------------------------------------------------------
(* The refinement of ClusterWideUpdate *)

LEMMA PendingShrinks ==
  ASSUME OnlyUpdates
  PROVE  Pending' \subseteq Pending
  BY DEF OnlyUpdates, Pending

LEMMA PendingKept ==
  ASSUME ns' = ns
  PROVE  Pending' = Pending
  BY DEF Pending

LEMMA NonePending ==
  ASSUME AllCurrent
  PROVE  Pending = {}
  BY DEF AllCurrent, Pending

LEMMA AbstractUpdaterStep ==
  ASSUME Lease, Outcome, "query" \notin Faults, NEW u \in Updaters, UpdaterStep(u)
  PROVE  [Abstract!Next]_<<row.status, Pending>>
  <1>0. ns' = ns /\ TypeOK
        BY DEF Lease, UpdaterStep, BeginUpdate, NothingToUpdate, FindOngoingUpdate, BeginFails,
               Recheck, RecheckFails, StartWorkers, StartWorkersFails, JoinWorkers, ReadStatus,
               SaveStatus, StatusFails, HandleTenantUpdateError, HandleFails, TransactionFails
  <1>1. Pending' = Pending
        BY <1>0, PendingKept
  <1>2. CASE row' = row
        BY <1>1, <1>2
  <1>3. ASSUME NEW types, Prepare(u, types)
        PROVE  Abstract!Start
        BY <1>0, <1>1, <1>3 DEF Prepare, PrepareForUpdating, TypeOK, TenantsUpdateRow, Abstract!Start
  <1>4. CASE SaveStatus(u)
    <2>1. pc[u] = "save" /\ row'.status = tu[u].status
          BY <1>0, <1>4 DEF SaveStatus, SaveTenantsUpdate, TypeOK, TenantsUpdateRow
    <2>2. row.status = "updating"
          BY <2>1 DEF Lease, RunIsVisible, Running, RunPcs
    <2>3. row'.status \in Abstract!Ends /\ (row'.status = "finished" => Pending = {})
          BY <2>1, NonePending DEF Outcome, Thorough
    <2>4. Abstract!End
          BY <1>1, <2>2, <2>3 DEF Abstract!End
    <2>5. QED  BY <2>4 DEF Abstract!Next
  <1>5. CASE HandleTenantUpdateError(u)
        BY <1>5 DEF HandleTenantUpdateError, Lease, NobodyReportsError
  <1>6. \/ row' = row
        \/ \E types : Prepare(u, types)
        \/ SaveStatus(u)
        \/ HandleTenantUpdateError(u)
        BY DEF UpdaterStep, BeginUpdate, NothingToUpdate, FindOngoingUpdate, BeginFails, Recheck,
               RecheckFails, StartWorkers, StartWorkersFails, JoinWorkers, ReadStatus,
               StatusFails, HandleFails, TransactionFails
  <1>7. QED  BY <1>2, <1>3, <1>4, <1>5, <1>6 DEF Abstract!Next

LEMMA AbstractStep ==
  ASSUME Lease, Outcome, "query" \notin Faults, [Next]_vars
  PROVE  [Abstract!Next]_<<row.status, Pending>>
  <1>0. TypeOK
        BY DEF Lease
  <1>1. CASE UNCHANGED vars
    <2>1. row' = row /\ ns' = ns
          BY <1>1 DEF vars
    <2>2. QED  BY <2>1, PendingKept
  <1>2. CASE StopRequest \/ Tick
    <2>1. row'.status = row.status /\ ns' = ns
          BY <1>0, <1>2 DEF StopRequest, Stop, Tick, TypeOK, TenantsUpdateRow
    <2>2. QED  BY <2>1, PendingKept
  <1>3. ASSUME NEW u \in Updaters,
               \/ StartPod(u)
               \/ \E request \in Requests : StartRequest(u, request)
               \/ Crash(u)
        PROVE  [Abstract!Next]_<<row.status, Pending>>
    <2>1. row' = row /\ ns' = ns
          BY <1>3 DEF StartPod, StartRequest, Crash
    <2>2. QED  BY SMTT(40), <2>1, PendingKept
  <1>4. ASSUME NEW u \in Updaters, UpdaterStep(u)
        PROVE  [Abstract!Next]_<<row.status, Pending>>
        BY <1>4, AbstractUpdaterStep
  <1>5. ASSUME NEW u \in Updaters, NEW c \in Clusters, WorkerStep(u, c)
        PROVE  Abstract!Progress
    <2>1. WorkerChanges(u, c) /\ OnlyUpdates
          BY <1>0, <1>5, WorkerStepChanges, WorkerOnlyUpdates DEF Outcome
    <2>2. row.status = "updating" /\ row'.status = row.status
          BY <2>1 DEF WorkerChanges, Lease, RunIsVisible, Running, RunPcs
    <2>3. QED  BY <2>1, <2>2, PendingShrinks DEF Abstract!Progress
  <1>6. QED
        BY <1>1, <1>2, <1>3, <1>4, <1>5 DEF Next, Abstract!Next

(* AbstractSpec: whatever the processes do in whatever order, seen from    *)
(* the row and the table it is a cluster-wide update: namespaces become up *)
(* to date only while it says so, and it ends as finished when all are.    *)
THEOREM ImplementsClusterWideUpdate ==
  ASSUME Punctual, "query" \notin Faults
  PROVE  Spec => AbstractSpec
  <1>1. Init => Abstract!Init
    <2>1. Init => row.status \in Status
          BY DEF Init
    <2>2. Status = Abstract!Ends \cup {"updating"}
          BY DEF Status, Abstract!Ends
    <2>3. QED  BY <2>1, <2>2 DEF Abstract!Init, Pending
  <1>2. Lease /\ Outcome /\ [Next]_vars => [Abstract!Next]_<<row.status, Pending>>
        BY AbstractStep
  <1>3. QED  BY <1>1, <1>2, OutcomeAlways, PTL DEF Spec, AbstractSpec, Abstract!Spec

-----------------------------------------------------------------------------
(* Failures are reported *)

(* A failure of the run is counted, or about to be.                        *)
Counted(u) ==
  /\ pc[u] = "clusters" => ~execFailed
  /\ pc[u] = "working" /\ execFailed =>
       row.failedCount > 0 \/ \E c \in Clusters : worker[u][c].pc = "incr"
  /\ pc[u] = "status" /\ execFailed => row.failedCount > 0
  /\ pc[u] = "save" /\ tu[u].status = "finished" => ~execFailed

Reported == FailuresReported /\ \A u \in Updaters : Counted(u)

LEMMA CountingStep ==
  ASSUME TypeOK, "query" \notin Faults, "begin" \notin Faults,
         NEW u \in Updaters, NEW c \in Clusters, WorkerStep(u, c)
  PROVE  /\ execFailed' => execFailed \/ worker'[u][c].pc = "incr"
         /\ worker[u][c].pc = "incr" => row'.failedCount = row.failedCount + 1
  <1>0. worker[u][c] \in Worker /\ "incr" \in WorkerPcs
        BY DEF TypeOK, WorkerPcs
  <1>1. CASE ExecutorFails(u, c)
    <2>1. [worker[u][c] EXCEPT !.pc = "incr"].pc = "incr"
          BY <1>0, WorkerPositions
    <2>2. worker'[u][c].pc = "incr"
      <3>1. WorkerIs(u, c, [worker[u][c] EXCEPT !.pc = "incr"])
            BY <1>1 DEF ExecutorFails, WorkerGoto
      <3>2. worker'[u][c] = [worker[u][c] EXCEPT !.pc = "incr"]
            BY <3>1, OneWorker
      <3>3. QED  BY <2>1, <3>2
    <2>3. worker[u][c].pc = "exec" /\ execFailed' = TRUE
          BY <1>1 DEF ExecutorFails, At
    <2>4. QED  BY <2>2, <2>3
  <1>2. CASE CountFailure(u, c)
        BY <1>2, RowOfWorker DEF CountFailure
  <1>3. CASE CountFails(u, c)
        BY <1>3 DEF CountFails, Fault
  <1>4. CASE /\ worker[u][c].pc # "incr"
             /\ execFailed' = execFailed
        BY SMTT(40), <1>4
  <1>5. ExecutorFails(u, c) \/ CountFailure(u, c) \/ CountFails(u, c)
        \/ (worker[u][c].pc # "incr" /\ execFailed' = execFailed)
        BY ZenonT(60) DEF WorkerStep, FetchBatch, FetchFails, CheckCanContinue, CheckFails, EndOfBatch,
               Heartbeat, HeartbeatFails, ReadNamespaces, ExecutorSucceeds, At
  <1>6. QED  BY <1>1, <1>2, <1>3, <1>4, <1>5
LEMMA ReportedWorkerStep ==
  ASSUME Lease, Reported, "query" \notin Faults, "begin" \notin Faults,
         NEW u \in Updaters, NEW c \in Clusters, WorkerStep(u, c)
  PROVE  Reported'
  <1>0. TypeOK /\ WorkerChanges(u, c)
        BY WorkerStepChanges DEF Lease
  <1>1. Running(u) /\ row'.status = "updating"
        BY <1>0 DEF WorkerChanges, Running, RunPcs, Lease, RunIsVisible
  <1>2. /\ execFailed' => execFailed \/ worker'[u][c].pc = "incr"
        /\ worker[u][c].pc = "incr" => row'.failedCount = row.failedCount + 1
        BY <1>0, CountingStep
  <1>3. row.failedCount \in Nat
        BY <1>0 DEF TypeOK, TenantsUpdateRow
  <1>4. ASSUME execFailed'
        PROVE  row'.failedCount > 0 \/ \E d \in Clusters : worker'[u][d].pc = "incr"
    <2>1. CASE worker'[u][c].pc = "incr"
          BY <2>1
    <2>2. CASE row.failedCount > 0
          BY <1>0, <1>3, <2>2 DEF WorkerChanges
    <2>3. ASSUME NEW d \in Clusters, worker[u][d].pc = "incr"
          PROVE  row'.failedCount > 0 \/ worker'[u][d].pc = "incr"
          BY <1>0, <1>2, <1>3, <2>3 DEF WorkerChanges
    <2>4. QED
          BY <1>0, <1>2, <1>4, <2>1, <2>2, <2>3 DEF Reported, Counted, WorkerChanges
  <1>5. Counted(u)'
        BY <1>0, <1>4 DEF Counted, WorkerChanges
  <1>6. ASSUME NEW v \in Updaters, v # u
        PROVE  Counted(v)'
        BY <1>0, <1>1, <1>6 DEF Counted, WorkerChanges, Lease, MutualExclusion, Running, RunPcs
  <1>7. QED  BY <1>1, <1>5, <1>6 DEF Reported, FailuresReported

(* A step that does not fail a tenant nor touch the row's count.           *)
LEMMA CountedKept ==
  ASSUME NEW v \in Updaters, Counted(v), execFailed' = execFailed,
         row'.failedCount = row.failedCount,
         pc'[v] = pc[v], tu'[v] = tu[v], worker'[v] = worker[v]
  PROVE  Counted(v)'
  BY DEF Counted

LEMMA ReportedLeaves ==
  ASSUME TypeOK, Reported, NEW u \in Updaters, NEW l \in Pcs \ RunPcs, Goto(u, l),
         row' = row, execFailed' = execFailed,
         \A v \in Updaters : v # u => tu'[v] = tu[v] /\ worker'[v] = worker[v]
  PROVE  Reported'
  <1>1. pc'[u] = l /\ \A v \in Updaters : v # u => pc'[v] = pc[v]
        BY DEF TypeOK, Goto
  <1>2. Counted(u)'
        BY <1>1 DEF Counted, RunPcs
  <1>3. \A v \in Updaters : v # u => Counted(v)'
        BY <1>1, CountedKept DEF Reported
  <1>4. QED  BY <1>2, <1>3 DEF Reported, FailuresReported

LEMMA ReportedPrepare ==
  ASSUME Lease, NEW u \in Updaters, NEW types, Prepare(u, types)
  PROVE  Reported'
  BY DEF Prepare, Reported, FailuresReported, Counted

LEMMA ReportedUpdaterStep ==
  ASSUME Lease, Reported, "query" \notin Faults, NEW u \in Updaters, UpdaterStep(u)
  PROVE  Reported'
  <1>0. /\ TypeOK /\ NobodyReportsError
        /\ {"waiting", "handle", "done"} \subseteq Pcs \ RunPcs
        BY DEF Lease, Pcs, RunPcs
  <1>a. ASSUME NEW l \in RunPcs, Goto(u, l), row' = row, execFailed' = execFailed, Counted(u)',
               \A v \in Updaters : v # u => tu'[v] = tu[v] /\ worker'[v] = worker[v]
        PROVE  Reported'
    <2>1. \A v \in Updaters : v # u => pc'[v] = pc[v]
          BY <1>0, <1>a DEF TypeOK, Goto
    <2>2. \A v \in Updaters : v # u => Counted(v)'
          BY <1>a, <2>1, CountedKept DEF Reported
    <2>3. QED  BY <1>a, <2>2 DEF Reported, FailuresReported
  <1>b. {"working", "status", "save"} \subseteq RunPcs
        BY DEF RunPcs
  <1>1. CASE BeginUpdate(u)
        BY <1>1, ReportedPrepare DEF BeginUpdate
  <1>2. CASE NothingToUpdate(u)
        BY <1>0, <1>2, ReportedLeaves DEF NothingToUpdate
  <1>3. CASE FindOngoingUpdate(u)
        BY <1>0, <1>3, ReportedLeaves DEF FindOngoingUpdate
  <1>4. CASE BeginFails(u)
        BY <1>0, <1>4, ReportedLeaves DEF BeginFails, TransactionFails
  <1>5. CASE Recheck(u)
        BY <1>0, <1>5, ReportedPrepare, ReportedLeaves DEF Recheck
  <1>6. CASE RecheckFails(u)
        BY <1>0, <1>6, ReportedLeaves DEF RecheckFails, TransactionFails
  <1>7. CASE StartWorkers(u)
    <2>1. ~execFailed /\ pc'[u] = "working"
          BY <1>0, <1>7 DEF StartWorkers, Reported, Counted, TypeOK, Goto
    <2>2. Counted(u)'
          BY <1>7, <2>1 DEF StartWorkers, Counted
    <2>3. \A v \in Updaters : v # u => worker'[v] = worker[v]
          BY <1>0, <1>7 DEF StartWorkers, TypeOK
    <2>4. QED  BY <1>7, <1>a, <1>b, <2>2, <2>3 DEF StartWorkers
  <1>8. CASE StartWorkersFails(u)
        BY <1>8, NoQueryFault DEF StartWorkersFails
  <1>9. CASE JoinWorkers(u)
    <2>1. Goto(u, "status") /\ pc'[u] = "status"
          BY <1>0, <1>9 DEF JoinWorkers, NobodyReportsError, TypeOK, Goto
    <2>2. execFailed => row.failedCount > 0
          BY <1>9 DEF JoinWorkers, Reported, Counted
    <2>3. Counted(u)'
          BY <1>9, <2>1, <2>2 DEF JoinWorkers, Counted
    <2>4. \A v \in Updaters : v # u => worker'[v] = worker[v]
          BY <1>0, <1>9 DEF JoinWorkers, TypeOK
    <2>5. QED  BY <1>9, <1>a, <1>b, <2>1, <2>3, <2>4 DEF JoinWorkers
  <1>10. CASE ReadStatus(u)
    <2>1. pc[u] = "status" /\ pc'[u] = "save"
          BY <1>0, <1>10 DEF ReadStatus, TypeOK, Goto
    <2>2. tu'[u].status = StatusAfterUpdate(u)
          BY <1>0, <1>10 DEF TypeOK, TenantsUpdateRow, ReadStatus, WithCurrentVersions
    <2>3. StatusAfterUpdate(u) = "finished" => ~execFailed
          BY <2>1 DEF StatusAfterUpdate, Reported, Counted
    <2>4. Counted(u)'
          BY <1>10, <2>1, <2>2, <2>3 DEF ReadStatus, Counted
    <2>5. \A v \in Updaters : v # u => tu'[v] = tu[v]
          BY <1>0, <1>10 DEF ReadStatus, TypeOK
    <2>6. QED  BY <1>10, <1>a, <1>b, <2>4, <2>5 DEF ReadStatus
  <1>11. CASE SaveStatus(u)
    <2>1. pc[u] = "save" /\ pc'[u] = "done" /\ \A v \in Updaters : v # u => pc'[v] = pc[v]
          BY <1>0, <1>11 DEF SaveStatus, TypeOK, Goto
    <2>2. row'.status = tu[u].status /\ execFailed' = execFailed
          BY <1>0, <1>11 DEF SaveStatus, SaveTenantsUpdate, TypeOK, TenantsUpdateRow
    <2>3. FailuresReported'
          BY <2>1, <2>2 DEF FailuresReported, Reported, Counted
    <2>4. \A v \in Updaters : pc'[v] \notin RunPcs
          BY <2>1 DEF Lease, MutualExclusion, Running, RunPcs
    <2>5. QED  BY <2>3, <2>4 DEF Reported, Counted, RunPcs
  <1>12. CASE StatusFails(u)
        BY <1>0, <1>12, ReportedLeaves, NoQueryFault DEF StatusFails, TransactionFails
  <1>13. CASE HandleTenantUpdateError(u) \/ HandleFails(u)
        BY <1>0, <1>13 DEF HandleTenantUpdateError, HandleFails, NobodyReportsError
  <1>14. QED
        BY <1>1, <1>2, <1>3, <1>4, <1>5, <1>6, <1>7, <1>8, <1>9, <1>10, <1>11, <1>12, <1>13
           DEF UpdaterStep

LEMMA ReportedStep ==
  ASSUME Lease, Reported, "query" \notin Faults, "begin" \notin Faults, [Next]_vars
  PROVE  Reported'
  <1>0. TypeOK
        BY DEF Lease
  <1>1. CASE UNCHANGED vars
        BY <1>1 DEF vars, Reported, FailuresReported, Counted
  <1>2. CASE StopRequest \/ Tick
    <2>1. row'.status = row.status /\ row'.failedCount = row.failedCount
          BY <1>0, <1>2 DEF StopRequest, Stop, Tick, TypeOK, TenantsUpdateRow
    <2>2. UNCHANGED <<pc, tu, worker, execFailed>>
          BY SMTT(40), <1>2 DEF StopRequest, Tick
    <2>3. QED  BY <2>1, <2>2 DEF Reported, FailuresReported, Counted
  <1>3. ASSUME NEW u \in Updaters,
               StartPod(u) \/ \E request \in Requests : StartRequest(u, request)
        PROVE  Reported'
    <2>1. "begin" \in Pcs \ RunPcs
          BY DEF Pcs, RunPcs
    <2>2. QED  BY <1>0, <1>3, <2>1, ReportedLeaves DEF StartPod, StartRequest
  <1>4. ASSUME NEW u \in Updaters, Crash(u)
        PROVE  Reported'
    <2>1. "crashed" \in Pcs \ RunPcs
          BY DEF Pcs, RunPcs
    <2>2. \A v \in Updaters : v # u => tu'[v] = tu[v] /\ worker'[v] = worker[v]
          BY <1>0, <1>4 DEF Crash, TypeOK
    <2>3. QED  BY <1>0, <1>4, <2>1, <2>2, ReportedLeaves DEF Crash
  <1>5. ASSUME NEW u \in Updaters, UpdaterStep(u)
        PROVE  Reported'
        BY <1>5, ReportedUpdaterStep
  <1>6. ASSUME NEW u \in Updaters, NEW c \in Clusters, WorkerStep(u, c)
        PROVE  Reported'
        BY <1>6, ReportedWorkerStep
  <1>7. QED
        BY <1>1, <1>2, <1>3, <1>4, <1>5, <1>6 DEF Next

(* FailuresReported: an update during which some tenant failed does not    *)
(* end as finished. It takes that the transaction which counts a failure   *)
(* begins and succeeds; otherwise the count is lost.                       *)
THEOREM NoFailureHidden ==
  ASSUME Punctual, "query" \notin Faults, "begin" \notin Faults
  PROVE  Spec => []FailuresReported
  <1>1. Init => Lease /\ Reported
    <2>1. Init => Reported
          BY DEF Init, Reported, FailuresReported, Counted
    <2>2. QED  BY <2>1, LeaseInit
  <1>2. Lease /\ Reported /\ [Next]_vars => Lease' /\ Reported'
        BY LeaseStep, ReportedStep
  <1>3. Lease /\ Reported => FailuresReported
        BY DEF Reported
  <1>4. QED  BY <1>1, <1>2, <1>3, PTL DEF Spec
=============================================================================
