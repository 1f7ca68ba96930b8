------------------------- MODULE TenantsUpdateProofs -------------------------
(***************************************************************************)
(* Proofs about TenantsUpdate for any number of processes, tenants and     *)
(* clusters.                                                               *)
(***************************************************************************)
EXTENDS TenantsUpdate, TLAPS

-----------------------------------------------------------------------------
(* Type correctness *)

(* What the statements of the update repository make of a row is a row. *)
LEMMA RowOperators ==
  ASSUME NEW r \in TenantsUpdateRow
  PROVE  /\ PrepareForUpdating(r) \in TenantsUpdateRow
         /\ \A s \in Status : UpdateStatus(r, s) \in TenantsUpdateRow
         /\ UpdateLastTimeUpdated(r) \in TenantsUpdateRow
         /\ IncrementFailedCount(r) \in TenantsUpdateRow
         /\ Stop(r) \in TenantsUpdateRow
         /\ \A t \in TenantsUpdateRow : SaveTenantsUpdate(r, t) \in TenantsUpdateRow
         /\ \A types \in SUBSET EnvTypes : WithCurrentVersions(r, types) \in TenantsUpdateRow
         /\ OutdatedTypes(r) \in SUBSET EnvTypes
  <1>0. 0 \in Ages /\ "updating" \in Status
        BY TimeoutAssumption DEF Ages, Status
  <1>1. PrepareForUpdating(r) \in TenantsUpdateRow
        BY <1>0 DEF TenantsUpdateRow, PrepareForUpdating
  <1>2. UpdateLastTimeUpdated(r) \in TenantsUpdateRow
        BY <1>0 DEF TenantsUpdateRow, UpdateLastTimeUpdated
  <1>3. \A s \in Status : UpdateStatus(r, s) \in TenantsUpdateRow
        BY DEF TenantsUpdateRow, UpdateStatus
  <1>4. IncrementFailedCount(r) \in TenantsUpdateRow
        BY DEF TenantsUpdateRow, IncrementFailedCount
  <1>5. Stop(r) \in TenantsUpdateRow
        BY DEF TenantsUpdateRow, Stop
  <1>6. \A t \in TenantsUpdateRow : SaveTenantsUpdate(r, t) \in TenantsUpdateRow
        BY DEF TenantsUpdateRow, SaveTenantsUpdate
  <1>7. \A types \in SUBSET EnvTypes : WithCurrentVersions(r, types) \in TenantsUpdateRow
        BY DEF TenantsUpdateRow, WithCurrentVersions, TemplateFiles
  <1>8. OutdatedTypes(r) \in SUBSET EnvTypes
        BY DEF OutdatedTypes, VersionManagers, EnvTypes
  <1>9. QED  BY <1>1, <1>2, <1>3, <1>4, <1>5, <1>6, <1>7, <1>8

LEMMA ConstantRecords ==
  /\ NoRow \in TenantsUpdateRow
  /\ IdleJob \in Job
  /\ IdleWorker \in Worker
  BY TimeoutAssumption
     DEF NoRow, TenantsUpdateRow, Status, Ages, IdleJob, Job, IdleWorker, Worker, WorkerPcs

(* The state in which nothing runs has the types of the invariant.         *)
THEOREM TypeInit == Init => TypeOK
  <1> SUFFICES ASSUME Init PROVE TypeOK
      OBVIOUS
  <1>1. row \in TenantsUpdateRow
    <2>1. 0 \in Ages /\ 0 \in Nat /\ InitialStored \subseteq SUBSET TemplateFiles
          BY TimeoutAssumption, ConstantsAssumption DEF Ages
    <2>2. PICK s \in Status, f \in InitialStored :
            row = [status |-> s, failedCount |-> 0, age |-> 0, canContinue |-> TRUE, stored |-> f]
          BY DEF Init
    <2>3. QED  BY <2>1, <2>2 DEF TenantsUpdateRow
  <1>2. ns \in NamespaceTable
        BY ConstantsAssumption DEF Init, NamespaceTable
  <1>3. /\ lock \in Updaters \cup {NoUpdater}
        /\ pc \in [Updaters -> Pcs]
        /\ execFailed \in BOOLEAN
        /\ faults \in Nat
        BY ConstantsAssumption DEF Init, Pcs
  <1>4. /\ job \in [Updaters -> Job]
        /\ tu \in [Updaters -> TenantsUpdateRow]
        /\ worker \in [Updaters -> [Clusters -> Worker]]
        BY ConstantRecords DEF Init
  <1>5. QED  BY <1>1, <1>2, <1>3, <1>4 DEF TypeOK

(* A worker replaced by a worker leaves the function typed. *)
LEMMA WorkerTyped ==
  ASSUME worker \in [Updaters -> [Clusters -> Worker]],
         NEW u \in Updaters, NEW c \in Clusters, NEW w \in Worker, WorkerIs(u, c, w)
  PROVE  worker' \in [Updaters -> [Clusters -> Worker]]
  BY DEF WorkerIs

(* The workers the steps of a worker make of a worker. *)
LEMMA WorkerOperators ==
  ASSUME NEW w \in Worker
  PROVE  /\ \A l \in WorkerPcs : [w EXCEPT !.pc = l] \in Worker
         /\ \A l \in WorkerPcs : [IdleWorker EXCEPT !.pc = l] \in Worker
         /\ \A b \in SUBSET Tenants : [IdleWorker EXCEPT !.pc = "check", !.batch = b] \in Worker
         /\ \A t \in w.batch :
              [w EXCEPT !.pc = "read", !.tenant = t, !.batch = @ \ {t}] \in Worker
         /\ TenantDone(w) \in Worker
         /\ \A types \in SUBSET EnvTypes : [w EXCEPT !.pc = "exec", !.types = types] \in Worker
  BY ConstantRecords DEF Worker, WorkerPcs, TenantDone, IdleWorker

(* Where those workers are. *)
LEMMA WorkerPositions ==
  ASSUME NEW w \in Worker
  PROVE  /\ \A l \in WorkerPcs : [w EXCEPT !.pc = l].pc = l
         /\ \A l \in WorkerPcs : [IdleWorker EXCEPT !.pc = l].pc = l
         /\ \A b \in SUBSET Tenants : [IdleWorker EXCEPT !.pc = "check", !.batch = b].pc = "check"
         /\ \A t \in w.batch :
              [w EXCEPT !.pc = "read", !.tenant = t, !.batch = @ \ {t}].pc = "read"
         /\ TenantDone(w).pc = "check"
         /\ \A types \in SUBSET EnvTypes : [w EXCEPT !.pc = "exec", !.types = types].pc = "exec"
  BY DEF Worker, TenantDone, IdleWorker

LEMMA FaultTyped ==
  ASSUME faults \in Nat
  PROVE  /\ NoFault => faults' \in Nat
         /\ \A kind : Fault(kind) => faults' \in Nat
  BY DEF NoFault, Fault

LEMMA GotoTyped ==
  ASSUME pc \in [Updaters -> Pcs], NEW u \in Updaters, NEW l \in Pcs, Goto(u, l)
  PROVE  pc' \in [Updaters -> Pcs]
  BY DEF Goto

LEMMA SaveTyped ==
  ASSUME ns \in NamespaceTable, NEW t, NEW saved, NEW bad, Save(t, saved, bad)
  PROVE  ns' \in NamespaceTable
  <1>1. \A ty \in EnvTypes : SavedRow(ty \in bad) \in NamespaceRow
        BY DEF SavedRow, NamespaceRow
  <1>2. QED  BY <1>1 DEF Save, NamespaceTable

(* The steps of a worker. *)
LEMMA TypeWorkerStep ==
  ASSUME TypeOK, NEW u \in Updaters, NEW c \in Clusters, WorkerStep(u, c)
  PROVE  TypeOK'
  <1> DEFINE w == worker[u][c]
  <1> USE DEF TypeOK
  <1>0. w \in Worker
        OBVIOUS
  <1>1. CASE FetchBatch(u, c)
    <2> DEFINE outdated == OutdatedTenants(ns, job[u].types, c)
    <2>1. worker' \in [Updaters -> [Clusters -> Worker]]
      <3>1. CASE outdated = {}
            BY <1>1, <3>1, <1>0, WorkerOperators, WorkerTyped DEF FetchBatch, WorkerPcs
      <3>2. CASE outdated # {}
        <4>1. Batches(outdated) \subseteq SUBSET Tenants
              BY DEF Batches, OutdatedTenants
        <4>2. PICK b \in SUBSET Tenants :
                WorkerIs(u, c, [IdleWorker EXCEPT !.pc = "check", !.batch = b])
              BY <1>1, <3>2, <4>1 DEF FetchBatch
        <4>3. QED  BY <4>2, <1>0, WorkerOperators, WorkerTyped
      <3>3. QED  BY <3>1, <3>2
    <2>2. QED  BY <1>1, <2>1, FaultTyped DEF FetchBatch
  <1>2. CASE FetchFails(u, c)
        BY <1>2, <1>0, WorkerOperators, WorkerTyped, FaultTyped DEF FetchFails, WorkerPcs
  <1>3. CASE CheckCanContinue(u, c)
        BY <1>3, <1>0, WorkerOperators, WorkerTyped, FaultTyped
           DEF CheckCanContinue, TakeTenant, WorkerPcs
  <1>4. CASE CheckFails(u, c)
        BY <1>4, <1>0, WorkerOperators, WorkerTyped, FaultTyped
           DEF CheckFails, TakeTenant, WorkerPcs
  <1>5. CASE EndOfBatch(u, c)
        BY <1>5, <1>0, WorkerOperators, WorkerTyped, FaultTyped DEF EndOfBatch, WorkerPcs
  <1>6. CASE Heartbeat(u, c)
        BY <1>6, <1>0, WorkerOperators, WorkerTyped, FaultTyped, RowOperators
           DEF Heartbeat, WorkerGoto, WorkerPcs
  <1>7. CASE HeartbeatFails(u, c)
        BY <1>7, <1>0, WorkerOperators, WorkerTyped, FaultTyped
           DEF HeartbeatFails, WorkerGoto, WorkerPcs
  <1>8. CASE ReadNamespaces(u, c)
    <2>1. TypesToUpdate(ns[w.tenant], job[u].types) \in SUBSET EnvTypes
          BY DEF TypesToUpdate, Job
    <2>2. QED
          BY <1>8, <1>0, <2>1, WorkerOperators, WorkerTyped, FaultTyped DEF ReadNamespaces
  <1>9. CASE ExecutorSucceeds(u, c)
    <2>1. ns' \in NamespaceTable
          BY <1>9, SaveTyped DEF ExecutorSucceeds
    <2>2. QED
          BY <1>9, <1>0, <2>1, WorkerOperators, WorkerTyped, FaultTyped DEF ExecutorSucceeds
  <1>10. CASE ExecutorFails(u, c)
    <2>1. ns' \in NamespaceTable
          BY <1>10, SaveTyped DEF ExecutorFails
    <2>2. QED
          BY <1>10, <1>0, <2>1, WorkerOperators, WorkerTyped, FaultTyped
             DEF ExecutorFails, WorkerGoto, WorkerPcs
  <1>11. CASE CountFailure(u, c)
        BY <1>11, <1>0, WorkerOperators, WorkerTyped, FaultTyped, RowOperators DEF CountFailure
  <1>12. CASE CountFails(u, c)
        BY <1>12, <1>0, WorkerOperators, WorkerTyped, FaultTyped DEF CountFails
  <1>13. QED
        BY <1>1, <1>2, <1>3, <1>4, <1>5, <1>6, <1>7, <1>8, <1>9, <1>10, <1>11, <1>12
           DEF WorkerStep

(* The steps of UpdateAllTenants itself. *)
LEMMA PrepareTyped ==
  ASSUME TypeOK, NEW u \in Updaters, NEW types \in SUBSET EnvTypes, Prepare(u, types)
  PROVE  /\ row' \in TenantsUpdateRow
         /\ job' \in [Updaters -> Job]
         /\ pc' \in [Updaters -> Pcs]
         /\ execFailed' \in BOOLEAN
  <1>1. row' \in TenantsUpdateRow
        BY RowOperators DEF TypeOK, Prepare
  <1>2. job' \in [Updaters -> Job]
    <2>1. 0 \in Ages
          BY TimeoutAssumption DEF Ages
    <2>2. [job[u] EXCEPT !.types = types, !.slept = 0] \in Job
          BY <2>1 DEF TypeOK, Job
    <2>3. QED  BY <2>2 DEF TypeOK, Prepare
  <1>3. pc' \in [Updaters -> Pcs]
        BY GotoTyped DEF TypeOK, Prepare, Pcs, RunPcs
  <1>4. QED  BY <1>1, <1>2, <1>3 DEF Prepare

LEMMA TransactionFailsTyped ==
  ASSUME TypeOK, NEW u \in Updaters, NEW e \in Pcs, NEW n \in Pcs, TransactionFails(u, e, n),
         UNCHANGED lock
  PROVE  TypeOK'
  BY GotoTyped, FaultTyped DEF TypeOK, TransactionFails

LEMMA TypeUpdaterStep ==
  ASSUME TypeOK, NEW u \in Updaters, UpdaterStep(u)
  PROVE  TypeOK'
  <1> USE DEF TypeOK
  <1>0. /\ {"begin", "waiting", "handle", "done", "clusters", "working", "status", "save"} \subseteq Pcs
        /\ TypesToStart \in SUBSET EnvTypes
        /\ 0 \in Ages
        BY TimeoutAssumption, RowOperators DEF Pcs, RunPcs, TypesToStart, Ages
  <1>1. CASE BeginUpdate(u)
        BY <1>1, <1>0, PrepareTyped, FaultTyped DEF BeginUpdate
  <1>2. CASE NothingToUpdate(u)
        BY <1>2, <1>0, GotoTyped, FaultTyped DEF NothingToUpdate
  <1>3. CASE FindOngoingUpdate(u)
    <2>1. [job[u] EXCEPT !.slept = 0] \in Job
          BY <1>0 DEF Job
    <2>2. QED  BY <1>3, <1>0, <2>1, GotoTyped, FaultTyped DEF FindOngoingUpdate
  <1>4. CASE BeginFails(u)
        BY <1>4, <1>0, TransactionFailsTyped DEF BeginFails
  <1>5. CASE Recheck(u)
        BY <1>5, <1>0, PrepareTyped, GotoTyped, FaultTyped DEF Recheck
  <1>6. CASE RecheckFails(u)
        BY <1>6, <1>0, TransactionFailsTyped DEF RecheckFails
  <1>7. CASE StartWorkers(u)
    <2>1. [job[u] EXCEPT !.types = job[u].types \cap job[u].filter] \in Job
          BY DEF Job
    <2>2. [IdleWorker EXCEPT !.pc = "fetch"] \in Worker /\ IdleWorker \in Worker
          BY ConstantRecords, WorkerOperators DEF WorkerPcs
    <2>3. QED  BY <1>7, <1>0, <2>1, <2>2, GotoTyped, FaultTyped DEF StartWorkers
  <1>8. CASE StartWorkersFails(u)
        BY <1>8, <1>0, GotoTyped, FaultTyped DEF StartWorkersFails
  <1>9. CASE JoinWorkers(u)
        BY <1>9, <1>0, ConstantRecords, GotoTyped, FaultTyped DEF JoinWorkers
  <1>10. CASE ReadStatus(u)
    <2>1. [row EXCEPT !.status = StatusAfterUpdate(u)] \in TenantsUpdateRow
          BY DEF TenantsUpdateRow, StatusAfterUpdate, Status
    <2>2. job[u].filter \in SUBSET EnvTypes
          BY DEF Job
    <2>3. QED  BY <1>10, <1>0, <2>1, <2>2, RowOperators, GotoTyped, FaultTyped DEF ReadStatus
  <1>11. CASE SaveStatus(u)
        BY <1>11, <1>0, RowOperators, ConstantRecords, GotoTyped, FaultTyped DEF SaveStatus
  <1>12. CASE StatusFails(u)
        BY <1>12, <1>0, TransactionFailsTyped, ConstantRecords, GotoTyped, FaultTyped DEF StatusFails
  <1>13. CASE HandleTenantUpdateError(u)
        BY <1>13, <1>0, RowOperators, GotoTyped, FaultTyped DEF HandleTenantUpdateError, Status
  <1>14. CASE HandleFails(u)
        BY <1>14, <1>0, TransactionFailsTyped DEF HandleFails
  <1>15. QED
        BY <1>1, <1>2, <1>3, <1>4, <1>5, <1>6, <1>7, <1>8, <1>9, <1>10, <1>11, <1>12, <1>13, <1>14
           DEF UpdaterStep

(* The steps of everybody else. *)
LEMMA TypeEnvironmentStep ==
  ASSUME TypeOK, NEW u \in Updaters,
         \/ StartPod(u)
         \/ \E request \in Requests : StartRequest(u, request)
         \/ Crash(u)
  PROVE  TypeOK'
  <1> USE DEF TypeOK
  <1>0. "begin" \in Pcs /\ "crashed" \in Pcs
        BY DEF Pcs
  <1>1. CASE StartPod(u)
    <2>1. [job[u] EXCEPT !.filter = EnvTypes, !.limit = AnyCluster] \in Job
          BY DEF Job
    <2>2. QED  BY <1>1, <1>0, <2>1, GotoTyped DEF StartPod
  <1>2. ASSUME NEW request \in Requests, StartRequest(u, request)
        PROVE  TypeOK'
    <2>1. request.filter \in SUBSET EnvTypes /\ request.limit \in Clusters \cup {AnyCluster}
      <3>1. request \in [filter : {EnvTypes} \cup {{ty} : ty \in EnvTypes},
                         limit : Clusters \cup {AnyCluster}]
            BY <1>2, ConstantsAssumption
      <3>2. QED  BY <3>1
    <2>2. \A r \in {"conflict", "accepted"} :
            [job[u] EXCEPT !.filter = request.filter, !.limit = request.limit, !.reply = r] \in Job
          BY ZenonT(60), <2>1 DEF Job
    <2>3. job' \in [Updaters -> Job]
          BY <1>2, <2>2 DEF StartRequest
    <2>4. QED  BY <1>2, <1>0, <2>3, GotoTyped DEF StartRequest
  <1>3. CASE Crash(u)
        BY <1>3, <1>0, ConstantRecords, GotoTyped, FaultTyped DEF Crash
  <1>4. QED  BY <1>1, <1>2, <1>3

LEMMA TypeTick ==
  ASSUME TypeOK, Tick
  PROVE  TypeOK'
  <1> USE DEF TypeOK
  <1>1. \A age \in Ages : Older(age) \in Ages
        BY TimeoutAssumption DEF Older, Ages
  <1>2. row' \in TenantsUpdateRow
    <2>1. row.age \in Ages
          BY DEF TenantsUpdateRow
    <2>2. [row EXCEPT !.age = Older(row.age)] \in TenantsUpdateRow
          BY <1>1, <2>1 DEF TenantsUpdateRow
    <2>3. QED  BY <2>2 DEF Tick
  <1>3. job' \in [Updaters -> Job]
    <2>1. ASSUME NEW u \in Updaters
          PROVE  [job[u] EXCEPT !.slept = Older(job[u].slept)] \in Job
          BY <1>1 DEF Job
    <2>2. QED  BY <2>1 DEF Tick
  <1>4. QED  BY <1>2, <1>3 DEF Tick

(* Every step of an updater, a worker, a request or time keeps the types.  *)
THEOREM TypeStep == TypeOK /\ [Next]_vars => TypeOK'
  <1> SUFFICES ASSUME TypeOK, [Next]_vars
               PROVE  TypeOK'
      OBVIOUS
  <1>1. CASE StopRequest
        BY <1>1, RowOperators DEF TypeOK, StopRequest
  <1>2. CASE Tick
        BY <1>2, TypeTick
  <1>3. ASSUME NEW u \in Updaters,
               \/ StartPod(u)
               \/ \E request \in Requests : StartRequest(u, request)
               \/ Crash(u)
        PROVE  TypeOK'
        BY <1>3, TypeEnvironmentStep
  <1>4. ASSUME NEW u \in Updaters, UpdaterStep(u)
        PROVE  TypeOK'
        BY <1>4, TypeUpdaterStep
  <1>5. ASSUME NEW u \in Updaters, NEW c \in Clusters, WorkerStep(u, c)
        PROVE  TypeOK'
        BY <1>5, TypeWorkerStep
  <1>6. CASE UNCHANGED vars
        BY <1>6 DEF vars, TypeOK
  <1>7. QED  BY <1>1, <1>2, <1>3, <1>4, <1>5, <1>6 DEF Next

(* Every variable keeps its type. *)
THEOREM TypeCorrect == Spec => []TypeOK
  <1>1. QED  BY TypeInit, TypeStep, PTL DEF Spec

-----------------------------------------------------------------------------
(* Mutual exclusion, when updates are punctual and no statement fails. The *)
(* invariant that is inductive is Lease: a process enters only when the    *)
(* row is not "updating" or is too old, and then nobody else is inside.    *)

LEMMA LeaseInit == Init => Lease
  <1>1. Init => \A u \in Updaters, c \in Clusters : worker[u][c].pc # "err"
        BY DEF Init, IdleWorker
  <1>2. QED
        BY <1>1, TypeInit
           DEF Init, Lease, MutualExclusion, RunIsVisible, NobodyReportsError, Running, RunPcs

(* No fault is a failing statement. *)
LEMMA NoQueryFault ==
  ASSUME "query" \notin Faults
  PROVE  ~Fault("query")
  BY DEF Fault

(* A worker's step leaves every pc alone and can only make the row younger.*)
LEMMA WorkerKeepsRun ==
  ASSUME TypeOK, NEW u \in Updaters, NEW c \in Clusters, WorkerStep(u, c)
  PROVE  pc' = pc /\ row'.status = row.status /\ (row'.age = row.age \/ row'.age = 0)
  BY DEF TypeOK, TenantsUpdateRow, WorkerStep, FetchBatch, FetchFails, CheckCanContinue, CheckFails, EndOfBatch,
         Heartbeat, HeartbeatFails, ReadNamespaces, ExecutorSucceeds, ExecutorFails,
         CountFailure, CountFails, UpdateLastTimeUpdated, IncrementFailedCount

(* A worker at any place but "err" reports nothing. *)
LEMMA Harmless ==
  ASSUME TypeOK, NobodyReportsError,
         NEW u \in Updaters, NEW c \in Clusters, NEW w \in Worker, w.pc # "err", WorkerIs(u, c, w)
  PROVE  \A v \in Updaters, d \in Clusters : worker'[v][d].pc # "err"
  BY DEF WorkerIs, TypeOK, NobodyReportsError

LEMMA WorkerReportsNothing ==
  ASSUME TypeOK, "query" \notin Faults, NobodyReportsError,
         NEW u \in Updaters, NEW c \in Clusters, WorkerStep(u, c)
  PROVE  \A v \in Updaters, d \in Clusters : worker'[v][d].pc # "err"
  <1> DEFINE w == worker[u][c]
  <1>0. w \in Worker
        BY DEF TypeOK
  <1>1. CASE FetchBatch(u, c)
    <2> DEFINE outdated == OutdatedTenants(ns, job[u].types, c)
    <2>1. CASE outdated = {}
          BY ZenonT(60), <1>1, <2>1, <1>0, WorkerOperators, WorkerPositions, Harmless DEF FetchBatch, WorkerPcs
    <2>2. CASE outdated # {}
      <3>1. Batches(outdated) \subseteq SUBSET Tenants
            BY DEF Batches, OutdatedTenants
      <3>2. PICK b \in SUBSET Tenants :
              WorkerIs(u, c, [IdleWorker EXCEPT !.pc = "check", !.batch = b])
            BY <1>1, <2>2, <3>1 DEF FetchBatch
      <3>3. QED  BY <3>2, <1>0, WorkerOperators, WorkerPositions, Harmless
    <2>3. QED  BY <2>1, <2>2
  <1>2. CASE FetchFails(u, c)
        BY <1>2, NoQueryFault DEF FetchFails
  <1>3. CASE CheckCanContinue(u, c)
    <2>1. CASE TakeTenant(u, c)
          BY ZenonT(60), <2>1, <1>0, WorkerOperators, WorkerPositions, Harmless DEF TakeTenant
    <2>2. CASE WorkerIs(u, c, [IdleWorker EXCEPT !.pc = "ok"])
          BY ZenonT(60), <2>2, <1>0, WorkerOperators, WorkerPositions, Harmless DEF WorkerPcs
    <2>3. QED  BY <1>3, <2>1, <2>2 DEF CheckCanContinue
  <1>4. CASE CheckFails(u, c)
        BY ZenonT(60), <1>4, <1>0, WorkerOperators, WorkerPositions, Harmless, NoQueryFault DEF CheckFails, TakeTenant, WorkerPcs
  <1>5. CASE EndOfBatch(u, c)
        BY ZenonT(60), <1>5, <1>0, WorkerOperators, WorkerPositions, Harmless DEF EndOfBatch, WorkerPcs
  <1>6. CASE Heartbeat(u, c)
        BY <1>6, <1>0, WorkerOperators, WorkerPositions, Harmless DEF Heartbeat, WorkerGoto, WorkerPcs
  <1>7. CASE HeartbeatFails(u, c)
        BY <1>7, <1>0, WorkerOperators, WorkerPositions, Harmless, NoQueryFault DEF HeartbeatFails, WorkerGoto, WorkerPcs
  <1>8. CASE ReadNamespaces(u, c)
    <2>1. TypesToUpdate(ns[w.tenant], job[u].types) \in SUBSET EnvTypes
          BY DEF TypesToUpdate, TypeOK, Job
    <2>2. QED  BY ZenonT(60), <1>8, <1>0, <2>1, WorkerOperators, WorkerPositions, Harmless, NoQueryFault DEF ReadNamespaces
  <1>9. CASE ExecutorSucceeds(u, c)
        BY <1>9, <1>0, WorkerOperators, WorkerPositions, Harmless DEF ExecutorSucceeds
  <1>10. CASE ExecutorFails(u, c)
        BY ZenonT(60), <1>10, <1>0, WorkerOperators, WorkerPositions, Harmless DEF ExecutorFails, WorkerGoto, WorkerPcs
  <1>11. CASE CountFailure(u, c)
        BY <1>11, <1>0, WorkerOperators, WorkerPositions, Harmless DEF CountFailure
  <1>12. CASE CountFails(u, c)
        BY <1>12, <1>0, WorkerOperators, WorkerPositions, Harmless DEF CountFails
  <1>13. QED
        BY <1>1, <1>2, <1>3, <1>4, <1>5, <1>6, <1>7, <1>8, <1>9, <1>10, <1>11, <1>12
           DEF WorkerStep

LEMMA LeaseWorkerStep ==
  ASSUME Lease, "query" \notin Faults,
         NEW u \in Updaters, NEW c \in Clusters, WorkerStep(u, c)
  PROVE  Lease'
  <1>1. TypeOK' /\ TypeOK
        BY TypeWorkerStep DEF Lease
  <1>2. pc' = pc /\ row'.status = row.status /\ (row'.age = row.age \/ row'.age = 0)
        BY <1>1, WorkerKeepsRun
  <1>3. MutualExclusion' /\ RunIsVisible'
        BY <1>1, <1>2, TimeoutAssumption
           DEF Lease, MutualExclusion, RunIsVisible, Running, TypeOK, TenantsUpdateRow, Ages
  <1>4. NobodyReportsError'
        BY <1>1, <1>2, WorkerReportsNothing DEF Lease, NobodyReportsError
  <1>5. QED  BY <1>1, <1>3, <1>4 DEF Lease

(* Leaving the run, or not entering it, keeps the lease when the row stays *)
(* as it is or when nobody else is inside.                                 *)
LEMMA LeaseUpdaterStep ==
  ASSUME Lease, Punctual, "query" \notin Faults, NEW u \in Updaters, UpdaterStep(u)
  PROVE  Lease'
  <1>0. TypeOK /\ TypeOK' /\ MutualExclusion /\ RunIsVisible /\ NobodyReportsError
        BY TypeUpdaterStep DEF Lease
  <1>a. ASSUME NEW types, Prepare(u, types), worker' = worker,
               \/ row.status # "updating"
               \/ IsOlderThanTimeout(row)
        PROVE  Lease'
    <2>1. \A v \in Updaters : ~Running(v)
          BY <1>0, <1>a, TimeoutAssumption
             DEF RunIsVisible, IsOlderThanTimeout, TypeOK, TenantsUpdateRow, Ages
    <2>2. row'.status = "updating" /\ row'.age = 0
          BY <1>0, <1>a DEF Prepare, PrepareForUpdating, TypeOK, TenantsUpdateRow
    <2>3. pc' = [pc EXCEPT ![u] = "clusters"]
          BY <1>a DEF Prepare, Goto
    <2>4. \A v \in Updaters : v # u => pc'[v] = pc[v]
          BY <2>3, <1>0 DEF TypeOK
    <2>5. MutualExclusion' /\ RunIsVisible'
          BY <2>1, <2>2, <2>4, TimeoutAssumption DEF MutualExclusion, RunIsVisible, Running
    <2>6. NobodyReportsError'
          BY <1>0, <1>a, <2>3 DEF NobodyReportsError, TypeOK
    <2>7. QED  BY <1>0, <2>5, <2>6 DEF Lease
  <1>b. ASSUME NEW l \in Pcs \ {"handle"}, Goto(u, l), l \in RunPcs => pc[u] \in RunPcs,
               \A v \in Updaters, c \in Clusters : worker'[v][c].pc # "err",
               \/ row' = row
               \/ l \notin RunPcs /\ Running(u)
        PROVE  Lease'
    <2>1. \A v \in Updaters : pc'[v] = IF v = u THEN l ELSE pc[v]
          BY <1>0, <1>b DEF TypeOK, Goto
    <2>2. MutualExclusion'
          BY <1>0, <1>b, <2>1 DEF MutualExclusion, Running
    <2>3. RunIsVisible'
          BY <1>0, <1>b, <2>1 DEF MutualExclusion, RunIsVisible, Running
    <2>4. NobodyReportsError'
          BY <1>0, <1>b, <2>1 DEF NobodyReportsError
    <2>5. QED  BY <1>0, <2>2, <2>3, <2>4 DEF Lease
  <1>c. \A v \in Updaters, c \in Clusters : worker[v][c].pc # "err"
        BY <1>0 DEF NobodyReportsError
  <1>1. CASE BeginUpdate(u)
        BY <1>1, <1>a DEF BeginUpdate, TypesToStart
  <1>2. CASE NothingToUpdate(u)
        BY <1>2, <1>b, <1>c DEF NothingToUpdate, Pcs, RunPcs
  <1>3. CASE FindOngoingUpdate(u)
        BY <1>3, <1>b, <1>c DEF FindOngoingUpdate, Pcs, RunPcs
  <1>4. CASE BeginFails(u)
        BY <1>4, <1>b, <1>c, NoQueryFault DEF BeginFails, TransactionFails, Pcs, RunPcs
  <1>5. CASE Recheck(u)
    <2>1. CASE IsOlderThanTimeout(row) /\ Prepare(u, EnvTypes)
          BY <1>5, <2>1, <1>a DEF Recheck
    <2>2. CASE Goto(u, "done") /\ UNCHANGED <<row, job, execFailed>>
          BY <1>5, <2>2, <1>b, <1>c DEF Recheck, Pcs, RunPcs
    <2>3. QED  BY <1>5, <2>1, <2>2 DEF Recheck
  <1>6. CASE RecheckFails(u)
        BY <1>6, <1>b, <1>c, NoQueryFault DEF RecheckFails, TransactionFails, Pcs, RunPcs
  <1>7. CASE StartWorkers(u)
    <2>1. \A v \in Updaters, c \in Clusters : worker'[v][c].pc # "err"
          BY <1>7, <1>0, <1>c DEF StartWorkers, IdleWorker, TypeOK
    <2>2. QED  BY <1>7, <1>b, <2>1 DEF StartWorkers, Pcs, RunPcs
  <1>8. CASE StartWorkersFails(u)
        BY <1>8, NoQueryFault DEF StartWorkersFails
  <1>9. CASE JoinWorkers(u)
    <2>1. \A v \in Updaters, c \in Clusters : worker'[v][c].pc # "err"
          BY <1>9, <1>0, <1>c DEF JoinWorkers, IdleWorker, TypeOK
    <2>2. Goto(u, "status")
          BY <1>9, <1>c DEF JoinWorkers
    <2>3. QED  BY <1>9, <1>b, <2>1, <2>2 DEF JoinWorkers, Pcs, RunPcs
  <1>10. CASE ReadStatus(u)
        BY <1>10, <1>b, <1>c DEF ReadStatus, Pcs, RunPcs
  <1>11. CASE SaveStatus(u)
        BY <1>11, <1>b, <1>c DEF SaveStatus, Pcs, RunPcs, Running
  <1>12. CASE StatusFails(u)
        BY <1>12, <1>b, <1>c, NoQueryFault DEF StatusFails, TransactionFails, Pcs, RunPcs
  <1>13. CASE HandleTenantUpdateError(u)
        BY <1>13, <1>0 DEF HandleTenantUpdateError, NobodyReportsError
  <1>14. CASE HandleFails(u)
        BY <1>14, <1>0 DEF HandleFails, NobodyReportsError
  <1>15. QED
        BY <1>1, <1>2, <1>3, <1>4, <1>5, <1>6, <1>7, <1>8, <1>9, <1>10, <1>11, <1>12, <1>13, <1>14
           DEF UpdaterStep

LEMMA LeaseEnvironmentStep ==
  ASSUME Lease, Punctual,
         \/ StopRequest
         \/ Tick
         \/ \E u \in Updaters :
              StartPod(u) \/ (\E request \in Requests : StartRequest(u, request)) \/ Crash(u)
  PROVE  Lease'
  <1>0. TypeOK /\ MutualExclusion /\ RunIsVisible /\ NobodyReportsError /\ TypeOK'
    <2>1. TypeOK /\ MutualExclusion /\ RunIsVisible /\ NobodyReportsError
          BY DEF Lease
    <2>2. Next
          BY DEF Next
    <2>3. QED  BY <2>1, <2>2, TypeStep
  <1>1. CASE StopRequest
    <2>1. /\ row'.status = row.status /\ row'.age = row.age
          /\ UNCHANGED <<pc, worker>>
          BY <1>1, <1>0 DEF StopRequest, Stop, TypeOK, TenantsUpdateRow
    <2>2. QED  BY <1>0, <2>1 DEF Lease, MutualExclusion, RunIsVisible, NobodyReportsError, Running
  <1>2. CASE Tick
    <2>1. row'.status = row.status /\ UNCHANGED <<pc, worker>>
          BY <1>2, <1>0 DEF Tick, TypeOK, TenantsUpdateRow
    <2>2. ASSUME NEW u \in Updaters, Running(u)
          PROVE  row'.age <= Timeout
          BY <1>2, <1>0, <2>2, TimeoutAssumption
             DEF Tick, Older, TypeOK, TenantsUpdateRow, Ages
    <2>3. QED
          BY <1>0, <2>1, <2>2 DEF Lease, MutualExclusion, RunIsVisible, NobodyReportsError, Running
  <1>3. ASSUME NEW u \in Updaters, NEW l \in Pcs \ (RunPcs \cup {"handle"}), Goto(u, l), row' = row,
               \A v \in Updaters, c \in Clusters : worker'[v][c].pc # "err"
        PROVE  Lease'
    <2>1. \A v \in Updaters : pc'[v] = IF v = u THEN l ELSE pc[v]
          BY <1>0, <1>3 DEF TypeOK, Goto
    <2>2. \A v \in Updaters : Running(v)' => Running(v)
          BY <1>3, <2>1 DEF Running
    <2>3. MutualExclusion' /\ RunIsVisible'
          BY <1>0, <1>3, <2>2 DEF MutualExclusion, RunIsVisible
    <2>4. NobodyReportsError'
          BY <1>0, <1>3, <2>1 DEF NobodyReportsError
    <2>5. QED  BY <1>0, <2>3, <2>4 DEF Lease
  <1>4. ASSUME NEW u \in Updaters,
               StartPod(u) \/ \E request \in Requests : StartRequest(u, request)
        PROVE  Lease'
    <2>1. Goto(u, "begin") /\ UNCHANGED <<row, worker>>
          BY ZenonT(60), <1>4 DEF StartPod, StartRequest
    <2>2. "begin" \in Pcs \ (RunPcs \cup {"handle"})
          BY DEF Pcs, RunPcs
    <2>3. QED  BY SMTT(40), <1>0, <1>3, <2>1, <2>2 DEF NobodyReportsError
  <1>5. ASSUME NEW u \in Updaters, Crash(u)
        PROVE  Lease'
    <2>1. Goto(u, "crashed") /\ row' = row
          BY <1>5 DEF Crash
    <2>2. \A v \in Updaters, c \in Clusters : worker'[v][c].pc # "err"
          BY <1>5, <1>0 DEF Crash, IdleWorker, TypeOK, NobodyReportsError
    <2>3. "crashed" \in Pcs \ (RunPcs \cup {"handle"})
          BY DEF Pcs, RunPcs
    <2>4. QED  BY <1>3, <2>1, <2>2, <2>3
  <1>6. QED  BY <1>1, <1>2, <1>4, <1>5

(* Lease is inductive when updates are punctual and no statement fails.    *)
LEMMA LeaseStep ==
  ASSUME Lease, Punctual, "query" \notin Faults, [Next]_vars
  PROVE  Lease'
  <1>1. CASE UNCHANGED vars
        BY <1>1 DEF vars, Lease, TypeOK, MutualExclusion, RunIsVisible, NobodyReportsError, Running
  <1>2. CASE StopRequest \/ Tick
        BY <1>2, LeaseEnvironmentStep
  <1>3. ASSUME NEW u \in Updaters,
               \/ StartPod(u)
               \/ \E request \in Requests : StartRequest(u, request)
               \/ Crash(u)
        PROVE  Lease'
        BY <1>3, LeaseEnvironmentStep
  <1>4. ASSUME NEW u \in Updaters, UpdaterStep(u)
        PROVE  Lease'
        BY <1>4, LeaseUpdaterStep
  <1>5. ASSUME NEW u \in Updaters, NEW c \in Clusters, WorkerStep(u, c)
        PROVE  Lease'
        BY <1>5, LeaseWorkerStep
  <1>6. QED
        BY <1>1, <1>2, <1>3, <1>4, <1>5 DEF Next

(* At most one process at a time updates the tenants, whatever the number  *)
(* of pods, requests, clusters and tenants: the age of the row (isOlder-   *)
(* ThanTimeout) keeps the others out. It takes that a running update       *)
(* reaches its next heartbeat in time and that no statement on the         *)
(* database fails; processes may die, transactions may not begin, tenants  *)
(* may fail. HandleTenantUpdateError after a failed statement breaks it:   *)
(* it marks as failed an update that another process is running.           *)
THEOREM OneUpdateAtATime ==
  ASSUME Punctual, "query" \notin Faults
  PROVE  Spec => []MutualExclusion
  <1>1. Init => Lease
        BY LeaseInit
  <1>2. Lease /\ [Next]_vars => Lease'
        BY LeaseStep
  <1>3. Lease => MutualExclusion
        BY DEF Lease
  <1>4. QED  BY <1>1, <1>2, <1>3, PTL DEF Spec
=============================================================================
