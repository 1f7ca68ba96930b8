---------------------------- MODULE TenantsUpdate ----------------------------
(***************************************************************************)
(* The cluster-wide update of all tenants (update/update.go), as several   *)
(* processes run it at the same time: every pod starts one when it starts  *)
(* (main.go) and every request to start an update starts another           *)
(* (controller/update.go). They meet in the row tenants_update, which they *)
(* read and write in transactions under one advisory lock, and in the      *)
(* table namespaces. A process that finds the row "updating" and not older *)
(* than Timeout leaves the update to the process that keeps the row young. *)
(*                                                                         *)
(* A transaction under the lock is one step where nothing can come between *)
(* its statements; the transaction that ends an update is two, since a     *)
(* request to stop takes no lock. Every transaction may fail: with an      *)
(* error, when it is rolled back, or because it cannot begin, which        *)
(* dbsupport.Transaction reports as success without running anything.      *)
(***************************************************************************)
EXTENDS Naturals, FiniteSets, UpdateRepository, OutdatedNamespaces

CONSTANTS
  Updaters,       \* executions of UpdateAllTenants
  NoUpdater,      \* nobody holds the lock
  AnyCluster,     \* an update not limited to one cluster
  NoTenant,       \* a worker that updates no tenant at the moment
  BatchSize,      \* the limit GetTenantsToUpdate is called with
  Requests,       \* filters and cluster limits updates are requested with
  InitialNamespaces, \* rows of the namespaces of a tenant at the start, by type
  InitialStored,  \* template files whose stored version is up to date at the start
  Faults,         \* the kinds of faults that may happen
  MaxFaults,      \* bound on the number of faults of one behaviour
  Punctual        \* TRUE: a running update never lets its row grow too old

FaultKinds ==
  {"exec",        \* the update of a tenant fails and marks namespaces failed
   "silent",      \* it fails before it marks any
   "save",        \* saving the row of a namespace fails, which is only logged
   "query",       \* a statement fails, or waiting for the lock times out
   "begin",       \* a transaction does not begin
   "crash"}       \* the process dies

ASSUME ConstantsAssumption ==
  /\ NoUpdater \notin Updaters
  /\ AnyCluster \notin Clusters
  /\ NoTenant \notin Tenants
  /\ BatchSize \in Nat \ {0}
  /\ Requests \subseteq [filter : {EnvTypes} \cup {{ty} : ty \in EnvTypes},
                         limit : Clusters \cup {AnyCluster}]
  /\ InitialNamespaces \subseteq [EnvTypes -> {r \in NamespaceRow : r.byCommit => r.current}]
  /\ InitialStored \subseteq SUBSET TemplateFiles
  /\ Faults \subseteq FaultKinds
  /\ MaxFaults \in Nat
  /\ Punctual \in BOOLEAN

VARIABLES
  row,            \* the row tenants_update
  ns,             \* the table namespaces
  lock,           \* who holds the advisory lock between two steps
  pc,             \* where each execution of UpdateAllTenants is
  job,            \* its parameters and local variables
  tu,             \* the row as read by the transaction that ends an update
  worker,         \* the goroutine of each updater and cluster
  execFailed,     \* history: some tenant failed since an update was prepared
  faults          \* faults that may still happen

vars == <<row, ns, lock, pc, job, tu, worker, execFailed, faults>>

-----------------------------------------------------------------------------
RunPcs == {"clusters", "working", "status", "save"}
Pcs == {"idle", "begin", "waiting", "handle", "done", "crashed"} \cup RunPcs

(* filter: the types the filter lets pass; types: those to be updated;     *)
(* slept: ticks slept in waitAndRecheck; reply: what the request was told. *)
Job == [filter : SUBSET EnvTypes, limit : Clusters \cup {AnyCluster},
        types : SUBSET EnvTypes, slept : Ages,
        reply : {"none", "accepted", "conflict"}]

WorkerPcs == {"none", "fetch", "check", "read", "exec", "incr", "beat", "ok", "err"}
Worker == [pc : WorkerPcs, batch : SUBSET Tenants,
           tenant : Tenants \cup {NoTenant}, types : SUBSET EnvTypes]

IdleWorker == [pc |-> "none", batch |-> {}, tenant |-> NoTenant, types |-> {}]
IdleJob == [filter |-> {}, limit |-> AnyCluster, types |-> {}, slept |-> 0, reply |-> "none"]
NoRow == [status |-> "finished", failedCount |-> 0, age |-> 0, canContinue |-> TRUE, stored |-> {}]

Running(u) == pc[u] \in RunPcs

Init ==
  /\ ns \in [Tenants -> InitialNamespaces]
  /\ row \in [status : Status, failedCount : {0}, age : {0},
              canContinue : {TRUE}, stored : InitialStored]
  /\ row.status = "finished" =>
       \A t \in Tenants, ty \in EnvTypes : ~ns[t][ty].current => ty \in OutdatedTypes(row)
  /\ lock = NoUpdater
  /\ pc = [u \in Updaters |-> "idle"]
  /\ job = [u \in Updaters |-> IdleJob]
  /\ tu = [u \in Updaters |-> NoRow]
  /\ worker = [u \in Updaters |-> [c \in Clusters |-> IdleWorker]]
  /\ execFailed = FALSE
  /\ faults = MaxFaults

-----------------------------------------------------------------------------
(* Helpers *)

Goto(u, l) == pc' = [pc EXCEPT ![u] = l]

Unlocked == lock = NoUpdater

Fault(kind) == /\ kind \in Faults
               /\ faults > 0
               /\ faults' = faults - 1

NoFault == UNCHANGED faults

(* A transaction of u that runs nothing: rolled back or never begun. *)
TransactionFails(u, onError, onNotBegun) ==
  /\ \/ Fault("query") /\ Goto(u, onError)
     \/ Fault("begin") /\ Goto(u, onNotBegun)
  /\ UNCHANGED <<row, ns, job, tu, worker, execFailed>>

-----------------------------------------------------------------------------
(* Starting an updater *)

(* main.go: a pod starts an update of everything when it starts. *)
StartPod(u) ==
  /\ pc[u] = "idle"
  /\ Goto(u, "begin")
  /\ job' = [job EXCEPT ![u].filter = EnvTypes, ![u].limit = AnyCluster]
  /\ UNCHANGED <<row, ns, lock, tu, worker, execFailed, faults>>

(* UpdateController.Start: an ongoing update makes it reply a conflict,    *)
(* after which it goes on to start the updater all the same.               *)
StartRequest(u, request) ==
  /\ pc[u] = "idle"
  /\ Goto(u, "begin")
  /\ job' = [job EXCEPT ![u].filter = request.filter, ![u].limit = request.limit,
                        ![u].reply = IF row.status = "updating" /\ ~IsOlderThanTimeout(row)
                                       THEN "conflict" ELSE "accepted"]
  /\ UNCHANGED <<row, ns, lock, tu, worker, execFailed, faults>>

(* UpdateController.Stop: a transaction that does not take the lock. *)
StopRequest ==
  /\ row.canContinue
  /\ row' = Stop(row)
  /\ UNCHANGED <<ns, lock, pc, job, tu, worker, execFailed, faults>>

-----------------------------------------------------------------------------
(* UpdateAllTenants: the transaction that decides what to do *)

(* prepareAndAssignStart *)
Prepare(u, types) ==
  /\ row' = PrepareForUpdating(row)
  /\ job' = [job EXCEPT ![u].types = types, ![u].slept = 0]
  /\ execFailed' = FALSE
  /\ Goto(u, "clusters")

(* The types an update has to look at; none when there is nothing to do or *)
(* an update is going on.                                                  *)
TypesToStart ==
  IF row.status = "finished" THEN OutdatedTypes(row)
  ELSE IF row.status = "updating" /\ ~IsOlderThanTimeout(row) THEN {}
  ELSE EnvTypes

BeginUpdate(u) ==
  /\ pc[u] = "begin" /\ Unlocked
  /\ TypesToStart # {}
  /\ Prepare(u, TypesToStart)
  /\ NoFault
  /\ UNCHANGED <<ns, lock, tu, worker>>

NothingToUpdate(u) ==
  /\ pc[u] = "begin" /\ Unlocked
  /\ row.status = "finished" /\ TypesToStart = {}
  /\ Goto(u, "done")
  /\ NoFault
  /\ UNCHANGED <<row, ns, lock, job, tu, worker, execFailed>>

FindOngoingUpdate(u) ==
  /\ pc[u] = "begin" /\ Unlocked
  /\ row.status = "updating" /\ TypesToStart = {}
  /\ Goto(u, "waiting")
  /\ job' = [job EXCEPT ![u].slept = 0]
  /\ NoFault
  /\ UNCHANGED <<row, ns, lock, tu, worker, execFailed>>

BeginFails(u) ==
  /\ pc[u] = "begin"
  /\ TransactionFails(u, "handle", "done")
  /\ UNCHANGED lock

(* Mutant: whoever waited leaves without a look. *)
RecheckGivesUp(u) ==
  /\ pc[u] = "waiting" /\ Unlocked
  /\ job[u].slept > Timeout
  /\ Goto(u, "done")
  /\ NoFault
  /\ UNCHANGED <<row, ns, lock, job, tu, worker, execFailed>>

(* waitAndRecheck, after its sleep of 1.1 times Timeout. It looks at the   *)
(* time of the last update only, not at the status.                        *)
Recheck(u) ==
  /\ pc[u] = "waiting" /\ Unlocked
  /\ job[u].slept > Timeout
  /\ \/ IsOlderThanTimeout(row) /\ Prepare(u, EnvTypes)
     \/ /\ ~IsOlderThanTimeout(row)
        /\ Goto(u, "done")
        /\ UNCHANGED <<row, job, execFailed>>
  /\ NoFault
  /\ UNCHANGED <<ns, lock, tu, worker>>

RecheckFails(u) ==
  /\ pc[u] = "waiting"
  /\ job[u].slept > Timeout
  /\ TransactionFails(u, "handle", "done")
  /\ UNCHANGED lock

-----------------------------------------------------------------------------
(* updateTenantsForTypes *)

(* The types are filtered, the clusters chosen and a goroutine started for *)
(* each.                                                                   *)
StartWorkers(u) ==
  LET types    == job[u].types \cap job[u].filter
      clusters == IF job[u].limit # AnyCluster THEN {job[u].limit}
                  ELSE GetClustersToUpdate(ns, types)
  IN  /\ pc[u] = "clusters"
      /\ worker' = [worker EXCEPT ![u] = [c \in Clusters |->
                      IF c \in clusters THEN [IdleWorker EXCEPT !.pc = "fetch"] ELSE IdleWorker]]
      /\ job' = [job EXCEPT ![u].types = types]
      /\ Goto(u, "working")
      /\ NoFault
      /\ UNCHANGED <<row, ns, lock, tu, execFailed>>

StartWorkersFails(u) ==
  /\ pc[u] = "clusters"
  /\ job[u].limit = AnyCluster
  /\ Fault("query")
  /\ Goto(u, "handle")
  /\ UNCHANGED <<row, ns, lock, job, tu, worker, execFailed>>

(* All goroutines are waited for; an error of any of them is an error. *)
JoinWorkers(u) ==
  /\ pc[u] = "working"
  /\ \A c \in Clusters : worker[u][c].pc \in {"none", "ok", "err"}
  /\ Goto(u, IF \E c \in Clusters : worker[u][c].pc = "err" THEN "handle" ELSE "status")
  /\ worker' = [worker EXCEPT ![u] = [c \in Clusters |-> IdleWorker]]
  /\ NoFault
  /\ UNCHANGED <<row, ns, lock, job, tu, execFailed>>

(* Mutants of the status: empty when nothing went wrong; finished although *)
(* the update was limited; finished although it was stopped; failed only   *)
(* from the second failure on.                                             *)
StatusLeftEmpty(u) ==
  IF ~row.canContinue THEN "killed"
  ELSE IF row.failedCount > 0 THEN "failed"
  ELSE IF job[u].filter # EnvTypes \/ job[u].limit # AnyCluster THEN "incomplete"
  ELSE ""

StatusWithoutIncomplete(u) ==
  IF ~row.canContinue THEN "killed" ELSE IF row.failedCount > 0 THEN "failed" ELSE "finished"

StatusWithoutKilled(u) ==
  IF row.failedCount > 0 THEN "failed"
  ELSE IF job[u].filter # EnvTypes \/ job[u].limit # AnyCluster THEN "incomplete"
  ELSE "finished"

StatusFailedFromTwo(u) ==
  IF ~row.canContinue THEN "killed"
  ELSE IF row.failedCount > 1 THEN "failed"
  ELSE IF job[u].filter # EnvTypes \/ job[u].limit # AnyCluster THEN "incomplete"
  ELSE "finished"

(* setStatusAndVersionsAfterUpdate, up to the read ... *)
StatusAfterUpdate(u) ==
  IF ~row.canContinue THEN "killed"
  ELSE IF row.failedCount > 0 THEN "failed"
  ELSE IF job[u].filter # EnvTypes \/ job[u].limit # AnyCluster THEN "incomplete"
  ELSE "finished"

ReadStatus(u) ==
  /\ pc[u] = "status" /\ Unlocked
  /\ lock' = u
  /\ tu' = [tu EXCEPT ![u] = WithCurrentVersions(
                               [row EXCEPT !.status = StatusAfterUpdate(u)], job[u].filter)]
  /\ Goto(u, "save")
  /\ NoFault
  /\ UNCHANGED <<row, ns, job, worker, execFailed>>

(* ... and the save and the commit. *)
SaveStatus(u) ==
  /\ pc[u] = "save"
  /\ row' = SaveTenantsUpdate(row, tu[u])
  /\ lock' = NoUpdater
  /\ tu' = [tu EXCEPT ![u] = NoRow]
  /\ Goto(u, "done")
  /\ NoFault
  /\ UNCHANGED <<ns, job, worker, execFailed>>

StatusFails(u) ==
  \/ /\ pc[u] = "status"
     /\ TransactionFails(u, "handle", "done")
     /\ UNCHANGED lock
  \/ /\ pc[u] = "save"
     /\ Fault("query")
     /\ lock' = NoUpdater
     /\ tu' = [tu EXCEPT ![u] = NoRow]
     /\ Goto(u, "handle")
     /\ UNCHANGED <<row, ns, job, worker, execFailed>>

(* HandleTenantUpdateError *)
HandleTenantUpdateError(u) ==
  /\ pc[u] = "handle" /\ Unlocked
  /\ row' = UpdateStatus(row, "failed")
  /\ Goto(u, "done")
  /\ NoFault
  /\ UNCHANGED <<ns, lock, job, tu, worker, execFailed>>

HandleFails(u) ==
  /\ pc[u] = "handle"
  /\ TransactionFails(u, "done", "done")
  /\ UNCHANGED lock

-----------------------------------------------------------------------------
(* updateForCluster and updateTenants, the goroutine of one cluster *)

At(u, c, l) == pc[u] = "working" /\ worker[u][c].pc = l

WorkerIs(u, c, w) == worker' = [worker EXCEPT ![u][c] = w]

WorkerGoto(u, c, l) == WorkerIs(u, c, [worker[u][c] EXCEPT !.pc = l])

Batches(tenants) ==
  {b \in SUBSET tenants : \/ b = tenants /\ Cardinality(b) <= BatchSize
                          \/ Cardinality(b) = BatchSize}

FetchBatch(u, c) ==
  /\ At(u, c, "fetch")
  /\ LET outdated == OutdatedTenants(ns, job[u].types, c)
     IN  IF outdated = {} THEN WorkerIs(u, c, [IdleWorker EXCEPT !.pc = "ok"])
         ELSE \E b \in Batches(outdated) :
                WorkerIs(u, c, [IdleWorker EXCEPT !.pc = "check", !.batch = b])
  /\ NoFault
  /\ UNCHANGED <<row, ns, lock, pc, job, tu, execFailed>>

FetchFails(u, c) ==
  /\ At(u, c, "fetch")
  /\ Fault("query")
  /\ WorkerIs(u, c, [IdleWorker EXCEPT !.pc = "err"])
  /\ UNCHANGED <<row, ns, lock, pc, job, tu, execFailed>>

TakeTenant(u, c) ==
  \E t \in worker[u][c].batch :
    WorkerIs(u, c, [worker[u][c] EXCEPT !.pc = "read", !.tenant = t, !.batch = @ \ {t}])

(* Mutant: the answer is not looked at. *)
IgnoreCanContinue(u, c) ==
  /\ At(u, c, "check")
  /\ worker[u][c].batch # {}
  /\ TakeTenant(u, c)
  /\ NoFault
  /\ UNCHANGED <<row, ns, lock, pc, job, tu, execFailed>>

(* The next tenant of the batch, unless somebody asked to stop. *)
CheckCanContinue(u, c) ==
  /\ At(u, c, "check")
  /\ worker[u][c].batch # {}
  /\ \/ row.canContinue /\ TakeTenant(u, c)
     \/ ~row.canContinue /\ WorkerIs(u, c, [IdleWorker EXCEPT !.pc = "ok"])
  /\ NoFault
  /\ UNCHANGED <<row, ns, lock, pc, job, tu, execFailed>>

(* A failed read yields FALSE and ends the loop as a stop does, its error  *)
(* lost in the shadowed variable of updateTenants; a failed commit ends    *)
(* the batch; a transaction that did not begin leaves the last answer.     *)
CheckFails(u, c) ==
  /\ At(u, c, "check")
  /\ worker[u][c].batch # {}
  /\ \/ Fault("query") /\ WorkerIs(u, c, [IdleWorker EXCEPT !.pc = "ok"])
     \/ /\ Fault("query") /\ row.canContinue
        /\ WorkerIs(u, c, [IdleWorker EXCEPT !.pc = "beat"])
     \/ Fault("begin") /\ TakeTenant(u, c)
  /\ UNCHANGED <<row, ns, lock, pc, job, tu, execFailed>>

EndOfBatch(u, c) ==
  /\ At(u, c, "check")
  /\ worker[u][c].batch = {}
  /\ WorkerIs(u, c, [IdleWorker EXCEPT !.pc = "beat"])
  /\ NoFault
  /\ UNCHANGED <<row, ns, lock, pc, job, tu, execFailed>>

Heartbeat(u, c) ==
  /\ At(u, c, "beat") /\ Unlocked
  /\ row' = UpdateLastTimeUpdated(row)
  /\ WorkerGoto(u, c, "fetch")
  /\ NoFault
  /\ UNCHANGED <<ns, lock, pc, job, tu, execFailed>>

HeartbeatFails(u, c) ==
  /\ At(u, c, "beat")
  /\ \/ Fault("query") /\ WorkerGoto(u, c, "err")
     \/ Fault("begin") /\ WorkerGoto(u, c, "fetch")
  /\ UNCHANGED <<row, ns, lock, pc, job, tu, execFailed>>

-----------------------------------------------------------------------------
(* updateTenant *)

TenantDone(w) == [w EXCEPT !.pc = "check", !.tenant = NoTenant, !.types = {}]

(* The namespaces are read and the types to update chosen; when they       *)
(* cannot be read, the tenant is left as it is.                            *)
ReadNamespaces(u, c) ==
  /\ At(u, c, "read")
  /\ LET w == worker[u][c]
     IN  \/ /\ WorkerIs(u, c, [w EXCEPT !.pc = "exec",
                                        !.types = TypesToUpdate(ns[w.tenant], job[u].types)])
            /\ NoFault
         \/ Fault("query") /\ WorkerIs(u, c, TenantDone(w))
  /\ UNCHANGED <<row, ns, lock, pc, job, tu, execFailed>>

(* The rows of tenant t after the rows of the types of saved were saved,   *)
(* those of the types of bad as failed.                                    *)
Save(t, saved, bad) ==
  ns' = [ns EXCEPT ![t] = [ty \in EnvTypes |->
                             IF ty \in saved THEN SavedRow(ty \in bad) ELSE @[ty]]]

(* Executor.Update succeeds, with the given types or, when it failed at    *)
(* first, in the repetition for all types that heals it. A row that could  *)
(* not be saved is no error: it keeps its content, or the failed state the *)
(* first try gave it.                                                      *)
ExecutorSucceeds(u, c) ==
  /\ At(u, c, "exec")
  /\ LET w == worker[u][c]
     IN  \E types \in {w.types, IF w.types = {} THEN {} ELSE EnvTypes} :
           \/ Save(w.tenant, types, {}) /\ NoFault
           \/ /\ Fault("save")
              /\ \E lost \in SUBSET types \ {{}} :
                   \/ Save(w.tenant, types \ lost, {})
                   \/ types = EnvTypes /\ Save(w.tenant, types, lost)
  /\ WorkerIs(u, c, TenantDone(worker[u][c]))
  /\ UNCHANGED <<row, lock, pc, job, tu, execFailed>>

(* Executor.Update returns an error, after the repetition for all types    *)
(* marked what failed or before anything was marked.                       *)
ExecutorFails(u, c) ==
  /\ At(u, c, "exec")
  /\ \/ /\ Fault("exec")
        /\ worker[u][c].types # {}
        /\ \E bad \in SUBSET EnvTypes \ {{}} : Save(worker[u][c].tenant, EnvTypes, bad)
     \/ Fault("silent") /\ UNCHANGED ns
  /\ execFailed' = TRUE
  /\ WorkerGoto(u, c, "incr")
  /\ UNCHANGED <<row, lock, pc, job, tu>>

CountFailure(u, c) ==
  /\ At(u, c, "incr") /\ Unlocked
  /\ row' = IncrementFailedCount(row)
  /\ WorkerIs(u, c, TenantDone(worker[u][c]))
  /\ NoFault
  /\ UNCHANGED <<ns, lock, pc, job, tu, execFailed>>

CountFails(u, c) ==
  /\ At(u, c, "incr")
  /\ Fault("query") \/ Fault("begin")
  /\ WorkerIs(u, c, TenantDone(worker[u][c]))
  /\ UNCHANGED <<row, ns, lock, pc, job, tu, execFailed>>

-----------------------------------------------------------------------------
(* The environment *)

(* The process dies: its goroutines with it, its open transaction is       *)
(* rolled back and its lock released.                                      *)
Crash(u) ==
  /\ pc[u] \notin {"idle", "done", "crashed"}
  /\ Fault("crash")
  /\ Goto(u, "crashed")
  /\ lock' = IF lock = u THEN NoUpdater ELSE lock
  /\ tu' = [tu EXCEPT ![u] = NoRow]
  /\ worker' = [worker EXCEPT ![u] = [c \in Clusters |-> IdleWorker]]
  /\ UNCHANGED <<row, ns, job, execFailed>>

Older(age) == IF age > Timeout THEN age ELSE age + 1

(* Time passes. A punctual update reaches its next heartbeat, or its end,  *)
(* before the row is older than Timeout.                                   *)
Tick ==
  /\ \/ row.age <= Timeout
     \/ \E u \in Updaters : pc[u] = "waiting" /\ job[u].slept <= Timeout
  /\ Punctual => \A u \in Updaters : Running(u) => row.age < Timeout
  /\ row' = [row EXCEPT !.age = Older(@)]
  /\ job' = [u \in Updaters |->
               IF pc[u] = "waiting" THEN [job[u] EXCEPT !.slept = Older(@)] ELSE job[u]]
  /\ UNCHANGED <<ns, lock, pc, tu, worker, execFailed, faults>>

UpdaterStep(u) ==
  \/ BeginUpdate(u) \/ NothingToUpdate(u) \/ FindOngoingUpdate(u) \/ BeginFails(u)
  \/ Recheck(u) \/ RecheckFails(u)
  \/ StartWorkers(u) \/ StartWorkersFails(u) \/ JoinWorkers(u)
  \/ ReadStatus(u) \/ SaveStatus(u) \/ StatusFails(u)
  \/ HandleTenantUpdateError(u) \/ HandleFails(u)

WorkerStep(u, c) ==
  \/ FetchBatch(u, c) \/ FetchFails(u, c)
  \/ CheckCanContinue(u, c) \/ CheckFails(u, c) \/ EndOfBatch(u, c)
  \/ Heartbeat(u, c) \/ HeartbeatFails(u, c)
  \/ ReadNamespaces(u, c) \/ ExecutorSucceeds(u, c) \/ ExecutorFails(u, c)
  \/ CountFailure(u, c) \/ CountFails(u, c)

Next ==
  \/ StopRequest
  \/ Tick
  \/ \E u \in Updaters :
       \/ StartPod(u)
       \/ \E request \in Requests : StartRequest(u, request)
       \/ UpdaterStep(u)
       \/ \E c \in Clusters : WorkerStep(u, c)
       \/ Crash(u)

Spec == Init /\ [][Next]_vars

(* Every goroutine that can take a step eventually does, and time passes.  *)
(* Nobody has to send a request or to start a pod, and nothing has to fail *)
(* or to die.                                                              *)
FairSpec ==
  /\ Spec
  /\ WF_vars(Tick)
  /\ \A u \in Updaters : /\ WF_vars(UpdaterStep(u))
                         /\ \A c \in Clusters : WF_vars(WorkerStep(u, c))

-----------------------------------------------------------------------------
(* Properties *)

(* The values of the variables.                                            *)
TypeOK ==
  /\ row \in TenantsUpdateRow
  /\ ns \in NamespaceTable
  /\ lock \in Updaters \cup {NoUpdater}
  /\ pc \in [Updaters -> Pcs]
  /\ job \in [Updaters -> Job]
  /\ tu \in [Updaters -> TenantsUpdateRow]
  /\ worker \in [Updaters -> [Clusters -> Worker]]
  /\ execFailed \in BOOLEAN
  /\ faults \in Nat

(* At most one process at a time updates the tenants: the row, "updating"  *)
(* and young, keeps every other UpdateAllTenants and Recheck out.          *)
MutualExclusion ==
  \A u, v \in Updaters : Running(u) /\ Running(v) => u = v

(* Why: while a process updates, its row says so and is not too old to be  *)
(* respected; and as long as no statement fails nobody reports an error.   *)
RunIsVisible ==
  \A u \in Updaters : Running(u) => row.status = "updating" /\ row.age <= Timeout

NobodyReportsError ==
  \A u \in Updaters : pc[u] # "handle" /\ \A c \in Clusters : worker[u][c].pc # "err"

Lease == TypeOK /\ MutualExclusion /\ RunIsVisible /\ NobodyReportsError

(* Once the update is finished no outdated namespace is left, of any       *)
(* cluster, whose type the version check of the next update (checkVersions)*)
(* would not select: nobody is forgotten until the next release.           *)
NothingForgotten ==
  row.status = "finished" =>
    \A t \in Tenants, ty \in EnvTypes : ~ns[t][ty].current => ty \in OutdatedTypes(row)

(* An update during which the update of some tenant returned an error does *)
(* not end as finished (failed_count, setStatusAndVersionsAfterUpdate).    *)
FailuresReported ==
  row.status = "finished" => ~execFailed

(* The abstract update: see ClusterWideUpdate. *)
Pending == {x \in Tenants \X EnvTypes : ~ns[x[1]][x[2]].current}

Abstract == INSTANCE ClusterWideUpdate
              WITH Namespaces <- Tenants \X EnvTypes, status <- row.status, pending <- Pending

AbstractSpec == Abstract!Spec

(* Every process that updates tenants comes to an end, however many of     *)
(* them it has to visit again because their update failed (updateForCluster*)
(* loops until no tenant is outdated).                                     *)
Termination == \A u \in Updaters : Running(u) ~> ~Running(u)

(* The same of the updates that are not limited to some types.             *)
FullUpdateEnds ==
  \A u \in Updaters : (Running(u) /\ job[u].filter = EnvTypes) ~> ~Running(u)

(* A request to stop ends an update even when it would go on for ever,     *)
(* unless another update begins.                                           *)
StopEndsUpdate ==
  \A u \in Updaters : (Running(u) /\ ~row.canContinue) ~> (~Running(u) \/ row.canContinue)

(* A process that began to wait (waitAndRecheck) for an update that nobody *)
(* runs any more resumes it, unless it dies, or a statement of its recheck *)
(* fails, or the update is resumed or ended by another process.            *)
InterruptedUpdateResumed ==
  \A u \in Updaters :
    (/\ row.status = "updating" /\ ~\E v \in Updaters : Running(v)
     /\ pc[u] = "waiting" /\ job[u].slept <= row.age)
      ~> (\/ row.status # "updating"
          \/ \E v \in Updaters : Running(v)
          \/ pc[u] \in {"crashed", "handle"})
=============================================================================
