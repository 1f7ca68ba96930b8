# A TLA+ verification of fabric8-init-tenant

fabric8-init-tenant is a web service that gives every user ("tenant") of
openshift.io the OpenShift projects of their environments and keeps them up to
date. It runs in several pods against one PostgreSQL database and several
OpenShift clusters. This directory holds TLA+ modules that model its core, the
configurations that model-check them with TLC, and theorems about them checked
by the TLA+ proof system. `PROJECT.json` lists the components, the runs, the
source lines behind every definition, the hazards and which property covers
them, the disagreements between code and documentation, and the theorems.

    tlc -workers 2 -config update_safety.cfg MCTenantsUpdate.tla
    tlapm ProgramStartProofs.tla

## 1. The system

### Components, their state and what makes them correct

| Part (source) | State | Operations | Correct when |
|---|---|---|---|
| Cluster-wide update (`update/`, `controller/update.go`) | the row `tenants_update` (status, failed count, time of the last heartbeat, whether it may continue, versions of the template files), the version and state of each row of `namespaces`, an advisory lock | start at a pod's start and on request, stop, take-over, one goroutine per cluster, end | one process updates at a time; "finished" means that nobody is left outdated; failures are reported; it ends, can be stopped, and is resumed after a crash |
| Tenant requests (`controller/tenant.go`, `controller/tenants.go`) | the tables `tenants` and `namespaces` | Setup, Clean (with or without removal), Update, Delete by the auth service, Show, Search | rows follow the tenant's base name; nothing is left behind; requests of one tenant leave the others alone; every request is answered |
| Namespace actions (`openshift/action.go`, `openshift/service.go`) | an entity per namespace, an error channel, the options that disable healing | create, update, delete, each with its healing; a goroutine per environment type | a ready row has its project; healing ends and does not destroy more than it repairs |
| Requests for single objects (`openshift/callback.go`, `endpoints.go`, `methods.go`, `client.go`) | the object in the cluster, the chain of callbacks | POST, PATCH, DELETE, ENSURE_DELETION | an answer without an error means what it says; every call ends |
| Repository and transactions (`tenant/`, `dbsupport/`) | the database | read, save, choose a base name, lock | no two rows of one type, no base name used twice |
| Objects of a namespace (`openshift/service.go`, `env_type_service.go`, `environment/`) | the objects in the cluster; versions of templates fixed when the program is built | retrieve, select and sort the objects of the templates, apply operation sets, callback after them, state and version of the row | a ready row in the current version has its objects; each object is created after those it needs; the rights of the user are what was decided |
| Cluster service (`cluster/service.go`) | a list of clusters with tokens, behind an RWMutex | refresh at the start and by a ticker, look up | the list is one whole answer of auth; every look-up gets the entry of one list, and gets it in the end |
| Migration (`migration/`) | the table `version`, an advisory lock | apply the missing versions, each in a transaction of its own | each version is applied once, in order; pods that start at once do not make each other fail |
| Start of the program (`main.go`) | where each process is | connect, migrate, fetch token and keys, load the clusters, serve | a pod serves only with its schema and a list of clusters; it gets there in the end |
| Authentication, toggles, configuration, metrics, logging, JSON API | none of their own | one call each | not modelled, see section 7 |

### How they interact

`main.go` migrates the database, loads the clusters and then starts the server,
the update of all tenants and the refresh of the clusters; whatever fails before
that ends the process, and the platform starts it again. A handler of `controller/tenant.go` reads the tenant and its
namespaces from the repository, asks the cluster service for the clusters and
hands a list of environment types to `openshift/service.go`, which runs one
goroutine per type. A goroutine saves the row of its namespace, applies sets of
template objects to the cluster, each object by a chain of callbacks around a
request, and saves the row again. Afterwards the action counts the errors, reads
the rows again and decides whether to heal: by deleting everything and creating
it under another name, or by repeating itself once.

The cluster-wide update calls the same update action for each outdated tenant.
Its processes meet only in the database: in the row `tenants_update`, read and
written under an advisory lock, and in the table `namespaces`. Pods of two
releases meet in the same way in the table `version` during a deployment.

### What is hard about it

- *No transaction spans the database and a cluster*, nor two handlers. Rows
  and projects disagree for a while, and for ever when a process dies.
- *Nothing but time keeps two updates apart*: a row "updating" whose heartbeat
  is younger than a timeout. A process that waits looks at it again once.
- *Errors are often only logged* (saving a row), counted elsewhere (failed
  tenants), shadowed (`err` in `CanContinue`) or dropped (a transaction that
  cannot begin).
- *Healing* runs where something failed already; it deletes by name and with
  the token of the cluster.
- *Callbacks nest*: the answer to a creation may be a deletion and another
  creation, with callbacks of their own, while others work on the object.
- *Several sets, one outcome.* A goroutine applies one operation set after
  another; a failed set does not stop the next, but has to make the row failed.
- *A refresh takes many requests.* Between the list of clusters and the last
  token either may change, and look-ups go on meanwhile.

## 2. The modules

| Module | Models | Uses |
|---|---|---|
| `EnvironmentTypes` | the default environment types | |
| `UpdateRepository` | the row `tenants_update`, template files and versions, ages and the timeout | `EnvironmentTypes` |
| `OutdatedNamespaces` | the table `namespaces` as the update reads it, the queries for outdated tenants, `ExecuteUpdate`'s effect on rows | `EnvironmentTypes` |
| `TenantsUpdate` | the whole cluster-wide update, by several processes | the three above |
| `ClusterWideUpdate` | abstract: what an update promises | |
| `TenantsUpdateProofs` | theorems about `TenantsUpdate`: types, one update at a time | |
| `UpdateOutcomeProofs` | theorems about what an update ends with, and its refinement of `ClusterWideUpdate` | `TenantsUpdateProofs` |
| `TenantProvisioning` | the requests of tenants with their actions, healing and goroutines | `EnvironmentTypes` |
| `TenantProvisioningProofs` | theorems about `TenantProvisioning` | |
| `ObjectEndpoints` | `ObjectEndpoints.Apply` on one object, with the chains of callbacks | |
| `ObjectEndpointsProofs` | theorems about `ObjectEndpoints`: its frames, what is written | |
| `ObjectOutcomeProofs` | theorems about what an answer of `ObjectEndpoints` means | `ObjectEndpointsProofs` |
| `NamespaceObjects` | what the goroutine of a type does to the objects of its namespace | `EnvironmentTypes` |
| `NamespaceObjectsProofs` | theorems about `NamespaceObjects` | |
| `Deployment` | the pods and the faults that befall them | |
| `Migration` | `Migrate` by several pods of several releases | `Deployment` |
| `ClusterCache` | the cluster service of several pods, and auth as it sees it | `Deployment` |
| `ProgramStart` | the program from its start to its service | `Migration`, `ClusterCache` |
| `SchemaUpgrade` | abstract: what `Migrate` promises | |
| `ClusterLists` | abstract: what the cluster service promises | |
| `ProgramStartProofs` | theorems about the migration within `ProgramStart` | |
| `ClusterCacheProofs` | theorems about the cluster service within `ProgramStart` | `ProgramStartProofs` |
| `MC...` | the constants of the instances for TLC | |

`TenantsUpdate` and `TenantProvisioning` meet in the update of one tenant, which
is two steps of the first (a tenant's rows are read, and the update writes
them, failing in the ways the second shows), and a request of the second.
`TenantProvisioning` in turn takes the creation or deletion of a project as
a step and uses what `ObjectEndpoints` shows of it: an answer without an error
means that the project was created by this call and has a status, or that it is
gone or going; a creation of a project that exists already is refused. It takes
the other objects of a project as one step that may fail; `NamespaceObjects` is
that step, object by object, with a request or an answer of `ObjectEndpoints` for
each change an object may undergo. `ProgramStart` composes `Migration` and
`ClusterCache`: their actions are parts of the steps of a process.

### TenantsUpdate

| State | Code |
|---|---|
| `row` | the row `tenants_update`; `age` is the time since `last_time_updated` in units of the timeout's granularity |
| `ns` | rows of `namespaces` by tenant and type: whether the version is current, whether the state is failed and whether `updated_by` is this commit |
| `lock` | the advisory lock where a transaction is more than one step |
| `pc`, `job` | where each `UpdateAllTenants` is, its parameters and locals |
| `tu` | the row as read by the transaction that sets the final status |
| `worker` | the goroutine of each cluster in `updateTenantsForCluster` |
| `execFailed` | history: the update of some tenant returned an error |

A transaction that takes the lock is one action; the one that ends an update is
two, because a request to stop takes no lock and may come between its read and
its save. Two steps are also where the code releases everything in between:
reading a batch, checking whether to continue, updating a tenant, counting its
failure, the heartbeat. `Tick` passes time and `Crash` ends a process; they
stand for the environment and have no lines of code.

### TenantProvisioning

| State | Code |
|---|---|
| `tenants` | table `tenants`: the base name (a number, see below) |
| `rows` | table `namespaces` with its primary key, type, base name and state |
| `projects` | the projects of the cluster by type and base name, with their owner |
| `req` | a request: where its handler is, the stage of the action or healing, the rows it read, its types, the number of errors in `errorChan` |
| `routine` | the goroutine of a type: its entity, whether an operation failed, whether another operation set follows |

Every database statement and every operation set of a goroutine is an action of
its own. All tenants have the same OpenShift user name, the case in which base
names collide; the n-th name is the number n, and 0 is a name that is not
compliant any more. `constructNsBaseName` asks for each name in turn; that loop
is one action.

### ObjectEndpoints

| State | Code |
|---|---|
| `kind`, `phase` | the kind of the object and what the cluster knows of it |
| `call` | a caller: the method applied, whether with the user's token, and a stack of `apply` calls: `WhenConflictThenDeleteAndRedo` calls `Apply` again |
| `seen` | history, for the properties: marks of what happened to the object since the call began (its name was free, it was gone or going, it was alive, this call wrote it, it has had a status since) |

An action is one request with its answer, or a callback that sends none. A frame
keeps the code that came back from the request apart from what the callbacks
made of it, since `apply` returns the former. The table `AllObjectEndpoints` is
`BeforeDo`, `AfterDo`, `RequireMasterToken`. Only `CreateAction` works with a
user's token, and it only applies POST; the project of somebody else (phase
`foreign`) is visible to the master token alone. What the API server does
(`Post`, `Patch`, `Delete`, `Get`) and who else changes objects (`Cluster`) is
not code of this repository; it is modelled from the status codes that the
callbacks tell apart.

### NamespaceObjects

| State | Code |
|---|---|
| `type`, `disableQuotas` | the environment type of the namespace; the configuration that decides on the quota template |
| `objs` | each object: absent, as a template of an earlier version has it, good, or going |
| `row` | the row of the namespace: state and version |
| `worker` | a goroutine of `processAndApplyNs`: the operation, the operation sets with what is left of them, the object being applied or the kind being listed, whether anything failed, whether edit rights are granted; history: whether it was alone, what there was of each kind when it was to be listed (`found`), what the cluster denied of it (`denied`) |

There is one object for each part a kind plays: those that others need, the quota,
the role binding of the toggle (`edit`) and the one the cluster adds (`admin`), what a
user runs: a deployment, its pod under one of two names, a claim. Which objects belong
to which template, and what each needs, is data of the template files; the order is
`sortOrder`. Objects of one order come in any order. Deletions ask for no grace
period (`openshift/endpoints.go:151`), so only a claim, which is kept while it is
used, takes time to go (`terminating`). Begin, the operation sets, the list of each
kind, each change of an object, the callback and the save are actions of their own;
`Deploys`, `PodGoes`, `ReplacesPod` and `IsRemoved` are the user and the cluster.

A cleaning asks for one kind after the other (`ListKind`) and deletes by name what
it was shown. A kind whose list is answered 403 or 404 is passed over, and a deletion
answered 403 counts as done, also that of `edit` and `admin`: the fault `forbidden`,
which is none for the code. `denied` notes which objects were there all the same, and
the properties except just these. A pod that replaces another takes a name no goroutine
at work has seen; with two names, one may be listed and the other come after the list.

Two assumptions are about the surroundings. A GET that precedes a PATCH is not
answered 403 while the object is there, as a token that may write it may read it. And
the user does not deploy what a cleaning at work has found under the same name;
otherwise nothing could be said of what is left.

### Migration, ClusterCache, ProgramStart

| State | Code |
|---|---|
| `version`, `holder` | the rows of the table `version` in the order of their commits; who has the advisory lock |
| `mig` | a call of `Migrate`: its place, `nextVersion`, what its open transaction has inserted |
| `auth` | the list of clusters and their tokens, as the auth service has them; not code of this repository |
| `cached` | `cachedClusters`; history: the answer of auth it was made from |
| `refresh`, `writer` | a call of `refreshCache` with the entries made so far; whether it waits for or holds the write lock |
| `look` | a request that looks a cluster up: `RLock`, the `make` of the copy, the copy and the search are steps |
| `program` | where `main` of a pod is |
| `faults` | the faults that happened so far |

A statement, a commit and a request to auth or to a cluster are actions; a commit
whose answer is lost may have taken place or not. A process that ends gives up its
transaction, its lock and its memory in one step. The pods may be of different
releases (`Programs`: how many versions each knows) and may run with
`migrateDatabase` (`MigrateOnly`), which exit after the migration.

## 3. The abstract specifications

`ClusterWideUpdate` has a status and the set of outdated namespaces. An update
starts, makes progress while the status is "updating" (namespaces become up to
date, none becomes outdated) and ends; it ends as "finished" only when none is
left. `update_safety` checks that `TenantsUpdate` implements it with
`status <- row.status` and `pending` the outdated rows: in particular no
interleaving of two processes lets a namespace be updated while the status says
that nothing runs.

`SchemaUpgrade` counts the versions of the schema and knows which pods are ready:
the schema is upgraded by one for a pod that needs more, never beyond the newest
release, and a pod becomes ready only when its schema is there. `ProgramStart`
implements it with `version <- Len(version)` and `ready` the pods whose `Migrate`
has returned without an error.

`ClusterLists` has a list of clusters per pod, replaced as a whole, and look-ups that
find in one step what one list has for their target, the first entry or a blank
one. `ProgramStart` implements it with `list` the cached entries and `found` what the
finished look-ups returned: the copy, whose size is read before its elements are, is
never torn by a refresh.

All three refinements are proved, and checked: `ClusterWideUpdate` by
`update_safety`, the other two by `pods_start`.

## 4. The runs

Every run is exhaustive within its bounds. `CHECK_DEADLOCK FALSE` is set
where requests and updates end and the system then rests, which is everywhere
but in `pods_start`: pods never stop refreshing their clusters.

| Run | Question | Bounds |
|---|---|---|
| `update_safety` | Does one process at a time update? Does finished mean done, and is no failure hidden? Is it a cluster-wide update? | 2 processes, 2 tenants, one of them on 2 clusters, batches of 1, all outdated after a new release; updates of everything, one type or one cluster; 1 fault (failing tenant, failure before any row is marked, lost save, transaction that does not begin, crash) |
| `update_ends` | Do full updates end, does a stop end every update, is an interrupted one resumed by a process that waits? (liveness) | 2 processes, 1 tenant whose namespace of type che is outdated after new quotas, starts of pods and updates of one type; 2 faults (failing tenant, failure before any row is marked, failing statement, crash) |
| `update_one_type` | violation: an update of one type ends | 1 tenant whose namespace of type che is outdated, updates of type user, no fault |
| `prov_serial` | Whatever fails or dies: do rows follow the base name, is there one per type and no project without a row? | a setup, a cleaning and a removal in any order; the first name taken by somebody else; 2 faults of all kinds |
| `prov_known` | The same for an existing, incomplete tenant with a legacy row: is anything left behind, is every request answered? (liveness) | an update, a deletion, a setup in any order; 2 faults of the cluster or of saves |
| `prov_others` | Does a ready row have its project, and do tenants leave each other alone? | 2 tenants of one user name, one with an old name; 3 setups, 1 removal of the other tenant that may overlap with the first setup; 1 fault |
| `prov_setups` | Do overlapping setups leave each other alone, with one row per type? | 3 setups at the same time, one of which may die |
| `prov_half_setup` | violation: conflict means that everything is there | 2 setups, 1 crash |
| `prov_setup_delete` | violation: deleted means gone | a setup and a deletion at the same time, no fault |
| `object_requests` | What does an answer without an error mean? Is there always one? (liveness) | 2 callers with any method, one kind for each class of callbacks (project, quota, claim), 2 tries, 1 refused or unanswered request |
| `namespace_objects` | Is a ready namespace complete? Are objects created after what they need, are rights as decided, and does a cleaning leave only what the cluster denied it or what came later? | 2 goroutines with creations, updates and cleanings one after the other or overlapping, both types, quotas on and off, toggle on and off, a pod under two names; 3 faults of all kinds |
| `pods_start` | Is each version applied once and in order, without collisions? Does a pod serve only with its schema and one whole list of clusters? Does it in the end, and is each look-up answered? (liveness) Are both abstract specifications implemented? | a pod with 2 versions that serves, a pod with 3 that migrates only, 2 clusters, lists of one or both; 1 change of auth, 1 fault of any kind, 1 look-up at a time |

Why these bounds are enough to be interesting: the races are between two
processes or two callers (a third adds no new pair that shares state, and the
proofs below do not bound their number); a tenant needs two types and the update
two clusters for one of several steps to fail; one fault breaks the step it
hits, a second one breaks the repair. Numbers of base names are bounded by the
number of renamings the requests of a run can make. Retries are two instead of
10 to 50: the first try may be followed by another and the last one not.
Versions are two and three, so that one pod finds what another applied and one has
to go on alone. One look-up suffices because look-ups only read.
`age` stops growing one unit above the timeout, since only "older than the
timeout" is ever asked; `failedCount` is bounded by the number of faults.

The faults are a budget (`MaxFaults`) over kinds (`Faults`), so that a run says
which failures its properties tolerate. A property whose run lacks a kind of
fault is not claimed with it; TLC gives a counterexample for these:

- *`MutualExclusion` and failing statements.* A waiting process whose statement
  fails sets the status of the running update to failed
  (`HandleTenantUpdateError`, `update/update.go:150`), and the next one starts a
  second run at once.
- *`NothingForgotten` and failing statements.* The error of `CanContinue` is
  shadowed (`update/update.go:323`); the goroutine stops as if it had been told
  to, and the update ends as finished with tenants outdated.
- *`FailuresReported` and two faults.* The failure of a tenant is counted in a
  transaction of its own; when it does not begin the count is lost.
- *`AcceptedIsReady` and a transaction that does not begin.*
  `dbsupport.Transaction` wraps the wrong error and returns nil
  (`dbsupport/transaction.go:25`): no namespace is created, none is missed.
- *`OneRowPerType` and overlapping setups of a tenant with an old base name.*
  Each renames the tenant (`controller/tenant.go:202`) and creates its own
  namespaces.
- *`OthersUntouched` and overlapping setups of two users of one name.* Both
  take the same free base name; the healing of the one that fails removes the
  projects of the other. The projects of somebody who is no tenant can be
  removed in the same way, as healing deletes by name.
- *`InterruptedUpdateResumed` after the wait.* `waitAndRecheck` looks once; a
  process that dies after that, or a statement of the second look that fails,
  leaves an update nobody resumes until a pod starts. The property allows for both.
- *`ReadyIsComplete` with a fault while two goroutines work on a namespace.* A
  creation that meets an object deletes it and creates it again
  (`openshift/endpoints.go:225`); if that fails or the process dies in between, the
  other goroutine, whose object it was, still makes the row ready.
- *`RightsAsDecided` for updates.* The role binding `admin` is removed by the
  callback of a creation; if that request fails the row is failed, an update
  repairs the namespace and makes it ready, and the binding stays. The property
  speaks of the goroutine that created.
- *`RightsAsDecided` and `CleanedAsListed` and an answer 403.* What the cluster denies
  is taken for something that is not there (`openshift/callback.go:325`,
  `openshift/action.go:318`), and the row or the request reports success. The run has
  this fault, and both properties except just the objects concerned; without
  the exception TLC finds them violated. It takes a token without rights to the
  namespace; cleanings and updates use the master token of the cluster, which
  normally has them, but a kind the cluster does not know is answered 404.
- *An empty namespace after a cleaning.* `CleanedAsListed` does not claim it: a
  deployment that replaces its pod between the list of the pods and its own deletion
  leaves a pod of another name that is not asked for.

Further behaviour of the code that the models keep and that a reader should
know: a request to start an update that is answered with a conflict starts an
updater all the same (`controller/update.go:68`); a request to stop that falls
between the read and the save of the final status is overwritten
(`update/update.go:314`); when the conflicting object is gone before the nested
DELETE arrives, the creation fails with the 404 that a callback had ignored
(`openshift/endpoints.go:225`); any failure to ask for a project counts as its
existence (`openshift/callback.go:119`); a cleaning that fails writes the current
version into the row although nothing was updated (`openshift/service.go:149`).

### The findings

Three runs expect a violation; each states what the repository says and shows
what the code does: an update limited to one type that never ends
(`update_one_type`), a setup that answers "conflict" for ever after a crash
(`prov_half_setup`), a setup in progress that brings a deleted tenant's rows and
projects back (`prov_setup_delete`).

## 5. Fairness

Safety is checked without fairness. Liveness assumes weak fairness of every step
of a goroutine that has begun: Go schedules every goroutine, statements and
requests are answered or their connections break, and time passes. Weak fairness
suffices because no such step is disabled again by another process except by the
advisory lock, which is released within a transaction. No request, no start of a
pod, no fault, no crash and, in `ObjectEndpoints`, no step of the cluster is
ever assumed to happen: an object that never gets its status makes the call fail
after the last try. The HTTP client has no timeout (`openshift/client.go:33`),
so that a server that keeps a connection open without an answer is outside this
assumption.

In `ProgramStart` the platform starts a process that has ended, a ticker goes on
ticking, and a process, its refresher and its look-ups take their next step. Weak
fairness suffices for the locks, too: the database gives the advisory lock up with
the session that held it, so that it is free again and again only while other pods
have versions to apply, which are finitely many; Go's `RWMutex` lets new readers wait
when a writer does and wakes the waiting readers before the next writer, which the
model contains. Faults and changes of auth are finite but not assumed to happen.
`NamespaceObjects` is checked for safety only: its steps end with its lists.

## 6. What is proved

The theorems hold for every value of the constants that satisfies the named
assumption `ConstantsAssumption` of the module (what the constants are: sets,
functions, bounds; TLC evaluates it in every run).

**TenantsUpdateProofs.** `TypeCorrect`: the type invariant. `OneUpdateAtATime`:
`MutualExclusion`, under two assumptions stated in the theorem: updates are
punctual (the heartbeat of a running update comes before the timeout) and no
statement fails; without either the counterexamples above exist. Mutual exclusion is
not inductive: that a second process does not start rests on the row. The
inductive invariant `Lease` adds `RunIsVisible` (while a process runs the row
says "updating" and is not older than the timeout) and `NobodyReportsError` (so
that nobody overwrites the status of a run that is not theirs). The proof has a
lemma per action; the actions that start or resume a run read the row that
`RunIsVisible` speaks of in the same transaction.

**UpdateOutcomeProofs.** What an update ends with. `NobodyForgotten`
(`NothingForgotten`) and `ImplementsClusterWideUpdate` (the refinement of
`ClusterWideUpdate`) hold for punctual updates without failing statements,
`NoFailureHidden` (`FailuresReported`) when in addition every transaction begins;
section 4 says what happens otherwise. Tenants that fail, rows that are not saved,
crashes and stops are all allowed. `Lease` alone says nothing about namespaces. The
inductive invariant `Outcome` says what a full update has achieved at each place: its
types are those of all outdated namespaces (`CoversOutdated`), a goroutine that
ended without having been told to stop has left nothing on its cluster (`Visited`),
and the status about to be saved is "finished" only when all is current
(`Thorough`). `Reported` follows a failure from the goroutine to the saved status:
once it is counted (`Counted`), the row says so until the update has ended.

**TenantProvisioningProofs.** `TypeCorrect` holds for any requests, overlapping or
not; its inductive invariant adds that what is healed is known (`HealsKnown`) and
that a goroutine at work has the row it works for (`RowKnown`). `RowsHaveTheName`
(`RowsFollowBaseName`), `OneRowOfAType` (`OneRowPerType`) and `ProjectsAreFound`
(`NothingLeftBehind`) hold for any tenants, requests and faults under two assumptions
stated in the theorems: requests of one tenant do not overlap (`Serial`; section 4
has the counterexample), and no tenant has both a base name that is not compliant any
more and a row of a type no longer supported (`NoOldLegacy`; the renaming leaves that
row under the old name). None of the three is inductive, as all of them rest on what a
request has read: the inductive invariant `TableInv` joins them with the fact that
at most one request of a tenant is at work (`OneAtATime`), that the base name and the
rows a request has read are still those of the tables (`BaseRead`, `RowsRead`), and
for each goroutine (`RoutineInv`) that it finds its row, creates one only where there
is none, and that the project is gone before the row that leads to it is dropped.
`Frame` says that a step of a request leaves the name and the rows of other tenants
as they are and gives them no project, so that each action is proved for the request
that makes it (`OthersInv`). There is a lemma per action, in the order of the module.

On `TableInv` rest three more theorems. `OnlyOwnProjects` (`OthersUntouched`) needs that
a base name leads to one tenant. A name is chosen in one transaction and saved in
another, so it assumes that no two tenants are set up at the same time (`SetupsApart`;
any other requests of theirs may overlap) and that they start with different names
(`StartsApart`); `NamesInv` then says that names differ, that a name about to be saved
is nobody's, and that what creates has a compliant one. `AcceptedAreReady`
(`AcceptedIsReady`) follows each goroutine of a creation (`GoesWell`): it has failed
only with an error sent, and ended without one only with a ready row. It assumes that
rows are saved (`RowsAreSaved`: a save that fails is only logged, a transaction that does
not begin not even that, and setup answers "accepted" all the same); refusals of the
cluster, failing statements and templates, and crashes are allowed. `ReadyIsThere`
(`ReadyHasProject`) is not inductive, since a deletion removes the project before the row:
`OutcomeInv` says that a ready row has its project or a goroutine that is about to save
the removal (`HasProject`), and that a goroutine which creates or updates and has not
failed works on the project of its tenant (`Made`). It assumes that nothing gets lost
between the cluster and the row (`StatesAreSaved`: no failing save, no crash, no missing
templates), that the projects of somebody else have no tenant's name at the start, and
that there are none if there are updates (`NoStrangers`: an update makes a row ready
whoever owns the project of this name).

`SetupsAreHarmless` (`SetupsDoNotDisturb`) is about requests that do overlap: any number
of setups of each tenant, in any order of their steps. Its inductive invariant
`SetupsInv` says that a row is what keeps them apart: a project has a row of its name
(`ProjectsHaveRows`), and a goroutine at work has the row that its own request created
(`SetupGoes`), so that no other creates the project and none finds it taken. Setups may
die and saves may fail (`NothingRefused`), but nothing else may fail, since healing
removes what the others created, and no tenant has an old name (`NoneOld`): there each
setup renames the tenant and creates the namespaces of its own name.

**ObjectEndpointsProofs.** Three theorems for any number of callers, kinds,
retries and faults, without further assumptions. `TypeCorrect`: the type
invariant, whose point is the depth of the stack: `apply` never nests more than
once. `WritesTakePlace`: `AcceptedIsWritten`, a POST or PATCH without an error
wrote the object. `FreeNamesOnly`: `CreatedIfFree`. The inductive invariant
`IInv` says, of the frame on top of the stack (`TopInv`), which chains of
callbacks its method may have left (`Befores`, `Afters`), that a frame which
ends a writing method without an error has written, and that a creation of a
project which is about to be sent has noted a free name; and of the frame below
(`BelowInv`) that it waits in `WhenConflictThenDeleteAndRedo` while the one above
it deletes or repeats without that callback (`Nested`). The chains are
needed because the method of a frame changes on the way (a patch becomes a
creation) and because the callbacks that ignore failures must be known to
occur only in methods that delete. The lemmas are about sequences of at most two
elements, chains, frames, calls, steps of the cluster and of callers, in this
order.

**ObjectOutcomeProofs.** What an answer means, for the same callers, kinds,
retries and faults. `StatusBeforeAnswer` (`CreatedIsReady`), `NothingLeftToDelete`
(`DeletedIsGoing`) and `PatchesTheLiving` (`PatchWaitsForRemoval`) are about the step
that answers, `LossIsAnError` (`NothingLostSilently`) about all callers together; it
assumes that there is a caller, as otherwise nobody could report a loss. The
inductive invariant `OutInv` adds to `IInv` what each frame has seen by the place it
is at (`SeenInv`: a deletion that passed has seen the object gone or going, a patch
about to be sent has seen it alive, a creation that needs a status still has to wait
for it or has seen it), and `SomebodyOwes`: while the object is gone or going some
call is not settled, because a frame of it will still create the object or end in an
error. The callers delete each other's objects only in the chain that creates them
again, so the debt passes from one to the other and is not lost.

**NamespaceObjectsProofs.** For any number of goroutines and faults and every type:
`TypeCorrect`, `Complete` (`ReadyIsComplete`), `Ordered` (`DependenciesFirst`),
`Rights` (`RightsAsDecided`) and `Cleaned` (`CleanedAsListed`). All but the types rest on
what is left of a goroutine's work, so the inductive invariant `NInv` speaks of it:
`WorkerInv` bounds the operation sets (at most two, what is written before what is
deleted) and ties each place to the set it is in; `ObjsInv` says that nothing is there
without its project; `AloneInv` that of two goroutines at work neither is alone;
`OwnInv` that each object a goroutine alone has to write, to withdraw or to remove is
done, still on its list or denied (`CleanedInv` for a cleaning: what it has found and
nobody denied it is on the list until it is gone, and what others create meanwhile it
has not found). Goroutines that do overlap remove objects of each
other in conflicts; `NoFaultInv` says that without a fault whoever did so will
create the object again (`Owed`), and `SerialInv` what holds as long as nobody ever
overlapped. A lemma per action shows that the action keeps a contract (`WStep`: which
objects and which of the worker's fields it may change, and how it leaves a place),
and `WStepKeeps` proves the invariant once from the contract. The operator `Remaining`
is written with `SubSeq` and `CHOOSE`, of which the provers know more than of `SelectSeq`.

**ProgramStartProofs.** For any number of pods of any releases, any lists of
clusters and any faults: `VersionsInOrder` (`AppliedInOrder`), `SchemaIsThere`
(`SchemaBeforeService`), `MigrationsDoNotCollide` (`FailsOnlyByFault`) and
`ImplementsUpgrade` (the refinement of `SchemaUpgrade`). That versions are in order
is not inductive: it rests on who has the lock and on what a pod has read under
it. The inductive invariant `MigrationInv` says for each place of `Migrate` (`Stage`)
whether the pod holds the lock, that `nextVersion` is the length of the table from
the read to the commit, and that the schema is complete for a pod that has left the loop.
`FailsOnlyByFault` needs in addition that each pod which rolls back or has failed has
cost a fault of its own, a fact about the cardinality of a set that changes by one.

**ClusterCacheProofs.** `TypeCorrect` (the type invariant of the program),
`CacheIsSnapshot` (`SnapshotOfAuth`) and `ImplementsLists` (the refinement of
`ClusterLists`). The inductive invariant `ClusterInv` says that the entries a
refresh has made agree with the beginning of the answer it works on, and those of
the cache with all of it (`Agrees`). The refinement needs that a look-up which knows
the size of its copy keeps it: while a reader holds the lock no writer replaces the
list.

**Only model-checked**: liveness (`Answered`, `CallsEnd` and the other properties under
fairness), which is out of the prover's reach. Every safety property of a passing run is
stated by a theorem.

## 7. What is not modelled

- Show and Search read and convert; the JSON API, the design, metrics, logging,
  sentry, configuration and the client of the toggles have no state that other
  parts depend on. Toggles and auth are a yes or no, an answer or a failure, of
  the models.
- Tenants without a base name in their row, which `getExistingTenant`
  (`controller/tenant.go:360`) reads as having their user name; the model's tenants
  have the name that is then used.
- The contents of the SQL files, of the templates and of the objects made from
  them; the parsing and the expansion of variables. `NamespaceObjects` knows which
  kinds a template has, not their fields.
- The expiry of the service account's token and of the public keys; a user's token
  is valid for the whole request.
- That auth refuses tokens for clusters it no longer lists is an assumption of
  `ClusterCache` (`HasToken`).
- A crash within the update of one tenant is not split from the crash before or
  after it in `TenantsUpdate`; `TenantProvisioning` has the steps in between.
- The choice of a base name is one step, although it is a query per candidate.
- SQL isolation below a statement: a statement or a transaction under the lock
  is atomic, but for the insertion of a version, which waits for the transaction
  that inserts the same one.


## 8. Plan

In this order, the most consequential behaviour first. Done: 1 to 7.

1. `TenantsUpdate` with its repository modules, `ClusterWideUpdate`, the proofs
   of its type invariant and of mutual exclusion.
2. `TenantProvisioning` with healing, crashes and overlapping requests.
3. `ObjectEndpoints` with its callbacks.
4. `ObjectEndpointsProofs`.
5. `Migration`, `ClusterCache` and their composition `ProgramStart`, with liveness.
6. `SchemaUpgrade`, `ClusterLists` and the proofs that `ProgramStart` implements
   them.
7. `NamespaceObjects`: the objects within a project, their order and the outcome.
8. `NamespaceNames`: the choice of a base name with its queries as separate
   steps, and operators for the processing of templates (`tenant/repository.go`,
   `environment/`), checked against reference definitions over bounded inputs.
9. Proofs of all safety properties of the runs that pass: done. What is left is to
   weaken assumptions, for instance `Serial` where only setups and updates overlap.
10. An abstract specification of a tenant's life (absent, being set up, ready,
    being removed), to be implemented by `TenantProvisioning` for requests
    one after the other.
