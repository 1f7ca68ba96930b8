---------------------------- MODULE ProgramStart ----------------------------
(***************************************************************************)
(* The program from its start to its service (main.go): a pod connects to  *)
(* the database, migrates it, fetches the token of its service account and *)
(* the public keys from auth, loads the clusters and then serves requests  *)
(* and refreshes the clusters. Whatever fails on the way but the           *)
(* connection, which is retried for ever, makes the process panic, and     *)
(* the platform starts it again. With the flag migrateDatabase the program *)
(* exits when the database is migrated.                                    *)
(***************************************************************************)
EXTENDS Migration, ClusterCache

CONSTANT MigrateOnly      \* the pods that run with the flag migrateDatabase

ASSUME ProgramAssumption == MigrateOnly \subseteq Pods

VARIABLE program          \* where main of each pod is

vars == <<faults, program, version, holder, mig,
          auth, changes, cached, refresh, writer, look>>

-----------------------------------------------------------------------------
ProgramPcs == {"down", "connect", "migrate", "token", "keys", "clusters",
               "serving", "exited"}

Migrated == {"token", "keys", "clusters", "serving", "exited"}

Init ==
  /\ faults = 0
  /\ program = [p \in Pods |-> "down"]
  /\ MigrationInit
  /\ ClusterInit

Goes(p, pc) == program' = [program EXCEPT ![p] = pc]

(* The platform starts the process, which checks its templates' versions.  *)
StartProgram(p) ==
  /\ program[p] = "down"
  /\ Goes(p, "connect")
  /\ UNCHANGED <<migrationVars, clusterVars>>
  /\ NoFault

Connect(p) ==
  /\ program[p] = "connect"
  /\ \/ Goes(p, "migrate") /\ StartMigrate(p) /\ NoFault
     \/ UNCHANGED <<program, migrationVars>> /\ Fault("connect")
  /\ UNCHANGED clusterVars

(* The process ends: what it held in the database and in memory is gone.   *)
Ends(p) ==
  /\ Goes(p, "down")
  /\ EndMigrate(p)
  /\ ForgetClusters(p)
  /\ UNCHANGED authVars

Migrates(p) ==
  /\ program[p] = "migrate"
  /\ MigrateStep(p)
  /\ UNCHANGED <<program, clusterVars>>

MigrationFails(p) ==
  /\ program[p] = "migrate"
  /\ mig[p].pc = "failed"
  /\ Ends(p)
  /\ NoFault

(* Mutant of MigrationDone: main does not look at the error of Migrate.    *)
MigrationDoneOrNot(p) ==
  /\ program[p] = "migrate"
  /\ mig[p].pc \in {"migrated", "failed"}
  /\ Goes(p, IF p \in MigrateOnly THEN "exited" ELSE "token")
  /\ UNCHANGED <<migrationVars, clusterVars>>
  /\ NoFault

MigrationDone(p) ==
  /\ program[p] = "migrate"
  /\ mig[p].pc = "migrated"
  /\ Goes(p, IF p \in MigrateOnly THEN "exited" ELSE "token")
  /\ UNCHANGED <<migrationVars, clusterVars>>
  /\ NoFault

(* NewAuthService fetches the token of the service account.                *)
GetOAuthToken(p) ==
  /\ program[p] = "token"
  /\ \/ Goes(p, "keys") /\ UNCHANGED <<migrationVars, clusterVars>> /\ NoFault
     \/ Ends(p) /\ Fault("auth")

(* GetPublicKeys; then the cluster service starts with a refresh.          *)
GetPublicKeys(p) ==
  /\ program[p] = "keys"
  /\ \/ /\ Goes(p, "clusters")
        /\ BeginRefresh(p)
        /\ UNCHANGED <<migrationVars, authVars, cached, writer, look>>
        /\ NoFault
     \/ Ends(p) /\ Fault("auth")

(* The first refresh is made by Start, the others by its goroutine.        *)
Refreshes(p) ==
  /\ program[p] \in {"clusters", "serving"}
  /\ RefreshStep(p)
  /\ UNCHANGED <<program, migrationVars, authVars>>

ClustersFail(p) ==
  /\ program[p] = "clusters"
  /\ refresh[p].pc = "failed"
  /\ Ends(p)
  /\ NoFault

ClustersLoaded(p) ==
  /\ program[p] = "clusters"
  /\ refresh[p].pc = "loaded"
  /\ Goes(p, "serving")
  /\ UNCHANGED <<migrationVars, clusterVars>>
  /\ NoFault

(* Mutant of Tick: the goroutine returns when a refresh fails.             *)
TickUntilError(p) ==
  /\ program[p] = "serving"
  /\ refresh[p].pc = "loaded"
  /\ BeginRefresh(p)
  /\ UNCHANGED <<program, migrationVars, authVars, cached, writer, look>>
  /\ NoFault

(* The error of a later refresh is logged, and the ticker goes on.         *)
Tick(p) ==
  /\ program[p] = "serving"
  /\ refresh[p].pc \in {"loaded", "failed"}
  /\ BeginRefresh(p)
  /\ UNCHANGED <<program, migrationVars, authVars, cached, writer, look>>
  /\ NoFault

AsksForCluster(p) ==
  /\ program[p] = "serving"
  /\ \E l \in Lookups : GetUser(p, l)
  /\ UNCHANGED <<program, migrationVars, authVars>>

LooksUp(p, l) ==
  /\ program[p] = "serving"
  /\ LookStep(p, l)
  /\ UNCHANGED <<program, migrationVars, authVars>>

Crash(p) ==
  /\ program[p] \notin {"down", "exited"}
  /\ Ends(p)
  /\ Fault("crash")

AuthChanges ==
  /\ \/ \E c \in Clusters : RotateToken(c)
     \/ \E list \in Lists : ChangeList(list)
  /\ UNCHANGED <<program, migrationVars>>
  /\ NoFault

-----------------------------------------------------------------------------
MainStep(p) ==
  \/ StartProgram(p) \/ Connect(p) \/ Migrates(p) \/ MigrationFails(p)
  \/ MigrationDone(p) \/ GetOAuthToken(p) \/ GetPublicKeys(p)
  \/ ClustersFail(p) \/ ClustersLoaded(p)

RefresherStep(p) == Refreshes(p) \/ Tick(p)

Next ==
  \/ \E p \in Pods :
       \/ MainStep(p) \/ RefresherStep(p) \/ AsksForCluster(p) \/ Crash(p)
       \/ \E l \in Lookups : LooksUp(p, l)
  \/ AuthChanges

Spec == Init /\ [][Next]_vars

(* Processes and goroutines go on, requests are answered one way or the    *)
(* other, and the platform starts a process that has ended.                *)
Fairness ==
  \A p \in Pods :
    /\ WF_vars(MainStep(p))
    /\ WF_vars(RefresherStep(p))
    /\ \A l \in Lookups : WF_vars(LooksUp(p, l))

FairSpec == Spec /\ Fairness

-----------------------------------------------------------------------------
(* The type invariant.                                                     *)
TypeOK ==
  /\ MigrationTypeOK
  /\ program \in [Pods -> ProgramPcs]
  /\ ClusterTypeOK

(* Migrate: whichever pods of whichever releases migrate at the same time, *)
(* fail or die, every version is applied once and none is skipped.         *)
AppliedInOrder == \A i \in DOMAIN version : version[i] = i - 1

(* Migrate: pods that migrate at the same time never make each other fail; *)
(* a migration fails only because of a fault.                              *)
FailsOnlyByFault ==
  Cardinality({p \in Pods : mig[p].pc \in {"rollback", "failed"}}) <= faults

(* main: a pod serves only if the database has every version of its        *)
(* release, whoever has applied it.                                        *)
SchemaBeforeService ==
  \A p \in Pods : program[p] \in Migrated => 0 .. Known(p) - 1 \subseteq Range(version)

(* refreshCache: the cache of a pod that serves is one whole answer of     *)
(* auth, cluster by cluster, with tokens that are no older than that       *)
(* answer; a refresh that fails leaves nothing behind.                     *)
SnapshotOfAuth ==
  \A p \in Pods : program[p] = "serving" =>
    LET entries == cached[p].entries  answer == cached[p].answer IN
      /\ answer.list \in Lists
      /\ Len(entries) = Len(answer.list)
      /\ \A i \in DOMAIN entries :
           /\ entries[i].cluster = answer.list[i]
           /\ entries[i].token >= answer.token[answer.list[i]]

(* main and refreshCache: through however many failed attempts every       *)
(* process gets to the end of its start and stays there; once auth no      *)
(* longer changes, every cache has its list and its tokens in the end.     *)
IsCurrent(p) ==
  /\ Len(cached[p].entries) = Len(auth.list)
  /\ \A i \in DOMAIN auth.list :
       cached[p].entries[i] = [cluster |-> auth.list[i], token |-> auth.token[auth.list[i]]]

EndsWell(p) == IF p \in MigrateOnly THEN program[p] = "exited"
                                    ELSE program[p] = "serving" /\ IsCurrent(p)

EveryPodServes == \A p \in Pods : <>[]EndsWell(p)

(* GetClusters and refreshCache: a look-up that waits for the lock gets    *)
(* its answer, however often the list is refreshed, unless its pod dies.   *)
LookupAnswered ==
  \A p \in Pods, l \in Lookups :
    look[p][l].pc \in {"ask", "waiting"} ~> look[p][l].pc \in {"done", "idle"}

-----------------------------------------------------------------------------
(* What the start of the program promises about the database.              *)
Upgrade == INSTANCE SchemaUpgrade WITH
  version <- Len(version),
  ready <- {p \in Pods : mig[p].pc = "migrated"}

UpgradeSpec == Upgrade!Spec

(* What the cluster service promises to those that look clusters up.       *)
Service == INSTANCE ClusterLists WITH
  list <- [p \in Pods |-> cached[p].entries],
  found <- [p \in Pods |-> [l \in Lookups |->
              IF look[p][l].pc = "done" THEN {look[p][l].found} ELSE {}]],
  target <- [p \in Pods |-> [l \in Lookups |-> look[p][l].target]]

ServiceSpec == Service!Spec
=============================================================================
