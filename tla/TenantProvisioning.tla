------------------------- MODULE TenantProvisioning -------------------------
(***************************************************************************)
(* The requests that create, clean, remove and update the namespaces of    *)
(* one tenant: the handlers of controller/tenant.go and tenants.go, the    *)
(* actions and the self-healing of openshift/action.go, and the goroutine  *)
(* of every environment type of openshift/service.go. They work on the     *)
(* tables tenants and namespaces and on the projects of the cluster; no    *)
(* transaction spans two of these.                                         *)
(*                                                                         *)
(* All tenants share one OpenShift user name, so that the n-th base name   *)
(* is that name followed by n; 0 is a name that is not compliant, of an    *)
(* old tenant. The objects inside a project are not told apart.            *)
(***************************************************************************)
EXTENDS Naturals, FiniteSets, EnvironmentTypes

CONSTANTS
  Tenants,
  Requests,
  TenantOf,      \* [Requests -> Tenants]
  KindOf,        \* [Requests -> Kinds]
  Overlap,       \* the pairs {q, r} of requests that may be in progress at one time
  MaxNumber,     \* bound on the numbers that end base names
  InitialBase,   \* [Tenants -> base names or NoName]: tenants there at the start
  InitialTypes,  \* the types such a tenant has a namespace of
  LegacyTypes,   \* types no longer supported; such a tenant has a row of each
  Outsiders,     \* base names of projects somebody else has on the cluster
  NoTenant,      \* owner of such a project
  NoRequest,     \* creator of the rows that are there at the start
  NoName,        \* a tenant that is not in the table tenants
  NoRow,         \* no namespace entity
  Faults,        \* the kinds of faults that may happen
  MaxFaults      \* bound on the number of faults of one behaviour

Kinds == {"setup", "clean", "remove", "delete", "update"}

FaultKinds ==
  {"os",          \* the cluster refuses a request
   "template",    \* the templates cannot be retrieved or processed
   "save",        \* SaveNamespace or DeleteNamespace fails, which is only logged
   "query",       \* another statement or the cluster service fails
   "begin",       \* the transaction of CreateNamespace does not begin
   "crash"}       \* the process dies

Numbers == 0 .. MaxNumber

ASSUME ConstantsAssumption ==
  /\ TenantOf \in [Requests -> Tenants]
  /\ KindOf \in [Requests -> Kinds]
  /\ MaxNumber \in Nat \ {0}
  /\ NoName \notin Numbers
  /\ InitialBase \in [Tenants -> Numbers \cup {NoName}]
  /\ InitialTypes \subseteq EnvTypes /\ LegacyTypes \cap EnvTypes = {}
  /\ Outsiders \subseteq Numbers
  /\ NoTenant \notin Tenants /\ NoRequest \notin Requests
  /\ Faults \subseteq FaultKinds /\ MaxFaults \in Nat

VARIABLES
  tenants,       \* table tenants: the base name of each tenant, or NoName
  rows,          \* table namespaces: a set of rows
  projects,      \* the projects of the cluster by type and number of the base name
  req,           \* the requests
  routine,       \* the goroutine of each request and type
  faults         \* faults that may still happen

vars == <<tenants, rows, projects, req, routine, faults>>

-----------------------------------------------------------------------------
States == {"provisioning", "ready", "failed"}

(* The primary key of a row is who created it, in which stage, for which   *)
(* tenant and type; its name is given by its base name and type.           *)
Row == [by : Requests \cup {NoRequest}, stage : {"create", "recreate"},
        tenant : Tenants, type : EnvTypes \cup LegacyTypes, base : Numbers, state : States]

ASSUME NoRowAssumption == NoRow \notin Row

Absent == [owner |-> NoTenant, phase |-> "absent"]
Project == [owner : Tenants \cup {NoTenant}, phase : {"absent", "active", "terminating"}]

(* What a request is doing: the call of the action it was made for, the    *)
(* repetition of a delete or an update that heals it, and the deletion,    *)
(* its repetition and the creation that heal a creation.                   *)
Stages == {"none", "create", "delete", "update", "redelete", "reupdate",
           "healDelete", "healRedelete", "recreate"}
Creating(stage) == stage \in {"create", "recreate"}
Deleting(stage) == stage \in {"delete", "redelete", "healDelete", "healRedelete"}
Updating(stage) == stage \in {"update", "reupdate"}

Pcs == {"idle", "exists", "name", "insert", "namespaces", "tenant", "missing", "newName",
        "saveName", "cluster", "apply", "heal", "check", "verify", "done", "crashed"}

(* base: nsBaseName of the tenant entity and the service context; existing:*)
(* the rows read last; types: the types worked on; errs: the number of     *)
(* errors in errorChan.                                                    *)
Request == [pc : Pcs, stage : Stages, base : Numbers, existing : SUBSET Row,
            types : SUBSET EnvTypes, errs : Nat,
            reply : {"none", "accepted", "conflict", "noContent", "error"}]

(* row: the namespace entity; second: whether there is another operation   *)
(* set after the first.                                                    *)
Routine == [pc : {"none", "entity", "sets", "project", "post", "objects", "second",
                  "callback", "save", "end"},
            row : Row \cup {NoRow}, failed : BOOLEAN, second : BOOLEAN]

IdleRequest == [pc |-> "idle", stage |-> "none", base |-> 0, existing |-> {}, types |-> {},
                errs |-> 0, reply |-> "none"]
IdleRoutine == [pc |-> "none", row |-> NoRow, failed |-> FALSE, second |-> FALSE]

InitialRows ==
  UNION {{[by |-> NoRequest, stage |-> "create", tenant |-> t, type |-> ty,
           base |-> InitialBase[t], state |-> "ready"] :
          ty \in LegacyTypes \cup (IF InitialBase[t] = 0 THEN {} ELSE InitialTypes)} :
         t \in {u \in Tenants : InitialBase[u] # NoName}}

Init ==
  /\ tenants = InitialBase
  /\ rows = InitialRows
  /\ projects = [ty \in EnvTypes |-> [n \in Numbers |->
       IF n \in Outsiders THEN [owner |-> NoTenant, phase |-> "active"]
       ELSE IF n > 0 /\ ty \in InitialTypes /\ \E t \in Tenants : InitialBase[t] = n
         THEN [owner |-> CHOOSE t \in Tenants : InitialBase[t] = n, phase |-> "active"]
       ELSE Absent]]
  /\ req = [r \in Requests |-> IdleRequest]
  /\ routine = [r \in Requests |-> [ty \in EnvTypes |-> IdleRoutine]]
  /\ faults = MaxFaults

-----------------------------------------------------------------------------
(* Helpers *)

Fault(kind) == /\ kind \in Faults
               /\ faults > 0
               /\ faults' = faults - 1

NoFault == UNCHANGED faults

At(r, pc) == req[r].pc = pc

RequestIs(r, q) == req' = [req EXCEPT ![r] = q]

Goto(r, pc) == RequestIs(r, [req[r] EXCEPT !.pc = pc])

Reply(r, answer) == RequestIs(r, [req[r] EXCEPT !.pc = "done", !.reply = answer])

RowsOf(t) == {x \in rows : x.tenant = t}

SameKey(x, y) ==
  x.by = y.by /\ x.stage = y.stage /\ x.tenant = y.tenant /\ x.type = y.type

(* gorm's Save updates the row with the same primary key and, when there   *)
(* is none, inserts it (again).                                            *)
Saved(x) == {y \in rows : ~SameKey(x, y)} \cup {x}

Deleted(x) == {y \in rows : ~SameKey(x, y)}

(* ConstructNsBaseName: the first name neither a tenant nor a namespace of *)
(* a default type has. Its queries are not told apart.                     *)
Taken(n) == \/ \E t \in Tenants : tenants[t] = n
            \/ \E x \in rows : x.base = n /\ x.type \in EnvTypes

(* Mutant: the tenants are not looked at. *)
FirstNamespaceName(n) ==
  /\ n \in Numbers \ {0}
  /\ \A x \in rows : x.type \in EnvTypes => x.base # n
  /\ \A i \in 1 .. (n - 1) : \E x \in rows : x.base = i /\ x.type \in EnvTypes

ConstructNsBaseName(n) == /\ n \in Numbers \ {0}
                          /\ ~Taken(n)
                          /\ \A i \in 1 .. (n - 1) : Taken(i)

(* Mutant: a slot for one error of every type. *)
OneErrorPerType(types) == Cardinality(types)

Capacity(types) == 2 * Cardinality(types)

(* processAndApplyAll: a goroutine for every type. *)
Start(r, stage, types, q) ==
  /\ RequestIs(r, [q EXCEPT !.pc = "apply", !.stage = stage, !.types = types, !.errs = 0])
  /\ routine' = [routine EXCEPT ![r] = [ty \in EnvTypes |->
                   IF ty \in types THEN [IdleRoutine EXCEPT !.pc = "entity"] ELSE IdleRoutine]]

-----------------------------------------------------------------------------
(* The handlers, up to the call of the action *)

(* In which order the handlers read the tenant and its namespaces: what    *)
(* comes first, after the namespaces, and after the tenant.                *)
FirstRead(kind) == CASE kind = "setup" -> "exists"
                     [] kind \in {"clean", "remove"} -> "namespaces"
                     [] OTHER -> "tenant"

AfterNamespaces(kind) == IF kind \in {"delete", "update"} THEN "cluster" ELSE "tenant"

AfterTenant(kind) == CASE kind = "setup" -> "missing"
                       [] kind \in {"clean", "remove"} -> "cluster"
                       [] OTHER -> "namespaces"

(* A request begins; which others may be in progress is up to Overlap.     *)
Begin(r) ==
  /\ At(r, "idle")
  /\ \A q \in Requests \ {r} : {q, r} \in Overlap \/ req[q].pc \in {"idle", "done", "crashed"}
  /\ Goto(r, FirstRead(KindOf[r]))
  /\ NoFault
  /\ UNCHANGED <<tenants, rows, projects, routine>>

(* Setup: Exists, which takes an error of the database for a no. *)
CheckExists(r) ==
  /\ At(r, "exists")
  /\ \/ Goto(r, IF tenants[TenantOf[r]] # NoName THEN "namespaces" ELSE "name") /\ NoFault
     \/ Goto(r, "name") /\ Fault("query")
  /\ UNCHANGED <<tenants, rows, projects, routine>>

(* A base name for a new tenant, for one whose name is not compliant, or   *)
(* for one whose creation is being healed.                                 *)
ChooseName(r) ==
  /\ req[r].pc \in {"name", "newName"}
  /\ \/ /\ \E n \in Numbers :
             /\ ConstructNsBaseName(n)
             /\ RequestIs(r, [req[r] EXCEPT !.base = n,
                                !.pc = IF @ = "name" THEN "insert" ELSE "saveName"])
        /\ NoFault
     \/ Reply(r, "error") /\ Fault("query")
  /\ UNCHANGED <<tenants, rows, projects, routine>>

(* CreateTenant; the primary key of tenants is the ID of the user. *)
InsertTenant(r) ==
  /\ At(r, "insert")
  /\ \/ /\ tenants[TenantOf[r]] = NoName
        /\ tenants' = [tenants EXCEPT ![TenantOf[r]] = req[r].base]
        /\ RequestIs(r, [req[r] EXCEPT !.pc = "missing", !.existing = {}])
        /\ NoFault
     \/ tenants[TenantOf[r]] # NoName /\ Reply(r, "conflict") /\ NoFault /\ UNCHANGED tenants
     \/ Reply(r, "error") /\ Fault("query") /\ UNCHANGED tenants
  /\ UNCHANGED <<rows, projects, routine>>

ReadNamespaces(r) ==
  /\ At(r, "namespaces")
  /\ \/ /\ RequestIs(r, [req[r] EXCEPT !.existing = RowsOf(TenantOf[r]),
                           !.pc = AfterNamespaces(KindOf[r])])
        /\ NoFault
     \/ Reply(r, "error") /\ Fault("query")
  /\ UNCHANGED <<tenants, rows, projects, routine>>

ReadTenant(r) ==
  /\ At(r, "tenant")
  /\ \/ /\ tenants[TenantOf[r]] # NoName
        /\ RequestIs(r, [req[r] EXCEPT !.base = tenants[TenantOf[r]],
                           !.pc = AfterTenant(KindOf[r])])
        /\ NoFault
     \/ tenants[TenantOf[r]] = NoName /\ Reply(r, "error") /\ NoFault
     \/ Reply(r, "error") /\ Fault("query")
  /\ UNCHANGED <<tenants, rows, projects, routine>>

(* filterMissingAndExisting: a type is missing when it has no row. *)
Missing(existing) == EnvTypes \ {x.type : x \in existing}

CheckMissing(r) ==
  /\ At(r, "missing")
  /\ LET missing == Missing(req[r].existing)
     IN  IF missing = {} THEN Reply(r, "conflict")
         ELSE RequestIs(r, [req[r] EXCEPT !.types = missing,
                              !.pc = IF missing = EnvTypes /\ req[r].base = 0   \* isNotCompliant
                                       THEN "newName" ELSE "cluster"])
  /\ NoFault
  /\ UNCHANGED <<tenants, rows, projects, routine>>

(* The cluster is looked up and the action called. *)
CallAction(r) ==
  /\ At(r, "cluster")
  /\ \/ /\ CASE KindOf[r] = "setup" -> Start(r, "create", req[r].types, req[r])
             [] KindOf[r] = "update" -> Start(r, "update", EnvTypes, req[r])
             [] OTHER -> Start(r, "delete", EnvTypes, req[r])
        /\ NoFault
     \/ Reply(r, "error") /\ Fault("query") /\ UNCHANGED routine
  /\ UNCHANGED <<tenants, rows, projects>>

-----------------------------------------------------------------------------
(* processAndApplyNs, the goroutine of one type *)

In(r, ty, pc) == At(r, "apply") /\ routine[r][ty].pc = pc

RoutineIs(r, ty, g) == routine' = [routine EXCEPT ![r][ty] = g]

RoutineGoto(r, ty, pc) == RoutineIs(r, ty, [routine[r][ty] EXCEPT !.pc = pc])

(* Mutant: the error is not sent. *)
ErrorDropped(r) == UNCHANGED req

(* errorChan <- err blocks when the channel is full. *)
Send(r) == /\ req[r].errs < Capacity(req[r].types)
           /\ RequestIs(r, [req[r] EXCEPT !.errs = @ + 1])

NoError == UNCHANGED req

(* Only the user namespace has a callback, after a creation. *)
AfterSets(r, ty) == IF Creating(req[r].stage) /\ ty = "user" THEN "callback" ELSE "save"

(* An error ends an operation set, but not the one after it. *)
NextSet(r, ty, ok) ==
  /\ LET g == routine[r][ty]
         more == g.pc # "second" /\ g.second
     IN  RoutineIs(r, ty, [g EXCEPT !.failed = @ \/ ~ok,
                                    !.pc = IF more THEN "second" ELSE AfterSets(r, ty)])
  /\ IF ok THEN NoError ELSE Send(r)

(* Mutant: the entity has no state. *)
NewRowWithoutState(r, ty) == [by |-> r, stage |-> req[r].stage, tenant |-> TenantOf[r],
                              type |-> ty, base |-> req[r].base, state |-> ""]

(* CreateAction.GetNamespaceEntity: a namespace is created unless there is *)
(* one of this name; then, and when the transaction did not begin, nothing *)
(* more is done for the type.                                              *)
NewRow(r, ty) == [by |-> r, stage |-> req[r].stage, tenant |-> TenantOf[r], type |-> ty,
                  base |-> req[r].base, state |-> "provisioning"]

IsDuplicate(r, ty) ==
  \E x \in RowsOf(TenantOf[r]) : x.type = ty /\ x.base = req[r].base

(* Mutant: duplicates are not looked for. *)
CreateAlways(r, ty) ==
  /\ In(r, ty, "entity") /\ Creating(req[r].stage)
  /\ rows' = rows \cup {NewRow(r, ty)}
  /\ RoutineIs(r, ty, [routine[r][ty] EXCEPT !.pc = "sets", !.row = NewRow(r, ty)])
  /\ NoFault /\ NoError
  /\ UNCHANGED <<tenants, projects>>

CreateNamespace(r, ty) ==
  /\ In(r, ty, "entity") /\ Creating(req[r].stage)
  /\ \/ /\ ~IsDuplicate(r, ty)
        /\ rows' = rows \cup {NewRow(r, ty)}
        /\ RoutineIs(r, ty, [routine[r][ty] EXCEPT !.pc = "sets", !.row = NewRow(r, ty)])
        /\ NoFault /\ NoError
     \/ /\ (IsDuplicate(r, ty) /\ NoFault) \/ Fault("begin")
        /\ RoutineGoto(r, ty, "end") /\ NoError /\ UNCHANGED rows
     \/ /\ Fault("query")
        /\ RoutineGoto(r, ty, "end") /\ Send(r) /\ UNCHANGED rows
  /\ UNCHANGED <<tenants, projects>>

(* getNamespaceFor: the first row of the type among those read before. *)
GetExistingNamespace(r, ty) ==
  /\ In(r, ty, "entity") /\ ~Creating(req[r].stage)
  /\ LET found == {x \in req[r].existing : x.type = ty}
     IN  \/ \E x \in found :
              RoutineIs(r, ty, [routine[r][ty] EXCEPT !.pc = "sets", !.row = x])
         \/ found = {} /\ RoutineGoto(r, ty, "end")
  /\ NoFault /\ NoError
  /\ UNCHANGED <<tenants, rows, projects>>

(* GetOperationSets: the first set and whether there is another one: the   *)
(* removal of the edit rights from the che namespace when the user does    *)
(* not have them (toggles), or, when cleaning, ensuring the deletion.      *)
Cleans(r) == Deleting(req[r].stage) /\ KindOf[r] = "clean"
Removes(r) == Deleting(req[r].stage) /\ KindOf[r] # "clean"

GetOperationSets(r, ty) ==
  /\ In(r, ty, "sets")
  /\ \E second \in CASE Cleans(r) -> {TRUE}
                     [] Removes(r) \/ ty = "user" -> {FALSE}
                     [] OTHER -> BOOLEAN :
       RoutineIs(r, ty, [routine[r][ty] EXCEPT
         !.second = second,
         !.pc = IF Creating(req[r].stage) \/ Removes(r) THEN "project" ELSE "objects"])
  /\ NoFault /\ NoError
  /\ UNCHANGED <<tenants, rows, projects>>

(* A template that cannot be processed, or objects to clean that cannot be *)
(* listed, leave nothing to do. *)
OperationSetsFail(r, ty) ==
  /\ In(r, ty, "sets")
  /\ Fault("template") \/ (Cleans(r) /\ Fault("os"))
  /\ RoutineIs(r, ty, [routine[r][ty] EXCEPT !.failed = TRUE, !.pc = AfterSets(r, ty)])
  /\ Send(r)
  /\ UNCHANGED <<tenants, rows, projects>>

(* Templates that cannot be retrieved leave no environment data either;    *)
(* asking it for its version panics, which ends the process.               *)
Dies(r) ==
  /\ Goto(r, "crashed")
  /\ routine' = [routine EXCEPT ![r] = [ty \in EnvTypes |-> IdleRoutine]]
  /\ UNCHANGED <<tenants, rows, projects>>

TemplatesMissing(r, ty) ==
  /\ In(r, ty, "sets")
  /\ Fault("template")
  /\ Dies(r)

(* FailIfAlreadyExists: any answer but "there is no such project" counts   *)
(* as a project that exists.                                               *)
CheckProject(r, ty) ==
  /\ In(r, ty, "project") /\ Creating(req[r].stage)
  /\ \/ /\ projects[ty][req[r].base] = Absent
        /\ RoutineGoto(r, ty, "post") /\ NoFault /\ NoError
     \/ /\ (projects[ty][req[r].base] # Absent /\ NoFault) \/ Fault("os")
        /\ NextSet(r, ty, FALSE)
  /\ UNCHANGED <<tenants, rows, projects>>

(* POST of the project request, and GetObject that waits for the project;  *)
(* when that fails the project is there all the same.                      *)
ProjectsWith(ty, n, p) == projects' = [projects EXCEPT ![ty][n] = p]

PostProject(r, ty) ==
  /\ In(r, ty, "post")
  /\ LET n == req[r].base
         created == ProjectsWith(ty, n, [owner |-> TenantOf[r], phase |-> "active"])
     IN  \/ /\ projects[ty][n] = Absent /\ created
            /\ RoutineGoto(r, ty, "objects") /\ NoFault /\ NoError
         \/ /\ projects[ty][n] = Absent /\ created
            /\ Fault("os") /\ NextSet(r, ty, FALSE)
         \/ /\ (projects[ty][n] # Absent /\ NoFault) \/ Fault("os")
            /\ NextSet(r, ty, FALSE) /\ UNCHANGED projects
  /\ UNCHANGED <<tenants, rows>>

(* DELETE of a project, with the token of the cluster and by its name;     *)
(* that it does not exist or is being removed already is ignored.          *)
DeleteProject(r, ty) ==
  /\ In(r, ty, "project") /\ Deleting(req[r].stage)
  /\ LET n == req[r].base
         p == projects[ty][n]
     IN  \/ /\ ProjectsWith(ty, n, IF p = Absent THEN p ELSE [p EXCEPT !.phase = "terminating"])
            /\ NextSet(r, ty, TRUE) /\ NoFault
         \/ Fault("os") /\ NextSet(r, ty, FALSE) /\ UNCHANGED projects
  /\ UNCHANGED <<tenants, rows>>

(* The other objects of the first set, all POSTed, PATCHed or DELETEd; to  *)
(* create one takes an active project, to delete one takes nothing.        *)
ApplyObjects(r, ty) ==
  /\ In(r, ty, "objects")
  /\ LET fits == Deleting(req[r].stage) \/ projects[ty][req[r].base].phase = "active"
     IN  \/ fits /\ NextSet(r, ty, TRUE) /\ NoFault
         \/ ~fits /\ NextSet(r, ty, FALSE) /\ NoFault
         \/ Fault("os") /\ NextSet(r, ty, FALSE)
  /\ UNCHANGED <<tenants, rows, projects>>

ApplySecondSet(r, ty) ==
  /\ In(r, ty, "second")
  /\ \/ NextSet(r, ty, TRUE) /\ NoFault
     \/ Fault("os") /\ NextSet(r, ty, FALSE)
  /\ UNCHANGED <<tenants, rows, projects>>

(* AfterCallback of the user namespace: the admin role binding is removed. *)
AfterCallback(r, ty) ==
  /\ In(r, ty, "callback")
  /\ \/ /\ NoFault /\ NoError
        /\ RoutineGoto(r, ty, "save")
     \/ /\ Fault("os") /\ Send(r)
        /\ RoutineIs(r, ty, [routine[r][ty] EXCEPT !.pc = "save", !.failed = TRUE])
  /\ UNCHANGED <<tenants, rows, projects>>

(* Mutant: a failure is not recorded. *)
OutcomeAlwaysReady(r, ty) ==
  LET g == routine[r][ty]
  IN  IF Deleting(req[r].stage)
        THEN IF Removes(r) THEN Deleted(g.row) ELSE rows
        ELSE Saved([g.row EXCEPT !.state = "ready"])

(* UpdateNamespace of the three actions: the rows it leaves. *)
Outcome(r, ty) ==
  LET g == routine[r][ty]
  IN  IF g.failed THEN Saved([g.row EXCEPT !.state = "failed"])
      ELSE IF Removes(r) THEN Deleted(g.row)
      ELSE IF Cleans(r) THEN rows
      ELSE Saved([g.row EXCEPT !.state = "ready"])

UpdateNamespace(r, ty) ==
  /\ In(r, ty, "save")
  /\ \/ rows' = Outcome(r, ty) /\ NoFault
     \/ UNCHANGED rows /\ Fault("save")
  /\ RoutineGoto(r, ty, "end")
  /\ NoError
  /\ UNCHANGED <<tenants, projects>>

-----------------------------------------------------------------------------
(* ManageAndUpdateResults and the healing strategies *)

(* All goroutines are waited for. Errors start the self-healing, but not   *)
(* in what is done to heal.                                                *)
Join(r) ==
  /\ At(r, "apply")
  /\ \A ty \in EnvTypes : routine[r][ty].pc \in {"none", "end"}
  /\ IF req[r].errs = 0
       THEN IF Deleting(req[r].stage) THEN Goto(r, "check") ELSE Reply(r, "accepted")
       ELSE IF req[r].stage \in {"create", "delete", "update", "healDelete"} THEN Goto(r, "heal")
       ELSE Reply(r, "error")
  /\ routine' = [routine EXCEPT ![r] = [ty \in EnvTypes |-> IdleRoutine]]
  /\ NoFault
  /\ UNCHANGED <<tenants, rows, projects>>

(* A delete or an update is repeated with the rows there are now, and for  *)
(* every type; a creation first removes all that was created. An error     *)
(* while healing ends it.                                                  *)
Heal(r) ==
  /\ At(r, "heal")
  /\ LET stage == req[r].stage
         current == [req[r] EXCEPT !.existing = RowsOf(TenantOf[r])]
     IN  \/ /\ stage = "create" => tenants[TenantOf[r]] # NoName
            /\ Start(r, CASE stage = "create" -> "healDelete"
                          [] stage = "healDelete" -> "healRedelete"
                          [] stage = "delete" -> "redelete"
                          [] stage = "update" -> "reupdate", EnvTypes, current)
            /\ NoFault
         \/ /\ (stage = "create" /\ tenants[TenantOf[r]] = NoName /\ NoFault) \/ Fault("query")
            /\ Reply(r, "error") /\ UNCHANGED routine
  /\ UNCHANGED <<tenants, rows, projects>>

(* DeleteAction.ManageAndUpdateResults after a deletion without errors.    *)
(* When namespaces are removed, the rows of other types go too, and then   *)
(* the tenant; when the tenant is kept, no row may have been left. After a *)
(* repeated deletion the same is done again for the first one.             *)
KeepTenant(r) == KindOf[r] = "setup"

AfterCheck(r) ==
  CASE req[r].stage = "redelete" -> RequestIs(r, [req[r] EXCEPT !.stage = "delete"])
    [] req[r].stage = "healRedelete" -> RequestIs(r, [req[r] EXCEPT !.stage = "healDelete"])
    [] req[r].stage = "healDelete" -> Goto(r, "newName")
    [] OTHER -> IF KindOf[r] = "delete" THEN Goto(r, "verify") ELSE Reply(r, "noContent")

(* Mutant: what is left is not looked at when the tenant is kept. *)
KeptCheckSkipped(r, left) == KeepTenant(r) \/ left = {}

(* Mutant: what is left is not looked at when the tenant is removed. *)
TenantDeletedAnyway(r, left) == KeepTenant(r) => RowsOf(TenantOf[r]) = {}

NothingLeft(r, left) == IF KeepTenant(r) THEN RowsOf(TenantOf[r]) = {} ELSE left = {}

CheckResults(r) ==
  /\ At(r, "check") /\ Removes(r)
  /\ \E undeleted \in {{}, {x \in RowsOf(TenantOf[r]) : x.type \in LegacyTypes}} :
       LET others == {x \in RowsOf(TenantOf[r]) : x.type \in LegacyTypes}
           left == {x \in RowsOf(TenantOf[r]) : x.type \in EnvTypes} \cup undeleted
       IN  /\ rows' = rows \ (others \ undeleted)
           /\ IF undeleted # {} THEN Fault("save") ELSE NoFault
           /\ \/ /\ NothingLeft(r, left)
                 /\ tenants' = IF KeepTenant(r) THEN tenants
                               ELSE [tenants EXCEPT ![TenantOf[r]] = NoName]
                 /\ AfterCheck(r)
              \/ ~NothingLeft(r, left) /\ Reply(r, "error") /\ UNCHANGED tenants
  /\ UNCHANGED <<projects, routine>>

CheckCleaned(r) ==
  /\ At(r, "check") /\ Cleans(r)
  /\ AfterCheck(r) /\ NoFault
  /\ UNCHANGED <<tenants, rows, projects, routine>>

(* The namespaces cannot be read or, the rows of other types removed, the  *)
(* tenant not be deleted.                                                  *)
CheckFails(r) ==
  /\ At(r, "check")
  /\ Fault("query")
  /\ Reply(r, "error")
  /\ \/ UNCHANGED rows
     \/ /\ Removes(r) /\ ~KeepTenant(r)
        /\ rows' = {x \in rows : ~(x.tenant = TenantOf[r] /\ x.type \in LegacyTypes)}
  /\ UNCHANGED <<tenants, projects, routine>>

(* TenantsController.Delete looks whether the tenant is gone. *)
VerifyDeleted(r) ==
  /\ At(r, "verify")
  /\ \/ Reply(r, IF tenants[TenantOf[r]] = NoName THEN "noContent" ELSE "error") /\ NoFault
     \/ Reply(r, "noContent") /\ Fault("query")
  /\ UNCHANGED <<tenants, rows, projects, routine>>

(* SaveTenant with the new base name; a creation that is being healed is   *)
(* repeated under this name, for every type and without further healing.   *)
SaveName(r) ==
  /\ At(r, "saveName")
  /\ \/ /\ tenants' = [tenants EXCEPT ![TenantOf[r]] = req[r].base]
        /\ IF req[r].stage = "none" THEN Goto(r, "cluster") /\ UNCHANGED routine
           ELSE Start(r, "recreate", EnvTypes, req[r])
        /\ NoFault
     \/ Reply(r, "error") /\ Fault("query") /\ UNCHANGED <<tenants, routine>>
  /\ UNCHANGED <<rows, projects>>

-----------------------------------------------------------------------------
(* The environment: a process dies; the cluster has removed a project. *)

Crash(r) ==
  /\ req[r].pc \notin {"idle", "done", "crashed"}
  /\ Fault("crash")
  /\ Dies(r)

ProjectRemoved(ty, n) ==
  /\ projects[ty][n].phase = "terminating"
  /\ ProjectsWith(ty, n, Absent)
  /\ NoFault
  /\ UNCHANGED <<tenants, rows, req, routine>>

HandlerStep(r) ==
  \/ CheckExists(r) \/ ChooseName(r) \/ InsertTenant(r) \/ ReadNamespaces(r) \/ ReadTenant(r)
  \/ CheckMissing(r) \/ CallAction(r) \/ Join(r) \/ Heal(r)
  \/ CheckResults(r) \/ CheckCleaned(r) \/ CheckFails(r) \/ VerifyDeleted(r) \/ SaveName(r)

RoutineStep(r, ty) ==
  \/ CreateNamespace(r, ty) \/ GetExistingNamespace(r, ty)
  \/ GetOperationSets(r, ty) \/ OperationSetsFail(r, ty) \/ TemplatesMissing(r, ty)
  \/ CheckProject(r, ty) \/ PostProject(r, ty) \/ DeleteProject(r, ty)
  \/ ApplyObjects(r, ty) \/ ApplySecondSet(r, ty) \/ AfterCallback(r, ty)
  \/ UpdateNamespace(r, ty)

Next ==
  \/ \E r \in Requests :
       \/ Begin(r) \/ HandlerStep(r) \/ Crash(r)
       \/ \E ty \in EnvTypes : RoutineStep(r, ty)
  \/ \E ty \in EnvTypes, n \in Numbers : ProjectRemoved(ty, n)

Spec == Init /\ [][Next]_vars

(* Every goroutine that can take a step eventually does. Nobody has to     *)
(* send a request and nothing has to fail.                                 *)
FairSpec ==
  /\ Spec
  /\ \A r \in Requests : /\ WF_vars(HandlerStep(r))
                         /\ \A ty \in EnvTypes : WF_vars(RoutineStep(r, ty))

-----------------------------------------------------------------------------
(* Properties *)

(* The values of the variables.                                            *)
TypeOK ==
  /\ tenants \in [Tenants -> Numbers \cup {NoName}]
  /\ rows \subseteq Row
  /\ projects \in [EnvTypes -> [Numbers -> Project]]
  /\ req \in [Requests -> Request]
  /\ routine \in [Requests -> [EnvTypes -> Routine]]
  /\ faults \in Nat

(* A row belongs to a tenant that exists and carries its present base name *)
(* (DeleteProject goes by the base name of the tenant, not by the name in  *)
(* the row): healing renames a tenant only when no row is left, and a      *)
(* tenant goes after its rows, whatever failed or died in between.         *)
RowsFollowBaseName ==
  \A x \in rows : tenants[x.tenant] = x.base

(* A tenant has at most one row of each type.                              *)
OneRowPerType ==
  \A x, y \in rows : x.tenant = y.tenant /\ x.type = y.type => x = y

(* A project a tenant has on the cluster can be found, and so updated and  *)
(* removed, by a row of the tenant; in particular nothing stays behind     *)
(* when the tenant is removed or renamed.                                  *)
NothingLeftBehind ==
  \A ty \in EnvTypes, n \in Numbers :
    LET p == projects[ty][n]
    IN  p.phase = "active" /\ p.owner # NoTenant =>
          \E x \in RowsOf(p.owner) : x.type = ty /\ x.base = n

(* A row that is ready has its project, unless a request for the tenant is *)
(* being served.                                                           *)
InProgress(t) ==
  \E r \in Requests : TenantOf[r] = t /\ req[r].pc \notin {"idle", "done", "crashed"}

ReadyHasProject ==
  \A x \in rows :
    x.state = "ready" /\ x.type \in EnvTypes /\ ~InProgress(x.tenant) =>
      projects[x.type][x.base] = [owner |-> x.tenant, phase |-> "active"]

(* No request removes the project of another tenant, although a deletion   *)
(* goes by name and with the token of the cluster.                         *)
OthersUntouched ==
  [][\A ty \in EnvTypes, n \in Numbers :
       LET p == projects[ty][n]
       IN  p.phase = "active" /\ p.owner # NoTenant /\ projects'[ty][n] # p =>
             \A r \in Requests :
               req'[r] # req[r] \/ routine'[r] # routine[r] => TenantOf[r] = p.owner]_vars

(* Setup answers "accepted" when the namespaces it created, or created     *)
(* anew, are ready.                                                        *)
AcceptedIsReady ==
  [][\A r \in Requests :
       KindOf[r] = "setup" /\ req'[r].reply = "accepted" /\ req[r].reply # "accepted" =>
         \A ty \in req[r].types :
           \E x \in RowsOf(TenantOf[r]) : x.type = ty /\ x.state = "ready"]_vars

(* Setup answers "conflict" when all default namespaces of the tenant are  *)
(* created.                                                                *)
ConflictIsProvisioned ==
  [][\A r \in Requests :
       req'[r].reply = "conflict" /\ req[r].reply # "conflict" =>
         \A ty \in EnvTypes, n \in Numbers :
           tenants[TenantOf[r]] = n => projects[ty][n].owner = TenantOf[r]]_vars

(* Requests to set up the same tenant at the same time neither create its  *)
(* namespaces twice nor make each other fail and heal, which would remove  *)
(* what the other one created.                                             *)
SetupsDoNotDisturb ==
  /\ OneRowPerType
  /\ \A r \in Requests : req[r].stage \in {"none", "create"} /\ req[r].reply # "error"

(* A tenant that is deleted has neither rows nor projects.                 *)
DeletedIsGone ==
  \A r \in Requests :
    KindOf[r] = "delete" /\ req[r].reply = "noContent" =>
      /\ RowsOf(TenantOf[r]) = {}
      /\ \A ty \in EnvTypes, n \in Numbers :
           projects[ty][n].phase = "active" => projects[ty][n].owner # TenantOf[r]

(* Every request is answered: no goroutine waits for a slot in errorChan,  *)
(* and healing does not go on for ever.                                    *)
Answered ==
  \A r \in Requests : ~At(r, "idle") ~> req[r].pc \in {"done", "crashed"}
=============================================================================
