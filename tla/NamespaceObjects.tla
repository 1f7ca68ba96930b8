-------------------------- MODULE NamespaceObjects --------------------------
(***************************************************************************)
(* What the goroutine of an environment type does to the objects of its    *)
(* namespace (processAndApplyNs of openshift/service.go): which objects    *)
(* the templates and the toggles ask for, in which operation sets and in   *)
(* which order they are applied, and what becomes of the row. Creations,   *)
(* updates and cleanings of one namespace follow one another or overlap,   *)
(* as nothing but the row of the namespace keeps them apart.               *)
(*                                                                         *)
(* A removal is a single DELETE and is left to TenantProvisioning, the     *)
(* requests and callbacks of one object to ObjectEndpoints: here an object *)
(* takes a step for each change it may undergo. An answer 403 to a list or *)
(* a deletion is a fault of its own, as the code does not take it for an   *)
(* error; a GET of what is to be patched is not answered so while the      *)
(* object is there: a token that may write it may read it.                 *)
(***************************************************************************)
EXTENDS Naturals, Sequences, EnvironmentTypes

CONSTANTS
  Workers,
  NoObject,
  Faults,        \* the kinds of faults that may happen
  MaxFaults      \* bound on their number

FaultKinds ==
  {"os",        \* a request is refused, or its answer is lost
   "forbidden", \* a list or a deletion of what is there is answered 403 or 404
   "template",  \* a template cannot be retrieved or processed
   "save",      \* the row is not saved, which is only logged
   "crash"}     \* the process dies

ASSUME ConstantsAssumption == Faults \subseteq FaultKinds /\ MaxFaults \in Nat

VARIABLES
  type,           \* the environment type of the namespace
  disableQuotas,  \* DISABLE_OSO_QUOTAS of the pods
  objs,           \* the objects of the namespace, with the project, in the cluster
  row,            \* the row of the namespace
  worker,         \* the goroutines
  faults          \* faults that may still happen

env == <<type, disableQuotas>>
vars == <<env, objs, row, worker, faults>>

-----------------------------------------------------------------------------
(* One object for each part a kind plays in what follows: quota stands for *)
(* all that the quota template has, admin is the role binding that the     *)
(* cluster adds to the project of a user, deployment, pod and replacement  *)
(* (a pod, too) are what the user runs.                                    *)
SortOrder == [project |-> 1, role |-> 2, quota |-> 5, account |-> 7, binding |-> 9, edit |-> 9,
              admin |-> 9, pod |-> 9, replacement |-> 9, claim |-> 10, deployment |-> 12]

Objects == DOMAIN SortOrder

MainTemplate == [che |-> {"project", "role", "account", "binding", "claim"},
                 user |-> {"project", "binding"}]
QuotasTemplate == [che |-> {"quota"}, user |-> {}]

(* getObjects: the objects of all templates but the skipped ones.          *)
Templates == MainTemplate[type] \cup IF disableQuotas THEN {} ELSE QuotasTemplate[type]

(* The names of pods; a deployment has one pod at a time.                  *)
Pods == {"pod", "replacement"}

AllToGetAndDelete == Pods \cup {"claim", "deployment"}

(* The kinds in the order in which they are listed.                        *)
OfKind == [pod |-> Pods, deployment |-> {"deployment"}, claim |-> {"claim"}]
NextKind == [pod |-> "deployment", deployment |-> "claim", claim |-> NoObject]

(* What the cluster and its admission rules need before an object works.   *)
Needs(o) ==
  Templates \cap (CASE o = "project" -> {}
                    [] o = "binding" -> {"project", "role", "account"}
                    [] o = "claim"   -> {"project", "quota"}
                    [] OTHER         -> {"project"})

(* stale is an object of templates of an earlier version. Deletions ask    *)
(* for no grace period; a claim is kept as long as it is used.             *)
Phases == {"absent", "stale", "good", "terminating"}

AfterDeletion(o) == IF o = "claim" THEN {"absent", "terminating"} ELSE {"absent"}

Ops == {"create",      \* CreateAction
        "update",      \* UpdateAction of a request of the user
        "autoUpdate",  \* UpdateAction of the cluster-wide update, without a context
        "clean"}       \* DeleteAction that does not remove the namespace

Method(op) == CASE op = "create" -> "POST" [] op = "clean" -> "DELETE" [] OTHER -> "PATCH"

OperationSet == [method : {"POST", "PATCH", "DELETE", "ENSURE_DELETION"}, todo : SUBSET Objects]

(* sets: the operation sets with what is left of them; object: the one     *)
(* being applied, or the kind being listed; grant: whether the edit rights *)
(* are given, if decided. History: alone, nobody else has been busy at the *)
(* same time; found, the objects there were when their kind was to be      *)
(* listed; denied, those of which a list or a deletion was answered 403 or *)
(* 404 although they were there.                                           *)
Worker ==
  [pc : {"idle", "sets", "list", "POST", "PATCH", "DELETE", "ENSURE_DELETION",
         "write", "conflict", "redo", "callback", "save", "done", "dead"},
   op : Ops, sets : Seq(OperationSet), object : Objects \cup {NoObject}, failed : BOOLEAN,
   grant : {"yes", "no", "undecided"}, alone : BOOLEAN,
   found : SUBSET Objects, denied : SUBSET Objects]

Idle == [pc |-> "idle", op |-> "create", sets |-> <<>>, object |-> NoObject, failed |-> FALSE,
         grant |-> "undecided", alone |-> TRUE, found |-> {}, denied |-> {}]

Busy(w) == worker[w].pc \notin {"idle", "done", "dead"}

(* A namespace that does not exist yet, or one of an earlier version.      *)
Init ==
  /\ type \in EnvTypes
  /\ disableQuotas \in BOOLEAN
  /\ \/ /\ objs = [o \in Objects |-> "absent"]
        /\ row = [state |-> "none", version |-> "none"]
     \/ /\ \E more \in SUBSET (IF type = "che" THEN {"edit", "deployment"} ELSE {}) :
             objs = [o \in Objects |->
                       CASE o \in Templates -> "stale" [] o \in more -> "good" [] OTHER -> "absent"]
        /\ row = [state |-> "ready", version |-> "old"]
  /\ worker = [w \in Workers |-> Idle]
  /\ faults = MaxFaults

-----------------------------------------------------------------------------
Fault(kind) == /\ kind \in Faults
               /\ faults > 0
               /\ faults' = faults - 1

NoFault == UNCHANGED faults

At(w, pc) == worker[w].pc = pc

WorkerIs(w, x) == worker' = [worker EXCEPT ![w] = x]

There(o) == objs[o] \in {"stale", "good"}

ObjectIs(o, phase) == objs' = [objs EXCEPT ![o] = phase]

(* Mutant: the objects stay in the order of the templates. *)
Unsorted(op, todo) == todo

(* sort.Sort with ByKind: objects of one order come in any order; what is  *)
(* cleaned is sorted in reverse.                                           *)
NextObjects(op, todo) ==
  {o \in todo : \A p \in todo : IF op = "clean" THEN SortOrder[o] >= SortOrder[p]
                                ELSE SortOrder[o] <= SortOrder[p]}

(* The operation sets from the first one that has something left.          *)
Remaining(sets) ==
  LET more == {i \in DOMAIN sets : sets[i].todo # {}}
  IN  IF more = {} THEN <<>>
      ELSE SubSeq(sets, CHOOSE i \in more : \A j \in more : i <= j, Len(sets))

(* The ways to go on with operation sets: with an object to apply, or, when*)
(* there is none left, with the callback.                                  *)
Continue(x) ==
  LET sets == Remaining(x.sets)
  IN  IF sets = <<>> THEN {[x EXCEPT !.sets = sets, !.object = NoObject, !.pc = "callback"]}
      ELSE {[x EXCEPT !.sets = sets, !.object = o, !.pc = Head(sets).method] :
              o \in NextObjects(x.op, Head(sets).todo)}

Applied(x) == Continue([x EXCEPT !.sets[1].todo = @ \ {x.object}])

(* Mutant: the outcome of a set replaces that of the one before.           *)
OverwritesFailure(x) ==
  Continue([x EXCEPT !.failed = Len(x.sets) = 1, !.sets = Tail(@)])

(* An error ends its operation set, not the one that follows.              *)
Refused(x) == Continue([x EXCEPT !.failed = TRUE, !.sets = Tail(@)])

Ok(w) == \E x \in Applied(worker[w]) : WorkerIs(w, x)
Error(w) == \E x \in Refused(worker[w]) : WorkerIs(w, x)
Goto(w, pc) == WorkerIs(w, [worker[w] EXCEPT !.pc = pc])

(* A goroutine that is over, and what it knew with it. *)
Over(w, pc) == WorkerIs(w, [Idle EXCEPT !.pc = pc, !.alone = worker[w].alone])

Denied(w, o) == [worker[w] EXCEPT !.denied = @ \cup {o}]

-----------------------------------------------------------------------------
(* GetNamespaceEntity: a creation enters the row, everything else works on *)
(* one that exists.                                                        *)
Begin(w, op) ==
  LET others == {v \in Workers : Busy(v)}
  IN  /\ At(w, "idle")
      /\ (op = "create") <=> (row.state = "none")
      /\ row' = IF op = "create" THEN [state |-> "provisioning", version |-> "none"] ELSE row
      /\ worker' = [v \in Workers |->
           CASE v = w -> [Idle EXCEPT !.pc = "sets", !.op = op, !.alone = others = {}]
             [] v \in others -> [worker[v] EXCEPT !.alone = FALSE]
             [] OTHER -> worker[v]]
      /\ NoFault /\ UNCHANGED <<env, objs>>

(* AdditionalObject: in a che namespace the role binding user-edit is      *)
(* added when the toggle is on, and deleted in a set of its own when it is *)
(* off; without the context of a request it is left alone.                 *)
Grants(op) == IF type = "che" /\ op # "autoUpdate" THEN {"yes", "no"} ELSE {"undecided"}

SetsWith(op, objects, grant) ==
  CASE grant = "yes" -> <<[method |-> Method(op), todo |-> objects \cup {"edit"}]>>
    [] grant = "no"  -> <<[method |-> Method(op), todo |-> objects],
                          [method |-> "DELETE", todo |-> {"edit"}]>>
    [] OTHER         -> <<[method |-> Method(op), todo |-> objects]>>

(* getOperationSets of a creation or an update; only the former has the    *)
(* project among its objects.                                              *)
GetOperationSets(w) ==
  /\ At(w, "sets") /\ worker[w].op # "clean"
  /\ LET op == worker[w].op
         objects == IF op = "create" THEN Templates ELSE Templates \ {"project"}
     IN  \E grant \in Grants(op) :
           \E x \in Continue([worker[w] EXCEPT !.grant = grant,
                                               !.sets = SetsWith(op, objects, grant)]) :
             WorkerIs(w, x)
  /\ NoFault /\ UNCHANGED <<env, objs, row>>

(* DeleteAction.GetOperationSets: what there is is deleted, and then its   *)
(* deletion ensured.                                                       *)
SetsToClean(objects) == <<[method |-> "DELETE", todo |-> objects],
                          [method |-> "ENSURE_DELETION", todo |-> objects]>>

GetObjectsToClean(w) ==
  /\ At(w, "sets") /\ worker[w].op = "clean"
  /\ WorkerIs(w, [worker[w] EXCEPT !.pc = "list", !.object = "pod", !.sets = SetsToClean({})])
  /\ NoFault /\ UNCHANGED <<env, objs, row>>

(* getCleanObjects asks for one kind after the other; the cluster shows    *)
(* its objects by name, but for the denied ones.                           *)
ThereOf(kind) == {o \in OfKind[kind] : objs[o] # "absent"}

Shown(w, objects, denied) ==
  LET x == worker[w]
      y == [x EXCEPT !.object = NextKind[@], !.sets = SetsToClean(@[1].todo \cup objects),
                     !.found = @ \cup ThereOf(x.object), !.denied = @ \cup denied]
  IN  IF y.object # NoObject THEN WorkerIs(w, y) ELSE \E z \in Continue(y) : WorkerIs(w, z)

(* Mutant: a kind is passed over whatever the error. *)
ListWhatAnswers(w) ==
  /\ At(w, "list")
  /\ LET kind == worker[w].object
     IN  \/ Shown(w, ThereOf(kind), {}) /\ NoFault
         \/ Shown(w, {}, ThereOf(kind)) /\ Fault("forbidden")
         \/ Shown(w, {}, {}) /\ Fault("os")
  /\ UNCHANGED <<env, objs, row>>

(* A kind that is answered 403 or 404 is passed over.                      *)
ListKind(w) ==
  /\ At(w, "list")
  /\ LET kind == worker[w].object
     IN  \/ Shown(w, ThereOf(kind), {}) /\ NoFault
         \/ Shown(w, {}, ThereOf(kind)) /\ Fault("forbidden")
  /\ UNCHANGED <<env, objs, row>>

(* A template that cannot be processed or any other error of a list leaves *)
(* nothing to apply.                                                       *)
OperationSetsFail(w) ==
  /\ (At(w, "sets") /\ Fault("template")) \/ (At(w, "list") /\ Fault("os"))
  /\ WorkerIs(w, [worker[w] EXCEPT !.failed = TRUE, !.pc = "callback",
                                   !.sets = <<>>, !.object = NoObject])
  /\ UNCHANGED <<env, objs, row>>

(* A template that cannot be retrieved, from the repository of the user or *)
(* for want of a token, leaves no environment; asking that for its version *)
(* panics.                                                                 *)
TemplatesMissing(w) ==
  /\ At(w, "sets")
  /\ Fault("template")
  /\ Over(w, "dead")
  /\ UNCHANGED <<env, objs, row>>

-----------------------------------------------------------------------------
(* The requests for an object *)

(* A POST of the project fails when there is one; the cluster adds admin   *)
(* to the project of a user.                                               *)
Created ==
  objs' = [objs EXCEPT !["project"] = "good",
                       !["admin"] = IF type = "user" THEN "good" ELSE @]

PostProject(w) ==
  /\ At(w, "POST") /\ worker[w].object = "project"
  /\ \/ objs["project"] = "absent" /\ Created /\ Ok(w) /\ NoFault
     \/ objs["project"] # "absent" /\ UNCHANGED objs /\ Error(w) /\ NoFault
     \/ Fault("os") /\ Error(w) /\ (UNCHANGED objs \/ (objs["project"] = "absent" /\ Created))
  /\ UNCHANGED <<env, row>>

(* A request that changes an object to phase, unless it is refused; when   *)
(* its answer is lost nobody knows.                                        *)
Requested(w, phase) ==
  \/ ObjectIs(worker[w].object, phase) /\ Ok(w) /\ NoFault
  \/ Fault("os") /\ Error(w) /\ (UNCHANGED objs \/ ObjectIs(worker[w].object, phase))

(* POST: an object that is there already is deleted and created once more. *)
PostObject(w) ==
  /\ At(w, "POST") /\ worker[w].object # "project"
  /\ LET o == worker[w].object
     IN  \/ There("project") /\ objs[o] = "absent" /\ Requested(w, "good")
         \/ /\ There("project") /\ objs[o] # "absent"
            /\ Goto(w, "conflict") /\ NoFault /\ UNCHANGED objs
         \/ objs["project"] = "absent" /\ Error(w) /\ NoFault /\ UNCHANGED objs
  /\ UNCHANGED <<env, row>>

(* The 404 or 409 of the deletion makes the whole POST fail.               *)
DeleteAndRedo(w) ==
  /\ At(w, "conflict")
  /\ LET o == worker[w].object
     IN  \/ /\ There(o)
            /\ \E phase \in AfterDeletion(o) : ObjectIs(o, phase)
            /\ Goto(w, "redo") /\ NoFault
         \/ ~There(o) /\ UNCHANGED objs /\ Error(w) /\ NoFault
         \/ UNCHANGED objs /\ Error(w) /\ Fault("os")
  /\ UNCHANGED <<env, row>>

Redo(w) ==
  /\ At(w, "redo")
  /\ \/ objs[worker[w].object] = "absent" /\ Requested(w, "good")
     \/ objs[worker[w].object] # "absent" /\ UNCHANGED objs /\ Error(w) /\ NoFault
  /\ UNCHANGED <<env, row>>

(* PATCH begins with a GET: what is not there is created, what is going is *)
(* waited for, in vain perhaps.                                            *)
GetForPatch(w) ==
  /\ At(w, "PATCH")
  /\ LET phase == objs[worker[w].object]
     IN  \/ phase = "absent" /\ Goto(w, "POST") /\ NoFault
         \/ phase \in {"stale", "good"} /\ Goto(w, "write") /\ NoFault
         \/ phase = "terminating" /\ Error(w) /\ NoFault
         \/ Error(w) /\ Fault("os")
  /\ UNCHANGED <<env, objs, row>>

PatchObject(w) ==
  /\ At(w, "write")
  /\ LET o == worker[w].object
     IN  \/ There(o) /\ Requested(w, "good")
         \/ objs[o] = "terminating" /\ Requested(w, "terminating")
         \/ objs[o] = "absent" /\ UNCHANGED objs /\ Error(w) /\ NoFault
  /\ UNCHANGED <<env, row>>

(* DELETE and ENSURE_DELETION ignore what is not there or going already,   *)
(* and take a 403 for that; the latter has nothing to do for a claim.      *)
DeleteObject(w) ==
  /\ At(w, "DELETE") \/ At(w, "ENSURE_DELETION")
  /\ LET o == worker[w].object
         nothing == o = "claim" /\ At(w, "ENSURE_DELETION")
     IN  \/ (nothing \/ ~There(o)) /\ UNCHANGED objs /\ Ok(w) /\ NoFault
         \/ ~nothing /\ ~There(o) /\ UNCHANGED objs /\ Error(w) /\ Fault("os")
         \/ ~nothing /\ There(o) /\ \E phase \in AfterDeletion(o) : Requested(w, phase)
         \/ /\ ~nothing /\ There(o) /\ UNCHANGED objs /\ Fault("forbidden")
            /\ \E x \in Applied(Denied(w, o)) : WorkerIs(w, x)
  /\ UNCHANGED <<env, row>>

(* UserNamespaceTypeService.AfterCallback: a creation takes the role       *)
(* binding admin from the user, whatever became of the operation sets; its *)
(* deletion is one like any other.                                         *)
HasCallback(w) == type = "user" /\ worker[w].op = "create"

(* Mutant: the error of the callback is not kept. *)
AfterCallbackUnchecked(w) ==
  /\ At(w, "callback")
  /\ Goto(w, "save")
  /\ \/ NoFault /\ ObjectIs("admin", IF HasCallback(w) THEN "absent" ELSE objs["admin"])
     \/ Fault("os") /\ HasCallback(w) /\ UNCHANGED objs
  /\ UNCHANGED <<env, row>>

AfterCallback(w) ==
  /\ At(w, "callback")
  /\ \/ ~HasCallback(w) /\ UNCHANGED objs /\ Goto(w, "save") /\ NoFault
     \/ HasCallback(w) /\ ObjectIs("admin", "absent") /\ Goto(w, "save") /\ NoFault
     \/ /\ HasCallback(w) /\ There("admin") /\ UNCHANGED objs /\ Fault("forbidden")
        /\ WorkerIs(w, [Denied(w, "admin") EXCEPT !.pc = "save"])
     \/ /\ HasCallback(w) /\ Fault("os")
        /\ UNCHANGED objs \/ ObjectIs("admin", "absent")
        /\ WorkerIs(w, [worker[w] EXCEPT !.pc = "save", !.failed = TRUE])
  /\ UNCHANGED <<env, row>>

(* Mutant: a worker that failed puts no version into the row. *)
OutcomeWithoutVersion(w) ==
  CASE worker[w].failed       -> [state |-> "failed", version |-> ""]
    [] worker[w].op = "clean" -> row
    [] OTHER                  -> [state |-> "ready", version |-> "current"]

(* UpdateNamespace, after the current version was put into the entity: a   *)
(* cleaning that succeeded saves nothing, one that failed saves that, too. *)
Outcome(w) ==
  CASE worker[w].failed       -> [state |-> "failed", version |-> "current"]
    [] worker[w].op = "clean" -> row
    [] OTHER                  -> [state |-> "ready", version |-> "current"]

UpdateNamespace(w) ==
  /\ At(w, "save")
  /\ \/ row' = Outcome(w) /\ NoFault
     \/ UNCHANGED row /\ Fault("save")
  /\ Over(w, "done")
  /\ UNCHANGED <<env, objs>>

Crash(w) ==
  /\ Busy(w) /\ Fault("crash")
  /\ Over(w, "dead")
  /\ UNCHANGED <<env, objs, row>>

-----------------------------------------------------------------------------
(* The cluster and the user: a claim that is going is gone some time; the  *)
(* user deploys, though not what a cleaning at work has found; a pod goes  *)
(* with its deployment or before, and a deployment replaces it by one of a *)
(* new name, which is any that no goroutine at work has seen.              *)
Unseen(o) == \A w \in Workers : Busy(w) => o \notin worker[w].found

IsRemoved == objs["claim"] = "terminating" /\ ObjectIs("claim", "absent")

Deploys ==
  /\ type = "che" /\ There("project") /\ row.state # "provisioning"
  /\ objs["deployment"] = "absent" /\ Unseen("deployment")
  /\ ObjectIs("deployment", "good")

PodGoes == \E o \in Pods : objs[o] = "good" /\ ObjectIs(o, "absent")

ReplacesPod ==
  /\ objs["deployment"] = "good" /\ \A o \in Pods : objs[o] = "absent"
  /\ \/ Unseen("pod") /\ ObjectIs("pod", "good")
     \/ ~Unseen("pod") /\ Unseen("replacement") /\ ObjectIs("replacement", "good")

Environment ==
  /\ IsRemoved \/ Deploys \/ PodGoes \/ ReplacesPod
  /\ NoFault /\ UNCHANGED <<env, row, worker>>

Step(w) ==
  \/ \E op \in Ops : Begin(w, op)
  \/ GetOperationSets(w) \/ GetObjectsToClean(w) \/ ListKind(w)
  \/ OperationSetsFail(w) \/ TemplatesMissing(w)
  \/ PostProject(w) \/ PostObject(w) \/ DeleteAndRedo(w) \/ Redo(w)
  \/ GetForPatch(w) \/ PatchObject(w) \/ DeleteObject(w)
  \/ AfterCallback(w) \/ UpdateNamespace(w) \/ Crash(w)

Next == (\E w \in Workers : Step(w)) \/ Environment

Spec == Init /\ [][Next]_vars

-----------------------------------------------------------------------------
(* The values of the variables.                                            *)
TypeOK ==
  /\ type \in EnvTypes /\ disableQuotas \in BOOLEAN
  /\ objs \in [Objects -> Phases]
  /\ row \in [state : {"none", "provisioning", "ready", "failed"},
              version : {"none", "old", "current"}]
  /\ worker \in [Workers -> Worker]
  /\ faults \in 0 .. MaxFaults

(* What a worker does is the only thing that is done to the namespace.     *)
Alone(w) == Busy(w) /\ worker[w].alone

(* A namespace that is ready in the current version has all its templates  *)
(* ask for, whatever failed before and whoever worked on it: a failed or   *)
(* interrupted creation or update is never taken for one that succeeded.   *)
(* What may be cleaned and the project, which is never updated, are left   *)
(* out; so is a fault while two work on the namespace, where one deletes   *)
(* in a conflict what the other created.                                   *)
ReadyIsComplete ==
  (/\ row = [state |-> "ready", version |-> "current"]
   /\ \A w \in Workers : ~Busy(w)
   /\ faults = MaxFaults \/ \A w \in Workers : worker[w].alone) =>
  \A o \in Templates \ (AllToGetAndDelete \cup {"project"}) : objs[o] = "good"

(* Whatever fails, an object is created only when everything it needs is   *)
(* there: the order of the kinds, and that an error ends an operation set. *)
DependenciesFirst ==
  [][\A o \in Objects :
       (/\ objs[o] = "absent" /\ objs'[o] = "good"
        /\ \E w \in Workers : Alone(w)) => \A p \in Needs(o) : objs'[p] \in {"stale", "good"}]_vars

(* When a worker declares the namespace ready, the rights of the user are  *)
(* what was decided: edit rights in the che namespace as the toggle says,  *)
(* and after a creation no role binding admin. Of what is to be deleted    *)
(* only that may be there whose deletion the cluster has forbidden, which  *)
(* the code takes for something that is not there.                         *)
RightsAsDecided ==
  [][\A w \in Workers :
       (/\ Alone(w) /\ ~worker[w].failed
        /\ row' # row /\ row'.state = "ready" /\ worker'[w].pc = "done") =>
       /\ worker[w].grant = "yes" => objs["edit"] = "good"
       /\ worker[w].grant = "no"  => objs["edit"] = "absent" \/ "edit" \in worker[w].denied
       /\ HasCallback(w) => objs["admin"] = "absent" \/ "admin" \in worker[w].denied]_vars

(* What a cleaning that reports no error leaves of the objects there were  *)
(* when it asked for their kind is only what the cluster has denied: kinds *)
(* whose list it answered 403 or 404, which are passed over, and objects   *)
(* whose deletion it answered 403. No other error of a list passes for an  *)
(* empty one, and no failure of a set is forgotten when the next succeeds. *)
(* It does not say that the namespace is empty: a pod that its deployment  *)
(* replaces after the pods were listed has another name and is not asked   *)
(* for.                                                                    *)
CleanedAsListed ==
  [][\A w \in Workers :
       (Alone(w) /\ ~worker[w].failed /\ worker'[w].pc = "done") =>
       \A o \in worker[w].found \ worker[w].denied : objs[o] \in {"absent", "terminating"}]_vars
=============================================================================
