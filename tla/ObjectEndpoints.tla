-------------------------- MODULE ObjectEndpoints --------------------------
(***************************************************************************)
(* ObjectEndpoints.Apply: how POST, PATCH, DELETE and ENSURE_DELETION are  *)
(* applied to one object of the cluster. The callbacks of a method         *)
(* definition run before and after its request; they send requests of     *)
(* their own, one of them even applies other methods to the object, so    *)
(* that what a caller is doing is a stack of applied methods.              *)
(*                                                                         *)
(* An action is one request and its answer, or a callback that sends no    *)
(* request. Between two of them another goroutine, another process or      *)
(* somebody else may change the object.                                    *)
(***************************************************************************)
EXTENDS Naturals, Sequences

CONSTANTS
  Callers,       \* who applies one method, once
  Kinds,         \* the kinds of the object that are considered
  Actions,       \* the methods they apply
  Retries,       \* [Repeating -> Nat \ {0}]: how often a callback repeats GET
  Faults,        \* the kinds of faults that may happen
  MaxFaults      \* bound on the number of faults of one behaviour

ProjectKinds == {"Namespace", "Project", "ProjectRequest"}

NamespacedKinds ==
  {"Role", "RoleBinding", "RoleBindingRestriction", "Route", "Deployment", "DeploymentConfig",
   "PersistentVolumeClaim", "Service", "Secret", "ServiceAccount", "ConfigMap", "ResourceQuota",
   "LimitRange", "Job", "Pod", "ReplicationController", "DaemonSet", "ReplicaSet",
   "StatefulSet", "HorizontalPodAutoscaler", "CronJob", "BuildConfig", "Build", "ImageStream"}

AllActions == {"POST", "PATCH", "DELETE", "ENSURE_DELETION"}

BeforeCallbacks == {"FailIfAlreadyExists", "GetObjectAndMerge", "WaitUntilIsRemoved"}
AfterCallbacks == {"WhenConflictThenDeleteAndRedo", "GetObject",
                   "IgnoreWhenDoesNotExistOrConflicts", "TryToWaitUntilIsGone"}
Repeating == {"GetObjectAndMerge", "WaitUntilIsRemoved", "GetObject", "TryToWaitUntilIsGone"}

FaultKinds == {"refused",     \* the server answers 5xx and does nothing
               "noResponse"}  \* no answer arrives, whether or not the server did it

ASSUME ConstantsAssumption ==
  /\ Kinds \subseteq ProjectKinds \cup NamespacedKinds
  /\ Actions \subseteq AllActions
  /\ Retries \in [Repeating -> Nat \ {0}]
  /\ Faults \subseteq FaultKinds /\ MaxFaults \in Nat

VARIABLES
  kind,     \* kind of the object
  phase,    \* what the cluster knows of it
  call,     \* what each caller is doing
  seen,     \* history: what happened to the object since a call began
  faults    \* faults that may still happen

vars == <<kind, phase, call, seen, faults>>

-----------------------------------------------------------------------------
(* fresh: created and without a status; foreign: a project of somebody     *)
(* else, which only the master token can see and delete.                   *)
Phases == {"absent", "fresh", "active", "terminating", "foreign"}

(* The status code of a response; NoCode is a Result without response.     *)
NoCode == 0
OK == 200
Forbidden == 403
NotFound == 404
Conflict == 409
ServerError == 500
Codes == {NoCode, OK, Forbidden, NotFound, Conflict, ServerError}

Upto2(S) == {<<>>} \cup [1 .. 1 -> S] \cup [1 .. 2 -> S]

Method == [action : AllActions, before : Upto2(BeforeCallbacks),
           after : Upto2(AfterCallbacks), needMasterToken : BOOLEAN]

(* left: the callbacks that are still to run, before or after the request; *)
(* tries: unsuccessful tries of the first of them; result: the code that   *)
(* came back from the request; code, err: what the callbacks made of it.   *)
Frame == [method : Method, at : {"before", "after"},
          left : Upto2(BeforeCallbacks \cup AfterCallbacks), tries : Nat,
          result : Codes, code : Codes, err : BOOLEAN]

Call == [action : AllActions \cup {"none"}, user : BOOLEAN,
         reply : {"none", "ok", "error"}, stack : Upto2(Frame)]

IsNotPresent(code) == code \in {NotFound, Forbidden}

(* Mutant: only the server's own errors count. *)
BadIfServerFailed(code) == code = ServerError

(* CheckHTTPCode of a result without an error.                             *)
Bad(code) == code \notin {NoCode, OK}

-----------------------------------------------------------------------------
(* The table AllObjectEndpoints *)

(* Whether ENSURE_DELETION of the kind does anything.                      *)
DoCheckAndContinue(k) == k \notin ProjectKinds \cup {"PersistentVolumeClaim"}

BeforeDo(k, action) ==
  CASE action = "POST" /\ k \in ProjectKinds -> <<"FailIfAlreadyExists">>
    [] action = "PATCH" -> <<"GetObjectAndMerge">>
    [] action = "ENSURE_DELETION" -> <<"WaitUntilIsRemoved">>
    [] OTHER -> <<>>

AfterDo(k, action) ==
  CASE action = "POST" /\ k \in ProjectKinds -> <<"GetObject">>
    [] action = "POST" /\ k = "ResourceQuota" -> <<"WhenConflictThenDeleteAndRedo", "GetObject">>
    [] action = "POST" /\ k \notin ProjectKinds \cup {"ResourceQuota"} ->
         <<"WhenConflictThenDeleteAndRedo">>
    [] action = "DELETE" /\ k = "PersistentVolumeClaim" ->
         <<"IgnoreWhenDoesNotExistOrConflicts", "TryToWaitUntilIsGone">>
    [] action = "DELETE" /\ k # "PersistentVolumeClaim" -> <<"IgnoreWhenDoesNotExistOrConflicts">>
    [] action = "ENSURE_DELETION" -> <<"IgnoreWhenDoesNotExistOrConflicts">>
    [] OTHER -> <<>>

RequireMasterToken(k, action) ==
  \/ k = "RoleBinding" /\ action = "DELETE"
  \/ k = "RoleBindingRestriction" /\ action # "ENSURE_DELETION"

GetMethodDefinition(k, action) ==
  [action |-> action, before |-> BeforeDo(k, action), after |-> AfterDo(k, action),
   needMasterToken |-> RequireMasterToken(k, action)]

(* Mutant: the repetition may be repeated. *)
KeepAfterDoCallbacks(method, callback) == method

(* removeAfterDoCallback stops at the first callback it keeps.             *)
RemoveAfterDoCallback(method, callback) ==
  LET kept == {i \in DOMAIN method.after : method.after[i] # callback}
      first == CHOOSE i \in kept : \A j \in kept : i <= j
  IN [method EXCEPT !.after = IF kept = {} THEN <<>> ELSE <<@[first]>>]

AddAfterDoCallbackIfNotExist(method, callback) ==
  IF \E i \in DOMAIN method.after : method.after[i] = callback THEN method
  ELSE [method EXCEPT !.after = Append(@, callback)]

NewFrame(method) ==
  [method |-> method, at |-> "before", left |-> method.before, tries |-> 0,
   result |-> NoCode, code |-> NoCode, err |-> FALSE]

-----------------------------------------------------------------------------
IdleCall == [action |-> "none", user |-> FALSE, reply |-> "none", stack |-> <<>>]

Init ==
  /\ kind \in Kinds
  /\ phase \in (IF kind \in ProjectKinds THEN Phases ELSE Phases \ {"foreign"})
  /\ call = [p \in Callers |-> IdleCall]
  /\ seen = [p \in Callers |-> {}]
  /\ faults = MaxFaults

Fault(k) == /\ k \in Faults
            /\ faults > 0
            /\ faults' = faults - 1

Busy(p) == call[p].stack # <<>>
Top(p) == call[p].stack[1]

(* The callback the caller is about to run, before or after the request.   *)
Runs(p, callback) == /\ Busy(p)
                     /\ Top(p).left # <<>>
                     /\ Top(p).left[1] = callback

SetTop(p, frame) == call' = [call EXCEPT ![p].stack[1] = frame]

(* The callback is done: the next one, or the request.                     *)
Proceed(frame) == [frame EXCEPT !.left = Tail(@), !.tries = 0]

(* apply ends without, or after, its request.                              *)
Ends(frame, err) == [frame EXCEPT !.at = "after", !.left = <<>>, !.tries = 0, !.err = err]

-----------------------------------------------------------------------------
(* The cluster *)

Marks == {"free", "gone", "alive", "written", "status"}

(* What is noted of a phase for the properties of a call: that there was   *)
(* nothing in the way of a creation, nothing left to delete, or something  *)
(* alive to patch.                                                         *)
Notes(action, ph) ==
  CASE action = "POST" /\ kind \in ProjectKinds /\ ph = "absent" -> {"free"}
    [] action \in {"DELETE", "ENSURE_DELETION"} /\ ph \in {"absent", "terminating", "foreign"} ->
         {"gone"}
    [] action = "PATCH" /\ ph \in {"fresh", "active", "foreign"} -> {"alive"}
    [] OTHER -> {}

HasValidStatus(ph) == ph \in {"active", "terminating", "foreign"}

(* Every caller that is busy notes the new phase; the writer's request is  *)
(* what it is due to.                                                      *)
PhaseBecomes(ph, writers) ==
  /\ phase' = ph
  /\ seen' = [q \in Callers |->
       IF ~Busy(q) THEN {}
       ELSE LET written == q \in writers \/ "written" \in seen[q]
            IN seen[q] \cup Notes(call[q].action, ph)
               \cup (IF written THEN {"written"} ELSE {})
               \cup (IF written /\ call[q].action = "POST" /\ HasValidStatus(ph)
                       THEN {"status"} ELSE {})]

PhaseStays == UNCHANGED <<phase, seen>>

IsHidden(master) == phase = "foreign" /\ ~master

(* GET of the object, with its code; what is read is phase.                *)
Get(master, code) ==
  /\ PhaseStays
  /\ \/ /\ code = (CASE phase = "absent" -> NotFound
                     [] IsHidden(master) -> Forbidden
                     [] OTHER -> OK)
        /\ UNCHANGED faults
     \/ Fault("refused") /\ code = ServerError
     \/ Fault("noResponse") /\ code = NoCode

Post(p, code) ==
  \/ phase = "absent" /\ PhaseBecomes("fresh", {p}) /\ code = OK
  \/ phase # "absent" /\ PhaseStays /\ code = Conflict

Patch(p, master, code) ==
  \/ phase = "absent" /\ PhaseStays /\ code = NotFound
  \/ IsHidden(master) /\ PhaseStays /\ code = Forbidden
  \/ phase # "absent" /\ ~IsHidden(master) /\ PhaseBecomes(phase, {p}) /\ code = OK

Delete(master, code) ==
  \/ phase = "absent" /\ PhaseStays /\ code = NotFound
  \/ IsHidden(master) /\ PhaseStays /\ code = Forbidden
  \/ phase = "terminating" /\ PhaseStays /\ code = Conflict
  \/ /\ phase \notin {"absent", "terminating"} /\ ~IsHidden(master)
     /\ \E ph \in {"absent", "terminating"} : PhaseBecomes(ph, {})
     /\ code = OK

Serve(p, action, master, code) ==
  \/ action = "POST" /\ Post(p, code)
  \/ action = "PATCH" /\ Patch(p, master, code)
  \/ action \in {"DELETE", "ENSURE_DELETION"} /\ Delete(master, code)

(* The object gets its status, it goes, or it is created by somebody else, *)
(* a controller of the cluster or, when it is a project, another user.     *)
GetsStatus == phase = "fresh" /\ PhaseBecomes("active", {})
IsRemoved == phase = "terminating" /\ PhaseBecomes("absent", {})
SomebodyCreates ==
  /\ phase = "absent"
  /\ PhaseBecomes(IF kind \in ProjectKinds THEN "foreign" ELSE "active", {})

Cluster == /\ GetsStatus \/ IsRemoved \/ SomebodyCreates
           /\ UNCHANGED <<kind, call, faults>>

-----------------------------------------------------------------------------
(* Begin of a call. CreateAction alone works with the token of the user,   *)
(* and in the user namespace only; it applies POST.                        *)
Begin(p, action, user) ==
  /\ call[p] = IdleCall
  /\ user => action = "POST"
  /\ call' = [call EXCEPT ![p] =
       [action |-> action, user |-> user, reply |-> "none",
        stack |-> <<NewFrame(GetMethodDefinition(kind, action))>>]]
  /\ seen' = [seen EXCEPT ![p] = Notes(action, phase)]
  /\ UNCHANGED <<kind, phase, faults>>

(* The token a request is sent with, TokenProducer(needMasterToken).       *)
UsesMaster(p, method) == method.needMasterToken \/ ~call[p].user

GetIsMaster(p) == UsesMaster(p, GetMethodDefinition(kind, "GET"))

(* Mutant: tries are not counted. *)
RetryForever(p, callback, frame) == SetTop(p, Top(p))

(* One more unsuccessful try: either there is another one, or frame.       *)
RetryOr(p, callback, frame) ==
  IF Top(p).tries + 1 < Retries[callback]
  THEN SetTop(p, [Top(p) EXCEPT !.tries = @ + 1])
  ELSE SetTop(p, frame)

(* Mutant: the state of the object is not looked at. *)
GetObjectAndPatch(p) ==
  /\ Runs(p, "GetObjectAndMerge")
  /\ \E code \in Codes :
       /\ Get(GetIsMaster(p), code)
       /\ IF IsNotPresent(code)
          THEN SetTop(p, Proceed([Top(p) EXCEPT !.method = GetMethodDefinition(kind, "POST")]))
          ELSE IF code = OK THEN SetTop(p, Proceed(Top(p)))
          ELSE RetryOr(p, "GetObjectAndMerge", Ends(Top(p), TRUE))
  /\ UNCHANGED kind

(* A patch of what is not there becomes its creation, without the          *)
(* callbacks that run before one.                                          *)
GetObjectAndMerge(p) ==
  /\ Runs(p, "GetObjectAndMerge")
  /\ \E code \in Codes :
       /\ Get(GetIsMaster(p), code)
       /\ \/ /\ IsNotPresent(code)
             /\ SetTop(p, Proceed([Top(p) EXCEPT !.method = GetMethodDefinition(kind, "POST")]))
          \/ /\ code = OK /\ phase # "terminating"
             /\ SetTop(p, Proceed(Top(p)))
          \/ /\ ~IsNotPresent(code) /\ (code = OK => phase = "terminating")
             /\ RetryOr(p, "GetObjectAndMerge", Ends(Top(p), TRUE))
  /\ UNCHANGED kind

(* Mutant: the object is got with the token of the user. *)
FailIfVisible(p) ==
  /\ Runs(p, "FailIfAlreadyExists")
  /\ \E code \in Codes :
       /\ Get(GetIsMaster(p), code)
       /\ SetTop(p, IF IsNotPresent(code) THEN Proceed(Top(p)) ELSE Ends(Top(p), TRUE))
  /\ UNCHANGED kind

(* Whatever is not a clear 404 or 403 counts as an existing object.        *)
FailIfAlreadyExists(p) ==
  /\ Runs(p, "FailIfAlreadyExists")
  /\ \E code \in Codes :
       /\ Get(TRUE, code)
       /\ SetTop(p, IF IsNotPresent(code) THEN Proceed(Top(p)) ELSE Ends(Top(p), TRUE))
  /\ UNCHANGED kind

(* Nothing is sent when the object goes by itself; when it does not, it is *)
(* deleted.                                                                *)
WaitUntilIsRemoved(p) ==
  /\ Runs(p, "WaitUntilIsRemoved")
  /\ UNCHANGED kind
  /\ \/ /\ ~DoCheckAndContinue(kind)
        /\ SetTop(p, Ends(Top(p), FALSE))
        /\ PhaseStays /\ UNCHANGED faults
     \/ /\ DoCheckAndContinue(kind)
        /\ \E code \in Codes :
             /\ Get(GetIsMaster(p), code)
             /\ IF IsNotPresent(code) THEN SetTop(p, Ends(Top(p), FALSE))
                ELSE RetryOr(p, "WaitUntilIsRemoved", Proceed([Top(p) EXCEPT
                       !.method = AddAfterDoCallbackIfNotExist(@, "TryToWaitUntilIsGone")]))

(* The request of the method. Without an answer the callbacks do not run.  *)
AboutToDo(p) == Busy(p) /\ Top(p).at = "before" /\ Top(p).left = <<>>

Do(p) ==
  /\ AboutToDo(p)
  /\ \E code \in Codes :
       LET frame == Top(p)
           method == frame.method
           serve == Serve(p, method.action, UsesMaster(p, method), code)
           answered == [frame EXCEPT !.at = "after", !.left = method.after,
                                     !.result = code, !.code = code]
       IN \/ serve /\ UNCHANGED faults /\ SetTop(p, answered)
          \/ /\ Fault("refused") /\ PhaseStays
             /\ code = ServerError /\ SetTop(p, answered)
          \/ /\ Fault("noResponse")
             /\ serve \/ (PhaseStays /\ code = NoCode)
             /\ SetTop(p, Ends(frame, TRUE))
  /\ UNCHANGED kind

-----------------------------------------------------------------------------
(* The callbacks after the request *)

WhenConflictThenDeleteAndRedo(p) ==
  /\ Runs(p, "WhenConflictThenDeleteAndRedo")
  /\ IF Top(p).code = Conflict
     THEN call' = [call EXCEPT ![p].stack =
                     <<NewFrame(GetMethodDefinition(kind, "DELETE"))>> \o @]
     ELSE SetTop(p, Proceed(Top(p)))
  /\ PhaseStays /\ UNCHANGED <<kind, faults>>

(* Mutant: every failure is ignored. *)
IgnoreAnyFailure(p) ==
  /\ Runs(p, "IgnoreWhenDoesNotExistOrConflicts")
  /\ SetTop(p, Proceed([Top(p) EXCEPT !.code = NoCode, !.err = FALSE]))
  /\ PhaseStays /\ UNCHANGED <<kind, faults>>

IgnoreWhenDoesNotExistOrConflicts(p) ==
  /\ Runs(p, "IgnoreWhenDoesNotExistOrConflicts")
  /\ SetTop(p, IF IsNotPresent(Top(p).code) \/ Top(p).code = Conflict
                THEN Proceed([Top(p) EXCEPT !.code = NoCode, !.err = FALSE])
                ELSE Proceed(Top(p)))
  /\ PhaseStays /\ UNCHANGED <<kind, faults>>

(* The callbacks that repeat GET give up when the result before them is an *)
(* error.                                                                  *)
Failed(frame) == frame.err \/ Bad(frame.code)

GiveUp(p) ==
  /\ Runs(p, "GetObject") \/ Runs(p, "TryToWaitUntilIsGone")
  /\ Failed(Top(p))
  /\ SetTop(p, Proceed([Top(p) EXCEPT !.err = TRUE]))
  /\ PhaseStays /\ UNCHANGED <<kind, faults>>

(* Mutant: an object without status is good enough. *)
GetObjectOnce(p) ==
  /\ Runs(p, "GetObject")
  /\ ~Failed(Top(p))
  /\ \E code \in Codes :
       /\ Get(GetIsMaster(p), code)
       /\ IF code = OK THEN SetTop(p, Proceed(Top(p)))
          ELSE RetryOr(p, "GetObject", Proceed([Top(p) EXCEPT !.err = TRUE]))
  /\ UNCHANGED kind

GetObject(p) ==
  /\ Runs(p, "GetObject")
  /\ ~Failed(Top(p))
  /\ \E code \in Codes :
       /\ Get(GetIsMaster(p), code)
       /\ IF code = OK /\ HasValidStatus(phase) THEN SetTop(p, Proceed(Top(p)))
          ELSE RetryOr(p, "GetObject", Proceed([Top(p) EXCEPT !.err = TRUE]))
  /\ UNCHANGED kind

(* Waiting in vain is only logged.                                         *)
TryToWaitUntilIsGone(p) ==
  /\ Runs(p, "TryToWaitUntilIsGone")
  /\ ~Failed(Top(p))
  /\ \E code \in Codes :
       /\ Get(GetIsMaster(p), code)
       /\ IF IsNotPresent(code) \/ (code = OK /\ phase = "terminating")
          THEN SetTop(p, Proceed(Top(p)))
          ELSE RetryOr(p, "TryToWaitUntilIsGone", Proceed(Top(p)))
  /\ UNCHANGED kind

(* Mutant: what the repetition returns is not checked. *)
ResumeUnchecked(nested, frame, result, failed) ==
  IF nested = "DELETE"
  THEN IF failed THEN <<Proceed([frame EXCEPT !.err = TRUE])>>
       ELSE <<NewFrame(RemoveAfterDoCallback(frame.method, "WhenConflictThenDeleteAndRedo")), frame>>
  ELSE <<Proceed([frame EXCEPT !.code = NoCode, !.err = FALSE])>>

(* What WhenConflictThenDeleteAndRedo, in the frame below, makes of what   *)
(* apply returned to it: a deletion that succeeded is followed by the      *)
(* repetition.                                                             *)
Resume(nested, frame, result, failed) ==
  IF nested = "DELETE"
  THEN IF failed THEN <<Proceed([frame EXCEPT !.err = TRUE])>>
       ELSE <<NewFrame(RemoveAfterDoCallback(frame.method, "WhenConflictThenDeleteAndRedo")), frame>>
  ELSE <<Proceed([frame EXCEPT !.code = result, !.err = failed])>>

(* apply returns the result of the request and not that of the callbacks,  *)
(* so that who checks its code again sees a 404 the callbacks ignored.     *)
Return(p) ==
  /\ Busy(p) /\ Top(p).at = "after" /\ Top(p).left = <<>>
  /\ LET stack == call[p].stack
         top == Top(p)
     IN IF Len(stack) = 1
        THEN /\ call' = [call EXCEPT ![p] = [@ EXCEPT
                           !.reply = IF Failed(top) THEN "error" ELSE "ok",
                           !.user = FALSE, !.stack = <<>>]]
             /\ seen' = [seen EXCEPT ![p] = {}]
        ELSE /\ call' = [call EXCEPT ![p].stack = Resume(top.method.action, stack[2],
                           top.result, Failed(top) \/ Bad(top.result))]
             /\ UNCHANGED seen
  /\ UNCHANGED <<kind, phase, faults>>

-----------------------------------------------------------------------------
Step(p) ==
  \/ GetObjectAndMerge(p)
  \/ FailIfAlreadyExists(p)
  \/ WaitUntilIsRemoved(p)
  \/ Do(p)
  \/ WhenConflictThenDeleteAndRedo(p)
  \/ IgnoreWhenDoesNotExistOrConflicts(p)
  \/ GiveUp(p)
  \/ GetObject(p)
  \/ TryToWaitUntilIsGone(p)
  \/ Return(p)

Next ==
  \/ \E p \in Callers : \/ \E action \in Actions, user \in BOOLEAN : Begin(p, action, user)
                        \/ Step(p)
  \/ Cluster

Spec == Init /\ [][Next]_vars

(* Requests are answered or their connections break.                       *)
FairSpec == Spec /\ \A p \in Callers : WF_vars(Step(p))

-----------------------------------------------------------------------------
(* The values of the variables. A stack of more than two frames would be a *)
(* conflict that is answered while another one is, without an end:         *)
(* repeating a method leaves out the callback that repeats it.             *)
TypeOK ==
  /\ kind \in Kinds
  /\ phase \in Phases
  /\ call \in [Callers -> Call]
  /\ seen \in [Callers -> SUBSET Marks]
  /\ faults \in 0 .. MaxFaults

Answers(p, reply) == Busy(p) /\ call'[p].reply = reply

(* POST and PATCH are answered without an error only if the object was     *)
(* written by this call, through conflicts, deletions and repetitions.     *)
AcceptedIsWritten ==
  [][\A p \in Callers : Answers(p, "ok") /\ call[p].action \in {"POST", "PATCH"} =>
       "written" \in seen[p]]_vars

(* A project or a quota whose creation is answered without an error has    *)
(* had a status since: what is created next may rely on it.                *)
CreatedIsReady ==
  [][\A p \in Callers : Answers(p, "ok") /\ call[p].action = "POST"
                          /\ kind \in ProjectKinds \cup {"ResourceQuota"} =>
       "status" \in seen[p]]_vars

(* A deletion that is answered without an error was not needed, is under   *)
(* way or was not the caller's business: the object was absent, terminating*)
(* or somebody else's at some time during the call. ENSURE_DELETION of a   *)
(* project or a claim promises nothing.                                    *)
DeletedIsGoing ==
  [][\A p \in Callers :
       /\ Answers(p, "ok")
       /\ call[p].action = "DELETE"
            \/ (call[p].action = "ENSURE_DELETION" /\ DoCheckAndContinue(kind))
       => "gone" \in seen[p]]_vars

(* The creation of a project is only sent when its name was free at some   *)
(* time during the call, whoever the project of that name belongs to.      *)
CreatedIfFree ==
  \A p \in Callers :
    (call[p].action = "POST" /\ kind \in ProjectKinds /\ AboutToDo(p)) => "free" \in seen[p]

(* An object that is being removed since before the call is not patched:   *)
(* the change would go with it.                                            *)
PatchWaitsForRemoval ==
  [][\A p \in Callers :
       (phase' = "terminating" /\ call[p].action = "PATCH"
         /\ "written" \in seen'[p] \ seen[p]) => "alive" \in seen[p]]_vars

(* If several callers write one object, and delete one another's work when *)
(* they meet a conflict, the object is there when all are done and none    *)
(* was answered an error.                                                  *)
NothingLostSilently ==
  (\A p \in Callers : call[p].reply = "ok" /\ call[p].action \in {"POST", "PATCH"}) =>
    phase \notin {"absent", "terminating"}

(* Every call is answered: callbacks repeat GET and methods only so often, *)
(* whatever the cluster and other callers do meanwhile.                    *)
CallsEnd == \A p \in Callers : Busy(p) ~> ~Busy(p)
=============================================================================
