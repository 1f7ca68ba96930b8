---------------------- MODULE TenantProvisioningProofs ----------------------
(***************************************************************************)
(* Theorems about TenantProvisioning, for any tenants, requests and faults *)
(* of any number. The types are kept whichever requests overlap; what the  *)
(* tables promise of each other is proved for requests that overlap only   *)
(* when they are of different tenants (Serial), and without old tenants    *)
(* that have rows of types no longer supported (NoOldLegacy). From this    *)
(* follows what requests do to each other's projects and what answers and  *)
(* states mean, under the assumptions named before each theorem. Setups of *)
(* one tenant at the same time have an invariant of their own.             *)
(***************************************************************************)
EXTENDS TenantProvisioning, TLAPS

-----------------------------------------------------------------------------
(* Types of records *)

Replies == {"none", "accepted", "conflict", "noContent", "error"}

LEMMA IdleTyped ==
  /\ IdleRequest \in Request
  /\ IdleRoutine \in Routine
  /\ Absent \in Project
  <1>1. IdleRequest \in Request
        BY ConstantsAssumption DEF IdleRequest, Request, Pcs, Stages, Numbers
  <1>2. IdleRoutine \in Routine
        BY DEF IdleRoutine, Routine
  <1>3. Absent \in Project
        BY SMTT(40) DEF Absent, Project
  <1>4. QED  BY <1>1, <1>2, <1>3

LEMMA RequestTyped ==
  ASSUME NEW q \in Request
  PROVE  /\ \A pc \in Pcs : [q EXCEPT !.pc = pc] \in Request
         /\ \A a \in Replies : [q EXCEPT !.pc = "done", !.reply = a] \in Request
         /\ \A n \in Numbers, pc \in Pcs : [q EXCEPT !.base = n, !.pc = pc] \in Request
         /\ \A x \in SUBSET Row, pc \in Pcs : [q EXCEPT !.existing = x, !.pc = pc] \in Request
         /\ \A x \in SUBSET Row : [q EXCEPT !.existing = x] \in Request
         /\ \A types \in SUBSET EnvTypes, pc \in Pcs :
              [q EXCEPT !.types = types, !.pc = pc] \in Request
         /\ \A st \in Stages, types \in SUBSET EnvTypes :
              [q EXCEPT !.pc = "apply", !.stage = st, !.types = types, !.errs = 0] \in Request
         /\ \A st \in Stages : [q EXCEPT !.stage = st] \in Request
         /\ [q EXCEPT !.errs = @ + 1] \in Request
  <1>1. "done" \in Pcs /\ "apply" \in Pcs
        BY DEF Pcs
  <1>2. \A pc \in Pcs : [q EXCEPT !.pc = pc] \in Request
        BY DEF Request
  <1>3. \A a \in Replies : [q EXCEPT !.pc = "done", !.reply = a] \in Request
        BY <1>1 DEF Request, Replies
  <1>4. \A n \in Numbers, pc \in Pcs : [q EXCEPT !.base = n, !.pc = pc] \in Request
        BY DEF Request
  <1>5. \A x \in SUBSET Row, pc \in Pcs : [q EXCEPT !.existing = x, !.pc = pc] \in Request
        BY DEF Request
  <1>6. \A x \in SUBSET Row : [q EXCEPT !.existing = x] \in Request
        BY DEF Request
  <1>7. \A types \in SUBSET EnvTypes, pc \in Pcs :
          [q EXCEPT !.types = types, !.pc = pc] \in Request
        BY DEF Request
  <1>8. \A st \in Stages, types \in SUBSET EnvTypes :
          [q EXCEPT !.pc = "apply", !.stage = st, !.types = types, !.errs = 0] \in Request
        BY ZenonT(60), <1>1 DEF Request
  <1>9. (\A st \in Stages : [q EXCEPT !.stage = st] \in Request)
        /\ [q EXCEPT !.errs = @ + 1] \in Request
        BY DEF Request
  <1>10. QED  BY <1>2, <1>3, <1>4, <1>5, <1>6, <1>7, <1>8, <1>9

LEMMA RoutineTyped ==
  ASSUME NEW g \in Routine
  PROVE  /\ \A pc \in {"entity", "sets", "project", "post", "objects", "second",
                       "callback", "save", "end"} :
              /\ [g EXCEPT !.pc = pc] \in Routine
              /\ [IdleRoutine EXCEPT !.pc = pc] \in Routine
              /\ \A b \in BOOLEAN : [g EXCEPT !.failed = b, !.pc = pc] \in Routine
              /\ \A b \in BOOLEAN : [g EXCEPT !.second = b, !.pc = pc] \in Routine
              /\ \A x \in Row : [g EXCEPT !.pc = pc, !.row = x] \in Routine
  BY ZenonT(60), IdleTyped DEF Routine

LEMMA ReqTyped ==
  ASSUME req \in [Requests -> Request], NEW r \in Requests, NEW q \in Request, RequestIs(r, q)
  PROVE  req' \in [Requests -> Request]
  BY DEF RequestIs

LEMMA RoutinesTyped ==
  ASSUME routine \in [Requests -> [EnvTypes -> Routine]],
         NEW r \in Requests, NEW ty \in EnvTypes, NEW g \in Routine, RoutineIs(r, ty, g)
  PROVE  routine' \in [Requests -> [EnvTypes -> Routine]]
  BY DEF RoutineIs

LEMMA ProjectsTyped ==
  ASSUME projects \in [EnvTypes -> [Numbers -> Project]], NEW ty \in EnvTypes,
         NEW n \in Numbers, NEW p \in Project, ProjectsWith(ty, n, p)
  PROVE  projects' \in [EnvTypes -> [Numbers -> Project]]
  BY DEF ProjectsWith

LEMMA FaultTyped ==
  ASSUME faults \in Nat
  PROVE  /\ NoFault => faults' \in Nat
         /\ \A kind : Fault(kind) => faults' \in Nat
  BY DEF NoFault, Fault

(* The ways of changing a request and its goroutines keep their types.     *)
LEMMA GotoTyped ==
  ASSUME req \in [Requests -> Request], NEW r \in Requests
  PROVE  /\ \A pc \in Pcs : Goto(r, pc) => req' \in [Requests -> Request]
         /\ \A a \in Replies : Reply(r, a) => req' \in [Requests -> Request]
         /\ Send(r) => req' \in [Requests -> Request]
         /\ NoError => req' \in [Requests -> Request]
  <1>0. req[r] \in Request
        OBVIOUS
  <1>1. ASSUME NEW pc \in Pcs, Goto(r, pc)
        PROVE  req' \in [Requests -> Request]
        BY <1>0, <1>1, RequestTyped, ReqTyped DEF Goto
  <1>2. ASSUME NEW a \in Replies, Reply(r, a)
        PROVE  req' \in [Requests -> Request]
        BY <1>0, <1>2, RequestTyped, ReqTyped DEF Reply
  <1>3. ASSUME Send(r)
        PROVE  req' \in [Requests -> Request]
        BY <1>0, <1>3, RequestTyped, ReqTyped DEF Send
  <1>4. QED  BY <1>1, <1>2, <1>3 DEF NoError

LEMMA StartTyped ==
  ASSUME TypeOK, NEW r \in Requests, NEW st \in Stages, NEW types \in SUBSET EnvTypes,
         NEW q \in Request, Start(r, st, types, q)
  PROVE  /\ req' \in [Requests -> Request]
         /\ routine' \in [Requests -> [EnvTypes -> Routine]]
  <1>1. req' \in [Requests -> Request]
        BY RequestTyped, ReqTyped DEF TypeOK, Start
  <1>2. [IdleRoutine EXCEPT !.pc = "entity"] \in Routine /\ IdleRoutine \in Routine
        BY IdleTyped, RoutineTyped
  <1>3. QED  BY <1>1, <1>2 DEF TypeOK, Start

LEMMA StartRoutinesTyped ==
  ASSUME TypeOK, NEW r \in Requests, NEW st, NEW types, NEW q, Start(r, st, types, q)
  PROVE  routine' \in [Requests -> [EnvTypes -> Routine]]
  <1>1. [IdleRoutine EXCEPT !.pc = "entity"] \in Routine /\ IdleRoutine \in Routine
        BY IdleTyped, RoutineTyped
  <1>2. QED  BY <1>1 DEF TypeOK, Start

LEMMA AllIdleTyped ==
  ASSUME TypeOK, NEW r \in Requests,
         routine' = [routine EXCEPT ![r] = [ty \in EnvTypes |-> IdleRoutine]]
  PROVE  routine' \in [Requests -> [EnvTypes -> Routine]]
  BY IdleTyped DEF TypeOK

(* A request heals a creation, an update, a deletion, or the deletion that *)
(* heals a creation.                                                       *)
HealsKnown(r) ==
  At(r, "heal") => req[r].stage \in {"create", "delete", "update", "healDelete"}

LEMMA StartsApplying ==
  ASSUME req \in [Requests -> Request], NEW r \in Requests,
         NEW st, NEW types, NEW q \in Request, Start(r, st, types, q)
  PROVE  req'[r].pc = "apply"
  <1>1. [q EXCEPT !.pc = "apply", !.stage = st, !.types = types, !.errs = 0].pc = "apply"
        BY DEF Request
  <1>2. QED  BY <1>1 DEF Start, RequestIs

LEMMA HealsKnownKept ==
  ASSUME TypeOK, NEW r \in Requests, HandlerStep(r)
  PROVE  HealsKnown(r)'
  <1>0. req \in [Requests -> Request] /\ req[r] \in Request
        BY DEF TypeOK
  <1>1. CASE Join(r)
        BY ZenonT(60), <1>0, <1>1 DEF Join, Goto, Reply, RequestIs, HealsKnown, At, Request
  <1>2. CASE AfterCheck(r) /\ At(r, "check")
        BY ZenonT(60), <1>0, <1>2 DEF AfterCheck, Goto, Reply, RequestIs, HealsKnown, At, Request
  <1>3. CASE \E st, types : Start(r, st, types, req[r])
                            \/ Start(r, st, types, [req[r] EXCEPT !.existing = RowsOf(TenantOf[r])])
    <2>1. RowsOf(TenantOf[r]) \in SUBSET Row
          BY DEF TypeOK, RowsOf
    <2>2. [req[r] EXCEPT !.existing = RowsOf(TenantOf[r])] \in Request
          BY <1>0, <2>1, RequestTyped
    <2>3. req'[r].pc = "apply"
          BY <1>0, <1>3, <2>2, StartsApplying
    <2>4. QED  BY <2>3 DEF HealsKnown, At
  <1>4. CASE \E answer \in Replies : Reply(r, answer)
        BY <1>0, <1>4 DEF Reply, RequestIs, HealsKnown, At, Request
  <1>5. CASE \E pc \in Pcs \ {"heal"} : Goto(r, pc)
        BY <1>0, <1>5 DEF Goto, RequestIs, HealsKnown, At, Request
  <1>6. CASE ChooseName(r) \/ InsertTenant(r)
        BY ZenonT(60), <1>0, <1>6 DEF ChooseName, InsertTenant, Reply, RequestIs, HealsKnown, At, Request
  <1>7. CASE ReadNamespaces(r)
        BY ZenonT(60), <1>0, <1>7 DEF ReadNamespaces, AfterNamespaces, Reply, RequestIs, HealsKnown, At, Request
  <1>8. CASE ReadTenant(r)
        BY ZenonT(60), <1>0, <1>8 DEF ReadTenant, AfterTenant, Reply, RequestIs, HealsKnown, At, Request
  <1>9. CASE CheckMissing(r)
        BY ZenonT(60), <1>0, <1>9 DEF CheckMissing, Reply, RequestIs, HealsKnown, At, Request
  <1>10. CASE CheckExists(r)
        BY <1>5, <1>10 DEF CheckExists, Pcs
  <1>11. CASE CallAction(r)
        BY <1>3, <1>4, <1>11 DEF CallAction, Replies
  <1>12. CASE Heal(r)
        BY <1>3, <1>4, <1>12 DEF Heal, Replies
  <1>13. CASE CheckResults(r) \/ CheckCleaned(r)
        BY <1>2, <1>4, <1>13 DEF CheckResults, CheckCleaned, Replies
  <1>14. CASE CheckFails(r) \/ VerifyDeleted(r)
        BY <1>4, <1>14 DEF CheckFails, VerifyDeleted, Replies
  <1>15. CASE SaveName(r)
        BY <1>3, <1>4, <1>5, <1>15 DEF SaveName, Replies, Pcs
  <1>16. QED
        BY <1>1, <1>6, <1>7, <1>8, <1>9, <1>10, <1>11, <1>12, <1>13, <1>14, <1>15
           DEF HandlerStep

(* How a step of a handler leaves the request and its goroutines.          *)
LEMMA HandlerReqTyped ==
  ASSUME TypeOK, NEW r \in Requests, HealsKnown(r), HandlerStep(r)
  PROVE  req' \in [Requests -> Request]
  <1>0. req \in [Requests -> Request] /\ req[r] \in Request
        BY DEF TypeOK
  <1>r. /\ {"conflict", "error", "accepted", "noContent"} \subseteq Replies
        /\ {"namespaces", "name", "tenant", "missing", "newName", "saveName", "insert", "cluster",
            "heal", "check", "verify"} \subseteq Pcs
        BY DEF Replies, Pcs
  <1>x. RowsOf(TenantOf[r]) \in SUBSET Row
        BY DEF TypeOK, RowsOf
  <1>1. CASE CheckExists(r)
        BY <1>0, <1>r, <1>1, GotoTyped DEF CheckExists
  <1>2. CASE ChooseName(r)
    <2>1. CASE \E a \in Replies : Reply(r, a)
          BY <1>0, <2>1, GotoTyped
    <2>2. ASSUME NEW n \in Numbers,
                 RequestIs(r, [req[r] EXCEPT !.base = n,
                                 !.pc = IF @ = "name" THEN "insert" ELSE "saveName"])
          PROVE  req' \in [Requests -> Request]
      <3> DEFINE l == IF req[r].pc = "name" THEN "insert" ELSE "saveName"
      <3>1. [req[r] EXCEPT !.base = n, !.pc = l] \in Request
            BY <1>0, <1>r, RequestTyped
      <3>2. QED  BY SMTT(40), <1>0, <2>2, <3>1, ReqTyped
    <2>3. QED  BY <1>2, <1>r, <2>1, <2>2 DEF ChooseName
  <1>3. CASE InsertTenant(r)
    <2>1. CASE \E a \in Replies : Reply(r, a)
          BY <1>0, <2>1, GotoTyped
    <2>2. CASE RequestIs(r, [req[r] EXCEPT !.pc = "missing", !.existing = {}])
      <3>1. [req[r] EXCEPT !.pc = "missing", !.existing = {}] \in Request
            BY <1>0, <1>r DEF Request
      <3>2. QED  BY <1>0, <2>2, <3>1, ReqTyped
    <2>3. QED  BY <1>3, <1>r, <2>1, <2>2 DEF InsertTenant
  <1>4. CASE ReadNamespaces(r)
    <2>1. CASE \E a \in Replies : Reply(r, a)
          BY <1>0, <2>1, GotoTyped
    <2>2. CASE RequestIs(r, [req[r] EXCEPT !.existing = RowsOf(TenantOf[r]),
                               !.pc = AfterNamespaces(KindOf[r])])
      <3>1. AfterNamespaces(KindOf[r]) \in Pcs
            BY <1>r DEF AfterNamespaces
      <3>2. [req[r] EXCEPT !.existing = RowsOf(TenantOf[r]),
                           !.pc = AfterNamespaces(KindOf[r])] \in Request
            BY <1>0, <1>x, <3>1, RequestTyped
      <3>3. QED  BY <1>0, <2>2, <3>2, ReqTyped
    <2>3. QED  BY <1>4, <1>r, <2>1, <2>2 DEF ReadNamespaces
  <1>5. CASE ReadTenant(r)
    <2>1. CASE \E a \in Replies : Reply(r, a)
          BY <1>0, <2>1, GotoTyped
    <2>2. CASE /\ tenants[TenantOf[r]] # NoName
               /\ RequestIs(r, [req[r] EXCEPT !.base = tenants[TenantOf[r]],
                                  !.pc = AfterTenant(KindOf[r])])
      <3>1. AfterTenant(KindOf[r]) \in Pcs
            BY <1>r DEF AfterTenant
      <3>2. tenants[TenantOf[r]] \in Numbers
            BY SMTT(40), <2>2, ConstantsAssumption DEF TypeOK
      <3>3. [req[r] EXCEPT !.base = tenants[TenantOf[r]],
                           !.pc = AfterTenant(KindOf[r])] \in Request
            BY <1>0, <3>1, <3>2, RequestTyped
      <3>4. QED  BY <1>0, <2>2, <3>3, ReqTyped
    <2>3. QED  BY <1>5, <1>r, <2>1, <2>2 DEF ReadTenant
  <1>6. CASE CheckMissing(r)
    <2> DEFINE missing == Missing(req[r].existing)
               l == IF missing = EnvTypes /\ req[r].base = 0 THEN "newName" ELSE "cluster"
    <2>1. CASE Reply(r, "conflict")
          BY <1>0, <1>r, <2>1, GotoTyped
    <2>2. CASE RequestIs(r, [req[r] EXCEPT !.types = missing, !.pc = l])
      <3>1. missing \in SUBSET EnvTypes /\ l \in Pcs
            BY SMTT(40), <1>r DEF Missing
      <3>2. [req[r] EXCEPT !.types = missing, !.pc = l] \in Request
            BY <1>0, <3>1, RequestTyped
      <3>3. QED  BY <1>0, <2>2, <3>2, ReqTyped
    <2>3. QED  BY <1>6, <2>1, <2>2 DEF CheckMissing
  <1>7. CASE CallAction(r)
    <2>0. req[r].types \in SUBSET EnvTypes /\ {"create", "update", "delete"} \subseteq Stages
          BY <1>0 DEF Request, Stages
    <2>1. QED  BY <1>0, <1>r, <1>7, <2>0, GotoTyped, StartTyped DEF CallAction
  <1>8. CASE Join(r)
        BY <1>0, <1>r, <1>8, GotoTyped DEF Join
  <1>9. CASE Heal(r)
    <2> DEFINE current == [req[r] EXCEPT !.existing = RowsOf(TenantOf[r])]
               st == CASE req[r].stage = "create" -> "healDelete"
                       [] req[r].stage = "healDelete" -> "healRedelete"
                       [] req[r].stage = "delete" -> "redelete"
                       [] req[r].stage = "update" -> "reupdate"
    <2>1. CASE Reply(r, "error")
          BY <1>0, <1>r, <2>1, GotoTyped
    <2>2. CASE Start(r, st, EnvTypes, current)
      <3>1. current \in Request
            BY <1>0, <1>x, RequestTyped
      <3>2. st \in Stages
            BY <1>9 DEF HealsKnown, Heal, Stages
      <3>3. QED  BY <1>0, <2>2, <3>1, <3>2, StartTyped
    <2>3. QED  BY <1>9, <2>1, <2>2 DEF Heal
  <1>10. CASE CheckResults(r) \/ CheckCleaned(r)
    <2>1. AfterCheck(r) \/ Reply(r, "error")
          BY SMTT(40), <1>10 DEF CheckResults, CheckCleaned
    <2>2. CASE \E st \in Stages : RequestIs(r, [req[r] EXCEPT !.stage = st])
          BY <1>0, <2>2, RequestTyped, ReqTyped
    <2>3. QED  BY <1>0, <1>r, <2>1, <2>2, GotoTyped DEF AfterCheck, Stages
  <1>11. CASE CheckFails(r) \/ VerifyDeleted(r)
        BY <1>0, <1>r, <1>11, GotoTyped DEF CheckFails, VerifyDeleted
  <1>12. CASE SaveName(r)
    <2>1. CASE Start(r, "recreate", EnvTypes, req[r])
      <3>1. "recreate" \in Stages
            BY DEF Stages
      <3>2. QED  BY SMTT(40), <1>0, <2>1, <3>1, StartTyped
    <2>2. QED  BY <1>0, <1>r, <1>12, <2>1, GotoTyped DEF SaveName
  <1>13. QED
        BY <1>1, <1>2, <1>3, <1>4, <1>5, <1>6, <1>7, <1>8, <1>9, <1>10, <1>11, <1>12
           DEF HandlerStep

(* A goroutine that works on its namespace has the row of it.              *)
Working == {"sets", "project", "post", "objects", "second", "callback", "save"}

RowKnown(r, ty) == routine[r][ty].pc \in Working => routine[r][ty].row \in Row

LEMMA HandlerTyped ==
  ASSUME TypeOK, NEW r \in Requests, HealsKnown(r), HandlerStep(r)
  PROVE  TypeOK'
  <1>1. req' \in [Requests -> Request]
        BY HandlerReqTyped
  <1>2. faults' \in Nat
    <2>1. NoFault \/ \E kind : Fault(kind)
          BY ZenonT(60) DEF HandlerStep, CheckExists, ChooseName, InsertTenant, ReadNamespaces, ReadTenant,
                 CheckMissing, CallAction, Join, Heal, CheckResults, CheckCleaned, CheckFails,
                 VerifyDeleted, SaveName
    <2>2. QED  BY <2>1, FaultTyped DEF TypeOK
  <1>3. projects' = projects
        BY ZenonT(60) DEF HandlerStep, CheckExists, ChooseName, InsertTenant, ReadNamespaces, ReadTenant,
               CheckMissing, CallAction, Join, Heal, CheckResults, CheckCleaned, CheckFails,
               VerifyDeleted, SaveName
  <1>4. rows' \subseteq rows
        BY DEF HandlerStep, CheckExists, ChooseName, InsertTenant, ReadNamespaces, ReadTenant,
               CheckMissing, CallAction, Join, Heal, CheckResults, CheckCleaned, CheckFails,
               VerifyDeleted, SaveName
  <1>5. tenants' \in [Tenants -> Numbers \cup {NoName}]
    <2>1. req[r].base \in Numbers /\ TenantOf[r] \in Tenants
          BY ConstantsAssumption DEF TypeOK, Request
    <2>2. \/ tenants' = tenants
          \/ tenants' = [tenants EXCEPT ![TenantOf[r]] = req[r].base]
          \/ tenants' = [tenants EXCEPT ![TenantOf[r]] = NoName]
          BY ZenonT(60) DEF HandlerStep, CheckExists, ChooseName, InsertTenant, ReadNamespaces, ReadTenant,
                 CheckMissing, CallAction, Join, Heal, CheckResults, CheckCleaned, CheckFails,
                 VerifyDeleted, SaveName
    <2>3. QED  BY SMTT(40), <2>1, <2>2 DEF TypeOK
  <1>6. routine' \in [Requests -> [EnvTypes -> Routine]]
    <2>1. CASE UNCHANGED routine
          BY <2>1 DEF TypeOK
    <2>2. CASE routine' = [routine EXCEPT ![r] = [ty \in EnvTypes |-> IdleRoutine]]
          BY <2>2, AllIdleTyped
    <2>3. CASE \E st, types, q : Start(r, st, types, q)
          BY <2>3, StartRoutinesTyped
    <2>4. QED
          BY <2>1, <2>2, <2>3
             DEF HandlerStep, CheckExists, ChooseName, InsertTenant, ReadNamespaces, ReadTenant,
                 CheckMissing, CallAction, Join, Heal, CheckResults, CheckCleaned, CheckFails,
                 VerifyDeleted, SaveName
  <1>7. QED  BY <1>1, <1>2, <1>3, <1>4, <1>5, <1>6 DEF TypeOK

LEMMA RoutineStepTyped ==
  ASSUME TypeOK, NEW r \in Requests, NEW ty \in EnvTypes, RowKnown(r, ty), RoutineStep(r, ty)
  PROVE  TypeOK' /\ RowKnown(r, ty)'
  <1>0. /\ req \in [Requests -> Request] /\ req[r] \in Request
        /\ routine \in [Requests -> [EnvTypes -> Routine]]
        /\ routine[r][ty] \in Routine
        /\ TenantOf[r] \in Tenants
        BY ConstantsAssumption DEF TypeOK
  <1>1. faults' \in Nat
    <2>1. NoFault \/ \E kind : Fault(kind)
          BY ZenonT(60) DEF RoutineStep, CreateNamespace, GetExistingNamespace, GetOperationSets,
                 OperationSetsFail, TemplatesMissing, CheckProject, PostProject, DeleteProject,
                 ApplyObjects, ApplySecondSet, AfterCallback, UpdateNamespace
    <2>2. QED  BY <2>1, FaultTyped DEF TypeOK
  <1>2. tenants' = tenants
        BY DEF RoutineStep, CreateNamespace, GetExistingNamespace, GetOperationSets, Dies,
               OperationSetsFail, TemplatesMissing, CheckProject, PostProject, DeleteProject,
               ApplyObjects, ApplySecondSet, AfterCallback, UpdateNamespace
  <1>3. req' \in [Requests -> Request]
    <2>1. Send(r) \/ NoError \/ Goto(r, "crashed")
          BY ZenonT(60) DEF RoutineStep, CreateNamespace, GetExistingNamespace, GetOperationSets, Dies,
                 OperationSetsFail, TemplatesMissing, CheckProject, PostProject, DeleteProject,
                 ApplyObjects, ApplySecondSet, AfterCallback, UpdateNamespace, NextSet
    <2>2. "crashed" \in Pcs
          BY DEF Pcs
    <2>3. QED  BY SMTT(40), <1>0, <2>1, <2>2, GotoTyped
  <1>4. rows' \subseteq Row
    <2>1. CASE CreateNamespace(r, ty)
      <3>1. Creating(req[r].stage) => NewRow(r, ty) \in Row
            BY <1>0 DEF NewRow, Row, Creating, States, Request
      <3>2. QED  BY <2>1, <3>1 DEF CreateNamespace, TypeOK
    <2>2. CASE UpdateNamespace(r, ty)
      <3>1. routine[r][ty].row \in Row
            BY <2>2 DEF RowKnown, UpdateNamespace, In, Working
      <3>2. \A st \in States : [routine[r][ty].row EXCEPT !.state = st] \in Row
            BY <3>1 DEF Row
      <3>3. QED  BY <2>2, <3>2 DEF UpdateNamespace, Outcome, Saved, Deleted, TypeOK, States
    <2>3. CASE rows' = rows
          BY <2>3 DEF TypeOK
    <2>4. QED
          BY <2>1, <2>2, <2>3
             DEF RoutineStep, GetExistingNamespace, GetOperationSets, Dies,
                 OperationSetsFail, TemplatesMissing, CheckProject, PostProject, DeleteProject,
                 ApplyObjects, ApplySecondSet, AfterCallback
  <1>5. projects' \in [EnvTypes -> [Numbers -> Project]]
    <2>0. req[r].base \in Numbers /\ projects[ty][req[r].base] \in Project
          BY <1>0 DEF TypeOK, Request
    <2>1. CASE PostProject(r, ty)
      <3>1. [owner |-> TenantOf[r], phase |-> "active"] \in Project
            BY <1>0 DEF Project
      <3>2. QED  BY <2>0, <2>1, <3>1, ProjectsTyped DEF PostProject, TypeOK
    <2>2. CASE DeleteProject(r, ty)
      <3>1. [projects[ty][req[r].base] EXCEPT !.phase = "terminating"] \in Project
            BY <2>0 DEF Project
      <3>2. QED  BY <2>0, <2>2, <3>1, ProjectsTyped DEF DeleteProject, TypeOK
    <2>3. CASE projects' = projects
          BY <2>3 DEF TypeOK
    <2>4. QED
          BY <2>1, <2>2, <2>3
             DEF RoutineStep, CreateNamespace, GetExistingNamespace, GetOperationSets, Dies,
                 OperationSetsFail, TemplatesMissing, CheckProject,
                 ApplyObjects, ApplySecondSet, AfterCallback, UpdateNamespace
  <1>6. /\ routine' \in [Requests -> [EnvTypes -> Routine]]
        /\ RowKnown(r, ty)'
    <2>1. CASE \E g : /\ RoutineIs(r, ty, g) /\ g \in Routine
                      /\ g.pc \in Working => g.row \in Row
      <3>1. PICK g : /\ RoutineIs(r, ty, g) /\ g \in Routine
                     /\ g.pc \in Working => g.row \in Row
            BY <2>1
      <3>2. routine'[r][ty] = g
            BY <1>0, <3>1 DEF RoutineIs
      <3>3. QED  BY <1>0, <3>1, <3>2, RoutinesTyped DEF RowKnown
    <2>2. CASE routine' = [routine EXCEPT ![r] = [u \in EnvTypes |-> IdleRoutine]]
      <3>1. routine'[r][ty].pc = "none"
            BY <1>0, <2>2 DEF IdleRoutine
      <3>2. QED  BY <2>2, <3>1, AllIdleTyped DEF RowKnown, Working
    <2> DEFINE g0 == routine[r][ty]
               Allowed(g) == /\ RoutineIs(r, ty, g) /\ g \in Routine
                             /\ g.pc \in Working => g.row \in Row
    <2>a. \A pc \in {"sets", "project", "post", "objects", "second", "callback", "save", "end"} :
            /\ [g0 EXCEPT !.pc = pc] \in Routine
            /\ [g0 EXCEPT !.pc = pc].pc = pc /\ [g0 EXCEPT !.pc = pc].row = g0.row
            /\ \A b \in BOOLEAN :
                 /\ [g0 EXCEPT !.failed = b, !.pc = pc] \in Routine
                 /\ [g0 EXCEPT !.failed = b, !.pc = pc].row = g0.row
                 /\ [g0 EXCEPT !.second = b, !.pc = pc] \in Routine
                 /\ [g0 EXCEPT !.second = b, !.pc = pc].row = g0.row
            /\ \A x \in Row :
                 /\ [g0 EXCEPT !.pc = pc, !.row = x] \in Routine
                 /\ [g0 EXCEPT !.pc = pc, !.row = x].row = x
          BY ZenonT(60), <1>0 DEF Routine
    <2>b. g0.pc \in Working => g0.row \in Row
          BY DEF RowKnown
    <2>c. AfterSets(r, ty) \in {"callback", "save"}
          BY DEF AfterSets
    <2>d. ASSUME NEW pc \in {"second", "callback", "save"}, NEW b \in BOOLEAN, g0.row \in Row,
                 RoutineIs(r, ty, [g0 EXCEPT !.failed = b, !.pc = pc])
          PROVE  Allowed([g0 EXCEPT !.failed = b, !.pc = pc])
      <3>1. [g0 EXCEPT !.failed = b, !.pc = pc] \in Routine
            BY ZenonT(60), <2>a
      <3>2. [g0 EXCEPT !.failed = b, !.pc = pc].row = g0.row
            BY ZenonT(60), <2>a
      <3>3. QED  BY <2>d, <3>1, <3>2
    <2> HIDE DEF Allowed
    <2>e. (\E g : Allowed(g)) => /\ routine' \in [Requests -> [EnvTypes -> Routine]]
                               /\ RowKnown(r, ty)'
          BY <2>1 DEF Allowed
    <2> USE DEF Allowed
    <2>3. CASE CreateNamespace(r, ty)
      <3>1. NewRow(r, ty) \in Row
            BY <1>0, <2>3 DEF CreateNamespace, NewRow, Row, Creating, States, Request
      <3>2. \/ RoutineGoto(r, ty, "end")
            \/ RoutineIs(r, ty, [g0 EXCEPT !.pc = "sets", !.row = NewRow(r, ty)])
            BY <2>3 DEF CreateNamespace
      <3>3. "end" \notin Working
            BY DEF Working
      <3>4. \/ Allowed([g0 EXCEPT !.pc = "end"])
            \/ Allowed([g0 EXCEPT !.pc = "sets", !.row = NewRow(r, ty)])
            BY ZenonT(60), <2>a, <3>1, <3>2, <3>3 DEF RoutineGoto
      <3>5. QED  BY <2>1, <3>4
    <2>4. CASE GetExistingNamespace(r, ty)
      <3>1. req[r].existing \subseteq Row
            BY <1>0 DEF Request
      <3>2. \/ RoutineGoto(r, ty, "end")
            \/ \E x \in Row : RoutineIs(r, ty, [g0 EXCEPT !.pc = "sets", !.row = x])
            BY ZenonT(60), <2>4, <3>1 DEF GetExistingNamespace
      <3>3. "end" \notin Working
            BY DEF Working
      <3>4. \/ Allowed([g0 EXCEPT !.pc = "end"])
            \/ \E x \in Row : Allowed([g0 EXCEPT !.pc = "sets", !.row = x])
            BY ZenonT(60), <2>a, <3>2, <3>3 DEF RoutineGoto
      <3>5. QED  BY <2>1, <3>4
    <2>5. CASE GetOperationSets(r, ty)
      <3>1. \E pc \in {"project", "objects"}, b \in BOOLEAN :
              RoutineIs(r, ty, [g0 EXCEPT !.second = b, !.pc = pc])
            BY <2>5 DEF GetOperationSets
      <3>2. g0.row \in Row
            BY SMTT(40), <2>5, <2>b DEF GetOperationSets, In, Working
      <3>3. \E pc \in {"project", "objects"}, b \in BOOLEAN :
              Allowed([g0 EXCEPT !.second = b, !.pc = pc])
            BY ZenonT(60), <2>a, <3>1, <3>2
      <3>4. QED  BY <2>1, <3>3
    <2>6. CASE OperationSetsFail(r, ty)
      <3>1. RoutineIs(r, ty, [g0 EXCEPT !.failed = TRUE, !.pc = AfterSets(r, ty)])
            BY <2>6 DEF OperationSetsFail
      <3>2. g0.row \in Row
            BY SMTT(40), <2>6, <2>b DEF OperationSetsFail, In, Working
      <3> HIDE DEF Allowed
      <3>3. Allowed([g0 EXCEPT !.failed = TRUE, !.pc = AfterSets(r, ty)])
            BY <2>c, <2>d, <3>1, <3>2
      <3>4. QED  BY <2>e, <3>3
    <2>8. ASSUME NEW ok \in BOOLEAN, NextSet(r, ty, ok), g0.pc \in Working
          PROVE  /\ routine' \in [Requests -> [EnvTypes -> Routine]]
                 /\ RowKnown(r, ty)'
      <3> DEFINE more == g0.pc # "second" /\ g0.second
                 pc == IF more THEN "second" ELSE AfterSets(r, ty)
                 b == g0.failed \/ ~ok
      <3>1. RoutineIs(r, ty, [g0 EXCEPT !.failed = b, !.pc = pc])
            BY <2>8 DEF NextSet
      <3>2. b \in BOOLEAN /\ pc \in {"second", "callback", "save"}
            BY <1>0, <2>c DEF Routine
      <3>3. g0.row \in Row
            BY SMTT(40), <2>8, <2>b
      <3> HIDE DEF Allowed, b, pc
      <3>4. Allowed([g0 EXCEPT !.failed = b, !.pc = pc])
            BY <2>d, <3>1, <3>2, <3>3
      <3>5. QED  BY <2>e, <3>4
    <2>7. CASE CheckProject(r, ty) \/ PostProject(r, ty)
      <3>1. g0.pc \in Working
            BY <2>7 DEF CheckProject, PostProject, In, Working
      <3>2. CASE \E pc \in {"post", "objects"} : RoutineGoto(r, ty, pc)
        <4>1. \E pc \in {"post", "objects"} : Allowed([g0 EXCEPT !.pc = pc])
              BY ZenonT(60), <2>a, <2>b, <3>1, <3>2 DEF RoutineGoto
        <4>2. QED  BY ZenonT(60), <2>1, <4>1
      <3>3. QED  BY <2>7, <2>8, <3>1, <3>2 DEF CheckProject, PostProject
    <2>9. CASE AfterCallback(r, ty) \/ UpdateNamespace(r, ty)
      <3>1. g0.row \in Row
            BY <2>9, <2>b DEF AfterCallback, UpdateNamespace, In, Working
      <3>2. \/ RoutineIs(r, ty, [g0 EXCEPT !.pc = "save"])
            \/ RoutineIs(r, ty, [g0 EXCEPT !.pc = "end"])
            \/ RoutineIs(r, ty, [g0 EXCEPT !.pc = "save", !.failed = TRUE])
            BY <2>9 DEF AfterCallback, UpdateNamespace, RoutineGoto
      <3>3. /\ [g0 EXCEPT !.pc = "save", !.failed = TRUE] \in Routine
            /\ [g0 EXCEPT !.pc = "save", !.failed = TRUE].row = g0.row
            BY ZenonT(60), <1>0 DEF Routine
      <3>4. \/ Allowed([g0 EXCEPT !.pc = "save"])
            \/ Allowed([g0 EXCEPT !.pc = "end"])
            \/ Allowed([g0 EXCEPT !.pc = "save", !.failed = TRUE])
            BY ZenonT(60), <2>a, <3>1, <3>2, <3>3
      <3>5. QED  BY <2>1, <3>4
    <2>10. CASE TemplatesMissing(r, ty)
           BY <2>2, <2>10 DEF TemplatesMissing, Dies
    <2>11. CASE DeleteProject(r, ty) \/ ApplyObjects(r, ty) \/ ApplySecondSet(r, ty)
      <3>1. g0.pc \in Working
            BY <2>11 DEF DeleteProject, ApplyObjects, ApplySecondSet, In, Working
      <3>2. QED  BY <2>8, <2>11, <3>1 DEF DeleteProject, ApplyObjects, ApplySecondSet
    <2>12. QED
           BY <2>3, <2>4, <2>5, <2>6, <2>7, <2>9, <2>10, <2>11 DEF RoutineStep
  <1>7. QED  BY <1>1, <1>2, <1>3, <1>4, <1>5, <1>6 DEF TypeOK

-----------------------------------------------------------------------------
(* The type invariant *)

TypeInv ==
  /\ TypeOK
  /\ \A r \in Requests : HealsKnown(r) /\ \A ty \in EnvTypes : RowKnown(r, ty)

(* A step of a request changes no other request, and a step of a goroutine *)
(* no other goroutine unless it ends the process.                          *)
LEMMA HandlersApart ==
  ASSUME TypeOK, NEW r \in Requests, HandlerStep(r) \/ Begin(r) \/ Crash(r)
  PROVE  \A q \in Requests \ {r} : req'[q] = req[q] /\ routine'[q] = routine[q]
  <1>1. \E q : req' = [req EXCEPT ![r] = q]
    <2>1. CASE Begin(r) \/ Crash(r)
          BY <2>1 DEF Begin, Crash, Dies, Goto, RequestIs
    <2>2. CASE CheckExists(r) \/ ChooseName(r) \/ InsertTenant(r) \/ ReadNamespaces(r)
               \/ ReadTenant(r) \/ CheckMissing(r)
          BY <2>2 DEF CheckExists, ChooseName, InsertTenant, ReadNamespaces, ReadTenant,
                      CheckMissing, Goto, Reply, RequestIs
    <2>3. CASE CallAction(r) \/ Join(r) \/ Heal(r) \/ SaveName(r)
          BY <2>3 DEF CallAction, Join, Heal, SaveName, Start, Goto, Reply, RequestIs
    <2>4. CASE CheckResults(r) \/ CheckCleaned(r) \/ CheckFails(r) \/ VerifyDeleted(r)
          BY SMTT(40), <2>4 DEF CheckResults, CheckCleaned, CheckFails, VerifyDeleted, AfterCheck, Goto,
                      Reply, RequestIs
    <2>5. QED  BY <2>1, <2>2, <2>3, <2>4 DEF HandlerStep
  <1>2. \/ UNCHANGED routine
        \/ \E f : routine' = [routine EXCEPT ![r] = f]
        BY DEF Begin, Crash, Dies, HandlerStep, CheckExists, ChooseName, InsertTenant,
               ReadNamespaces, ReadTenant, CheckMissing, CallAction, Join, Heal, CheckResults,
               CheckCleaned, CheckFails, VerifyDeleted, SaveName, Start
  <1>3. QED  BY <1>1, <1>2 DEF TypeOK

LEMMA RoutinesApart ==
  ASSUME TypeOK, NEW r \in Requests, NEW ty \in EnvTypes, RoutineStep(r, ty)
  PROVE  /\ \A q \in Requests \ {r} : req'[q] = req[q] /\ routine'[q] = routine[q]
         /\ \/ \A u \in EnvTypes \ {ty} : routine'[r][u] = routine[r][u]
            \/ Dies(r)
  <1>1. \E q : req' = [req EXCEPT ![r] = q]
    <2>1. Send(r) \/ NoError \/ Goto(r, "crashed")
          BY ZenonT(60) DEF RoutineStep, CreateNamespace, GetExistingNamespace, GetOperationSets, Dies,
                 OperationSetsFail, TemplatesMissing, CheckProject, PostProject, DeleteProject,
                 ApplyObjects, ApplySecondSet, AfterCallback, UpdateNamespace, NextSet
    <2>2. NoError => req' = [req EXCEPT ![r] = req[r]]
          BY DEF NoError, TypeOK
    <2>3. QED  BY SMTT(40), <2>1, <2>2 DEF Send, Goto, RequestIs
  <1>2. (\E g : RoutineIs(r, ty, g)) \/ Dies(r)
        BY ZenonT(60) DEF RoutineStep, CreateNamespace, GetExistingNamespace, GetOperationSets,
               OperationSetsFail, TemplatesMissing, CheckProject, PostProject, DeleteProject,
               ApplyObjects, ApplySecondSet, AfterCallback, UpdateNamespace, NextSet, RoutineGoto
  <1>3. QED  BY <1>1, <1>2 DEF TypeOK, RoutineIs, Dies

LEMMA TypeInvInit == Init => TypeInv
  <1> SUFFICES ASSUME Init PROVE TypeInv
      OBVIOUS
  <1>1. tenants \in [Tenants -> Numbers \cup {NoName}]
        BY ConstantsAssumption DEF Init
  <1>2. rows \subseteq Row
    <2> SUFFICES ASSUME NEW t \in Tenants, InitialBase[t] # NoName,
                        NEW ty \in EnvTypes \cup LegacyTypes
                 PROVE  [by |-> NoRequest, stage |-> "create", tenant |-> t, type |-> ty,
                         base |-> InitialBase[t], state |-> "ready"] \in Row
        BY ConstantsAssumption DEF Init, InitialRows
    <2>1. InitialBase[t] \in Numbers
          BY ConstantsAssumption
    <2>2. QED  BY <2>1 DEF Row, States
  <1>3. projects \in [EnvTypes -> [Numbers -> Project]]
    <2> SUFFICES ASSUME NEW ty \in EnvTypes, NEW n \in Numbers
                 PROVE  projects[ty][n] \in Project
        BY DEF Init
    <2> DEFINE own == CHOOSE t \in Tenants : InitialBase[t] = n
    <2>1. (\E t \in Tenants : InitialBase[t] = n) => own \in Tenants
          OBVIOUS
    <2>2. \A o \in Tenants \cup {NoTenant} : [owner |-> o, phase |-> "active"] \in Project
          BY DEF Project
    <2> HIDE DEF own
    <2>3. projects[ty][n] \in {[owner |-> NoTenant, phase |-> "active"], Absent}
          \/ /\ \E t \in Tenants : InitialBase[t] = n
             /\ projects[ty][n] = [owner |-> own, phase |-> "active"]
          BY DEF Init, own
    <2>4. QED  BY <2>1, <2>2, <2>3, IdleTyped
  <1>4. req \in [Requests -> Request] /\ routine \in [Requests -> [EnvTypes -> Routine]]
        BY IdleTyped DEF Init
  <1>5. \A r \in Requests : HealsKnown(r) /\ \A ty \in EnvTypes : RowKnown(r, ty)
    <2> TAKE r \in Requests
    <2>1. req[r].pc = "idle" /\ \A ty \in EnvTypes : routine[r][ty].pc = "none"
          BY DEF Init, IdleRequest, IdleRoutine
    <2>2. QED  BY <2>1 DEF HealsKnown, RowKnown, Working, At
  <1>6. QED  BY <1>1, <1>2, <1>3, <1>4, <1>5, ConstantsAssumption DEF TypeInv, TypeOK, Init

LEMMA HandlerRoutines ==
  ASSUME TypeOK, NEW r \in Requests, HandlerStep(r) \/ Begin(r) \/ Crash(r),
         NEW ty \in EnvTypes
  PROVE  routine'[r][ty] = routine[r][ty] \/ routine'[r][ty].pc \in {"none", "entity"}
  <1>1. [IdleRoutine EXCEPT !.pc = "entity"].pc = "entity" /\ IdleRoutine.pc = "none"
        BY SMTT(40) DEF IdleRoutine
  <1>2. \/ UNCHANGED routine
        \/ routine' = [routine EXCEPT ![r] = [u \in EnvTypes |-> IdleRoutine]]
        \/ \E st, types, q : Start(r, st, types, q)
        BY DEF Begin, Crash, Dies, HandlerStep, CheckExists, ChooseName, InsertTenant,
               ReadNamespaces, ReadTenant, CheckMissing, CallAction, Join, Heal, CheckResults,
               CheckCleaned, CheckFails, VerifyDeleted, SaveName
  <1>3. ASSUME NEW st, NEW types, NEW q, Start(r, st, types, q)
        PROVE  routine'[r][ty].pc \in {"none", "entity"}
    <2>1. routine'[r] = [u \in EnvTypes |->
                           IF u \in types THEN [IdleRoutine EXCEPT !.pc = "entity"] ELSE IdleRoutine]
          BY <1>3 DEF Start, TypeOK
    <2>2. routine'[r][ty] \in {[IdleRoutine EXCEPT !.pc = "entity"], IdleRoutine}
          BY <2>1
    <2>3. QED  BY <1>1, <2>2
  <1>4. QED  BY <1>1, <1>2, <1>3 DEF TypeOK

LEMMA TypeInvStep == TypeInv /\ [Next]_vars => TypeInv'
  <1> SUFFICES ASSUME TypeInv, [Next]_vars PROVE TypeInv'
      OBVIOUS
  <1>0. TypeOK
        BY DEF TypeInv
  <1>1. ASSUME NEW r \in Requests, HandlerStep(r) \/ Begin(r) \/ Crash(r)
        PROVE  TypeInv'
    <2>1. TypeOK'
      <3>1. CASE HandlerStep(r)
            BY <3>1, HandlerTyped DEF TypeInv
      <3>2. CASE Begin(r)
        <4>1. FirstRead(KindOf[r]) \in Pcs
              BY DEF FirstRead, Pcs
        <4>2. QED  BY <1>0, <3>2, <4>1, GotoTyped, FaultTyped DEF Begin, TypeOK
      <3>3. CASE Crash(r)
        <4>1. "crashed" \in Pcs
              BY DEF Pcs
        <4>2. routine' \in [Requests -> [EnvTypes -> Routine]]
              BY <1>0, <3>3, AllIdleTyped DEF Crash, Dies
        <4>3. QED  BY <1>0, <3>3, <4>1, <4>2, GotoTyped, FaultTyped DEF Crash, Dies, TypeOK
      <3>4. QED  BY <1>1, <3>1, <3>2, <3>3
    <2>2. HealsKnown(r)'
      <3>1. CASE HandlerStep(r)
            BY <1>0, <3>1, HealsKnownKept
      <3>2. CASE Begin(r)
        <4>1. FirstRead(KindOf[r]) # "heal"
              BY DEF FirstRead
        <4>2. req'[r].pc = FirstRead(KindOf[r])
              BY <1>0, <3>2 DEF Begin, Goto, RequestIs, TypeOK, Request
        <4>3. QED  BY <4>1, <4>2 DEF HealsKnown, At
      <3>3. CASE Crash(r)
            BY <1>0, <3>3 DEF Crash, Dies, Goto, RequestIs, TypeOK, Request, HealsKnown, At
      <3>4. QED  BY <1>1, <3>1, <3>2, <3>3
    <2>3. \A ty \in EnvTypes : RowKnown(r, ty)'
          BY <1>0, <1>1, HandlerRoutines DEF TypeInv, RowKnown, Working
    <2>4. \A q \in Requests \ {r} : HealsKnown(q)' /\ \A ty \in EnvTypes : RowKnown(q, ty)'
          BY <1>0, <1>1, HandlersApart DEF TypeInv, HealsKnown, RowKnown, At
    <2>5. QED  BY <2>1, <2>2, <2>3, <2>4 DEF TypeInv
  <1>2. ASSUME NEW r \in Requests, NEW ty \in EnvTypes, RoutineStep(r, ty)
        PROVE  TypeInv'
    <2>1. TypeOK' /\ RowKnown(r, ty)'
          BY <1>2, RoutineStepTyped DEF TypeInv
    <2>2. HealsKnown(r)'
      <3>1. At(r, "apply")
            BY ZenonT(60), <1>2 DEF RoutineStep, CreateNamespace, GetExistingNamespace, GetOperationSets,
                 OperationSetsFail, TemplatesMissing, CheckProject, PostProject, DeleteProject,
                 ApplyObjects, ApplySecondSet, AfterCallback, UpdateNamespace, In
      <3>2. Send(r) \/ NoError \/ Goto(r, "crashed")
            BY <1>2 DEF RoutineStep, CreateNamespace, GetExistingNamespace, GetOperationSets, Dies,
                 OperationSetsFail, TemplatesMissing, CheckProject, PostProject, DeleteProject,
                 ApplyObjects, ApplySecondSet, AfterCallback, UpdateNamespace, NextSet
      <3>3. req'[r].pc # "heal"
            BY <1>0, <3>1, <3>2 DEF At, Send, NoError, Goto, RequestIs, TypeOK, Request
      <3>4. QED  BY SMTT(40), <3>3 DEF HealsKnown, At
    <2>3. \A u \in EnvTypes \ {ty} : RowKnown(r, u)'
      <3>1. CASE Dies(r)
        <4>1. \A u \in EnvTypes : routine'[r][u].pc = "none"
              BY <1>0, <3>1 DEF Dies, TypeOK, IdleRoutine
        <4>2. QED  BY <4>1 DEF RowKnown, Working
      <3>2. QED  BY <1>0, <1>2, <3>1, RoutinesApart DEF TypeInv, RowKnown
    <2>4. \A q \in Requests \ {r} : HealsKnown(q)' /\ \A u \in EnvTypes : RowKnown(q, u)'
          BY <1>0, <1>2, RoutinesApart DEF TypeInv, HealsKnown, RowKnown, At
    <2>5. QED  BY <2>1, <2>2, <2>3, <2>4 DEF TypeInv
  <1>3. ASSUME NEW ty \in EnvTypes, NEW n \in Numbers, ProjectRemoved(ty, n)
        PROVE  TypeInv'
    <2>1. TypeOK'
          BY <1>0, <1>3, IdleTyped, ProjectsTyped, FaultTyped DEF ProjectRemoved, TypeOK
    <2>2. QED  BY <1>3, <2>1 DEF TypeInv, HealsKnown, RowKnown, At, ProjectRemoved
  <1>4. CASE UNCHANGED vars
        BY <1>4 DEF TypeInv, TypeOK, HealsKnown, RowKnown, At, vars
  <1>5. QED  BY <1>1, <1>2, <1>3, <1>4 DEF Next

(* TypeOK: tables, projects, requests and goroutines keep their types for  *)
(* any requests at once; in particular a goroutine that works on a         *)
(* namespace has a row of it, and what is healed is known (action.go).     *)
THEOREM TypeCorrect == Spec => []TypeOK
  <1>1. TypeInv => TypeOK
        BY DEF TypeInv
  <1>2. QED  BY <1>1, TypeInvInit, TypeInvStep, PTL DEF Spec

-----------------------------------------------------------------------------
(* The invariant of the tables                                             *)
(*                                                                         *)
(* The handlers and the goroutines take several steps, each of which is a  *)
(* transaction or a request of its own. The properties of the tables hold  *)
(* when the requests of one tenant follow each other, because then what a  *)
(* request has read still holds when it is used.                           *)

Serial ==
  \A q, r \in Requests : q # r /\ TenantOf[q] = TenantOf[r] => {q, r} \notin Overlap

Active(r) == req[r].pc \notin {"idle", "done", "crashed"}

OneAtATime ==
  \A q, r \in Requests : q # r /\ TenantOf[q] = TenantOf[r] => ~(Active(q) /\ Active(r))

(* A base name that is not compliant is of a tenant without legacy types.  *)
OldNames == LegacyTypes = {} \/ \A t \in Tenants : tenants[t] # 0

(* Only a setup creates.                                                   *)
SetupOnly(r) ==
  req[r].pc \in {"exists", "name", "insert", "missing", "newName", "saveName"}
    \/ req[r].stage \in {"create", "healDelete", "healRedelete", "recreate"}
  => KindOf[r] = "setup"

(* What a request has read still holds.                                    *)
BaseRead(r) ==
  /\ req[r].pc \in {"missing", "cluster", "apply", "heal"} =>
       tenants[TenantOf[r]] = req[r].base
  /\ KindOf[r] \in {"delete", "update"} /\ req[r].pc = "namespaces" =>
       tenants[TenantOf[r]] = req[r].base
  /\ req[r].pc \in {"insert", "saveName"} => req[r].base # 0

RowsRead(r) ==
  LET own == RowsOf(TenantOf[r])
  IN  /\ \/ req[r].pc = "missing"
         \/ req[r].pc = "tenant" /\ KindOf[r] \notin {"delete", "update"}
         \/ req[r].pc = "cluster" /\ KindOf[r] # "setup"
         => req[r].existing = own
      /\ req[r].pc \in {"newName", "saveName"} => own = {}
      /\ req[r].pc = "cluster" /\ KindOf[r] = "setup" => \A x \in own : x.type \notin req[r].types

(* A goroutine finds its row in the table until it is done with it; the    *)
(* one that creates it has found none; and the one that removes it has not *)
(* left the project.                                                       *)
RoutineInv(r, ty) ==
  LET g == routine[r][ty]
      own == RowsOf(TenantOf[r])
  IN  /\ req[r].pc # "apply" => g.pc = "none"
      /\ g.pc = "entity" =>
           /\ ~g.second
           /\ Creating(req[r].stage) => \A x \in own : x.type # ty
           /\ ~Creating(req[r].stage) => \A x \in req[r].existing : x.type = ty => x \in own
      /\ g.pc \in Working => g.row \in own /\ g.row.type = ty
      /\ Removes(r) /\ g.pc \in Working => g.pc \in {"sets", "project", "save"} /\ ~g.second
      /\ Removes(r) /\ g.pc = "save" /\ ~g.failed =>
           LET p == projects[ty][req[r].base]
           IN  ~(p.phase = "active" /\ p.owner = TenantOf[r])

ReqInv(r) ==
  SetupOnly(r) /\ BaseRead(r) /\ RowsRead(r) /\ \A ty \in EnvTypes : RoutineInv(r, ty)

TableInv ==
  /\ TypeInv
  /\ OneAtATime /\ OldNames
  /\ RowsFollowBaseName /\ OneRowPerType /\ NothingLeftBehind
  /\ \A r \in Requests : ReqInv(r)

(* A step of a request leaves the rows and the name of other tenants as    *)
(* they are, and gives them no project.                                    *)
Frame(r) ==
  /\ \A t \in Tenants \ {TenantOf[r]} : tenants'[t] = tenants[t] /\ RowsOf(t)' = RowsOf(t)
  /\ \A ty \in EnvTypes, n \in Numbers :
       projects'[ty][n].phase = "active" /\ projects'[ty][n].owner # TenantOf[r] =>
         projects'[ty][n] = projects[ty][n]

LEMMA OthersInv ==
  ASSUME TableInv, NEW r \in Requests, NEW q \in Requests \ {r}, Active(r), Frame(r),
         req'[q] = req[q], routine'[q] = routine[q]
  PROVE  ReqInv(q)'
  <1>0. /\ TenantOf[q] \in Tenants /\ TenantOf[r] \in Tenants
        /\ req[q] \in Request
        /\ ReqInv(q)
        BY ConstantsAssumption DEF TableInv, TypeInv, TypeOK
  <1>1. CASE TenantOf[q] = TenantOf[r]
    <2>1. req[q].pc \in {"idle", "done", "crashed"}
          BY <1>1 DEF TableInv, OneAtATime, Active
    <2>2. SetupOnly(q)'
          BY <1>0 DEF ReqInv, SetupOnly
    <2>3. BaseRead(q)' /\ RowsRead(q)'
          BY <2>1 DEF BaseRead, RowsRead
    <2>4. \A ty \in EnvTypes : routine[q][ty].pc = "none"
          BY <1>0, <2>1 DEF ReqInv, RoutineInv
    <2>5. \A ty \in EnvTypes : RoutineInv(q, ty)'
          BY <2>4 DEF RoutineInv, Working
    <2>6. QED  BY <2>2, <2>3, <2>5 DEF ReqInv
  <1>2. CASE TenantOf[q] # TenantOf[r]
    <2>1. tenants'[TenantOf[q]] = tenants[TenantOf[q]] /\ RowsOf(TenantOf[q])' = RowsOf(TenantOf[q])
          BY <1>0, <1>2 DEF Frame
    <2>2. SetupOnly(q)' /\ BaseRead(q)' /\ RowsRead(q)'
          BY <1>0, <2>1 DEF ReqInv, SetupOnly, BaseRead, RowsRead
    <2>3. ASSUME NEW ty \in EnvTypes
          PROVE  RoutineInv(q, ty)'
      <3>1. RoutineInv(q, ty) /\ req[q].base \in Numbers
            BY <1>0 DEF ReqInv, Request
      <3>2. Removes(q)' = Removes(q)
            BY DEF Removes
      <3>3. projects'[ty][req[q].base].phase = "active"
              /\ projects'[ty][req[q].base].owner = TenantOf[q] =>
            projects'[ty][req[q].base] = projects[ty][req[q].base]
            BY <1>2, <3>1 DEF Frame
      <3>4. QED  BY <2>1, <3>1, <3>2, <3>3 DEF RoutineInv
    <2>4. QED  BY <2>2, <2>3 DEF ReqInv
  <1>3. QED  BY <1>1, <1>2

(* A request that does nothing in its goroutines.                          *)
LEMMA NoRoutines ==
  ASSUME NEW r \in Requests, \A ty \in EnvTypes : routine'[r][ty].pc = "none"
  PROVE  \A ty \in EnvTypes : RoutineInv(r, ty)'
  BY DEF RoutineInv, Working

LEMMA StartedFields ==
  ASSUME TypeOK, NEW r \in Requests, NEW st \in Stages, NEW types \in SUBSET EnvTypes,
         NEW q \in Request, Start(r, st, types, q)
  PROVE  /\ req'[r].pc = "apply" /\ req'[r].stage = st /\ req'[r].types = types
         /\ req'[r].base = q.base /\ req'[r].existing = q.existing
         /\ \A ty \in EnvTypes :
              /\ routine'[r][ty].pc \in {"none", "entity"} /\ ~routine'[r][ty].second
              /\ routine'[r][ty].pc = "entity" => ty \in types
  <1>1. req'[r] = [q EXCEPT !.pc = "apply", !.stage = st, !.types = types, !.errs = 0]
        BY DEF Start, RequestIs, TypeOK
  <1>2. /\ req'[r].pc = "apply" /\ req'[r].stage = st /\ req'[r].types = types
        /\ req'[r].base = q.base /\ req'[r].existing = q.existing
        BY <1>1 DEF Request
  <1>3. ASSUME NEW ty \in EnvTypes
        PROVE  /\ routine'[r][ty].pc \in {"none", "entity"} /\ ~routine'[r][ty].second
               /\ routine'[r][ty].pc = "entity" => ty \in types
    <2>1. routine'[r] = [u \in EnvTypes |->
                           IF u \in types THEN [IdleRoutine EXCEPT !.pc = "entity"] ELSE IdleRoutine]
          BY DEF Start, TypeOK
    <2>2. routine'[r][ty] = IF ty \in types THEN [IdleRoutine EXCEPT !.pc = "entity"] ELSE IdleRoutine
          BY <2>1
    <2>3. QED  BY <2>2 DEF IdleRoutine
  <1>4. QED  BY <1>2, <1>3

(* A creation that is started finds no rows of its types, and anything     *)
(* else finds the rows that the request has.                               *)
LEMMA StartedInv ==
  ASSUME TypeOK, NEW r \in Requests, NEW st \in Stages, NEW types \in SUBSET EnvTypes,
         NEW q \in Request, Start(r, st, types, q), UNCHANGED rows,
         tenants'[TenantOf[r]] = q.base,
         st \in {"create", "healDelete", "healRedelete", "recreate"} => KindOf[r] = "setup",
         Creating(st) => \A x \in RowsOf(TenantOf[r]) : x.type \notin types,
         ~Creating(st) => q.existing = RowsOf(TenantOf[r])
  PROVE  ReqInv(r)'
  <1>1. /\ req'[r].pc = "apply" /\ req'[r].stage = st /\ req'[r].types = types
        /\ req'[r].base = q.base /\ req'[r].existing = q.existing
        /\ \A ty \in EnvTypes :
              /\ routine'[r][ty].pc \in {"none", "entity"} /\ ~routine'[r][ty].second
              /\ routine'[r][ty].pc = "entity" => ty \in types
        BY StartedFields
  <1>2. SetupOnly(r)' /\ BaseRead(r)' /\ RowsRead(r)'
        BY <1>1 DEF SetupOnly, BaseRead, RowsRead
  <1>3. RowsOf(TenantOf[r])' = RowsOf(TenantOf[r])
        BY DEF RowsOf
  <1>4. ASSUME NEW ty \in EnvTypes
        PROVE  RoutineInv(r, ty)'
        BY <1>1, <1>3 DEF RoutineInv, Working
  <1>5. QED  BY <1>2, <1>4 DEF ReqInv

LEMMA RepliedInv ==
  ASSUME TypeOK, NEW r \in Requests, NEW a, SetupOnly(r), Reply(r, a),
         \A ty \in EnvTypes : routine'[r][ty].pc = "none"
  PROVE  ReqInv(r)'
  <1>1. req'[r].pc = "done" /\ req'[r].stage = req[r].stage
        BY DEF Reply, RequestIs, TypeOK, Request
  <1>2. SetupOnly(r)' /\ BaseRead(r)' /\ RowsRead(r)'
        BY <1>1 DEF SetupOnly, BaseRead, RowsRead
  <1>3. QED  BY <1>2, NoRoutines DEF ReqInv

-----------------------------------------------------------------------------
(* The handlers *)

LEMMA Quiet ==
  ASSUME NEW r \in Requests, ReqInv(r), ~At(r, "apply")
  PROVE  \A ty \in EnvTypes : routine[r][ty].pc = "none"
  BY DEF ReqInv, RoutineInv, At

(* A handler that only goes on.                                            *)
LEMMA GoneInv ==
  ASSUME TypeOK, NEW r \in Requests, NEW pc \in {"namespaces", "name", "heal", "check", "verify"},
         SetupOnly(r), Goto(r, pc), pc = "name" => KindOf[r] = "setup",
         pc = "namespaces" => KindOf[r] \notin {"delete", "update"},
         pc = "heal" => tenants'[TenantOf[r]] = req[r].base,
         \A ty \in EnvTypes : routine'[r][ty].pc = "none"
  PROVE  ReqInv(r)'
  <1>1. req'[r].pc = pc /\ req'[r].stage = req[r].stage /\ req'[r].base = req[r].base
        BY DEF Goto, RequestIs, TypeOK, Request
  <1>2. SetupOnly(r)' /\ BaseRead(r)' /\ RowsRead(r)'
        BY <1>1 DEF SetupOnly, BaseRead, RowsRead
  <1>3. QED  BY <1>2, NoRoutines DEF ReqInv

LEMMA CheckExistsInv ==
  ASSUME TableInv, NEW r \in Requests, CheckExists(r)
  PROVE  ReqInv(r)'
  <1>0. TypeOK /\ ReqInv(r) /\ SetupOnly(r)
        BY DEF TableInv, TypeInv, ReqInv
  <1>1. KindOf[r] = "setup"
        BY <1>0 DEF CheckExists, SetupOnly, At
  <1>2. \A ty \in EnvTypes : routine'[r][ty].pc = "none"
        BY <1>0, Quiet DEF CheckExists, At
  <1>3. Goto(r, "namespaces") \/ Goto(r, "name")
        BY DEF CheckExists
  <1>4. QED  BY <1>0, <1>1, <1>2, <1>3, GoneInv

LEMMA ChooseNameInv ==
  ASSUME TableInv, NEW r \in Requests, ChooseName(r)
  PROVE  ReqInv(r)'
  <1>0. /\ TypeOK /\ ReqInv(r) /\ SetupOnly(r) /\ RowsRead(r)
        /\ req[r] \in Request
        BY DEF TableInv, TypeInv, TypeOK, ReqInv
  <1>1. KindOf[r] = "setup"
        BY <1>0 DEF ChooseName, SetupOnly
  <1>2. \A ty \in EnvTypes : routine'[r][ty].pc = "none"
        BY <1>0, Quiet DEF ChooseName, At
  <1>3. CASE Reply(r, "error")
        BY <1>0, <1>2, <1>3, RepliedInv
  <1>4. ASSUME NEW n \in Numbers, ConstructNsBaseName(n),
               RequestIs(r, [req[r] EXCEPT !.base = n,
                               !.pc = IF @ = "name" THEN "insert" ELSE "saveName"])
        PROVE  ReqInv(r)'
    <2>1. /\ req'[r].base = n /\ req'[r].stage = req[r].stage
          /\ req'[r].pc = IF req[r].pc = "name" THEN "insert" ELSE "saveName"
          BY <1>0, <1>4 DEF RequestIs, TypeOK, Request
    <2>2. n # 0
          BY <1>4 DEF ConstructNsBaseName
    <2>3. req'[r].pc = "saveName" => RowsOf(TenantOf[r])' = {}
          BY <1>0, <2>1 DEF ChooseName, RowsRead, RowsOf
    <2>4. SetupOnly(r)' /\ BaseRead(r)' /\ RowsRead(r)'
          BY <1>1, <2>1, <2>2, <2>3 DEF SetupOnly, BaseRead, RowsRead
    <2>5. QED  BY <1>2, <2>4, NoRoutines DEF ReqInv
  <1>5. QED  BY <1>3, <1>4 DEF ChooseName

(* Without a row in tenants a tenant has no namespaces.                    *)
LEMMA NobodysRows ==
  ASSUME TypeOK, RowsFollowBaseName, NEW t \in Tenants, tenants[t] = NoName
  PROVE  RowsOf(t) = {}
  <1>1. \A x \in rows : x.base \in Numbers
        BY DEF TypeOK, Row
  <1>2. QED  BY <1>1, ConstantsAssumption DEF RowsFollowBaseName, RowsOf

LEMMA InsertTenantInv ==
  ASSUME TableInv, NEW r \in Requests, InsertTenant(r)
  PROVE  ReqInv(r)'
  <1>0. /\ TypeOK /\ ReqInv(r) /\ SetupOnly(r) /\ RowsRead(r) /\ RowsFollowBaseName
        /\ req[r] \in Request /\ TenantOf[r] \in Tenants
        BY ConstantsAssumption DEF TableInv, TypeInv, TypeOK, ReqInv
  <1>1. KindOf[r] = "setup"
        BY <1>0 DEF InsertTenant, SetupOnly, At
  <1>2. \A ty \in EnvTypes : routine'[r][ty].pc = "none"
        BY <1>0, Quiet DEF InsertTenant, At
  <1>3. CASE \E a : Reply(r, a)
        BY <1>0, <1>2, <1>3, RepliedInv
  <1>4. CASE /\ tenants[TenantOf[r]] = NoName
             /\ tenants' = [tenants EXCEPT ![TenantOf[r]] = req[r].base]
             /\ RequestIs(r, [req[r] EXCEPT !.pc = "missing", !.existing = {}])
    <2>1. /\ req'[r].base = req[r].base /\ req'[r].stage = req[r].stage
          /\ req'[r].pc = "missing" /\ req'[r].existing = {}
          BY <1>0, <1>4 DEF RequestIs, TypeOK, Request
    <2>2. tenants'[TenantOf[r]] = req[r].base
          BY <1>0, <1>4 DEF TypeOK
    <2>3. RowsOf(TenantOf[r])' = {}
          BY <1>0, <1>4, NobodysRows DEF InsertTenant, RowsOf
    <2>4. SetupOnly(r)' /\ BaseRead(r)' /\ RowsRead(r)'
          BY <1>1, <2>1, <2>2, <2>3 DEF SetupOnly, BaseRead, RowsRead
    <2>5. QED  BY <1>2, <2>4, NoRoutines DEF ReqInv
  <1>5. QED  BY <1>3, <1>4 DEF InsertTenant

LEMMA ReadNamespacesInv ==
  ASSUME TableInv, NEW r \in Requests, ReadNamespaces(r)
  PROVE  ReqInv(r)'
  <1>0. /\ TypeOK /\ ReqInv(r) /\ SetupOnly(r) /\ BaseRead(r)
        /\ req[r] \in Request
        BY DEF TableInv, TypeInv, TypeOK, ReqInv
  <1>2. \A ty \in EnvTypes : routine'[r][ty].pc = "none"
        BY <1>0, Quiet DEF ReadNamespaces, At
  <1>3. CASE Reply(r, "error")
        BY <1>0, <1>2, <1>3, RepliedInv
  <1>4. CASE RequestIs(r, [req[r] EXCEPT !.existing = RowsOf(TenantOf[r]),
                             !.pc = AfterNamespaces(KindOf[r])])
    <2>1. /\ req'[r].base = req[r].base /\ req'[r].stage = req[r].stage
          /\ req'[r].pc = AfterNamespaces(KindOf[r]) /\ req'[r].existing = RowsOf(TenantOf[r])
          BY <1>0, <1>4 DEF RequestIs, TypeOK, Request
    <2>2. RowsOf(TenantOf[r])' = RowsOf(TenantOf[r]) /\ tenants' = tenants
          BY DEF ReadNamespaces, RowsOf
    <2>3. SetupOnly(r)' /\ BaseRead(r)' /\ RowsRead(r)'
          BY <1>0, <2>1, <2>2
             DEF ReadNamespaces, At, AfterNamespaces, SetupOnly, BaseRead, RowsRead
    <2>4. QED  BY <1>2, <2>3, NoRoutines DEF ReqInv
  <1>5. QED  BY <1>3, <1>4 DEF ReadNamespaces

LEMMA ReadTenantInv ==
  ASSUME TableInv, NEW r \in Requests, ReadTenant(r)
  PROVE  ReqInv(r)'
  <1>0. /\ TypeOK /\ ReqInv(r) /\ SetupOnly(r) /\ RowsRead(r)
        /\ req[r] \in Request
        BY DEF TableInv, TypeInv, TypeOK, ReqInv
  <1>2. \A ty \in EnvTypes : routine'[r][ty].pc = "none"
        BY <1>0, Quiet DEF ReadTenant, At
  <1>3. CASE Reply(r, "error")
        BY <1>0, <1>2, <1>3, RepliedInv
  <1>4. CASE RequestIs(r, [req[r] EXCEPT !.base = tenants[TenantOf[r]],
                             !.pc = AfterTenant(KindOf[r])])
    <2>1. /\ req'[r].base = tenants[TenantOf[r]] /\ req'[r].stage = req[r].stage
          /\ req'[r].pc = AfterTenant(KindOf[r]) /\ req'[r].existing = req[r].existing
          BY <1>0, <1>4 DEF RequestIs, TypeOK, Request
    <2>2. RowsOf(TenantOf[r])' = RowsOf(TenantOf[r]) /\ tenants' = tenants
          BY DEF ReadTenant, RowsOf
    <2>3. SetupOnly(r)' /\ BaseRead(r)'
          BY <1>0, <2>1, <2>2 DEF AfterTenant, SetupOnly, BaseRead
    <2>4. KindOf[r] \in Kinds
          BY ConstantsAssumption
    <2>5. RowsRead(r)'
          BY <1>0, <2>1, <2>2, <2>4 DEF ReadTenant, At, AfterTenant, RowsRead, Kinds
    <2>6. QED  BY <1>2, <2>3, <2>5, NoRoutines DEF ReqInv
  <1>5. QED  BY <1>3, <1>4 DEF ReadTenant

LEMMA CheckMissingInv ==
  ASSUME TableInv, NEW r \in Requests, CheckMissing(r)
  PROVE  ReqInv(r)'
  <1>0. /\ TypeOK /\ ReqInv(r) /\ SetupOnly(r) /\ BaseRead(r) /\ RowsRead(r) /\ OldNames
        /\ req[r] \in Request /\ TenantOf[r] \in Tenants
        BY ConstantsAssumption DEF TableInv, TypeInv, TypeOK, ReqInv
  <1>2. \A ty \in EnvTypes : routine'[r][ty].pc = "none"
        BY <1>0, Quiet DEF CheckMissing, At
  <1>3. CASE Reply(r, "conflict")
        BY <1>0, <1>2, <1>3, RepliedInv
  <1> DEFINE missing == Missing(req[r].existing)
             l == IF missing = EnvTypes /\ req[r].base = 0 THEN "newName" ELSE "cluster"
  <1>4. CASE RequestIs(r, [req[r] EXCEPT !.types = missing, !.pc = l])
    <2>0. KindOf[r] = "setup" /\ req[r].existing = RowsOf(TenantOf[r])
          /\ tenants[TenantOf[r]] = req[r].base
          BY <1>0 DEF CheckMissing, SetupOnly, RowsRead, BaseRead, At
    <2>1. /\ req'[r].base = req[r].base /\ req'[r].stage = req[r].stage
          /\ req'[r].pc = l /\ req'[r].types = missing
          BY <1>0, <1>4 DEF RequestIs, TypeOK, Request
    <2>2. RowsOf(TenantOf[r])' = RowsOf(TenantOf[r]) /\ tenants' = tenants
          BY DEF CheckMissing, RowsOf
    <2>3. \A x \in RowsOf(TenantOf[r]) : x.type \notin missing
          BY <2>0 DEF Missing
    <2>4. l = "newName" => RowsOf(TenantOf[r]) = {}
      <3>1. SUFFICES ASSUME l = "newName", NEW x \in RowsOf(TenantOf[r])
                     PROVE  FALSE
            OBVIOUS
      <3>2. LegacyTypes = {}
            BY <1>0, <2>0, <3>1 DEF OldNames
      <3>3. x.type \in EnvTypes
            BY <1>0, <3>2 DEF TypeOK, Row, RowsOf
      <3>4. QED  BY <2>3, <3>1, <3>3
    <2>5. l \in {"newName", "cluster"}
          OBVIOUS
    <2> HIDE DEF l, missing
    <2>6. SetupOnly(r)' /\ BaseRead(r)' /\ RowsRead(r)'
          BY <1>0, <2>0, <2>1, <2>2, <2>3, <2>4, <2>5 DEF SetupOnly, BaseRead, RowsRead
    <2>7. QED  BY <1>2, <2>6, NoRoutines DEF ReqInv
  <1>5. QED  BY <1>3, <1>4 DEF CheckMissing

LEMMA CallActionInv ==
  ASSUME TableInv, NEW r \in Requests, CallAction(r)
  PROVE  ReqInv(r)'
  <1>0. /\ TypeOK /\ ReqInv(r) /\ SetupOnly(r) /\ BaseRead(r) /\ RowsRead(r)
        /\ req[r] \in Request /\ req[r].types \in SUBSET EnvTypes
        BY DEF TableInv, TypeInv, TypeOK, ReqInv, Request
  <1>1. tenants'[TenantOf[r]] = req[r].base /\ UNCHANGED rows
        BY <1>0 DEF CallAction, BaseRead, At
  <1>2. CASE Reply(r, "error") /\ UNCHANGED routine
    <2>1. \A ty \in EnvTypes : routine'[r][ty].pc = "none"
          BY <1>0, <1>2, Quiet DEF CallAction, At
    <2>2. QED  BY <1>0, <1>2, <2>1, RepliedInv
  <1>3. CASE KindOf[r] = "setup" /\ Start(r, "create", req[r].types, req[r])
    <2>1. \A x \in RowsOf(TenantOf[r]) : x.type \notin req[r].types
          BY <1>0, <1>3 DEF CallAction, RowsRead, At
    <2>2. "create" \in Stages /\ Creating("create")
          BY DEF Stages, Creating
    <2>3. QED  BY <1>0, <1>1, <1>3, <2>1, <2>2, StartedInv
  <1>4. CASE /\ KindOf[r] # "setup"
             /\ Start(r, "update", EnvTypes, req[r]) \/ Start(r, "delete", EnvTypes, req[r])
    <2>1. req[r].existing = RowsOf(TenantOf[r])
          BY <1>0, <1>4 DEF CallAction, RowsRead, At
    <2>2. /\ {"update", "delete"} \subseteq Stages
          /\ ~Creating("update") /\ ~Creating("delete")
          BY DEF Stages, Creating
    <2>3. QED  BY <1>0, <1>1, <1>4, <2>1, <2>2, StartedInv
  <1>5. QED  BY <1>2, <1>3, <1>4 DEF CallAction

LEMMA JoinInv ==
  ASSUME TableInv, NEW r \in Requests, Join(r)
  PROVE  ReqInv(r)'
  <1>0. /\ TypeOK /\ ReqInv(r) /\ SetupOnly(r) /\ BaseRead(r)
        BY DEF TableInv, TypeInv, ReqInv
  <1>1. tenants'[TenantOf[r]] = req[r].base
        BY <1>0 DEF Join, BaseRead, At
  <1>2. \A ty \in EnvTypes : routine'[r][ty].pc = "none"
        BY <1>0 DEF Join, TypeOK, IdleRoutine
  <1>3. Goto(r, "check") \/ Goto(r, "heal") \/ \E a : Reply(r, a)
        BY DEF Join
  <1>4. QED  BY <1>0, <1>1, <1>2, <1>3, GoneInv, RepliedInv

LEMMA HealInv ==
  ASSUME TableInv, NEW r \in Requests, Heal(r)
  PROVE  ReqInv(r)'
  <1>0. /\ TypeOK /\ ReqInv(r) /\ SetupOnly(r) /\ BaseRead(r) /\ HealsKnown(r)
        /\ req[r] \in Request
        BY DEF TableInv, TypeInv, TypeOK, ReqInv
  <1>1. tenants'[TenantOf[r]] = req[r].base /\ UNCHANGED rows
        BY <1>0 DEF Heal, BaseRead, At
  <1>2. CASE Reply(r, "error") /\ UNCHANGED routine
    <2>1. \A ty \in EnvTypes : routine'[r][ty].pc = "none"
          BY <1>0, <1>2, Quiet DEF Heal, At
    <2>2. QED  BY <1>0, <1>2, <2>1, RepliedInv
  <1> DEFINE current == [req[r] EXCEPT !.existing = RowsOf(TenantOf[r])]
             st == CASE req[r].stage = "create" -> "healDelete"
                     [] req[r].stage = "healDelete" -> "healRedelete"
                     [] req[r].stage = "delete" -> "redelete"
                     [] req[r].stage = "update" -> "reupdate"
  <1>3. CASE Start(r, st, EnvTypes, current)
    <2>1. RowsOf(TenantOf[r]) \in SUBSET Row
          BY SMTT(40), <1>0 DEF TypeOK, RowsOf
    <2>2. current \in Request
          BY <1>0, <2>1, RequestTyped
    <2>3. current.existing = RowsOf(TenantOf[r]) /\ current.base = req[r].base
          BY <1>0 DEF Request
    <2>4. /\ st \in Stages /\ ~Creating(st)
          /\ st \in {"create", "healDelete", "healRedelete", "recreate"} => KindOf[r] = "setup"
          BY <1>0 DEF Heal, HealsKnown, SetupOnly, Stages, Creating
    <2> HIDE DEF current, st
    <2>5. QED  BY <1>0, <1>1, <1>3, <2>2, <2>3, <2>4, StartedInv
  <1>4. QED  BY <1>2, <1>3 DEF Heal

(* A deletion that heals a creation leaves no row of the tenant.           *)
LEMMA CheckedInv ==
  ASSUME TableInv, NEW r \in Requests, At(r, "check"), AfterCheck(r), UNCHANGED routine,
         req[r].stage = "healDelete" => RowsOf(TenantOf[r])' = {}
  PROVE  ReqInv(r)'
  <1>0. /\ TypeOK /\ ReqInv(r) /\ SetupOnly(r) /\ req[r] \in Request
        BY DEF TableInv, TypeInv, TypeOK, ReqInv
  <1>1. \A ty \in EnvTypes : routine'[r][ty].pc = "none"
        BY <1>0, Quiet DEF At
  <1>2. CASE \/ req[r].stage = "redelete" /\ RequestIs(r, [req[r] EXCEPT !.stage = "delete"])
             \/ /\ req[r].stage = "healRedelete"
                /\ RequestIs(r, [req[r] EXCEPT !.stage = "healDelete"])
    <2>1. /\ req'[r].pc = "check"
          /\ \/ req'[r].stage = "delete"
             \/ req[r].stage = "healRedelete" /\ req'[r].stage = "healDelete"
          BY <1>0, <1>2 DEF RequestIs, TypeOK, At, Request
    <2>2. req'[r].stage = "healDelete" => KindOf[r] = "setup"
          BY <1>0, <2>1 DEF SetupOnly
    <2>3. SetupOnly(r)' /\ BaseRead(r)' /\ RowsRead(r)'
          BY <2>1, <2>2 DEF SetupOnly, BaseRead, RowsRead
    <2>4. QED  BY <1>1, <2>3, NoRoutines DEF ReqInv
  <1>3. CASE req[r].stage = "healDelete" /\ Goto(r, "newName")
    <2>1. req'[r].pc = "newName" /\ req'[r].stage = req[r].stage
          BY <1>0, <1>3 DEF Goto, RequestIs, TypeOK, Request
    <2>2. SetupOnly(r)' /\ BaseRead(r)' /\ RowsRead(r)'
          BY <1>0, <1>3, <2>1 DEF SetupOnly, BaseRead, RowsRead
    <2>3. QED  BY <1>1, <2>2, NoRoutines DEF ReqInv
  <1>4. CASE Goto(r, "verify") \/ \E a : Reply(r, a)
        BY <1>0, <1>1, <1>4, GoneInv, RepliedInv
  <1>5. QED  BY <1>2, <1>3, <1>4 DEF AfterCheck

LEMMA ChecksInv ==
  ASSUME TableInv, NEW r \in Requests,
         CheckResults(r) \/ CheckCleaned(r) \/ CheckFails(r) \/ VerifyDeleted(r)
  PROVE  ReqInv(r)'
  <1>0. /\ TypeOK /\ ReqInv(r) /\ SetupOnly(r)
        /\ UNCHANGED routine /\ ~At(r, "apply")
        BY DEF TableInv, TypeInv, ReqInv, CheckResults, CheckCleaned, CheckFails, VerifyDeleted, At
  <1>1. \A ty \in EnvTypes : routine'[r][ty].pc = "none"
        BY <1>0, Quiet
  <1>2. CASE \E a : Reply(r, a)
        BY <1>0, <1>1, <1>2, RepliedInv
  <1>3. CASE /\ CheckResults(r) /\ AfterCheck(r)
             /\ KeepTenant(r) => RowsOf(TenantOf[r]) = {}
    <2>1. req[r].stage = "healDelete" => RowsOf(TenantOf[r]) = {}
          BY <1>0, <1>3 DEF SetupOnly, KeepTenant
    <2>2. rows' \subseteq rows
          BY <1>3 DEF CheckResults
    <2>3. req[r].stage = "healDelete" => RowsOf(TenantOf[r])' = {}
          BY <2>1, <2>2 DEF RowsOf
    <2>4. QED  BY <1>0, <1>3, <2>3, CheckedInv DEF CheckResults
  <1>4. CASE CheckCleaned(r)
    <2>1. req[r].stage # "healDelete"
          BY <1>0, <1>4 DEF CheckCleaned, Cleans, SetupOnly
    <2>2. QED  BY <1>0, <1>4, <2>1, CheckedInv DEF CheckCleaned
  <1>5. QED  BY <1>2, <1>3, <1>4 DEF CheckResults, NothingLeft, CheckFails, VerifyDeleted

LEMMA SaveNameInv ==
  ASSUME TableInv, NEW r \in Requests, SaveName(r)
  PROVE  ReqInv(r)'
  <1>0. /\ TypeOK /\ ReqInv(r) /\ SetupOnly(r) /\ BaseRead(r) /\ RowsRead(r)
        /\ req[r] \in Request /\ TenantOf[r] \in Tenants
        BY ConstantsAssumption DEF TableInv, TypeInv, TypeOK, ReqInv
  <1>1. KindOf[r] = "setup" /\ RowsOf(TenantOf[r]) = {} /\ UNCHANGED rows
        BY <1>0 DEF SaveName, SetupOnly, RowsRead, At
  <1>2. CASE Reply(r, "error") /\ UNCHANGED routine
    <2>1. \A ty \in EnvTypes : routine'[r][ty].pc = "none"
          BY <1>0, <1>2, Quiet DEF SaveName, At
    <2>2. QED  BY <1>0, <1>2, <2>1, RepliedInv
  <1>3. CASE tenants' = [tenants EXCEPT ![TenantOf[r]] = req[r].base]
    <2>1. tenants'[TenantOf[r]] = req[r].base
          BY <1>0, <1>3 DEF TypeOK
    <2>2. CASE Goto(r, "cluster") /\ UNCHANGED routine
      <3>1. \A ty \in EnvTypes : routine'[r][ty].pc = "none"
            BY <1>0, <2>2, Quiet DEF SaveName, At
      <3>2. req'[r].pc = "cluster" /\ req'[r].base = req[r].base /\ req'[r].stage = req[r].stage
            BY <1>0, <2>2 DEF Goto, RequestIs, TypeOK, Request
      <3>3. RowsOf(TenantOf[r])' = {}
            BY <1>1 DEF RowsOf
      <3>4. SetupOnly(r)' /\ BaseRead(r)' /\ RowsRead(r)'
            BY <1>1, <2>1, <3>2, <3>3 DEF SetupOnly, BaseRead, RowsRead
      <3>5. QED  BY <3>1, <3>4, NoRoutines DEF ReqInv
    <2>3. CASE Start(r, "recreate", EnvTypes, req[r])
      <3>1. "recreate" \in Stages /\ Creating("recreate")
            BY DEF Stages, Creating
      <3>2. QED  BY <1>0, <1>1, <2>1, <2>3, <3>1, StartedInv
    <2>4. CASE Reply(r, "error") /\ UNCHANGED routine
          BY <1>2, <2>4
    <2>5. QED  BY <1>3, <2>2, <2>3, <2>4 DEF SaveName
  <1>4. QED  BY <1>2, <1>3 DEF SaveName

LEMMA HandlerInv ==
  ASSUME TableInv, NEW r \in Requests, HandlerStep(r)
  PROVE  ReqInv(r)'
  BY SMTT(40), CheckExistsInv, ChooseNameInv, InsertTenantInv, ReadNamespacesInv, ReadTenantInv,
     CheckMissingInv, CallActionInv, JoinInv, HealInv, ChecksInv, SaveNameInv
     DEF HandlerStep

(* What a handler changes in the tables.                                   *)
LEMMA HandlerTables ==
  ASSUME TableInv, NEW r \in Requests, HandlerStep(r)
  PROVE  /\ projects' = projects
         /\ rows' \subseteq rows
         /\ \A x \in rows \ rows' : x.tenant = TenantOf[r] /\ x.type \in LegacyTypes
         /\ \/ tenants' = tenants
            \/ \E n \in (Numbers \ {0}) \cup {NoName} :
                 /\ tenants' = [tenants EXCEPT ![TenantOf[r]] = n]
                 /\ RowsOf(TenantOf[r])' = {}
  <1>0. /\ TypeOK /\ RowsFollowBaseName /\ BaseRead(r) /\ RowsRead(r)
        /\ req[r].base \in Numbers /\ TenantOf[r] \in Tenants
        BY ConstantsAssumption DEF TableInv, TypeInv, TypeOK, ReqInv, Request
  <1>1. CASE InsertTenant(r)
    <2>1. tenants' # tenants => RowsOf(TenantOf[r])' = {}
          BY <1>0, <1>1, NobodysRows DEF InsertTenant, RowsOf
    <2>2. req[r].base # 0
          BY <1>0, <1>1 DEF InsertTenant, BaseRead, At
    <2>3. \/ tenants' = tenants
          \/ tenants' = [tenants EXCEPT ![TenantOf[r]] = req[r].base]
          BY <1>1 DEF InsertTenant
    <2>4. UNCHANGED <<rows, projects>>
          BY <1>1 DEF InsertTenant
    <2>5. QED  BY <1>0, <2>1, <2>2, <2>3, <2>4
  <1>2. CASE SaveName(r)
    <2>1. RowsOf(TenantOf[r])' = {}
          BY <1>0, <1>2 DEF SaveName, RowsRead, RowsOf, At
    <2>2. req[r].base # 0
          BY <1>0, <1>2 DEF SaveName, BaseRead, At
    <2>3. \/ tenants' = tenants
          \/ tenants' = [tenants EXCEPT ![TenantOf[r]] = req[r].base]
          BY <1>2 DEF SaveName
    <2>4. UNCHANGED <<rows, projects>>
          BY <1>2 DEF SaveName
    <2>5. QED  BY <1>0, <2>1, <2>2, <2>3, <2>4
  <1>3. CASE CheckResults(r)
    <2> DEFINE own == RowsOf(TenantOf[r])
               others == {x \in own : x.type \in LegacyTypes}
    <2>1. PICK undeleted \in SUBSET others :
            /\ rows' = rows \ (others \ undeleted)
            /\ \/ tenants' = tenants
               \/ /\ ~KeepTenant(r)
                  /\ tenants' = [tenants EXCEPT ![TenantOf[r]] = NoName]
                  /\ {x \in own : x.type \in EnvTypes} \cup undeleted = {}
      <3>1. PICK undeleted \in {{}, others} :
              /\ rows' = rows \ (others \ undeleted)
              /\ \/ /\ NothingLeft(r, {x \in own : x.type \in EnvTypes} \cup undeleted)
                    /\ tenants' = IF KeepTenant(r) THEN tenants
                                  ELSE [tenants EXCEPT ![TenantOf[r]] = NoName]
                 \/ tenants' = tenants
            BY <1>3 DEF CheckResults
      <3>2. QED  BY <3>1 DEF NothingLeft
    <2>2. \A x \in rows \ rows' : x.tenant = TenantOf[r] /\ x.type \in LegacyTypes
          BY <2>1 DEF RowsOf
    <2>3. tenants' = tenants \/ RowsOf(TenantOf[r])' = {}
      <3>1. \A x \in own : x.type \in EnvTypes \cup LegacyTypes
            BY <1>0 DEF TypeOK, Row, RowsOf
      <3>2. QED  BY <2>1, <3>1 DEF RowsOf
    <2>4. projects' = projects
          BY <1>3 DEF CheckResults
    <2>5. QED  BY <2>1, <2>2, <2>3, <2>4
  <1>4. CASE CheckFails(r)
        BY <1>4 DEF CheckFails
  <1>5. CASE UNCHANGED <<tenants, rows, projects>>
        BY SMTT(40), <1>5
  <1>6. QED
        BY <1>1, <1>2, <1>3, <1>4, <1>5
           DEF HandlerStep, CheckExists, ChooseName, ReadNamespaces, ReadTenant, CheckMissing,
               CallAction, Join, Heal, CheckCleaned, VerifyDeleted

LEMMA HandlerActive ==
  ASSUME NEW r \in Requests, HandlerStep(r)
  PROVE  Active(r)
  BY DEF HandlerStep, CheckExists, ChooseName, InsertTenant, ReadNamespaces, ReadTenant,
         CheckMissing, CallAction, Join, Heal, CheckResults, CheckCleaned, CheckFails,
         VerifyDeleted, SaveName, Active, At

LEMMA HandlerFrame ==
  ASSUME TableInv, NEW r \in Requests, HandlerStep(r)
  PROVE  Frame(r)
  <1>1. tenants \in [Tenants -> Numbers \cup {NoName}]
        BY DEF TableInv, TypeInv, TypeOK
  <1>2. ASSUME NEW t \in Tenants \ {TenantOf[r]}
        PROVE  tenants'[t] = tenants[t] /\ RowsOf(t)' = RowsOf(t)
    <2>1. tenants'[t] = tenants[t]
          BY <1>1, HandlerTables
    <2>2. \A x \in rows : x.tenant = t => x \in rows'
          BY HandlerTables
    <2>3. rows' \subseteq rows
          BY HandlerTables
    <2>4. QED  BY <2>1, <2>2, <2>3 DEF RowsOf
  <1>3. projects' = projects
        BY HandlerTables
  <1>4. QED  BY <1>2, <1>3 DEF Frame

LEMMA HandlerGlobals ==
  ASSUME TableInv, NEW r \in Requests, HandlerStep(r)
  PROVE  (RowsFollowBaseName /\ OneRowPerType /\ NothingLeftBehind /\ OldNames)'
  <1>0. /\ RowsFollowBaseName /\ OneRowPerType /\ NothingLeftBehind /\ OldNames
        /\ tenants \in [Tenants -> Numbers \cup {NoName}] /\ rows \subseteq Row
        /\ TenantOf[r] \in Tenants
        BY ConstantsAssumption DEF TableInv, TypeInv, TypeOK
  <1>1. projects' = projects /\ rows' \subseteq rows
        BY HandlerTables
  <1>2. RowsFollowBaseName'
    <2>1. SUFFICES ASSUME NEW x \in rows'
                   PROVE  tenants'[x.tenant] = x.base
          BY DEF RowsFollowBaseName
    <2>2. x \in rows /\ x.tenant \in Tenants /\ tenants[x.tenant] = x.base
          BY <1>0, <1>1 DEF RowsFollowBaseName, Row
    <2>3. CASE tenants' = tenants
          BY <2>2, <2>3
    <2>4. CASE \E n : /\ tenants' = [tenants EXCEPT ![TenantOf[r]] = n]
                      /\ RowsOf(TenantOf[r])' = {}
      <3>1. x.tenant # TenantOf[r]
            BY <2>1, <2>4 DEF RowsOf
      <3>2. QED  BY <1>0, <2>2, <2>4, <3>1
    <2>5. QED  BY <2>3, <2>4, HandlerTables
  <1>3. OneRowPerType'
        BY <1>0, <1>1 DEF OneRowPerType
  <1>4. NothingLeftBehind'
    <2>1. \A x \in rows : x.type \in EnvTypes => x \in rows'
          BY HandlerTables, ConstantsAssumption
    <2>2. QED  BY <1>0, <1>1, <2>1 DEF NothingLeftBehind, RowsOf
  <1>5. OldNames'
    <2>1. NoName # 0
          BY ConstantsAssumption DEF Numbers
    <2>2. QED  BY <1>0, <2>1, HandlerTables DEF OldNames
  <1>6. QED  BY <1>2, <1>3, <1>4, <1>5

-----------------------------------------------------------------------------
(* The goroutines                                                          *)

(* A goroutine leaves its request as it is, but for the number of errors,  *)
(* or ends it together with the process.                                   *)
LEMMA RoutineReq ==
  ASSUME TypeOK, NEW r \in Requests, NEW ty \in EnvTypes, RoutineStep(r, ty)
  PROVE  /\ At(r, "apply") /\ tenants' = tenants
         /\ \/ /\ req'[r].pc = "apply" /\ req'[r].stage = req[r].stage
               /\ req'[r].base = req[r].base /\ req'[r].existing = req[r].existing
               /\ \E g : RoutineIs(r, ty, g)
            \/ Dies(r)
  <1>1. At(r, "apply")
        BY ZenonT(60) DEF RoutineStep, CreateNamespace, GetExistingNamespace, GetOperationSets,
               OperationSetsFail, TemplatesMissing, CheckProject, PostProject, DeleteProject,
               ApplyObjects, ApplySecondSet, AfterCallback, UpdateNamespace, In
  <1>2. tenants' = tenants
        BY ZenonT(60) DEF RoutineStep, CreateNamespace, GetExistingNamespace, GetOperationSets, Dies,
               OperationSetsFail, TemplatesMissing, CheckProject, PostProject, DeleteProject,
               ApplyObjects, ApplySecondSet, AfterCallback, UpdateNamespace
  <1>3. \/ (Send(r) \/ NoError) /\ \E g : RoutineIs(r, ty, g)
        \/ Dies(r)
        BY ZenonT(60) DEF RoutineStep, CreateNamespace, GetExistingNamespace, GetOperationSets,
               OperationSetsFail, TemplatesMissing, CheckProject, PostProject, DeleteProject,
               ApplyObjects, ApplySecondSet, AfterCallback, UpdateNamespace, NextSet, RoutineGoto
  <1>4. Send(r) \/ NoError => /\ req'[r].pc = req[r].pc /\ req'[r].stage = req[r].stage
                              /\ req'[r].base = req[r].base /\ req'[r].existing = req[r].existing
        BY DEF Send, NoError, RequestIs, TypeOK, Request
  <1>5. QED  BY SMTT(40), <1>1, <1>2, <1>3, <1>4 DEF At

(* What a goroutine changes in the table: it creates the row of its type   *)
(* where there is none, or changes or removes the row it works on.         *)
Creates(r, ty) == /\ RowsOf(TenantOf[r]) \cap {x \in rows : x.type = ty} = {}
                  /\ rows' = rows \cup {NewRow(r, ty)}

Saves(r, ty) ==
  \E st \in States : rows' = (rows \ {routine[r][ty].row})
                             \cup {[routine[r][ty].row EXCEPT !.state = st]}

Drops(r, ty) == /\ rows' = rows \ {routine[r][ty].row}
                /\ In(r, ty, "save") /\ Removes(r) /\ ~routine[r][ty].failed

OwnRow(r, ty) == LET x == routine[r][ty].row
                 IN  x \in rows /\ x.tenant = TenantOf[r] /\ x.type = ty

(* The key of a row finds this row only.                                   *)
LEMMA KeyOfRow ==
  ASSUME TableInv, NEW x \in rows, NEW z \in Row,
         z.by = x.by, z.stage = x.stage, z.tenant = x.tenant, z.type = x.type
  PROVE  Saved(z) = (rows \ {x}) \cup {z} /\ Deleted(z) = rows \ {x}
  <1>1. \A y \in rows : SameKey(z, y) <=> y = x
        BY SMTT(40) DEF SameKey, TableInv, OneRowPerType
  <1>2. QED  BY <1>1 DEF Saved, Deleted

LEMMA RoutineTables ==
  ASSUME TableInv, NEW r \in Requests, NEW ty \in EnvTypes, RoutineStep(r, ty)
  PROVE  \/ rows' = rows
         \/ Creates(r, ty)
         \/ OwnRow(r, ty) /\ (Saves(r, ty) \/ Drops(r, ty))
  <1>0. /\ TypeOK /\ ReqInv(r) /\ RoutineInv(r, ty)
        BY DEF TableInv, TypeInv, ReqInv
  <1>1. CASE CreateNamespace(r, ty)
    <2>1. \A x \in RowsOf(TenantOf[r]) : x.type # ty
          BY <1>0, <1>1 DEF CreateNamespace, In, RoutineInv
    <2>2. QED  BY <1>1, <2>1 DEF CreateNamespace, Creates
  <1>2. CASE UpdateNamespace(r, ty)
    <2> DEFINE x == routine[r][ty].row
    <2>1. OwnRow(r, ty)
          BY <1>0, <1>2 DEF UpdateNamespace, In, RoutineInv, Working, OwnRow, RowsOf
    <2>2. x \in rows /\ x \in Row
          BY <1>0, <2>1 DEF OwnRow, TypeOK
    <2>3. ASSUME NEW st \in States
          PROVE  Saved([x EXCEPT !.state = st]) = (rows \ {x}) \cup {[x EXCEPT !.state = st]}
      <3> DEFINE z == [x EXCEPT !.state = st]
      <3>1. z \in Row /\ z.by = x.by /\ z.stage = x.stage /\ z.tenant = x.tenant /\ z.type = x.type
            BY <2>2 DEF Row
      <3> HIDE DEF z, x
      <3>2. Saved(z) = (rows \ {x}) \cup {z}
            BY <2>2, <3>1, KeyOfRow
      <3>3. QED  BY <3>2 DEF z
    <2>4. Deleted(x) = rows \ {x}
      <3> HIDE DEF x
      <3>1. QED  BY <2>2, KeyOfRow
    <2>5. "failed" \in States /\ "ready" \in States
          BY DEF States
    <2>6. CASE rows' = Saved([x EXCEPT !.state = "failed"])
          BY <2>1, <2>3, <2>5, <2>6 DEF Saves
    <2>7. CASE rows' = Saved([x EXCEPT !.state = "ready"])
          BY <2>1, <2>3, <2>5, <2>7 DEF Saves
    <2>8. CASE rows' = Deleted(x) /\ Removes(r) /\ ~routine[r][ty].failed
          BY <1>2, <2>1, <2>4, <2>8 DEF Drops, UpdateNamespace
    <2>9. QED  BY <1>2, <2>6, <2>7, <2>8 DEF UpdateNamespace, Outcome
  <1>3. CASE rows' = rows
        BY <1>3
  <1>4. QED
        BY ZenonT(60), <1>1, <1>2, <1>3
           DEF RoutineStep, GetExistingNamespace, GetOperationSets, Dies, OperationSetsFail,
               TemplatesMissing, CheckProject, PostProject, DeleteProject, ApplyObjects,
               ApplySecondSet, AfterCallback

(* The fields of the rows that these changes leave.                        *)
LEMMA NewRowFields ==
  ASSUME NEW r \in Requests, NEW ty \in EnvTypes
  PROVE  NewRow(r, ty).tenant = TenantOf[r] /\ NewRow(r, ty).type = ty
         /\ NewRow(r, ty).base = req[r].base
  BY DEF NewRow

LEMMA SavedFields ==
  ASSUME NEW x \in Row, NEW st
  PROVE  /\ [x EXCEPT !.state = st].tenant = x.tenant
         /\ [x EXCEPT !.state = st].type = x.type
         /\ [x EXCEPT !.state = st].base = x.base
  BY DEF Row

(* Every row that is there after a step was there before, perhaps in       *)
(* another state, or is created; rows of other types are not touched.      *)
OfType(r, ty, x) == x.tenant = TenantOf[r] /\ x.type = ty

LEMMA RowsAfter ==
  ASSUME TableInv, NEW r \in Requests, NEW ty \in EnvTypes, RoutineStep(r, ty)
  PROVE  /\ \A x \in rows : ~OfType(r, ty, x) => x \in rows'
         /\ \A x \in rows' : ~OfType(r, ty, x) => x \in rows
         /\ \A x \in rows' : OfType(r, ty, x) => x.base = req[r].base
         /\ \A x, y \in rows' : OfType(r, ty, x) /\ OfType(r, ty, y) => x = y
  <1>0. /\ TypeOK /\ rows \subseteq Row /\ OneRowPerType /\ RowsFollowBaseName
        /\ BaseRead(r)
        BY DEF TableInv, TypeInv, TypeOK, ReqInv
  <1>1. tenants[TenantOf[r]] = req[r].base
        BY <1>0, RoutineReq DEF BaseRead, At
  <1>2. \A x \in rows : OfType(r, ty, x) => x.base = req[r].base
        BY <1>0, <1>1 DEF RowsFollowBaseName, OfType
  <1>3. \A x, y \in rows : OfType(r, ty, x) /\ OfType(r, ty, y) => x = y
        BY <1>0 DEF OneRowPerType, OfType
  <1>4. ASSUME NEW old, NEW new, rows' = (rows \ {old}) \cup {new},
               \A x \in rows : OfType(r, ty, x) <=> x = old, OfType(r, ty, new), new.base = req[r].base
        PROVE  /\ \A x \in rows : ~OfType(r, ty, x) => x \in rows'
               /\ \A x \in rows' : ~OfType(r, ty, x) => x \in rows
               /\ \A x \in rows' : OfType(r, ty, x) => x.base = req[r].base
               /\ \A x, y \in rows' : OfType(r, ty, x) /\ OfType(r, ty, y) => x = y
    <2>1. QED  BY <1>4
  <1>5. CASE rows' = rows
        BY <1>2, <1>3, <1>5
  <1>6. CASE Creates(r, ty)
    <2> DEFINE new == NewRow(r, ty)
    <2>1. OfType(r, ty, new) /\ new.base = req[r].base
          BY NewRowFields DEF OfType
    <2>2. \A x \in rows : ~OfType(r, ty, x)
          BY <1>6 DEF Creates, RowsOf, OfType
    <2>3. rows' = rows \cup {new}
          BY <1>6 DEF Creates
    <2> HIDE DEF new
    <2>4. /\ \A x \in rows : ~OfType(r, ty, x) => x \in rows'
          /\ \A x \in rows' : ~OfType(r, ty, x) => x \in rows
          /\ \A x \in rows' : OfType(r, ty, x) => x.base = req[r].base
          /\ \A x, y \in rows' : OfType(r, ty, x) /\ OfType(r, ty, y) => x = y
          BY <2>1, <2>2, <2>3
    <2>5. QED  BY <2>4
  <1>7. CASE OwnRow(r, ty) /\ Saves(r, ty)
    <2> DEFINE x0 == routine[r][ty].row
    <2>1. x0 \in rows /\ OfType(r, ty, x0)
          BY <1>7 DEF OwnRow, OfType
    <2>2. PICK st \in States : rows' = (rows \ {x0}) \cup {[x0 EXCEPT !.state = st]}
          BY <1>7 DEF Saves
    <2> DEFINE new == [x0 EXCEPT !.state = st]
    <2> HIDE DEF x0
    <2>3. x0.base = req[r].base /\ x0 \in Row
          BY <1>0, <1>2, <2>1
    <2>4. OfType(r, ty, new) /\ new.base = req[r].base
          BY <2>1, <2>3, SavedFields DEF OfType
    <2>5. rows' = (rows \ {x0}) \cup {new}
          BY <2>2
    <2> HIDE DEF new
    <2>6. \A x \in rows : OfType(r, ty, x) <=> x = x0
          BY <1>3, <2>1
    <2>7. /\ \A x \in rows : ~OfType(r, ty, x) => x \in rows'
          /\ \A x \in rows' : ~OfType(r, ty, x) => x \in rows
          /\ \A x \in rows' : OfType(r, ty, x) => x.base = req[r].base
          /\ \A x, y \in rows' : OfType(r, ty, x) /\ OfType(r, ty, y) => x = y
          BY <1>4, <2>4, <2>5, <2>6
    <2>8. QED  BY <2>7
  <1>8. CASE OwnRow(r, ty) /\ Drops(r, ty)
    <2>1. rows' \subseteq rows
          BY <1>8 DEF Drops
    <2>2. \A x \in rows : ~OfType(r, ty, x) => x \in rows'
          BY <1>8 DEF Drops, OwnRow, OfType
    <2>3. /\ \A x \in rows' : ~OfType(r, ty, x) => x \in rows
          /\ \A x \in rows' : OfType(r, ty, x) => x.base = req[r].base
          /\ \A x, y \in rows' : OfType(r, ty, x) /\ OfType(r, ty, y) => x = y
          BY <1>2, <1>3, <2>1
    <2>4. QED  BY <2>2, <2>3
  <1>9. QED  BY <1>5, <1>6, <1>7, <1>8, RoutineTables

LEMMA RowRemains ==
  ASSUME TableInv, NEW r \in Requests, NEW ty \in EnvTypes, RoutineStep(r, ty)
  PROVE  rows' = rows \/ Drops(r, ty) \/ \E x \in rows' : OfType(r, ty, x)
  <1>1. CASE Creates(r, ty)
        BY <1>1, NewRowFields DEF Creates, OfType
  <1>2. CASE OwnRow(r, ty) /\ Saves(r, ty)
    <2> DEFINE x == routine[r][ty].row
    <2>1. x \in Row /\ x.tenant = TenantOf[r] /\ x.type = ty
          BY <1>2 DEF OwnRow, TableInv, TypeInv, TypeOK
    <2>2. PICK st \in States : rows' = (rows \ {x}) \cup {[x EXCEPT !.state = st]}
          BY <1>2 DEF Saves
    <2> HIDE DEF x
    <2>3. OfType(r, ty, [x EXCEPT !.state = st])
          BY SMTT(40), <2>1, SavedFields DEF OfType
    <2>4. QED  BY <2>2, <2>3
  <1>3. QED  BY <1>1, <1>2, RoutineTables

(* What a goroutine changes on the cluster: the project of its type and    *)
(* base name, which it creates or removes.                                 *)
OwnProject(r) == [owner |-> TenantOf[r], phase |-> "active"]

LEMMA RoutineProjects ==
  ASSUME TableInv, NEW r \in Requests, NEW ty \in EnvTypes, RoutineStep(r, ty)
  PROVE  /\ \A u \in EnvTypes, n \in Numbers :
              u # ty \/ n # req[r].base => projects'[u][n] = projects[u][n]
         /\ \/ projects' = projects
            \/ projects'[ty][req[r].base].phase # "active"
            \/ /\ projects'[ty][req[r].base] = OwnProject(r)
               /\ In(r, ty, "post") /\ rows' = rows
  <1>0. /\ projects \in [EnvTypes -> [Numbers -> Project]]
        /\ req[r].base \in Numbers
        BY DEF TableInv, TypeInv, TypeOK, Request
  <1>1. ASSUME NEW p, ProjectsWith(ty, req[r].base, p)
        PROVE  /\ projects'[ty][req[r].base] = p
               /\ \A u \in EnvTypes, n \in Numbers :
                    u # ty \/ n # req[r].base => projects'[u][n] = projects[u][n]
        BY <1>0, <1>1 DEF ProjectsWith
  <1>2. CASE PostProject(r, ty)
        BY <1>1, <1>2 DEF PostProject, OwnProject
  <1>3. CASE DeleteProject(r, ty)
    <2> DEFINE p == projects[ty][req[r].base]
               q == IF p = Absent THEN p ELSE [p EXCEPT !.phase = "terminating"]
    <2>1. p \in Project
          BY <1>0
    <2>2. q.phase # "active"
          BY <2>1 DEF Project, Absent
    <2>3. projects' = projects \/ ProjectsWith(ty, req[r].base, q)
          BY <1>3 DEF DeleteProject
    <2> HIDE DEF q
    <2>4. QED  BY <1>1, <2>2, <2>3
  <1>4. CASE projects' = projects
        BY <1>4
  <1>5. QED
        BY ZenonT(60), <1>2, <1>3, <1>4
           DEF RoutineStep, CreateNamespace, GetExistingNamespace, GetOperationSets, Dies,
               OperationSetsFail, TemplatesMissing, CheckProject, ApplyObjects, ApplySecondSet,
               AfterCallback, UpdateNamespace

LEMMA RoutineFrame ==
  ASSUME TableInv, NEW r \in Requests, NEW ty \in EnvTypes, RoutineStep(r, ty)
  PROVE  Frame(r)
  <1>0. req[r].base \in Numbers /\ TypeOK
        BY DEF TableInv, TypeInv, TypeOK, Request
  <1>1. tenants' = tenants
        BY <1>0, RoutineReq
  <1>2. ASSUME NEW t \in Tenants \ {TenantOf[r]}
        PROVE  RowsOf(t)' = RowsOf(t)
        BY RowsAfter DEF RowsOf, OfType
  <1>3. ASSUME NEW u \in EnvTypes, NEW n \in Numbers,
               projects'[u][n].phase = "active", projects'[u][n].owner # TenantOf[r]
        PROVE  projects'[u][n] = projects[u][n]
    <2>1. CASE u # ty \/ n # req[r].base
          BY <2>1, RoutineProjects
    <2>2. CASE u = ty /\ n = req[r].base
      <3>1. projects'[u][n] # OwnProject(r)
            BY <1>3 DEF OwnProject
      <3>2. QED  BY <1>3, <2>2, <3>1, RoutineProjects
    <2>3. QED  BY <2>1, <2>2
  <1>4. QED  BY <1>1, <1>2, <1>3 DEF Frame

LEMMA RoutineGlobals ==
  ASSUME TableInv, NEW r \in Requests, NEW ty \in EnvTypes, RoutineStep(r, ty)
  PROVE  (RowsFollowBaseName /\ OneRowPerType /\ NothingLeftBehind /\ OldNames)'
  <1>0. /\ TypeOK /\ RowsFollowBaseName /\ OneRowPerType /\ NothingLeftBehind /\ OldNames
        /\ BaseRead(r) /\ RoutineInv(r, ty)
        /\ req[r].base \in Numbers /\ TenantOf[r] \in Tenants
        BY ConstantsAssumption DEF TableInv, TypeInv, TypeOK, ReqInv, Request
  <1>1. tenants' = tenants /\ At(r, "apply")
        BY <1>0, RoutineReq
  <1>2. tenants[TenantOf[r]] = req[r].base
        BY <1>0, <1>1 DEF BaseRead, At
  <1>3. RowsFollowBaseName'
    <2>1. SUFFICES ASSUME NEW x \in rows'
                   PROVE  tenants'[x.tenant] = x.base
          BY DEF RowsFollowBaseName
    <2>2. CASE OfType(r, ty, x)
          BY <1>1, <1>2, <2>2, RowsAfter DEF OfType
    <2>3. CASE ~OfType(r, ty, x)
          BY <1>0, <1>1, <2>3, RowsAfter DEF RowsFollowBaseName
    <2>4. QED  BY <2>2, <2>3
  <1>4. OneRowPerType'
    <2>1. SUFFICES ASSUME NEW x \in rows', NEW y \in rows', x.tenant = y.tenant, x.type = y.type
                   PROVE  x = y
          BY DEF OneRowPerType
    <2>2. OfType(r, ty, x) <=> OfType(r, ty, y)
          BY <2>1 DEF OfType
    <2>3. CASE OfType(r, ty, x)
          BY <2>2, <2>3, RowsAfter
    <2>4. CASE ~OfType(r, ty, x)
          BY <1>0, <2>1, <2>2, <2>4, RowsAfter DEF OneRowPerType
    <2>5. QED  BY <2>3, <2>4
  <1>5. NothingLeftBehind'
    <2>1. SUFFICES ASSUME NEW u \in EnvTypes, NEW n \in Numbers,
                          projects'[u][n].phase = "active", projects'[u][n].owner # NoTenant
                   PROVE  \E y \in rows' : /\ y.tenant = projects'[u][n].owner
                                           /\ y.type = u /\ y.base = n
          BY DEF NothingLeftBehind, RowsOf
    <2> DEFINE o == projects'[u][n].owner
    <2>2. CASE projects'[u][n] = projects[u][n]
      <3>1. PICK x \in rows : x.tenant = o /\ x.type = u /\ x.base = n
            BY <1>0, <2>1, <2>2 DEF NothingLeftBehind, RowsOf
      <3>2. CASE ~OfType(r, ty, x)
            BY <3>1, <3>2, RowsAfter
      <3>3. CASE OfType(r, ty, x)
        <4>1. o = TenantOf[r] /\ u = ty /\ n = req[r].base
              BY <1>0, <1>2, <3>1, <3>3 DEF OfType, RowsFollowBaseName
        <4>2. ~Drops(r, ty)
              BY <1>0, <2>1, <2>2, <4>1 DEF Drops, In, RoutineInv
        <4>3. CASE rows' = rows
              BY <3>1, <4>3
        <4>4. CASE \E y \in rows' : OfType(r, ty, y)
          <5>1. PICK y \in rows' : OfType(r, ty, y)
                BY <4>4
          <5>2. y.base = req[r].base
                BY <5>1, RowsAfter
          <5>3. QED  BY <4>1, <5>1, <5>2 DEF OfType
        <4>5. QED  BY <4>2, <4>3, <4>4, RowRemains
      <3>4. QED  BY <3>2, <3>3
    <2>3. CASE /\ u = ty /\ n = req[r].base
               /\ projects'[u][n] = OwnProject(r) /\ In(r, ty, "post") /\ rows' = rows
      <3> DEFINE x == routine[r][ty].row
      <3>1. x \in rows /\ x.tenant = TenantOf[r] /\ x.type = ty
            BY <1>0, <2>3 DEF In, RoutineInv, Working, RowsOf
      <3>2. x.base = n
            BY <1>0, <1>2, <2>3, <3>1 DEF RowsFollowBaseName
      <3>3. o = TenantOf[r]
            BY <2>3 DEF OwnProject
      <3>4. x \in rows'
            BY <2>3, <3>1
      <3>5. QED  BY <2>3, <3>1, <3>2, <3>3, <3>4
    <2>4. QED  BY <1>0, <2>1, <2>2, <2>3, RoutineProjects
  <1>6. OldNames'
        BY <1>0, <1>1 DEF OldNames
  <1>7. QED  BY <1>3, <1>4, <1>5, <1>6

(* The goroutine of another type is not disturbed.                         *)
LEMMA OtherRoutineInv ==
  ASSUME TableInv, NEW r \in Requests, NEW ty \in EnvTypes, RoutineStep(r, ty),
         NEW u \in EnvTypes \ {ty}, ~Dies(r)
  PROVE  RoutineInv(r, u)'
  <1>0. /\ TypeOK /\ RoutineInv(r, u) /\ req[r].base \in Numbers
        BY DEF TableInv, TypeInv, TypeOK, ReqInv, Request
  <1>1. /\ req'[r].pc = "apply" /\ req[r].pc = "apply" /\ req'[r].stage = req[r].stage
        /\ req'[r].base = req[r].base /\ req'[r].existing = req[r].existing
        BY <1>0, RoutineReq DEF At
  <1>2. routine'[r][u] = routine[r][u]
        BY <1>0, RoutinesApart
  <1>3. projects'[u][req[r].base] = projects[u][req[r].base]
        BY <1>0, RoutineProjects
  <1>4. Removes(r)' = Removes(r)
        BY <1>1 DEF Removes
  <1>5. \A x : x.type = u => (x \in RowsOf(TenantOf[r])' <=> x \in RowsOf(TenantOf[r]))
    <2>1. \A x : x.type = u => ~OfType(r, ty, x)
          BY DEF OfType
    <2>2. QED  BY <2>1, RowsAfter DEF RowsOf
  <1> DEFINE g == routine[r][u]
             own == RowsOf(TenantOf[r])
  <1>6. g.pc = "entity" =>
           /\ ~g.second
           /\ Creating(req[r].stage) => \A x \in own' : x.type # u
           /\ ~Creating(req[r].stage) => \A x \in req[r].existing : x.type = u => x \in own'
        BY <1>0, <1>5 DEF RoutineInv
  <1>7. g.pc \in Working => g.row \in own' /\ g.row.type = u
        BY <1>0, <1>5 DEF RoutineInv
  <1>8. QED  BY <1>0, <1>1, <1>2, <1>3, <1>4, <1>6, <1>7 DEF RoutineInv

(* A goroutine that goes on with its row, in a step that leaves the table. *)
LEMMA GoesOnInv ==
  ASSUME TableInv, NEW r \in Requests, NEW ty \in EnvTypes, RoutineStep(r, ty), ~Dies(r),
         routine[r][ty].pc \in Working, rows' = rows,
         routine'[r][ty].row = routine[r][ty].row, routine'[r][ty].pc # "entity",
         Removes(r) /\ routine'[r][ty].pc \in Working =>
           routine'[r][ty].pc \in {"sets", "project", "save"} /\ ~routine'[r][ty].second,
         Removes(r) /\ routine'[r][ty].pc = "save" /\ ~routine'[r][ty].failed =>
           projects'[ty][req[r].base].phase # "active"
  PROVE  RoutineInv(r, ty)'
  <1>0. TypeOK /\ RoutineInv(r, ty)
        BY DEF TableInv, TypeInv, ReqInv
  <1>1. /\ req'[r].pc = "apply" /\ req'[r].stage = req[r].stage /\ req'[r].base = req[r].base
        BY <1>0, RoutineReq
  <1>2. Removes(r)' = Removes(r)
        BY <1>1 DEF Removes
  <1>3. RowsOf(TenantOf[r])' = RowsOf(TenantOf[r])
        BY DEF RowsOf
  <1>4. routine[r][ty].row \in RowsOf(TenantOf[r]) /\ routine[r][ty].row.type = ty
        BY <1>0 DEF RoutineInv
  <1>5. QED  BY <1>1, <1>2, <1>3, <1>4 DEF RoutineInv

LEMMA OwnRoutineInv ==
  ASSUME TableInv, NEW r \in Requests, NEW ty \in EnvTypes, RoutineStep(r, ty), ~Dies(r)
  PROVE  RoutineInv(r, ty)'
  <1> DEFINE g == routine[r][ty]
             h == routine'[r][ty]
  <1>0. /\ TypeOK /\ RoutineInv(r, ty)
        /\ routine \in [Requests -> [EnvTypes -> Routine]] /\ g \in Routine
        BY DEF TableInv, TypeInv, TypeOK, ReqInv
  <1>1. /\ req'[r].pc = "apply" /\ req'[r].stage = req[r].stage /\ req'[r].base = req[r].base
        /\ At(r, "apply")
        BY <1>0, RoutineReq
  <1>2. \A x : RoutineIs(r, ty, x) => h = x
        BY <1>0 DEF RoutineIs
  <1>3. Removes(r)' = Removes(r)
        BY <1>1 DEF Removes
  <1>a. \A pc : /\ [g EXCEPT !.pc = pc].pc = pc /\ [g EXCEPT !.pc = pc].row = g.row
                /\ [g EXCEPT !.pc = pc].second = g.second
                /\ [g EXCEPT !.pc = pc].failed = g.failed
        BY <1>0 DEF Routine
  <1>b. \A pc, x : /\ [g EXCEPT !.pc = pc, !.row = x].pc = pc
                   /\ [g EXCEPT !.pc = pc, !.row = x].row = x
                   /\ [g EXCEPT !.pc = pc, !.row = x].second = g.second
        BY <1>0 DEF Routine
  <1>c. \A pc, b : /\ [g EXCEPT !.failed = b, !.pc = pc].pc = pc
                   /\ [g EXCEPT !.failed = b, !.pc = pc].row = g.row
                   /\ [g EXCEPT !.failed = b, !.pc = pc].second = g.second
                   /\ [g EXCEPT !.failed = b, !.pc = pc].failed = b
        BY <1>0 DEF Routine
  <1>d. \A pc, b : /\ [g EXCEPT !.second = b, !.pc = pc].pc = pc
                   /\ [g EXCEPT !.second = b, !.pc = pc].row = g.row
                   /\ [g EXCEPT !.second = b, !.pc = pc].second = b
        BY <1>0 DEF Routine
  <1>e. Removes(r) => AfterSets(r, ty) = "save" /\ ~Creating(req[r].stage)
        BY DEF Removes, AfterSets, Deleting, Creating
  <1>f. AfterSets(r, ty) \in {"callback", "save"}
        BY DEF AfterSets
  <1>4. CASE h.pc = "end"
        BY <1>1, <1>4 DEF RoutineInv, Working
  <1>5. CASE CreateNamespace(r, ty)
    <2>1. CASE RoutineGoto(r, ty, "end")
          BY <1>2, <1>4, <1>a, <2>1 DEF RoutineGoto
    <2>2. CASE /\ rows' = rows \cup {NewRow(r, ty)}
               /\ RoutineIs(r, ty, [g EXCEPT !.pc = "sets", !.row = NewRow(r, ty)])
      <3>0. h = [g EXCEPT !.pc = "sets", !.row = NewRow(r, ty)]
            BY <1>0, <2>2 DEF RoutineIs
      <3>1. h.pc = "sets" /\ h.row = NewRow(r, ty)
            BY <1>b, <3>0
      <3>2. ~Removes(r)
            BY <1>5, <1>e DEF CreateNamespace
      <3>3. h.row \in RowsOf(TenantOf[r])' /\ h.row.type = ty
            BY <2>2, <3>1, NewRowFields DEF RowsOf
      <3>4. QED  BY <1>1, <1>3, <3>1, <3>2, <3>3 DEF RoutineInv
    <2>3. QED  BY <1>5, <2>1, <2>2 DEF CreateNamespace
  <1>6. CASE GetExistingNamespace(r, ty)
    <2>1. CASE RoutineGoto(r, ty, "end")
          BY <1>2, <1>4, <1>a, <2>1 DEF RoutineGoto
    <2>2. ASSUME NEW x \in req[r].existing, x.type = ty,
                 RoutineIs(r, ty, [g EXCEPT !.pc = "sets", !.row = x])
          PROVE  RoutineInv(r, ty)'
      <3>0. h = [g EXCEPT !.pc = "sets", !.row = x]
            BY <1>0, <2>2 DEF RoutineIs
      <3>1. h.pc = "sets" /\ h.row = x /\ h.second = g.second
            BY <1>b, <3>0
      <3>2. ~g.second /\ x \in RowsOf(TenantOf[r])
            BY <1>0, <1>6, <2>2 DEF GetExistingNamespace, In, RoutineInv
      <3>3. h.row \in RowsOf(TenantOf[r])'
            BY <1>6, <3>1, <3>2 DEF GetExistingNamespace, RowsOf
      <3>4. QED  BY <1>1, <1>3, <2>2, <3>1, <3>2, <3>3 DEF RoutineInv
    <2>3. QED  BY <1>6, <2>1, <2>2 DEF GetExistingNamespace
  <1>7. CASE GetOperationSets(r, ty)
    <2>1. PICK b : RoutineIs(r, ty, [g EXCEPT !.second = b,
                     !.pc = IF Creating(req[r].stage) \/ Removes(r) THEN "project" ELSE "objects"])
                   /\ b \in CASE Cleans(r) -> {TRUE}
                              [] Removes(r) \/ ty = "user" -> {FALSE}
                              [] OTHER -> BOOLEAN
          BY <1>7 DEF GetOperationSets
    <2>2. Removes(r) => b = FALSE
          BY <2>1 DEF Removes, Cleans
    <2> DEFINE l == IF Creating(req[r].stage) \/ Removes(r) THEN "project" ELSE "objects"
    <2>3. l \in {"project", "objects"} /\ (Removes(r) => l = "project")
          OBVIOUS
    <2>4. h.pc = l /\ h.row = g.row /\ h.second = b
      <3>1. h = [g EXCEPT !.second = b, !.pc = l]
            BY <1>0, <2>1 DEF RoutineIs
      <3>2. QED  BY <1>d, <3>1
    <2>5. g.pc \in Working /\ rows' = rows
          BY <1>7 DEF GetOperationSets, In, Working
    <2> HIDE DEF l
    <2>6. QED  BY <1>0, <2>2, <2>3, <2>4, <2>5, GoesOnInv
  <1>8. CASE OperationSetsFail(r, ty)
    <2>1. h.pc = AfterSets(r, ty) /\ h.row = g.row /\ h.second = g.second /\ h.failed = TRUE
      <3>1. h = [g EXCEPT !.failed = TRUE, !.pc = AfterSets(r, ty)]
            BY <1>0, <1>8 DEF OperationSetsFail, RoutineIs
      <3>2. QED  BY <1>c, <3>1
    <2>2. g.pc \in Working /\ rows' = rows
          BY <1>8 DEF OperationSetsFail, In, Working
    <2>3. Removes(r) => ~g.second
          BY <1>0, <2>2 DEF RoutineInv
    <2>4. QED  BY <1>e, <1>f, <2>1, <2>2, <2>3, GoesOnInv
  <1>9. ASSUME g.pc \in Working, rows' = rows, NEW ok \in BOOLEAN, NextSet(r, ty, ok),
               Removes(r) /\ ok => projects'[ty][req[r].base].phase # "active"
        PROVE  RoutineInv(r, ty)'
    <2> DEFINE more == g.pc # "second" /\ g.second
               l == IF more THEN "second" ELSE AfterSets(r, ty)
               b == g.failed \/ ~ok
    <2>1. RoutineIs(r, ty, [g EXCEPT !.failed = b, !.pc = l])
          BY <1>9 DEF NextSet
    <2>2. l \in {"second", "callback", "save"}
          BY <1>f
    <2>3. Removes(r) => ~g.second /\ l = "save"
          BY <1>0, <1>9, <1>e DEF RoutineInv
    <2>4. b = FALSE => ok
          OBVIOUS
    <2> HIDE DEF l, b
    <2>5. h.pc = l /\ h.row = g.row /\ h.second = g.second /\ h.failed = b
      <3>1. h = [g EXCEPT !.failed = b, !.pc = l]
            BY <1>0, <2>1 DEF RoutineIs
      <3>2. QED  BY <1>c, <3>1
    <2>6. QED  BY <1>9, <2>2, <2>3, <2>4, <2>5, GoesOnInv DEF b
  <1>10. CASE CheckProject(r, ty) \/ PostProject(r, ty)
    <2>1. g.pc \in Working /\ rows' = rows
          BY <1>10 DEF CheckProject, PostProject, In, Working
    <2>2. ~Removes(r)
          BY <1>0, <1>10, <1>e DEF CheckProject, PostProject, In, RoutineInv, Working
    <2>3. CASE \E l \in {"post", "objects"} : RoutineGoto(r, ty, l)
      <3>1. PICK l \in {"post", "objects"} : RoutineGoto(r, ty, l)
            BY <2>3
      <3>2. h.pc = l /\ h.row = g.row
        <4>1. h = [g EXCEPT !.pc = l]
              BY <1>0, <3>1 DEF RoutineGoto, RoutineIs
        <4>2. QED  BY <1>a, <4>1
      <3>3. QED  BY <2>1, <2>2, <3>1, <3>2, GoesOnInv
    <2>4. CASE NextSet(r, ty, FALSE)
          BY <1>9, <2>1, <2>2, <2>4
    <2>5. QED  BY <1>10, <2>3, <2>4 DEF CheckProject, PostProject
  <1>11. CASE DeleteProject(r, ty)
    <2>1. g.pc \in Working /\ rows' = rows
          BY <1>11 DEF DeleteProject, In, Working
    <2> DEFINE p == projects[ty][req[r].base]
               q == IF p = Absent THEN p ELSE [p EXCEPT !.phase = "terminating"]
    <2>2. CASE NextSet(r, ty, TRUE) /\ ProjectsWith(ty, req[r].base, q)
      <3>1. /\ projects \in [EnvTypes -> [Numbers -> Project]] /\ p \in Project
            /\ req[r].base \in Numbers
            BY <1>0 DEF TypeOK, Request
      <3>2. q.phase # "active"
            BY <3>1 DEF Project, Absent
      <3> HIDE DEF q
      <3>3. projects'[ty][req[r].base] = q
            BY <2>2, <3>1 DEF ProjectsWith
      <3>4. QED  BY <1>9, <2>1, <2>2, <3>2, <3>3
    <2>3. CASE NextSet(r, ty, FALSE)
          BY <1>9, <2>1, <2>3
    <2>4. QED  BY <1>11, <2>2, <2>3 DEF DeleteProject
  <1>12. CASE ApplyObjects(r, ty) \/ ApplySecondSet(r, ty)
    <2>1. g.pc \in Working /\ rows' = rows
          BY <1>12 DEF ApplyObjects, ApplySecondSet, In, Working
    <2>2. ~Removes(r)
          BY <1>0, <1>12 DEF ApplyObjects, ApplySecondSet, In, RoutineInv, Working
    <2>3. \E ok \in BOOLEAN : NextSet(r, ty, ok)
          BY <1>12 DEF ApplyObjects, ApplySecondSet
    <2>4. QED  BY <1>9, <2>1, <2>2, <2>3
  <1>13. CASE AfterCallback(r, ty)
    <2>1. g.pc \in Working /\ rows' = rows
          BY <1>13 DEF AfterCallback, In, Working
    <2>2. ~Removes(r)
          BY <1>0, <1>13 DEF AfterCallback, In, RoutineInv, Working
    <2>3. h.pc = "save" /\ h.row = g.row
      <3>1. \/ h = [g EXCEPT !.pc = "save"]
            \/ h = [g EXCEPT !.pc = "save", !.failed = TRUE]
            BY <1>0, <1>13 DEF AfterCallback, RoutineGoto, RoutineIs
      <3>2. /\ [g EXCEPT !.pc = "save", !.failed = TRUE].pc = "save"
            /\ [g EXCEPT !.pc = "save", !.failed = TRUE].row = g.row
            BY <1>0 DEF Routine
      <3>3. CASE h = [g EXCEPT !.pc = "save"]
        <4>1. /\ [g EXCEPT !.pc = "save"].pc = "save"
              /\ [g EXCEPT !.pc = "save"].row = g.row
              BY <1>0 DEF Routine
        <4>2. QED  BY <3>3, <4>1
      <3>4. CASE h = [g EXCEPT !.pc = "save", !.failed = TRUE]
            BY <3>2, <3>4
      <3>5. QED  BY <3>1, <3>3, <3>4
    <2>4. QED  BY <2>1, <2>2, <2>3, GoesOnInv
  <1>14. CASE UpdateNamespace(r, ty)
         BY <1>2, <1>4, <1>14, <1>a DEF UpdateNamespace, RoutineGoto
  <1>15. QED
         BY <1>5, <1>6, <1>7, <1>8, <1>10, <1>11, <1>12, <1>13, <1>14
            DEF RoutineStep, TemplatesMissing

LEMMA RoutineStepInv ==
  ASSUME TableInv, NEW r \in Requests, NEW ty \in EnvTypes, RoutineStep(r, ty)
  PROVE  ReqInv(r)'
  <1>0. TypeOK /\ ReqInv(r)
        BY DEF TableInv, TypeInv
  <1>1. CASE Dies(r)
    <2>1. req'[r].pc = "crashed" /\ req'[r].stage = req[r].stage
          BY <1>0, <1>1 DEF Dies, Goto, RequestIs, TypeOK, Request
    <2>2. \A u \in EnvTypes : routine'[r][u].pc = "none"
          BY <1>0, <1>1 DEF Dies, TypeOK, IdleRoutine
    <2>3. SetupOnly(r)' /\ BaseRead(r)' /\ RowsRead(r)'
          BY <1>0, <2>1 DEF ReqInv, SetupOnly, BaseRead, RowsRead
    <2>4. QED  BY <2>2, <2>3, NoRoutines DEF ReqInv
  <1>2. CASE ~Dies(r)
    <2>1. /\ At(r, "apply") /\ tenants' = tenants
          /\ req'[r].pc = "apply" /\ req'[r].stage = req[r].stage /\ req'[r].base = req[r].base
          BY <1>0, <1>2, RoutineReq
    <2>2. SetupOnly(r)' /\ BaseRead(r)' /\ RowsRead(r)'
          BY <1>0, <2>1 DEF At, ReqInv, SetupOnly, BaseRead, RowsRead
    <2>3. RoutineInv(r, ty)' /\ \A u \in EnvTypes \ {ty} : RoutineInv(r, u)'
          BY <1>2, OwnRoutineInv, OtherRoutineInv
    <2>4. QED  BY <2>2, <2>3 DEF ReqInv
  <1>3. QED  BY <1>1, <1>2

-----------------------------------------------------------------------------
(* The theorems                                                            *)

(* No tenant that is there at the start with an old name has namespaces of *)
(* types that are no longer supported.                                     *)
NoOldLegacy == LegacyTypes = {} \/ \A t \in Tenants : InitialBase[t] # 0

LEMMA TableInit ==
  ASSUME NoOldLegacy
  PROVE  Init => TableInv
  <1> SUFFICES ASSUME Init PROVE TableInv
      OBVIOUS
  <1>1. TypeInv
        BY TypeInvInit
  <1> DEFINE First(t, ty) == [by |-> NoRequest, stage |-> "create", tenant |-> t, type |-> ty,
                              base |-> InitialBase[t], state |-> "ready"]
  <1>2. \A x \in rows : \E t \in Tenants, ty \in EnvTypes \cup LegacyTypes : x = First(t, ty)
        BY ConstantsAssumption DEF Init, InitialRows
  <1>3. \A t \in Tenants, ty \in InitialTypes :
          InitialBase[t] # NoName /\ InitialBase[t] # 0 => First(t, ty) \in rows
        BY DEF Init, InitialRows
  <1>4. RowsFollowBaseName
        BY <1>2 DEF Init, RowsFollowBaseName
  <1>5. OneRowPerType
        BY <1>2 DEF OneRowPerType
  <1>6. NothingLeftBehind
    <2> SUFFICES ASSUME NEW ty \in EnvTypes, NEW n \in Numbers,
                        projects[ty][n].phase = "active", projects[ty][n].owner # NoTenant
                 PROVE  \E x \in RowsOf(projects[ty][n].owner) : x.type = ty /\ x.base = n
        BY DEF NothingLeftBehind
    <2> DEFINE t == CHOOSE t \in Tenants : InitialBase[t] = n
    <2>1. /\ n > 0 /\ ty \in InitialTypes /\ \E u \in Tenants : InitialBase[u] = n
          /\ projects[ty][n] = [owner |-> t, phase |-> "active"]
          BY DEF Init, Absent
    <2>2. t \in Tenants /\ InitialBase[t] = n
          BY <2>1
    <2> HIDE DEF t
    <2>3. n # NoName /\ n # 0
          BY <2>1, ConstantsAssumption DEF Numbers
    <2>4. First(t, ty) \in rows
          BY <1>3, <2>1, <2>2, <2>3
    <2>5. QED  BY <2>1, <2>2, <2>4 DEF RowsOf
  <1>7. OneAtATime /\ OldNames
        BY DEF Init, OneAtATime, Active, IdleRequest, OldNames, NoOldLegacy
  <1>8. ASSUME NEW r \in Requests
        PROVE  ReqInv(r)
    <2>1. req[r].pc = "idle" /\ req[r].stage = "none" /\ \A ty \in EnvTypes : routine[r][ty].pc = "none"
          BY DEF Init, IdleRequest, IdleRoutine
    <2>2. QED  BY <2>1 DEF ReqInv, SetupOnly, BaseRead, RowsRead, RoutineInv, Working
  <1>9. QED  BY <1>1, <1>4, <1>5, <1>6, <1>7, <1>8 DEF TableInv

LEMMA BeginsInv ==
  ASSUME TableInv, NEW r \in Requests, Begin(r) \/ Crash(r)
  PROVE  ReqInv(r)' /\ UNCHANGED <<tenants, rows, projects>>
  <1>0. /\ TypeOK /\ ReqInv(r) /\ SetupOnly(r)
        BY DEF TableInv, TypeInv, ReqInv
  <1>1. CASE Begin(r)
    <2>1. req'[r].pc = FirstRead(KindOf[r]) /\ req'[r].stage = req[r].stage
          BY <1>0, <1>1 DEF Begin, Goto, RequestIs, TypeOK, Request
    <2>2. \A ty \in EnvTypes : routine'[r][ty].pc = "none"
          BY <1>0, <1>1, Quiet DEF Begin, At
    <2>3. KindOf[r] \in Kinds
          BY ConstantsAssumption
    <2>4. SetupOnly(r)' /\ BaseRead(r)' /\ RowsRead(r)'
          BY <1>0, <2>1, <2>3 DEF FirstRead, Kinds, SetupOnly, BaseRead, RowsRead
    <2>5. QED  BY <1>1, <2>2, <2>4, NoRoutines DEF ReqInv, Begin
  <1>2. CASE Crash(r)
    <2>1. req'[r].pc = "crashed" /\ req'[r].stage = req[r].stage
          BY <1>0, <1>2 DEF Crash, Dies, Goto, RequestIs, TypeOK, Request
    <2>2. \A u \in EnvTypes : routine'[r][u].pc = "none"
          BY <1>0, <1>2 DEF Crash, Dies, TypeOK, IdleRoutine
    <2>3. SetupOnly(r)' /\ BaseRead(r)' /\ RowsRead(r)'
          BY <1>0, <2>1 DEF SetupOnly, BaseRead, RowsRead
    <2>4. QED  BY <1>2, <2>2, <2>3, NoRoutines DEF ReqInv, Crash, Dies
  <1>3. QED  BY <1>1, <1>2

(* Nobody but r becomes active, and r only when it was or the other        *)
(* requests of its tenant are not.                                         *)
LEMMA OneAtATimeKept ==
  ASSUME Serial, TableInv, NEW r \in Requests, \A q \in Requests \ {r} : req'[q] = req[q],
         Active(r) \/ Begin(r)
  PROVE  OneAtATime'
  <1>1. \A q \in Requests \ {r} : Active(q)' = Active(q)
        BY DEF Active
  <1>2. \A q \in Requests \ {r} : TenantOf[q] = TenantOf[r] => ~Active(q)
    <2>1. CASE Active(r)
          BY <2>1 DEF TableInv, OneAtATime
    <2>2. CASE Begin(r)
          BY <2>2 DEF Begin, Serial, Active
    <2>3. QED  BY <2>1, <2>2
  <1>3. OneAtATime
        BY DEF TableInv
  <1>4. QED  BY <1>1, <1>2, <1>3 DEF OneAtATime

LEMMA TableStep ==
  ASSUME Serial
  PROVE  TableInv /\ [Next]_vars => TableInv'
  <1> SUFFICES ASSUME TableInv, [Next]_vars PROVE TableInv'
      OBVIOUS
  <1>0. /\ TypeInv /\ TypeOK /\ OneAtATime /\ OldNames
        /\ RowsFollowBaseName /\ OneRowPerType /\ NothingLeftBehind
        BY DEF TableInv, TypeInv
  <1>t. TypeInv'
        BY <1>0, TypeInvStep
  <1>1. ASSUME NEW r \in Requests, HandlerStep(r)
        PROVE  TableInv'
    <2>1. ReqInv(r)' /\ Frame(r) /\ Active(r)
          BY <1>1, HandlerInv, HandlerFrame, HandlerActive
    <2>2. \A q \in Requests \ {r} : req'[q] = req[q] /\ routine'[q] = routine[q]
          BY <1>0, <1>1, HandlersApart
    <2>3. \A q \in Requests \ {r} : ReqInv(q)'
          BY <2>1, <2>2, OthersInv
    <2>4. OneAtATime'
          BY <2>1, <2>2, OneAtATimeKept
    <2>5. (RowsFollowBaseName /\ OneRowPerType /\ NothingLeftBehind /\ OldNames)'
          BY <1>1, HandlerGlobals
    <2>6. QED  BY <1>t, <2>1, <2>3, <2>4, <2>5 DEF TableInv
  <1>2. ASSUME NEW r \in Requests, NEW ty \in EnvTypes, RoutineStep(r, ty)
        PROVE  TableInv'
    <2>1. ReqInv(r)' /\ Frame(r) /\ Active(r)
          BY <1>0, <1>2, RoutineStepInv, RoutineFrame, RoutineReq DEF Active, At
    <2>2. \A q \in Requests \ {r} : req'[q] = req[q] /\ routine'[q] = routine[q]
          BY <1>0, <1>2, RoutinesApart
    <2>3. \A q \in Requests \ {r} : ReqInv(q)'
          BY <2>1, <2>2, OthersInv
    <2>4. OneAtATime'
          BY <2>1, <2>2, OneAtATimeKept
    <2>5. (RowsFollowBaseName /\ OneRowPerType /\ NothingLeftBehind /\ OldNames)'
          BY <1>2, RoutineGlobals
    <2>6. QED  BY <1>t, <2>1, <2>3, <2>4, <2>5 DEF TableInv
  <1>3. ASSUME NEW r \in Requests, Begin(r) \/ Crash(r)
        PROVE  TableInv'
    <2>1. ReqInv(r)' /\ UNCHANGED <<tenants, rows, projects>>
          BY <1>3, BeginsInv
    <2>2. \A q \in Requests \ {r} : req'[q] = req[q] /\ routine'[q] = routine[q]
          BY <1>0, <1>3, HandlersApart
    <2>3. \A q \in Requests \ {r} : ReqInv(q)'
          BY <2>1, <2>2
             DEF TableInv, ReqInv, SetupOnly, BaseRead, RowsRead, RoutineInv, RowsOf, Removes
    <2>4. OneAtATime'
          BY <1>3, <2>2, OneAtATimeKept DEF Crash, Active
    <2>5. (RowsFollowBaseName /\ OneRowPerType /\ NothingLeftBehind /\ OldNames)'
          BY <1>0, <2>1 DEF RowsFollowBaseName, OneRowPerType, NothingLeftBehind, OldNames, RowsOf
    <2>6. QED  BY <1>t, <2>1, <2>3, <2>4, <2>5 DEF TableInv
  <1>4. ASSUME NEW ty \in EnvTypes, NEW n \in Numbers, ProjectRemoved(ty, n)
        PROVE  TableInv'
    <2>1. \A u \in EnvTypes, k \in Numbers :
            projects'[u][k] = projects[u][k] \/ projects'[u][k].phase # "active"
          BY <1>0, <1>4 DEF ProjectRemoved, ProjectsWith, TypeOK, Absent
    <2>2. NothingLeftBehind'
          BY <1>0, <1>4, <2>1 DEF ProjectRemoved, NothingLeftBehind, RowsOf
    <2>3. ASSUME NEW r \in Requests
          PROVE  ReqInv(r)'
      <3>1. ReqInv(r) /\ req[r].base \in Numbers
            BY <1>0 DEF TableInv, TypeOK, Request
      <3>2. SetupOnly(r)' /\ BaseRead(r)' /\ RowsRead(r)'
            BY <1>4, <3>1 DEF ProjectRemoved, ReqInv, SetupOnly, BaseRead, RowsRead, RowsOf
      <3>3. ASSUME NEW u \in EnvTypes
            PROVE  RoutineInv(r, u)'
        <4>1. projects'[u][req[r].base] = projects[u][req[r].base]
                \/ projects'[u][req[r].base].phase # "active"
              BY <2>1, <3>1
        <4>2. RoutineInv(r, u)
              BY <3>1 DEF ReqInv
        <4>3. Removes(r)' = Removes(r) /\ RowsOf(TenantOf[r])' = RowsOf(TenantOf[r])
              BY <1>4 DEF ProjectRemoved, Removes, RowsOf
        <4>4. QED  BY <1>4, <4>1, <4>2, <4>3 DEF ProjectRemoved, RoutineInv
      <3>4. QED  BY <3>2, <3>3 DEF ReqInv
    <2>4. OneAtATime' /\ OldNames' /\ RowsFollowBaseName' /\ OneRowPerType'
          BY <1>0, <1>4
             DEF ProjectRemoved, OneAtATime, Active, OldNames, RowsFollowBaseName, OneRowPerType
    <2>5. QED  BY <1>t, <2>2, <2>3, <2>4 DEF TableInv
  <1>5. CASE UNCHANGED vars
    <2>1. UNCHANGED tenants /\ UNCHANGED rows /\ UNCHANGED projects /\ UNCHANGED req
          /\ UNCHANGED routine
          BY <1>5 DEF vars
    <2>2. \A r \in Requests : ReqInv(r)'
          BY <2>1 DEF TableInv, ReqInv, SetupOnly, BaseRead, RowsRead, RoutineInv, RowsOf, Removes
    <2>3. (RowsFollowBaseName /\ OneRowPerType /\ NothingLeftBehind /\ OldNames /\ OneAtATime)'
          BY <1>0, <2>1 DEF RowsFollowBaseName, OneRowPerType, NothingLeftBehind, OldNames, RowsOf,
                            OneAtATime, Active
    <2>4. QED  BY <1>t, <2>2, <2>3 DEF TableInv
  <1>6. QED  BY <1>1, <1>2, <1>3, <1>4, <1>5 DEF Next

(* RowsFollowBaseName: when the requests of one tenant do not overlap,     *)
(* those of any number of tenants leave rows under the name of their       *)
(* tenant only, whatever is refused, fails, dies, is renamed or healed     *)
(* (controller/tenant.go, openshift/action.go).                            *)
THEOREM RowsHaveTheName ==
  ASSUME Serial, NoOldLegacy
  PROVE  Spec => []RowsFollowBaseName
  <1>1. TableInv => RowsFollowBaseName
        BY DEF TableInv
  <1>2. QED  BY <1>1, TableInit, TableStep, PTL DEF Spec

(* OneRowPerType: then a tenant also has at most one row of a type: the    *)
(* goroutine that creates one knows from rows read by its own request that *)
(* there is none (openshift/action.go, tenant/repository.go).              *)
THEOREM OneRowOfAType ==
  ASSUME Serial, NoOldLegacy
  PROVE  Spec => []OneRowPerType
  <1>1. TableInv => OneRowPerType
        BY DEF TableInv
  <1>2. QED  BY <1>1, TableInit, TableStep, PTL DEF Spec

(* NothingLeftBehind: then also every project of a tenant is found by one  *)
(* of its rows, so that no failure, crash or healing leaves a project that *)
(* nobody can update or remove (openshift/service.go).                     *)
THEOREM ProjectsAreFound ==
  ASSUME Serial, NoOldLegacy
  PROVE  Spec => []NothingLeftBehind
  <1>1. TableInv => NothingLeftBehind
        BY DEF TableInv
  <1>2. QED  BY <1>1, TableInit, TableStep, PTL DEF Spec

-----------------------------------------------------------------------------
(* Names                                                                   *)
(*                                                                         *)
(* A base name is chosen in one transaction and saved in another, so that  *)
(* two tenants that are set up at the same time may get the same one. When *)
(* they are not, a name leads to the projects of one tenant only.          *)

SetupsApart ==
  \A q, r \in Requests :
    TenantOf[q] # TenantOf[r] /\ KindOf[q] = "setup" /\ KindOf[r] = "setup" =>
      {q, r} \notin Overlap

StartsApart ==
  \A t, u \in Tenants : t # u /\ InitialBase[t] = InitialBase[u] => InitialBase[t] \in {NoName, 0}

OneSetupAtATime ==
  \A q, r \in Requests :
    TenantOf[q] # TenantOf[r] /\ KindOf[q] = "setup" /\ KindOf[r] = "setup" =>
      ~(Active(q) /\ Active(r))

NamesApart ==
  \A t, u \in Tenants : t # u /\ tenants[t] = tenants[u] => tenants[t] \in {NoName, 0}

(* A name that is not compliant has no namespaces of default types.        *)
OldEmpty == \A x \in rows : x.base = 0 => x.type \notin EnvTypes

(* A name about to be saved is no other tenant's; what creates is compliant. *)
NameFree(r) ==
  req[r].pc \in {"insert", "saveName"} =>
    \A t \in Tenants \ {TenantOf[r]} : tenants[t] # req[r].base

NamedFirst(r) ==
  \/ req[r].pc = "cluster" /\ KindOf[r] = "setup"
  \/ req[r].pc = "apply" /\ Creating(req[r].stage)
  => req[r].base # 0

NamesInv ==
  /\ TableInv
  /\ OneSetupAtATime /\ NamesApart /\ OldEmpty
  /\ \A r \in Requests : NameFree(r) /\ NamedFirst(r)

(* Where replies, jumps and starts leave a request. *)
LEMMA Lands ==
  ASSUME TypeOK, NEW r \in Requests
  PROVE  /\ \A a : Reply(r, a) => req'[r].pc = "done"
         /\ \A pc : Goto(r, pc) => req'[r].pc = pc /\ req'[r].base = req[r].base
                                   /\ req'[r].stage = req[r].stage
         /\ \A st : RequestIs(r, [req[r] EXCEPT !.stage = st]) => req'[r].pc = req[r].pc
  <1>0. req[r] \in Request /\ req \in [Requests -> Request]
    BY DEF TypeOK
  <1>1. \A a : Reply(r, a) => req'[r].pc = "done"
    BY <1>0 DEF Reply, RequestIs, Request
  <1>2. ASSUME NEW pc, Goto(r, pc)
        PROVE  req'[r].pc = pc /\ req'[r].base = req[r].base /\ req'[r].stage = req[r].stage
    BY <1>0, <1>2 DEF Goto, RequestIs, Request
  <1>3. \A st : RequestIs(r, [req[r] EXCEPT !.stage = st]) => req'[r].pc = req[r].pc
    BY SMTT(40), <1>0 DEF RequestIs, Request
  <1> QED BY <1>1, <1>2, <1>3

(* What a handler does to the name of its tenant. *)
LEMMA HandlerNames ==
  ASSUME NamesInv, NEW r \in Requests, HandlerStep(r)
  PROVE  \/ tenants' = tenants
         \/ tenants' = [tenants EXCEPT ![TenantOf[r]] = NoName]
         \/ /\ tenants' = [tenants EXCEPT ![TenantOf[r]] = req[r].base]
            /\ req[r].pc \in {"insert", "saveName"}
  <1>1. CASE InsertTenant(r)
    BY <1>1 DEF InsertTenant, At
  <1>2. CASE SaveName(r)
    BY <1>2 DEF SaveName, At
  <1>3. CASE CheckResults(r)
    BY <1>3 DEF CheckResults
  <1>4. CASE tenants' = tenants
    BY <1>4
  <1> QED
    BY <1>1, <1>2, <1>3, <1>4
       DEF HandlerStep, CheckExists, ChooseName, ReadNamespaces, ReadTenant, CheckMissing,
           CallAction, Join, Heal, CheckCleaned, CheckFails, VerifyDeleted

LEMMA CheckMissingNamed ==
  ASSUME NamesInv, NEW r \in Requests, CheckMissing(r)
  PROVE  NameFree(r)' /\ NamedFirst(r)'
  <1>0. /\ TypeOK /\ SetupOnly(r) /\ BaseRead(r) /\ RowsRead(r) /\ RowsFollowBaseName
        /\ req[r] \in Request /\ OldEmpty
    BY DEF NamesInv, TableInv, TypeInv, TypeOK, ReqInv
  <1> DEFINE missing == Missing(req[r].existing)
             l == IF missing = EnvTypes /\ req[r].base = 0 THEN "newName" ELSE "cluster"
  <1>1. CASE Reply(r, "conflict")
    BY <1>0, <1>1, Lands DEF NameFree, NamedFirst
  <1>2. CASE RequestIs(r, [req[r] EXCEPT !.types = missing, !.pc = l])
    <2>1. /\ req[r].existing = RowsOf(TenantOf[r])
          /\ tenants[TenantOf[r]] = req[r].base
      BY <1>0 DEF CheckMissing, SetupOnly, RowsRead, BaseRead, At
    <2>2. req'[r].base = req[r].base /\ req'[r].pc = l
      BY <1>0, <1>2 DEF RequestIs, TypeOK, Request
    <2>3. l = "cluster" => req[r].base # 0
      <3>1. SUFFICES ASSUME missing # EnvTypes, req[r].base = 0
                     PROVE  FALSE
        OBVIOUS
      <3>2. PICK x \in RowsOf(TenantOf[r]) : x.type \in EnvTypes
        BY <2>1, <3>1 DEF Missing
      <3>3. x.base = 0
        BY <1>0, <2>1, <3>1, <3>2 DEF RowsFollowBaseName, RowsOf
      <3> QED BY <1>0, <3>2, <3>3 DEF OldEmpty, RowsOf
    <2>4. l \in {"newName", "cluster"}
      OBVIOUS
    <2> HIDE DEF l
    <2> QED BY <2>2, <2>3, <2>4 DEF NameFree, NamedFirst
  <1> QED BY <1>1, <1>2 DEF CheckMissing

LEMMA StartNamed ==
  ASSUME TypeOK, NEW r \in Requests, NEW st \in Stages, NEW types \in SUBSET EnvTypes,
         NEW q \in Request, Start(r, st, types, q), Creating(st) => q.base # 0
  PROVE  NameFree(r)' /\ NamedFirst(r)'
  <1>1. req'[r].pc = "apply" /\ req'[r].stage = st /\ req'[r].base = q.base
    BY StartedFields
  <1> QED BY <1>1 DEF NameFree, NamedFirst

LEMMA HandlerNamed ==
  ASSUME NamesInv, NEW r \in Requests, HandlerStep(r)
  PROVE  NameFree(r)' /\ NamedFirst(r)'
  <1>0. /\ TypeOK /\ SetupOnly(r) /\ BaseRead(r) /\ HealsKnown(r)
        /\ req[r] \in Request /\ req[r].types \in SUBSET EnvTypes /\ NamedFirst(r)
    BY DEF NamesInv, TableInv, TypeInv, TypeOK, ReqInv, Request
  <1>1. ASSUME req'[r].pc \notin {"insert", "saveName", "cluster", "apply"}
        PROVE  NameFree(r)' /\ NamedFirst(r)'
    BY <1>1 DEF NameFree, NamedFirst
  <1>2. CASE \E a : Reply(r, a)
    BY <1>0, <1>1, <1>2, Lands
  <1>3. CASE \E pc \in {"namespaces", "name", "heal", "check", "verify", "newName"} : Goto(r, pc)
    BY <1>0, <1>1, <1>3, Lands
  <1>4. CASE CheckExists(r)
    BY <1>3, <1>4 DEF CheckExists
  <1>5. CASE ChooseName(r)
    <2>1. ASSUME NEW n \in Numbers, ConstructNsBaseName(n),
                 RequestIs(r, [req[r] EXCEPT !.base = n,
                                 !.pc = IF @ = "name" THEN "insert" ELSE "saveName"])
          PROVE  NameFree(r)' /\ NamedFirst(r)'
      <3>1. req'[r].base = n /\ req'[r].pc \in {"insert", "saveName"}
        BY <1>0, <2>1 DEF RequestIs, TypeOK, Request
      <3>2. \A t \in Tenants : tenants'[t] # n
        BY <1>5, <2>1 DEF ChooseName, ConstructNsBaseName, Taken
      <3> QED BY <3>1, <3>2 DEF NameFree, NamedFirst
    <2> QED BY <1>2, <1>5, <2>1 DEF ChooseName
  <1>6. CASE InsertTenant(r)
    <2>1. CASE RequestIs(r, [req[r] EXCEPT !.pc = "missing", !.existing = {}])
      BY <1>0, <1>1, <2>1 DEF RequestIs, TypeOK, Request
    <2> QED BY <1>2, <1>6, <2>1 DEF InsertTenant
  <1>7. CASE ReadNamespaces(r)
    <2>1. CASE RequestIs(r, [req[r] EXCEPT !.existing = RowsOf(TenantOf[r]),
                               !.pc = AfterNamespaces(KindOf[r])])
      <3>1. req'[r].pc = AfterNamespaces(KindOf[r])
        BY <1>0, <2>1 DEF RequestIs, TypeOK, Request
      <3> QED BY <3>1 DEF AfterNamespaces, NameFree, NamedFirst
    <2> QED BY <1>2, <1>7, <2>1 DEF ReadNamespaces
  <1>8. CASE ReadTenant(r)
    <2>1. CASE RequestIs(r, [req[r] EXCEPT !.base = tenants[TenantOf[r]],
                               !.pc = AfterTenant(KindOf[r])])
      <3>1. req'[r].pc = AfterTenant(KindOf[r])
        BY <1>0, <2>1 DEF RequestIs, TypeOK, Request
      <3> QED BY <3>1 DEF AfterTenant, NameFree, NamedFirst
    <2> QED BY <1>2, <1>8, <2>1 DEF ReadTenant
  <1>9. CASE CheckMissing(r)
    BY <1>9, CheckMissingNamed
  <1>10. CASE CallAction(r)
    <2>1. {"create", "update", "delete"} \subseteq Stages
          /\ ~Creating("update") /\ ~Creating("delete")
      BY DEF Stages, Creating
    <2>2. KindOf[r] = "setup" => req[r].base # 0
      BY <1>0, <1>10 DEF CallAction, NamedFirst, At
    <2>3. CASE \/ KindOf[r] = "setup" /\ Start(r, "create", req[r].types, req[r])
               \/ Start(r, "update", EnvTypes, req[r])
               \/ Start(r, "delete", EnvTypes, req[r])
      BY <1>0, <2>1, <2>2, <2>3, StartNamed
    <2> QED BY <1>2, <1>10, <2>3 DEF CallAction
  <1>11. CASE Join(r)
    BY <1>2, <1>3, <1>11 DEF Join
  <1>12. CASE Heal(r)
    <2> DEFINE current == [req[r] EXCEPT !.existing = RowsOf(TenantOf[r])]
               st == CASE req[r].stage = "create" -> "healDelete"
                       [] req[r].stage = "healDelete" -> "healRedelete"
                       [] req[r].stage = "delete" -> "redelete"
                       [] req[r].stage = "update" -> "reupdate"
    <2>1. CASE Start(r, st, EnvTypes, current)
      <3>1. RowsOf(TenantOf[r]) \in SUBSET Row
        BY <1>0 DEF TypeOK, RowsOf
      <3>2. current \in Request
        BY <1>0, <3>1, RequestTyped
      <3>3. st \in Stages /\ ~Creating(st)
        BY <1>0, <1>12 DEF Heal, HealsKnown, Stages, Creating
      <3> HIDE DEF current, st
      <3> QED BY <1>0, <2>1, <3>2, <3>3, StartNamed
    <2> QED BY <1>2, <1>12, <2>1 DEF Heal
  <1>13. CASE CheckResults(r) \/ CheckCleaned(r)
    <2>1. At(r, "check") /\ (AfterCheck(r) \/ \E a : Reply(r, a))
      BY <1>13 DEF CheckResults, CheckCleaned
    <2>2. CASE \E st : RequestIs(r, [req[r] EXCEPT !.stage = st])
      BY <1>0, <1>1, <2>1, <2>2, Lands DEF At
    <2> QED BY <1>2, <1>3, <2>1, <2>2 DEF AfterCheck
  <1>14. CASE CheckFails(r) \/ VerifyDeleted(r)
    BY <1>2, <1>14 DEF CheckFails, VerifyDeleted
  <1>15. CASE SaveName(r)
    <2>1. req[r].base # 0
      BY <1>0, <1>15 DEF SaveName, BaseRead, At
    <2>2. CASE Goto(r, "cluster")
      BY <1>0, <2>1, <2>2, Lands DEF NameFree, NamedFirst
    <2>3. CASE Start(r, "recreate", EnvTypes, req[r])
      BY <1>0, <2>1, <2>3, StartNamed DEF Stages
    <2> QED BY <1>2, <1>15, <2>2, <2>3 DEF SaveName
  <1> QED
    BY <1>4, <1>5, <1>6, <1>7, <1>8, <1>9, <1>10, <1>11, <1>12, <1>13, <1>14, <1>15
       DEF HandlerStep

(* The other requests, whose names a handler leaves free. *)
LEMMA OthersNamed ==
  ASSUME NamesInv, NEW r \in Requests, HandlerStep(r), NEW q \in Requests \ {r}
  PROVE  NameFree(q)' /\ NamedFirst(q)'
  <1>0. /\ TypeOK /\ tenants \in [Tenants -> Numbers \cup {NoName}] /\ NoName \notin Numbers
        /\ TenantOf[r] \in Tenants /\ req[q].base \in Numbers
        /\ NameFree(q) /\ NamedFirst(q) /\ SetupOnly(q) /\ SetupOnly(r)
        /\ OneAtATime /\ OneSetupAtATime
    BY ConstantsAssumption DEF NamesInv, TableInv, TypeInv, TypeOK, ReqInv, Request
  <1>1. req'[q] = req[q] /\ Active(r)
    BY <1>0, HandlersApart, HandlerActive
  <1>2. NamedFirst(q)'
    BY <1>0, <1>1 DEF NamedFirst
  <1>3. ASSUME req[q].pc \in {"insert", "saveName"}, NEW t \in Tenants \ {TenantOf[q]}
        PROVE  tenants'[t] # req[q].base
    <2>1. KindOf[q] = "setup" /\ Active(q)
      BY <1>0, <1>3 DEF SetupOnly, Active
    <2>2. req[r].pc \notin {"insert", "saveName"}
      <3>1. TenantOf[q] # TenantOf[r]
        BY <1>0, <1>1, <2>1 DEF OneAtATime
      <3>2. KindOf[r] # "setup"
        BY <1>0, <1>1, <2>1, <3>1 DEF OneSetupAtATime
      <3> QED BY <1>0, <3>2 DEF SetupOnly
    <2>3. tenants[t] # req[q].base
      BY <1>0, <1>3 DEF NameFree
    <2>4. CASE tenants' = tenants
      BY <2>3, <2>4
    <2>5. CASE tenants' = [tenants EXCEPT ![TenantOf[r]] = NoName]
      BY <1>0, <2>3, <2>5
    <2> QED BY <2>2, <2>4, <2>5, HandlerNames
  <1>4. NameFree(q)'
    BY <1>1, <1>3 DEF NameFree
  <1> QED BY <1>2, <1>4

LEMMA HandlerNamesApart ==
  ASSUME NamesInv, NEW r \in Requests, HandlerStep(r)
  PROVE  NamesApart' /\ OldEmpty'
  <1>0. /\ TypeOK /\ tenants \in [Tenants -> Numbers \cup {NoName}]
        /\ TenantOf[r] \in Tenants
        /\ NameFree(r) /\ NamesApart /\ OldEmpty
    BY ConstantsAssumption DEF NamesInv, TableInv, TypeInv, TypeOK
  <1>1. NamesApart'
    <2> SUFFICES ASSUME NEW t \in Tenants, NEW u \in Tenants, t # u, tenants'[t] = tenants'[u]
                 PROVE  tenants'[t] \in {NoName, 0}
      BY DEF NamesApart
    <2>1. CASE tenants' = tenants
      BY <1>0, <2>1 DEF NamesApart
    <2>2. CASE tenants' = [tenants EXCEPT ![TenantOf[r]] = NoName]
      BY <1>0, <2>2 DEF NamesApart
    <2>3. CASE /\ tenants' = [tenants EXCEPT ![TenantOf[r]] = req[r].base]
               /\ req[r].pc \in {"insert", "saveName"}
      <3>1. \A v \in Tenants \ {TenantOf[r]} : tenants[v] # req[r].base
        BY <1>0, <2>3 DEF NameFree
      <3> QED BY <1>0, <2>3, <3>1 DEF NamesApart
    <2> QED BY <2>1, <2>2, <2>3, HandlerNames
  <1>2. rows' \subseteq rows
    BY HandlerTables DEF NamesInv
  <1> QED BY <1>0, <1>1, <1>2 DEF OldEmpty

(* A goroutine creates rows under the name of its request only. *)
LEMMA RoutineNamed ==
  ASSUME NamesInv, NEW r \in Requests, NEW ty \in EnvTypes, RoutineStep(r, ty)
  PROVE  /\ tenants' = tenants /\ OldEmpty'
         /\ \A q \in Requests : NameFree(q)' /\ NamedFirst(q)'
  <1>0. /\ TableInv /\ TypeOK /\ OldEmpty /\ rows \subseteq Row
        /\ \A q \in Requests : NameFree(q) /\ NamedFirst(q)
    BY DEF NamesInv, TableInv, TypeInv, TypeOK
  <1>1. At(r, "apply") /\ tenants' = tenants
    BY <1>0, RoutineReq
  <1>2. OldEmpty'
    <2>1. CASE rows' \subseteq rows
      BY <1>0, <2>1 DEF OldEmpty
    <2>2. CASE Creates(r, ty)
      <3>1. CreateNamespace(r, ty) \/ rows' = rows
        <4>1. CASE UpdateNamespace(r, ty)
          <5>1. routine[r][ty].row \in RowsOf(TenantOf[r]) /\ routine[r][ty].row.type = ty
            BY <1>0, <4>1 DEF TableInv, ReqInv, RoutineInv, UpdateNamespace, In, Working
          <5> QED BY <2>2, <5>1 DEF Creates, RowsOf
        <4> QED
          BY ZenonT(60), <4>1 DEF RoutineStep, GetExistingNamespace, GetOperationSets, Dies, OperationSetsFail,
               TemplatesMissing, CheckProject, PostProject, DeleteProject, ApplyObjects,
               ApplySecondSet, AfterCallback
      <3>2. CASE CreateNamespace(r, ty)
        <4>1. req[r].base # 0
          BY <1>0, <3>2 DEF CreateNamespace, In, At, NamedFirst
        <4>2. \A x \in rows' : x \in rows \/ x.base # 0
          BY <2>2, <4>1, NewRowFields DEF Creates
        <4> QED BY <1>0, <4>2 DEF OldEmpty
      <3> QED BY SMTT(40), <1>0, <3>1, <3>2 DEF OldEmpty
    <2>3. CASE OwnRow(r, ty) /\ Saves(r, ty)
      <3> DEFINE x == routine[r][ty].row
      <3>1. x \in rows /\ x \in Row
        BY <1>0, <2>3 DEF OwnRow
      <3>2. PICK st \in States : rows' = (rows \ {x}) \cup {[x EXCEPT !.state = st]}
        BY <2>3 DEF Saves
      <3> HIDE DEF x
      <3>3. [x EXCEPT !.state = st].base = x.base /\ [x EXCEPT !.state = st].type = x.type
        BY <3>1, SavedFields
      <3> QED BY <1>0, <3>1, <3>2, <3>3 DEF OldEmpty
    <2>4. CASE Drops(r, ty)
      BY <2>1, <2>4 DEF Drops
    <2> QED BY <1>0, <2>1, <2>2, <2>3, <2>4, RoutineTables
  <1>3. ASSUME NEW q \in Requests
        PROVE  NameFree(q)' /\ NamedFirst(q)'
    <2>1. CASE q # r
      <3>1. req'[q] = req[q]
        BY <1>0, <2>1, RoutinesApart
      <3> QED BY <1>0, <1>1, <3>1 DEF NameFree, NamedFirst
    <2>2. CASE q = r /\ req'[r].pc = "apply" /\ req'[r].stage = req[r].stage
               /\ req'[r].base = req[r].base
      BY <1>0, <1>1, <2>2 DEF NameFree, NamedFirst, At
    <2>3. CASE q = r /\ Dies(r)
      <3>1. req'[r].pc = "crashed"
        BY <1>0, <2>3, Lands DEF Dies
      <3> QED BY <2>3, <3>1 DEF NameFree, NamedFirst
    <2> QED BY <1>0, <2>1, <2>2, <2>3, RoutineReq
  <1> QED BY <1>1, <1>2, <1>3

LEMMA OneSetupKept ==
  ASSUME SetupsApart, OneSetupAtATime, NEW r \in Requests,
         \A q \in Requests \ {r} : req'[q] = req[q], Active(r) \/ Begin(r)
  PROVE  OneSetupAtATime'
  <1>1. \A q \in Requests \ {r} : Active(q)' = Active(q)
    BY DEF Active
  <1>2. \A q \in Requests \ {r} :
          TenantOf[q] # TenantOf[r] /\ KindOf[q] = "setup" /\ KindOf[r] = "setup" => ~Active(q)
    <2>1. CASE Active(r)
      BY <2>1 DEF OneSetupAtATime
    <2>2. CASE Begin(r)
      BY <2>2 DEF Begin, SetupsApart, Active
    <2> QED BY <2>1, <2>2
  <1> QED BY <1>1, <1>2 DEF OneSetupAtATime

LEMMA NamesInit ==
  ASSUME NoOldLegacy, StartsApart
  PROVE  Init => NamesInv
  <1> SUFFICES ASSUME Init PROVE NamesInv
    OBVIOUS
  <1>1. TableInv
    BY TableInit
  <1>2. OldEmpty
    <2>1. \A x \in rows : \E t \in Tenants :
            /\ x.base = InitialBase[t]
            /\ x.type \in LegacyTypes \cup (IF InitialBase[t] = 0 THEN {} ELSE InitialTypes)
      BY DEF Init, InitialRows
    <2> QED BY <2>1, ConstantsAssumption DEF OldEmpty
  <1>3. NamesApart
    BY DEF Init, NamesApart, StartsApart
  <1>4. \A r \in Requests : req[r].pc = "idle"
    BY DEF Init, IdleRequest
  <1>5. OneSetupAtATime /\ \A r \in Requests : NameFree(r) /\ NamedFirst(r)
    BY <1>4 DEF OneSetupAtATime, Active, NameFree, NamedFirst
  <1> QED BY <1>1, <1>2, <1>3, <1>5 DEF NamesInv

LEMMA NamesStep ==
  ASSUME Serial, SetupsApart
  PROVE  NamesInv /\ [Next]_vars => NamesInv'
  <1> SUFFICES ASSUME NamesInv, [Next]_vars PROVE NamesInv'
    OBVIOUS
  <1>0. /\ TableInv /\ TypeOK /\ NamesApart /\ OldEmpty /\ OneSetupAtATime
        /\ \A r \in Requests : NameFree(r) /\ NamedFirst(r)
    BY DEF NamesInv, TableInv, TypeInv
  <1>t. TableInv'
    BY <1>0, TableStep
  <1>1. ASSUME NEW r \in Requests, HandlerStep(r)
        PROVE  NamesInv'
    <2>1. NamesApart' /\ OldEmpty' /\ \A q \in Requests : NameFree(q)' /\ NamedFirst(q)'
      BY <1>1, HandlerNamesApart, HandlerNamed, OthersNamed
    <2>2. OneSetupAtATime'
      BY <1>0, <1>1, HandlersApart, HandlerActive, OneSetupKept
    <2> QED BY <1>t, <2>1, <2>2 DEF NamesInv
  <1>2. ASSUME NEW r \in Requests, NEW ty \in EnvTypes, RoutineStep(r, ty)
        PROVE  NamesInv'
    <2>1. NamesApart' /\ OldEmpty' /\ \A q \in Requests : NameFree(q)' /\ NamedFirst(q)'
      BY <1>0, <1>2, RoutineNamed DEF NamesApart
    <2>2. OneSetupAtATime'
      <3>1. Active(r)
        BY <1>0, <1>2, RoutineReq DEF At, Active
      <3> QED BY <1>0, <1>2, <3>1, RoutinesApart, OneSetupKept
    <2> QED BY <1>t, <2>1, <2>2 DEF NamesInv
  <1>3. ASSUME NEW r \in Requests, Begin(r) \/ Crash(r)
        PROVE  NamesInv'
    <2>1. UNCHANGED <<tenants, rows, projects>>
      BY <1>0, <1>3, BeginsInv
    <2>2. \A q \in Requests \ {r} : req'[q] = req[q]
      BY <1>0, <1>3, HandlersApart
    <2>3. req'[r].pc \notin {"insert", "saveName", "cluster", "apply"}
      <3>1. FirstRead(KindOf[r]) \notin {"insert", "saveName", "cluster", "apply"}
        BY DEF FirstRead
      <3> QED BY <1>0, <1>3, <3>1, Lands DEF Begin, Crash, Dies
    <2>4. \A q \in Requests : NameFree(q)' /\ NamedFirst(q)'
      BY <1>0, <2>1, <2>2, <2>3 DEF NameFree, NamedFirst
    <2>5. OneSetupAtATime'
      BY <1>0, <1>3, <2>2, OneSetupKept DEF Crash, Active
    <2> QED BY <1>0, <1>t, <2>1, <2>4, <2>5 DEF NamesInv, NamesApart, OldEmpty
  <1>4. ASSUME NEW ty \in EnvTypes, NEW n \in Numbers, ProjectRemoved(ty, n)
        PROVE  NamesInv'
    BY <1>0, <1>t, <1>4 DEF NamesInv, NamesApart, OldEmpty, NameFree, NamedFirst, ProjectRemoved,
         OneSetupAtATime, Active
  <1>5. CASE UNCHANGED vars
    BY <1>0, <1>t, <1>5 DEF NamesInv, NamesApart, OldEmpty, NameFree, NamedFirst, vars,
         OneSetupAtATime, Active
  <1> QED BY <1>1, <1>2, <1>3, <1>4, <1>5 DEF Next

(* A project of a tenant has the name of this tenant, and no other has it. *)
LEMMA ProjectIsOwn ==
  ASSUME NamesInv, NEW r \in Requests, NEW ty \in EnvTypes, At(r, "apply"),
         projects[ty][req[r].base].phase = "active", projects[ty][req[r].base].owner # NoTenant
  PROVE  projects[ty][req[r].base] = OwnProject(r)
  <1> DEFINE n == req[r].base
             p == projects[ty][n]
  <1>0. /\ TypeOK /\ NothingLeftBehind /\ RowsFollowBaseName /\ BaseRead(r) /\ NamesApart /\ OldEmpty
        /\ n \in Numbers /\ TenantOf[r] \in Tenants /\ NoName \notin Numbers /\ p \in Project
    BY ConstantsAssumption DEF NamesInv, TableInv, TypeInv, TypeOK, ReqInv, Request
  <1>1. tenants[TenantOf[r]] = n
    BY <1>0 DEF BaseRead, At
  <1>2. PICK x \in RowsOf(p.owner) : x.type = ty /\ x.base = n
    BY <1>0 DEF NothingLeftBehind
  <1>3. x \in rows /\ x.tenant = p.owner /\ p.owner \in Tenants
    BY <1>0, <1>2 DEF RowsOf, TypeOK, Row
  <1>4. tenants[p.owner] = n
    BY <1>0, <1>2, <1>3 DEF RowsFollowBaseName
  <1>5. n # 0
    BY <1>0, <1>2, <1>3 DEF OldEmpty
  <1>6. p.owner = TenantOf[r]
    BY <1>0, <1>1, <1>3, <1>4, <1>5 DEF NamesApart
  <1>7. p.phase = "active"
    OBVIOUS
  <1> HIDE DEF p
  <1> QED BY <1>0, <1>6, <1>7 DEF Project, OwnProject, p

(* What changes a project of a tenant that is there. *)
LEMMA WhoChanges ==
  ASSUME NamesInv, [Next]_vars, NEW ty \in EnvTypes, NEW n \in Numbers,
         projects[ty][n].phase = "active", projects[ty][n].owner # NoTenant,
         projects'[ty][n] # projects[ty][n]
  PROVE  \E r \in Requests : /\ TenantOf[r] = projects[ty][n].owner
                             /\ RoutineStep(r, ty) /\ n = req[r].base
  <1>0. TypeOK /\ TableInv
    BY DEF NamesInv, TableInv, TypeInv
  <1>1. ASSUME NEW r \in Requests, HandlerStep(r) \/ Begin(r) \/ Crash(r)
        PROVE  FALSE
    BY <1>0, <1>1, HandlerTables, BeginsInv
  <1>2. ASSUME NEW r \in Requests, NEW u \in EnvTypes, RoutineStep(r, u)
        PROVE  TenantOf[r] = projects[ty][n].owner /\ u = ty /\ n = req[r].base
    <2>1. u = ty /\ n = req[r].base
      BY <1>0, <1>2, RoutineProjects
    <2>2. At(r, "apply")
      BY <1>0, <1>2, RoutineReq
    <2>3. projects[ty][n] = OwnProject(r)
      BY <2>1, <2>2, ProjectIsOwn
    <2> QED BY <2>1, <2>3 DEF OwnProject
  <1>3. ASSUME NEW u \in EnvTypes, NEW k \in Numbers, ProjectRemoved(u, k)
        PROVE  FALSE
    BY <1>0, <1>3 DEF ProjectRemoved, ProjectsWith, TypeOK
  <1>4. CASE UNCHANGED vars
    BY <1>4 DEF vars
  <1> QED BY <1>1, <1>2, <1>3, <1>4 DEF Next

(* OthersUntouched: when no two tenants are set up at the same time, no    *)
(* goroutine removes or replaces the project of a tenant it does not work  *)
(* for, whatever fails or dies (openshift/service.go goes by the name).    *)
THEOREM OnlyOwnProjects ==
  ASSUME Serial, NoOldLegacy, SetupsApart, StartsApart
  PROVE  Spec => OthersUntouched
  <1> DEFINE Untouched ==
        \A ty \in EnvTypes, n \in Numbers :
          LET p == projects[ty][n]
          IN  p.phase = "active" /\ p.owner # NoTenant /\ projects'[ty][n] # p =>
                \A r \in Requests :
                  req'[r] # req[r] \/ routine'[r] # routine[r] => TenantOf[r] = p.owner
  <1>1. ASSUME NamesInv, [Next]_vars
        PROVE  Untouched
    <2> SUFFICES ASSUME NEW ty \in EnvTypes, NEW n \in Numbers,
                        projects[ty][n].phase = "active", projects[ty][n].owner # NoTenant,
                        projects'[ty][n] # projects[ty][n], NEW q \in Requests,
                        req'[q] # req[q] \/ routine'[q] # routine[q]
                 PROVE  TenantOf[q] = projects[ty][n].owner
      OBVIOUS
    <2>1. PICK r \in Requests : TenantOf[r] = projects[ty][n].owner /\ RoutineStep(r, ty)
      BY <1>1, WhoChanges
    <2>2. TypeOK
      BY <1>1 DEF NamesInv, TableInv, TypeInv
    <2>3. q = r
      BY <2>1, <2>2, RoutinesApart
    <2> QED BY <2>1, <2>3
  <1>2. Spec => []NamesInv
    BY NamesInit, NamesStep, PTL DEF Spec
  <1>3. Spec => [][Untouched]_vars
    <2>1. NamesInv /\ [Next]_vars => [Untouched]_vars
      BY <1>1
    <2> QED BY <1>2, <2>1, PTL DEF Spec
  <1> QED BY <1>3 DEF OthersUntouched

-----------------------------------------------------------------------------
(* What a started action is, and how its goroutines go on                  *)

(* What neither creates nor deletes is an update. *)
OnlyUpdates(r) ==
  req[r].pc \in {"apply", "heal"} /\ ~Creating(req[r].stage) /\ ~Deleting(req[r].stage) =>
    KindOf[r] = "update"

(* A handler either leaves its goroutines at rest or starts one for every type. *)
Started(r) ==
  /\ req'[r].pc = "apply"
  /\ \A ty \in req'[r].types : routine'[r][ty].pc = "entity" /\ ~routine'[r][ty].failed

LEMMA StartGoroutines ==
  ASSUME TypeOK, NEW r \in Requests, NEW st \in Stages, NEW types \in SUBSET EnvTypes,
         NEW q \in Request, Start(r, st, types, q)
  PROVE  Started(r) /\ req'[r].stage = st
  <1>1. req'[r].pc = "apply" /\ req'[r].stage = st /\ req'[r].types = types
    BY StartedFields
  <1>2. routine'[r] = [u \in EnvTypes |->
                         IF u \in types THEN [IdleRoutine EXCEPT !.pc = "entity"] ELSE IdleRoutine]
    BY DEF Start, TypeOK
  <1>3. \A ty \in types : routine'[r][ty] = [IdleRoutine EXCEPT !.pc = "entity"]
    BY <1>2
  <1> QED BY <1>1, <1>3 DEF Started, IdleRoutine

LEMMA HandlerStarts ==
  ASSUME TypeInv, NEW r \in Requests, HandlerStep(r), OnlyUpdates(r)
  PROVE  OnlyUpdates(r)' /\ (req'[r].pc = "apply" => Started(r))
  <1>0. /\ TypeOK /\ HealsKnown(r) /\ req[r] \in Request /\ req[r].types \in SUBSET EnvTypes
    BY DEF TypeInv, TypeOK, Request
  <1>1. ASSUME req'[r].pc \notin {"apply", "heal"}
        PROVE  OnlyUpdates(r)' /\ (req'[r].pc = "apply" => Started(r))
    BY <1>1 DEF OnlyUpdates
  <1>2. CASE \E a : Reply(r, a)
    BY <1>0, <1>1, <1>2, Lands
  <1>3. CASE \E pc \in {"namespaces", "name", "cluster", "check", "verify", "newName"} : Goto(r, pc)
    BY <1>0, <1>1, <1>3, Lands
  <1>4. ASSUME NEW st \in Stages, NEW types \in SUBSET EnvTypes, NEW q \in Request,
               Start(r, st, types, q), Creating(st) \/ Deleting(st) \/ KindOf[r] = "update"
        PROVE  OnlyUpdates(r)' /\ (req'[r].pc = "apply" => Started(r))
    BY <1>0, <1>4, StartGoroutines DEF OnlyUpdates
  <1>5. CASE CheckExists(r)
    BY <1>3, <1>5 DEF CheckExists
  <1>6. CASE ChooseName(r)
    <2>1. ASSUME NEW n \in Numbers,
                 RequestIs(r, [req[r] EXCEPT !.base = n,
                                 !.pc = IF @ = "name" THEN "insert" ELSE "saveName"])
          PROVE  req'[r].pc \notin {"apply", "heal"}
      BY <1>0, <2>1 DEF RequestIs, TypeOK, Request
    <2> QED BY <1>1, <1>2, <1>6, <2>1 DEF ChooseName
  <1>7. CASE InsertTenant(r)
    <2>1. CASE RequestIs(r, [req[r] EXCEPT !.pc = "missing", !.existing = {}])
      BY <1>0, <1>1, <2>1 DEF RequestIs, TypeOK, Request
    <2> QED BY <1>2, <1>7, <2>1 DEF InsertTenant
  <1>8. CASE ReadNamespaces(r)
    <2>1. CASE RequestIs(r, [req[r] EXCEPT !.existing = RowsOf(TenantOf[r]),
                               !.pc = AfterNamespaces(KindOf[r])])
      <3>1. req'[r].pc = AfterNamespaces(KindOf[r])
        BY <1>0, <2>1 DEF RequestIs, TypeOK, Request
      <3> QED BY <1>1, <3>1 DEF AfterNamespaces
    <2> QED BY <1>2, <1>8, <2>1 DEF ReadNamespaces
  <1>9. CASE ReadTenant(r)
    <2>1. CASE RequestIs(r, [req[r] EXCEPT !.base = tenants[TenantOf[r]],
                               !.pc = AfterTenant(KindOf[r])])
      <3>1. req'[r].pc = AfterTenant(KindOf[r])
        BY <1>0, <2>1 DEF RequestIs, TypeOK, Request
      <3> QED BY <1>1, <3>1 DEF AfterTenant
    <2> QED BY <1>2, <1>9, <2>1 DEF ReadTenant
  <1>10. CASE CheckMissing(r)
    <2> DEFINE missing == Missing(req[r].existing)
               l == IF missing = EnvTypes /\ req[r].base = 0 THEN "newName" ELSE "cluster"
    <2>1. CASE RequestIs(r, [req[r] EXCEPT !.types = missing, !.pc = l])
      <3>1. req'[r].pc = l
        BY <1>0, <2>1 DEF RequestIs, TypeOK, Request
      <3> QED BY <1>1, <3>1
    <2> QED BY <1>2, <1>10, <2>1 DEF CheckMissing
  <1>11. CASE CallAction(r)
    <2>1. /\ {"create", "update", "delete"} \subseteq Stages
          /\ Creating("create") /\ Deleting("delete")
      BY DEF Stages, Creating, Deleting
    <2> QED BY <1>0, <1>2, <1>4, <1>11, <2>1 DEF CallAction
  <1>12. CASE Join(r)
    <2>1. CASE Goto(r, "heal")
      <3>1. req'[r].pc = "heal" /\ req'[r].stage = req[r].stage
        BY <1>0, <2>1, Lands
      <3> QED BY <1>12, <3>1 DEF OnlyUpdates, Join, At
    <2> QED BY <1>2, <1>3, <1>12, <2>1 DEF Join
  <1>13. CASE Heal(r)
    <2> DEFINE current == [req[r] EXCEPT !.existing = RowsOf(TenantOf[r])]
               st == CASE req[r].stage = "create" -> "healDelete"
                       [] req[r].stage = "healDelete" -> "healRedelete"
                       [] req[r].stage = "delete" -> "redelete"
                       [] req[r].stage = "update" -> "reupdate"
    <2>1. CASE Start(r, st, EnvTypes, current)
      <3>1. RowsOf(TenantOf[r]) \in SUBSET Row
        BY <1>0 DEF TypeOK, RowsOf
      <3>2. current \in Request
        BY <1>0, <3>1, RequestTyped
      <3>3. st \in Stages /\ (Deleting(st) \/ req[r].stage = "update")
        BY <1>0, <1>13 DEF Heal, HealsKnown, Stages, Deleting
      <3>4. req[r].stage = "update" => KindOf[r] = "update"
        BY <1>13 DEF Heal, At, OnlyUpdates, Creating, Deleting
      <3> HIDE DEF current, st
      <3> QED BY <1>4, <2>1, <3>2, <3>3, <3>4
    <2> QED BY <1>2, <1>13, <2>1 DEF Heal
  <1>14. CASE CheckResults(r) \/ CheckCleaned(r)
    <2>1. At(r, "check") /\ (AfterCheck(r) \/ \E a : Reply(r, a))
      BY <1>14 DEF CheckResults, CheckCleaned
    <2>2. CASE \E st : RequestIs(r, [req[r] EXCEPT !.stage = st])
      BY <1>0, <1>1, <2>1, <2>2, Lands DEF At
    <2> QED BY <1>2, <1>3, <2>1, <2>2 DEF AfterCheck
  <1>15. CASE CheckFails(r) \/ VerifyDeleted(r)
    BY <1>2, <1>15 DEF CheckFails, VerifyDeleted
  <1>16. CASE SaveName(r)
    <2>1. "recreate" \in Stages /\ Creating("recreate")
      BY DEF Stages, Creating
    <2> QED BY <1>0, <1>2, <1>3, <1>4, <1>16, <2>1 DEF SaveName
  <1> QED
    BY <1>5, <1>6, <1>7, <1>8, <1>9, <1>10, <1>11, <1>12, <1>13, <1>14, <1>15, <1>16
       DEF HandlerStep

LEMMA HandlerAtRest ==
  ASSUME TableInv, NEW r \in Requests, HandlerStep(r) \/ Begin(r) \/ Crash(r), NEW ty \in EnvTypes
  PROVE  routine'[r][ty].pc \in {"none", "entity"}
  <1>0. TypeOK /\ ReqInv(r)
    BY DEF TableInv, TypeInv
  <1>1. CASE ~At(r, "apply")
    BY <1>0, <1>1, Quiet, HandlerRoutines
  <1>2. CASE At(r, "apply") /\ HandlerStep(r)
    <2>1. Join(r)
      BY <1>2 DEF HandlerStep, CheckExists, ChooseName, InsertTenant, ReadNamespaces, ReadTenant,
           CheckMissing, CallAction, Heal, CheckResults, CheckCleaned, CheckFails, VerifyDeleted,
           SaveName, At
    <2> QED BY <1>0, <2>1 DEF Join, TypeOK, IdleRoutine
  <1>3. CASE Crash(r)
    BY <1>0, <1>3 DEF Crash, Dies, TypeOK, IdleRoutine
  <1>4. CASE At(r, "apply") /\ Begin(r)
    BY <1>4 DEF Begin, At
  <1> QED BY <1>1, <1>2, <1>3, <1>4

(* How a goroutine goes on after an operation set. *)
LEMMA NextSetFields ==
  ASSUME TypeOK, NEW r \in Requests, NEW ty \in EnvTypes, NEW ok \in BOOLEAN, NextSet(r, ty, ok)
  PROVE  LET g == routine[r][ty]
             h == routine'[r][ty]
         IN  /\ h.failed = (g.failed \/ ~ok) /\ h.row = g.row
             /\ h.pc = IF g.pc # "second" /\ g.second THEN "second" ELSE AfterSets(r, ty)
             /\ req'[r].types = req[r].types
             /\ req'[r].errs = IF ok THEN req[r].errs ELSE req[r].errs + 1
  <1>0. routine \in [Requests -> [EnvTypes -> Routine]] /\ routine[r][ty] \in Routine
        /\ req[r] \in Request /\ req \in [Requests -> Request]
    BY DEF TypeOK
  <1>1. \A pc, b : /\ [routine[r][ty] EXCEPT !.failed = b, !.pc = pc].pc = pc
                   /\ [routine[r][ty] EXCEPT !.failed = b, !.pc = pc].failed = b
                   /\ [routine[r][ty] EXCEPT !.failed = b, !.pc = pc].row = routine[r][ty].row
    BY <1>0 DEF Routine
  <1> DEFINE b == routine[r][ty].failed \/ ~ok
             l == IF routine[r][ty].pc # "second" /\ routine[r][ty].second THEN "second"
                  ELSE AfterSets(r, ty)
  <1>2. routine'[r][ty] = [routine[r][ty] EXCEPT !.failed = b, !.pc = l]
    BY <1>0 DEF NextSet, RoutineIs
  <1>3. req'[r].types = req[r].types /\ req'[r].errs = IF ok THEN req[r].errs ELSE req[r].errs + 1
    BY <1>0 DEF NextSet, Send, NoError, RequestIs, Request
  <1> HIDE DEF b, l
  <1>4. routine'[r][ty].failed = b /\ routine'[r][ty].row = routine[r][ty].row
        /\ routine'[r][ty].pc = l
    BY <1>1, <1>2
  <1> QED BY <1>3, <1>4 DEF b, l

-----------------------------------------------------------------------------
(* Answers                                                                 *)

(* Rows are saved, and a transaction that creates one begins. *)
RowsAreSaved == Faults \cap {"save", "begin"} = {}

(* A goroutine that creates has failed only with an error, and has ended   *)
(* without one only when its row is ready.                                 *)
GoesWell(r, ty) ==
  LET g == routine[r][ty]
  IN  /\ g.pc # "none"
      /\ g.failed => req[r].errs > 0
      /\ g.pc = "end" /\ req[r].errs = 0 =>
           \E x \in RowsOf(TenantOf[r]) : x.type = ty /\ x.state = "ready"

CreatesWell(r) ==
  At(r, "apply") /\ Creating(req[r].stage) => \A ty \in req[r].types : GoesWell(r, ty)

AnswerInv ==
  /\ TableInv
  /\ \A r \in Requests : OnlyUpdates(r) /\ CreatesWell(r)

LEMMA RoutineErrs ==
  ASSUME TypeOK, NEW r \in Requests, NEW ty \in EnvTypes, RoutineStep(r, ty), ~Dies(r)
  PROVE  /\ req'[r].types = req[r].types /\ req'[r].errs \in {req[r].errs, req[r].errs + 1}
         /\ req'[r].reply = req[r].reply
  <1>1. Send(r) \/ NoError
    BY ZenonT(60) DEF RoutineStep, CreateNamespace, GetExistingNamespace, GetOperationSets,
           OperationSetsFail, TemplatesMissing, CheckProject, PostProject, DeleteProject,
           ApplyObjects, ApplySecondSet, AfterCallback, UpdateNamespace, NextSet, RoutineGoto
  <1> QED BY <1>1 DEF Send, NoError, RequestIs, TypeOK, Request

LEMMA SavedIsReady ==
  ASSUME TableInv, RowsAreSaved, NEW r \in Requests, NEW ty \in EnvTypes, UpdateNamespace(r, ty),
         ~Deleting(req[r].stage), ~routine[r][ty].failed
  PROVE  \E x \in RowsOf(TenantOf[r])' : x.type = ty /\ x.state = "ready"
  <1> DEFINE x == routine[r][ty].row
             z == [x EXCEPT !.state = "ready"]
  <1>1. x \in RowsOf(TenantOf[r]) /\ x.type = ty /\ x \in Row
    BY DEF TableInv, TypeInv, TypeOK, ReqInv, RoutineInv, UpdateNamespace, In, Working, RowsOf
  <1>2. rows' = Saved(z)
    <2>1. rows' = Outcome(r, ty)
      BY DEF UpdateNamespace, Fault, RowsAreSaved
    <2> QED BY <2>1 DEF Outcome, Removes, Cleans
  <1>3. z.state = "ready" /\ z.type = ty /\ z.tenant = TenantOf[r]
    BY <1>1 DEF Row, RowsOf
  <1> HIDE DEF z
  <1> QED BY <1>2, <1>3 DEF Saved, RowsOf

LEMMA CreatorGoesWell ==
  ASSUME TableInv, RowsAreSaved, NEW r \in Requests, NEW ty \in EnvTypes, RoutineStep(r, ty),
         Creating(req[r].stage), GoesWell(r, ty), ~Dies(r)
  PROVE  GoesWell(r, ty)'
  <1> DEFINE g == routine[r][ty]
             h == routine'[r][ty]
  <1>0. /\ TypeOK /\ RoutineInv(r, ty) /\ req[r] \in Request /\ req[r].errs \in Nat
        /\ routine \in [Requests -> [EnvTypes -> Routine]] /\ g \in Routine
        /\ req \in [Requests -> Request]
    BY DEF TableInv, TypeInv, TypeOK, ReqInv, Request
  <1>1. /\ \A pc : RoutineGoto(r, ty, pc) => h.pc = pc /\ h.failed = g.failed
        /\ NoError => req'[r].errs = req[r].errs
        /\ Send(r) => req'[r].errs = req[r].errs + 1
        /\ ~Deleting(req[r].stage)
    <2>1. ASSUME NEW pc, RoutineGoto(r, ty, pc)
          PROVE  h.pc = pc /\ h.failed = g.failed
      BY <1>0, <2>1 DEF RoutineGoto, RoutineIs, Routine
    <2>2. NoError => req'[r].errs = req[r].errs
      BY DEF NoError
    <2>3. Send(r) => req'[r].errs = req[r].errs + 1
      BY <1>0 DEF Send, RequestIs, Request
    <2> QED BY <2>1, <2>2, <2>3 DEF Creating, Deleting
  <1>2. CASE h.pc \notin {"none", "end"} /\ h.failed = g.failed /\ NoError
    BY <1>1, <1>2 DEF GoesWell
  <1>3. CASE h.pc # "none" /\ Send(r)
    BY <1>0, <1>1, <1>3 DEF GoesWell
  <1>4. ASSUME NEW ok \in BOOLEAN, NextSet(r, ty, ok)
        PROVE  GoesWell(r, ty)'
    <2>1. /\ h.failed = (g.failed \/ ~ok) /\ h.pc \in {"second", "callback", "save"}
          /\ req'[r].errs = IF ok THEN req[r].errs ELSE req[r].errs + 1
      BY <1>0, <1>4, NextSetFields DEF AfterSets
    <2>2. CASE ok
      BY <2>1, <2>2 DEF GoesWell
    <2>3. CASE ~ok
      <3>1. req'[r].errs > 0
        BY <1>0, <2>1, <2>3
      <3> QED BY <2>1, <3>1 DEF GoesWell
    <2> QED BY <2>2, <2>3
  <1>5. CASE CreateNamespace(r, ty)
    <2>1. CASE /\ RoutineIs(r, ty, [routine[r][ty] EXCEPT !.pc = "sets", !.row = NewRow(r, ty)])
               /\ NoError
      <3>1. h.pc = "sets" /\ h.failed = g.failed
        BY <1>0, <2>1 DEF RoutineIs, Routine
      <3> QED BY <1>2, <2>1, <3>1
    <2>2. ~IsDuplicate(r, ty)
      BY <1>0, <1>5 DEF CreateNamespace, In, RoutineInv, IsDuplicate
    <2>3. CASE RoutineGoto(r, ty, "end") /\ Send(r)
      BY <1>1, <1>3, <2>3
    <2> QED BY <1>5, <2>1, <2>2, <2>3 DEF CreateNamespace, Fault, RowsAreSaved
  <1>6. CASE GetOperationSets(r, ty)
    <2>1. PICK second : RoutineIs(r, ty, [routine[r][ty] EXCEPT !.second = second, !.pc = "project"])
      BY <1>6 DEF GetOperationSets
    <2>2. h.pc = "project" /\ h.failed = g.failed
      BY <1>0, <2>1 DEF RoutineIs, Routine
    <2> QED BY <1>2, <1>6, <2>2 DEF GetOperationSets
  <1>7. CASE OperationSetsFail(r, ty)
    <2>1. h = [g EXCEPT !.failed = TRUE, !.pc = AfterSets(r, ty)]
      BY <1>0, <1>7 DEF OperationSetsFail, RoutineIs
    <2>2. h.pc = AfterSets(r, ty)
      BY <1>0, <2>1 DEF Routine
    <2>3. h.pc # "none" /\ Send(r)
      BY <1>7, <2>2 DEF OperationSetsFail, AfterSets
    <2> QED BY <1>3, <2>3
  <1>8. CASE CheckProject(r, ty) \/ PostProject(r, ty)
    <2>1. CASE NextSet(r, ty, FALSE)
      BY <1>4, <2>1
    <2>2. CASE NoError /\ \E pc \in {"post", "objects"} : RoutineGoto(r, ty, pc)
      BY <1>1, <1>2, <2>2
    <2> QED BY <1>8, <2>1, <2>2 DEF CheckProject, PostProject
  <1>9. CASE ApplyObjects(r, ty) \/ ApplySecondSet(r, ty)
    <2>1. \E ok \in BOOLEAN : NextSet(r, ty, ok)
      BY <1>9 DEF ApplyObjects, ApplySecondSet
    <2> QED BY <1>4, <2>1
  <1>10. CASE AfterCallback(r, ty)
    <2>1. CASE RoutineIs(r, ty, [routine[r][ty] EXCEPT !.pc = "save", !.failed = TRUE]) /\ Send(r)
      <3>1. h.pc = "save"
        BY <1>0, <2>1 DEF RoutineIs, Routine
      <3> QED BY <1>3, <2>1, <3>1
    <2> QED BY <1>1, <1>2, <1>10, <2>1 DEF AfterCallback
  <1>11. CASE UpdateNamespace(r, ty)
    <2>1. h.pc = "end" /\ h.failed = g.failed /\ req'[r].errs = req[r].errs
      BY <1>1, <1>11 DEF UpdateNamespace
    <2>2. req[r].errs = 0 => ~g.failed
      BY DEF GoesWell
    <2>3. req[r].errs = 0 => \E x \in RowsOf(TenantOf[r])' : x.type = ty /\ x.state = "ready"
      BY <1>1, <1>11, <2>2, SavedIsReady
    <2> QED BY <2>1, <2>3 DEF GoesWell
  <1> QED
    BY <1>1, <1>5, <1>6, <1>7, <1>8, <1>9, <1>10, <1>11
       DEF RoutineStep, TemplatesMissing, GetExistingNamespace, DeleteProject

(* The goroutines of the other types are not disturbed. *)
LEMMA CreatorsApart ==
  ASSUME TableInv, NEW r \in Requests, NEW ty \in EnvTypes, RoutineStep(r, ty), ~Dies(r),
         NEW u \in EnvTypes \ {ty}, GoesWell(r, u)
  PROVE  GoesWell(r, u)'
  <1>0. TypeOK /\ req[r].errs \in Nat
    BY DEF TableInv, TypeInv, TypeOK, Request
  <1>1. routine'[r][u] = routine[r][u]
    BY <1>0, RoutinesApart
  <1>2. req'[r].errs \in {req[r].errs, req[r].errs + 1}
    BY <1>0, RoutineErrs
  <1>3. \A x \in RowsOf(TenantOf[r]) : x.type = u => x \in RowsOf(TenantOf[r])'
    BY RowsAfter DEF RowsOf, OfType
  <1> QED BY <1>0, <1>1, <1>2, <1>3 DEF GoesWell

(* A step of another request leaves the rows of a request that applies.    *)
LEMMA OthersGoOn ==
  ASSUME TableInv, NEW r \in Requests, NEW q \in Requests \ {r}, Active(r), Frame(r),
         req'[q] = req[q], routine'[q] = routine[q], OnlyUpdates(q), CreatesWell(q)
  PROVE  OnlyUpdates(q)' /\ CreatesWell(q)'
  <1>1. OnlyUpdates(q)'
    BY DEF OnlyUpdates
  <1>2. ASSUME At(q, "apply")
        PROVE  RowsOf(TenantOf[q])' = RowsOf(TenantOf[q])
    <2>1. TenantOf[q] # TenantOf[r] /\ TenantOf[q] \in Tenants
      BY <1>2, ConstantsAssumption DEF At, Active, TableInv, OneAtATime
    <2> QED BY <2>1 DEF Frame
  <1>3. CreatesWell(q)'
    BY <1>2 DEF CreatesWell, GoesWell, At
  <1> QED BY <1>1, <1>3

LEMMA AnswerInit ==
  ASSUME NoOldLegacy
  PROVE  Init => AnswerInv
  BY TableInit DEF Init, IdleRequest, AnswerInv, OnlyUpdates, CreatesWell, At

LEMMA AnswerStep ==
  ASSUME Serial, RowsAreSaved
  PROVE  AnswerInv /\ [Next]_vars => AnswerInv'
  <1> SUFFICES ASSUME AnswerInv, [Next]_vars PROVE AnswerInv'
    OBVIOUS
  <1>0. /\ TableInv /\ TypeInv /\ TypeOK
        /\ \A r \in Requests : OnlyUpdates(r) /\ CreatesWell(r)
    BY DEF AnswerInv, TableInv, TypeInv
  <1>t. TableInv'
    BY <1>0, TableStep
  <1>1. ASSUME NEW r \in Requests, HandlerStep(r)
        PROVE  AnswerInv'
    <2>1. \A q \in Requests \ {r} : OnlyUpdates(q)' /\ CreatesWell(q)'
      BY <1>0, <1>1, HandlersApart, HandlerActive, HandlerFrame, OthersGoOn
    <2>2. OnlyUpdates(r)' /\ (req'[r].pc = "apply" => Started(r))
      BY <1>0, <1>1, HandlerStarts
    <2>3. CreatesWell(r)'
      BY <2>2 DEF Started, CreatesWell, GoesWell, At
    <2> QED BY <1>t, <2>1, <2>2, <2>3 DEF AnswerInv
  <1>2. ASSUME NEW r \in Requests, NEW ty \in EnvTypes, RoutineStep(r, ty)
        PROVE  AnswerInv'
    <2>1. Active(r) /\ Frame(r)
      BY <1>0, <1>2, RoutineFrame, RoutineReq DEF Active, At
    <2>2. \A q \in Requests \ {r} : OnlyUpdates(q)' /\ CreatesWell(q)'
      BY <1>0, <1>2, <2>1, RoutinesApart, OthersGoOn
    <2>3. CASE Dies(r)
      <3>1. req'[r].pc = "crashed"
        BY <1>0, <2>3, Lands DEF Dies
      <3>2. OnlyUpdates(r)' /\ CreatesWell(r)'
        BY <3>1 DEF OnlyUpdates, CreatesWell, At
      <3> QED BY <1>t, <2>2, <3>2 DEF AnswerInv
    <2>4. CASE ~Dies(r)
      <3>1. /\ req'[r].pc = "apply" /\ req[r].pc = "apply" /\ req'[r].stage = req[r].stage
            /\ req'[r].types = req[r].types /\ req[r].types \subseteq EnvTypes
        BY <1>0, <1>2, <2>4, RoutineReq, RoutineErrs DEF At, TypeOK, Request
      <3>2. OnlyUpdates(r)'
        BY <1>0, <3>1 DEF OnlyUpdates
      <3>3. ASSUME Creating(req[r].stage), NEW u \in req[r].types
            PROVE  GoesWell(r, u)'
        <4>1. GoesWell(r, u) /\ u \in EnvTypes
          BY <1>0, <3>1, <3>3 DEF CreatesWell, At
        <4>2. CASE u = ty
          BY <1>0, <1>2, <2>4, <3>3, <4>1, <4>2, CreatorGoesWell
        <4>3. CASE u # ty
          BY <1>0, <1>2, <2>4, <4>1, <4>3, CreatorsApart
        <4> QED BY <4>2, <4>3
      <3>4. CreatesWell(r)'
        BY <3>1, <3>3 DEF CreatesWell
      <3> QED BY <1>t, <2>2, <3>2, <3>4 DEF AnswerInv
    <2> QED BY <2>3, <2>4
  <1>3. ASSUME NEW r \in Requests, Begin(r) \/ Crash(r)
        PROVE  AnswerInv'
    <2>1. UNCHANGED <<tenants, rows, projects>>
      BY <1>0, <1>3, BeginsInv
    <2>2. \A q \in Requests \ {r} : req'[q] = req[q] /\ routine'[q] = routine[q]
      BY <1>0, <1>3, HandlersApart
    <2>3. req'[r].pc \notin {"apply", "heal"}
      <3>1. FirstRead(KindOf[r]) \notin {"apply", "heal"}
        BY DEF FirstRead
      <3> QED BY <1>0, <1>3, <3>1, Lands DEF Begin, Crash, Dies
    <2>4. \A q \in Requests : OnlyUpdates(q)' /\ CreatesWell(q)'
      BY <1>0, <2>1, <2>2, <2>3 DEF OnlyUpdates, CreatesWell, GoesWell, RowsOf, At
    <2> QED BY <1>t, <2>4 DEF AnswerInv
  <1>4. CASE UNCHANGED <<rows, req, routine>>
    BY <1>0, <1>t, <1>4 DEF AnswerInv, OnlyUpdates, CreatesWell, GoesWell, RowsOf, At
  <1> QED BY <1>1, <1>2, <1>3, <1>4 DEF Next, ProjectRemoved, vars

(* Only the end of an action is answered with "accepted". *)
LEMMA WhoAccepts ==
  ASSUME TypeOK, [Next]_vars, NEW r \in Requests,
         req'[r].reply = "accepted", req[r].reply # "accepted"
  PROVE  Join(r) /\ req[r].errs = 0 /\ ~Deleting(req[r].stage) /\ UNCHANGED rows
  <1>0. req[r] \in Request /\ req \in [Requests -> Request]
    BY DEF TypeOK
  <1>1. \A a : Reply(r, a) => req'[r].reply = a
    BY <1>0 DEF Reply, RequestIs, Request
  <1>2. \A pc : Goto(r, pc) => req'[r].reply = req[r].reply
    BY <1>0 DEF Goto, RequestIs, Request
  <1>3. \A st, types : Start(r, st, types, req[r]) => req'[r].reply = req[r].reply
    BY <1>0 DEF Start, RequestIs, Request
  <1>4. CASE HandlerStep(r)
    <2>1. CASE CheckExists(r)
      BY <1>2, <2>1 DEF CheckExists
    <2>2. CASE ChooseName(r)
      <3>1. \A n : RequestIs(r, [req[r] EXCEPT !.base = n,
                                 !.pc = IF @ = "name" THEN "insert" ELSE "saveName"])
                     => req'[r].reply = req[r].reply
        BY <1>0 DEF RequestIs, Request
      <3> QED BY <1>1, <2>2, <3>1 DEF ChooseName
    <2>3. CASE InsertTenant(r)
      <3>1. RequestIs(r, [req[r] EXCEPT !.pc = "missing", !.existing = {}])
                     => req'[r].reply = req[r].reply
        BY <1>0 DEF RequestIs, Request
      <3> QED BY <1>1, <2>3, <3>1 DEF InsertTenant
    <2>4. CASE ReadNamespaces(r)
      <3>1. RequestIs(r, [req[r] EXCEPT !.existing = RowsOf(TenantOf[r]),
                                 !.pc = AfterNamespaces(KindOf[r])]) => req'[r].reply = req[r].reply
        BY <1>0 DEF RequestIs, Request
      <3> QED BY <1>1, <2>4, <3>1 DEF ReadNamespaces
    <2>5. CASE ReadTenant(r)
      <3>1. RequestIs(r, [req[r] EXCEPT !.base = tenants[TenantOf[r]],
                                 !.pc = AfterTenant(KindOf[r])]) => req'[r].reply = req[r].reply
        BY <1>0 DEF RequestIs, Request
      <3> QED BY <1>1, <2>5, <3>1 DEF ReadTenant
    <2>6. CASE CheckMissing(r)
      <3>1. \A m, l : RequestIs(r, [req[r] EXCEPT !.types = m, !.pc = l])
                        => req'[r].reply = req[r].reply
        BY <1>0 DEF RequestIs, Request
      <3> QED BY <1>1, <2>6, <3>1 DEF CheckMissing
    <2>7. CASE CallAction(r)
      BY <1>1, <1>3, <2>7 DEF CallAction
    <2>8. CASE Join(r)
      BY <1>1, <1>2, <2>8 DEF Join
    <2>9. CASE Heal(r)
      <3>1. \A st, types :
              Start(r, st, types, [req[r] EXCEPT !.existing = RowsOf(TenantOf[r])])
                => req'[r].reply = req[r].reply
        BY <1>0 DEF Start, RequestIs, Request
      <3> QED BY <1>1, <2>9, <3>1 DEF Heal
    <2>10. CASE CheckResults(r) \/ CheckCleaned(r)
      <3>1. \A st : RequestIs(r, [req[r] EXCEPT !.stage = st]) => req'[r].reply = req[r].reply
        BY <1>0 DEF RequestIs, Request
      <3>2. AfterCheck(r) \/ Reply(r, "error")
        BY <2>10 DEF CheckResults, CheckCleaned
      <3> QED BY <1>1, <1>2, <3>1, <3>2 DEF AfterCheck
    <2>11. CASE CheckFails(r) \/ VerifyDeleted(r)
      BY <1>1, <2>11 DEF CheckFails, VerifyDeleted
    <2>12. CASE SaveName(r)
      BY <1>1, <1>2, <1>3, <2>12 DEF SaveName
    <2> QED
      BY <1>4, <2>1, <2>2, <2>3, <2>4, <2>5, <2>6, <2>7, <2>8, <2>9, <2>10, <2>11, <2>12
         DEF HandlerStep
  <1>5. CASE Begin(r) \/ Crash(r)
    BY <1>2, <1>5 DEF Begin, Crash, Dies
  <1>6. ASSUME NEW ty \in EnvTypes, RoutineStep(r, ty)
        PROVE  FALSE
    <2>1. ~Dies(r)
      BY <1>2 DEF Dies
    <2> QED BY <1>6, <2>1, RoutineErrs
  <1>7. ASSUME NEW q \in Requests \ {r},
               Begin(q) \/ HandlerStep(q) \/ Crash(q) \/ \E ty \in EnvTypes : RoutineStep(q, ty)
        PROVE  FALSE
    BY <1>7, HandlersApart, RoutinesApart
  <1>8. ~UNCHANGED req
    OBVIOUS
  <1> QED BY <1>4, <1>5, <1>6, <1>7, <1>8 DEF Next, ProjectRemoved, vars

(* AcceptedIsReady: when rows are saved and transactions begin, a setup    *)
(* that answers "accepted" has made every namespace it was to create ready *)
(* and nobody has changed that since; refusals of the cluster, failing     *)
(* templates and queries all end in another answer, with or without        *)
(* healing (openshift/action.go, service.go).                              *)
THEOREM AcceptedAreReady ==
  ASSUME Serial, NoOldLegacy, RowsAreSaved
  PROVE  Spec => AcceptedIsReady
  <1> DEFINE Accepted ==
        \A r \in Requests :
          KindOf[r] = "setup" /\ req'[r].reply = "accepted" /\ req[r].reply # "accepted" =>
            \A ty \in req[r].types :
              \E x \in RowsOf(TenantOf[r]) : x.type = ty /\ x.state = "ready"
  <1>1. ASSUME AnswerInv, [Next]_vars
        PROVE  Accepted
    <2> SUFFICES ASSUME NEW r \in Requests, KindOf[r] = "setup", req'[r].reply = "accepted",
                        req[r].reply # "accepted", NEW ty \in req[r].types
                 PROVE  \E x \in RowsOf(TenantOf[r]) : x.type = ty /\ x.state = "ready"
      OBVIOUS
    <2>0. TypeOK /\ OnlyUpdates(r) /\ CreatesWell(r) /\ req[r].types \subseteq EnvTypes
      BY <1>1 DEF AnswerInv, TableInv, TypeInv, TypeOK, Request
    <2>1. Join(r) /\ req[r].errs = 0 /\ ~Deleting(req[r].stage)
      BY <1>1, <2>0, WhoAccepts
    <2>2. At(r, "apply") /\ routine[r][ty].pc \in {"none", "end"}
      BY <2>0, <2>1 DEF Join
    <2>3. Creating(req[r].stage)
      BY <2>0, <2>1, <2>2 DEF OnlyUpdates, At
    <2>4. GoesWell(r, ty)
      BY <2>0, <2>2, <2>3 DEF CreatesWell
    <2> QED BY <2>1, <2>2, <2>4 DEF GoesWell
  <1>2. Spec => []AnswerInv
    BY AnswerInit, AnswerStep, PTL DEF Spec
  <1>3. Spec => [][Accepted]_vars
    <2>1. AnswerInv /\ [Next]_vars => [Accepted]_vars
      BY <1>1
    <2> QED BY <1>2, <2>1, PTL DEF Spec
  <1> QED BY <1>3 DEF AcceptedIsReady

-----------------------------------------------------------------------------
(* Ready rows                                                              *)

(* The state of a row is what the goroutine has seen: it is saved in the   *)
(* end, and no process dies (as it does when the templates are missing)    *)
(* between what is done to the project and what is saved.                  *)
StatesAreSaved == Faults \cap {"save", "crash", "template"} = {}

(* The projects of somebody else have no name of a tenant at the start;    *)
(* and an update, which makes a row ready whoever owns the project that is *)
(* there, meets none of them.                                              *)
StartsOwned == \A t \in Tenants : InitialBase[t] \notin Outsiders

NoStrangers == Outsiders = {} \/ \A r \in Requests : KindOf[r] # "update"

AllOwned ==
  Outsiders = {} =>
    \A ty \in EnvTypes, n \in Numbers :
      projects[ty][n].phase = "active" => projects[ty][n].owner # NoTenant

(* The project is removed before the row. *)
Removing(t, ty) ==
  \E r \in Requests : TenantOf[r] = t /\ Removes(r) /\ routine[r][ty].pc = "save"

HasProject(x) ==
  \/ projects[x.type][x.base] = [owner |-> x.tenant, phase |-> "active"]
  \/ Removing(x.tenant, x.type)

ReadyInv == \A x \in rows : x.state = "ready" /\ x.type \in EnvTypes => HasProject(x)

(* A goroutine that creates or updates and has not failed works on the     *)
(* project of its tenant; cleaning leaves the projects alone.              *)
Made(r, ty) ==
  LET g == routine[r][ty]
  IN  /\ Cleans(r) => g.pc # "project"
      /\ /\ ~Deleting(req[r].stage) /\ ~g.failed
         /\ g.pc \in {"second", "callback", "save"} \cup
                    (IF Creating(req[r].stage) THEN {"objects"} ELSE {})
         => projects[ty][req[r].base] = OwnProject(r)

OutcomeInv ==
  /\ NamesInv
  /\ AllOwned /\ ReadyInv
  /\ \A r \in Requests : OnlyUpdates(r) /\ \A ty \in EnvTypes : Made(r, ty)

LEMMA OwnedKept ==
  ASSUME OutcomeInv, [Next]_vars
  PROVE  AllOwned'
  <1> SUFFICES ASSUME Outsiders = {}, NEW ty \in EnvTypes, NEW n \in Numbers,
                      projects'[ty][n].phase = "active"
               PROVE  projects'[ty][n].owner # NoTenant
    BY DEF AllOwned
  <1>0. /\ TableInv /\ TypeOK /\ NoTenant \notin Tenants
        /\ projects[ty][n].phase = "active" => projects[ty][n].owner # NoTenant
    BY ConstantsAssumption DEF OutcomeInv, NamesInv, TableInv, TypeInv, AllOwned
  <1>1. CASE projects' = projects
    BY <1>0, <1>1
  <1>2. ASSUME NEW r \in Requests, NEW u \in EnvTypes, RoutineStep(r, u)
        PROVE  projects'[ty][n].owner # NoTenant
    <2>1. TenantOf[r] \in Tenants
      BY ConstantsAssumption
    <2>2. CASE projects'[ty][n] = projects[ty][n]
      BY <1>0, <2>2
    <2>3. CASE ty = u /\ n = req[r].base
      <3>1. projects' = projects \/ projects'[ty][n] = OwnProject(r)
        BY <1>0, <1>2, <2>3, RoutineProjects
      <3> QED BY <1>0, <2>1, <2>2, <3>1 DEF OwnProject
    <2> QED BY <1>0, <1>2, <2>2, <2>3, RoutineProjects
  <1>3. ASSUME NEW r \in Requests, HandlerStep(r) \/ Begin(r) \/ Crash(r)
        PROVE  projects' = projects
    BY <1>0, <1>3, HandlerTables, BeginsInv
  <1>4. ASSUME NEW u \in EnvTypes, NEW m \in Numbers, ProjectRemoved(u, m)
        PROVE  projects'[ty][n].owner # NoTenant
    BY <1>0, <1>4 DEF ProjectRemoved, ProjectsWith, TypeOK, Absent
  <1> QED BY <1>1, <1>2, <1>3, <1>4 DEF Next, vars

(* A goroutine leaves the projects of other tenants and of other types. *)
LEMMA ProjectKept ==
  ASSUME NamesInv, NEW r \in Requests, NEW u \in EnvTypes, RoutineStep(r, u),
         NEW t \in Tenants, NEW ty \in EnvTypes, NEW n \in Numbers,
         projects[ty][n] = [owner |-> t, phase |-> "active"], t # TenantOf[r] \/ ty # u
  PROVE  projects'[ty][n] = projects[ty][n]
  <1>0. TableInv /\ TypeOK /\ NoTenant \notin Tenants
    BY ConstantsAssumption DEF NamesInv, TableInv, TypeInv
  <1>1. CASE ty # u \/ n # req[r].base
    BY <1>0, <1>1, RoutineProjects
  <1>2. CASE ty = u /\ n = req[r].base
    <2>1. At(r, "apply")
      BY <1>0, RoutineReq
    <2>2. projects[ty][n] = OwnProject(r)
      BY <1>0, <1>2, <2>1, ProjectIsOwn
    <2> QED BY <1>2, <2>2 DEF OwnProject
  <1> QED BY <1>1, <1>2

(* Two requests at work are of different tenants. *)
LEMMA AtWork ==
  ASSUME TableInv, NEW r \in Requests, NEW ty \in EnvTypes, routine[r][ty].pc # "none"
  PROVE  /\ At(r, "apply") /\ Active(r)
         /\ \A q \in Requests \ {r} : TenantOf[q] = TenantOf[r] => ~At(q, "apply")
  <1>1. At(r, "apply")
    BY DEF TableInv, ReqInv, RoutineInv, At
  <1> QED BY <1>1 DEF At, Active, TableInv, OneAtATime

LEMMA RoutineMakes ==
  ASSUME OutcomeInv, NoStrangers, NEW r \in Requests, NEW ty \in EnvTypes,
         RoutineStep(r, ty), ~Dies(r)
  PROVE  Made(r, ty)'
  <1> DEFINE g == routine[r][ty]
             h == routine'[r][ty]
             n == req[r].base
  <1>0. /\ TableInv /\ NamesInv /\ TypeOK /\ RoutineInv(r, ty) /\ Made(r, ty)
        /\ OnlyUpdates(r) /\ AllOwned
        /\ routine \in [Requests -> [EnvTypes -> Routine]] /\ g \in Routine
        /\ projects \in [EnvTypes -> [Numbers -> Project]] /\ n \in Numbers
    BY DEF OutcomeInv, NamesInv, TableInv, TypeInv, TypeOK, ReqInv, Request
  <1>1. /\ At(r, "apply") /\ req'[r].stage = req[r].stage /\ req'[r].base = n
        /\ Cleans(r)' = Cleans(r)
        /\ ~(Creating(req[r].stage) /\ Deleting(req[r].stage))
    BY <1>0, RoutineReq DEF Cleans, Creating, Deleting
  <1>2. \A pc : RoutineGoto(r, ty, pc) => h.pc = pc /\ h.failed = g.failed
    <2>1. ASSUME NEW pc, RoutineGoto(r, ty, pc)
          PROVE  h.pc = pc /\ h.failed = g.failed
      BY <1>0, <2>1 DEF RoutineGoto, RoutineIs, Routine
    <2> QED BY <2>1
  <1>3. CASE h.pc \in {"sets", "end", "post"}
    BY <1>3 DEF Made
  <1>4. CASE h.failed /\ h.pc # "project"
    BY <1>4 DEF Made
  <1>5. CASE /\ h.failed = g.failed /\ projects' = projects
             /\ g.pc \in {"second", "callback", "save"} /\ h.pc # "project"
    BY <1>0, <1>1, <1>5 DEF Made
  <1>6. CASE h.pc # "project" /\ Deleting(req[r].stage)
    BY <1>1, <1>6 DEF Made
  <1>7. CASE h.pc # "project" /\ projects'[ty][n] = OwnProject(r)
    BY <1>1, <1>7 DEF Made, OwnProject
  <1>8. \A ok \in BOOLEAN : NextSet(r, ty, ok) =>
          h.failed = (g.failed \/ ~ok) /\ h.pc \in {"second", "callback", "save"}
    BY <1>0, NextSetFields DEF AfterSets
  <1>9. CASE NextSet(r, ty, FALSE)
    BY <1>4, <1>8, <1>9
  <1>10. CASE CreateNamespace(r, ty)
    <2>1. CASE RoutineIs(r, ty, [routine[r][ty] EXCEPT !.pc = "sets", !.row = NewRow(r, ty)])
      <3>1. h.pc = "sets"
        BY <1>0, <2>1 DEF RoutineIs, Routine
      <3> QED BY <1>3, <3>1
    <2> QED BY <1>2, <1>3, <1>10, <2>1 DEF CreateNamespace
  <1>11. CASE GetExistingNamespace(r, ty)
    <2>1. CASE \E x : RoutineIs(r, ty, [routine[r][ty] EXCEPT !.pc = "sets", !.row = x])
      <3>1. h.pc = "sets"
        BY <1>0, <2>1 DEF RoutineIs, Routine
      <3> QED BY <1>3, <3>1
    <2> QED BY <1>2, <1>3, <1>11, <2>1 DEF GetExistingNamespace
  <1>12. CASE GetOperationSets(r, ty)
    <2> DEFINE l == IF Creating(req[r].stage) \/ Removes(r) THEN "project" ELSE "objects"
    <2>1. PICK second : RoutineIs(r, ty, [routine[r][ty] EXCEPT !.second = second, !.pc = l])
      BY <1>12 DEF GetOperationSets
    <2>2. h.pc = l
      BY <1>0, <2>1 DEF RoutineIs, Routine
    <2>3. Cleans(r) => ~Removes(r) /\ ~Creating(req[r].stage)
      BY <1>1 DEF Cleans, Removes
    <2> QED BY <1>1, <2>2, <2>3 DEF Made
  <1>13. CASE OperationSetsFail(r, ty)
    <2>1. h = [g EXCEPT !.failed = TRUE, !.pc = AfterSets(r, ty)]
      BY <1>0, <1>13 DEF OperationSetsFail, RoutineIs
    <2>2. h.failed /\ h.pc = AfterSets(r, ty)
      BY <1>0, <2>1 DEF Routine
    <2> QED BY <1>4, <2>2 DEF AfterSets
  <1>14. CASE CheckProject(r, ty)
    <2>1. RoutineGoto(r, ty, "post") \/ NextSet(r, ty, FALSE)
      BY <1>14 DEF CheckProject
    <2> QED BY <1>2, <1>3, <1>9, <2>1
  <1>15. CASE PostProject(r, ty)
    <2>1. CASE /\ ProjectsWith(ty, n, [owner |-> TenantOf[r], phase |-> "active"])
               /\ RoutineGoto(r, ty, "objects")
      <3>1. projects'[ty][n] = OwnProject(r)
        BY <1>0, <2>1 DEF ProjectsWith, OwnProject
      <3> QED BY <1>2, <1>7, <2>1, <3>1
    <2> QED BY <1>9, <1>15, <2>1 DEF PostProject
  <1>16. CASE DeleteProject(r, ty)
    <2>1. Deleting(req[r].stage) /\ \E ok \in BOOLEAN : NextSet(r, ty, ok)
      BY <1>16 DEF DeleteProject
    <2> QED BY <1>6, <1>8, <2>1
  <1>17. CASE ApplyObjects(r, ty)
    <2>1. /\ g.pc = "objects" /\ projects' = projects
          /\ \/ NextSet(r, ty, FALSE)
             \/ /\ NextSet(r, ty, TRUE)
                /\ Deleting(req[r].stage) \/ projects[ty][n].phase = "active"
      BY <1>17 DEF ApplyObjects, In
    <2>2. CASE NextSet(r, ty, TRUE) /\ ~Deleting(req[r].stage) /\ projects[ty][n].phase = "active"
      <3>1. h.failed = g.failed /\ h.pc \in {"second", "callback", "save"}
        BY <1>0, <1>8, <2>2 DEF Routine
      <3>2. CASE Creating(req[r].stage)
        <4>1. ~g.failed => projects[ty][n] = OwnProject(r)
          BY <1>0, <2>1, <2>2, <3>2 DEF Made
        <4> QED BY <1>1, <2>1, <3>1, <4>1 DEF Made, OwnProject
      <3>3. CASE ~Creating(req[r].stage)
        <4>1. Outsiders = {}
          BY <1>0, <1>1, <2>2, <3>3 DEF OnlyUpdates, NoStrangers, At
        <4>2. projects[ty][n] = OwnProject(r)
          BY <1>0, <1>1, <2>2, <4>1, ProjectIsOwn DEF AllOwned
        <4> QED BY <1>7, <2>1, <3>1, <4>2
      <3> QED BY <3>2, <3>3
    <2>3. CASE NextSet(r, ty, TRUE) /\ Deleting(req[r].stage)
      BY <1>6, <1>8, <2>3
    <2> QED BY <1>9, <2>1, <2>2, <2>3
  <1>18. CASE ApplySecondSet(r, ty)
    <2>1. /\ g.pc = "second" /\ projects' = projects
          /\ NextSet(r, ty, FALSE) \/ NextSet(r, ty, TRUE)
      BY <1>18 DEF ApplySecondSet, In
    <2>2. CASE NextSet(r, ty, TRUE)
      <3>1. h.failed = g.failed /\ h.pc # "project"
        BY <1>0, <1>8, <2>2 DEF Routine
      <3> QED BY <1>5, <2>1, <3>1
    <2> QED BY <1>9, <2>1, <2>2
  <1>19. CASE AfterCallback(r, ty)
    <2>1. g.pc = "callback" /\ projects' = projects
      BY <1>19 DEF AfterCallback, In
    <2>2. CASE RoutineIs(r, ty, [routine[r][ty] EXCEPT !.pc = "save", !.failed = TRUE])
      <3>1. h.pc = "save" /\ h.failed
        BY <1>0, <2>2 DEF RoutineIs, Routine
      <3> QED BY <1>4, <3>1
    <2>3. CASE RoutineGoto(r, ty, "save")
      <3>1. h.pc = "save" /\ h.failed = g.failed
        BY <1>2, <2>3
      <3> QED BY <1>5, <2>1, <3>1
    <2> QED BY <1>19, <2>2, <2>3 DEF AfterCallback
  <1>20. CASE UpdateNamespace(r, ty)
    BY <1>2, <1>3, <1>20 DEF UpdateNamespace
  <1> QED
    BY <1>10, <1>11, <1>12, <1>13, <1>14, <1>15, <1>16, <1>17, <1>18, <1>19, <1>20
       DEF RoutineStep, TemplatesMissing

(* What a goroutine made is there as long as it needs it. *)
LEMMA MadeApart ==
  ASSUME OutcomeInv, NEW r \in Requests, NEW u \in EnvTypes, RoutineStep(r, u), ~Dies(r),
         NEW q \in Requests, NEW ty \in EnvTypes, q # r \/ ty # u
  PROVE  Made(q, ty)'
  <1>0. /\ TableInv /\ NamesInv /\ TypeOK /\ Made(q, ty)
        /\ TenantOf[q] \in Tenants /\ req[q].base \in Numbers
    BY ConstantsAssumption DEF OutcomeInv, NamesInv, TableInv, TypeInv, TypeOK, Request
  <1>1. /\ req'[q].stage = req[q].stage /\ req'[q].base = req[q].base
        /\ routine'[q][ty] = routine[q][ty]
    BY <1>0, RoutinesApart, RoutineReq
  <1>2. Cleans(q)' = Cleans(q)
    BY <1>1 DEF Cleans
  <1>3. ASSUME routine[q][ty].pc # "none", projects[ty][req[q].base] = OwnProject(q)
        PROVE  projects'[ty][req[q].base] = OwnProject(q)
    <2>1. At(r, "apply")
      BY <1>0, RoutineReq
    <2>2. TenantOf[q] # TenantOf[r] \/ ty # u
      BY <1>0, <1>3, <2>1, AtWork
    <2> QED BY <1>0, <1>3, <2>2, ProjectKept DEF OwnProject
  <1> QED BY <1>0, <1>1, <1>2, <1>3 DEF Made, OwnProject

(* Rows and projects of the type that a goroutine works on. *)
LEMMA OwnRowHasProject ==
  ASSUME OutcomeInv, StatesAreSaved, NEW r \in Requests, NEW ty \in EnvTypes,
         RoutineStep(r, ty), ~Dies(r), NEW x \in rows', OfType(r, ty, x), x.state = "ready"
  PROVE  HasProject(x)'
  <1> DEFINE g == routine[r][ty]
  <1>0. /\ TableInv /\ NamesInv /\ TypeOK /\ RoutineInv(r, ty) /\ Made(r, ty) /\ ReadyInv
        /\ OneRowPerType /\ x.tenant = TenantOf[r] /\ x.type = ty
        /\ NoTenant \notin Tenants /\ TenantOf[r] \in Tenants
        /\ routine \in [Requests -> [EnvTypes -> Routine]] /\ g \in Routine
        /\ projects \in [EnvTypes -> [Numbers -> Project]]
    BY ConstantsAssumption
       DEF OutcomeInv, NamesInv, TableInv, TypeInv, TypeOK, ReqInv, Request, OfType
  <1>1. /\ At(r, "apply") /\ x.base = req[r].base /\ req'[r].stage = req[r].stage
    BY <1>0, RoutineReq, RowsAfter
  <1>2. x \in rows /\ ~(g.pc = "save" /\ Removes(r)) =>
          projects[ty][x.base] = OwnProject(r)
    <2> SUFFICES ASSUME x \in rows, ~(g.pc = "save" /\ Removes(r))
                 PROVE  projects[ty][x.base] = OwnProject(r)
      OBVIOUS
    <2>1. HasProject(x)
      BY <1>0 DEF ReadyInv
    <2>2. ASSUME NEW q \in Requests, TenantOf[q] = TenantOf[r], Removes(q),
                 routine[q][ty].pc = "save"
          PROVE  FALSE
      <3>1. q = r
        BY <1>0, <1>1, <2>2, AtWork
      <3> QED BY <2>2, <3>1
    <2> QED BY <1>0, <2>1, <2>2 DEF HasProject, Removing, OwnProject
  <1>3. CASE UpdateNamespace(r, ty)
    <2>1. /\ rows' = Outcome(r, ty) /\ projects' = projects /\ g.pc = "save"
      BY <1>3 DEF UpdateNamespace, Fault, StatesAreSaved, In
    <2>2. g.row \in rows /\ g.row \in Row /\ g.row.tenant = TenantOf[r] /\ g.row.type = ty
      BY <1>0, <2>1 DEF RoutineInv, Working, RowsOf, TypeOK
    <2>3. x \in rows => x = g.row
      BY <1>0, <2>2 DEF OneRowPerType
    <2>4. CASE g.failed
      <3> DEFINE z == [g.row EXCEPT !.state = "failed"]
      <3>1. z.state = "failed" /\ SameKey(g.row, z)
        BY <2>2 DEF Row, SameKey
      <3>2. rows' = Saved(z)
        BY <2>1, <2>4 DEF Outcome
      <3> HIDE DEF z
      <3>3. x # z
        BY <3>1
      <3>4. x \in rows /\ ~SameKey(z, x)
        BY <3>2, <3>3 DEF Saved
      <3> QED BY <2>3, <3>1, <3>4 DEF SameKey
    <2>5. CASE ~g.failed /\ Removes(r)
      <3>1. x \in rows /\ ~SameKey(g.row, x)
        BY <2>1, <2>5 DEF Outcome, Deleted
      <3> QED BY <2>3, <3>1 DEF SameKey
    <2>6. CASE ~g.failed /\ ~Removes(r) /\ Cleans(r)
      <3>1. x \in rows
        BY <2>1, <2>6 DEF Outcome
      <3> QED BY <1>0, <1>2, <2>1, <2>6, <3>1 DEF HasProject, OwnProject
    <2>7. CASE ~g.failed /\ ~Removes(r) /\ ~Cleans(r)
      <3>1. ~Deleting(req[r].stage)
        BY <2>7 DEF Removes, Cleans
      <3>2. projects[ty][req[r].base] = OwnProject(r)
        BY SMTT(40), <1>0, <2>1, <2>7, <3>1 DEF Made
      <3> QED BY <1>0, <1>1, <2>1, <3>2 DEF HasProject, OwnProject
    <2> QED BY <2>4, <2>5, <2>6, <2>7
  <1>4. CASE ~UpdateNamespace(r, ty)
    <2>1. x \in rows
      <3>1. CASE CreateNamespace(r, ty)
        BY <3>1 DEF CreateNamespace, NewRow
      <3>2. CASE rows' = rows
        BY SMTT(40), <3>2
      <3> QED
        BY ZenonT(60), <1>4, <3>1, <3>2 DEF RoutineStep, GetExistingNamespace, GetOperationSets, Dies,
           OperationSetsFail, TemplatesMissing, CheckProject, PostProject, DeleteProject,
           ApplyObjects, ApplySecondSet, AfterCallback
    <2>2. g.pc # "save"
      BY ZenonT(60), <1>4 DEF RoutineStep, CreateNamespace, GetExistingNamespace, GetOperationSets,
         OperationSetsFail, TemplatesMissing, CheckProject, PostProject, DeleteProject,
         ApplyObjects, ApplySecondSet, AfterCallback, In
    <2>3. projects[ty][x.base] = OwnProject(r)
      BY <1>2, <2>1, <2>2
    <2>4. CASE projects'[ty][x.base] = projects[ty][x.base]
      BY <1>0, <2>3, <2>4 DEF HasProject, OwnProject
    <2>5. CASE DeleteProject(r, ty)
      <3>1. g.pc = "project" /\ Deleting(req[r].stage)
        BY <2>5 DEF DeleteProject, In
      <3>2. Removes(r) /\ ~g.second
        BY <1>0, <3>1 DEF Made, Removes, Cleans, RoutineInv, Working
      <3>3. \E ok \in BOOLEAN : NextSet(r, ty, ok)
        BY <2>5 DEF DeleteProject
      <3>4. routine'[r][ty].pc = "save"
        BY <1>0, <3>1, <3>2, <3>3, NextSetFields DEF AfterSets, Creating, Deleting
      <3>5. Removes(r)'
        BY <1>1, <3>2 DEF Removes
      <3> QED BY <1>0, <3>4, <3>5 DEF HasProject, Removing
    <2>6. CASE PostProject(r, ty)
      <3>1. projects[ty][req[r].base] # Absent
        BY <1>1, <2>3 DEF OwnProject, Absent
      <3>2. projects' = projects
        BY <2>6, <3>1 DEF PostProject
      <3> QED BY <2>4, <3>2
    <2>7. CASE projects' = projects
      BY <2>4, <2>7
    <2> QED
      BY ZenonT(60), <1>4, <2>5, <2>6, <2>7 DEF RoutineStep, CreateNamespace, GetExistingNamespace,
         GetOperationSets, Dies, OperationSetsFail, TemplatesMissing, CheckProject,
         ApplyObjects, ApplySecondSet, AfterCallback
  <1> QED BY <1>3, <1>4

(* The other rows. *)
LEMMA OtherRowHasProject ==
  ASSUME OutcomeInv, NEW r \in Requests, NEW u \in EnvTypes, RoutineStep(r, u), ~Dies(r),
         NEW x \in rows', ~OfType(r, u, x), x.state = "ready", x.type \in EnvTypes
  PROVE  HasProject(x)'
  <1>0. TableInv /\ NamesInv /\ TypeOK /\ ReadyInv
    BY DEF OutcomeInv, NamesInv, TableInv, TypeInv
  <1>1. x \in rows /\ x \in Row /\ HasProject(x)
    BY <1>0, RowsAfter DEF ReadyInv, TypeOK
  <1>2. x.tenant \in Tenants /\ x.base \in Numbers /\ (x.tenant # TenantOf[r] \/ x.type # u)
    BY <1>1 DEF Row, OfType
  <1>3. CASE projects[x.type][x.base] = [owner |-> x.tenant, phase |-> "active"]
    BY <1>0, <1>2, <1>3, ProjectKept DEF HasProject
  <1>4. ASSUME NEW q \in Requests, TenantOf[q] = x.tenant, Removes(q),
               routine[q][x.type].pc = "save"
        PROVE  HasProject(x)'
    <2>1. q # r \/ x.type # u
      BY <1>2, <1>4
    <2>2. routine'[q][x.type] = routine[q][x.type] /\ req'[q].stage = req[q].stage
      BY <1>0, <2>1, RoutinesApart, RoutineReq
    <2>3. Removes(q)'
      BY <1>4, <2>2 DEF Removes
    <2> QED BY <1>4, <2>2, <2>3 DEF HasProject, Removing
  <1> QED BY <1>1, <1>3, <1>4 DEF HasProject, Removing

LEMMA OutcomeInit ==
  ASSUME NoOldLegacy, StartsApart, StartsOwned
  PROVE  Init => OutcomeInv
  <1> SUFFICES ASSUME Init PROVE OutcomeInv
    OBVIOUS
  <1>0. NamesInv
    BY NamesInit
  <1>1. AllOwned
    <2> SUFFICES ASSUME Outsiders = {}, NEW ty \in EnvTypes, NEW n \in Numbers,
                        projects[ty][n].phase = "active"
                 PROVE  projects[ty][n].owner # NoTenant
      BY DEF AllOwned
    <2> DEFINE t == CHOOSE t \in Tenants : InitialBase[t] = n
    <2>1. /\ \E v \in Tenants : InitialBase[v] = n
          /\ projects[ty][n] = [owner |-> t, phase |-> "active"]
      BY DEF Init, Absent
    <2>2. t \in Tenants
      BY <2>1
    <2> HIDE DEF t
    <2> QED BY <2>1, <2>2, ConstantsAssumption
  <1>2. ASSUME NEW x \in rows, x.type \in EnvTypes
        PROVE  projects[x.type][x.base] = [owner |-> x.tenant, phase |-> "active"]
    <2>1. PICK t \in Tenants :
            /\ InitialBase[t] # NoName /\ x.tenant = t /\ x.base = InitialBase[t]
            /\ x.type \in LegacyTypes \cup (IF InitialBase[t] = 0 THEN {} ELSE InitialTypes)
      BY DEF Init, InitialRows
    <2>2. /\ InitialBase[t] # 0 /\ x.type \in InitialTypes /\ x.base \notin Outsiders
          /\ x.base \in Numbers /\ x.base > 0
      BY <1>2, <2>1, ConstantsAssumption DEF StartsOwned, Numbers
    <2>3. \A v \in Tenants : InitialBase[v] = x.base => v = t
      BY <2>1, <2>2 DEF StartsApart
    <2>4. (CHOOSE v \in Tenants : InitialBase[v] = x.base) = t
      BY <2>1, <2>3
    <2> QED BY <1>2, <2>1, <2>2, <2>4 DEF Init
  <1>3. ReadyInv
    BY <1>2 DEF ReadyInv, HasProject
  <1>4. ASSUME NEW r \in Requests, NEW ty \in EnvTypes
        PROVE  OnlyUpdates(r) /\ Made(r, ty)
    <2>1. req[r].pc = "idle" /\ routine[r][ty].pc = "none"
      BY DEF Init, IdleRequest, IdleRoutine
    <2> QED BY <2>1 DEF OnlyUpdates, Made
  <1>5. \A r \in Requests : OnlyUpdates(r)
    BY DEF Init, IdleRequest, OnlyUpdates
  <1> QED BY <1>0, <1>1, <1>3, <1>4, <1>5 DEF OutcomeInv

LEMMA OutcomeStep ==
  ASSUME Serial, SetupsApart, StatesAreSaved, NoStrangers
  PROVE  OutcomeInv /\ [Next]_vars => OutcomeInv'
  <1> SUFFICES ASSUME OutcomeInv, [Next]_vars PROVE OutcomeInv'
    OBVIOUS
  <1>0. /\ NamesInv /\ TableInv /\ TypeInv /\ TypeOK /\ ReadyInv
        /\ \A r \in Requests : OnlyUpdates(r) /\ ReqInv(r) /\ \A ty \in EnvTypes : Made(r, ty)
    BY DEF OutcomeInv, NamesInv, TableInv, TypeInv
  <1>n. NamesInv' /\ AllOwned'
    BY <1>0, NamesStep, OwnedKept
  <1>1. ASSUME NEW r \in Requests, HandlerStep(r) \/ Begin(r)
        PROVE  OutcomeInv'
    <2>1. projects' = projects /\ rows' \subseteq rows
      BY <1>0, <1>1, HandlerTables, BeginsInv
    <2>2. \A q \in Requests \ {r} : req'[q] = req[q] /\ routine'[q] = routine[q]
      BY <1>0, <1>1, HandlersApart
    <2>3. \A ty \in EnvTypes : routine[r][ty].pc # "save"
      <3>1. CASE At(r, "apply")
        <4>1. Join(r)
          BY <1>1, <3>1 DEF HandlerStep, CheckExists, ChooseName, InsertTenant, ReadNamespaces,
             ReadTenant, CheckMissing, CallAction, Heal, CheckResults, CheckCleaned, CheckFails,
             VerifyDeleted, SaveName, Begin, At
        <4> QED BY <4>1 DEF Join
      <3>2. CASE ~At(r, "apply")
        <4>1. \A ty \in EnvTypes : routine[r][ty].pc = "none"
          BY <1>0, <3>2, Quiet
        <4> QED BY <4>1
      <3> QED BY <3>1, <3>2
    <2>4. ReadyInv'
      <3> SUFFICES ASSUME NEW x \in rows, x.state = "ready", x.type \in EnvTypes
                   PROVE  HasProject(x)'
        BY <2>1 DEF ReadyInv
      <3>1. HasProject(x)
        BY <1>0 DEF ReadyInv
      <3>2. ASSUME NEW q \in Requests, TenantOf[q] = x.tenant, Removes(q),
                   routine[q][x.type].pc = "save"
            PROVE  HasProject(x)'
        <4>1. q # r
          BY <2>3, <3>2
        <4>2. Removes(q)' /\ routine'[q][x.type].pc = "save"
          BY <2>2, <3>2, <4>1 DEF Removes
        <4> QED BY <3>2, <4>2 DEF HasProject, Removing
      <3> QED BY <2>1, <3>1, <3>2 DEF HasProject, Removing
    <2>5. OnlyUpdates(r)'
      <3>1. CASE HandlerStep(r)
        BY <1>0, <3>1, HandlerStarts
      <3>2. CASE Begin(r)
        <4>1. FirstRead(KindOf[r]) \notin {"apply", "heal"}
          BY DEF FirstRead
        <4> QED BY <1>0, <3>2, <4>1, Lands DEF Begin, OnlyUpdates
      <3> QED BY <1>1, <3>1, <3>2
    <2>6. ASSUME NEW q \in Requests
          PROVE  OnlyUpdates(q)' /\ \A ty \in EnvTypes : Made(q, ty)'
      <3>1. CASE q = r
        <4>1. \A ty \in EnvTypes : routine'[r][ty].pc \in {"none", "entity"}
          BY <1>0, <1>1, HandlerAtRest
        <4> QED BY <2>5, <3>1, <4>1 DEF Made
      <3>2. CASE q # r
        <4>1. req'[q] = req[q] /\ routine'[q] = routine[q]
          BY <2>2, <3>2
        <4> QED BY <1>0, <2>1, <4>1 DEF OnlyUpdates, Made, Cleans, OwnProject
      <3> QED BY <3>1, <3>2
    <2> QED BY <1>n, <2>4, <2>6 DEF OutcomeInv
  <1>2. ASSUME NEW r \in Requests, NEW ty \in EnvTypes, RoutineStep(r, ty)
        PROVE  OutcomeInv'
    <2>1. ~Dies(r)
      <3> SUFFICES ASSUME Dies(r) PROVE FALSE
        OBVIOUS
      <3>1. req'[r].pc = "crashed" /\ req[r].pc = "apply" /\ req \in [Requests -> Request]
        BY ZenonT(60), <1>0, <1>2, Lands, RoutineReq DEF Dies, At, TypeOK
      <3>2. ~TemplatesMissing(r, ty)
        BY DEF TemplatesMissing, Fault, StatesAreSaved
      <3>3. Send(r) \/ NoError
        BY ZenonT(60), <1>2, <3>2 DEF RoutineStep, CreateNamespace, GetExistingNamespace, GetOperationSets,
           OperationSetsFail, CheckProject, PostProject, DeleteProject, ApplyObjects,
           ApplySecondSet, AfterCallback, UpdateNamespace, NextSet
      <3>4. req'[r].pc = req[r].pc
        BY <1>0, <3>1, <3>3 DEF Send, NoError, RequestIs, TypeOK, Request
      <3> QED BY <3>1, <3>4
    <2>2. ReadyInv'
      BY <1>2, <2>1, OwnRowHasProject, OtherRowHasProject DEF ReadyInv
    <2>3. ASSUME NEW q \in Requests
          PROVE  OnlyUpdates(q)'
      <3>1. req'[q].pc = req[q].pc /\ req'[q].stage = req[q].stage
        BY <1>0, <1>2, <2>1, RoutinesApart, RoutineReq DEF At
      <3> QED BY <1>0, <3>1 DEF OnlyUpdates
    <2>4. ASSUME NEW q \in Requests, NEW u \in EnvTypes
          PROVE  Made(q, u)'
      BY <1>2, <2>1, RoutineMakes, MadeApart
    <2> QED BY <1>n, <2>2, <2>3, <2>4 DEF OutcomeInv
  <1>3. ASSUME NEW r \in Requests, Crash(r)
        PROVE  FALSE
    BY <1>3 DEF Crash, Fault, StatesAreSaved
  <1>4. ASSUME UNCHANGED <<rows, req, routine>>,
               \A ty \in EnvTypes, n \in Numbers :
                 projects[ty][n].phase = "active" => projects'[ty][n] = projects[ty][n]
        PROVE  OutcomeInv'
    <2>1. \A x \in rows : x.base \in Numbers
      BY <1>0 DEF TypeOK, Row
    <2>2. ReadyInv'
      <3> SUFFICES ASSUME NEW x \in rows, x.state = "ready", x.type \in EnvTypes
                   PROVE  HasProject(x)'
        BY <1>4 DEF ReadyInv
      <3>1. HasProject(x)
        BY <1>0 DEF ReadyInv
      <3>2. Removing(x.tenant, x.type)' = Removing(x.tenant, x.type)
        BY <1>4 DEF Removing, Removes
      <3> QED BY <1>4, <2>1, <3>1, <3>2 DEF HasProject
    <2>3. ASSUME NEW q \in Requests, NEW u \in EnvTypes
          PROVE  OnlyUpdates(q)' /\ Made(q, u)'
      <3>1. req[q].base \in Numbers /\ Made(q, u) /\ OnlyUpdates(q)
        BY <1>0 DEF TypeOK, Request
      <3>2. projects[u][req[q].base] = OwnProject(q) => projects'[u][req[q].base] = OwnProject(q)
        BY <1>4, <3>1 DEF OwnProject
      <3> QED BY <1>4, <3>1, <3>2 DEF OnlyUpdates, Made, Cleans, OwnProject
    <2>4. \A q \in Requests : OnlyUpdates(q)'
      BY <1>0, <1>4 DEF OnlyUpdates
    <2> QED BY <1>n, <2>2, <2>3, <2>4 DEF OutcomeInv
  <1>5. ASSUME NEW ty \in EnvTypes, NEW n \in Numbers, ProjectRemoved(ty, n)
        PROVE  OutcomeInv'
    <2>1. \A u \in EnvTypes, m \in Numbers :
            projects[u][m].phase = "active" => projects'[u][m] = projects[u][m]
      BY <1>0, <1>5 DEF ProjectRemoved, ProjectsWith, TypeOK
    <2> QED BY <1>4, <1>5, <2>1 DEF ProjectRemoved
  <1>6. CASE UNCHANGED vars
    BY <1>4, <1>6 DEF vars
  <1> QED BY <1>1, <1>2, <1>3, <1>5, <1>6 DEF Next

(* ReadyHasProject: a row that says ready tells the truth when no request  *)
(* for its tenant is being served: its project is on the cluster and is    *)
(* the tenant's, whatever the cluster or the database refused before, and  *)
(* although a creation that is healed first removes what it had created    *)
(* (openshift/service.go, action.go).                                      *)
THEOREM ReadyIsThere ==
  ASSUME Serial, NoOldLegacy, SetupsApart, StartsApart, StartsOwned, StatesAreSaved, NoStrangers
  PROVE  Spec => []ReadyHasProject
  <1>1. Spec => []OutcomeInv
    BY OutcomeInit, OutcomeStep, PTL DEF Spec
  <1>2. OutcomeInv => ReadyHasProject
    <2> SUFFICES ASSUME OutcomeInv, NEW x \in rows, x.state = "ready", x.type \in EnvTypes,
                        ~InProgress(x.tenant)
                 PROVE  projects[x.type][x.base] = [owner |-> x.tenant, phase |-> "active"]
      BY DEF ReadyHasProject
    <2>1. HasProject(x) /\ TableInv
      BY DEF OutcomeInv, NamesInv, ReadyInv
    <2>2. ~Removing(x.tenant, x.type)
      <3> SUFFICES ASSUME NEW q \in Requests, TenantOf[q] = x.tenant,
                          routine[q][x.type].pc = "save"
                   PROVE  FALSE
        BY DEF Removing
      <3>1. At(q, "apply")
        BY <2>1, AtWork
      <3> QED BY <3>1 DEF InProgress, At
    <2> QED BY <2>1, <2>2 DEF HasProject
  <1> QED BY <1>1, <1>2, PTL

-----------------------------------------------------------------------------
(* Setups at the same time                                                 *)
(*                                                                         *)
(* The rows are what keeps setups of one tenant apart: who has created the *)
(* row of a type creates its project, and nobody else finds either to be   *)
(* missing. This does not need requests that follow each other, but nobody *)
(* may remove or rename: no other requests, no refusals to heal, and no    *)
(* tenant with an old name.                                                *)

OnlySetups == \A r \in Requests : KindOf[r] = "setup"

NothingRefused == Faults \subseteq {"begin", "save", "crash"}

NoneOld == \A t \in Tenants : InitialBase[t] # 0

NamesDistinct ==
  /\ \A t \in Tenants : tenants[t] # 0
  /\ \A t, u \in Tenants : t # u /\ tenants[t] = tenants[u] => tenants[t] = NoName

ProjectsHaveRows ==
  \A ty \in EnvTypes, n \in Numbers :
    projects[ty][n] # Absent => \E x \in rows : x.type = ty /\ x.base = n

SetupAt(r) ==
  /\ req[r].pc \notin {"newName", "saveName", "heal", "check", "verify"}
  /\ req[r].stage \in {"none", "create"} /\ req[r].reply # "error"
  /\ req[r].pc \in {"namespaces", "tenant"} => tenants[TenantOf[r]] # NoName
  /\ req[r].pc \in {"missing", "cluster", "apply"} => tenants[TenantOf[r]] = req[r].base
  /\ req[r].pc = "insert" =>
       req[r].base # 0 /\ \A t \in Tenants \ {TenantOf[r]} : tenants[t] # req[r].base
  /\ req[r].pc = "apply" => req[r].stage = "create" /\ req[r].errs = 0

SetupGoes(r, ty) ==
  LET g == routine[r][ty]
  IN  /\ g.pc # "none" => At(r, "apply")
      /\ ~g.failed
      /\ g.pc \in Working =>
           g.row \in rows /\ g.row.by = r /\ g.row.tenant = TenantOf[r] /\ g.row.type = ty
      /\ g.pc \in {"sets", "project", "post"} => projects[ty][req[r].base] = Absent
      /\ g.pc = "objects" => projects[ty][req[r].base].phase = "active"

SetupsInv ==
  /\ TypeInv
  /\ RowsFollowBaseName /\ OneRowPerType
  /\ NamesDistinct /\ ProjectsHaveRows /\ OneSetupAtATime
  /\ \A r \in Requests : SetupAt(r) /\ \A ty \in EnvTypes : SetupGoes(r, ty)

LEMMA SetupsInit ==
  ASSUME StartsApart, NoneOld, Outsiders = {}
  PROVE  Init => SetupsInv
  <1> SUFFICES ASSUME Init PROVE SetupsInv
    OBVIOUS
  <1> DEFINE First(t, ty) == [by |-> NoRequest, stage |-> "create", tenant |-> t, type |-> ty,
                              base |-> InitialBase[t], state |-> "ready"]
  <1>1. TypeInv
    BY TypeInvInit
  <1>2. \A x \in rows : \E t \in Tenants, ty \in EnvTypes \cup LegacyTypes : x = First(t, ty)
    BY ConstantsAssumption DEF Init, InitialRows
  <1>3. \A t \in Tenants, ty \in InitialTypes :
          InitialBase[t] # NoName /\ InitialBase[t] # 0 => First(t, ty) \in rows
    BY DEF Init, InitialRows
  <1>4. RowsFollowBaseName
    BY <1>2 DEF Init, RowsFollowBaseName
  <1>5. OneRowPerType
    BY <1>2 DEF OneRowPerType
  <1>6. NamesDistinct
    BY DEF Init, NamesDistinct, NoneOld, StartsApart
  <1>7. ProjectsHaveRows
    <2> SUFFICES ASSUME NEW ty \in EnvTypes, NEW n \in Numbers, projects[ty][n] # Absent
                 PROVE  \E x \in rows : x.type = ty /\ x.base = n
      BY DEF ProjectsHaveRows
    <2>1. n > 0 /\ ty \in InitialTypes /\ \E u \in Tenants : InitialBase[u] = n
      BY DEF Init
    <2>2. PICK t \in Tenants : InitialBase[t] = n
      BY <2>1
    <2>3. n # NoName /\ n # 0
      BY <2>1, ConstantsAssumption DEF Numbers
    <2>4. First(t, ty) \in rows
      BY <1>3, <2>1, <2>2, <2>3
    <2> QED BY <2>2, <2>4
  <1>8. ASSUME NEW r \in Requests
        PROVE  SetupAt(r) /\ \A ty \in EnvTypes : SetupGoes(r, ty)
    <2>1. /\ req[r].pc = "idle" /\ req[r].stage = "none" /\ req[r].reply = "none"
          /\ \A ty \in EnvTypes : routine[r][ty].pc = "none" /\ ~routine[r][ty].failed
      BY DEF Init, IdleRequest, IdleRoutine
    <2> QED BY <2>1 DEF SetupAt, SetupGoes, Working
  <1>9. OneSetupAtATime
    BY DEF Init, OneSetupAtATime, Active, IdleRequest
  <1> QED BY <1>1, <1>4, <1>5, <1>6, <1>7, <1>8, <1>9 DEF SetupsInv

LEMMA SetupRests ==
  ASSUME NEW r \in Requests, NEW ty \in EnvTypes, ~routine'[r][ty].failed,
         \/ routine'[r][ty].pc = "none"
         \/ routine'[r][ty].pc \in {"none", "entity"} /\ req'[r].pc = "apply"
  PROVE  SetupGoes(r, ty)'
  BY DEF SetupGoes, Working, At

(* The handlers that a setup comes to. *)
LEMMA SetupHandler ==
  ASSUME SetupsInv, OnlySetups, NothingRefused, NEW r \in Requests, HandlerStep(r)
  PROVE  /\ SetupAt(r)' /\ UNCHANGED <<rows, projects>>
         /\ \A ty \in EnvTypes : SetupGoes(r, ty)'
         /\ ~InsertTenant(r) => tenants' = tenants
  <1>0. /\ TypeOK /\ SetupAt(r) /\ req[r] \in Request /\ KindOf[r] = "setup"
        /\ NamesDistinct /\ TenantOf[r] \in Tenants
        /\ req \in [Requests -> Request] /\ tenants \in [Tenants -> Numbers \cup {NoName}]
        /\ NoName \notin Numbers /\ req[r].types \in SUBSET EnvTypes
    BY ConstantsAssumption DEF SetupsInv, TypeInv, TypeOK, OnlySetups, Request
  <1>1. ~Fault("query") /\ ~Fault("os")
    BY DEF Fault, NothingRefused
  <1>2. ASSUME ~At(r, "apply"), routine' = routine
        PROVE  \A ty \in EnvTypes : SetupGoes(r, ty)'
    BY <1>2, SetupRests DEF SetupsInv, SetupGoes
  <1>3. \A a : Reply(r, a) => /\ req'[r].pc = "done" /\ req'[r].reply = a
                              /\ req'[r].stage = req[r].stage
    BY <1>0 DEF Reply, RequestIs, Request
  <1>4. \A pc : Goto(r, pc) => /\ req'[r].pc = pc /\ req'[r].reply = req[r].reply
                               /\ req'[r].stage = req[r].stage
    BY <1>0 DEF Goto, RequestIs, Request
  <1>5. CASE CheckExists(r)
    <2>1. Goto(r, "name") \/ (Goto(r, "namespaces") /\ tenants[TenantOf[r]] # NoName)
      BY <1>5 DEF CheckExists
    <2>2. UNCHANGED <<tenants, rows, projects, routine>> /\ ~At(r, "apply")
      BY <1>5 DEF CheckExists, At
    <2> QED BY <1>0, <1>2, <1>4, <2>1, <2>2 DEF SetupAt
  <1>6. CASE ChooseName(r)
    <2>1. At(r, "name") /\ UNCHANGED <<tenants, rows, projects, routine>>
      BY <1>0, <1>6 DEF ChooseName, SetupAt, At
    <2>2. PICK n \in Numbers :
            /\ ConstructNsBaseName(n)
            /\ RequestIs(r, [req[r] EXCEPT !.base = n,
                               !.pc = IF @ = "name" THEN "insert" ELSE "saveName"])
      BY <1>1, <1>6 DEF ChooseName
    <2>3. /\ req'[r].base = n /\ req'[r].pc = "insert" /\ req'[r].reply = req[r].reply
          /\ req'[r].stage = req[r].stage
      BY <1>0, <2>1, <2>2 DEF RequestIs, Request, At
    <2>4. n # 0 /\ \A t \in Tenants : tenants[t] # n
      BY <2>2 DEF ConstructNsBaseName, Taken
    <2> QED BY <1>0, <1>2, <2>1, <2>3, <2>4 DEF SetupAt, At
  <1>7. CASE InsertTenant(r)
    <2>1. UNCHANGED <<rows, projects, routine>> /\ ~At(r, "apply")
      BY <1>7 DEF InsertTenant, At
    <2>2. CASE /\ tenants' = [tenants EXCEPT ![TenantOf[r]] = req[r].base]
               /\ RequestIs(r, [req[r] EXCEPT !.pc = "missing", !.existing = {}])
      <3>1. /\ req'[r].base = req[r].base /\ req'[r].pc = "missing"
            /\ req'[r].reply = req[r].reply /\ req'[r].stage = req[r].stage
            /\ tenants'[TenantOf[r]] = req[r].base
        BY <1>0, <2>2 DEF RequestIs, Request
      <3> QED BY <1>0, <1>2, <1>7, <2>1, <3>1 DEF SetupAt
    <2>3. CASE Reply(r, "conflict")
      BY <1>0, <1>2, <1>3, <1>7, <2>1, <2>3 DEF SetupAt
    <2> QED BY <1>1, <1>7, <2>2, <2>3 DEF InsertTenant
  <1>8. CASE ReadNamespaces(r)
    <2>1. At(r, "namespaces") /\ UNCHANGED <<tenants, rows, projects, routine>>
      BY <1>8 DEF ReadNamespaces
    <2>2. RequestIs(r, [req[r] EXCEPT !.existing = RowsOf(TenantOf[r]),
                          !.pc = AfterNamespaces(KindOf[r])])
      BY <1>1, <1>8 DEF ReadNamespaces
    <2>3. req'[r].pc = "tenant" /\ req'[r].reply = req[r].reply /\ req'[r].stage = req[r].stage
      BY <1>0, <2>2 DEF RequestIs, Request, AfterNamespaces
    <2> QED BY <1>0, <1>2, <2>1, <2>3 DEF SetupAt, At
  <1>9. CASE ReadTenant(r)
    <2>1. /\ At(r, "tenant") /\ UNCHANGED <<tenants, rows, projects, routine>>
          /\ tenants[TenantOf[r]] # NoName
      BY <1>0, <1>9 DEF ReadTenant, SetupAt, At
    <2>2. RequestIs(r, [req[r] EXCEPT !.base = tenants[TenantOf[r]],
                          !.pc = AfterTenant(KindOf[r])])
      BY <1>1, <1>9, <2>1 DEF ReadTenant
    <2>3. /\ req'[r].pc = "missing" /\ req'[r].base = tenants[TenantOf[r]]
          /\ req'[r].reply = req[r].reply /\ req'[r].stage = req[r].stage
      BY <1>0, <2>2 DEF RequestIs, Request, AfterTenant
    <2> QED BY <1>0, <1>2, <2>1, <2>3 DEF SetupAt, At
  <1>10. CASE CheckMissing(r)
    <2> DEFINE missing == Missing(req[r].existing)
               l == IF missing = EnvTypes /\ req[r].base = 0 THEN "newName" ELSE "cluster"
    <2>1. At(r, "missing") /\ UNCHANGED <<tenants, rows, projects, routine>>
      BY <1>10 DEF CheckMissing
    <2>2. tenants[TenantOf[r]] = req[r].base /\ req[r].base # 0
      BY <1>0, <2>1 DEF SetupAt, At, NamesDistinct
    <2>3. CASE Reply(r, "conflict")
      BY <1>0, <1>2, <1>3, <2>1, <2>3 DEF SetupAt, At
    <2>4. CASE RequestIs(r, [req[r] EXCEPT !.types = missing, !.pc = l])
      <3>1. /\ req'[r].pc = "cluster" /\ req'[r].base = req[r].base
            /\ req'[r].reply = req[r].reply /\ req'[r].stage = req[r].stage
        BY <1>0, <2>2, <2>4 DEF RequestIs, Request
      <3> QED BY <1>0, <1>2, <2>1, <2>2, <3>1 DEF SetupAt, At
    <2> QED BY <1>10, <2>3, <2>4 DEF CheckMissing
  <1>11. CASE CallAction(r)
    <2>1. At(r, "cluster") /\ UNCHANGED <<tenants, rows, projects>>
      BY <1>11 DEF CallAction
    <2>2. Start(r, "create", req[r].types, req[r])
      BY <1>0, <1>1, <1>11 DEF CallAction
    <2>3. /\ req'[r].pc = "apply" /\ req'[r].stage = "create" /\ req'[r].base = req[r].base
          /\ req'[r].errs = 0 /\ req'[r].reply = req[r].reply
      BY <1>0, <2>2 DEF Start, RequestIs, Request
    <2>4. routine'[r] = [u \in EnvTypes |-> IF u \in req[r].types
                                             THEN [IdleRoutine EXCEPT !.pc = "entity"]
                                             ELSE IdleRoutine]
      BY <1>0, <2>2 DEF Start, TypeOK
    <2>5. /\ IdleRoutine.pc = "none" /\ ~IdleRoutine.failed
          /\ [IdleRoutine EXCEPT !.pc = "entity"].pc = "entity"
          /\ ~[IdleRoutine EXCEPT !.pc = "entity"].failed
      BY DEF IdleRoutine
    <2>6. \A ty \in EnvTypes : routine'[r][ty].pc \in {"none", "entity"} /\ ~routine'[r][ty].failed
      BY <2>4, <2>5
    <2>7. \A ty \in EnvTypes : SetupGoes(r, ty)'
      BY <2>3, <2>6, SetupRests
    <2> QED BY <1>0, <1>11, <2>1, <2>3, <2>7 DEF SetupAt, At
  <1>12. CASE Join(r)
    <2>1. At(r, "apply") /\ UNCHANGED <<tenants, rows, projects>>
      BY <1>12 DEF Join
    <2>2. Reply(r, "accepted")
      BY <1>0, <1>12, <2>1 DEF Join, SetupAt, At, Deleting
    <2>3. \A ty \in EnvTypes : routine'[r][ty].pc = "none" /\ ~routine'[r][ty].failed
      BY <1>0, <1>12 DEF Join, TypeOK, IdleRoutine
    <2>4. \A ty \in EnvTypes : SetupGoes(r, ty)'
      BY <2>3, SetupRests
    <2> QED BY <1>0, <1>3, <2>1, <2>2, <2>4 DEF SetupAt, At
  <1>13. CASE \/ Heal(r) \/ CheckResults(r) \/ CheckCleaned(r) \/ CheckFails(r)
              \/ VerifyDeleted(r) \/ SaveName(r)
    BY <1>0, <1>13 DEF Heal, CheckResults, CheckCleaned, CheckFails, VerifyDeleted, SaveName,
       SetupAt, At
  <1> QED
    BY <1>5, <1>6, <1>7, <1>8, <1>9, <1>10, <1>11, <1>12, <1>13 DEF HandlerStep

(* What a goroutine of a setup does to the tables and the cluster. *)
SetupCreates(r, ty) ==
  /\ ~IsDuplicate(r, ty) /\ rows' = rows \cup {NewRow(r, ty)} /\ projects' = projects
  /\ routine[r][ty].pc = "entity" /\ routine'[r][ty].pc = "sets"
  /\ routine'[r][ty].row = NewRow(r, ty)

SetupPosts(r, ty) ==
  /\ rows' = rows
  /\ ProjectsWith(ty, req[r].base, [owner |-> TenantOf[r], phase |-> "active"])
  /\ routine[r][ty].pc = "post" /\ routine'[r][ty].pc = "objects"
  /\ routine'[r][ty].row = routine[r][ty].row

SetupSaves(r, ty) ==
  /\ rows' = Saved([routine[r][ty].row EXCEPT !.state = "ready"]) /\ projects' = projects
  /\ routine[r][ty].pc = "save" /\ routine'[r][ty].pc = "end"

SetupGoesOn(r, ty) ==
  /\ UNCHANGED <<rows, projects>>
  /\ \/ routine'[r][ty].pc = "end"
     \/ /\ routine[r][ty].pc \in Working /\ routine'[r][ty].row = routine[r][ty].row
        /\ \/ routine'[r][ty].pc \in {"second", "callback", "save"}
           \/ /\ routine'[r][ty].pc \in {"project", "post"}
              /\ routine[r][ty].pc \in {"sets", "project"}

LEMMA SetupRoutine ==
  ASSUME SetupsInv, NothingRefused, NEW r \in Requests, NEW ty \in EnvTypes, RoutineStep(r, ty)
  PROVE  /\ ~routine'[r][ty].failed /\ req' = req /\ tenants' = tenants
         /\ \A q \in Requests, u \in EnvTypes :
              q # r \/ u # ty => routine'[q][u] = routine[q][u]
         /\ \/ SetupCreates(r, ty) \/ SetupPosts(r, ty) \/ SetupSaves(r, ty)
            \/ SetupGoesOn(r, ty)
  <1> DEFINE g == routine[r][ty]
             h == routine'[r][ty]
  <1>0. /\ TypeOK /\ SetupAt(r) /\ SetupGoes(r, ty) /\ g \in Routine
        /\ routine \in [Requests -> [EnvTypes -> Routine]]
    BY DEF SetupsInv, TypeInv, TypeOK
  <1>1. ~Fault("query") /\ ~Fault("os") /\ ~Fault("template")
    BY DEF Fault, NothingRefused
  <1>2. /\ At(r, "apply") /\ tenants' = tenants /\ req[r].stage = "create" /\ ~g.failed
        /\ Creating(req[r].stage) /\ ~Deleting(req[r].stage) /\ ~Cleans(r) /\ ~Removes(r)
    BY <1>0, RoutineReq DEF SetupAt, SetupGoes, At, Creating, Deleting, Cleans, Removes
  <1>3. ASSUME NEW f, RoutineIs(r, ty, f)
        PROVE  /\ h = f
               /\ \A q \in Requests, u \in EnvTypes :
                    q # r \/ u # ty => routine'[q][u] = routine[q][u]
    BY <1>0, <1>3 DEF RoutineIs
  <1>4. ASSUME NEW pc, RoutineGoto(r, ty, pc)
        PROVE  /\ h.pc = pc /\ h.failed = g.failed /\ h.row = g.row
               /\ \A q \in Requests, u \in EnvTypes :
                    q # r \/ u # ty => routine'[q][u] = routine[q][u]
    <2>1. RoutineIs(r, ty, [g EXCEPT !.pc = pc])
      BY <1>4 DEF RoutineGoto
    <2>2. h = [g EXCEPT !.pc = pc]
      BY <1>3, <2>1
    <2>3. h.pc = pc /\ h.failed = g.failed /\ h.row = g.row
      BY <1>0, <2>2 DEF Routine
    <2> QED BY <1>3, <2>1, <2>3
  <1>5. ASSUME NextSet(r, ty, TRUE)
        PROVE  /\ h.pc \in {"second", "callback", "save"} /\ h.failed = g.failed /\ h.row = g.row
               /\ req' = req
               /\ \A q \in Requests, u \in EnvTypes :
                    q # r \/ u # ty => routine'[q][u] = routine[q][u]
    <2>1. /\ h.pc \in {"second", "callback", "save"} /\ h.row = g.row
          /\ h.failed = (g.failed \/ ~TRUE)
      BY <1>0, <1>5, NextSetFields DEF AfterSets
    <2>2. h.failed = g.failed
      BY <1>0, <2>1 DEF Routine
    <2>3. req' = req /\ \E f : RoutineIs(r, ty, f)
      BY <1>5 DEF NextSet, NoError
    <2> QED BY <1>3, <2>1, <2>2, <2>3
  <1>6. CASE CreateNamespace(r, ty)
    <2>1. g.pc = "entity" /\ projects' = projects
      BY <1>6 DEF CreateNamespace, In
    <2>2. CASE /\ ~IsDuplicate(r, ty) /\ rows' = rows \cup {NewRow(r, ty)}
               /\ RoutineIs(r, ty, [g EXCEPT !.pc = "sets", !.row = NewRow(r, ty)]) /\ NoError
      <3>1. h = [g EXCEPT !.pc = "sets", !.row = NewRow(r, ty)]
        BY <1>3, <2>2
      <3>2. h.pc = "sets" /\ h.failed = g.failed /\ h.row = NewRow(r, ty)
        BY <1>0, <3>1 DEF Routine
      <3> QED BY <1>2, <1>3, <2>1, <2>2, <3>2 DEF SetupCreates, NoError
    <2>3. CASE RoutineGoto(r, ty, "end") /\ NoError /\ rows' = rows
      BY <1>2, <1>4, <2>1, <2>3 DEF SetupGoesOn, NoError
    <2> QED BY <1>1, <1>6, <2>2, <2>3 DEF CreateNamespace
  <1>7. CASE GetOperationSets(r, ty)
    <2>1. PICK second : RoutineIs(r, ty, [g EXCEPT !.second = second, !.pc = "project"])
      BY <1>2, <1>7 DEF GetOperationSets
    <2>2. h = [g EXCEPT !.second = second, !.pc = "project"]
      BY <1>3, <2>1
    <2>3. h.pc = "project" /\ h.failed = g.failed /\ h.row = g.row
      BY <1>0, <2>2 DEF Routine
    <2>4. g.pc = "sets" /\ req' = req /\ UNCHANGED <<rows, projects>>
      BY <1>7 DEF GetOperationSets, In, NoError
    <2> QED BY <1>2, <1>3, <2>1, <2>3, <2>4 DEF SetupGoesOn, Working
  <1>8. CASE CheckProject(r, ty)
    <2>1. g.pc = "project" /\ UNCHANGED <<rows, projects>>
      BY <1>8 DEF CheckProject, In
    <2>2. projects[ty][req[r].base] = Absent
      BY <1>0, <2>1 DEF SetupGoes
    <2>3. RoutineGoto(r, ty, "post") /\ req' = req
      BY <1>1, <1>8, <2>2 DEF CheckProject, NoError
    <2> QED BY <1>2, <1>4, <2>1, <2>3 DEF SetupGoesOn, Working
  <1>9. CASE PostProject(r, ty)
    <2>1. g.pc = "post" /\ rows' = rows
      BY <1>9 DEF PostProject, In
    <2>2. projects[ty][req[r].base] = Absent
      BY <1>0, <2>1 DEF SetupGoes
    <2>3. /\ ProjectsWith(ty, req[r].base, [owner |-> TenantOf[r], phase |-> "active"])
          /\ RoutineGoto(r, ty, "objects") /\ req' = req
      BY <1>1, <1>9, <2>2 DEF PostProject, NoError
    <2> QED BY <1>2, <1>4, <2>1, <2>3 DEF SetupPosts
  <1>10. CASE ApplyObjects(r, ty)
    <2>1. g.pc = "objects" /\ UNCHANGED <<rows, projects>>
      BY <1>10 DEF ApplyObjects, In
    <2>2. projects[ty][req[r].base].phase = "active"
      BY <1>0, <2>1 DEF SetupGoes
    <2>3. NextSet(r, ty, TRUE)
      BY <1>1, <1>10, <2>2 DEF ApplyObjects
    <2> QED BY <1>2, <1>5, <2>1, <2>3 DEF SetupGoesOn, Working
  <1>11. CASE ApplySecondSet(r, ty)
    <2>1. g.pc = "second" /\ UNCHANGED <<rows, projects>>
      BY <1>11 DEF ApplySecondSet, In
    <2>2. NextSet(r, ty, TRUE)
      BY <1>1, <1>11 DEF ApplySecondSet
    <2> QED BY <1>2, <1>5, <2>1, <2>2 DEF SetupGoesOn, Working
  <1>12. CASE AfterCallback(r, ty)
    <2>1. g.pc = "callback" /\ UNCHANGED <<rows, projects>>
      BY <1>12 DEF AfterCallback, In
    <2>2. RoutineGoto(r, ty, "save") /\ req' = req
      BY <1>1, <1>12 DEF AfterCallback, NoError
    <2> QED BY <1>2, <1>4, <2>1, <2>2 DEF SetupGoesOn, Working
  <1>13. CASE UpdateNamespace(r, ty)
    <2>1. g.pc = "save" /\ RoutineGoto(r, ty, "end") /\ req' = req /\ projects' = projects
      BY <1>13 DEF UpdateNamespace, In, NoError
    <2>2. Outcome(r, ty) = Saved([g.row EXCEPT !.state = "ready"])
      BY <1>2 DEF Outcome
    <2>3. rows' = rows \/ rows' = Saved([g.row EXCEPT !.state = "ready"])
      BY <1>13, <2>2 DEF UpdateNamespace
    <2> QED BY <1>2, <1>4, <2>1, <2>3 DEF SetupGoesOn, SetupSaves
  <1>14. CASE \/ GetExistingNamespace(r, ty) \/ OperationSetsFail(r, ty)
              \/ TemplatesMissing(r, ty) \/ DeleteProject(r, ty)
    BY <1>1, <1>2, <1>14 DEF GetExistingNamespace, OperationSetsFail, TemplatesMissing,
       DeleteProject
  <1> QED
    BY <1>6, <1>7, <1>8, <1>9, <1>10, <1>11, <1>12, <1>13, <1>14 DEF RoutineStep

(* A name leads to one tenant, and a row of it to the one who created it. *)
LEMMA SetupsMeet ==
  ASSUME SetupsInv, NEW r \in Requests, At(r, "apply"), NEW ty \in EnvTypes
  PROVE  /\ \A x \in rows : x.base = req[r].base => x.tenant = TenantOf[r]
         /\ \A x \in rows : x.tenant = TenantOf[r] => x.base = req[r].base
         /\ \A q \in Requests :
              /\ routine[r][ty].pc \in Working /\ routine[q][ty].pc \in Working
              /\ req[q].base = req[r].base \/ routine[q][ty].row = routine[r][ty].row
              => q = r
  <1>0. /\ rows \subseteq Row /\ tenants \in [Tenants -> Numbers \cup {NoName}]
        /\ NoName \notin Numbers /\ RowsFollowBaseName /\ OneRowPerType /\ NamesDistinct
        /\ \A q \in Requests : SetupAt(q) /\ SetupGoes(q, ty) /\ req[q].base \in Numbers
                               /\ TenantOf[q] \in Tenants
    BY ConstantsAssumption DEF SetupsInv, TypeInv, TypeOK, Request
  <1>1. tenants[TenantOf[r]] = req[r].base
    BY <1>0 DEF SetupAt, At
  <1>2. \A x \in rows : x.base = req[r].base => x.tenant = TenantOf[r]
    BY <1>0, <1>1 DEF RowsFollowBaseName, NamesDistinct, Row
  <1>3. \A x \in rows : x.tenant = TenantOf[r] => x.base = req[r].base
    BY <1>0, <1>1 DEF RowsFollowBaseName
  <1>4. ASSUME NEW q \in Requests, routine[r][ty].pc \in Working, routine[q][ty].pc \in Working,
               req[q].base = req[r].base
        PROVE  q = r
    <2>1. tenants[TenantOf[q]] = req[r].base
      BY <1>0, <1>4 DEF SetupGoes, SetupAt, At, Working
    <2>2. TenantOf[q] = TenantOf[r]
      BY <1>0, <1>1, <2>1 DEF NamesDistinct
    <2>3. routine[q][ty].row = routine[r][ty].row
      BY <1>0, <1>4, <2>2 DEF SetupGoes, OneRowPerType
    <2> QED BY <1>0, <1>4, <2>3 DEF SetupGoes
  <1>5. ASSUME NEW q \in Requests, routine[r][ty].pc \in Working, routine[q][ty].pc \in Working,
               routine[q][ty].row = routine[r][ty].row
        PROVE  q = r
    BY <1>0, <1>5 DEF SetupGoes
  <1> QED BY <1>2, <1>3, <1>4, <1>5

(* The parts of the invariant that a goroutine can disturb. *)
SetupTables ==
  /\ RowsFollowBaseName /\ OneRowPerType /\ ProjectsHaveRows
  /\ \A q \in Requests, u \in EnvTypes : SetupGoes(q, u)

LEMMA SetupCreated ==
  ASSUME SetupsInv, NEW r \in Requests, NEW ty \in EnvTypes, At(r, "apply"),
         SetupCreates(r, ty), ~routine'[r][ty].failed, req' = req, tenants' = tenants,
         \A q \in Requests, u \in EnvTypes : q # r \/ u # ty => routine'[q][u] = routine[q][u]
  PROVE  SetupTables'
  <1> DEFINE z == NewRow(r, ty)
  <1>0. /\ RowsFollowBaseName /\ OneRowPerType /\ ProjectsHaveRows
        /\ \A q \in Requests, u \in EnvTypes : SetupGoes(q, u)
        /\ SetupAt(r) /\ req[r].base \in Numbers
    BY DEF SetupsInv, TypeInv, TypeOK, Request
  <1>1. /\ z.by = r /\ z.tenant = TenantOf[r] /\ z.type = ty /\ z.base = req[r].base
        /\ rows' = rows \cup {z} /\ projects' = projects
        /\ routine'[r][ty].pc = "sets" /\ routine'[r][ty].row = z
    BY DEF SetupCreates, NewRow
  <1>2. \A x \in rows : ~(x.tenant = TenantOf[r] /\ x.type = ty)
    BY SetupsMeet DEF SetupCreates, IsDuplicate, RowsOf
  <1>3. projects[ty][req[r].base] = Absent
    BY <1>0, <1>2, SetupsMeet DEF ProjectsHaveRows
  <1>4. tenants[TenantOf[r]] = req[r].base
    BY <1>0 DEF SetupAt, At
  <1> HIDE DEF z
  <1>5. RowsFollowBaseName'
    BY <1>0, <1>1, <1>4 DEF RowsFollowBaseName
  <1>6. OneRowPerType'
    BY <1>0, <1>1, <1>2 DEF OneRowPerType
  <1>7. ProjectsHaveRows'
    BY <1>0, <1>1 DEF ProjectsHaveRows
  <1>8. SetupGoes(r, ty)'
    BY <1>1, <1>3 DEF SetupGoes, At
  <1>9. ASSUME NEW q \in Requests, NEW u \in EnvTypes, q # r \/ u # ty
        PROVE  SetupGoes(q, u)'
    <2>1. SetupGoes(q, u) /\ routine'[q][u] = routine[q][u]
      BY <1>0, <1>9
    <2> QED BY <1>1, <2>1 DEF SetupGoes, At
  <1> QED BY <1>5, <1>6, <1>7, <1>8, <1>9 DEF SetupTables

LEMMA SetupPosted ==
  ASSUME SetupsInv, NEW r \in Requests, NEW ty \in EnvTypes, At(r, "apply"),
         SetupPosts(r, ty), ~routine'[r][ty].failed, req' = req, tenants' = tenants,
         \A q \in Requests, u \in EnvTypes : q # r \/ u # ty => routine'[q][u] = routine[q][u]
  PROVE  SetupTables'
  <1> DEFINE n == req[r].base
             p == [owner |-> TenantOf[r], phase |-> "active"]
  <1>0. /\ RowsFollowBaseName /\ OneRowPerType /\ ProjectsHaveRows
        /\ \A q \in Requests, u \in EnvTypes : SetupGoes(q, u)
        /\ \A q \in Requests : req[q].base \in Numbers
        /\ projects \in [EnvTypes -> [Numbers -> Project]]
    BY DEF SetupsInv, TypeInv, TypeOK, Request
  <1>1. /\ rows' = rows /\ projects' = [projects EXCEPT ![ty][n] = p]
        /\ routine[r][ty].pc = "post" /\ routine'[r][ty].pc = "objects"
        /\ routine'[r][ty].row = routine[r][ty].row
    BY DEF SetupPosts, ProjectsWith
  <1>2. /\ projects'[ty][n].phase = "active"
        /\ \A u \in EnvTypes, m \in Numbers :
             u # ty \/ m # n => projects'[u][m] = projects[u][m]
    BY <1>0, <1>1
  <1> DEFINE x == routine[r][ty].row
  <1>3. x \in rows /\ x.type = ty /\ x.tenant = TenantOf[r]
    BY <1>0, <1>1 DEF SetupGoes, Working
  <1>4. x.base = n
    BY <1>3, SetupsMeet
  <1>5. RowsFollowBaseName' /\ OneRowPerType'
    BY <1>0, <1>1 DEF RowsFollowBaseName, OneRowPerType
  <1>6. ProjectsHaveRows'
    <2> SUFFICES ASSUME NEW u \in EnvTypes, NEW m \in Numbers, projects'[u][m] # Absent
                 PROVE  \E y \in rows : y.type = u /\ y.base = m
      BY <1>1 DEF ProjectsHaveRows
    <2> HIDE DEF x, n
    <2>1. CASE u = ty /\ m = n
      BY <1>3, <1>4, <2>1
    <2>2. CASE u # ty \/ m # n
      BY <1>0, <1>2, <2>2 DEF ProjectsHaveRows
    <2> QED BY <2>1, <2>2
  <1>7. SetupGoes(r, ty)'
    BY <1>0, <1>1, <1>2 DEF SetupGoes, At, Working
  <1>8. ASSUME NEW q \in Requests, NEW u \in EnvTypes, q # r \/ u # ty
        PROVE  SetupGoes(q, u)'
    <2>1. SetupGoes(q, u) /\ routine'[q][u] = routine[q][u]
      BY <1>0, <1>8
    <2>2. CASE u # ty \/ req[q].base # n
      <3>1. projects'[u][req[q].base] = projects[u][req[q].base]
        BY <1>0, <1>2, <2>2
      <3> QED BY <1>1, <2>1, <3>1 DEF SetupGoes, At
    <2>3. CASE u = ty /\ req[q].base = n
      <3>1. routine[q][u].pc \notin Working
        BY <1>1, <1>8, <2>3, SetupsMeet DEF Working
      <3> QED BY <1>1, <2>1, <3>1 DEF SetupGoes, At, Working
    <2> QED BY <2>2, <2>3
  <1> QED BY <1>5, <1>6, <1>7, <1>8 DEF SetupTables

LEMMA SetupSaved ==
  ASSUME SetupsInv, NEW r \in Requests, NEW ty \in EnvTypes, At(r, "apply"),
         SetupSaves(r, ty), ~routine'[r][ty].failed, req' = req, tenants' = tenants,
         \A q \in Requests, u \in EnvTypes : q # r \/ u # ty => routine'[q][u] = routine[q][u]
  PROVE  SetupTables'
  <1> DEFINE x == routine[r][ty].row
             z == [x EXCEPT !.state = "ready"]
  <1>0. /\ RowsFollowBaseName /\ OneRowPerType /\ ProjectsHaveRows /\ rows \subseteq Row
        /\ \A q \in Requests, u \in EnvTypes : SetupGoes(q, u)
    BY DEF SetupsInv, TypeInv, TypeOK
  <1>1. /\ rows' = Saved(z) /\ projects' = projects
        /\ routine[r][ty].pc = "save" /\ routine'[r][ty].pc = "end"
    BY DEF SetupSaves
  <1>2. x \in rows /\ x \in Row /\ x.type = ty /\ x.tenant = TenantOf[r]
    BY <1>0, <1>1 DEF SetupGoes, Working
  <1>3. z.tenant = x.tenant /\ z.type = x.type /\ z.base = x.base /\ SameKey(x, z)
    BY <1>2 DEF Row, SameKey
  <1> HIDE DEF z
  <1>4. \A y \in rows : SameKey(z, y) <=> y = x
    BY <1>0, <1>2, <1>3 DEF SameKey, OneRowPerType
  <1> HIDE DEF x
  <1>5. rows' = (rows \ {x}) \cup {z}
    BY <1>1, <1>4 DEF Saved
  <1>6. RowsFollowBaseName'
    BY <1>0, <1>2, <1>3, <1>5 DEF RowsFollowBaseName
  <1>7. OneRowPerType'
    BY <1>0, <1>2, <1>3, <1>5 DEF OneRowPerType
  <1>8. ProjectsHaveRows'
    <2> SUFFICES ASSUME NEW u \in EnvTypes, NEW m \in Numbers, projects[u][m] # Absent
                 PROVE  \E y \in rows' : y.type = u /\ y.base = m
      BY <1>1 DEF ProjectsHaveRows
    <2>1. PICK y \in rows : y.type = u /\ y.base = m
      BY <1>0 DEF ProjectsHaveRows
    <2>2. CASE y = x
      BY <1>3, <1>5, <2>1, <2>2
    <2>3. CASE y # x
      BY <1>5, <2>1, <2>3
    <2> QED BY <2>2, <2>3
  <1>9. SetupGoes(r, ty)'
    BY <1>1 DEF SetupGoes, At, Working
  <1>10. ASSUME NEW q \in Requests, NEW u \in EnvTypes, q # r \/ u # ty
        PROVE  SetupGoes(q, u)'
    <2>1. SetupGoes(q, u) /\ routine'[q][u] = routine[q][u]
      BY <1>0, <1>10
    <2>2. ASSUME routine[q][u].pc \in Working
          PROVE  routine[q][u].row # x
      <3>1. CASE u = ty
        BY <1>1, <1>10, <2>2, <3>1, SetupsMeet DEF Working, x
      <3>2. CASE u # ty
        BY <1>2, <2>1, <2>2, <3>2 DEF SetupGoes
      <3> QED BY <3>1, <3>2
    <2> QED BY <1>1, <1>5, <2>1, <2>2 DEF SetupGoes, At
  <1> QED BY <1>6, <1>7, <1>8, <1>9, <1>10 DEF SetupTables

LEMMA SetupWentOn ==
  ASSUME SetupsInv, NEW r \in Requests, NEW ty \in EnvTypes, At(r, "apply"),
         SetupGoesOn(r, ty), ~routine'[r][ty].failed, req' = req, tenants' = tenants,
         \A q \in Requests, u \in EnvTypes : q # r \/ u # ty => routine'[q][u] = routine[q][u]
  PROVE  SetupTables'
  <1>0. /\ RowsFollowBaseName /\ OneRowPerType /\ ProjectsHaveRows
        /\ \A q \in Requests, u \in EnvTypes : SetupGoes(q, u)
    BY DEF SetupsInv
  <1>1. RowsFollowBaseName' /\ OneRowPerType' /\ ProjectsHaveRows'
    BY <1>0 DEF SetupGoesOn, RowsFollowBaseName, OneRowPerType, ProjectsHaveRows
  <1>2. SetupGoes(r, ty)'
    <2>1. CASE routine'[r][ty].pc = "end"
      BY <2>1 DEF SetupGoes, At, Working
    <2>2. CASE routine'[r][ty].pc # "end"
      BY <1>0, <2>2 DEF SetupGoesOn, SetupGoes, At, Working
    <2> QED BY <2>1, <2>2
  <1>3. ASSUME NEW q \in Requests, NEW u \in EnvTypes, q # r \/ u # ty
        PROVE  SetupGoes(q, u)'
    <2>1. SetupGoes(q, u) /\ routine'[q][u] = routine[q][u]
      BY <1>0, <1>3
    <2> QED BY <2>1 DEF SetupGoesOn, SetupGoes, At
  <1> QED BY <1>1, <1>2, <1>3 DEF SetupTables

(* A tenant is inserted under a name that nobody has. *)
LEMMA SetupInserts ==
  ASSUME SetupsInv, OnlySetups, NEW r \in Requests, InsertTenant(r),
         \A q \in Requests \ {r} : req'[q] = req[q]
  PROVE  /\ NamesDistinct' /\ RowsFollowBaseName'
         /\ \A q \in Requests \ {r} : SetupAt(q)'
  <1> DEFINE t == TenantOf[r]
  <1>0. /\ rows \subseteq Row /\ tenants \in [Tenants -> Numbers \cup {NoName}]
        /\ NoName \notin Numbers /\ t \in Tenants /\ req[r].base \in Numbers
        /\ NamesDistinct /\ RowsFollowBaseName /\ rows' = rows /\ SetupAt(r) /\ At(r, "insert")
        /\ \A q \in Requests : req[q].base \in Numbers /\ TenantOf[q] \in Tenants /\ SetupAt(q)
    BY ConstantsAssumption DEF SetupsInv, TypeInv, TypeOK, Request, InsertTenant
  <1>1. CASE tenants' = tenants
    <2>1. NamesDistinct' /\ RowsFollowBaseName'
      BY <1>0, <1>1 DEF NamesDistinct, RowsFollowBaseName
    <2>2. \A q \in Requests \ {r} : SetupAt(q)'
      BY <1>0, <1>1 DEF SetupAt
    <2> QED BY <2>1, <2>2
  <1>2. CASE tenants[t] = NoName /\ tenants' = [tenants EXCEPT ![t] = req[r].base]
    <2>1. /\ req[r].base # 0 /\ \A u \in Tenants \ {t} : tenants[u] # req[r].base
          /\ tenants'[t] = req[r].base /\ \A u \in Tenants \ {t} : tenants'[u] = tenants[u]
      BY <1>0, <1>2 DEF SetupAt, At
    <2>2. NamesDistinct'
      BY <1>0, <2>1 DEF NamesDistinct
    <2>3. RowsFollowBaseName'
      <3> SUFFICES ASSUME NEW x \in rows
                   PROVE  tenants'[x.tenant] = x.base
        BY <1>0 DEF RowsFollowBaseName
      <3>1. x.tenant \in Tenants /\ x.base \in Numbers /\ tenants[x.tenant] = x.base
        BY <1>0 DEF Row, RowsFollowBaseName
      <3>2. x.tenant # t
        BY <1>0, <1>2, <3>1
      <3> QED BY <2>1, <3>1, <3>2
    <2>4. ASSUME NEW q \in Requests \ {r}
          PROVE  SetupAt(q)'
      <3>1. CASE TenantOf[q] = t
        <4>1. req[q].pc \notin {"namespaces", "tenant", "missing", "cluster", "apply"}
          BY <1>0, <1>2, <3>1 DEF SetupAt
        <4>2. \A u \in Tenants \ {t} : tenants'[u] = tenants[u]
          BY <2>1
        <4> QED BY <1>0, <3>1, <4>1, <4>2 DEF SetupAt
      <3>2. CASE TenantOf[q] # t
        <4>1. ~Active(q)
          BY <1>0, <3>2 DEF SetupsInv, OneSetupAtATime, OnlySetups, Active, At
        <4> QED BY <1>0, <4>1 DEF SetupAt, Active
      <3> QED BY <3>1, <3>2
    <2> QED BY <2>2, <2>3, <2>4
  <1> QED BY <1>1, <1>2 DEF InsertTenant

LEMMA SetupsStep ==
  ASSUME OnlySetups, SetupsApart, NothingRefused
  PROVE  SetupsInv /\ [Next]_vars => SetupsInv'
  <1> SUFFICES ASSUME SetupsInv, [Next]_vars PROVE SetupsInv'
    OBVIOUS
  <1>0. /\ TypeInv /\ TypeOK
        /\ RowsFollowBaseName /\ OneRowPerType
        /\ NamesDistinct /\ ProjectsHaveRows /\ OneSetupAtATime
        /\ \A r \in Requests : SetupAt(r) /\ \A ty \in EnvTypes : SetupGoes(r, ty)
    BY DEF SetupsInv, TypeInv
  <1>t. TypeInv'
    BY <1>0, TypeInvStep
  <1>1. ASSUME NEW r \in Requests, HandlerStep(r)
        PROVE  SetupsInv'
    <2>1. /\ SetupAt(r)' /\ UNCHANGED <<rows, projects>>
          /\ \A ty \in EnvTypes : SetupGoes(r, ty)'
          /\ ~InsertTenant(r) => tenants' = tenants
      BY <1>1, SetupHandler
    <2>2. \A q \in Requests \ {r} : req'[q] = req[q] /\ routine'[q] = routine[q]
      BY <1>0, <1>1, HandlersApart
    <2>3. OneSetupAtATime'
      BY <1>0, <1>1, <2>2, HandlerActive, OneSetupKept
    <2>4. OneRowPerType' /\ ProjectsHaveRows'
      BY <1>0, <2>1 DEF OneRowPerType, ProjectsHaveRows
    <2>5. /\ NamesDistinct' /\ RowsFollowBaseName'
          /\ \A q \in Requests \ {r} : SetupAt(q)'
      <3>1. CASE InsertTenant(r)
        BY <2>2, <3>1, SetupInserts
      <3>2. CASE tenants' = tenants
        BY <1>0, <2>1, <2>2, <3>2 DEF NamesDistinct, RowsFollowBaseName, SetupAt
      <3> QED BY <2>1, <3>1, <3>2
    <2>6. ASSUME NEW q \in Requests \ {r}, NEW u \in EnvTypes
          PROVE  SetupGoes(q, u)'
      BY <1>0, <2>1, <2>2 DEF SetupGoes, At
    <2> QED BY <1>t, <2>1, <2>3, <2>4, <2>5, <2>6 DEF SetupsInv
  <1>2. ASSUME NEW r \in Requests, NEW ty \in EnvTypes, RoutineStep(r, ty)
        PROVE  SetupsInv'
    <2>1. /\ ~routine'[r][ty].failed /\ req' = req /\ tenants' = tenants
          /\ \A q \in Requests, u \in EnvTypes :
               q # r \/ u # ty => routine'[q][u] = routine[q][u]
          /\ \/ SetupCreates(r, ty) \/ SetupPosts(r, ty) \/ SetupSaves(r, ty)
             \/ SetupGoesOn(r, ty)
      BY <1>2, SetupRoutine
    <2>2. At(r, "apply")
      BY <1>0, <1>2, RoutineReq
    <2>3. SetupTables'
      BY <2>1, <2>2, SetupCreated, SetupPosted, SetupSaved, SetupWentOn
    <2>4. NamesDistinct' /\ OneSetupAtATime' /\ \A q \in Requests : SetupAt(q)'
      BY <1>0, <2>1 DEF NamesDistinct, OneSetupAtATime, Active, SetupAt
    <2> QED BY <1>t, <2>3, <2>4 DEF SetupsInv, SetupTables
  <1>3. ASSUME NEW r \in Requests, Begin(r) \/ Crash(r)
        PROVE  SetupsInv'
    <2>1. UNCHANGED <<tenants, rows, projects>>
      BY <1>3 DEF Begin, Crash, Dies
    <2>2. \A q \in Requests \ {r} : req'[q] = req[q] /\ routine'[q] = routine[q]
      BY <1>0, <1>3, HandlersApart
    <2>3. OneSetupAtATime'
      BY <1>0, <1>3, <2>2, OneSetupKept DEF Crash, Active
    <2>4. /\ req'[r].pc \in {"exists", "crashed"} /\ req'[r].stage = req[r].stage
          /\ req'[r].reply = req[r].reply
      <3>1. \A pc : Goto(r, pc) => /\ req'[r].pc = pc /\ req'[r].reply = req[r].reply
                                   /\ req'[r].stage = req[r].stage
        BY <1>0 DEF Goto, RequestIs, TypeOK, Request
      <3>2. FirstRead(KindOf[r]) = "exists"
        BY DEF OnlySetups, FirstRead
      <3> QED BY <1>3, <3>1, <3>2 DEF Begin, Crash, Dies
    <2>5. \A ty \in EnvTypes : routine'[r][ty].pc = "none" /\ ~routine'[r][ty].failed
      <3>1. CASE Begin(r)
        BY <1>0, <3>1 DEF Begin, At, SetupGoes
      <3>2. CASE Crash(r)
        BY <1>0, <3>2 DEF Crash, Dies, TypeOK, IdleRoutine
      <3> QED BY <1>3, <3>1, <3>2
    <2>6. \A ty \in EnvTypes : SetupGoes(r, ty)'
      BY <2>5, SetupRests
    <2>7. SetupAt(r)'
      BY <1>0, <2>4 DEF SetupAt
    <2>8. ASSUME NEW q \in Requests \ {r}
          PROVE  SetupAt(q)' /\ \A ty \in EnvTypes : SetupGoes(q, ty)'
      BY <1>0, <2>1, <2>2 DEF SetupAt, SetupGoes, At
    <2>9. RowsFollowBaseName' /\ OneRowPerType' /\ NamesDistinct' /\ ProjectsHaveRows'
      BY <1>0, <2>1 DEF RowsFollowBaseName, OneRowPerType, NamesDistinct, ProjectsHaveRows
    <2> QED BY <1>t, <2>3, <2>6, <2>7, <2>8, <2>9 DEF SetupsInv
  <1>4. ASSUME UNCHANGED <<tenants, rows, req, routine>>,
               \A ty \in EnvTypes, n \in Numbers :
                 projects'[ty][n] = projects[ty][n]
                   \/ (projects[ty][n].phase = "terminating" /\ projects'[ty][n] = Absent)
        PROVE  SetupsInv'
    <2>1. RowsFollowBaseName' /\ OneRowPerType' /\ NamesDistinct' /\ ProjectsHaveRows'
      BY <1>0, <1>4 DEF RowsFollowBaseName, OneRowPerType, NamesDistinct, ProjectsHaveRows
    <2>2. ASSUME NEW q \in Requests, NEW u \in EnvTypes
          PROVE  SetupGoes(q, u)'
      <3>1. req[q].base \in Numbers /\ SetupGoes(q, u)
        BY <1>0 DEF TypeOK, Request
      <3> QED BY <1>4, <3>1 DEF SetupGoes, At, Absent
    <2>3. OneSetupAtATime' /\ \A q \in Requests : SetupAt(q)'
      BY <1>0, <1>4 DEF OneSetupAtATime, Active, SetupAt
    <2> QED BY <1>t, <2>1, <2>2, <2>3 DEF SetupsInv
  <1>5. ASSUME NEW ty \in EnvTypes, NEW n \in Numbers, ProjectRemoved(ty, n)
        PROVE  SetupsInv'
    <2>1. \A u \in EnvTypes, m \in Numbers :
            projects'[u][m] = projects[u][m]
              \/ (projects[u][m].phase = "terminating" /\ projects'[u][m] = Absent)
      BY <1>0, <1>5 DEF ProjectRemoved, ProjectsWith, TypeOK
    <2> QED BY <1>4, <1>5, <2>1 DEF ProjectRemoved
  <1>6. CASE UNCHANGED vars
    BY <1>4, <1>6 DEF vars
  <1> QED BY <1>1, <1>2, <1>3, <1>5, <1>6 DEF Next

(* SetupsDoNotDisturb: any number of setups of one tenant, in any order of *)
(* their steps, create every row once and end without an error or a        *)
(* healing, which would remove what another of them created; also when     *)
(* some of them die or cannot save (controller/tenant.go, openshift/       *)
(* action.go).                                                             *)
THEOREM SetupsAreHarmless ==
  ASSUME OnlySetups, SetupsApart, StartsApart, NoneOld, NothingRefused, Outsiders = {}
  PROVE  Spec => []SetupsDoNotDisturb
  <1>1. Spec => []SetupsInv
    BY SetupsInit, SetupsStep, PTL DEF Spec
  <1>2. SetupsInv => SetupsDoNotDisturb
    BY DEF SetupsInv, SetupAt, SetupsDoNotDisturb
  <1> QED BY <1>1, <1>2, PTL
=============================================================================
