----------------------- MODULE NamespaceObjectsProofs -----------------------
(***************************************************************************)
(* Proofs about NamespaceObjects, for any number of goroutines and faults: *)
(* the type invariant; that objects are created after what they need; that *)
(* the rights of the user are what was decided and a cleaning leaves of    *)
(* what it listed nothing, but for what the cluster has denied; and that a *)
(* ready namespace is complete, as long as goroutines do not overlap or    *)
(* nothing fails.                                                          *)
(***************************************************************************)
EXTENDS NamespaceObjects, SequenceTheorems, TLAPS

Writing(method) == method \in {"POST", "PATCH"}

Applying == {"POST", "PATCH", "DELETE", "ENSURE_DELETION", "write", "conflict", "redo"}

(* The objects a worker will still create or update, and those it will     *)
(* still delete.                                                           *)
TodoOf(sets) == IF sets # <<>> /\ Writing(sets[1].method) THEN sets[1].todo ELSE {}

RemovalsOf(sets) ==
  {o \in Objects : \E i \in DOMAIN sets : sets[i].method = "DELETE" /\ o \in sets[i].todo}

Todo(x) == TodoOf(x.sets)
Removals(x) == RemovalsOf(x.sets)

(* An operation set of op, with templates. *)
SetInv(templates, op, s) ==
  /\ s \in OperationSet
  /\ Writing(s.method) => /\ s.method = Method(op)
                          /\ s.todo \subseteq templates \cup {"edit"}
                          /\ op # "create" => "project" \notin s.todo
  /\ op = "clean" => /\ s.method \in {"DELETE", "ENSURE_DELETION"}
                     /\ s.todo \subseteq AllToGetAndDelete
  /\ op # "clean" => Writing(s.method) \/ (s.method = "DELETE" /\ s.todo \subseteq {"edit"})

(* The operation sets of op that are left: what is written comes first,    *)
(* what is ensured to be deleted last.                                     *)
SetsInv(templates, op, sets) ==
  \/ sets = <<>>
  \/ \E s \in OperationSet : sets = <<s>> /\ SetInv(templates, op, s)
  \/ \E s, t \in OperationSet :
       /\ sets = <<s, t>> /\ SetInv(templates, op, s) /\ SetInv(templates, op, t)
       /\ op = "clean" => s.method = "DELETE" /\ t.method = "ENSURE_DELETION"
       /\ op # "clean" => Writing(s.method) /\ t.method = "DELETE"

(* Where a worker is tells what it is about. *)
PcInv(x) ==
  /\ x.pc = "idle" => x.alone
  /\ x.pc \in {"idle", "sets", "callback", "save"} => x.sets = <<>>
  /\ x.pc = "sets" => ~x.failed /\ x.grant = "undecided"
  /\ x.pc = "list" => /\ x.op = "clean" /\ x.object \in {"pod", "deployment", "claim"}
                      /\ \E objects \in SUBSET AllToGetAndDelete : x.sets = SetsToClean(objects)
  /\ x.pc \in Applying => /\ x.sets # <<>>
                          /\ x.object \in NextObjects(x.op, x.sets[1].todo)
  /\ x.pc \in {"POST", "conflict", "redo"} => Writing(x.sets[1].method)
  /\ x.pc \in {"PATCH", "write"} => x.sets[1].method = "PATCH"
  /\ x.pc \in {"DELETE", "ENSURE_DELETION"} => x.sets[1].method = x.pc
  /\ x.pc \in {"conflict", "redo"} => x.object # "project"

WorkerInv(templates, x) ==
  /\ x \in Worker
  /\ SetsInv(templates, x.op, x.sets)
  /\ PcInv(x)
  /\ Todo(x) # {} => ~x.failed
  /\ x.pc = "sets" \/ x.op # "clean" => x.found = {}
  /\ x.grant # "undecided" => x.op # "clean"

(* What holds of the objects: only what runs or is used takes its time to  *)
(* go, and nothing is there without the project.                           *)
ObjsInv ==
  /\ \A o \in Objects : objs[o] = "terminating" => o \in AllToGetAndDelete
  /\ (\E o \in Objects : objs[o] # "absent") => There("project")
  /\ \A w \in Workers : worker[w].pc \in {"conflict", "redo"} => There("project")

(* Of two that are busy, neither is alone. *)
AloneInv == \A v, w \in Workers : v # w /\ Busy(v) /\ Busy(w) => ~worker[v].alone

(* The objects whose creation is what ReadyIsComplete is about.            *)
Kept == Templates \ (AllToGetAndDelete \cup {"project"})

(* A worker that has begun with its operation sets and has not failed.     *)
Succeeding(x) == x.pc \notin {"idle", "sets", "done", "dead"} /\ ~x.failed

(* What a worker that is alone has done so far to the objects os. *)
WrittenInv(x, os) == x.op # "clean" => \A o \in Kept : os[o] = "good" \/ o \in Todo(x)

RightsInv(x, os) ==
  /\ x.grant = "yes" => os["edit"] = "good" \/ "edit" \in Todo(x)
  /\ x.grant = "yes" => "edit" \notin Removals(x)
  /\ x.grant = "no" => os["edit"] = "absent" \/ "edit" \in Removals(x) \cup x.denied
  /\ x.grant = "no" => "edit" \notin Todo(x)
  /\ type = "user" /\ x.op = "create" /\ x.pc = "save" =>
       os["admin"] = "absent" \/ "admin" \in x.denied

CleanedInv(x, os) ==
  x.op = "clean" =>
    \A o \in x.found \ x.denied : os[o] \in {"stale", "good"} => o \in Removals(x)

OwnInv(x, os) == x.alone /\ Succeeding(x) =>
                   WrittenInv(x, os) /\ RightsInv(x, os) /\ CleanedInv(x, os)

(* Who deleted an object in a conflict will create it once more, or find   *)
(* it there.                                                               *)
Owed(o) == objs[o] = "absent" /\ \E w \in Workers : worker[w].pc = "redo" /\ worker[w].object = o
Covered(o) == objs[o] = "good" \/ Owed(o)

Declared == row = [state |-> "ready", version |-> "current"]

NoFaultInv ==
  faults = MaxFaults =>
    /\ Declared => \A o \in Kept : Covered(o)
    /\ \A w \in Workers : Succeeding(worker[w]) /\ worker[w].op # "clean" =>
         \A o \in Kept : Covered(o) \/ o \in Todo(worker[w])

(* As long as nobody ever overlapped.  *)
SerialInv ==
  (\A w \in Workers : worker[w].alone) =>
    /\ Declared => \A o \in Kept : objs[o] = "good"
    /\ \A w \in Workers : Busy(w) => /\ worker[w].op = "create" => ~Declared
                                     /\ Declared /\ worker[w].object \in Kept =>
                                          worker[w].pc \notin {"POST", "conflict", "redo"}

NInv == /\ TypeOK
        /\ \A w \in Workers : WorkerInv(Templates, worker[w])
        /\ \A w \in Workers : OwnInv(worker[w], objs)
        /\ ObjsInv /\ AloneInv /\ NoFaultInv /\ SerialInv

-----------------------------------------------------------------------------
(* Objects and templates *)

(* The objects, what may be cleaned and the order of kinds.                *)
LEMMA ObjectsAre ==
  /\ Objects = {"project", "role", "quota", "account", "binding", "edit", "admin", "pod",
                "replacement", "claim", "deployment"}
  /\ AllToGetAndDelete \subseteq Objects
  /\ SortOrder["project"] = 1 /\ SortOrder["role"] = 2 /\ SortOrder["quota"] = 5
  /\ SortOrder["account"] = 7 /\ SortOrder["binding"] = 9 /\ SortOrder["edit"] = 9
  /\ SortOrder["pod"] = 9 /\ SortOrder["replacement"] = 9 /\ SortOrder["claim"] = 10
  /\ SortOrder["deployment"] = 12
<1>1. Objects = {"project", "role", "quota", "account", "binding", "edit", "admin", "pod",
                 "replacement", "claim", "deployment"}
  BY DEF Objects, SortOrder
<1>2. /\ SortOrder["project"] = 1 /\ SortOrder["role"] = 2 /\ SortOrder["quota"] = 5
      /\ SortOrder["account"] = 7 /\ SortOrder["binding"] = 9 /\ SortOrder["edit"] = 9
      /\ SortOrder["pod"] = 9 /\ SortOrder["replacement"] = 9 /\ SortOrder["claim"] = 10
      /\ SortOrder["deployment"] = 12
  BY DEF SortOrder
<1> QED BY <1>1, <1>2 DEF AllToGetAndDelete, Pods

(* What the templates ask for is neither run by the user nor a right.      *)
LEMMA TemplatesAre ==
  ASSUME type \in EnvTypes
  PROVE  /\ Templates \subseteq {"project", "role", "account", "binding", "claim", "quota"}
         /\ Templates \subseteq Objects /\ "project" \in Templates
         /\ Kept \subseteq {"role", "account", "binding", "quota"}
<1>1. MainTemplate[type] \subseteq {"project", "role", "account", "binding", "claim"}
      /\ "project" \in MainTemplate[type]
  BY DEF MainTemplate, EnvTypes
<1>2. QuotasTemplate[type] \subseteq {"quota"}
  BY DEF QuotasTemplate, EnvTypes
<1>3. /\ Templates \subseteq {"project", "role", "account", "binding", "claim", "quota"}
      /\ "project" \in Templates
  BY <1>1, <1>2 DEF Templates
<1>4. Kept \subseteq {"role", "account", "binding", "quota"}
  BY <1>3 DEF Kept, AllToGetAndDelete, Pods
<1> QED BY <1>3, <1>4, ObjectsAre

-----------------------------------------------------------------------------
(* Operation sets *)

(* Sequences of at most two elements.                                      *)
LEMMA Tuples ==
  ASSUME NEW S, NEW s \in S, NEW t \in S
  PROVE  /\ <<>> \in Seq(S) /\ <<s>> \in Seq(S) /\ <<s, t>> \in Seq(S)
         /\ Len(<<>>) = 0 /\ Len(<<s>>) = 1 /\ Len(<<s, t>>) = 2
         /\ DOMAIN <<>> = {} /\ DOMAIN <<s>> = {1} /\ DOMAIN <<s, t>> = {1, 2}
         /\ <<s>> # <<>> /\ <<s, t>> # <<>>
         /\ <<s>>[1] = s /\ <<s, t>>[1] = s /\ <<s, t>>[2] = t
         /\ Tail(<<s>>) = <<>> /\ Tail(<<s, t>>) = <<t>>
         /\ Head(<<s>>) = s /\ Head(<<s, t>>) = s
OBVIOUS

(* The sets that are left of one or two.                                   *)
LEMMA RemainingOfTwo ==
  ASSUME NEW S, NEW s \in S, NEW t \in S
  PROVE  /\ Remaining(<<>>) = <<>>
         /\ Remaining(<<s>>) = IF s.todo # {} THEN <<s>> ELSE <<>>
         /\ Remaining(<<s, t>>) = IF s.todo # {} THEN <<s, t>>
                                  ELSE IF t.todo # {} THEN <<t>> ELSE <<>>
<1> DEFINE more(sets) == {i \in DOMAIN sets : sets[i].todo # {}}
           first(sets) == CHOOSE i \in more(sets) : \A j \in more(sets) : i <= j
<1>1. Remaining(<<>>) = <<>>
  BY Tuples DEF Remaining
<1>2. Remaining(<<s>>) = IF s.todo # {} THEN <<s>> ELSE <<>>
  <2>1. CASE s.todo = {}
    <3>1. more(<<s>>) = {}
      BY <2>1, Tuples
    <3> QED BY <2>1, <3>1 DEF Remaining
  <2>2. CASE s.todo # {}
    <3>1. more(<<s>>) = {1}
      BY <2>2, Tuples
    <3>2. first(<<s>>) = 1
      BY <3>1
    <3>3. SubSeq(<<s>>, 1, 1) = <<s>>
      BY Tuples, SubSeqFull
    <3> QED BY <2>2, <3>1, <3>2, <3>3, Tuples DEF Remaining
  <2> QED BY <2>1, <2>2
<1>3. <<s, t>> \in Seq(S) /\ Len(<<s, t>>) = 2 /\ <<s, t>> # <<>> /\ Tail(<<s, t>>) = <<t>>
  BY Tuples
<1>4. Remaining(<<s, t>>) = IF s.todo # {} THEN <<s, t>>
                            ELSE IF t.todo # {} THEN <<t>> ELSE <<>>
  <2>1. CASE s.todo # {}
    <3>1. 1 \in more(<<s, t>>) /\ more(<<s, t>>) \subseteq {1, 2}
      BY <2>1, Tuples
    <3>2. first(<<s, t>>) = 1
      BY <3>1
    <3>3. SubSeq(<<s, t>>, 1, 2) = <<s, t>>
      BY <1>3, SubSeqFull
    <3> QED BY <2>1, <3>1, <3>2, <3>3, Tuples DEF Remaining
  <2>2. CASE s.todo = {} /\ t.todo # {}
    <3>1. more(<<s, t>>) = {2}
      BY <2>2, Tuples
    <3>2. first(<<s, t>>) = 2
      BY <3>1
    <3>3. SubSeq(<<s, t>>, 2, 2) = <<t>>
      BY <1>3, TailIsSubSeq
    <3> QED BY <2>2, <3>1, <3>2, <3>3, Tuples DEF Remaining
  <2>3. CASE s.todo = {} /\ t.todo = {}
    <3>1. more(<<s, t>>) = {}
      BY <2>3, Tuples
    <3> QED BY <2>3, <3>1 DEF Remaining
  <2> QED BY <2>1, <2>2, <2>3
<1> QED BY <1>1, <1>2, <1>4

(* What one or two sets will write and delete.                             *)
LEMMA SetsOfTwo ==
  ASSUME NEW s \in OperationSet, NEW t \in OperationSet
  PROVE  /\ TodoOf(<<>>) = {} /\ RemovalsOf(<<>>) = {}
         /\ TodoOf(<<s>>) = IF Writing(s.method) THEN s.todo ELSE {}
         /\ TodoOf(<<s, t>>) = IF Writing(s.method) THEN s.todo ELSE {}
         /\ RemovalsOf(<<s>>) = IF s.method = "DELETE" THEN s.todo ELSE {}
         /\ RemovalsOf(<<s, t>>) = (IF s.method = "DELETE" THEN s.todo ELSE {})
                                   \cup (IF t.method = "DELETE" THEN t.todo ELSE {})
<1>1. s.todo \subseteq Objects /\ t.todo \subseteq Objects
  BY DEF OperationSet
<1>2. /\ TodoOf(<<>>) = {}
      /\ TodoOf(<<s>>) = IF Writing(s.method) THEN s.todo ELSE {}
      /\ TodoOf(<<s, t>>) = IF Writing(s.method) THEN s.todo ELSE {}
  BY Tuples DEF TodoOf
<1>3. RemovalsOf(<<>>) = {}
  BY Tuples DEF RemovalsOf
<1>4. RemovalsOf(<<s>>) = IF s.method = "DELETE" THEN s.todo ELSE {}
  BY <1>1, Tuples DEF RemovalsOf
<1>5. RemovalsOf(<<s, t>>) = (IF s.method = "DELETE" THEN s.todo ELSE {})
                             \cup (IF t.method = "DELETE" THEN t.todo ELSE {})
  BY <1>1, Tuples DEF RemovalsOf
<1> QED BY <1>2, <1>3, <1>4, <1>5

(* Leaving out sets that are done changes neither.                         *)
LEMMA RemainingKeeps ==
  ASSUME NEW templates, NEW op, NEW sets, SetsInv(templates, op, sets)
  PROVE  LET r == Remaining(sets)
         IN  /\ SetsInv(templates, op, r)
             /\ TodoOf(r) = TodoOf(sets) /\ RemovalsOf(r) = RemovalsOf(sets)
             /\ r # <<>> => Head(r) = r[1] /\ r[1].todo # {}
<1>1. CASE sets = <<>>
  <2>1. PICK s \in OperationSet : TRUE
    <3>1. [method |-> "POST", todo |-> {}] \in OperationSet
      BY DEF OperationSet
    <3> QED BY <3>1
  <2> QED BY <1>1, <2>1, RemainingOfTwo
<1>2. CASE \E s \in OperationSet : sets = <<s>> /\ SetInv(templates, op, s)
  <2>1. PICK s \in OperationSet : sets = <<s>> /\ SetInv(templates, op, s)
    BY <1>2
  <2>2. Remaining(sets) = IF s.todo # {} THEN <<s>> ELSE <<>>
    BY <2>1, RemainingOfTwo
  <2>3. CASE s.todo # {}
    <3>1. Remaining(sets) = sets
      BY <2>1, <2>2, <2>3
    <3> QED BY <2>1, <2>3, <3>1, Tuples DEF SetsInv
  <2>4. CASE s.todo = {}
    <3>1. Remaining(sets) = <<>>
      BY <2>2, <2>4
    <3> QED BY <2>1, <2>4, <3>1, SetsOfTwo DEF SetsInv
  <2> QED BY <2>3, <2>4
<1>3. CASE \E s, t \in OperationSet :
             /\ sets = <<s, t>> /\ SetInv(templates, op, s) /\ SetInv(templates, op, t)
             /\ op = "clean" => s.method = "DELETE" /\ t.method = "ENSURE_DELETION"
             /\ op # "clean" => Writing(s.method) /\ t.method = "DELETE"
  <2>1. PICK s \in OperationSet, t \in OperationSet :
             /\ sets = <<s, t>> /\ SetInv(templates, op, s) /\ SetInv(templates, op, t)
             /\ op = "clean" => s.method = "DELETE" /\ t.method = "ENSURE_DELETION"
             /\ op # "clean" => Writing(s.method) /\ t.method = "DELETE"
    BY <1>3
  <2>2. Remaining(sets) = IF s.todo # {} THEN <<s, t>>
                          ELSE IF t.todo # {} THEN <<t>> ELSE <<>>
    BY <2>1, RemainingOfTwo
  <2>3. /\ TodoOf(sets) = IF Writing(s.method) THEN s.todo ELSE {}
        /\ RemovalsOf(sets) = (IF s.method = "DELETE" THEN s.todo ELSE {})
                              \cup (IF t.method = "DELETE" THEN t.todo ELSE {})
        /\ TodoOf(<<t>>) = (IF Writing(t.method) THEN t.todo ELSE {})
        /\ RemovalsOf(<<t>>) = (IF t.method = "DELETE" THEN t.todo ELSE {})
        /\ TodoOf(<<>>) = {} /\ RemovalsOf(<<>>) = {}
    BY <2>1, SetsOfTwo
  <2>4. ~Writing(t.method)
    BY <2>1 DEF Writing
  <2>5. CASE s.todo # {}
    <3>1. Remaining(sets) = sets
      BY <2>1, <2>2, <2>5
    <3> QED BY <1>3, <2>1, <2>5, <3>1, Tuples DEF SetsInv
  <2>6. CASE s.todo = {} /\ t.todo # {}
    <3>1. Remaining(sets) = <<t>>
      BY <2>2, <2>6
    <3>2. SetsInv(templates, op, <<t>>)
      BY <2>1 DEF SetsInv
    <3>3. Head(<<t>>) = t /\ <<t>>[1] = t
      BY Tuples
    <3> QED BY <2>3, <2>4, <2>6, <3>1, <3>2, <3>3
  <2>7. CASE s.todo = {} /\ t.todo = {}
    <3>1. Remaining(sets) = <<>>
      BY <2>2, <2>7
    <3> QED BY <2>3, <2>7, <3>1 DEF SetsInv
  <2> QED BY <2>5, <2>6, <2>7
<1> QED BY <1>1, <1>2, <1>3 DEF SetsInv

(* The first of the sets that are left.                                    *)
LEMMA FirstSet ==
  ASSUME NEW templates, NEW op, NEW sets, SetsInv(templates, op, sets)
  PROVE  /\ sets \in Seq(OperationSet)
         /\ sets # <<>> => sets[1] \in OperationSet /\ SetInv(templates, op, sets[1])
         /\ TodoOf(sets) = IF sets # <<>> /\ Writing(sets[1].method) THEN sets[1].todo ELSE {}
         /\ sets # <<>> /\ sets[1].method = "ENSURE_DELETION" => RemovalsOf(sets) = {}
         /\ sets # <<>> /\ sets[1].method = "DELETE" => RemovalsOf(sets) = sets[1].todo
         /\ op = "clean" => TodoOf(sets) = {}
<1>1. CASE sets = <<>>
  BY <1>1, Tuples DEF TodoOf
<1>2. CASE \E s \in OperationSet : sets = <<s>> /\ SetInv(templates, op, s)
  <2>1. PICK s \in OperationSet : sets = <<s>> /\ SetInv(templates, op, s)
    BY <1>2
  <2>2. sets \in Seq(OperationSet) /\ sets[1] = s /\ sets # <<>>
    BY <2>1, Tuples
  <2>3. RemovalsOf(sets) = IF s.method = "DELETE" THEN s.todo ELSE {}
    BY <2>1, SetsOfTwo
  <2> QED BY <2>1, <2>2, <2>3 DEF TodoOf, SetInv, Writing
<1>3. CASE \E s, t \in OperationSet :
             /\ sets = <<s, t>> /\ SetInv(templates, op, s) /\ SetInv(templates, op, t)
             /\ op = "clean" => s.method = "DELETE" /\ t.method = "ENSURE_DELETION"
             /\ op # "clean" => Writing(s.method) /\ t.method = "DELETE"
  <2>1. PICK s \in OperationSet, t \in OperationSet :
             /\ sets = <<s, t>> /\ SetInv(templates, op, s) /\ SetInv(templates, op, t)
             /\ op = "clean" => s.method = "DELETE" /\ t.method = "ENSURE_DELETION"
             /\ op # "clean" => Writing(s.method) /\ t.method = "DELETE"
    BY <1>3
  <2>2. sets \in Seq(OperationSet) /\ sets[1] = s /\ sets # <<>>
    BY <2>1, Tuples
  <2>3. RemovalsOf(sets) = (IF s.method = "DELETE" THEN s.todo ELSE {})
                           \cup (IF t.method = "DELETE" THEN t.todo ELSE {})
    BY <2>1, SetsOfTwo
  <2> QED BY <2>1, <2>2, <2>3 DEF TodoOf, Writing
<1> QED BY <1>1, <1>2, <1>3 DEF SetsInv

-----------------------------------------------------------------------------
(* The ways to go on *)

(* What Continue, Applied and Refused leave alone. *)
SameTask(x, y) == /\ y.op = x.op /\ y.grant = x.grant /\ y.alone = x.alone
                  /\ y.found = x.found /\ x.denied \subseteq y.denied

(* Going on leaves what is to do, and takes one of the next objects.       *)
LEMMA ContinueKeeps ==
  ASSUME NEW templates, NEW x \in Worker, SetsInv(templates, x.op, x.sets), NEW y \in Continue(x)
  PROVE  /\ y \in Worker /\ SameTask(x, y) /\ y.failed = x.failed /\ y.denied = x.denied
         /\ SetsInv(templates, y.op, y.sets) /\ PcInv(y)
         /\ Todo(y) = Todo(x) /\ Removals(y) = Removals(x)
         /\ y.pc \in {"callback", "POST", "PATCH", "DELETE", "ENSURE_DELETION"}
         /\ y.pc # "callback" => y.pc = y.sets[1].method
<1> DEFINE sets == Remaining(x.sets)
<1>1. /\ SetsInv(templates, x.op, sets)
      /\ TodoOf(sets) = TodoOf(x.sets) /\ RemovalsOf(sets) = RemovalsOf(x.sets)
      /\ sets # <<>> => Head(sets) = sets[1] /\ sets[1].todo # {}
  BY RemainingKeeps
<1>2. /\ sets \in Seq(OperationSet)
      /\ sets # <<>> => sets[1] \in OperationSet
  BY <1>1, FirstSet
<1>3. y \in (IF sets = <<>> THEN {[x EXCEPT !.sets = sets, !.object = NoObject, !.pc = "callback"]}
             ELSE {[x EXCEPT !.sets = sets, !.object = o, !.pc = Head(sets).method] :
                     o \in NextObjects(x.op, Head(sets).todo)})
  BY DEF Continue
<1> HIDE DEF sets
<1>4. CASE sets = <<>>
  <2>1. y = [x EXCEPT !.sets = sets, !.object = NoObject, !.pc = "callback"]
    BY <1>3, <1>4
  <2>2. /\ y \in Worker /\ SameTask(x, y) /\ y.failed = x.failed /\ y.denied = x.denied
        /\ y.sets = sets /\ y.pc = "callback"
    BY <2>1, <1>2 DEF Worker, SameTask
  <2>3. PcInv(y)
    BY <2>2, <1>4 DEF PcInv, Applying
  <2> QED BY <1>1, <2>2, <2>3 DEF Todo, Removals, SameTask
<1>5. CASE sets # <<>>
  <2>1. PICK o \in NextObjects(x.op, Head(sets).todo) :
          y = [x EXCEPT !.sets = sets, !.object = o, !.pc = Head(sets).method]
    BY <1>3, <1>5
  <2>2. Head(sets) = sets[1] /\ sets[1] \in OperationSet
    BY <1>1, <1>2, <1>5
  <2>3. /\ sets[1].method \in {"POST", "PATCH", "DELETE", "ENSURE_DELETION"}
        /\ sets[1].todo \subseteq Objects
    BY <2>2 DEF OperationSet
  <2>4. o \in Objects
    BY <2>2, <2>3 DEF NextObjects
  <2>5. /\ y \in Worker /\ SameTask(x, y) /\ y.failed = x.failed /\ y.denied = x.denied
        /\ y.sets = sets /\ y.pc = sets[1].method /\ y.object = o
    BY <2>1, <2>2, <2>3, <2>4, <1>2 DEF Worker, SameTask
  <2>6. y.object \in NextObjects(y.op, y.sets[1].todo) /\ y.sets # <<>>
    BY <2>2, <2>5, <1>5 DEF SameTask
  <2>7. PcInv(y)
    BY <2>3, <2>5, <2>6 DEF PcInv, Applying, Writing
  <2> QED BY <1>1, <2>3, <2>5, <2>7 DEF Todo, Removals, SameTask
<1> QED BY <1>4, <1>5

(* An operation set without an object, and the first of a list so.         *)
Without(s, object) == [s EXCEPT !.todo = @ \ {object}]
FirstWithout(sets, object) == [sets EXCEPT ![1] = Without(@, object)]

(* A set with fewer objects is a set of the same kind. *)
LEMMA FewerObjects ==
  ASSUME NEW templates, NEW op, NEW s, SetInv(templates, op, s), NEW object
  PROVE  LET r == Without(s, object)
         IN  /\ r \in OperationSet /\ SetInv(templates, op, r)
             /\ r.method = s.method /\ r.todo = s.todo \ {object}
<1> DEFINE r == Without(s, object)
<1>1. s \in OperationSet
  BY DEF SetInv
<1>2. r \in OperationSet /\ r.method = s.method /\ r.todo = s.todo \ {object}
  BY <1>1 DEF OperationSet, Without
<1> HIDE DEF r
<1>3. SetInv(templates, op, r)
  BY <1>2 DEF SetInv
<1> QED BY <1>2, <1>3 DEF r

(* Applying an object of the first set. *)
LEMMA FewerInFirst ==
  ASSUME NEW templates, NEW op, NEW sets, SetsInv(templates, op, sets), sets # <<>>, NEW object
  PROVE  /\ SetsInv(templates, op, FirstWithout(sets, object))
         /\ TodoOf(FirstWithout(sets, object)) = TodoOf(sets) \ {object}
         /\ RemovalsOf(FirstWithout(sets, object)) =
              IF sets[1].method = "DELETE" THEN RemovalsOf(sets) \ {object} ELSE RemovalsOf(sets)
<1>1. CASE \E s \in OperationSet : sets = <<s>> /\ SetInv(templates, op, s)
  <2>1. PICK s \in OperationSet : sets = <<s>> /\ SetInv(templates, op, s)
    BY <1>1
  <2> DEFINE q == Without(s, object)
  <2>2. /\ q \in OperationSet /\ SetInv(templates, op, q)
        /\ q.method = s.method /\ q.todo = s.todo \ {object}
    BY <2>1, FewerObjects
  <2>3. FirstWithout(sets, object) = <<q>>
    BY <2>1 DEF FirstWithout
  <2> HIDE DEF q
  <2>4. SetsInv(templates, op, <<q>>)
    BY <2>2 DEF SetsInv
  <2>5. /\ TodoOf(sets) = (IF Writing(s.method) THEN s.todo ELSE {})
        /\ RemovalsOf(sets) = (IF s.method = "DELETE" THEN s.todo ELSE {})
        /\ TodoOf(<<q>>) = (IF Writing(q.method) THEN q.todo ELSE {})
        /\ RemovalsOf(<<q>>) = (IF q.method = "DELETE" THEN q.todo ELSE {})
        /\ sets[1] = s
    BY <2>1, <2>2, SetsOfTwo, Tuples
  <2> QED BY <2>2, <2>3, <2>4, <2>5
<1>2. CASE \E s, t \in OperationSet :
             /\ sets = <<s, t>> /\ SetInv(templates, op, s) /\ SetInv(templates, op, t)
             /\ op = "clean" => s.method = "DELETE" /\ t.method = "ENSURE_DELETION"
             /\ op # "clean" => Writing(s.method) /\ t.method = "DELETE"
  <2>1. PICK s \in OperationSet, t \in OperationSet :
             /\ sets = <<s, t>> /\ SetInv(templates, op, s) /\ SetInv(templates, op, t)
             /\ op = "clean" => s.method = "DELETE" /\ t.method = "ENSURE_DELETION"
             /\ op # "clean" => Writing(s.method) /\ t.method = "DELETE"
    BY <1>2
  <2> DEFINE q == Without(s, object)
  <2>2. /\ q \in OperationSet /\ SetInv(templates, op, q)
        /\ q.method = s.method /\ q.todo = s.todo \ {object}
    BY <2>1, FewerObjects
  <2>3. FirstWithout(sets, object) = <<q, t>>
    BY <2>1 DEF FirstWithout
  <2> HIDE DEF q
  <2>4. SetsInv(templates, op, <<q, t>>)
    BY <2>1, <2>2 DEF SetsInv
  <2>5. /\ TodoOf(sets) = (IF Writing(s.method) THEN s.todo ELSE {})
        /\ RemovalsOf(sets) = (IF s.method = "DELETE" THEN s.todo ELSE {})
                              \cup (IF t.method = "DELETE" THEN t.todo ELSE {})
        /\ TodoOf(<<q, t>>) = (IF Writing(q.method) THEN q.todo ELSE {})
        /\ RemovalsOf(<<q, t>>) = (IF q.method = "DELETE" THEN q.todo ELSE {})
                                  \cup (IF t.method = "DELETE" THEN t.todo ELSE {})
        /\ sets[1] = s
    BY ZenonT(60), <2>1, <2>2, SetsOfTwo, Tuples
  <2>6. s.method = "DELETE" => t.method # "DELETE"
    BY <2>1 DEF Writing
  <2> QED BY <2>2, <2>3, <2>4, <2>5, <2>6
<1> QED BY <1>1, <1>2 DEF SetsInv

(* Giving the first set up leaves nothing to write. *)
LEMMA RestOfSets ==
  ASSUME NEW templates, NEW op, NEW sets, SetsInv(templates, op, sets), sets # <<>>
  PROVE  SetsInv(templates, op, Tail(sets)) /\ TodoOf(Tail(sets)) = {}
<1>1. CASE \E s \in OperationSet : sets = <<s>> /\ SetInv(templates, op, s)
  <2>1. PICK s \in OperationSet : sets = <<s>>
    BY <1>1
  <2>2. Tail(sets) = <<>> /\ TodoOf(<<>>) = {}
    BY <2>1, Tuples, SetsOfTwo
  <2> QED BY <2>2 DEF SetsInv
<1>2. CASE \E s, t \in OperationSet :
             /\ sets = <<s, t>> /\ SetInv(templates, op, s) /\ SetInv(templates, op, t)
             /\ op = "clean" => s.method = "DELETE" /\ t.method = "ENSURE_DELETION"
             /\ op # "clean" => Writing(s.method) /\ t.method = "DELETE"
  <2>1. PICK s \in OperationSet, t \in OperationSet :
             /\ sets = <<s, t>> /\ SetInv(templates, op, s) /\ SetInv(templates, op, t)
             /\ op = "clean" => s.method = "DELETE" /\ t.method = "ENSURE_DELETION"
             /\ op # "clean" => Writing(s.method) /\ t.method = "DELETE"
    BY <1>2
  <2>2. Tail(sets) = <<t>> /\ TodoOf(<<t>>) = IF Writing(t.method) THEN t.todo ELSE {}
    <3>1. Tail(<<s, t>>) = <<t>>
      BY Tuples
    <3> QED BY <2>1, <3>1, SetsOfTwo
  <2>3. ~Writing(t.method)
    BY <2>1 DEF Writing
  <2>4. SetsInv(templates, op, <<t>>)
    BY <2>1 DEF SetsInv
  <2> QED BY <2>2, <2>3, <2>4
<1> QED BY <1>1, <1>2 DEF SetsInv

(* An object is applied: it is off the list. *)
LEMMA AppliedKeeps ==
  ASSUME NEW templates, NEW x, WorkerInv(templates, x), x.pc \in Applying, NEW y \in Applied(x)
  PROVE  /\ WorkerInv(templates, y) /\ SameTask(x, y) /\ y.failed = x.failed
         /\ Todo(y) = Todo(x) \ {x.object}
         /\ Removals(y) = IF x.sets[1].method = "DELETE" THEN Removals(x) \ {x.object}
                          ELSE Removals(x)
         /\ y.pc \in {"callback", "POST", "PATCH", "DELETE", "ENSURE_DELETION"}
         /\ y.pc # "callback" => y.pc = y.sets[1].method
<1> DEFINE z == [x EXCEPT !.sets[1].todo = @ \ {x.object}]
           sets == FirstWithout(x.sets, x.object)
<1>1. x \in Worker /\ SetsInv(templates, x.op, x.sets) /\ PcInv(x) /\ x.sets # <<>>
      /\ (Todo(x) # {} => ~x.failed) /\ (x.pc = "sets" \/ x.op # "clean" => x.found = {})
      /\ (x.grant # "undecided" => x.op # "clean")
  BY DEF WorkerInv, PcInv
<1>2. /\ SetsInv(templates, x.op, sets) /\ TodoOf(sets) = TodoOf(x.sets) \ {x.object}
      /\ RemovalsOf(sets) = IF x.sets[1].method = "DELETE" THEN RemovalsOf(x.sets) \ {x.object}
                            ELSE RemovalsOf(x.sets)
  <2>1. SetsInv(templates, x.op, x.sets) /\ x.sets # <<>>
    BY <1>1
  <2>2. SetsInv(templates, x.op, FirstWithout(x.sets, x.object))
    BY <2>1, FewerInFirst
  <2>3. TodoOf(FirstWithout(x.sets, x.object)) = TodoOf(x.sets) \ {x.object}
    BY <2>1, FewerInFirst
  <2>4. RemovalsOf(FirstWithout(x.sets, x.object)) =
         IF x.sets[1].method = "DELETE" THEN RemovalsOf(x.sets) \ {x.object} ELSE RemovalsOf(x.sets)
    BY <2>1, FewerInFirst
  <2> QED BY <2>2, <2>3, <2>4
<1>3. sets \in Seq(OperationSet)
  BY <1>2, FirstSet
<1>4. z = [x EXCEPT !.sets = sets]
  BY <1>1 DEF Worker, FirstWithout, Without
<1>5. y \in Continue(z)
  BY DEF Applied
<1> HIDE DEF z, sets
<1>6. /\ z \in Worker /\ SameTask(x, z) /\ z.failed = x.failed /\ z.sets = sets
  BY <1>1, <1>3, <1>4 DEF Worker, SameTask
<1>7. SetsInv(templates, z.op, z.sets)
  BY <1>2, <1>6 DEF SameTask
<1>8. /\ y \in Worker /\ SameTask(z, y) /\ y.failed = z.failed
      /\ SetsInv(templates, y.op, y.sets) /\ PcInv(y)
      /\ Todo(y) = Todo(z) /\ Removals(y) = Removals(z)
      /\ y.pc \in {"callback", "POST", "PATCH", "DELETE", "ENSURE_DELETION"}
      /\ y.pc # "callback" => y.pc = y.sets[1].method
  BY <1>5, <1>6, <1>7, ContinueKeeps
<1>9. SameTask(x, y)
  BY <1>6, <1>8 DEF SameTask
<1>10. /\ Todo(y) = Todo(x) \ {x.object}
       /\ Removals(y) = IF x.sets[1].method = "DELETE" THEN Removals(x) \ {x.object}
                        ELSE Removals(x)
  BY <1>2, <1>6, <1>8 DEF Todo, Removals
<1>11. WorkerInv(templates, y)
  BY <1>1, <1>6, <1>8, <1>9, <1>10 DEF WorkerInv, SameTask
<1> QED BY <1>6, <1>8, <1>9, <1>10, <1>11

(* An object is refused: the rest of its operation set is left out. *)
LEMMA RefusedKeeps ==
  ASSUME NEW templates, NEW x, WorkerInv(templates, x), x.pc \in Applying, NEW y \in Refused(x)
  PROVE  /\ WorkerInv(templates, y) /\ SameTask(x, y) /\ y.failed = TRUE
         /\ y.pc \in {"callback", "DELETE", "ENSURE_DELETION"}
<1> DEFINE z == [x EXCEPT !.failed = TRUE, !.sets = Tail(@)]
<1>1. x \in Worker /\ SetsInv(templates, x.op, x.sets) /\ PcInv(x) /\ x.sets # <<>>
      /\ (Todo(x) # {} => ~x.failed) /\ (x.pc = "sets" \/ x.op # "clean" => x.found = {})
      /\ (x.grant # "undecided" => x.op # "clean")
  BY DEF WorkerInv, PcInv
<1>2. SetsInv(templates, x.op, Tail(x.sets)) /\ TodoOf(Tail(x.sets)) = {}
  BY <1>1, RestOfSets
<1>3. Tail(x.sets) \in Seq(OperationSet)
  BY <1>2, FirstSet
<1>4. y \in Continue(z)
  BY DEF Refused
<1>5. /\ z \in Worker /\ SameTask(x, z) /\ z.failed = TRUE /\ z.sets = Tail(x.sets)
  BY <1>1, <1>3 DEF Worker, SameTask
<1> HIDE DEF z
<1>6. SetsInv(templates, z.op, z.sets)
  BY <1>2, <1>5 DEF SameTask
<1>7. /\ y \in Worker /\ SameTask(z, y) /\ y.failed = z.failed
      /\ SetsInv(templates, y.op, y.sets) /\ PcInv(y)
      /\ Todo(y) = Todo(z)
      /\ y.pc \in {"callback", "POST", "PATCH", "DELETE", "ENSURE_DELETION"}
  BY <1>4, <1>5, <1>6, ContinueKeeps
<1>8. SameTask(x, y) /\ Todo(y) = {}
  BY <1>2, <1>5, <1>7 DEF SameTask, Todo
<1>9. WorkerInv(templates, y)
  BY <1>1, <1>7, <1>8 DEF WorkerInv, SameTask
<1>10. y.pc \notin {"POST", "PATCH"}
  BY <1>7, <1>8 DEF PcInv, Applying, Todo, TodoOf, Writing, NextObjects
<1> QED BY <1>5, <1>7, <1>8, <1>9, <1>10

(* What a worker that applies an object is about. *)
LEMMA ApplyingIs ==
  ASSUME NEW templates, NEW x, WorkerInv(templates, x)
  PROVE  /\ x.pc \in {"POST", "PATCH", "write", "conflict", "redo"} =>
              /\ x.object \in Todo(x) /\ x.object \in templates \cup {"edit"}
              /\ x.sets[1].method = Method(x.op) /\ x.sets[1].method # "DELETE"
              /\ x.op # "clean" /\ ~x.failed
              /\ \A o \in Todo(x) : SortOrder[x.object] <= SortOrder[o]
         /\ x.pc \in {"PATCH", "write"} => x.object # "project"
         /\ x.pc = "DELETE" =>
              /\ x.object \in Removals(x) /\ Todo(x) = {} /\ x.sets[1].method = "DELETE"
              /\ x.object \in AllToGetAndDelete \cup {"edit"}
         /\ x.pc = "ENSURE_DELETION" =>
              /\ x.op = "clean" /\ x.object \in AllToGetAndDelete
              /\ Todo(x) = {} /\ Removals(x) = {} /\ x.sets[1].method = "ENSURE_DELETION"
         /\ x.pc \in {"idle", "sets", "callback", "save"} => Todo(x) = {} /\ Removals(x) = {}
<1>1. x \in Worker /\ SetsInv(templates, x.op, x.sets) /\ PcInv(x) /\ (Todo(x) # {} => ~x.failed)
  BY DEF WorkerInv
<1>2. /\ x.sets # <<>> => x.sets[1] \in OperationSet /\ SetInv(templates, x.op, x.sets[1])
      /\ TodoOf(x.sets) = IF x.sets # <<>> /\ Writing(x.sets[1].method) THEN x.sets[1].todo ELSE {}
      /\ x.sets # <<>> /\ x.sets[1].method = "ENSURE_DELETION" => RemovalsOf(x.sets) = {}
      /\ x.sets # <<>> /\ x.sets[1].method = "DELETE" => RemovalsOf(x.sets) = x.sets[1].todo
      /\ x.op = "clean" => TodoOf(x.sets) = {}
  BY <1>1, FirstSet
<1>3. x.pc \in {"idle", "sets", "callback", "save"} => Todo(x) = {} /\ Removals(x) = {}
  <2>1. RemovalsOf(<<>>) = {} /\ TodoOf(<<>>) = {}
    BY Tuples DEF RemovalsOf, TodoOf
  <2> QED BY <1>1, <2>1 DEF PcInv, Todo, Removals
<1>4. x.pc \in Applying => /\ x.sets # <<>> /\ x.object \in x.sets[1].todo
                           /\ x.object \in NextObjects(x.op, x.sets[1].todo)
  BY <1>1 DEF PcInv, NextObjects
<1>5. x.pc \in {"POST", "PATCH", "write", "conflict", "redo"} =>
        x.sets # <<>> /\ Writing(x.sets[1].method) /\ x.object \in x.sets[1].todo
        /\ x.object \in NextObjects(x.op, x.sets[1].todo)
  BY <1>1, <1>4 DEF PcInv, Applying, Writing
<1>6. x.pc \in {"POST", "PATCH", "write", "conflict", "redo"} =>
        /\ x.object \in Todo(x) /\ x.object \in templates \cup {"edit"}
        /\ x.sets[1].method = Method(x.op) /\ x.sets[1].method # "DELETE"
        /\ x.op # "clean" /\ ~x.failed
        /\ \A o \in Todo(x) : SortOrder[x.object] <= SortOrder[o]
  BY <1>1, <1>2, <1>5 DEF Todo, SetInv, Writing, NextObjects
<1>7. x.pc \in {"PATCH", "write"} => x.object # "project"
  <2>1. x.pc \in {"PATCH", "write"} => x.sets[1].method = "PATCH"
    BY <1>1 DEF PcInv
  <2>2. x.pc \in {"PATCH", "write"} => x.op # "create"
    BY <1>5, <2>1, <1>2 DEF SetInv, Method, Writing
  <2> QED BY <1>2, <1>5, <2>2 DEF SetInv
<1>8. x.pc = "DELETE" =>
        /\ x.object \in Removals(x) /\ Todo(x) = {} /\ x.sets[1].method = "DELETE"
        /\ x.object \in AllToGetAndDelete \cup {"edit"}
  BY <1>1, <1>2, <1>4 DEF PcInv, Applying, Todo, Removals, SetInv, Writing
<1>9. x.pc = "ENSURE_DELETION" =>
        /\ x.op = "clean" /\ x.object \in AllToGetAndDelete
        /\ Todo(x) = {} /\ Removals(x) = {} /\ x.sets[1].method = "ENSURE_DELETION"
  BY <1>1, <1>2, <1>4 DEF PcInv, Applying, Todo, Removals, SetInv, Writing
<1> QED BY <1>3, <1>6, <1>7, <1>8, <1>9

(* What the cluster has denied is no part of the rest. *)
LEMMA DeniedKeeps ==
  ASSUME NEW templates, NEW x, WorkerInv(templates, x), NEW o \in Objects,
         NEW y, y = [x EXCEPT !.denied = @ \cup {o}]
  PROVE  /\ WorkerInv(templates, y) /\ SameTask(x, y) /\ o \in y.denied
         /\ y.failed = x.failed /\ y.pc = x.pc /\ y.sets = x.sets /\ y.object = x.object
         /\ Todo(y) = Todo(x) /\ Removals(y) = Removals(x)
<1>1. x \in Worker
  BY DEF WorkerInv
<1>2. /\ y \in Worker /\ SameTask(x, y) /\ o \in y.denied
      /\ y.failed = x.failed /\ y.pc = x.pc /\ y.sets = x.sets /\ y.object = x.object
  BY <1>1 DEF Worker, SameTask
<1>3. Todo(y) = Todo(x) /\ Removals(y) = Removals(x)
  BY <1>2 DEF Todo, Removals
<1>4. PcInv(y)
  BY <1>2 DEF WorkerInv, PcInv, SameTask
<1>5. WorkerInv(templates, y)
  BY <1>2, <1>3, <1>4 DEF WorkerInv, SameTask
<1> QED BY <1>2, <1>3, <1>5

-----------------------------------------------------------------------------
(* What a step of a goroutine does, all but the one that begins *)

(* To the objects, when x becomes y. *)
Change(x, y) ==
  \/ UNCHANGED objs
  \/ x.pc = "POST" /\ x.object = "project" /\ objs["project"] = "absent" /\ Created
  \/ /\ x.object # "project" /\ There("project") /\ ObjectIs(x.object, "good")
     /\ \/ x.pc \in {"POST", "redo"} /\ objs[x.object] = "absent"
        \/ x.pc = "write" /\ There(x.object)
  \/ /\ x.pc = "conflict" /\ y.pc = "redo" /\ y.object = x.object /\ There(x.object)
     /\ \E phase \in AfterDeletion(x.object) : ObjectIs(x.object, phase)
  \/ /\ x.pc \in {"DELETE", "ENSURE_DELETION"} /\ There(x.object)
     /\ \E phase \in AfterDeletion(x.object) : ObjectIs(x.object, phase)
  \/ x.pc = "callback" /\ ObjectIs("admin", "absent")

Creating == {"POST", "conflict", "redo"}

(* To itself. *)
Moves(x, y) ==
  /\ WorkerInv(Templates, y)
  /\ y.alone = x.alone /\ y.pc \notin {"idle", "sets"}
  /\ y.op = x.op \/ y.pc \in {"done", "dead"}
  /\ y.pc = "done" => x.pc = "save"
  /\ y.op # "create" /\ y.pc \in Creating =>
       (x.pc \in Creating /\ y.object = x.object) \/ objs[y.object] = "absent"

(* To what there is to do, when it does not fail. *)
StartsWell(x, y) ==
  x.pc = "sets" /\ Succeeding(y) =>
    /\ UNCHANGED objs
    /\ WrittenInv(y, objs) /\ RightsInv(y, objs) /\ CleanedInv(y, objs)
    /\ y.op # "clean" => Kept \subseteq Todo(y)

ListsWell(x, y) ==
  x.pc = "list" /\ Succeeding(y) =>
    /\ UNCHANGED objs /\ Succeeding(x)
    /\ y.op = "clean" /\ y.grant = "undecided"
    /\ CleanedInv(x, objs) => CleanedInv(y, objs)

GoesOnWell(x, y) ==
  x.pc \notin {"sets", "list"} /\ Succeeding(y) =>
    /\ Succeeding(x) /\ SameTask(x, y)
    /\ Todo(y) \subseteq Todo(x)
    /\ \A o \in Todo(x) : \/ o \in Todo(y) \/ objs'[o] = "good"
                         \/ o \in AllToGetAndDelete \cup {"project"}
    /\ \/ Removals(y) = Removals(x)
       \/ /\ Removals(y) = Removals(x) \ {x.object}
          /\ objs'[x.object] \notin {"stale", "good"} \/ x.object \in y.denied
    /\ type = "user" /\ y.op = "create" /\ y.pc = "save" =>
         objs'["admin"] = "absent" \/ "admin" \in y.denied

FaultsCount == \/ faults' = faults
               \/ faults' \in 0 .. MaxFaults /\ faults' # MaxFaults /\ faults' # faults

WStep(w, y) ==
  /\ WorkerIs(w, y) /\ UNCHANGED env /\ Busy(w)
  /\ Moves(worker[w], y) /\ Change(worker[w], y)
  /\ StartsWell(worker[w], y) /\ ListsWell(worker[w], y) /\ GoesOnWell(worker[w], y)
  /\ y.pc \in {"conflict", "redo"} => There("project")
  /\ FaultsCount
  /\ row' = row \/ (worker[w].pc = "save" /\ y.pc = "done" /\ row' = Outcome(w))
  /\ worker[w].pc = "redo" /\ faults' = faults /\ objs[worker[w].object] = "absent" =>
       objs'[worker[w].object] = "good"

(* A fault counts.                                                         *)
LEMMA FaultCounts ==
  ASSUME TypeOK, NEW kind, Fault(kind) \/ NoFault
  PROVE  /\ FaultsCount
         /\ Fault(kind) => faults' # faults
BY ConstantsAssumption DEF TypeOK, Fault, NoFault, FaultsCount

(* What it does when an object is applied or refused. *)
LEMMA AppliedMoves ==
  ASSUME NEW x, WorkerInv(Templates, x), x.pc \in Applying, NEW y \in Applied(x)
  PROVE  Moves(x, y) /\ y.pc \notin {"conflict", "redo", "save", "done"}
<1>1. /\ WorkerInv(Templates, y) /\ SameTask(x, y)
      /\ y.pc \in {"callback", "POST", "PATCH", "DELETE", "ENSURE_DELETION"}
      /\ y.pc # "callback" => y.pc = y.sets[1].method
  BY AppliedKeeps
<1>2. y.pc = "POST" => y.sets[1].method = Method(y.op)
  BY <1>1, ApplyingIs
<1>3. y.pc = "POST" => y.op = "create"
  BY <1>1, <1>2 DEF Method
<1> QED BY <1>1, <1>3 DEF Moves, SameTask, Creating

LEMMA RefusedMoves ==
  ASSUME NEW x, WorkerInv(Templates, x), x.pc \in Applying, NEW y \in Refused(x)
  PROVE  Moves(x, y) /\ y.pc \notin {"conflict", "redo", "save", "done"} /\ ~Succeeding(y)
<1>1. /\ WorkerInv(Templates, y) /\ SameTask(x, y) /\ y.failed = TRUE
      /\ y.pc \in {"callback", "DELETE", "ENSURE_DELETION"}
  BY RefusedKeeps
<1> QED BY <1>1 DEF Moves, SameTask, Creating, Succeeding

LEMMA AppliedIsWStep ==
  ASSUME NInv, NEW w \in Workers, worker[w].pc \in Applying,
         NEW z, z = worker[w] \/ (z = Denied(w, worker[w].object) /\ worker[w].object \in Objects),
         NEW y \in Applied(z), WorkerIs(w, y), UNCHANGED <<env, row>>, FaultsCount,
         Change(worker[w], y),
         worker[w].pc \in {"POST", "redo", "write"} =>
           \/ objs'[worker[w].object] = "good"
           \/ worker[w].object \in AllToGetAndDelete \cup {"project"},
         worker[w].pc = "redo" => objs'[worker[w].object] = "good",
         worker[w].pc \in {"POST", "redo", "write", "DELETE", "ENSURE_DELETION"},
         worker[w].pc = "DELETE" => \/ objs'[worker[w].object] \notin {"stale", "good"}
                                   \/ worker[w].object \in z.denied
  PROVE  WStep(w, y)
<1> DEFINE x == worker[w]
<1>1. WorkerInv(Templates, x) /\ x \in Worker
  BY DEF NInv, WorkerInv
<1>2. /\ WorkerInv(Templates, z) /\ SameTask(x, z)
      /\ z.failed = x.failed /\ z.pc = x.pc /\ z.sets = x.sets /\ z.object = x.object
      /\ Todo(z) = Todo(x) /\ Removals(z) = Removals(x)
  <2>1. CASE z = x
    BY <1>1, <2>1 DEF SameTask
  <2>2. CASE z = Denied(w, x.object) /\ x.object \in Objects
    <3>1. z = [x EXCEPT !.denied = @ \cup {x.object}]
      BY <2>2 DEF Denied
    <3> QED BY <1>1, <2>2, <3>1, DeniedKeeps
  <2> QED BY <2>1, <2>2
<1>3. Moves(z, y) /\ y.pc \notin {"conflict", "redo", "save", "done"}
  BY <1>2, AppliedMoves
<1>4. Moves(x, y)
  BY <1>2, <1>3 DEF Moves, SameTask
<1>5. /\ SameTask(z, y) /\ y.failed = z.failed
      /\ Todo(y) = Todo(z) \ {z.object}
      /\ Removals(y) = IF z.sets[1].method = "DELETE" THEN Removals(z) \ {z.object} ELSE Removals(z)
  BY <1>2, AppliedKeeps
<1>6. /\ SameTask(x, y) /\ y.failed = x.failed
      /\ Todo(y) = Todo(x) \ {x.object}
      /\ Removals(y) = IF x.sets[1].method = "DELETE" THEN Removals(x) \ {x.object} ELSE Removals(x)
      /\ z.denied \subseteq y.denied
  BY <1>2, <1>5 DEF SameTask
<1>7. Busy(w) /\ x.pc \notin {"sets", "list"}
  BY DEF Busy, Applying
<1>8. StartsWell(x, y) /\ ListsWell(x, y)
  BY <1>7 DEF StartsWell, ListsWell
<1>9. GoesOnWell(x, y)
  <2>1. Succeeding(y) => Succeeding(x)
    BY <1>6 DEF Succeeding, Applying
  <2>2. x.pc \in {"POST", "redo", "write"} => x.sets[1].method # "DELETE"
    BY <1>1, ApplyingIs
  <2>3. x.pc \in {"DELETE", "ENSURE_DELETION"} => Todo(x) = {}
    BY <1>1, ApplyingIs
  <2>4. x.pc = "ENSURE_DELETION" => x.sets[1].method # "DELETE"
    BY <1>1, ApplyingIs
  <2>5. \A o \in Todo(x) : o \in Todo(y) \/ objs'[o] = "good"
                           \/ o \in AllToGetAndDelete \cup {"project"}
    BY <1>6, <2>3
  <2>6. \/ Removals(y) = Removals(x)
        \/ /\ Removals(y) = Removals(x) \ {x.object}
           /\ objs'[x.object] \notin {"stale", "good"} \/ x.object \in y.denied
    BY <1>6, <2>2, <2>4
  <2> QED BY <1>3, <1>6, <2>1, <2>5, <2>6 DEF GoesOnWell
<1> QED BY <1>3, <1>4, <1>7, <1>8, <1>9 DEF WStep

LEMMA RefusedIsWStep ==
  ASSUME NInv, NEW w \in Workers, worker[w].pc \in Applying,
         NEW y \in Refused(worker[w]), WorkerIs(w, y), UNCHANGED <<env, row>>, FaultsCount,
         Change(worker[w], y),
         worker[w].pc = "redo" => faults' # faults \/ objs[worker[w].object] # "absent"
  PROVE  WStep(w, y)
<1>1. WorkerInv(Templates, worker[w])
  BY DEF NInv
<1>2. Moves(worker[w], y) /\ y.pc \notin {"conflict", "redo", "save", "done"} /\ ~Succeeding(y)
  BY <1>1, RefusedMoves
<1>3. Busy(w)
  BY DEF Busy, Applying
<1> QED BY <1>2, <1>3 DEF WStep, StartsWell, ListsWell, GoesOnWell

(* Going elsewhere with the same to do.                                    *)
LEMMA GotoKeeps ==
  ASSUME NEW templates, NEW x, WorkerInv(templates, x),
         NEW pc \in {"POST", "write", "conflict", "redo", "save"},
         NEW y, y = [x EXCEPT !.pc = pc], PcInv(y)
  PROVE  /\ WorkerInv(templates, y) /\ SameTask(x, y) /\ y.failed = x.failed
         /\ y.pc = pc /\ y.sets = x.sets /\ y.object = x.object
         /\ Todo(y) = Todo(x) /\ Removals(y) = Removals(x)
<1>1. x \in Worker
  BY DEF WorkerInv
<1>2. /\ y \in Worker /\ SameTask(x, y) /\ y.failed = x.failed
      /\ y.pc = pc /\ y.sets = x.sets /\ y.object = x.object
  BY <1>1 DEF Worker, SameTask
<1>3. Todo(y) = Todo(x) /\ Removals(y) = Removals(x)
  BY <1>2 DEF Todo, Removals
<1>4. WorkerInv(templates, y)
  BY <1>2, <1>3 DEF WorkerInv, SameTask
<1> QED BY <1>2, <1>3, <1>4

LEMMA GotoPc ==
  ASSUME NEW templates, NEW x, WorkerInv(templates, x),
         NEW pc \in {"POST", "write", "conflict", "redo", "save"},
         NEW y, y = [x EXCEPT !.pc = pc],
         \/ pc = "save" /\ x.pc = "callback"
         \/ pc = "write" /\ x.pc = "PATCH"
         \/ pc = "POST" /\ x.pc = "PATCH"
         \/ pc = "conflict" /\ x.pc = "POST" /\ x.object # "project"
         \/ pc = "redo" /\ x.pc = "conflict"
  PROVE  PcInv(y)
<1>1. x \in Worker /\ PcInv(x)
  BY DEF WorkerInv
<1>2. /\ y.failed = x.failed /\ y.pc = pc /\ y.sets = x.sets /\ y.object = x.object
      /\ y.op = x.op
  BY <1>1 DEF Worker
<1>4. CASE pc = "save" /\ x.pc = "callback"
  BY <1>1, <1>2, <1>4 DEF PcInv, Applying
<1>5. CASE pc = "write" /\ x.pc = "PATCH"
  BY <1>1, <1>2, <1>5 DEF PcInv, Applying
<1>6. CASE pc = "POST" /\ x.pc = "PATCH"
  BY <1>1, <1>2, <1>6 DEF PcInv, Applying, Writing
<1>7. CASE pc = "conflict" /\ x.pc = "POST" /\ x.object # "project"
  BY <1>1, <1>2, <1>7 DEF PcInv, Applying, Writing
<1>8. CASE pc = "redo" /\ x.pc = "conflict"
  BY <1>1, <1>2, <1>8 DEF PcInv, Applying
<1> QED BY <1>4, <1>5, <1>6, <1>7, <1>8

(* A step that goes elsewhere. *)
LEMMA GotoIsWStep ==
  ASSUME NInv, NEW w \in Workers,
         NEW pc \in {"POST", "write", "conflict", "redo", "save"},
         NEW y, y = [worker[w] EXCEPT !.pc = pc], WorkerIs(w, y),
         Busy(w), UNCHANGED env, FaultsCount, Change(worker[w], y),
         \/ pc = "save" /\ worker[w].pc = "callback" /\ row' = row
            /\ (type = "user" /\ worker[w].op = "create" => objs'["admin"] = "absent")
         \/ pc = "write" /\ worker[w].pc = "PATCH" /\ UNCHANGED <<objs, row>>
         \/ pc = "POST" /\ worker[w].pc = "PATCH" /\ UNCHANGED <<objs, row>>
            /\ objs[worker[w].object] = "absent"
         \/ pc = "conflict" /\ worker[w].pc = "POST" /\ worker[w].object # "project"
            /\ There("project") /\ UNCHANGED <<objs, row>>
         \/ pc = "redo" /\ worker[w].pc = "conflict" /\ row' = row
  PROVE  WStep(w, y)
<1> DEFINE x == worker[w]
<1>1. WorkerInv(Templates, x) /\ (x.pc \in {"conflict", "redo"} => There("project"))
  BY DEF NInv, ObjsInv
<1>2. PcInv(y)
  BY <1>1, GotoPc
<1>3. /\ WorkerInv(Templates, y) /\ SameTask(x, y) /\ y.failed = x.failed
      /\ y.pc = pc /\ y.sets = x.sets /\ y.object = x.object
      /\ Todo(y) = Todo(x) /\ Removals(y) = Removals(x)
  BY <1>1, <1>2, GotoKeeps
<1>4. Moves(x, y)
  BY <1>3 DEF Moves, SameTask, Creating
<1>5. StartsWell(x, y) /\ ListsWell(x, y)
  BY <1>3 DEF StartsWell, ListsWell, Succeeding
<1>6. GoesOnWell(x, y)
  <2>1. Succeeding(y) => Succeeding(x)
    BY <1>3 DEF Succeeding, Busy
  <2>2. type = "user" /\ y.op = "create" /\ y.pc = "save" => objs'["admin"] = "absent"
    BY <1>3 DEF SameTask
  <2> QED BY <1>3, <2>1, <2>2 DEF GoesOnWell
<1>7. y.pc \in {"conflict", "redo"} => There("project")
  BY <1>1, <1>3
<1>8. row' = row
  OBVIOUS
<1>9. x.pc # "redo"
  OBVIOUS
<1> QED BY <1>4, <1>5, <1>6, <1>7, <1>8, <1>9 DEF WStep

(* A worker that has not begun.                                            *)
LEMMA IdleIs ==
  /\ Idle \in Worker /\ Idle.pc = "idle" /\ Idle.sets = <<>> /\ Idle.alone = TRUE
  /\ Idle.failed = FALSE /\ Idle.grant = "undecided" /\ Idle.found = {}
<1>1. <<>> \in Seq(OperationSet)
  BY Tuples
<1> QED BY <1>1 DEF Idle, Worker, Ops

(* A step that is the last one. *)
LEMMA OverIsWStep ==
  ASSUME NInv, NEW w \in Workers, NEW pc \in {"done", "dead"}, Over(w, pc),
         Busy(w), UNCHANGED env, UNCHANGED objs, FaultsCount,
         \/ pc = "dead" /\ row' = row /\ faults' # faults
         \/ pc = "done" /\ worker[w].pc = "save" /\ (row' = row \/ row' = Outcome(w))
  PROVE  \E y : WStep(w, y)
<1> DEFINE x == worker[w]
           y == [Idle EXCEPT !.pc = pc, !.alone = x.alone]
<1>1. WorkerIs(w, y)
  BY DEF Over
<1>2. x \in Worker
  BY DEF NInv, WorkerInv
<1>3. /\ y \in Worker /\ y.pc = pc /\ y.sets = <<>> /\ y.alone = x.alone
      /\ y.failed = FALSE /\ y.grant = "undecided" /\ y.found = {}
  BY <1>2, IdleIs DEF Worker
<1> HIDE DEF y
<1>4. Todo(y) = {}
  BY <1>3 DEF Todo, TodoOf
<1>5. WorkerInv(Templates, y)
  BY <1>3, <1>4 DEF WorkerInv, SetsInv, PcInv, Applying
<1>6. Moves(x, y)
  BY <1>3, <1>5 DEF Moves, Creating
<1>7. StartsWell(x, y) /\ ListsWell(x, y) /\ GoesOnWell(x, y)
  BY <1>3 DEF StartsWell, ListsWell, GoesOnWell, Succeeding
<1>8. Change(x, y)
  BY DEF Change
<1>9. WStep(w, y)
  BY <1>1, <1>3, <1>6, <1>7, <1>8 DEF WStep
<1> QED BY <1>9

-----------------------------------------------------------------------------
(* One lemma for each action of a goroutine *)

(* An object of an operation set is an object.                             *)
LEMMA ObjectIsObject ==
  ASSUME NInv, NEW w \in Workers, worker[w].pc \in Applying
  PROVE  worker[w].object \in Objects
<1> DEFINE x == worker[w]
<1>1. WorkerInv(Templates, x)
  BY DEF NInv
<1>2. PcInv(x) /\ SetsInv(Templates, x.op, x.sets) /\ x.sets # <<>>
      /\ x.object \in x.sets[1].todo
  BY <1>1 DEF WorkerInv, PcInv, NextObjects
<1>3. x.sets[1] \in OperationSet
  BY <1>2, FirstSet
<1> QED BY <1>2, <1>3 DEF OperationSet

LEMMA GoodIsGood ==
  ASSUME TypeOK, NEW o \in Objects, NEW phase, ObjectIs(o, phase)
  PROVE  objs'[o] = phase
BY DEF TypeOK, ObjectIs

(* A request that is refused, or whose answer is lost.                     *)
LEMMA RefusedRequest ==
  ASSUME NInv, NEW w \in Workers, worker[w].pc \in Applying, Error(w), UNCHANGED <<env, row>>,
         NEW kind, Fault(kind) \/ NoFault,
         worker[w].pc = "redo" => Fault(kind) \/ objs[worker[w].object] # "absent",
         \A y : Change(worker[w], y)
  PROVE  \E y : WStep(w, y)
<1>1. PICK y \in Refused(worker[w]) : WorkerIs(w, y)
  BY DEF Error
<1>2. FaultsCount /\ (worker[w].pc = "redo" => faults' # faults \/ objs[worker[w].object] # "absent")
  BY FaultCounts DEF NInv
<1> QED BY <1>1, <1>2, RefusedIsWStep

LEMMA PostProjectStep ==
  ASSUME NInv, NEW w \in Workers, PostProject(w)
  PROVE  \E y : WStep(w, y)
<1> DEFINE x == worker[w]
<1>1. x.pc = "POST" /\ x.object = "project" /\ x.pc \in Applying
  BY DEF PostProject, At, Applying
<1>2. UNCHANGED <<env, row>>
  BY DEF PostProject
<1>3. CASE objs["project"] = "absent" /\ Created /\ Ok(w) /\ NoFault
  <2>1. PICK y \in Applied(x) : WorkerIs(w, y)
    BY <1>3 DEF Ok
  <2>2. Change(x, y)
    BY <1>1, <1>3 DEF Change
  <2>3. FaultsCount
    BY <1>3, FaultCounts DEF NInv
  <2> QED BY <1>1, <1>2, <2>1, <2>2, <2>3, AppliedIsWStep
<1>4. CASE objs["project"] # "absent" /\ UNCHANGED objs /\ Error(w) /\ NoFault
  <2>1. \A y : Change(x, y)
    BY <1>4 DEF Change
  <2> QED BY <1>1, <1>2, <1>4, <2>1, RefusedRequest
<1>5. CASE Fault("os") /\ Error(w) /\ (UNCHANGED objs \/ (objs["project"] = "absent" /\ Created))
  <2>1. \A y : Change(x, y)
    BY <1>1, <1>5 DEF Change
  <2> QED BY <1>1, <1>2, <1>5, <2>1, RefusedRequest
<1> QED BY <1>3, <1>4, <1>5 DEF PostProject

(* A request that makes an object good, or makes it go.                    *)
LEMMA RequestedStep ==
  ASSUME NInv, NEW w \in Workers, NEW phase, Requested(w, phase), UNCHANGED <<env, row>>,
         worker[w].pc \in {"POST", "redo", "write", "DELETE", "ENSURE_DELETION"},
         \A y : ObjectIs(worker[w].object, phase) => Change(worker[w], y),
         worker[w].pc \in {"POST", "redo", "write"} =>
           phase = "good" \/ worker[w].object \in AllToGetAndDelete \cup {"project"},
         worker[w].pc = "redo" => phase = "good",
         worker[w].pc = "DELETE" => phase \notin {"stale", "good"}
  PROVE  \E y : WStep(w, y)
<1> DEFINE x == worker[w]
<1>1. WorkerInv(Templates, x) /\ TypeOK /\ x.pc \in Applying
  BY DEF NInv, Applying
<1>2. x.object \in Objects
  <2>1. PcInv(x) /\ SetsInv(Templates, x.op, x.sets) /\ x.sets # <<>>
        /\ x.object \in x.sets[1].todo
    BY <1>1 DEF WorkerInv, PcInv, NextObjects
  <2>2. x.sets[1] \in OperationSet
    BY <2>1, FirstSet
  <2> QED BY <2>1, <2>2 DEF OperationSet
<1>3. CASE ObjectIs(x.object, phase) /\ Ok(w) /\ NoFault
  <2>1. PICK y \in Applied(x) : WorkerIs(w, y)
    BY <1>3 DEF Ok
  <2>2. objs'[x.object] = phase
    BY <1>1, <1>2, <1>3, GoodIsGood
  <2>3. FaultsCount
    BY <1>1, <1>3, FaultCounts
  <2> QED BY <1>1, <1>3, <2>1, <2>2, <2>3, AppliedIsWStep
<1>4. CASE Fault("os") /\ Error(w) /\ (UNCHANGED objs \/ ObjectIs(x.object, phase))
  <2>1. \A y : Change(x, y)
    BY <1>4 DEF Change
  <2> QED BY <1>1, <1>4, <2>1, RefusedRequest
<1> QED BY <1>3, <1>4 DEF Requested

LEMMA PostObjectStep ==
  ASSUME NInv, NEW w \in Workers, PostObject(w)
  PROVE  \E y : WStep(w, y)
<1> DEFINE x == worker[w]
<1>1. x.pc = "POST" /\ x.object # "project" /\ x.pc \in Applying /\ UNCHANGED <<env, row>>
  BY DEF PostObject, At, Applying
<1>2. CASE There("project") /\ objs[x.object] = "absent" /\ Requested(w, "good")
  <2>1. \A y : ObjectIs(x.object, "good") => Change(x, y)
    BY <1>1, <1>2 DEF Change
  <2> QED BY <1>1, <1>2, <2>1, RequestedStep
<1>3. CASE /\ There("project") /\ objs[x.object] # "absent"
           /\ Goto(w, "conflict") /\ NoFault /\ UNCHANGED objs
  <2> DEFINE y == [x EXCEPT !.pc = "conflict"]
  <2>1. WorkerIs(w, y)
    BY <1>3 DEF Goto
  <2>2. Change(x, y)
    BY <1>3 DEF Change
  <2>3. FaultsCount /\ Busy(w) /\ UNCHANGED env /\ UNCHANGED <<objs, row>>
    BY <1>1, <1>3, FaultCounts DEF NInv, Busy
  <2> QED BY <1>1, <1>3, <2>1, <2>2, <2>3, GotoIsWStep
<1>4. CASE objs["project"] = "absent" /\ Error(w) /\ NoFault /\ UNCHANGED objs
  <2>1. \A y : Change(x, y)
    BY <1>4 DEF Change
  <2> QED BY <1>1, <1>4, <2>1, RefusedRequest
<1> QED BY <1>2, <1>3, <1>4 DEF PostObject

LEMMA DeleteAndRedoStep ==
  ASSUME NInv, NEW w \in Workers, DeleteAndRedo(w)
  PROVE  \E y : WStep(w, y)
<1> DEFINE x == worker[w]
<1>1. x.pc = "conflict" /\ x.pc \in Applying /\ UNCHANGED <<env, row>> /\ x \in Worker
  BY DEF DeleteAndRedo, At, Applying, NInv, WorkerInv
<1>2. CASE /\ There(x.object)
           /\ \E phase \in AfterDeletion(x.object) : ObjectIs(x.object, phase)
           /\ Goto(w, "redo") /\ NoFault
  <2> DEFINE y == [x EXCEPT !.pc = "redo"]
  <2>1. WorkerIs(w, y)
    BY <1>2 DEF Goto
  <2>2. y.pc = "redo" /\ y.object = x.object
    BY <1>1 DEF Worker
  <2>3. Change(x, y)
    BY <1>1, <1>2, <2>2 DEF Change
  <2>4. FaultsCount /\ Busy(w) /\ UNCHANGED env /\ row' = row
    BY <1>1, <1>2, FaultCounts DEF NInv, Busy
  <2> QED BY <1>1, <1>2, <2>1, <2>3, <2>4, GotoIsWStep
<1>3. CASE UNCHANGED objs /\ Error(w) /\ (NoFault \/ Fault("os"))
  <2>1. \A y : Change(x, y)
    BY <1>3 DEF Change
  <2> QED BY <1>1, <1>3, <2>1, RefusedRequest
<1> QED BY <1>2, <1>3 DEF DeleteAndRedo

LEMMA RedoStep ==
  ASSUME NInv, NEW w \in Workers, Redo(w)
  PROVE  \E y : WStep(w, y)
<1> DEFINE x == worker[w]
<1>1. x.pc = "redo" /\ x.pc \in Applying /\ UNCHANGED <<env, row>>
  BY DEF Redo, At, Applying
<1>2. There("project") /\ x.object # "project"
  BY <1>1 DEF NInv, ObjsInv, WorkerInv, PcInv
<1>3. CASE objs[x.object] = "absent" /\ Requested(w, "good")
  <2>1. \A y : ObjectIs(x.object, "good") => Change(x, y)
    BY <1>1, <1>2, <1>3 DEF Change
  <2> QED BY <1>1, <1>3, <2>1, RequestedStep
<1>4. CASE objs[x.object] # "absent" /\ UNCHANGED objs /\ Error(w) /\ NoFault
  <2>1. \A y : Change(x, y)
    BY <1>4 DEF Change
  <2> QED BY <1>1, <1>4, <2>1, RefusedRequest
<1> QED BY <1>3, <1>4 DEF Redo

LEMMA GetForPatchStep ==
  ASSUME NInv, NEW w \in Workers, GetForPatch(w)
  PROVE  \E y : WStep(w, y)
<1> DEFINE x == worker[w]
<1>1. x.pc = "PATCH" /\ x.pc \in Applying /\ UNCHANGED <<env, row>> /\ UNCHANGED objs
      /\ UNCHANGED env /\ UNCHANGED <<objs, row>> /\ Busy(w)
  BY DEF GetForPatch, At, Applying, Busy
<1>2. \A y : Change(x, y)
  BY <1>1 DEF Change
<1>3. CASE objs[x.object] = "absent" /\ Goto(w, "POST") /\ NoFault
  <2> DEFINE y == [x EXCEPT !.pc = "POST"]
  <2>1. WorkerIs(w, y)
    BY <1>3 DEF Goto
  <2>2. FaultsCount
    BY <1>3, FaultCounts DEF NInv
  <2> QED BY <1>1, <1>2, <1>3, <2>1, <2>2, GotoIsWStep
<1>4. CASE Goto(w, "write") /\ NoFault
  <2> DEFINE y == [x EXCEPT !.pc = "write"]
  <2>1. WorkerIs(w, y)
    BY <1>4 DEF Goto
  <2>2. FaultsCount
    BY <1>4, FaultCounts DEF NInv
  <2> QED BY <1>1, <1>2, <2>1, <2>2, GotoIsWStep
<1>5. CASE Error(w) /\ (NoFault \/ Fault("os"))
  BY <1>1, <1>2, <1>5, RefusedRequest
<1> QED BY <1>3, <1>4, <1>5 DEF GetForPatch

LEMMA PatchObjectStep ==
  ASSUME NInv, NEW w \in Workers, PatchObject(w)
  PROVE  \E y : WStep(w, y)
<1> DEFINE x == worker[w]
<1>1. x.pc = "write" /\ x.pc \in Applying /\ UNCHANGED <<env, row>>
  BY DEF PatchObject, At, Applying
<1>2. WorkerInv(Templates, x) /\ TypeOK /\ ObjsInv
  BY DEF NInv
<1>3. x.object # "project" /\ x.object \in Objects
  <2>1. x.object \in Templates \cup {"edit"} /\ x.object # "project"
    BY <1>1, <1>2, ApplyingIs
  <2> QED BY <2>1, <1>2, TemplatesAre, ObjectsAre DEF TypeOK
<1>4. CASE There(x.object) /\ Requested(w, "good")
  <2>1. There("project")
    BY <1>2, <1>3, <1>4 DEF ObjsInv, There
  <2>2. \A y : ObjectIs(x.object, "good") => Change(x, y)
    BY <1>1, <1>3, <1>4, <2>1 DEF Change
  <2> QED BY <1>1, <1>4, <2>2, RequestedStep
<1>5. CASE objs[x.object] = "terminating" /\ Requested(w, "terminating")
  <2>1. x.object \in AllToGetAndDelete
    BY <1>2, <1>3, <1>5 DEF ObjsInv
  <2>2. \A y : ObjectIs(x.object, "terminating") => Change(x, y)
    <3>1. ObjectIs(x.object, "terminating") => objs' = objs
      BY <1>2, <1>3, <1>5 DEF ObjectIs, TypeOK
    <3> QED BY <3>1 DEF Change
  <2> QED BY <1>1, <1>5, <2>1, <2>2, RequestedStep
<1>6. CASE objs[x.object] = "absent" /\ UNCHANGED objs /\ Error(w) /\ NoFault
  <2>1. \A y : Change(x, y)
    BY <1>6 DEF Change
  <2> QED BY <1>1, <1>6, <2>1, RefusedRequest
<1> QED BY <1>4, <1>5, <1>6 DEF PatchObject

LEMMA DeleteObjectStep ==
  ASSUME NInv, NEW w \in Workers, DeleteObject(w)
  PROVE  \E y : WStep(w, y)
<1> DEFINE x == worker[w]
           nothing == x.object = "claim" /\ At(w, "ENSURE_DELETION")
<1>1. x.pc \in {"DELETE", "ENSURE_DELETION"} /\ x.pc \in Applying /\ UNCHANGED <<env, row>>
  BY DEF DeleteObject, At, Applying
<1>2. CASE (nothing \/ ~There(x.object)) /\ UNCHANGED objs /\ Ok(w) /\ NoFault
  <2>1. PICK y \in Applied(x) : WorkerIs(w, y)
    BY <1>2 DEF Ok
  <2>2. Change(x, y)
    BY <1>2 DEF Change
  <2>3. FaultsCount
    BY <1>2, FaultCounts DEF NInv
  <2>4. x.pc = "DELETE" => objs'[x.object] \notin {"stale", "good"}
    BY <1>2 DEF There, At
  <2> QED BY <1>1, <2>1, <2>2, <2>3, <2>4, AppliedIsWStep
<1>3. CASE UNCHANGED objs /\ Error(w) /\ Fault("os")
  <2>1. \A y : Change(x, y)
    BY <1>3 DEF Change
  <2> QED BY <1>1, <1>3, <2>1, RefusedRequest
<1>4. CASE There(x.object) /\ \E phase \in AfterDeletion(x.object) : Requested(w, phase)
  <2>1. PICK phase \in AfterDeletion(x.object) : Requested(w, phase)
    BY <1>4
  <2>2. phase \in {"absent", "terminating"}
    BY DEF AfterDeletion
  <2>3. \A y : ObjectIs(x.object, phase) => Change(x, y)
    BY <1>1, <1>4 DEF Change
  <2> QED BY <1>1, <2>1, <2>2, <2>3, RequestedStep
<1>5. CASE /\ UNCHANGED objs /\ Fault("forbidden")
           /\ \E y \in Applied(Denied(w, x.object)) : WorkerIs(w, y)
  <2> DEFINE z == Denied(w, x.object)
  <2>1. PICK y \in Applied(z) : WorkerIs(w, y)
    BY <1>5
  <2>2. x.object \in Objects /\ x \in Worker
    BY <1>1, ObjectIsObject DEF NInv, WorkerInv
  <2>3. x.object \in z.denied
    BY <2>2 DEF Denied, Worker
  <2>4. Change(x, y) /\ FaultsCount
    BY <1>5, FaultCounts DEF Change, NInv
  <2> HIDE DEF z
  <2>5. z = x \/ (z = Denied(w, x.object) /\ x.object \in Objects)
    BY <2>2 DEF z
  <2> QED BY <1>1, <2>1, <2>3, <2>4, <2>5, AppliedIsWStep
<1> QED BY <1>2, <1>3, <1>4, <1>5 DEF DeleteObject

LEMMA AfterCallbackStep ==
  ASSUME NInv, NEW w \in Workers, AfterCallback(w)
  PROVE  \E y : WStep(w, y)
<1> DEFINE x == worker[w]
<1>1. x.pc = "callback" /\ UNCHANGED <<env, row>> /\ UNCHANGED env /\ row' = row /\ Busy(w)
      /\ WorkerInv(Templates, x) /\ x \in Worker /\ TypeOK
  BY DEF AfterCallback, At, Busy, NInv, WorkerInv
<1>2. UNCHANGED objs \/ ObjectIs("admin", "absent")
  BY DEF AfterCallback
<1>3. \A y : Change(x, y)
  BY <1>1, <1>2 DEF Change
<1>4. "admin" \in Objects
  BY ObjectsAre
<1>5. CASE Goto(w, "save") /\ NoFault /\ (HasCallback(w) => ObjectIs("admin", "absent"))
  <2> DEFINE y == [x EXCEPT !.pc = "save"]
  <2>1. WorkerIs(w, y)
    BY <1>5 DEF Goto
  <2>2. FaultsCount
    BY <1>1, <1>5, FaultCounts
  <2>3. type = "user" /\ x.op = "create" => objs'["admin"] = "absent"
    BY <1>1, <1>4, <1>5, GoodIsGood DEF HasCallback
  <2> QED BY <1>1, <1>3, <2>1, <2>2, <2>3, GotoIsWStep
<1>6. CASE /\ HasCallback(w) /\ Fault("os")
           /\ WorkerIs(w, [worker[w] EXCEPT !.pc = "save", !.failed = TRUE])
  <2> DEFINE y == [x EXCEPT !.pc = "save", !.failed = TRUE]
  <2>1. /\ y \in Worker /\ SameTask(x, y) /\ y.failed = TRUE
        /\ y.pc = "save" /\ y.sets = x.sets /\ y.object = x.object
    BY <1>1 DEF Worker, SameTask
  <2>2. FaultsCount /\ WorkerIs(w, y)
    BY <1>1, <1>6, FaultCounts
  <2> HIDE DEF y
  <2>3. Todo(x) = {} /\ Todo(y) = Todo(x)
    BY <1>1, <2>1, ApplyingIs DEF Todo
  <2>4. PcInv(y)
    BY <1>1, <2>1 DEF WorkerInv, PcInv, Applying
  <2>5. WorkerInv(Templates, y)
    BY <1>1, <2>1, <2>3, <2>4 DEF WorkerInv, SameTask
  <2>6. Moves(x, y)
    BY <2>1, <2>5 DEF Moves, SameTask, Creating
  <2>7. StartsWell(x, y) /\ ListsWell(x, y) /\ GoesOnWell(x, y)
    BY <2>1 DEF StartsWell, ListsWell, GoesOnWell, Succeeding
  <2> QED BY <1>1, <1>3, <2>1, <2>2, <2>6, <2>7 DEF WStep
<1>7. CASE /\ UNCHANGED objs /\ Fault("forbidden")
           /\ WorkerIs(w, [Denied(w, "admin") EXCEPT !.pc = "save"])
  <2> DEFINE z == [x EXCEPT !.denied = @ \cup {"admin"}]
             y == [z EXCEPT !.pc = "save"]
  <2>1. /\ WorkerInv(Templates, z) /\ SameTask(x, z) /\ "admin" \in z.denied
        /\ z.failed = x.failed /\ z.pc = x.pc /\ z.sets = x.sets /\ z.object = x.object
        /\ Todo(z) = Todo(x) /\ Removals(z) = Removals(x)
    BY <1>1, <1>4, DeniedKeeps
  <2>2. FaultsCount /\ WorkerIs(w, y)
    BY <1>1, <1>7, FaultCounts DEF Denied
  <2>3. z \in Worker
    BY <2>1 DEF WorkerInv
  <2> HIDE DEF z
  <2>4. y.pc = "save" /\ y.denied = z.denied
    BY <2>3 DEF Worker
  <2>5. PcInv(y)
    BY <1>1, <2>1, GotoPc
  <2>6. /\ WorkerInv(Templates, y) /\ SameTask(z, y) /\ y.failed = z.failed
        /\ Todo(y) = Todo(z) /\ Removals(y) = Removals(z)
    BY <2>1, <2>5, GotoKeeps
  <2> HIDE DEF y
  <2>7. /\ SameTask(x, y) /\ y.failed = x.failed /\ Todo(y) = Todo(x) /\ Removals(y) = Removals(x)
        /\ "admin" \in y.denied
    BY <2>1, <2>4, <2>6 DEF SameTask
  <2>8. Moves(x, y)
    BY <1>1, <2>4, <2>6, <2>7 DEF Moves, SameTask, Creating
  <2>9. StartsWell(x, y) /\ ListsWell(x, y)
    BY <1>1 DEF StartsWell, ListsWell
  <2>10. GoesOnWell(x, y)
    BY <1>1, <2>7 DEF GoesOnWell, Succeeding
  <2> QED BY <1>1, <1>3, <2>2, <2>4, <2>8, <2>9, <2>10 DEF WStep
<1> QED BY <1>5, <1>6, <1>7 DEF AfterCallback

LEMMA UpdateNamespaceStep ==
  ASSUME NInv, NEW w \in Workers, UpdateNamespace(w)
  PROVE  \E y : WStep(w, y)
<1>1. /\ worker[w].pc = "save" /\ UNCHANGED env /\ UNCHANGED objs /\ Busy(w) /\ Over(w, "done")
      /\ row' = row \/ row' = Outcome(w)
  BY DEF UpdateNamespace, At, Busy
<1>2. FaultsCount
  BY FaultCounts DEF UpdateNamespace, NInv
<1> QED BY <1>1, <1>2, OverIsWStep

(* The process dies, or an entity without an environment is asked for its  *)
(* version.                                                                *)
LEMMA DeathStep ==
  ASSUME NInv, NEW w \in Workers, Crash(w) \/ TemplatesMissing(w)
  PROVE  \E y : WStep(w, y)
<1>1. PICK kind : Fault(kind)
  BY DEF Crash, TemplatesMissing
<1>2. Busy(w) /\ UNCHANGED env /\ UNCHANGED objs /\ row' = row /\ Over(w, "dead")
  BY DEF Crash, TemplatesMissing, At, Busy
<1>3. FaultsCount /\ faults' # faults
  BY <1>1, FaultCounts DEF NInv
<1> QED BY <1>2, <1>3, OverIsWStep

LEMMA OperationSetsFailStep ==
  ASSUME NInv, NEW w \in Workers, OperationSetsFail(w)
  PROVE  \E y : WStep(w, y)
<1> DEFINE x == worker[w]
           y == [x EXCEPT !.failed = TRUE, !.pc = "callback", !.sets = <<>>, !.object = NoObject]
<1>1. x.pc \in {"sets", "list"} /\ UNCHANGED env /\ UNCHANGED <<objs, row>> /\ Busy(w)
      /\ WorkerIs(w, y) /\ WorkerInv(Templates, x) /\ x \in Worker /\ TypeOK /\ PcInv(x)
  BY DEF OperationSetsFail, At, Busy, NInv, WorkerInv
<1>2. PICK kind : Fault(kind)
  BY DEF OperationSetsFail
<1>3. FaultsCount
  BY <1>1, <1>2, FaultCounts
<1>4. /\ y \in Worker /\ SameTask(x, y) /\ y.failed = TRUE /\ y.pc = "callback" /\ y.sets = <<>>
  <2>1. <<>> \in Seq(OperationSet)
    BY Tuples
  <2> QED BY <1>1, <2>1 DEF Worker, SameTask
<1> HIDE DEF y
<1>5. Todo(y) = {}
  BY <1>4 DEF Todo, TodoOf
<1>6. PcInv(y)
  BY <1>4 DEF PcInv, Applying
<1>7. x.op # "clean" => y.found = {}
  BY <1>1, <1>4 DEF WorkerInv, SameTask
<1>8. WorkerInv(Templates, y)
  BY <1>1, <1>4, <1>5, <1>6, <1>7 DEF WorkerInv, SameTask, SetsInv
<1>9. Moves(x, y)
  BY <1>4, <1>8 DEF Moves, SameTask, Creating
<1>10. StartsWell(x, y) /\ ListsWell(x, y) /\ GoesOnWell(x, y)
  BY <1>4 DEF StartsWell, ListsWell, GoesOnWell, Succeeding
<1>11. Change(x, y)
  BY <1>1 DEF Change
<1> QED BY <1>1, <1>3, <1>4, <1>9, <1>10, <1>11 DEF WStep

(* The sets of a creation or an update. *)
LEMMA SetsWithAre ==
  ASSUME type \in EnvTypes, NEW op \in Ops, op # "clean", NEW objects, objects \subseteq Templates,
         op # "create" => "project" \notin objects, NEW grant \in Grants(op)
  PROVE  /\ SetsInv(Templates, op, SetsWith(op, objects, grant))
         /\ objects \subseteq TodoOf(SetsWith(op, objects, grant))
         /\ grant = "yes" => /\ "edit" \in TodoOf(SetsWith(op, objects, grant))
                             /\ "edit" \notin RemovalsOf(SetsWith(op, objects, grant))
         /\ grant = "no" => /\ "edit" \notin TodoOf(SetsWith(op, objects, grant))
                            /\ "edit" \in RemovalsOf(SetsWith(op, objects, grant))
<1> DEFINE s == [method |-> Method(op), todo |-> objects]
           r == [method |-> Method(op), todo |-> objects \cup {"edit"}]
           t == [method |-> "DELETE", todo |-> {"edit"}]
<1>1. Method(op) \in {"POST", "PATCH"}
  BY DEF Method, Ops
<1>2. Templates \subseteq Objects /\ "edit" \in Objects /\ "edit" \notin Templates
  BY TemplatesAre, ObjectsAre
<1>3. s \in OperationSet /\ r \in OperationSet /\ t \in OperationSet
  BY <1>1, <1>2 DEF OperationSet
<1>4. s.method = Method(op) /\ s.todo = objects /\ r.method = Method(op)
      /\ r.todo = objects \cup {"edit"} /\ t.method = "DELETE" /\ t.todo = {"edit"}
  OBVIOUS
<1>5. SetsWith(op, objects, grant) = CASE grant = "yes" -> <<r>> [] grant = "no" -> <<s, t>>
                                       [] OTHER -> <<s>>
  BY DEF SetsWith
<1> HIDE DEF s, r, t
<1>6. SetInv(Templates, op, s) /\ SetInv(Templates, op, r) /\ SetInv(Templates, op, t)
  BY <1>1, <1>3, <1>4 DEF SetInv, Writing
<1>7. Writing(s.method) /\ Writing(r.method) /\ t.method = "DELETE"
  BY <1>1, <1>4 DEF Writing
<1>8. CASE grant = "yes"
  <2>1. SetsWith(op, objects, grant) = <<r>>
    BY <1>5, <1>8
  <2>2. TodoOf(<<r>>) = r.todo /\ RemovalsOf(<<r>>) = {}
    BY <1>1, <1>3, <1>4, <1>7, SetsOfTwo
  <2>3. SetsInv(Templates, op, <<r>>)
    BY <1>3, <1>6 DEF SetsInv
  <2> QED BY <1>4, <1>8, <2>1, <2>2, <2>3
<1>9. CASE grant = "no"
  <2>1. SetsWith(op, objects, grant) = <<s, t>>
    BY <1>5, <1>9
  <2>2. TodoOf(<<s, t>>) = s.todo /\ RemovalsOf(<<s, t>>) = {"edit"}
    BY <1>1, <1>3, <1>4, <1>7, SetsOfTwo
  <2>3. SetsInv(Templates, op, <<s, t>>)
    BY <1>3, <1>6, <1>7 DEF SetsInv
  <2> QED BY <1>2, <1>4, <1>9, <2>1, <2>2, <2>3
<1>10. CASE grant # "yes" /\ grant # "no"
  <2>1. SetsWith(op, objects, grant) = <<s>>
    BY <1>5, <1>10
  <2>2. TodoOf(<<s>>) = s.todo
    BY <1>3, <1>7, SetsOfTwo
  <2>3. SetsInv(Templates, op, <<s>>)
    BY <1>3, <1>6 DEF SetsInv
  <2> QED BY <1>4, <1>10, <2>1, <2>2, <2>3
<1> QED BY <1>8, <1>9, <1>10

LEMMA GetOperationSetsStep ==
  ASSUME NInv, NEW w \in Workers, GetOperationSets(w)
  PROVE  \E y : WStep(w, y)
<1> DEFINE x == worker[w]
           objects == IF x.op = "create" THEN Templates ELSE Templates \ {"project"}
<1>1. x.pc = "sets" /\ x.op # "clean" /\ UNCHANGED env /\ UNCHANGED <<objs, row>> /\ Busy(w)
      /\ WorkerInv(Templates, x) /\ x \in Worker /\ TypeOK /\ FaultsCount
  BY FaultCounts DEF GetOperationSets, At, Busy, NInv, WorkerInv
<1>2. PICK grant \in Grants(x.op) :
        \E y \in Continue([x EXCEPT !.grant = grant, !.sets = SetsWith(x.op, objects, grant)]) :
          WorkerIs(w, y)
  BY DEF GetOperationSets
<1> DEFINE sets == SetsWith(x.op, objects, grant)
           z == [x EXCEPT !.grant = grant, !.sets = sets]
<1>3. PICK y \in Continue(z) : WorkerIs(w, y)
  BY <1>2
<1>4. /\ type \in EnvTypes /\ x.op \in Ops /\ objects \subseteq Templates
      /\ x.op # "create" => "project" \notin objects
      /\ Kept \subseteq objects
  BY <1>1 DEF TypeOK, Worker, Kept
<1> HIDE DEF objects
<1>5. /\ SetsInv(Templates, x.op, sets) /\ objects \subseteq TodoOf(sets)
      /\ grant = "yes" => "edit" \in TodoOf(sets) /\ "edit" \notin RemovalsOf(sets)
      /\ grant = "no" => "edit" \notin TodoOf(sets) /\ "edit" \in RemovalsOf(sets)
  BY <1>1, <1>4, SetsWithAre
<1>6. sets \in Seq(OperationSet) /\ grant \in {"yes", "no", "undecided"}
  BY <1>5, FirstSet DEF Grants
<1> HIDE DEF sets
<1>7. /\ z \in Worker /\ z.op = x.op /\ z.grant = grant /\ z.alone = x.alone /\ z.found = x.found
      /\ z.failed = x.failed /\ z.sets = sets
  BY <1>1, <1>6 DEF Worker
<1> HIDE DEF z
<1>8. SetsInv(Templates, z.op, z.sets)
  BY <1>5, <1>7
<1>9. /\ y \in Worker /\ SameTask(z, y) /\ y.failed = z.failed
      /\ SetsInv(Templates, y.op, y.sets) /\ PcInv(y)
      /\ Todo(y) = Todo(z) /\ Removals(y) = Removals(z)
      /\ y.pc \in {"callback", "POST", "PATCH", "DELETE", "ENSURE_DELETION"}
      /\ y.pc # "callback" => y.pc = y.sets[1].method
  BY <1>3, <1>7, <1>8, ContinueKeeps
<1>10. Todo(y) = TodoOf(sets) /\ Removals(y) = RemovalsOf(sets)
  BY <1>7, <1>9 DEF Todo, Removals
<1>11. y.op = x.op /\ y.grant = grant /\ y.alone = x.alone /\ y.found = {} /\ ~y.failed
  BY <1>1, <1>7, <1>9 DEF SameTask, WorkerInv, PcInv
<1>12. WorkerInv(Templates, y)
  BY <1>1, <1>9, <1>11 DEF WorkerInv
<1>13. Moves(x, y)
  <2>1. y.pc = "POST" => y.sets[1].method = Method(y.op)
    BY <1>12, ApplyingIs
  <2>2. y.pc = "POST" => y.op = "create"
    BY <1>9, <2>1 DEF Method
  <2> QED BY <1>9, <1>11, <1>12, <2>2 DEF Moves, Creating
<1>14. StartsWell(x, y)
  <2>1. Kept \subseteq Todo(y)
    BY <1>4, <1>5, <1>10
  <2>2. RightsInv(y, objs)
    BY <1>5, <1>9, <1>10, <1>11 DEF RightsInv
  <2>3. WrittenInv(y, objs) /\ CleanedInv(y, objs)
    BY <1>1, <1>11, <2>1 DEF WrittenInv, CleanedInv
  <2> QED BY <1>1, <2>1, <2>2, <2>3 DEF StartsWell
<1>15. ListsWell(x, y) /\ GoesOnWell(x, y) /\ Change(x, y)
  BY <1>1 DEF ListsWell, GoesOnWell, Change
<1> QED BY <1>1, <1>3, <1>9, <1>13, <1>14, <1>15 DEF WStep

(* The sets of a cleaning. *)
LEMMA SetsToCleanAre ==
  ASSUME NEW templates, NEW objects, objects \subseteq AllToGetAndDelete
  PROVE  /\ SetsInv(templates, "clean", SetsToClean(objects))
         /\ SetsToClean(objects) \in Seq(OperationSet)
         /\ TodoOf(SetsToClean(objects)) = {} /\ RemovalsOf(SetsToClean(objects)) = objects
         /\ SetsToClean(objects)[1].todo = objects
<1> DEFINE s == [method |-> "DELETE", todo |-> objects]
           t == [method |-> "ENSURE_DELETION", todo |-> objects]
<1>1. objects \subseteq Objects
  BY ObjectsAre
<1>2. /\ s \in OperationSet /\ t \in OperationSet
      /\ s.method = "DELETE" /\ t.method = "ENSURE_DELETION" /\ s.todo = objects /\ t.todo = objects
  BY <1>1 DEF OperationSet
<1>3. SetsToClean(objects) = <<s, t>>
  BY DEF SetsToClean
<1> HIDE DEF s, t
<1>4. SetsInv(templates, "clean", <<s, t>>)
  <2>1. SetInv(templates, "clean", s) /\ SetInv(templates, "clean", t)
    BY <1>2 DEF SetInv, Writing
  <2> QED BY <1>2, <2>1 DEF SetsInv
<1>5. /\ TodoOf(<<s, t>>) = IF Writing(s.method) THEN s.todo ELSE {}
      /\ RemovalsOf(<<s, t>>) = (IF s.method = "DELETE" THEN s.todo ELSE {})
                                \cup (IF t.method = "DELETE" THEN t.todo ELSE {})
  BY <1>2, SetsOfTwo
<1>6. <<s, t>> \in Seq(OperationSet) /\ <<s, t>>[1] = s
  BY <1>2, Tuples
<1> QED BY <1>2, <1>3, <1>4, <1>5, <1>6 DEF Writing

LEMMA GetObjectsToCleanStep ==
  ASSUME NInv, NEW w \in Workers, GetObjectsToClean(w)
  PROVE  \E y : WStep(w, y)
<1> DEFINE x == worker[w]
           sets == SetsToClean({})
           y == [x EXCEPT !.pc = "list", !.object = "pod", !.sets = sets]
<1>1. x.pc = "sets" /\ x.op = "clean" /\ UNCHANGED env /\ UNCHANGED <<objs, row>> /\ Busy(w)
      /\ WorkerInv(Templates, x) /\ x \in Worker /\ TypeOK /\ FaultsCount /\ WorkerIs(w, y)
  BY FaultCounts DEF GetObjectsToClean, At, Busy, NInv, WorkerInv
<1>2. /\ SetsInv(Templates, "clean", sets) /\ sets \in Seq(OperationSet)
      /\ TodoOf(sets) = {} /\ RemovalsOf(sets) = {}
      /\ \E objects \in SUBSET AllToGetAndDelete : sets = SetsToClean(objects)
  BY SetsToCleanAre
<1> HIDE DEF sets
<1>3. /\ y \in Worker /\ y.op = "clean" /\ y.pc = "list" /\ y.object = "pod" /\ y.sets = sets
      /\ y.grant = x.grant /\ y.alone = x.alone /\ y.found = x.found
  BY ZenonT(60), <1>1, <1>2, ObjectsAre DEF Worker
<1> HIDE DEF y
<1>4. y.grant = "undecided" /\ y.found = {}
  BY <1>1, <1>3 DEF WorkerInv, PcInv
<1>5. Todo(y) = {} /\ Removals(y) = {}
  BY <1>2, <1>3 DEF Todo, Removals
<1>6. PcInv(y)
  BY <1>2, <1>3 DEF PcInv, Applying
<1>7. WorkerInv(Templates, y)
  BY <1>2, <1>3, <1>4, <1>5, <1>6 DEF WorkerInv
<1>8. Moves(x, y)
  BY <1>1, <1>3, <1>7 DEF Moves, Creating
<1>9. StartsWell(x, y)
  <2>1. WrittenInv(y, objs) /\ RightsInv(y, objs) /\ CleanedInv(y, objs)
    BY <1>3, <1>4 DEF WrittenInv, RightsInv, CleanedInv
  <2> QED BY <1>1, <1>3, <2>1 DEF StartsWell
<1>10. ListsWell(x, y) /\ GoesOnWell(x, y) /\ Change(x, y)
  BY <1>1 DEF ListsWell, GoesOnWell, Change
<1> QED BY <1>1, <1>3, <1>8, <1>9, <1>10 DEF WStep

(* What there is of a kind may be cleaned. *)
LEMMA ThereOfIs ==
  ASSUME NEW kind \in {"pod", "deployment", "claim"}
  PROVE  ThereOf(kind) \subseteq AllToGetAndDelete
         /\ NextKind[kind] \in {"deployment", "claim", NoObject}
<1>1. OfKind[kind] \subseteq AllToGetAndDelete /\ NextKind[kind] \in {"deployment", "claim", NoObject}
  <2>1. CASE kind = "pod"
    BY <2>1 DEF OfKind, NextKind, AllToGetAndDelete
  <2>2. CASE kind = "deployment"
    BY <2>2 DEF OfKind, NextKind, AllToGetAndDelete
  <2>3. CASE kind = "claim"
    BY <2>3 DEF OfKind, NextKind, AllToGetAndDelete
  <2> QED BY <2>1, <2>2, <2>3
<1> QED BY <1>1 DEF ThereOf

(* A kind is listed, or passed over: what was found and not denied is to   *)
(* be deleted.                                                             *)
LEMMA ListKindStep ==
  ASSUME NInv, NEW w \in Workers, ListKind(w)
  PROVE  \E y : WStep(w, y)
<1> DEFINE x == worker[w]
           here == ThereOf(x.object)
           next == NextKind[x.object]
<1>1. x.pc = "list" /\ UNCHANGED env /\ UNCHANGED <<objs, row>> /\ Busy(w)
      /\ WorkerInv(Templates, x) /\ x \in Worker /\ TypeOK /\ PcInv(x)
  BY DEF ListKind, At, Busy, NInv, WorkerInv
<1>2. PICK objects, denied : /\ Shown(w, objects, denied)
                             /\ \/ objects = here /\ denied = {} /\ NoFault
                                \/ objects = {} /\ denied = here /\ Fault("forbidden")
  BY DEF ListKind
<1>3. FaultsCount
  BY <1>1, <1>2, FaultCounts
<1>4. /\ x.op = "clean" /\ x.object \in {"pod", "deployment", "claim"}
      /\ \E todo \in SUBSET AllToGetAndDelete : x.sets = SetsToClean(todo)
  BY <1>1 DEF PcInv
<1>5. PICK todo \in SUBSET AllToGetAndDelete : x.sets = SetsToClean(todo)
  BY <1>4
<1>6. x.sets[1].todo = todo /\ Removals(x) = todo
  BY <1>5, SetsToCleanAre DEF Removals
<1>7. /\ here \subseteq AllToGetAndDelete /\ here \subseteq Objects
      /\ next \in {"deployment", "claim", NoObject} /\ next \in Objects \cup {NoObject}
  BY <1>4, ThereOfIs, ObjectsAre
<1> HIDE DEF here, next
<1> DEFINE sets == SetsToClean(todo \cup objects)
           z == [x EXCEPT !.object = next, !.sets = sets, !.found = @ \cup here,
                          !.denied = @ \cup denied]
<1>8. /\ todo \cup objects \subseteq AllToGetAndDelete
      /\ SetsInv(Templates, "clean", sets) /\ sets \in Seq(OperationSet)
      /\ TodoOf(sets) = {} /\ RemovalsOf(sets) = todo \cup objects
  <2>1. todo \cup objects \subseteq AllToGetAndDelete
    BY <1>2, <1>5, <1>7
  <2> QED BY <2>1, SetsToCleanAre
<1>9. IF z.object # NoObject THEN WorkerIs(w, z) ELSE \E y \in Continue(z) : WorkerIs(w, y)
  <2>1. z = [x EXCEPT !.object = NextKind[@], !.sets = SetsToClean(@[1].todo \cup objects),
                      !.found = @ \cup ThereOf(x.object), !.denied = @ \cup denied]
    BY <1>1, <1>6 DEF here, next, Worker
  <2> QED BY <1>2, <2>1 DEF Shown
<1> HIDE DEF sets
<1>10. /\ z \in Worker /\ z.op = "clean" /\ z.pc = "list" /\ z.object = next /\ z.sets = sets
       /\ z.failed = x.failed /\ z.grant = x.grant /\ z.alone = x.alone
       /\ z.found = x.found \cup here /\ z.denied = x.denied \cup denied
  <2>1. denied \subseteq Objects
    BY <1>2, <1>7
  <2> QED BY <1>1, <1>4, <1>7, <1>8, <2>1 DEF Worker
<1> HIDE DEF z
<1>11. x.grant = "undecided"
  BY <1>1, <1>4 DEF WorkerInv, Worker
<1>12. ASSUME NEW y, WorkerIs(w, y), y \in Worker, SameTask(z, y), y.failed = z.failed,
              SetsInv(Templates, y.op, y.sets), PcInv(y), Todo(y) = {}, Removals(y) = todo \cup objects,
              y.pc \in {"list", "callback", "POST", "PATCH", "DELETE", "ENSURE_DELETION"},
              y.denied = z.denied
       PROVE  WStep(w, y)
  <2>1. /\ y.op = "clean" /\ y.grant = "undecided" /\ y.alone = x.alone
        /\ y.found = x.found \cup here /\ y.denied = x.denied \cup denied /\ y.failed = x.failed
    BY <1>10, <1>11, <1>12 DEF SameTask
  <2>2. WorkerInv(Templates, y)
    BY <1>12, <2>1 DEF WorkerInv
  <2>3. y.pc \notin {"POST", "PATCH"}
    BY <1>12, <2>2, ApplyingIs
  <2>4. Moves(x, y)
    BY <1>4, <1>12, <2>1, <2>2, <2>3 DEF Moves, Creating
  <2>5. ASSUME CleanedInv(x, objs), NEW o \in y.found \ y.denied, objs[o] \in {"stale", "good"}
        PROVE  o \in Removals(y)
    <3>1. CASE o \in here
      BY <1>2, <1>12, <2>1, <2>5, <3>1
    <3>2. CASE o \notin here
      <4>1. o \in x.found \ x.denied
        BY <2>1, <2>5, <3>2
      <4>2. o \in Removals(x)
        BY <1>4, <2>5, <4>1 DEF CleanedInv
      <4> QED BY <1>6, <1>12, <4>2
    <3> QED BY <3>1, <3>2
  <2>6. CleanedInv(x, objs) => CleanedInv(y, objs)
    BY <2>5 DEF CleanedInv
  <2>7. ListsWell(x, y)
    BY <1>1, <2>1, <2>6 DEF ListsWell, Succeeding
  <2>8. StartsWell(x, y) /\ GoesOnWell(x, y) /\ Change(x, y)
    BY <1>1 DEF StartsWell, GoesOnWell, Change
  <2> QED BY <1>1, <1>3, <1>12, <2>4, <2>7, <2>8 DEF WStep
<1>13. CASE next # NoObject
  <2>1. WorkerIs(w, z)
    BY <1>9, <1>10, <1>13
  <2>2. PcInv(z)
    <3>1. \E s \in SUBSET AllToGetAndDelete : sets = SetsToClean(s)
      BY <1>8 DEF sets
    <3> QED BY <1>7, <1>10, <1>13, <3>1 DEF PcInv, Applying
  <2>3. Todo(z) = {} /\ Removals(z) = todo \cup objects /\ SameTask(z, z)
    BY <1>8, <1>10 DEF Todo, Removals, SameTask
  <2> QED BY <1>8, <1>10, <1>12, <2>1, <2>2, <2>3
<1>14. CASE next = NoObject
  <2>1. PICK y \in Continue(z) : WorkerIs(w, y)
    BY <1>9, <1>10, <1>14
  <2>2. SetsInv(Templates, z.op, z.sets)
    BY <1>8, <1>10
  <2>3. /\ y \in Worker /\ SameTask(z, y) /\ y.failed = z.failed /\ y.denied = z.denied
        /\ SetsInv(Templates, y.op, y.sets) /\ PcInv(y)
        /\ Todo(y) = Todo(z) /\ Removals(y) = Removals(z)
        /\ y.pc \in {"callback", "POST", "PATCH", "DELETE", "ENSURE_DELETION"}
    BY <1>10, <2>1, <2>2, ContinueKeeps
  <2>4. Todo(y) = {} /\ Removals(y) = todo \cup objects
    BY <1>8, <1>10, <2>3 DEF Todo, Removals
  <2> QED BY <1>12, <2>1, <2>3, <2>4
<1> QED BY <1>13, <1>14

LEMMA StepIs ==
  ASSUME NInv, NEW w \in Workers, Step(w)
  PROVE  (\E op \in Ops : Begin(w, op)) \/ \E y : WStep(w, y)
BY PostProjectStep, PostObjectStep, DeleteAndRedoStep, RedoStep, GetForPatchStep, PatchObjectStep,
   DeleteObjectStep, AfterCallbackStep, UpdateNamespaceStep, DeathStep, OperationSetsFailStep,
   GetOperationSetsStep, GetObjectsToCleanStep, ListKindStep DEF Step

-----------------------------------------------------------------------------
(* What such a step does *)

(* To the objects, case by case. *)
LEMMA ChangeIs ==
  ASSUME NInv, NEW w \in Workers, NEW y, Change(worker[w], y)
  PROVE  LET x == worker[w]
             only(o, phases) == /\ o \in Objects /\ objs' \in [Objects -> Phases]
                                /\ objs'[o] \in phases
                                /\ \A p \in Objects : p # o => objs'[p] = objs[p]
         IN  \/ objs' = objs
             \/ /\ x.pc = "POST" /\ x.object = "project" /\ objs["project"] = "absent"
                /\ x.op # "clean" /\ objs' \in [Objects -> Phases] /\ objs'["project"] = "good"
                /\ objs'["admin"] \in {objs["admin"], "good"}
                /\ \A p \in Objects \ {"project", "admin"} : objs'[p] = objs[p]
             \/ /\ x.object # "project" /\ There("project") /\ only(x.object, {"good"})
                /\ x.object \in Todo(x) /\ x.op # "clean"
                /\ \/ x.pc \in {"POST", "redo"} /\ objs[x.object] = "absent"
                   \/ x.pc = "write" /\ There(x.object)
             \/ /\ x.pc = "conflict" /\ y.pc = "redo" /\ y.object = x.object /\ There(x.object)
                /\ x.object # "project" /\ x.object \in Todo(x) /\ x.op # "clean"
                /\ only(x.object, AfterDeletion(x.object))
             \/ /\ x.pc \in {"DELETE", "ENSURE_DELETION"} /\ There(x.object)
                /\ x.object \in AllToGetAndDelete \cup {"edit"}
                /\ x.object = "edit" => x.object \in Removals(x)
                /\ only(x.object, AfterDeletion(x.object))
             \/ x.pc = "callback" /\ only("admin", {"absent"})
<1> DEFINE x == worker[w]
           only(o, phases) == /\ o \in Objects /\ objs' \in [Objects -> Phases]
                              /\ objs'[o] \in phases
                              /\ \A p \in Objects : p # o => objs'[p] = objs[p]
<1>1. TypeOK /\ WorkerInv(Templates, x) /\ objs \in [Objects -> Phases] /\ PcInv(x)
  BY DEF NInv, TypeOK, WorkerInv
<1>2. ASSUME NEW o \in Objects, NEW phases, phases \subseteq Phases, NEW phase \in phases,
             ObjectIs(o, phase)
      PROVE  only(o, phases)
  BY <1>1, <1>2 DEF ObjectIs
<1>3. {"good"} \subseteq Phases /\ {"absent"} \subseteq Phases
      /\ AfterDeletion(x.object) \subseteq Phases
  BY DEF Phases, AfterDeletion
<1>4. "project" \in Objects /\ "admin" \in Objects
  BY ObjectsAre
<1>5. x.pc \in {"POST", "write", "conflict", "redo"} => x.object \in Todo(x) /\ x.op # "clean"
  BY <1>1, ApplyingIs
<1>6. x.pc \in Applying => x.object \in Objects
  BY ObjectIsObject
<1>7. CASE UNCHANGED objs
  BY <1>7
<1>8. CASE x.pc = "POST" /\ x.object = "project" /\ objs["project"] = "absent" /\ Created
  <2>1. /\ objs' \in [Objects -> Phases] /\ objs'["project"] = "good"
        /\ objs'["admin"] \in {objs["admin"], "good"}
        /\ \A p \in Objects \ {"project", "admin"} : objs'[p] = objs[p]
    BY <1>1, <1>4, <1>8 DEF Created, Phases
  <2> QED BY <1>5, <1>8, <2>1
<1>9. CASE /\ x.object # "project" /\ There("project") /\ ObjectIs(x.object, "good")
           /\ (x.pc \in {"POST", "redo"} /\ objs[x.object] = "absent")
              \/ (x.pc = "write" /\ There(x.object))
  <2>1. x.object \in Objects /\ x.object \in Todo(x) /\ x.op # "clean"
    BY <1>5, <1>6, <1>9 DEF Applying
  <2>2. only(x.object, {"good"})
    BY <1>2, <1>3, <1>9, <2>1
  <2> QED BY <1>9, <2>1, <2>2
<1>10. CASE /\ x.pc = "conflict" /\ y.pc = "redo" /\ y.object = x.object /\ There(x.object)
            /\ \E phase \in AfterDeletion(x.object) : ObjectIs(x.object, phase)
  <2>1. x.object \in Objects /\ x.object \in Todo(x) /\ x.op # "clean" /\ x.object # "project"
    BY <1>1, <1>5, <1>6, <1>10 DEF Applying, PcInv
  <2>2. only(x.object, AfterDeletion(x.object))
    BY <1>2, <1>3, <1>10, <2>1
  <2> QED BY <1>10, <2>1, <2>2
<1>11. CASE /\ x.pc \in {"DELETE", "ENSURE_DELETION"} /\ There(x.object)
            /\ \E phase \in AfterDeletion(x.object) : ObjectIs(x.object, phase)
  <2>1. x.object \in Objects
    BY <1>6, <1>11 DEF Applying
  <2>2. only(x.object, AfterDeletion(x.object))
    BY <1>2, <1>3, <1>11, <2>1
  <2>3. /\ x.object \in AllToGetAndDelete \cup {"edit"}
        /\ x.object = "edit" => x.object \in Removals(x)
    BY <1>1, <1>11, ApplyingIs DEF AllToGetAndDelete, Pods
  <2> QED BY <1>11, <2>1, <2>2, <2>3
<1>12. CASE x.pc = "callback" /\ ObjectIs("admin", "absent")
  <2>1. only("admin", {"absent"})
    BY <1>2, <1>3, <1>4, <1>12
  <2> QED BY <1>12, <2>1
<1> QED BY <1>7, <1>8, <1>9, <1>10, <1>11, <1>12 DEF Change

(* What that means for the project, for what is kept and for what is       *)
(* cleaned.                                                                *)
LEMMA Effects ==
  ASSUME NInv, NEW w \in Workers, NEW y, Change(worker[w], y)
  PROVE  /\ objs' \in [Objects -> Phases]
         /\ \A o \in Objects : objs'[o] = "terminating" => o \in AllToGetAndDelete
         /\ There("project") => objs'["project"] \in {"stale", "good"}
         /\ (\E o \in Objects : objs'[o] # "absent") => objs'["project"] \in {"stale", "good"}
         /\ worker[w].op = "clean" =>
              \A o \in Objects : objs'[o] \in {"stale", "good"} => There(o)
         /\ \A o \in Kept \cup {"edit"} :
              \/ objs'[o] = objs[o]
              \/ objs'[o] = "good" /\ o = worker[w].object /\ o \in Todo(worker[w])
              \/ /\ objs'[o] = "absent" /\ o = worker[w].object /\ o \in Todo(worker[w])
                 /\ worker[w].pc = "conflict" /\ y.pc = "redo" /\ y.object = o
              \/ o = "edit" /\ objs'[o] = "absent" /\ o \in Removals(worker[w])
<1> DEFINE x == worker[w]
           only(o, phases) == /\ o \in Objects /\ objs' \in [Objects -> Phases]
                              /\ objs'[o] \in phases
                              /\ \A p \in Objects : p # o => objs'[p] = objs[p]
<1>1. /\ TypeOK /\ type \in EnvTypes /\ objs \in [Objects -> Phases]
      /\ \A o \in Objects : objs[o] = "terminating" => o \in AllToGetAndDelete
      /\ (\E o \in Objects : objs[o] # "absent") => There("project")
  BY DEF NInv, ObjsInv, TypeOK
<1>2. /\ "project" \in Objects /\ "admin" \in Objects /\ "edit" \in Objects
      /\ Kept \subseteq Objects /\ "admin" \notin Kept /\ "project" \notin Kept /\ "edit" \notin Kept
      /\ Kept \cap AllToGetAndDelete = {}
      /\ "project" \notin AllToGetAndDelete \cup {"edit"}
      /\ "edit" \notin AllToGetAndDelete
  BY <1>1, TemplatesAre, ObjectsAre DEF Kept, AllToGetAndDelete, Pods
<1>3. \A o : /\ o \notin AllToGetAndDelete => AfterDeletion(o) = {"absent"}
             /\ AfterDeletion(o) \subseteq {"absent", "terminating"}
  BY DEF AfterDeletion, AllToGetAndDelete
<1>4. \/ objs' = objs
      \/ /\ x.pc = "POST" /\ x.object = "project" /\ objs["project"] = "absent"
         /\ x.op # "clean" /\ objs' \in [Objects -> Phases] /\ objs'["project"] = "good"
         /\ objs'["admin"] \in {objs["admin"], "good"}
         /\ \A p \in Objects \ {"project", "admin"} : objs'[p] = objs[p]
      \/ /\ x.object # "project" /\ There("project") /\ only(x.object, {"good"})
         /\ x.object \in Todo(x) /\ x.op # "clean"
      \/ /\ x.pc = "conflict" /\ y.pc = "redo" /\ y.object = x.object /\ There(x.object)
         /\ x.object # "project" /\ x.object \in Todo(x) /\ x.op # "clean"
         /\ only(x.object, AfterDeletion(x.object))
      \/ /\ x.pc \in {"DELETE", "ENSURE_DELETION"} /\ There(x.object)
         /\ x.object \in AllToGetAndDelete \cup {"edit"}
         /\ x.object = "edit" => x.object \in Removals(x)
         /\ only(x.object, AfterDeletion(x.object))
      \/ x.pc = "callback" /\ only("admin", {"absent"})
  BY ChangeIs
<1>5. CASE objs' = objs
  BY <1>1, <1>2, <1>5 DEF There
<1>6. CASE /\ x.pc = "POST" /\ x.object = "project" /\ objs["project"] = "absent"
           /\ x.op # "clean" /\ objs' \in [Objects -> Phases] /\ objs'["project"] = "good"
           /\ objs'["admin"] \in {objs["admin"], "good"}
           /\ \A p \in Objects \ {"project", "admin"} : objs'[p] = objs[p]
  BY <1>1, <1>2, <1>6 DEF There
<1>7. CASE /\ x.object # "project" /\ There("project") /\ only(x.object, {"good"})
           /\ x.object \in Todo(x) /\ x.op # "clean"
  BY <1>1, <1>2, <1>7 DEF There
<1>8. CASE /\ x.pc = "conflict" /\ y.pc = "redo" /\ y.object = x.object /\ There(x.object)
           /\ x.object # "project" /\ x.object \in Todo(x) /\ x.op # "clean"
           /\ only(x.object, AfterDeletion(x.object))
  <2>1. /\ x.object \in Objects /\ objs' \in [Objects -> Phases]
        /\ objs'[x.object] \in {"absent", "terminating"}
        /\ x.object \notin AllToGetAndDelete => objs'[x.object] = "absent"
        /\ \A p \in Objects : p # x.object => objs'[p] = objs[p]
    BY <1>3, <1>8
  <2> HIDE DEF only
  <2>2. \A o \in Objects : objs'[o] = "terminating" => o \in AllToGetAndDelete
    BY <1>1, <2>1
  <2>3. x.object # "project"
    BY <1>2, <1>8
  <2>4. objs'["project"] = objs["project"]
    BY <1>2, <2>1, <2>3
  <2>5. (\E o \in Objects : objs'[o] # "absent") => There("project")
    <3>1. \A o \in Objects : objs'[o] # "absent" => objs[o] # "absent"
      BY <1>8, <2>1 DEF There
    <3> QED BY <1>1, <3>1
  <2>6. x.op = "clean" =>
          \A o \in Objects : objs'[o] \in {"stale", "good"} => There(o)
    BY <1>1, <1>8
  <2>7. \A o \in Kept \cup {"edit"} :
          \/ objs'[o] = objs[o]
          \/ objs'[o] = "good" /\ o = x.object /\ o \in Todo(x)
          \/ /\ objs'[o] = "absent" /\ o = x.object /\ o \in Todo(x)
             /\ x.pc = "conflict" /\ y.pc = "redo" /\ y.object = o
          \/ o = "edit" /\ objs'[o] = "absent" /\ o \in Removals(x)
    BY <1>2, <1>8, <2>1
  <2> QED BY <2>1, <2>2, <2>4, <2>5, <2>6, <2>7 DEF There
<1>9. CASE /\ x.pc \in {"DELETE", "ENSURE_DELETION"} /\ There(x.object)
           /\ x.object \in AllToGetAndDelete \cup {"edit"}
           /\ x.object = "edit" => x.object \in Removals(x)
           /\ only(x.object, AfterDeletion(x.object))
  <2>1. /\ x.object \in Objects /\ objs' \in [Objects -> Phases]
        /\ objs'[x.object] \in {"absent", "terminating"}
        /\ x.object \notin AllToGetAndDelete => objs'[x.object] = "absent"
        /\ \A p \in Objects : p # x.object => objs'[p] = objs[p]
    BY <1>3, <1>9
  <2> HIDE DEF only
  <2>2. \A o \in Objects : objs'[o] = "terminating" => o \in AllToGetAndDelete
    BY <1>1, <2>1
  <2>3. x.object # "project"
    BY <1>2, <1>9
  <2>4. objs'["project"] = objs["project"]
    BY <1>2, <2>1, <2>3
  <2>5. (\E o \in Objects : objs'[o] # "absent") => There("project")
    <3>1. \A o \in Objects : objs'[o] # "absent" => objs[o] # "absent"
      BY <1>9, <2>1 DEF There
    <3> QED BY <1>1, <3>1
  <2>6. x.op = "clean" =>
          \A o \in Objects : objs'[o] \in {"stale", "good"} => There(o)
    BY <1>1, <2>1 DEF There
  <2>7. \A o \in Kept \cup {"edit"} :
          \/ objs'[o] = objs[o]
          \/ objs'[o] = "good" /\ o = x.object /\ o \in Todo(x)
          \/ /\ objs'[o] = "absent" /\ o = x.object /\ o \in Todo(x)
             /\ x.pc = "conflict" /\ y.pc = "redo" /\ y.object = o
          \/ o = "edit" /\ objs'[o] = "absent" /\ o \in Removals(x)
    BY <1>2, <1>9, <2>1
  <2> QED BY <2>1, <2>2, <2>4, <2>5, <2>6, <2>7 DEF There
<1>10. CASE x.pc = "callback" /\ only("admin", {"absent"})
  BY <1>1, <1>2, <1>10 DEF There
<1> HIDE DEF only
<1> QED BY <1>4, <1>5, <1>6, <1>7, <1>8, <1>9, <1>10

-----------------------------------------------------------------------------
(* Such a step keeps the invariant *)

(* The invariant of the next state, when the environment type stays.       *)
LEMMA NextState ==
  ASSUME UNCHANGED env, TypeOK', ObjsInv', AloneInv', NoFaultInv', SerialInv',
         \A v \in Workers : WorkerInv(Templates, worker'[v]),
         \A v \in Workers : OwnInv(worker'[v], objs')
  PROVE  NInv'
<1>1. type' = type /\ Templates' = Templates /\ Kept' = Kept
  BY DEF env, Templates, Kept
<1>2. (\A v \in Workers : WorkerInv(Templates, worker[v]))'
  BY <1>1
<1>3. (\A v \in Workers : OwnInv(worker[v], objs))'
  BY <1>1 DEF OwnInv, WrittenInv, RightsInv, CleanedInv
<1> QED BY <1>2, <1>3 DEF NInv

LEMMA WorkersNext ==
  ASSUME NInv, NEW w \in Workers, NEW y, WStep(w, y)
  PROVE  /\ worker' \in [Workers -> Worker] /\ y \in Worker
         /\ worker'[w] = y
         /\ \A v \in Workers : v # w => worker'[v] = worker[v]
         /\ \A v \in Workers : v # w => (Busy(v)' <=> Busy(v))
         /\ \A v \in Workers : worker'[v].alone = worker[v].alone
         /\ WorkerInv(Templates, worker[w]) /\ WorkerInv(Templates, y) /\ TypeOK
         /\ UNCHANGED env /\ Templates' = Templates /\ Kept' = Kept
         /\ Busy(w) /\ (Busy(w)' <=> y.pc \notin {"done", "dead"})
<1>1. WorkerInv(Templates, y) /\ y.alone = worker[w].alone /\ y.pc \notin {"idle", "sets"}
  BY DEF WStep, Moves
<1>2. y \in Worker
  BY <1>1 DEF WorkerInv
<1>3. worker \in [Workers -> Worker] /\ TypeOK /\ WorkerInv(Templates, worker[w])
  BY DEF NInv, TypeOK
<1>4. worker' = [worker EXCEPT ![w] = y]
  BY DEF WStep, WorkerIs
<1>5. /\ worker' \in [Workers -> Worker] /\ worker'[w] = y
      /\ \A v \in Workers : v # w => worker'[v] = worker[v]
  BY <1>2, <1>3, <1>4
<1>6. UNCHANGED env /\ Templates' = Templates /\ Kept' = Kept /\ Busy(w)
  BY DEF WStep, env, Templates, Kept
<1>7. \A v \in Workers : v # w => (Busy(v)' <=> Busy(v))
  BY <1>5 DEF Busy
<1>8. Busy(w)' <=> y.pc \notin {"done", "dead"}
  BY <1>1, <1>5 DEF Busy
<1>9. \A v \in Workers : worker'[v].alone = worker[v].alone
  BY <1>1, <1>5
<1> QED BY <1>1, <1>2, <1>3, <1>5, <1>6, <1>7, <1>8, <1>9

LEMMA TypeNext ==
  ASSUME NInv, NEW w \in Workers, NEW y, WStep(w, y)
  PROVE  TypeOK'
<1>1. TypeOK /\ worker' \in [Workers -> Worker] /\ UNCHANGED env
  BY WorkersNext
<1>2. objs' \in [Objects -> Phases]
  BY Effects DEF WStep
<1>3. row' = row \/ row' = Outcome(w)
  BY DEF WStep
<1>4. row' \in [state : {"none", "provisioning", "ready", "failed"},
                version : {"none", "old", "current"}]
  BY <1>1, <1>3 DEF TypeOK, Outcome
<1>5. faults' \in 0 .. MaxFaults
  BY <1>1 DEF WStep, FaultsCount, TypeOK
<1> QED BY <1>1, <1>2, <1>4, <1>5 DEF TypeOK, env

LEMMA ObjsNext ==
  ASSUME NInv, NEW w \in Workers, NEW y, WStep(w, y)
  PROVE  ObjsInv'
<1>1. /\ \A o \in Objects : objs'[o] = "terminating" => o \in AllToGetAndDelete
      /\ There("project") => objs'["project"] \in {"stale", "good"}
      /\ (\E o \in Objects : objs'[o] # "absent") => objs'["project"] \in {"stale", "good"}
  BY Effects DEF WStep
<1>2. /\ worker'[w] = y
      /\ \A v \in Workers : v # w => worker'[v] = worker[v]
  BY WorkersNext
<1>3. y.pc \in {"conflict", "redo"} => There("project")
  BY DEF WStep
<1>4. \A v \in Workers : worker[v].pc \in {"conflict", "redo"} => There("project")
  BY DEF NInv, ObjsInv
<1>5. \A v \in Workers : worker'[v].pc \in {"conflict", "redo"} => There("project")
  BY <1>2, <1>3, <1>4
<1> QED BY <1>1, <1>5 DEF ObjsInv, There

LEMMA AloneNext ==
  ASSUME NInv, NEW w \in Workers, NEW y, WStep(w, y)
  PROVE  AloneInv'
<1>1. /\ \A v \in Workers : v # w => (Busy(v)' <=> Busy(v))
      /\ \A v \in Workers : worker'[v].alone = worker[v].alone
      /\ Busy(w)
  BY WorkersNext
<1>2. \A u, v \in Workers : u # v /\ Busy(u) /\ Busy(v) => ~worker[u].alone
  BY DEF NInv, AloneInv
<1>3. \A v \in Workers : Busy(v)' => Busy(v)
  BY <1>1
<1> QED BY <1>1, <1>2, <1>3 DEF AloneInv

(* What a worker does on its own keeps what it has done.                   *)
LEMMA OwnStep ==
  ASSUME NInv, NEW w \in Workers, NEW y, WStep(w, y)
  PROVE  OwnInv(y, objs')
<1> DEFINE x == worker[w]
<1> SUFFICES ASSUME y.alone, Succeeding(y)
             PROVE  WrittenInv(y, objs') /\ RightsInv(y, objs') /\ CleanedInv(y, objs')
  BY DEF OwnInv
<1>1. CASE x.pc = "sets"
  BY <1>1 DEF WStep, StartsWell
<1>3. CASE x.pc = "list"
  <2>1. /\ objs' = objs /\ Succeeding(x) /\ y.op = "clean" /\ y.grant = "undecided"
        /\ CleanedInv(x, objs) => CleanedInv(y, objs)
    BY <1>3 DEF WStep, ListsWell
  <2>2. x.alone
    BY WorkersNext
  <2>3. CleanedInv(x, objs)
    BY <2>1, <2>2 DEF NInv, OwnInv
  <2>4. WrittenInv(y, objs) /\ RightsInv(y, objs)
    BY <2>1 DEF WrittenInv, RightsInv
  <2> QED BY <2>1, <2>3, <2>4
<1>2. CASE x.pc \notin {"sets", "list"}
  <2>1. /\ Succeeding(x) /\ SameTask(x, y)
        /\ Todo(y) \subseteq Todo(x)
        /\ \A o \in Todo(x) : o \in Todo(y) \/ objs'[o] = "good"
                              \/ o \in AllToGetAndDelete \cup {"project"}
        /\ \/ Removals(y) = Removals(x)
           \/ /\ Removals(y) = Removals(x) \ {x.object}
              /\ objs'[x.object] \notin {"stale", "good"} \/ x.object \in y.denied
        /\ type = "user" /\ y.op = "create" /\ y.pc = "save" =>
             objs'["admin"] = "absent" \/ "admin" \in y.denied
    BY <1>2 DEF WStep, GoesOnWell
  <2>2. /\ y.op = x.op /\ y.grant = x.grant /\ y.found = x.found /\ x.alone
        /\ x.denied \subseteq y.denied
        /\ WorkerInv(Templates, x) /\ WorkerInv(Templates, y)
    BY <2>1, WorkersNext DEF SameTask
  <2>3. WrittenInv(x, objs) /\ RightsInv(x, objs) /\ CleanedInv(x, objs)
    BY <2>1, <2>2 DEF NInv, OwnInv
  <2>4. Kept \cap (AllToGetAndDelete \cup {"project"}) = {}
        /\ "edit" \notin AllToGetAndDelete \cup {"project"}
    BY DEF Kept, AllToGetAndDelete, Pods
  <2>5. /\ objs' \in [Objects -> Phases]
        /\ worker[w].op = "clean" =>
             \A o \in Objects : objs'[o] \in {"stale", "good"} => There(o)
        /\ \A o \in Kept \cup {"edit"} :
             \/ objs'[o] = objs[o]
             \/ objs'[o] = "good" /\ o = worker[w].object /\ o \in Todo(worker[w])
             \/ /\ objs'[o] = "absent" /\ o = worker[w].object /\ o \in Todo(worker[w])
                /\ worker[w].pc = "conflict" /\ y.pc = "redo" /\ y.object = o
             \/ o = "edit" /\ objs'[o] = "absent" /\ o \in Removals(worker[w])
    BY Effects DEF WStep
  <2>6. WrittenInv(y, objs')
    <3>1. ASSUME x.op # "clean", NEW o \in Kept
          PROVE  objs'[o] = "good" \/ o \in Todo(y)
      <4>1. objs[o] = "good" \/ o \in Todo(x)
        BY <2>3, <3>1 DEF WrittenInv
      <4>2. o \notin AllToGetAndDelete \cup {"project"} /\ o # "edit"
        <5>1. "edit" \notin Kept
          BY WorkersNext, TemplatesAre DEF TypeOK
        <5> QED BY <2>4, <5>1
      <4>3. o \in Todo(x) => o \in Todo(y) \/ objs'[o] = "good"
        BY <2>1, <4>2
      <4>4. o \in Todo(x) \/ objs'[o] = objs[o] \/ objs'[o] = "good"
        BY <2>5, <4>2
      <4> QED BY <4>1, <4>3, <4>4
    <3> QED BY <2>2, <3>1 DEF WrittenInv
  <2>7. RightsInv(y, objs')
    <3>1. y.grant = "yes" => objs'["edit"] = "good" \/ "edit" \in Todo(y)
      BY <2>1, <2>2, <2>3, <2>4, <2>5 DEF RightsInv
    <3>2. y.grant = "yes" => "edit" \notin Removals(y)
      BY <2>1, <2>2, <2>3 DEF RightsInv
    <3>3. y.grant = "no" => objs'["edit"] = "absent" \/ "edit" \in Removals(y) \cup y.denied
      <4>1. "edit" \in Objects /\ objs'["edit"] \in Phases
            /\ (objs'["edit"] = "terminating" => FALSE)
        <5>1. "edit" \in Objects
          BY ObjectsAre
        <5>2. \A o \in Objects : objs'[o] = "terminating" => o \in AllToGetAndDelete
          BY Effects DEF WStep
        <5> QED BY <2>4, <2>5, <5>1, <5>2
      <4> QED BY <2>1, <2>2, <2>3, <2>5, <4>1 DEF RightsInv, Phases
    <3>4. y.grant = "no" => "edit" \notin Todo(y)
      BY <2>1, <2>2, <2>3 DEF RightsInv
    <3> QED BY <2>1, <3>1, <3>2, <3>3, <3>4 DEF RightsInv
  <2>8. CleanedInv(y, objs')
    <3> SUFFICES ASSUME y.op = "clean" PROVE CleanedInv(y, objs')
      BY DEF CleanedInv
    <3>1. \A o \in x.found \ x.denied : objs[o] \in {"stale", "good"} => o \in Removals(x)
      BY <2>2, <2>3 DEF CleanedInv
    <3>2. x.found \subseteq Objects
      BY <2>2 DEF WorkerInv, Worker
    <3>3. \A o \in y.found \ y.denied : objs'[o] \in {"stale", "good"} => o \in Removals(y)
      BY <2>1, <2>2, <2>5, <3>1, <3>2 DEF There
    <3> QED BY <3>3 DEF CleanedInv
  <2> QED BY <2>6, <2>7, <2>8
<1> QED BY <1>1, <1>2, <1>3

LEMMA OwnNext ==
  ASSUME NInv, NEW w \in Workers, NEW y, WStep(w, y)
  PROVE  \A v \in Workers : OwnInv(worker'[v], objs')
<1> SUFFICES ASSUME NEW v \in Workers PROVE OwnInv(worker'[v], objs')
  OBVIOUS
<1>1. CASE v = w
  BY <1>1, OwnStep, WorkersNext
<1>2. CASE v # w
  <2>1. worker'[v] = worker[v] /\ Busy(w)
    BY <1>2, WorkersNext
  <2>2. Succeeding(worker[v]) => Busy(v)
    BY DEF Succeeding, Busy
  <2>3. Succeeding(worker[v]) => ~worker[v].alone
    BY <1>2, <2>1, <2>2 DEF NInv, AloneInv
  <2> QED BY <2>1, <2>3 DEF OwnInv
<1> QED BY <1>1, <1>2

(* What is covered stays so when nothing fails.                            *)
LEMMA CoveredNext ==
  ASSUME NInv, NEW w \in Workers, NEW y, WStep(w, y), faults' = faults, NEW o \in Kept, Covered(o)
  PROVE  Covered(o)'
<1> DEFINE x == worker[w]
<1>1. /\ worker'[w] = y /\ \A v \in Workers : v # w => worker'[v] = worker[v]
      /\ TypeOK
  BY WorkersNext
<1>2. o # "edit" /\ o \in Objects
  BY <1>1, TemplatesAre, ObjectsAre DEF TypeOK
<1>3. \/ objs'[o] = objs[o]
      \/ objs'[o] = "good"
      \/ objs'[o] = "absent" /\ y.pc = "redo" /\ y.object = o
  BY <1>2, Effects DEF WStep
<1>4. CASE objs[o] = "good"
  BY <1>1, <1>3, <1>4 DEF Covered, Owed
<1>5. CASE Owed(o)
  <2>1. PICK v \in Workers : worker[v].pc = "redo" /\ worker[v].object = o
    BY <1>5 DEF Owed
  <2>2. objs[o] = "absent"
    BY <1>5 DEF Owed
  <2>3. CASE v = w
    <3>1. objs'[o] = "good"
      BY <2>1, <2>2, <2>3 DEF WStep
    <3> QED BY <3>1 DEF Covered
  <2>4. CASE v # w
    <3>1. worker'[v].pc = "redo" /\ worker'[v].object = o
      BY <1>1, <2>1, <2>4
    <3>2. objs'[o] \in {"absent", "good"}
      BY <1>3, <2>2
    <3> QED BY <3>1, <3>2 DEF Covered, Owed
  <2> QED BY <2>3, <2>4
<1> QED BY <1>4, <1>5 DEF Covered

(* Only the last step of a worker that succeeded declares the namespace    *)
(* ready.                                                                  *)
LEMMA DeclaredNext ==
  ASSUME NInv, NEW w \in Workers, NEW y, WStep(w, y)
  PROVE  /\ Declared' => Declared \/ (/\ Succeeding(worker[w]) /\ worker[w].op # "clean"
                                      /\ worker[w].pc = "save" /\ Todo(worker[w]) = {})
         /\ y.pc # "done" => (Declared' <=> Declared)
<1>1. row' = row \/ (worker[w].pc = "save" /\ y.pc = "done" /\ row' = Outcome(w))
  BY DEF WStep
<1>2. row' = row => (Declared' <=> Declared)
  BY DEF Declared
<1>3. Declared' /\ ~Declared /\ row' = Outcome(w) => ~worker[w].failed /\ worker[w].op # "clean"
  BY DEF Declared, Outcome
<1>4. worker[w].pc = "save" => Todo(worker[w]) = {}
  BY WorkersNext, ApplyingIs
<1> QED BY <1>1, <1>2, <1>3, <1>4 DEF Succeeding

LEMMA NoFaultNext ==
  ASSUME NInv, NEW w \in Workers, NEW y, WStep(w, y)
  PROVE  NoFaultInv'
<1> DEFINE x == worker[w]
<1>1. MaxFaults' = MaxFaults /\ Kept' = Kept
      /\ worker'[w] = y /\ \A v \in Workers : v # w => worker'[v] = worker[v]
  BY WorkersNext
<1> SUFFICES ASSUME faults' = MaxFaults
             PROVE  /\ Declared' => \A o \in Kept : Covered(o)'
                    /\ \A v \in Workers : Succeeding(worker'[v]) /\ worker'[v].op # "clean" =>
                         \A o \in Kept : Covered(o)' \/ o \in Todo(worker'[v])
  BY <1>1 DEF NoFaultInv, Succeeding
<1>2. faults' = faults /\ faults = MaxFaults
  BY DEF WStep, FaultsCount
<1>3. /\ Declared => \A o \in Kept : Covered(o)
      /\ \A v \in Workers : Succeeding(worker[v]) /\ worker[v].op # "clean" =>
           \A o \in Kept : Covered(o) \/ o \in Todo(worker[v])
  BY <1>2 DEF NInv, NoFaultInv
<1>4. \A o \in Kept : Covered(o) => Covered(o)'
  BY <1>2, CoveredNext
<1>5. Declared' => \A o \in Kept : Covered(o)'
  BY <1>3, <1>4, DeclaredNext
<1>6. ASSUME NEW v \in Workers, Succeeding(worker'[v]), worker'[v].op # "clean", NEW o \in Kept
      PROVE  Covered(o)' \/ o \in Todo(worker'[v])
  <2>1. CASE v # w
    BY <1>1, <1>3, <1>4, <1>6, <2>1
  <2>2. CASE v = w /\ x.pc = "sets"
    BY <1>1, <1>6, <2>2 DEF WStep, StartsWell
  <2>4. CASE v = w /\ x.pc = "list"
    BY <1>1, <1>6, <2>4 DEF WStep, ListsWell
  <2>3. CASE v = w /\ x.pc \notin {"sets", "list"}
    <3>1. /\ Succeeding(x) /\ y.op = x.op
          /\ \A p \in Todo(x) : p \in Todo(y) \/ objs'[p] = "good"
                                \/ p \in AllToGetAndDelete \cup {"project"}
      BY <1>1, <1>6, <2>3 DEF WStep, GoesOnWell, SameTask
    <3>2. o \notin AllToGetAndDelete \cup {"project"}
      BY DEF Kept
    <3>3. Covered(o) \/ o \in Todo(x)
      BY <1>1, <1>3, <1>6, <2>3, <3>1
    <3>4. objs'[o] = "good" => Covered(o)'
      BY DEF Covered
    <3> QED BY <1>1, <1>4, <2>3, <3>1, <3>2, <3>3, <3>4
  <2> QED BY <2>1, <2>2, <2>3, <2>4
<1> QED BY <1>5, <1>6

LEMMA SerialNext ==
  ASSUME NInv, NEW w \in Workers, NEW y, WStep(w, y)
  PROVE  SerialInv'
<1> DEFINE x == worker[w]
<1>1. /\ worker'[w] = y /\ Busy(w) /\ Kept' = Kept
      /\ \A v \in Workers : worker'[v].alone = worker[v].alone
      /\ \A v \in Workers : v # w => (Busy(v)' <=> Busy(v))
      /\ (Busy(w)' <=> y.pc \notin {"done", "dead"}) /\ TypeOK
  BY WorkersNext
<1> SUFFICES ASSUME \A v \in Workers : worker'[v].alone
             PROVE  /\ Declared' => \A o \in Kept : objs'[o] = "good"
                    /\ \A v \in Workers : Busy(v)' =>
                         /\ worker'[v].op = "create" => ~Declared'
                         /\ Declared' /\ worker'[v].object \in Kept => worker'[v].pc \notin Creating
  BY <1>1 DEF SerialInv, Creating
<1>2. \A v \in Workers : worker[v].alone
  BY <1>1
<1>3. /\ Declared => \A o \in Kept : objs[o] = "good"
      /\ x.op = "create" => ~Declared
      /\ Declared /\ x.object \in Kept => x.pc \notin Creating
  BY <1>1, <1>2 DEF NInv, SerialInv, Creating
<1>4. \A v \in Workers : v # w => ~Busy(v)
  BY <1>1, <1>2 DEF NInv, AloneInv
<1>5. Declared' => \A o \in Kept : objs'[o] = "good"
  <2> SUFFICES ASSUME Declared', NEW o \in Kept PROVE objs'[o] = "good"
    OBVIOUS
  <2>1. "edit" \notin Kept
    BY <1>1, TemplatesAre DEF TypeOK
  <2>2. \/ objs'[o] = objs[o]
        \/ objs'[o] = "good"
        \/ o = x.object /\ x.pc = "conflict" /\ y.pc = "redo" /\ o \in Todo(x)
    BY <2>1, Effects DEF WStep
  <2>3. CASE Declared
    BY <1>3, <2>2, <2>3 DEF Creating
  <2>4. CASE /\ Succeeding(x) /\ x.op # "clean" /\ x.pc = "save" /\ Todo(x) = {}
    <3>1. WrittenInv(x, objs)
      BY <1>2, <2>4 DEF NInv, OwnInv
    <3>2. objs[o] = "good"
      BY <2>4, <3>1 DEF WrittenInv
    <3> QED BY <2>2, <2>4, <3>2
  <2> QED BY <2>3, <2>4, DeclaredNext
<1>6. ASSUME y.pc \notin {"done", "dead"}
      PROVE  /\ y.op = "create" => ~Declared'
             /\ Declared' /\ y.object \in Kept => y.pc \notin Creating
  <2>1. Declared' <=> Declared
    BY <1>6, DeclaredNext
  <2>2. /\ y.op = x.op
        /\ y.op # "create" /\ y.pc \in Creating =>
             (x.pc \in Creating /\ y.object = x.object) \/ objs[y.object] = "absent"
    BY <1>6 DEF WStep, Moves
  <2> QED BY <1>3, <2>1, <2>2
<1> QED BY <1>1, <1>4, <1>5, <1>6

LEMMA WStepKeeps ==
  ASSUME NInv, NEW w \in Workers, NEW y, WStep(w, y)
  PROVE  NInv'
<1>1. /\ worker'[w] = y /\ \A v \in Workers : v # w => worker'[v] = worker[v]
      /\ WorkerInv(Templates, y) /\ UNCHANGED env
  BY WorkersNext
<1>2. \A v \in Workers : WorkerInv(Templates, worker'[v])
  BY <1>1 DEF NInv
<1> QED BY <1>1, <1>2, TypeNext, ObjsNext, AloneNext, OwnNext, NoFaultNext, SerialNext, NextState

-----------------------------------------------------------------------------
(* Beginning, and what the cluster and the user do *)

(* Not being alone any more changes nothing else. *)
NotAlone(x) == [x EXCEPT !.alone = FALSE]

LEMMA NotAloneKeeps ==
  ASSUME NEW templates, NEW x, WorkerInv(templates, x), x.pc # "idle"
  PROVE  /\ WorkerInv(templates, NotAlone(x)) /\ NotAlone(x).alone = FALSE
         /\ NotAlone(x).pc = x.pc /\ NotAlone(x).op = x.op /\ NotAlone(x).object = x.object
         /\ NotAlone(x).failed = x.failed /\ Todo(NotAlone(x)) = Todo(x)
<1> DEFINE y == NotAlone(x)
<1>1. x \in Worker
  BY DEF WorkerInv
<1>2. /\ y \in Worker /\ y.alone = FALSE /\ y.sets = x.sets /\ y.grant = x.grant
      /\ y.found = x.found /\ y.denied = x.denied /\ y.pc = x.pc /\ y.op = x.op /\ y.object = x.object
      /\ y.failed = x.failed
  BY <1>1 DEF Worker, NotAlone
<1> HIDE DEF y
<1>3. Todo(y) = Todo(x)
  BY <1>2 DEF Todo
<1>4. PcInv(y)
  BY <1>2 DEF WorkerInv, PcInv
<1>5. WorkerInv(templates, y)
  BY <1>2, <1>3, <1>4 DEF WorkerInv
<1> QED BY <1>2, <1>3, <1>5 DEF y

LEMMA BeginIs ==
  ASSUME NInv, NEW w \in Workers, NEW op \in Ops, Begin(w, op)
  PROVE  /\ worker[w].pc = "idle" /\ worker[w].alone /\ worker'[w].pc = "sets" /\ worker'[w].op = op
         /\ \A v \in Workers : WorkerInv(Templates, worker'[v])
         /\ worker' \in [Workers -> Worker]
         /\ worker'[w].alone <=> \A v \in Workers : ~Busy(v)
         /\ \A v \in Workers \ {w} :
              /\ worker'[v].pc = worker[v].pc /\ worker'[v].op = worker[v].op
              /\ worker'[v].object = worker[v].object /\ worker'[v].failed = worker[v].failed
              /\ Todo(worker'[v]) = Todo(worker[v])
              /\ Busy(v) => worker'[v].alone = FALSE
              /\ ~Busy(v) => worker'[v] = worker[v]
<1> DEFINE others == {v \in Workers : Busy(v)}
           y == [Idle EXCEPT !.pc = "sets", !.op = op, !.alone = others = {}]
<1>1. TypeOK /\ \A v \in Workers : WorkerInv(Templates, worker[v])
  BY DEF NInv
<1>2. worker[w].pc = "idle" /\ ~Busy(w) /\ worker[w].alone
  BY <1>1 DEF Begin, At, Busy, WorkerInv, PcInv
<1>3. worker' = [v \in Workers |-> CASE v = w -> y
                                     [] v \in others -> [worker[v] EXCEPT !.alone = FALSE]
                                     [] OTHER -> worker[v]]
  BY DEF Begin
<1>4. \A v \in Workers : v \in others <=> Busy(v)
  OBVIOUS
<1>5. others = {} <=> \A v \in Workers : ~Busy(v)
  OBVIOUS
<1> HIDE DEF others
<1>6. /\ y \in Worker /\ y.pc = "sets" /\ y.op = op /\ (y.alone <=> others = {}) /\ ~y.failed
      /\ y.grant = "undecided" /\ y.found = {} /\ y.sets = <<>>
  <2> DEFINE b == others = {}
  <2>1. b \in BOOLEAN
    OBVIOUS
  <2>2. y = [Idle EXCEPT !.pc = "sets", !.op = op, !.alone = b]
    OBVIOUS
  <2>3. b <=> others = {}
    OBVIOUS
  <2> HIDE DEF b, y
  <2>5. Idle \in Worker
    BY IdleIs
  <2>6. y \in Worker /\ y.pc = "sets" /\ y.op = op /\ y.alone = b
    BY <2>1, <2>2, <2>5 DEF Worker
  <2>7. /\ ~y.failed /\ y.grant = "undecided" /\ y.found = {} /\ y.sets = <<>>
    BY <2>2 DEF Idle
  <2> QED BY <2>3, <2>6, <2>7
<1> HIDE DEF y
<1>7. Todo(y) = {}
  BY <1>6 DEF Todo, TodoOf
<1>8. WorkerInv(Templates, y)
  BY <1>6, <1>7 DEF WorkerInv, SetsInv, PcInv, Applying
<1>9. worker'[w] = y
  BY <1>2, <1>3, <1>4
<1>10. ASSUME NEW v \in Workers \ {w}
      PROVE  /\ WorkerInv(Templates, worker'[v])
             /\ worker'[v].pc = worker[v].pc /\ worker'[v].op = worker[v].op
             /\ worker'[v].object = worker[v].object /\ worker'[v].failed = worker[v].failed
             /\ Todo(worker'[v]) = Todo(worker[v])
             /\ Busy(v) => worker'[v].alone = FALSE
             /\ ~Busy(v) => worker'[v] = worker[v]
  <2>1. CASE Busy(v)
    <3>1. worker'[v] = NotAlone(worker[v])
      BY <1>3, <1>4, <2>1 DEF NotAlone
    <3>2. worker[v].pc # "idle" /\ WorkerInv(Templates, worker[v])
      BY <1>1, <2>1 DEF Busy
    <3>3. /\ WorkerInv(Templates, NotAlone(worker[v])) /\ NotAlone(worker[v]).alone = FALSE
          /\ NotAlone(worker[v]).pc = worker[v].pc /\ NotAlone(worker[v]).op = worker[v].op
          /\ NotAlone(worker[v]).object = worker[v].object
          /\ NotAlone(worker[v]).failed = worker[v].failed
          /\ Todo(NotAlone(worker[v])) = Todo(worker[v])
      BY <3>2, NotAloneKeeps
    <3> QED BY <2>1, <3>1, <3>3
  <2>2. CASE ~Busy(v)
    <3>1. worker'[v] = worker[v]
      BY <1>3, <1>4, <2>2
    <3> QED BY <1>1, <2>2, <3>1
  <2> QED BY <2>1, <2>2
<1>11. \A v \in Workers : WorkerInv(Templates, worker'[v])
  BY <1>8, <1>9, <1>10
<1>12. worker' \in [Workers -> Worker]
  <2>1. \A v \in Workers : worker'[v] \in Worker
    BY <1>11 DEF WorkerInv
  <2> QED BY <1>3, <2>1
<1> QED BY <1>2, <1>6, <1>9, <1>10, <1>11, <1>12, <1>5

LEMMA BeginKeeps ==
  ASSUME NInv, NEW w \in Workers, NEW op \in Ops, Begin(w, op)
  PROVE  NInv'
<1>1. /\ worker[w].pc = "idle" /\ worker[w].alone /\ worker'[w].pc = "sets" /\ worker'[w].op = op
      /\ \A v \in Workers : WorkerInv(Templates, worker'[v])
      /\ worker' \in [Workers -> Worker]
      /\ worker'[w].alone <=> \A v \in Workers : ~Busy(v)
      /\ \A v \in Workers \ {w} :
           /\ worker'[v].pc = worker[v].pc /\ worker'[v].op = worker[v].op
           /\ worker'[v].object = worker[v].object /\ worker'[v].failed = worker[v].failed
           /\ Todo(worker'[v]) = Todo(worker[v])
           /\ Busy(v) => worker'[v].alone = FALSE
           /\ ~Busy(v) => worker'[v] = worker[v]
  BY BeginIs
<1>2. /\ UNCHANGED env /\ objs' = objs /\ faults' = faults /\ Kept' = Kept /\ Templates' = Templates
      /\ row' = IF op = "create" THEN [state |-> "provisioning", version |-> "none"] ELSE row
  BY DEF Begin, NoFault, env, Kept, Templates
<1>3. /\ TypeOK /\ ObjsInv /\ AloneInv /\ NoFaultInv /\ SerialInv
  BY DEF NInv
<1>4. /\ Declared' => Declared /\ op # "create"
  BY <1>2 DEF Declared
<1>5. TypeOK'
  BY <1>1, <1>2, <1>3 DEF TypeOK, env
<1>6. ObjsInv'
  BY <1>1, <1>2, <1>3 DEF ObjsInv, There
<1>7. \A v \in Workers \ {w} : Busy(v)' <=> Busy(v)
  BY <1>1 DEF Busy
<1>8. AloneInv'
  <2> SUFFICES ASSUME NEW u \in Workers, NEW v \in Workers, u # v, Busy(u)', Busy(v)'
               PROVE  ~worker'[u].alone
    BY DEF AloneInv
  <2>1. CASE u = w
    BY <1>1, <1>7, <2>1
  <2>2. CASE u # w
    BY <1>1, <1>7, <2>2
  <2> QED BY <2>1, <2>2
<1>9. \A v \in Workers : OwnInv(worker'[v], objs')
  <2> SUFFICES ASSUME NEW v \in Workers, worker'[v].alone PROVE ~Succeeding(worker'[v])
    BY DEF OwnInv
  <2>1. CASE v = w
    BY <1>1, <2>1 DEF Succeeding
  <2>2. CASE v # w
    BY <1>1, <2>2 DEF Succeeding, Busy
  <2> QED BY <2>1, <2>2
<1>10. \A o \in Kept : Covered(o) => Covered(o)'
  BY <1>1, <1>2 DEF Covered, Owed
<1>11. NoFaultInv'
  <2> SUFFICES ASSUME faults' = MaxFaults
               PROVE  /\ Declared' => \A o \in Kept : Covered(o)'
                      /\ \A v \in Workers : Succeeding(worker'[v]) /\ worker'[v].op # "clean" =>
                           \A o \in Kept : Covered(o)' \/ o \in Todo(worker'[v])
    BY <1>2 DEF NoFaultInv, Succeeding
  <2>1. /\ Declared => \A o \in Kept : Covered(o)
        /\ \A v \in Workers : Succeeding(worker[v]) /\ worker[v].op # "clean" =>
             \A o \in Kept : Covered(o) \/ o \in Todo(worker[v])
    BY <1>2, <1>3 DEF NoFaultInv
  <2>2. \A v \in Workers : Succeeding(worker'[v]) => v # w /\ Succeeding(worker[v])
    BY <1>1 DEF Succeeding
  <2> QED BY <1>1, <1>4, <1>10, <2>1, <2>2
<1>12. SerialInv'
  <2> SUFFICES ASSUME \A v \in Workers : worker'[v].alone
               PROVE  /\ Declared' => \A o \in Kept : objs'[o] = "good"
                      /\ \A v \in Workers : Busy(v)' =>
                           /\ worker'[v].op = "create" => ~Declared'
                           /\ Declared' /\ worker'[v].object \in Kept =>
                                worker'[v].pc \notin Creating
    BY <1>2 DEF SerialInv, Creating
  <2>1. \A v \in Workers : ~Busy(v)
    BY <1>1
  <2>2. \A v \in Workers : worker[v].alone
    BY <1>1, <2>1
  <2>3. Declared => \A o \in Kept : objs[o] = "good"
    BY <1>3, <2>2 DEF SerialInv
  <2>4. \A v \in Workers : Busy(v)' => v = w
    BY <1>7, <2>1
  <2> QED BY <1>1, <1>2, <1>4, <2>3, <2>4 DEF Creating
<1> QED BY <1>1, <1>2, <1>5, <1>6, <1>8, <1>9, <1>11, <1>12, NextState

(* The cluster and the user touch only what may be cleaned.                *)
LEMMA EnvironmentIs ==
  ASSUME NInv, Environment
  PROVE  /\ objs' \in [Objects -> Phases] /\ UNCHANGED <<row, worker, faults>> /\ UNCHANGED env
         /\ \A o \in Objects \ AllToGetAndDelete : objs'[o] = objs[o]
         /\ \E o \in AllToGetAndDelete :
              /\ \A p \in Objects : p # o => objs'[p] = objs[p]
              /\ \/ objs'[o] = "absent" /\ objs[o] # "absent"
                 \/ /\ o # "claim" /\ objs'[o] = "good" /\ There("project")
                    /\ \A w \in Workers : Busy(w) => o \notin worker[w].found
<1>1. /\ objs \in [Objects -> Phases]
      /\ \A o \in Objects : objs[o] = "terminating" => o \in AllToGetAndDelete
  BY DEF NInv, TypeOK, ObjsInv
<1>2. UNCHANGED <<row, worker, faults>> /\ UNCHANGED env
  BY DEF Environment, NoFault
<1>3. "deployment" \in AllToGetAndDelete /\ Pods \subseteq AllToGetAndDelete
      /\ "claim" \in AllToGetAndDelete /\ AllToGetAndDelete \subseteq Objects
      /\ "claim" \notin Pods \cup {"deployment"} /\ {"pod", "replacement"} \subseteq Pods
  BY ObjectsAre DEF AllToGetAndDelete, Pods
<1>4. (\E o \in Objects : objs[o] # "absent") => There("project")
  BY DEF NInv, ObjsInv
<1>5. \E o \in AllToGetAndDelete : \E phase \in {"absent", "good"} :
        /\ ObjectIs(o, phase)
        /\ \/ phase = "absent" /\ objs[o] # "absent"
           \/ o # "claim" /\ phase = "good" /\ There("project") /\ Unseen(o)
  <2>1. CASE IsRemoved
    BY <1>3, <2>1 DEF IsRemoved
  <2>2. CASE Deploys
    BY <1>3, <2>2 DEF Deploys
  <2>3. CASE PodGoes
    BY <1>3, <2>3 DEF PodGoes
  <2>4. CASE ReplacesPod
    <3>1. There("project")
      BY <1>3, <1>4, <2>4 DEF ReplacesPod
    <3> QED BY <1>3, <2>4, <3>1 DEF ReplacesPod
  <2> QED BY <2>1, <2>2, <2>3, <2>4 DEF Environment
<1>6. PICK o \in AllToGetAndDelete, phase \in {"absent", "good"} :
        /\ ObjectIs(o, phase)
        /\ \/ phase = "absent" /\ objs[o] # "absent"
           \/ o # "claim" /\ phase = "good" /\ There("project") /\ Unseen(o)
  BY <1>5
<1>7. /\ objs' \in [Objects -> Phases] /\ objs'[o] = phase
      /\ \A p \in Objects : p # o => objs'[p] = objs[p]
  BY <1>1, <1>3, <1>6 DEF ObjectIs, Phases
<1> QED BY <1>2, <1>6, <1>7 DEF Unseen

LEMMA EnvironmentKeeps ==
  ASSUME NInv, Environment
  PROVE  NInv'
<1>1. /\ objs' \in [Objects -> Phases] /\ UNCHANGED <<row, worker, faults>> /\ UNCHANGED env
      /\ \A o \in Objects \ AllToGetAndDelete : objs'[o] = objs[o]
  BY EnvironmentIs
<1>2. PICK o \in AllToGetAndDelete :
        /\ \A p \in Objects : p # o => objs'[p] = objs[p]
        /\ \/ objs'[o] = "absent" /\ objs[o] # "absent"
           \/ /\ o # "claim" /\ objs'[o] = "good" /\ There("project")
              /\ \A w \in Workers : Busy(w) => o \notin worker[w].found
  BY EnvironmentIs
<1>3. /\ TypeOK /\ ObjsInv /\ AloneInv /\ NoFaultInv /\ SerialInv
      /\ \A v \in Workers : WorkerInv(Templates, worker[v])
      /\ \A v \in Workers : OwnInv(worker[v], objs)
  BY DEF NInv
<1>4. /\ Templates' = Templates /\ Kept' = Kept /\ Kept \subseteq Objects
      /\ \A p \in Kept \cup {"edit", "admin", "project"} : objs'[p] = objs[p]
  <2>1. Kept \subseteq Objects /\ Kept \cap AllToGetAndDelete = {}
    BY <1>3, TemplatesAre DEF Kept, TypeOK
  <2>2. {"edit", "admin", "project"} \subseteq Objects
        /\ {"edit", "admin", "project"} \cap AllToGetAndDelete = {}
    BY ObjectsAre DEF AllToGetAndDelete, Pods
  <2>3. Templates' = Templates /\ Kept' = Kept
    BY <1>1 DEF env, Templates, Kept
  <2> QED BY <1>1, <2>1, <2>2, <2>3
<1>5. "pod" \in Objects /\ "deployment" \in Objects /\ AllToGetAndDelete \subseteq Objects
      /\ "project" \in Objects
  BY ObjectsAre
<1>6. TypeOK'
  BY <1>1, <1>3 DEF TypeOK, env
<1>7. ObjsInv'
  <2>1. \A p \in Objects : objs'[p] = "terminating" => p \in AllToGetAndDelete
    BY <1>2, <1>3, <1>5 DEF ObjsInv
  <2>2. (\E p \in Objects : objs'[p] # "absent") => There("project")
    <3>1. objs'[o] # "absent" => There("project")
      BY <1>2, <1>3, <1>5 DEF ObjsInv
    <3> QED BY <1>2, <1>3, <3>1 DEF ObjsInv
  <2>3. There("project")' <=> There("project")
    BY <1>4 DEF There
  <2> QED BY <1>1, <1>3, <2>1, <2>2, <2>3 DEF ObjsInv
<1>8. AloneInv'
  BY <1>1, <1>3 DEF AloneInv, Busy
<1>9. ASSUME NEW v \in Workers
      PROVE  OwnInv(worker'[v], objs')
  <2> DEFINE x == worker[v]
  <2> SUFFICES ASSUME x.alone, Succeeding(x)
               PROVE  WrittenInv(x, objs') /\ RightsInv(x, objs') /\ CleanedInv(x, objs')
    BY <1>1 DEF OwnInv
  <2>1. WrittenInv(x, objs) /\ RightsInv(x, objs) /\ CleanedInv(x, objs)
    BY <1>3 DEF OwnInv
  <2>2. WrittenInv(x, objs') /\ RightsInv(x, objs')
    BY <1>4, <2>1 DEF WrittenInv, RightsInv
  <2>3. CleanedInv(x, objs')
    <3> SUFFICES ASSUME x.op = "clean" PROVE CleanedInv(x, objs')
      BY DEF CleanedInv
    <3>1. \A p \in x.found \ x.denied : objs[p] \in {"stale", "good"} => p \in Removals(x)
      BY <2>1 DEF CleanedInv
    <3>2. Busy(v)
      BY DEF Succeeding, Busy
    <3>3. x.found \subseteq Objects
      BY <1>3 DEF WorkerInv, Worker
    <3>4. \A p \in x.found \ x.denied : objs'[p] \in {"stale", "good"} => p \in Removals(x)
      <4>1. objs'[o] = "absent" \/ o \notin x.found
        BY <1>2, <3>2
      <4> QED BY <1>2, <3>1, <3>3, <4>1
    <3> QED BY <3>4 DEF CleanedInv
  <2> QED BY <2>2, <2>3
<1>10. NoFaultInv'
  <2>1. \A p \in Kept : Covered(p)' <=> Covered(p)
    BY <1>1, <1>4 DEF Covered, Owed
  <2>2. Declared' <=> Declared
    BY <1>1 DEF Declared
  <2> SUFFICES ASSUME faults' = MaxFaults
               PROVE  /\ Declared' => \A p \in Kept : Covered(p)'
                      /\ \A v \in Workers : Succeeding(worker'[v]) /\ worker'[v].op # "clean" =>
                           \A p \in Kept : Covered(p)' \/ p \in Todo(worker'[v])
    BY <1>4 DEF NoFaultInv, Succeeding
  <2>3. /\ Declared => \A p \in Kept : Covered(p)
        /\ \A v \in Workers : Succeeding(worker[v]) /\ worker[v].op # "clean" =>
             \A p \in Kept : Covered(p) \/ p \in Todo(worker[v])
    BY <1>1, <1>3 DEF NoFaultInv
  <2> QED BY <1>1, <2>1, <2>2, <2>3
<1>11. SerialInv'
  <2>1. Declared' <=> Declared
    BY <1>1 DEF Declared
  <2>2. \A v \in Workers : Busy(v)' <=> Busy(v)
    BY <1>1 DEF Busy
  <2> QED BY <1>1, <1>3, <1>4, <2>1, <2>2 DEF SerialInv
<1>12. \A v \in Workers : WorkerInv(Templates, worker'[v])
  BY <1>1, <1>3
<1> QED BY <1>1, <1>6, <1>7, <1>8, <1>9, <1>10, <1>11, <1>12, NextState

-----------------------------------------------------------------------------
(* The theorems *)

LEMMA InitKeeps == Init => NInv
<1> SUFFICES ASSUME Init PROVE NInv
  OBVIOUS
<1>1. worker = [w \in Workers |-> Idle] /\ faults = MaxFaults /\ type \in EnvTypes
      /\ disableQuotas \in BOOLEAN
  BY DEF Init
<1>2. /\ Idle \in Worker /\ Idle.pc = "idle" /\ Idle.sets = <<>> /\ Idle.alone = TRUE
      /\ Idle.failed = FALSE /\ Idle.grant = "undecided" /\ Idle.found = {}
  BY IdleIs
<1>3. WorkerInv(Templates, Idle)
  <2>1. Todo(Idle) = {}
    BY <1>2 DEF Todo, TodoOf
  <2> QED BY <1>2, <2>1 DEF WorkerInv, SetsInv, PcInv, Applying
<1>4. \A w \in Workers : worker[w] = Idle
  BY <1>1
<1>5. \A w \in Workers : ~Busy(w) /\ ~Succeeding(worker[w])
  BY <1>2, <1>4 DEF Busy, Succeeding
<1>6. /\ row \in [state : {"none", "provisioning", "ready", "failed"},
                  version : {"none", "old", "current"}]
      /\ ~Declared
  BY DEF Init, Declared
<1>7. /\ objs \in [Objects -> Phases] /\ \A o \in Objects : objs[o] # "terminating"
      /\ (\E o \in Objects : objs[o] # "absent") => There("project")
  <2>1. CASE objs = [o \in Objects |-> "absent"]
    BY <2>1 DEF Phases
  <2>2. CASE \E more \in SUBSET (IF type = "che" THEN {"edit", "deployment"} ELSE {}) :
               objs = [o \in Objects |->
                         CASE o \in Templates -> "stale" [] o \in more -> "good" [] OTHER -> "absent"]
    <3>1. PICK more \in SUBSET (IF type = "che" THEN {"edit", "deployment"} ELSE {}) :
               objs = [o \in Objects |->
                         CASE o \in Templates -> "stale" [] o \in more -> "good" [] OTHER -> "absent"]
      BY <2>2
    <3>2. "project" \in Templates /\ "project" \in Objects
      BY <1>1, TemplatesAre, ObjectsAre
    <3>3. more \cap Templates = {}
      BY <1>1, TemplatesAre
    <3>4. /\ \A o \in Templates \cap Objects : objs[o] = "stale"
          /\ \A o \in more \cap Objects : objs[o] = "good"
          /\ \A o \in Objects \ (Templates \cup more) : objs[o] = "absent"
      BY <3>1, <3>3
    <3>5. \A o \in Objects : objs[o] \in {"absent", "stale", "good"}
      BY <3>4
    <3>6. objs["project"] = "stale"
      BY <3>2, <3>4
    <3> QED BY <3>1, <3>5, <3>6 DEF There, Phases
  <2> QED BY <2>1, <2>2 DEF Init
<1>8. TypeOK
  BY <1>1, <1>2, <1>6, <1>7, ConstantsAssumption DEF TypeOK
<1>9. ObjsInv
  BY <1>2, <1>4, <1>7 DEF ObjsInv
<1>10. AloneInv /\ NoFaultInv /\ SerialInv
  BY <1>5, <1>6 DEF AloneInv, NoFaultInv, SerialInv
<1>11. \A w \in Workers : WorkerInv(Templates, worker[w]) /\ OwnInv(worker[w], objs)
  BY <1>3, <1>4, <1>5 DEF OwnInv
<1> QED BY <1>8, <1>9, <1>10, <1>11 DEF NInv

LEMMA StutterKeeps ==
  ASSUME NInv, UNCHANGED vars
  PROVE  NInv'
<1>1. /\ UNCHANGED env /\ objs' = objs /\ row' = row /\ worker' = worker /\ faults' = faults
      /\ Kept' = Kept /\ Templates' = Templates /\ type' = type /\ disableQuotas' = disableQuotas
  BY DEF vars, env, Kept, Templates
<1>2. TypeOK' /\ ObjsInv' /\ AloneInv'
  BY <1>1 DEF NInv, TypeOK, ObjsInv, AloneInv, Busy, There
<1>3. NoFaultInv' /\ SerialInv'
  BY <1>1 DEF NInv, NoFaultInv, SerialInv, Declared, Covered, Owed, Busy, Succeeding
<1>4. \A v \in Workers : WorkerInv(Templates, worker'[v]) /\ OwnInv(worker'[v], objs')
  BY <1>1 DEF NInv
<1> QED BY <1>1, <1>2, <1>3, <1>4, NextState

LEMMA NextKeeps == NInv /\ [Next]_vars => NInv'
<1> SUFFICES ASSUME NInv, [Next]_vars PROVE NInv'
  OBVIOUS
<1>1. ASSUME NEW w \in Workers, Step(w) PROVE NInv'
  BY <1>1, StepIs, BeginKeeps, WStepKeeps
<1>2. CASE Environment
  BY <1>2, EnvironmentKeeps
<1>3. CASE UNCHANGED vars
  BY <1>3, StutterKeeps
<1> QED BY <1>1, <1>2, <1>3 DEF Next

LEMMA Invariance == Spec => []NInv
BY InitKeeps, NextKeeps, PTL DEF Spec

(* The values of the variables, whatever a goroutine does to its operation *)
(* sets.                                                                   *)
THEOREM TypeCorrect == Spec => []TypeOK
<1>1. NInv => TypeOK
  BY DEF NInv
<1> QED BY <1>1, Invariance, PTL

(* A namespace that is ready in the current version has all its templates  *)
(* ask for: when goroutines never overlapped, whatever failed or crashed;  *)
(* and however many overlapped, when nothing failed: UpdateNamespace saves *)
(* ready only when every operation set was applied.                        *)
THEOREM Complete == Spec => []ReadyIsComplete
<1>1. ASSUME NInv PROVE ReadyIsComplete
  <2> SUFFICES ASSUME Declared, \A w \in Workers : ~Busy(w),
                      faults = MaxFaults \/ \A w \in Workers : worker[w].alone,
                      NEW o \in Kept
               PROVE  objs[o] = "good"
    BY DEF ReadyIsComplete, Declared, Kept
  <2>1. CASE faults = MaxFaults
    <3>1. Covered(o)
      BY <1>1, <2>1 DEF NInv, NoFaultInv
    <3>2. ~Owed(o)
      BY DEF Owed, Busy
    <3> QED BY <3>1, <3>2 DEF Covered
  <2>2. CASE \A w \in Workers : worker[w].alone
    BY <1>1, <2>2 DEF NInv, SerialInv
  <2> QED BY <2>1, <2>2
<1> QED BY <1>1, Invariance, PTL

(* What a step does to the row and to who is done. *)
LEMMA OnlyTheBusyOne ==
  ASSUME NInv, NEW w \in Workers, Alone(w), NEW v \in Workers, NEW y, WStep(v, y)
  PROVE  v = w
BY WorkersNext DEF Alone, NInv, AloneInv

(* An object is created only when everything it needs is there: ByKind     *)
(* sorts what is to do, and an error ends an operation set.                *)
THEOREM Ordered == Spec => DependenciesFirst
<1>1. ASSUME NInv, [Next]_vars, NEW o \in Objects, objs[o] = "absent", objs'[o] = "good",
             NEW w \in Workers, Alone(w), NEW p \in Needs(o)
      PROVE  objs'[p] \in {"stale", "good"}
  <2>1. TypeOK /\ ObjsInv /\ objs \in [Objects -> Phases]
    BY <1>1 DEF NInv, TypeOK
  <2>2. /\ p \in Templates /\ p \in Objects /\ "project" \in Objects /\ "admin" \in Objects
        /\ o # "project"
        /\ p = "project" \/ (p \in Kept /\ o \in {"binding", "claim"} /\ SortOrder[p] < SortOrder[o])
    <3>1. p \in Templates /\ Templates \subseteq Objects
      BY <2>1, TemplatesAre DEF Needs, TypeOK
    <3>2. o # "project" /\ (p = "project" \/ (o = "binding" /\ p \in {"role", "account"})
                                         \/ (o = "claim" /\ p = "quota"))
      BY <1>1 DEF Needs
    <3> QED BY <3>1, <3>2, ObjectsAre DEF Kept, AllToGetAndDelete, Pods
  <2>3. CASE UNCHANGED vars
    BY <1>1, <2>3 DEF vars
  <2>4. CASE Environment
    <3>1. PICK q \in AllToGetAndDelete :
            /\ \A r \in Objects : r # q => objs'[r] = objs[r]
            /\ objs'[q] = "absent" \/ (q # "claim" /\ There("project"))
      BY <1>1, <2>4, EnvironmentIs
    <3>2. o = q /\ q # "claim" /\ There("project")
      BY <1>1, <3>1
    <3>3. p = "project" /\ q # "project"
      BY <2>2, <3>2 DEF AllToGetAndDelete, Pods
    <3> QED BY <2>2, <3>1, <3>2, <3>3 DEF There
  <2>5. ASSUME NEW v \in Workers, NEW op \in Ops, Begin(v, op)
        PROVE  FALSE
    BY <1>1, <2>5 DEF Begin
  <2>6. ASSUME NEW v \in Workers, NEW y, WStep(v, y)
        PROVE  objs'[p] \in {"stale", "good"}
    <3> DEFINE x == worker[w]
    <3>1. v = w
      BY <1>1, <2>6, OnlyTheBusyOne
    <3>2. Change(x, y) /\ Busy(w) /\ x.alone /\ WorkerInv(Templates, x)
      BY <1>1, <2>6, <3>1 DEF WStep, NInv, Alone
    <3> DEFINE only(q, phases) == /\ q \in Objects /\ objs' \in [Objects -> Phases]
                                  /\ objs'[q] \in phases
                                  /\ \A r \in Objects : r # q => objs'[r] = objs[r]
    <3>3. \/ /\ x.pc = "POST" /\ x.object = "project" /\ objs["project"] = "absent"
             /\ objs'["project"] = "good"
             /\ objs'["admin"] \in {objs["admin"], "good"}
             /\ \A q \in Objects \ {"project", "admin"} : objs'[q] = objs[q]
          \/ /\ x.object # "project" /\ There("project") /\ only(x.object, {"good"})
             /\ x.object \in Todo(x) /\ x.op # "clean"
             /\ \/ x.pc \in {"POST", "redo"} /\ objs[x.object] = "absent"
                \/ x.pc = "write" /\ There(x.object)
          \/ \E q \in Objects : only(q, {"absent", "terminating"})
          \/ objs' = objs
      <4>1. AfterDeletion(x.object) \subseteq {"absent", "terminating"}
        BY DEF AfterDeletion
      <4> QED BY <1>1, <3>2, <4>1, ChangeIs
    <3>4. CASE /\ x.pc = "POST" /\ x.object = "project" /\ objs["project"] = "absent"
               /\ objs'["project"] = "good"
               /\ objs'["admin"] \in {objs["admin"], "good"}
               /\ \A q \in Objects \ {"project", "admin"} : objs'[q] = objs[q]
      <4>1. o = "admin"
        BY <1>1, <2>2, <3>4
      <4> QED BY <2>2, <3>4, <4>1
    <3>5. CASE /\ x.object # "project" /\ There("project") /\ only(x.object, {"good"})
               /\ x.object \in Todo(x) /\ x.op # "clean"
               /\ \/ x.pc \in {"POST", "redo"} /\ objs[x.object] = "absent"
                  \/ x.pc = "write" /\ There(x.object)
      <4>1. o = x.object /\ x.pc \in {"POST", "redo"}
        BY <1>1, <3>5 DEF There
      <4>2. CASE p = "project"
        BY <2>2, <3>5, <4>1, <4>2 DEF There
      <4>3. CASE p \in Kept /\ SortOrder[p] < SortOrder[o]
        <5>1. /\ ~x.failed /\ \A q \in Todo(x) : SortOrder[x.object] <= SortOrder[q]
          BY <3>2, <4>1, ApplyingIs
        <5>2. WrittenInv(x, objs)
          BY <1>1, <3>2, <4>1, <5>1 DEF NInv, OwnInv, Succeeding
        <5>3. SortOrder[p] \in Nat /\ SortOrder[o] \in Nat
          BY <2>2, <1>1 DEF Objects, SortOrder
        <5>4. p \notin Todo(x)
          BY <4>1, <4>3, <5>1, <5>3
        <5>5. objs[p] = "good" /\ p # o
          BY <3>5, <4>3, <5>2, <5>3, <5>4 DEF WrittenInv
        <5> QED BY <2>2, <3>5, <4>1, <5>5
      <4> QED BY <2>2, <4>2, <4>3
    <3>6. CASE \E q \in Objects : only(q, {"absent", "terminating"})
      BY <1>1, <3>6
    <3>7. CASE objs' = objs
      BY <1>1, <3>7
    <3> QED BY <3>3, <3>4, <3>5, <3>6, <3>7
  <2> QED BY <1>1, <2>3, <2>4, <2>5, <2>6, StepIs DEF Next
<1>2. NInv /\ [Next]_vars =>
        \A o \in Objects : (/\ objs[o] = "absent" /\ objs'[o] = "good"
                            /\ \E w \in Workers : Alone(w)) =>
          \A p \in Needs(o) : objs'[p] \in {"stale", "good"}
  BY <1>1
<1> QED BY <1>2, Invariance, PTL DEF Spec, DependenciesFirst

(* When a worker declares the namespace ready the edit rights are what the *)
(* toggle said, and after a creation the user is not its admin, unless the *)
(* cluster has forbidden the deletion: AdditionalObject and AfterCallback. *)
THEOREM Rights == Spec => RightsAsDecided
<1>1. ASSUME NInv, [Next]_vars, NEW w \in Workers, Alone(w), ~worker[w].failed,
             row' # row, row'.state = "ready", worker'[w].pc = "done"
      PROVE  /\ worker[w].grant = "yes" => objs["edit"] = "good"
             /\ worker[w].grant = "no"  => objs["edit"] = "absent" \/ "edit" \in worker[w].denied
             /\ HasCallback(w) => objs["admin"] = "absent" \/ "admin" \in worker[w].denied
  <2>1. ASSUME NEW v \in Workers, NEW op \in Ops, Begin(v, op)
        PROVE  FALSE
    BY <1>1, <2>1 DEF Begin
  <2>2. ASSUME NEW v \in Workers, NEW y, WStep(v, y)
        PROVE  worker[w].pc = "save"
    <3>1. v = w /\ worker'[w] = y
      BY <1>1, <2>2, OnlyTheBusyOne, WorkersNext
    <3> QED BY <1>1, <2>2, <3>1 DEF WStep, Moves
  <2>3. worker[w].pc = "save"
    <3>1. ~UNCHANGED vars /\ ~Environment
      BY <1>1 DEF vars, Environment
    <3> QED BY <1>1, <2>1, <2>2, <3>1, StepIs DEF Next
  <2>4. RightsInv(worker[w], objs)
    BY <1>1, <2>3 DEF NInv, OwnInv, Succeeding, Alone
  <2>5. Todo(worker[w]) = {} /\ Removals(worker[w]) = {}
    BY <1>1, <2>3, ApplyingIs DEF NInv
  <2> QED BY <2>3, <2>4, <2>5 DEF RightsInv, HasCallback
<1>2. NInv /\ [Next]_vars =>
        \A w \in Workers :
          (/\ Alone(w) /\ ~worker[w].failed
           /\ row' # row /\ row'.state = "ready" /\ worker'[w].pc = "done") =>
          /\ worker[w].grant = "yes" => objs["edit"] = "good"
          /\ worker[w].grant = "no"  => objs["edit"] = "absent" \/ "edit" \in worker[w].denied
          /\ HasCallback(w) => objs["admin"] = "absent" \/ "admin" \in worker[w].denied
  BY <1>1
<1> QED BY <1>2, Invariance, PTL DEF Spec, RightsAsDecided

(* A cleaning that reports no error leaves of what there was when          *)
(* DeleteAction asked for its kind only what the cluster has denied: the   *)
(* list of a kind or the deletion of an object answered 403 or 404. Not    *)
(* every pod is gone then: one that replaces another is not asked for.     *)
THEOREM Cleaned == Spec => CleanedAsListed
<1>1. ASSUME NInv, [Next]_vars, NEW w \in Workers, Alone(w), ~worker[w].failed,
             worker'[w].pc = "done",
             NEW o \in worker[w].found \ worker[w].denied
      PROVE  objs[o] \in {"absent", "terminating"}
  <2>1. worker[w].pc # "done" /\ WorkerInv(Templates, worker[w]) /\ TypeOK
    BY <1>1 DEF Alone, Busy, NInv
  <2>2. ASSUME NEW v \in Workers, NEW op \in Ops, Begin(v, op)
        PROVE  FALSE
    BY <1>1, <2>1, <2>2, BeginIs
  <2>3. ASSUME NEW v \in Workers, NEW y, WStep(v, y)
        PROVE  worker[w].pc = "save"
    <3>1. v = w /\ worker'[w] = y
      BY <1>1, <2>3, OnlyTheBusyOne, WorkersNext
    <3> QED BY <1>1, <2>3, <3>1 DEF WStep, Moves
  <2>4. worker[w].pc = "save"
    <3>1. ~UNCHANGED vars /\ ~Environment
      BY <1>1, <2>1 DEF vars, Environment
    <3> QED BY <1>1, <2>2, <2>3, <3>1, StepIs DEF Next
  <2>5. CleanedInv(worker[w], objs)
    BY <1>1, <2>4 DEF NInv, OwnInv, Succeeding, Alone
  <2>6. Removals(worker[w]) = {}
    BY <2>1, <2>4, ApplyingIs
  <2>7. worker[w].op = "clean" /\ o \in Objects
    BY <1>1, <2>1 DEF WorkerInv, Worker
  <2>8. objs[o] \notin {"stale", "good"} /\ objs[o] \in Phases
    BY <1>1, <2>1, <2>5, <2>6, <2>7 DEF CleanedInv, TypeOK
  <2> QED BY <2>8 DEF Phases
<1>2. NInv /\ [Next]_vars =>
        \A w \in Workers :
          (Alone(w) /\ ~worker[w].failed /\ worker'[w].pc = "done") =>
          \A o \in worker[w].found \ worker[w].denied : objs[o] \in {"absent", "terminating"}
  BY <1>1
<1> QED BY <1>2, Invariance, PTL DEF Spec, CleanedAsListed
=============================================================================
