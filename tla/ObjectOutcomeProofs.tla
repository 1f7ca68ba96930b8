------------------------ MODULE ObjectOutcomeProofs ------------------------
(***************************************************************************)
(* Proofs about what an answer of ObjectEndpoints means, for all callers,  *)
(* kinds, methods, numbers of retries and faults: a creation has had a     *)
(* status, a deletion is under way, a patch did not go with its object,    *)
(* and callers who delete one another's work in conflicts do not lose the  *)
(* object without an error. They rest on the invariant IInv of the frames  *)
(* (ObjectEndpointsProofs).                                                *)
(***************************************************************************)
EXTENDS ObjectEndpointsProofs

(* Whether answers to creations of the kind wait for a status. *)
NeedsStatus(k) == k \in ProjectKinds \cup {"ResourceQuota"}

(* Whether a deletion answered without an error promises anything.         *)
Deletes(k, c) == c.action = "DELETE" \/ (c.action = "ENSURE_DELETION" /\ DoCheckAndContinue(k))

(* The codes that tell a deletion that there is nothing to do. *)
IsGone(code) == IsNotPresent(code) \/ code = Conflict

(* A creation that needs a status never leaves out GetObject. *)
KeepsGetObject(k, f) ==
  f.method.action = "POST" /\ NeedsStatus(k) =>
    /\ f.method.after \in {<<"GetObject">>, <<Redo, "GetObject">>}
    /\ f.at = "after" => f.left # <<Redo>>

(* What the frame on top of the stack of c has seen. *)
GoneSeen(k, c, marks, f) ==
  Deletes(k, c) /\ f.at = "after" /\ (IsGone(f.code) \/ ~(f.err \/ f.code = ServerError)) =>
    "gone" \in marks

StatusSeen(k, c, marks, f) ==
  c.action = "POST" /\ f.method.action = "POST" /\ NeedsStatus(k)
      /\ f.at = "after" /\ f.left = <<>> /\ ~Failed(f) =>
    "status" \in marks

AliveSeen(marks, f) ==
  f.method.action = "PATCH" /\ f.at = "before" /\ f.left = <<>> => "alive" \in marks

SeenInv(k, c, marks, f) ==
  /\ f.at = "before" => f.code = NoCode /\ ~f.err
  /\ ~Writing(c.action) => f.method.action = c.action
  /\ f.method.action = "PATCH" => c.action = "PATCH"
  /\ KeepsGetObject(k, f)
  /\ GoneSeen(k, c, marks, f)
  /\ StatusSeen(k, c, marks, f)
  /\ AliveSeen(marks, f)

(* The marks of c are those of the present phase.  *)
Noted(ph, c, marks) ==
  /\ Notes(c.action, ph) \subseteq marks
  /\ c.action = "POST" /\ "written" \in marks /\ HasValidStatus(ph) => "status" \in marks

SeenOfCall(ph, c, marks) ==
  c.stack # <<>> =>
    /\ Noted(ph, c, marks)
    /\ SeenInv(kind, c, marks, c.stack[1])
    /\ Len(c.stack) = 2 => Writing(c.action) /\ KeepsGetObject(kind, c.stack[2])

SInv == \A p \in Callers : SeenOfCall(phase, call[p], seen[p])

(* The object is not there, or not for long. *)
IsLost(ph) == ph \in {"absent", "terminating"}

(* A frame that will still create the object or fail. *)
Owes(f) ==
  \/ f.at = "before" /\ (f.method.action # "PATCH" \/ f.left # <<>>)
  \/ f.at = "after" /\ (f.method.action = "DELETE" \/ Failed(f))

(* A call that is not over, or keeps all from being answered without an error. *)
Unsettled(c) ==
  \/ ~Writing(c.action)
  \/ c.reply = "error"
  \/ c.stack # <<>> /\ Owes(c.stack[1])

SomebodyOwes == IsLost(phase) /\ Callers # {} => \E p \in Callers : Unsettled(call[p])

OutInv == IInv /\ SInv /\ SomebodyOwes

-----------------------------------------------------------------------------
(* Frames *)

(* Every mark is something that stays true.                                *)
LEMMA SeenMore ==
  ASSUME NEW k, NEW c, NEW m, NEW m2, m \subseteq m2, NEW f, SeenInv(k, c, m, f)
  PROVE  SeenInv(k, c, m2, f)
BY DEF SeenInv, GoneSeen, StatusSeen, AliveSeen

(* The next callback, or the end of the callbacks.                         *)
LEMMA SeenProceed ==
  ASSUME NEW k, NEW c, NEW m, NEW f, FrameInv(k, f), SeenInv(k, c, m, f), f.left # <<>>,
         StatusSeen(k, c, m, Proceed(f)), AliveSeen(m, Proceed(f))
  PROVE  SeenInv(k, c, m, Proceed(f))
<1> DEFINE g == Proceed(f)
<1>1. f \in Frame /\ f.method.action \in AllActions
  BY DEF FrameInv, MethodInv, Method
<1>2. /\ g.method = f.method /\ g.at = f.at /\ g.left = Tail(f.left)
      /\ g.code = f.code /\ g.err = f.err
  BY <1>1 DEF Proceed, Frame
<1>3. KeepsGetObject(k, g)
  <2> SUFFICES ASSUME f.method.action = "POST", f.at = "after"
               PROVE  Tail(f.left) # <<Redo>>
    BY <1>2 DEF KeepsGetObject, SeenInv
  <2>1. f.left = <<"GetObject">> \/ f.left = <<Redo>> \/ f.left = <<Redo, "GetObject">>
    BY DEF FrameInv, Afters, AftersOfRedone
  <2>2. Tail(f.left) = <<>> \/ Tail(f.left) = <<"GetObject">>
    BY ZenonT(60), <2>1, Tails
  <2> QED BY SMTT(40), <2>2 DEF Redo
<1> HIDE DEF g
<1>4. GoneSeen(k, c, m, g)
  BY <1>2 DEF SeenInv, GoneSeen
<1>5. StatusSeen(k, c, m, g) /\ AliveSeen(m, g)
  BY DEF g
<1> QED BY <1>2, <1>3, <1>4, <1>5 DEF SeenInv, g

(* After the request, only the end of the callbacks of a creation without  *)
(* an error has to show something.                                         *)
LEMMA SeenProceedAfter ==
  ASSUME NEW k, NEW c, NEW m, NEW f, FrameInv(k, f), SeenInv(k, c, m, f), f.left # <<>>,
         f.at = "after",
         /\ f.method.action = "POST" /\ NeedsStatus(k) /\ ~Failed(f) /\ Tail(f.left) = <<>>
            /\ c.action = "POST" => "status" \in m
  PROVE  SeenInv(k, c, m, Proceed(f))
<1> DEFINE g == Proceed(f)
<1>1. f \in Frame
  BY DEF FrameInv
<1>2. /\ g.method = f.method /\ g.at = f.at /\ g.left = Tail(f.left)
      /\ g.code = f.code /\ g.err = f.err
  BY <1>1 DEF Proceed, Frame
<1> HIDE DEF g
<1>3. StatusSeen(k, c, m, g) /\ AliveSeen(m, g)
  BY <1>2 DEF StatusSeen, AliveSeen, Failed
<1> QED BY <1>3, SeenProceed DEF g

(* An error after the request, one more try and an answer a deletion       *)
(* ignores.                                                                *)
LEMMA SeenChanged ==
  ASSUME NEW k, NEW c, NEW m, NEW f, f \in Frame, SeenInv(k, c, m, f)
  PROVE  /\ f.at = "after" => SeenInv(k, c, m, [f EXCEPT !.err = TRUE])
         /\ SeenInv(k, c, m, [f EXCEPT !.tries = @ + 1])
         /\ f.at = "after" /\ ~Writing(f.method.action) /\ IsGone(f.code) =>
              SeenInv(k, c, m, [f EXCEPT !.code = NoCode, !.err = FALSE])
<1>1. ASSUME f.at = "after"
      PROVE  SeenInv(k, c, m, [f EXCEPT !.err = TRUE])
  <2> DEFINE g == [f EXCEPT !.err = TRUE]
  <2>1. /\ g.method = f.method /\ g.at = f.at /\ g.left = f.left
        /\ g.code = f.code /\ g.err = TRUE
    BY DEF Frame
  <2> HIDE DEF g
  <2>2. SeenInv(k, c, m, g)
    BY <1>1, <2>1 DEF SeenInv, KeepsGetObject, GoneSeen, StatusSeen, AliveSeen, Failed
  <2> QED BY <2>2 DEF g
<1>2. SeenInv(k, c, m, [f EXCEPT !.tries = @ + 1])
  <2> DEFINE g == [f EXCEPT !.tries = @ + 1]
  <2>1. /\ g.method = f.method /\ g.at = f.at /\ g.left = f.left
        /\ g.code = f.code /\ g.err = f.err
    BY DEF Frame
  <2> HIDE DEF g
  <2>2. SeenInv(k, c, m, g)
    BY <2>1 DEF SeenInv, KeepsGetObject, GoneSeen, StatusSeen, AliveSeen, Failed
  <2> QED BY <2>2 DEF g
<1>3. ASSUME f.at = "after", ~Writing(f.method.action), IsGone(f.code)
      PROVE  SeenInv(k, c, m, [f EXCEPT !.code = NoCode, !.err = FALSE])
  <2> DEFINE g == [f EXCEPT !.code = NoCode, !.err = FALSE]
  <2>1. /\ g.method = f.method /\ g.at = f.at /\ g.left = f.left
    BY DEF Frame
  <2> HIDE DEF g
  <2>2. SeenInv(k, c, m, g)
    BY <1>3, <2>1 DEF SeenInv, KeepsGetObject, GoneSeen, StatusSeen, AliveSeen, Writing
  <2> QED BY <2>2 DEF g
<1> QED BY <1>1, <1>2, <1>3

(* apply ends before its request, with an error or, of ENSURE_DELETION,    *)
(* because there is nothing to delete.                                     *)
LEMMA SeenEnds ==
  ASSUME NEW k, NEW c, NEW m, NEW f, f \in Frame, SeenInv(k, c, m, f), f.at = "before",
         NEW err \in BOOLEAN,
         ~err => ~Writing(f.method.action) /\ (Deletes(k, c) => "gone" \in m)
  PROVE  SeenInv(k, c, m, Ends(f, err))
<1> DEFINE g == Ends(f, err)
<1>1. /\ g.method = f.method /\ g.at = "after" /\ g.left = <<>>
      /\ g.code = f.code /\ g.err = err
  BY DEF Ends, Frame
<1>2. f.code = NoCode /\ ~IsGone(NoCode)
  BY DEF SeenInv, IsGone, IsNotPresent, NoCode, NotFound, Forbidden, Conflict
<1>3. <<>> # <<Redo>>
  BY Tails
<1> HIDE DEF g
<1>4. GoneSeen(k, c, m, g) /\ StatusSeen(k, c, m, g) /\ AliveSeen(m, g)
  BY <1>1, <1>2 DEF GoneSeen, StatusSeen, AliveSeen, Failed, Writing
<1>5. KeepsGetObject(k, g)
  BY <1>1, <1>3 DEF SeenInv, KeepsGetObject
<1> QED BY <1>1, <1>4, <1>5 DEF SeenInv, g

(* apply starts with a method for which there are callbacks before a patch *)
(* and, where a status is waited for, GetObject after a creation.          *)
LEMMA SeenNew ==
  ASSUME NEW k, NEW c, NEW m, NEW method, MethodInv(k, method),
         ~Writing(c.action) => method.action = c.action,
         method.action = "PATCH" => c.action = "PATCH" /\ method.before # <<>>,
         method.action = "POST" /\ NeedsStatus(k) =>
           method.after \in {<<"GetObject">>, <<Redo, "GetObject">>}
  PROVE  SeenInv(k, c, m, NewFrame(method))
<1> DEFINE g == NewFrame(method)
<1>1. /\ g.method = method /\ g.at = "before" /\ g.left = method.before
      /\ g.code = NoCode /\ g.err = FALSE
  BY DEF NewFrame
<1> HIDE DEF g
<1>2. SeenInv(k, c, m, g)
  BY <1>1 DEF SeenInv, KeepsGetObject, GoneSeen, StatusSeen, AliveSeen
<1> QED BY <1>2 DEF g

(* The table has GetObject for what needs a status.                        *)
LEMMA TableKeepsGetObject ==
  ASSUME NEW k, NeedsStatus(k)
  PROVE  GetMethodDefinition(k, "POST").after \in {<<"GetObject">>, <<Redo, "GetObject">>}
BY DEF GetMethodDefinition, AfterDo, NeedsStatus, ProjectKinds, Redo

(* So has the method that is repeated.                                     *)
LEMMA RedoneKeepsGetObject ==
  ASSUME NEW m, m \in Method, m.after \in {<<"GetObject">>, <<Redo, "GetObject">>}
  PROVE  RemoveAfterDoCallback(m, Redo).after = <<"GetObject">>
<1> DEFINE kept == {i \in DOMAIN m.after : m.after[i] # Redo}
           first == CHOOSE i \in kept : \A j \in kept : i <= j
<1>1. kept # {} /\ \A i \in kept : m.after[i] = "GetObject"
  BY DEF Redo
<1>2. \E i \in kept : \A j \in kept : i <= j
  BY DEF Redo
<1>3. first \in kept
  BY <1>2
<1>4. RemoveAfterDoCallback(m, Redo) = [m EXCEPT !.after = <<m.after[first]>>]
  BY <1>1 DEF RemoveAfterDoCallback, Method
<1> HIDE DEF first
<1> QED BY <1>1, <1>3, <1>4 DEF Method

-----------------------------------------------------------------------------
(* Steps of the object *)

(* What a request does to the marks of all calls.                          *)
NotedKept ==
  /\ kind' = kind
  /\ \A q \in Callers : Busy(q) => seen[q] \subseteq seen'[q] /\ Noted(phase', call[q], seen'[q])

(* Only the writer of the object is marked as one.                         *)
OnlyWrittenBy(writers) ==
  \A q \in Callers \ writers : "written" \in seen'[q] => "written" \in seen[q]

LEMMA StaysNoted ==
  ASSUME SInv, PhaseStays, kind' = kind
  PROVE  NotedKept /\ OnlyWrittenBy({}) /\ phase' = phase /\ seen' = seen
BY DEF SInv, SeenOfCall, PhaseStays, NotedKept, Noted, Busy, OnlyWrittenBy

LEMMA BecomesNoted ==
  ASSUME SInv, NEW ph, NEW writers, PhaseBecomes(ph, writers), kind' = kind
  PROVE  NotedKept /\ OnlyWrittenBy(writers) /\ phase' = ph
<1>1. phase' = ph
  BY DEF PhaseBecomes
<1>2. ASSUME NEW q \in Callers, Busy(q)
      PROVE  /\ seen[q] \subseteq seen'[q] /\ Notes(call[q].action, ph) \subseteq seen'[q]
             /\ "written" \in seen'[q] => q \in writers \/ "written" \in seen[q]
                                            \/ "written" \in Notes(call[q].action, ph)
             /\ q \in writers \/ "written" \in seen[q] =>
                  (call[q].action = "POST" /\ HasValidStatus(ph) => "status" \in seen'[q])
  BY <1>2 DEF PhaseBecomes
<1>3. \A q \in Callers : "written" \notin Notes(call[q].action, ph)
  BY DEF Notes
<1>4. \A q \in Callers : ~Busy(q) => seen'[q] = {}
  BY DEF PhaseBecomes
<1>5. NotedKept
  BY <1>1, <1>2, <1>3 DEF NotedKept, Noted
<1>6. OnlyWrittenBy(writers)
  BY <1>2, <1>3, <1>4 DEF OnlyWrittenBy
<1> QED BY <1>1, <1>5, <1>6

(* What is read of the object by GET.                                      *)
LEMMA GetSeen ==
  ASSUME SInv, NEW p \in Callers, Busy(p), NEW master, NEW code, Get(master, code), kind' = kind
  PROVE  /\ NotedKept /\ OnlyWrittenBy({}) /\ phase' = phase /\ seen' = seen
         /\ IsNotPresent(code) => phase \in {"absent", "foreign"}
         /\ code = OK => phase # "absent"
         /\ Notes(call[p].action, phase) \subseteq seen'[p]
<1>1. NotedKept /\ OnlyWrittenBy({}) /\ phase' = phase /\ seen' = seen
  BY StaysNoted DEF Get
<1>2. Notes(call[p].action, phase) \subseteq seen'[p]
  BY <1>1 DEF SInv, SeenOfCall, Noted, Busy
<1>3. IsNotPresent(code) => phase \in {"absent", "foreign"}
  BY DEF Get, IsNotPresent, IsHidden, NotFound, Forbidden, OK, ServerError, NoCode
<1>4. code = OK => phase # "absent"
  BY DEF Get, IsHidden, NotFound, OK, ServerError, NoCode
<1> QED BY <1>1, <1>2, <1>3, <1>4

-----------------------------------------------------------------------------
(* Steps of a caller *)

(* What a frame that replaces the top of a stack has to show of the object:*)
(* a caller who owes it still does, as long as it is not there.            *)
StillOwes(p, frame) ==
  Writing(call[p].action) /\ IsLost(phase') /\ (IsLost(phase) => Owes(Top(p))) => Owes(frame)

(* What is known of a busy caller. *)
LEMMA OnTop ==
  ASSUME OutInv, NEW p \in Callers, Busy(p)
  PROVE  /\ call[p] \in Call /\ call[p].reply = "none" /\ call[p].action \in AllActions
         /\ call[p].stack \in Upto2(Frame) /\ Len(call[p].stack) \in {1, 2}
         /\ FrameInv(kind, Top(p)) /\ Top(p) \in Frame /\ Top(p).method.action \in AllActions
         /\ TopOf(p, seen[p]) /\ SeenInv(kind, call[p], seen[p], Top(p))
         /\ Noted(phase, call[p], seen[p])
         /\ ~Writing(Top(p).method.action) /\ Len(call[p].stack) = 1 => ~Writing(call[p].action)
         /\ Len(call[p].stack) = 2 => Writing(call[p].action)
         /\ Unsettled(call[p]) <=> ~Writing(call[p].action) \/ Owes(Top(p))
<1>1. call[p] \in Call /\ call[p].stack \in Upto2(Frame) /\ call[p].stack # <<>>
  BY DEF OutInv, IInv, TypeOK, Call, Busy
<1>2. Len(call[p].stack) \in {1, 2}
  BY <1>1, ShortSequence
<1>3. CallInv(kind, phase, call[p], seen[p]) /\ SeenOfCall(phase, call[p], seen[p])
  BY DEF OutInv, IInv, SInv
<1>4. /\ call[p].reply = "none" /\ call[p].action \in AllActions /\ TopOf(p, seen[p])
      /\ FrameInv(kind, Top(p))
  BY <1>1, <1>3 DEF CallInv, TopOf, TopInv, Top
<1>5. Top(p) \in Frame /\ Top(p).method.action \in AllActions
  BY <1>4 DEF FrameInv, MethodInv, Method
<1>6. /\ SeenInv(kind, call[p], seen[p], Top(p)) /\ Noted(phase, call[p], seen[p])
      /\ Len(call[p].stack) = 2 => Writing(call[p].action)
  BY <1>1, <1>3 DEF SeenOfCall, Top
<1>7. Len(call[p].stack) = 1 /\ Writing(call[p].action) => Writing(Top(p).method.action)
  BY <1>4 DEF TopOf, TopInv
<1>8. Unsettled(call[p]) <=> ~Writing(call[p].action) \/ Owes(Top(p))
  BY <1>1, <1>4 DEF Unsettled, Top
<1> QED BY <1>1, <1>2, <1>4, <1>5, <1>6, <1>7, <1>8

(* What is shown of all calls is the invariant of the next state. *)
LEMMA SeenNext ==
  ASSUME kind' = kind, \A q \in Callers : SeenOfCall(phase', call'[q], seen'[q])
  PROVE  SInv'
BY DEF SInv, SeenOfCall, Noted, Notes

(* A call that does not change keeps what it has seen.                     *)
LEMMA SeenOfOther ==
  ASSUME OutInv, NotedKept, NEW q \in Callers
  PROVE  SeenOfCall(phase', call[q], seen'[q])
<1> SUFFICES ASSUME call[q].stack # <<>>
             PROVE  SeenOfCall(phase', call[q], seen'[q])
  BY DEF SeenOfCall
<1>1. SeenOfCall(phase, call[q], seen[q])
  BY DEF OutInv, SInv
<1>2. seen[q] \subseteq seen'[q] /\ Noted(phase', call[q], seen'[q])
  BY DEF NotedKept, Busy
<1>3. SeenInv(kind, call[q], seen'[q], call[q].stack[1])
  BY <1>1, <1>2, SeenMore DEF SeenOfCall
<1> QED BY <1>1, <1>2, <1>3 DEF SeenOfCall

(* A step that sets one call to one that satisfies the invariant keeps it. *)
LEMMA SeenCallSet ==
  ASSUME OutInv, IInv', NEW p \in Callers, NotedKept, NEW c,
         call' = [call EXCEPT ![p] = c], SeenOfCall(phase', c, seen'[p]),
         IsLost(phase') /\ (IsLost(phase) => Unsettled(call[p])) => Unsettled(c)
  PROVE  OutInv'
<1>1. \A q \in Callers : call'[q] = IF q = p THEN c ELSE call[q]
  BY DEF OutInv, IInv, TypeOK
<1>2. \A q \in Callers : SeenOfCall(phase', call'[q], seen'[q])
  BY <1>1, SeenOfOther
<1>3. SInv'
  BY <1>2, SeenNext DEF NotedKept
<1>4. ASSUME IsLost(phase'), Callers # {}
      PROVE  \E q \in Callers : Unsettled(call'[q])
  <2>1. CASE Unsettled(c)
    BY <1>1, <2>1
  <2>2. CASE ~Unsettled(c)
    <3>1. IsLost(phase) /\ ~Unsettled(call[p])
      BY <1>4, <2>2
    <3>2. PICK q \in Callers : Unsettled(call[q])
      BY <1>4, <3>1 DEF OutInv, SomebodyOwes
    <3> QED BY <1>1, <3>1, <3>2
  <2> QED BY <2>1, <2>2
<1>5. SomebodyOwes'
  BY <1>4 DEF SomebodyOwes
<1> QED BY <1>3, <1>5 DEF OutInv

(* Only the action of a call matters for what its frames have seen.        *)
LEMMA SameAction ==
  ASSUME NEW k, NEW ph, NEW c, NEW d, c.action = d.action, NEW m, NEW f
  PROVE  /\ SeenInv(k, c, m, f) <=> SeenInv(k, d, m, f)
         /\ Noted(ph, c, m) <=> Noted(ph, d, m)
BY DEF SeenInv, GoneSeen, Deletes, StatusSeen, Noted

(* So does a step that sets the stack of a call to another one.            *)
LEMMA SeenStackSet ==
  ASSUME OutInv, IInv', NEW p \in Callers, Busy(p), NotedKept, NEW s, s # <<>>,
         call' = [call EXCEPT ![p] = [call[p] EXCEPT !.stack = s]],
         SeenInv(kind, call[p], seen'[p], s[1]), StillOwes(p, s[1]),
         Len(s) = 2 => Writing(call[p].action) /\ KeepsGetObject(kind, s[2])
  PROVE  OutInv'
<1> DEFINE c == [call[p] EXCEPT !.stack = s]
<1>1. call[p] \in Call /\ (Unsettled(call[p]) <=> ~Writing(call[p].action) \/ Owes(Top(p)))
  BY OnTop
<1>2. c.action = call[p].action /\ c.reply = call[p].reply /\ c.stack = s
  BY <1>1 DEF Call
<1> HIDE DEF c
<1>3. Noted(phase', call[p], seen'[p])
  BY DEF NotedKept
<1>4. SeenInv(kind, c, seen'[p], s[1]) /\ Noted(phase', c, seen'[p])
  BY <1>2, <1>3, SameAction
<1>5. SeenOfCall(phase', c, seen'[p])
  BY <1>2, <1>4 DEF SeenOfCall
<1>6. IsLost(phase') /\ (IsLost(phase) => Unsettled(call[p])) => Unsettled(c)
  BY <1>1, <1>2 DEF Unsettled, StillOwes
<1>7. call' = [call EXCEPT ![p] = c]
  BY DEF c
<1> QED BY <1>5, <1>6, <1>7, SeenCallSet

(* So does one that replaces the top of its stack.                         *)
LEMMA SeenTopSet ==
  ASSUME OutInv, IInv', NEW p \in Callers, Busy(p), NotedKept, NEW frame, SetTop(p, frame),
         SeenInv(kind, call[p], seen'[p], frame), StillOwes(p, frame)
  PROVE  OutInv'
<1> DEFINE S == Frame \cup {frame}
           s == [call[p].stack EXCEPT ![1] = frame]
<1>1. call[p] \in Call /\ call[p].stack \in Upto2(Frame) /\ call[p].stack # <<>>
  BY OnTop DEF Busy
<1>2. call[p].stack \in Upto2(S) /\ frame \in S
  BY <1>1 DEF Upto2
<1> HIDE DEF S
<1>3. /\ s # <<>> /\ Len(s) = Len(call[p].stack) /\ s[1] = frame
      /\ Len(call[p].stack) = 2 => s[2] = call[p].stack[2]
  BY <1>1, <1>2, ShortReplaced
<1>4. call' = [call EXCEPT ![p] = [call[p] EXCEPT !.stack = s]]
  BY <1>1 DEF SetTop, OutInv, IInv, TypeOK, Call
<1>5. Len(call[p].stack) = 2 => Writing(call[p].action) /\ KeepsGetObject(kind, call[p].stack[2])
  BY <1>1 DEF OutInv, SInv, SeenOfCall
<1> HIDE DEF s
<1> QED BY <1>3, <1>4, <1>5, SeenStackSet

(* While the object stays as it is, a frame owes it if the one before did. *)
LEMMA StaysOwed ==
  ASSUME phase' = phase, NEW p \in Callers, NEW frame, Owes(Top(p)) => Owes(frame)
  PROVE  StillOwes(p, frame)
BY DEF StillOwes

(* One more try, or the frame that ends the tries.                         *)
LEMMA SeenRetrySet ==
  ASSUME OutInv, IInv', NEW p \in Callers, Busy(p), NotedKept, phase' = phase, NEW frame,
         NEW callback, RetryOr(p, callback, frame),
         SeenInv(kind, call[p], seen'[p], Top(p)),
         SeenInv(kind, call[p], seen'[p], frame), StillOwes(p, frame)
  PROVE  OutInv'
<1> DEFINE again == [Top(p) EXCEPT !.tries = @ + 1]
<1>1. Top(p) \in Frame
  BY OnTop
<1>2. SeenInv(kind, call[p], seen'[p], again)
  BY <1>1, SeenChanged
<1>3. /\ again.at = Top(p).at /\ again.method = Top(p).method /\ again.left = Top(p).left
      /\ again.code = Top(p).code /\ again.err = Top(p).err
  BY <1>1 DEF Frame
<1>4. SetTop(p, again) \/ SetTop(p, frame)
  BY DEF RetryOr
<1> HIDE DEF again
<1>5. StillOwes(p, again)
  BY <1>3, StaysOwed DEF Owes, Failed
<1> QED BY <1>2, <1>4, <1>5, SeenTopSet

-----------------------------------------------------------------------------
(* The callbacks before the request *)

(* What is known of the caller that runs a callback.                       *)
LEMMA RunsOnTop ==
  ASSUME OutInv, NEW p \in Callers, NEW callback, Runs(p, callback)
  PROVE  /\ Busy(p) /\ Top(p).left # <<>> /\ Top(p).left[1] = callback
         /\ FrameInv(kind, Top(p)) /\ Top(p) \in Frame /\ TopOf(p, seen[p])
         /\ SeenInv(kind, call[p], seen[p], Top(p)) /\ Noted(phase, call[p], seen[p])
BY OnTop DEF Runs

(* GetObjectAndMerge goes on with a patch of something alive, or with a    *)
(* creation that waits for a status where one is needed.                   *)
LEMMA GetObjectAndMergeSeen ==
  ASSUME OutInv, NEW p \in Callers, GetObjectAndMerge(p)
  PROVE  OutInv' /\ OnlyWrittenBy({})
<1> DEFINE top == Top(p)
           c == call[p]
           post == GetMethodDefinition(kind, "POST")
           creates == [top EXCEPT !.method = post]
<1>1. Runs(p, "GetObjectAndMerge") /\ kind' = kind /\ IInv'
  BY GetObjectAndMergeKeeps DEF GetObjectAndMerge, OutInv
<1>2. /\ Busy(p) /\ FrameInv(kind, top) /\ top \in Frame /\ top.left # <<>>
      /\ SeenInv(kind, c, seen[p], top) /\ top.at = "before" /\ top.method.action = "PATCH"
      /\ c.action = "PATCH"
  BY <1>1, RunsOnTop, RunningFrame DEF SeenInv
<1>3. PICK code \in Codes :
        /\ Get(GetIsMaster(p), code)
        /\ \/ IsNotPresent(code) /\ SetTop(p, Proceed(creates))
           \/ code = OK /\ phase # "terminating" /\ SetTop(p, Proceed(top))
           \/ RetryOr(p, "GetObjectAndMerge", Ends(top, TRUE))
  BY DEF GetObjectAndMerge
<1>4. /\ NotedKept /\ OnlyWrittenBy({}) /\ phase' = phase /\ seen' = seen
      /\ code = OK => phase # "absent"
      /\ Notes(c.action, phase) \subseteq seen'[p]
  BY <1>1, <1>2, <1>3, GetSeen DEF OutInv
<1>5. CASE SetTop(p, Proceed(creates))
  <2> DEFINE g == Proceed(creates)
  <2>1. /\ g.method = post /\ g.at = "before" /\ g.code = top.code /\ g.err = top.err
    BY <1>2 DEF Proceed, Frame
  <2>2. post.action = "POST"
    BY TableMethod DEF AllActions
  <2>3. NeedsStatus(kind) => post.after \in {<<"GetObject">>, <<Redo, "GetObject">>}
    BY TableKeepsGetObject
  <2> HIDE DEF g, post
  <2>4. SeenInv(kind, c, seen'[p], g)
    BY <1>2, <2>1, <2>2, <2>3
       DEF SeenInv, KeepsGetObject, GoneSeen, StatusSeen, AliveSeen, Writing
  <2>5. StillOwes(p, g)
    BY <2>1, <2>2 DEF StillOwes, Owes
  <2>6. SetTop(p, g)
    BY <1>5 DEF g, post
  <2> QED BY <1>1, <1>2, <1>4, <2>4, <2>5, <2>6, SeenTopSet
<1>6. CASE code = OK /\ phase # "terminating" /\ SetTop(p, Proceed(top))
  <2>1. phase \in {"fresh", "active", "foreign"}
    BY <1>4, <1>6 DEF OutInv, IInv, TypeOK, Phases
  <2>2. "alive" \in seen'[p]
    BY <1>2, <1>4, <2>1 DEF Notes
  <2>3. SeenInv(kind, c, seen'[p], Proceed(top))
    <3>1. Proceed(top).at = "before"
      BY <1>2 DEF Proceed, Frame
    <3> QED BY <1>2, <1>4, <2>2, <3>1, SeenProceed DEF StatusSeen, AliveSeen
  <2>4. StillOwes(p, Proceed(top))
    BY <1>4, <2>1 DEF StillOwes, IsLost
  <2> QED BY <1>1, <1>2, <1>4, <1>6, <2>3, <2>4, SeenTopSet
<1>7. CASE RetryOr(p, "GetObjectAndMerge", Ends(top, TRUE))
  <2>1. SeenInv(kind, c, seen'[p], Ends(top, TRUE))
    BY <1>2, <1>4, SeenEnds
  <2>2. StillOwes(p, Ends(top, TRUE))
    BY <1>2 DEF StillOwes, Owes, Ends, Failed, Frame
  <2> QED BY <1>1, <1>2, <1>4, <1>7, <2>1, <2>2, SeenRetrySet
<1> QED BY <1>3, <1>4, <1>5, <1>6, <1>7

(* FailIfAlreadyExists goes on with the creation, or ends with an error.   *)
LEMMA FailIfAlreadyExistsSeen ==
  ASSUME OutInv, NEW p \in Callers, FailIfAlreadyExists(p)
  PROVE  OutInv' /\ OnlyWrittenBy({})
<1> DEFINE top == Top(p)
           c == call[p]
<1>1. Runs(p, "FailIfAlreadyExists") /\ kind' = kind /\ IInv'
  BY FailIfAlreadyExistsKeeps DEF FailIfAlreadyExists, OutInv
<1>2. /\ Busy(p) /\ FrameInv(kind, top) /\ top \in Frame /\ top.left # <<>>
      /\ SeenInv(kind, c, seen[p], top) /\ top.at = "before" /\ top.method.action = "POST"
  BY <1>1, RunsOnTop, RunningFrame
<1>3. PICK code \in Codes :
        /\ Get(TRUE, code)
        /\ SetTop(p, Proceed(top)) \/ SetTop(p, Ends(top, TRUE))
  BY DEF FailIfAlreadyExists
<1>4. NotedKept /\ OnlyWrittenBy({}) /\ phase' = phase /\ seen' = seen
  BY <1>1, <1>2, <1>3, GetSeen DEF OutInv
<1>5. /\ Proceed(top).at = "before" /\ Proceed(top).method = top.method
  BY <1>2 DEF Proceed, Frame
<1>6. SeenInv(kind, c, seen'[p], Proceed(top)) /\ StillOwes(p, Proceed(top))
  BY <1>2, <1>4, <1>5, SeenProceed DEF StatusSeen, AliveSeen, StillOwes, Owes
<1>7. SeenInv(kind, c, seen'[p], Ends(top, TRUE))
  BY <1>2, <1>4, SeenEnds
<1>8. StillOwes(p, Ends(top, TRUE))
  BY <1>2 DEF StillOwes, Owes, Ends, Failed, Frame
<1> QED BY <1>1, <1>2, <1>3, <1>4, <1>6, <1>7, <1>8, SeenTopSet

(* WaitUntilIsRemoved ends when the object is gone, or nothing is          *)
(* promised, and deletes it otherwise.                                     *)
LEMMA WaitUntilIsRemovedSeen ==
  ASSUME OutInv, NEW p \in Callers, WaitUntilIsRemoved(p)
  PROVE  OutInv' /\ OnlyWrittenBy({})
<1> DEFINE top == Top(p)
           c == call[p]
           ensuring == AddAfterDoCallbackIfNotExist(top.method, "TryToWaitUntilIsGone")
           frame == Proceed([top EXCEPT !.method = ensuring])
<1>1. Runs(p, "WaitUntilIsRemoved") /\ kind' = kind /\ IInv'
  BY WaitUntilIsRemovedKeeps DEF WaitUntilIsRemoved, OutInv
<1>2. /\ Busy(p) /\ FrameInv(kind, top) /\ top \in Frame /\ top.left # <<>>
      /\ SeenInv(kind, c, seen[p], top) /\ top.at = "before"
      /\ top.method.action = "ENSURE_DELETION"
  BY <1>1, RunsOnTop, RunningFrame
<1>3. ~Writing(c.action) /\ c.action = "ENSURE_DELETION"
  <2>1. TopOf(p, seen[p]) /\ Len(c.stack) \in {1, 2}
    BY <1>2, OnTop
  <2>2. ~Writing(c.action)
    BY <1>2, <2>1 DEF TopOf, TopInv, Nested, Writing
  <2> QED BY <1>2, <2>2 DEF SeenInv
<1>4. \A f : StillOwes(p, f)
  BY <1>3 DEF StillOwes
<1>5. CASE ~DoCheckAndContinue(kind) /\ SetTop(p, Ends(top, FALSE)) /\ PhaseStays
  <2>1. NotedKept /\ OnlyWrittenBy({}) /\ phase' = phase /\ seen' = seen
    BY <1>1, <1>5, StaysNoted DEF OutInv
  <2>2. SeenInv(kind, c, seen'[p], Ends(top, FALSE))
    BY <1>2, <1>3, <1>5, <2>1, SeenEnds DEF Deletes, Writing
  <2> QED BY <1>1, <1>2, <1>4, <1>5, <2>1, <2>2, SeenTopSet
<1>6. ASSUME NEW code \in Codes, Get(GetIsMaster(p), code),
             \/ IsNotPresent(code) /\ SetTop(p, Ends(top, FALSE))
             \/ RetryOr(p, "WaitUntilIsRemoved", frame)
      PROVE  OutInv' /\ OnlyWrittenBy({})
  <2>1. /\ NotedKept /\ OnlyWrittenBy({}) /\ phase' = phase /\ seen' = seen
        /\ IsNotPresent(code) => phase \in {"absent", "foreign"}
        /\ Notes(c.action, phase) \subseteq seen'[p]
    BY <1>1, <1>2, <1>6, GetSeen DEF OutInv
  <2>2. CASE IsNotPresent(code) /\ SetTop(p, Ends(top, FALSE))
    <3>1. "gone" \in seen'[p]
      BY <1>3, <2>1, <2>2 DEF Notes
    <3>2. SeenInv(kind, c, seen'[p], Ends(top, FALSE))
      BY <1>2, <2>1, <3>1, SeenEnds DEF Writing
    <3> QED BY <1>1, <1>2, <1>4, <2>1, <2>2, <3>2, SeenTopSet
  <2>3. CASE RetryOr(p, "WaitUntilIsRemoved", frame)
    <3>1. ensuring.action = "ENSURE_DELETION"
      BY <1>2, EnsuringMethod DEF FrameInv
    <3> HIDE DEF ensuring
    <3>2. /\ frame.method = ensuring /\ frame.at = "before" /\ frame.code = top.code
          /\ frame.err = top.err
      BY <1>2 DEF Proceed, Frame
    <3> HIDE DEF frame
    <3>3. SeenInv(kind, c, seen'[p], frame)
      BY <1>2, <1>3, <3>1, <3>2
         DEF SeenInv, KeepsGetObject, GoneSeen, StatusSeen, AliveSeen
    <3> QED BY <1>1, <1>2, <1>4, <2>1, <2>3, <3>3, SeenRetrySet
  <2> QED BY <1>6, <2>2, <2>3
<1> QED BY <1>5, <1>6 DEF WaitUntilIsRemoved

-----------------------------------------------------------------------------
(* The request *)

(* The body of PatchWaitsForRemoval. *)
PatchWaits ==
  \A p \in Callers :
    (phase' = "terminating" /\ call[p].action = "PATCH"
      /\ "written" \in seen'[p] \ seen[p]) => "alive" \in seen[p]

(* Who does not write an object does not patch it.                         *)
LEMMA NothingPatched ==
  ASSUME OnlyWrittenBy({})
  PROVE  PatchWaits
BY DEF OnlyWrittenBy, PatchWaits

(* What a served request does to the object, by its method; after a        *)
(* deletion was served there is nothing to delete, whatever its code.      *)
LEMMA ServeSeen ==
  ASSUME OutInv, NEW p \in Callers, Busy(p), NEW action \in AllActions, NEW master, NEW code,
         Serve(p, action, master, code), kind' = kind
  PROVE  /\ NotedKept
         /\ OnlyWrittenBy(IF Writing(action) THEN {p} ELSE {})
         /\ action = "POST" =>
              (code = OK /\ phase' = "fresh") \/ (code = Conflict /\ phase' = phase)
         /\ action = "PATCH" => phase' = phase /\ code \in {OK, NotFound, Forbidden}
         /\ ~Writing(action) /\ call[p].action = action => "gone" \in seen'[p]
<1>1. SInv
  BY DEF OutInv
<1>2. CASE action = "POST"
  <2>1. Post(p, code)
    BY <1>2 DEF Serve
  <2>2. CASE PhaseBecomes("fresh", {p}) /\ code = OK
    BY <1>1, <1>2, <2>2, BecomesNoted DEF Writing
  <2>3. CASE PhaseStays /\ code = Conflict
    BY <1>1, <1>2, <2>3, StaysNoted DEF Writing, OnlyWrittenBy
  <2> QED BY <2>1, <2>2, <2>3 DEF Post
<1>3. CASE action = "PATCH"
  <2>1. Patch(p, master, code)
    BY <1>3 DEF Serve
  <2>2. CASE PhaseBecomes(phase, {p}) /\ code = OK
    BY <1>1, <1>3, <2>2, BecomesNoted DEF Writing
  <2>3. CASE PhaseStays /\ code \in {NotFound, Forbidden}
    BY <1>1, <1>3, <2>3, StaysNoted DEF Writing, OnlyWrittenBy
  <2> QED BY <2>1, <2>2, <2>3 DEF Patch
<1>4. CASE action \in {"DELETE", "ENSURE_DELETION"}
  <2>1. Delete(master, code)
    BY <1>4 DEF Serve
  <2>2. ~Writing(action) /\ action # "POST" /\ action # "PATCH"
    BY <1>4 DEF Writing
  <2>3. CASE PhaseStays /\ phase \in {"absent", "terminating", "foreign"}
    <3>1. NotedKept /\ OnlyWrittenBy({}) /\ phase' = phase
      BY <1>1, <2>3, StaysNoted
    <3>2. call[p].action = action => "gone" \in seen'[p]
      BY <1>4, <2>3, <3>1 DEF NotedKept, Noted, Notes
    <3> QED BY <2>2, <3>1, <3>2
  <2>4. CASE \E ph \in {"absent", "terminating"} : PhaseBecomes(ph, {})
    <3>1. PICK ph \in {"absent", "terminating"} : PhaseBecomes(ph, {})
      BY <2>4
    <3>2. NotedKept /\ OnlyWrittenBy({}) /\ phase' = ph
      BY <1>1, <3>1, BecomesNoted
    <3>3. call[p].action = action => "gone" \in seen'[p]
      BY <1>4, <3>2 DEF NotedKept, Noted, Notes
    <3> QED BY <2>2, <3>2, <3>3
  <2> QED BY <2>1, <2>3, <2>4 DEF Delete, IsHidden
<1> QED BY <1>2, <1>3, <1>4 DEF AllActions

(* The request of the method on top of a stack.                            *)
LEMMA DoSeen ==
  ASSUME OutInv, NEW p \in Callers, Do(p)
  PROVE  OutInv' /\ PatchWaits
<1> DEFINE top == Top(p)
           c == call[p]
           method == top.method
           answered(code) == [top EXCEPT !.at = "after", !.left = method.after,
                                         !.result = code, !.code = code]
<1>1. /\ Busy(p) /\ kind' = kind /\ top.at = "before" /\ top.left = <<>> /\ IInv'
  BY DoKeeps DEF Do, AboutToDo, OutInv
<1>2. /\ FrameInv(kind, top) /\ top \in Frame /\ method.action \in AllActions
      /\ SeenInv(kind, c, seen[p], top) /\ TopOf(p, seen[p]) /\ Len(c.stack) \in {1, 2}
  BY <1>1, OnTop
<1>3. /\ method.action = "ENSURE_DELETION" => ~Writing(c.action)
      /\ ~Writing(c.action) => method.action = c.action
  BY <1>2 DEF TopOf, TopInv, Nested, Writing, SeenInv
<1>4. PICK code \in Codes :
       LET serve == Serve(p, method.action, UsesMaster(p, method), code)
       IN  \/ serve /\ SetTop(p, answered(code))
           \/ PhaseStays /\ code = ServerError /\ SetTop(p, answered(code))
           \/ serve /\ SetTop(p, Ends(top, TRUE))
           \/ PhaseStays /\ SetTop(p, Ends(top, TRUE))
  BY DEF Do
<1> DEFINE serve == Serve(p, method.action, UsesMaster(p, method), code)
<1>5. serve \/ PhaseStays
  BY <1>4
<1>6. serve => /\ NotedKept
               /\ OnlyWrittenBy(IF Writing(method.action) THEN {p} ELSE {})
               /\ method.action = "POST" =>
                    (code = OK /\ phase' = "fresh") \/ (code = Conflict /\ phase' = phase)
               /\ method.action = "PATCH" => phase' = phase
               /\ ~Writing(method.action) /\ c.action = method.action => "gone" \in seen'[p]
  BY <1>1, <1>2, ServeSeen
<1>7. PhaseStays => NotedKept /\ OnlyWrittenBy({}) /\ phase' = phase
  BY <1>1, StaysNoted DEF OutInv
<1> HIDE DEF serve
<1>8. NotedKept /\ SeenInv(kind, c, seen'[p], top)
  BY <1>1, <1>2, <1>5, <1>6, <1>7, SeenMore DEF NotedKept
<1>9. PatchWaits
  <2>1. CASE PhaseStays
    BY <1>7, <2>1, NothingPatched
  <2>2. CASE serve
    <3> SUFFICES ASSUME NEW q \in Callers, phase' = "terminating", call[q].action = "PATCH",
                        "written" \in seen'[q] \ seen[q]
                 PROVE  "alive" \in seen[q]
      BY DEF PatchWaits
    <3>1. q = p /\ Writing(method.action)
      BY <1>6, <2>2 DEF OnlyWrittenBy
    <3>2. CASE method.action = "PATCH"
      BY <1>1, <1>2, <3>1, <3>2 DEF SeenInv, AliveSeen
    <3>3. CASE method.action = "POST"
      <4>1. phase = "terminating" /\ code = Conflict /\ code # OK
        BY <1>6, <2>2, <3>3 DEF OK, Conflict
      <4>2. PhaseStays
        BY <2>2, <3>3, <4>1 DEF serve, Serve, Post
      <4> QED BY <1>7, <3>1, <4>2 DEF OnlyWrittenBy
    <3> QED BY <3>1, <3>2, <3>3 DEF Writing
  <2> QED BY <1>5, <2>1, <2>2
<1>10. ASSUME SetTop(p, answered(code)), serve \/ (PhaseStays /\ code = ServerError)
       PROVE  OutInv'
  <2> DEFINE g == answered(code)
  <2>1. /\ g.method = method /\ g.at = "after" /\ g.left = method.after
        /\ g.code = code /\ g.err = FALSE
    BY <1>1, <1>2 DEF Frame, SeenInv
  <2>2. KeepsGetObject(kind, g) /\ (method.action = "POST" /\ NeedsStatus(kind) => g.left # <<>>)
    <3> SUFFICES ASSUME method.action = "POST", NeedsStatus(kind)
                 PROVE  KeepsGetObject(kind, g) /\ g.left # <<>>
      BY <2>1 DEF KeepsGetObject
    <3>1. method.after = <<"GetObject">> \/ method.after = <<Redo, "GetObject">>
      BY <1>8 DEF SeenInv, KeepsGetObject
    <3>2. <<"GetObject">> # <<Redo>> /\ <<Redo, "GetObject">> # <<Redo>>
      BY Tails DEF Redo
    <3>3. method.after # <<>> /\ method.after # <<Redo>>
      BY <3>1, <3>2, Tails
    <3> HIDE DEF g
    <3> QED BY <2>1, <3>1, <3>3 DEF KeepsGetObject
  <2>3. GoneSeen(kind, c, seen'[p], g)
    <3> SUFFICES ASSUME Deletes(kind, c), IsGone(code) \/ code # ServerError
                 PROVE  "gone" \in seen'[p]
      BY <2>1 DEF GoneSeen
    <3>1. ~Writing(c.action)
      BY DEF Deletes, Writing
    <3>2. serve
      BY <1>10 DEF IsGone, IsNotPresent, ServerError, NotFound, Forbidden, Conflict
    <3> QED BY <1>3, <1>6, <3>1, <3>2
  <2>4. StillOwes(p, g)
    <3> SUFFICES ASSUME Writing(c.action), IsLost(phase'), IsLost(phase) => Owes(top)
                 PROVE  Owes(g)
      BY DEF StillOwes
    <3>1. CASE method.action = "DELETE"
      BY <2>1, <3>1 DEF Owes
    <3>2. CASE method.action = "POST"
      <4>1. code \in {Conflict, ServerError}
        BY <1>6, <1>10, <3>2 DEF IsLost
      <4>2. Failed(g)
        BY <2>1, <4>1 DEF Failed, Bad, Conflict, ServerError, OK, NoCode
      <4> QED BY <2>1, <4>2 DEF Owes
    <3>3. CASE method.action = "PATCH"
      <4>1. phase' = phase
        BY <1>5, <1>6, <1>7, <3>3
      <4> QED BY <1>1, <3>3, <4>1 DEF Owes
    <3> QED BY <1>2, <1>3, <3>1, <3>2, <3>3 DEF AllActions
  <2> HIDE DEF g
  <2>5. StatusSeen(kind, c, seen'[p], g) /\ AliveSeen(seen'[p], g)
    BY <2>1, <2>2 DEF StatusSeen, AliveSeen
  <2>6. SeenInv(kind, c, seen'[p], g)
    BY <1>8, <2>1, <2>2, <2>3, <2>5 DEF SeenInv
  <2>7. SetTop(p, g)
    BY <1>10 DEF g
  <2> QED BY <1>1, <1>8, <2>4, <2>6, <2>7, SeenTopSet
<1>11. CASE SetTop(p, Ends(top, TRUE))
  <2>1. SeenInv(kind, c, seen'[p], Ends(top, TRUE))
    BY <1>1, <1>2, <1>8, SeenEnds
  <2>2. StillOwes(p, Ends(top, TRUE))
    BY <1>2 DEF StillOwes, Owes, Ends, Failed, Frame
  <2> QED BY <1>1, <1>8, <1>9, <1>11, <2>1, <2>2, SeenTopSet
<1> QED BY <1>4, <1>9, <1>10, <1>11 DEF serve

-----------------------------------------------------------------------------
(* The callbacks after the request *)

(* A conflict puts a deletion on top of the creation, which owes the       *)
(* object all the more.                                                    *)
LEMMA WhenConflictSeen ==
  ASSUME OutInv, NEW p \in Callers, WhenConflictThenDeleteAndRedo(p)
  PROVE  OutInv' /\ OnlyWrittenBy({})
<1> DEFINE top == Top(p)
           c == call[p]
           method == GetMethodDefinition(kind, "DELETE")
           delete == NewFrame(method)
<1>1. /\ Runs(p, Redo) /\ kind' = kind /\ IInv' /\ PhaseStays
  BY WhenConflictKeeps DEF WhenConflictThenDeleteAndRedo, OutInv, Redo
<1>2. /\ Busy(p) /\ FrameInv(kind, top) /\ top \in Frame /\ top.left # <<>>
      /\ SeenInv(kind, c, seen[p], top) /\ top.left[1] = Redo /\ TopOf(p, seen[p])
      /\ top.at = "after" /\ top.method.action = "POST" /\ top.left \notin AftersOfRedone
  BY <1>1, RunsOnTop, RunningFrame
<1>3. NotedKept /\ OnlyWrittenBy({}) /\ phase' = phase /\ seen' = seen
  BY <1>1, StaysNoted DEF OutInv
<1>4. top.left = <<Redo>> \/ top.left = <<Redo, "GetObject">>
  BY <1>2 DEF FrameInv, Afters, AftersOfRedone
<1>5. CASE SetTop(p, Proceed(top))
  <2>1. NeedsStatus(kind) => Tail(top.left) # <<>>
    <3>1. NeedsStatus(kind) => top.left = <<Redo, "GetObject">>
      BY <1>2, <1>4 DEF SeenInv, KeepsGetObject
    <3>2. Tail(<<Redo, "GetObject">>) = <<"GetObject">> /\ <<"GetObject">> # <<>>
      BY Tails
    <3> QED BY <3>1, <3>2
  <2>2. SeenInv(kind, c, seen'[p], Proceed(top))
    BY <1>2, <1>3, <2>1, SeenProceedAfter
  <2>3. StillOwes(p, Proceed(top))
    <3>1. /\ Proceed(top).method = top.method /\ Proceed(top).at = top.at
          /\ Proceed(top).code = top.code /\ Proceed(top).err = top.err
      BY <1>2 DEF Proceed, Frame
    <3> QED BY <1>2, <1>3, <3>1, StaysOwed DEF Owes, Failed
  <2> QED BY <1>1, <1>2, <1>3, <1>5, <2>2, <2>3, SeenTopSet
<1>6. CASE call' = [call EXCEPT ![p].stack = <<delete>> \o @]
  <2>1. /\ c \in Call /\ c.stack \in Upto2(Frame) /\ Len(c.stack) \in {1, 2}
    BY <1>2, OnTop
  <2>2. Len(c.stack) = 1 /\ Writing(c.action)
    BY <1>2, <2>1 DEF TopOf, TopInv, Nested, SeenInv, Writing
  <2>3. MethodInv(kind, method) /\ method.action = "DELETE"
    BY TableMethod DEF AllActions
  <2>4. delete \in Frame /\ delete.method = method /\ delete.at = "before"
    BY <2>3, NewFrameInv DEF FrameInv
  <2>5. SeenInv(kind, c, seen'[p], delete)
    BY <2>2, <2>3, SeenNew
  <2>6. StillOwes(p, delete)
    BY <2>3, <2>4 DEF StillOwes, Owes
  <2> HIDE DEF delete
  <2>7. <<delete>> \o c.stack = <<delete, top>>
    BY <2>1, <2>2, <2>4, Pushed DEF Top
  <2>8. call' = [call EXCEPT ![p] = [call[p] EXCEPT !.stack = <<delete, top>>]]
    BY <1>6, <2>7 DEF OutInv, IInv, TypeOK
  <2>9. KeepsGetObject(kind, top)
    BY <1>2 DEF SeenInv
  <2> DEFINE s == <<delete, top>>
  <2>10. s # <<>> /\ s[1] = delete /\ s[2] = top
    OBVIOUS
  <2> HIDE DEF s
  <2>11. call' = [call EXCEPT ![p] = [call[p] EXCEPT !.stack = s]]
    BY <2>8 DEF s
  <2> QED BY <1>1, <1>2, <1>3, <2>2, <2>5, <2>6, <2>9, <2>10, <2>11, SeenStackSet
<1> QED BY <1>3, <1>5, <1>6 DEF WhenConflictThenDeleteAndRedo

(* A deletion whose answer is ignored has seen that the object is gone.    *)
LEMMA IgnoreSeen ==
  ASSUME OutInv, NEW p \in Callers, IgnoreWhenDoesNotExistOrConflicts(p)
  PROVE  OutInv' /\ OnlyWrittenBy({})
<1> DEFINE top == Top(p)
           c == call[p]
           ignored == [top EXCEPT !.code = NoCode, !.err = FALSE]
<1>1. /\ Runs(p, "IgnoreWhenDoesNotExistOrConflicts") /\ kind' = kind /\ IInv' /\ PhaseStays
      /\ \/ IsGone(top.code) /\ SetTop(p, Proceed(ignored))
         \/ SetTop(p, Proceed(top))
  BY IgnoreKeeps DEF IgnoreWhenDoesNotExistOrConflicts, OutInv, IsGone
<1>2. /\ Busy(p) /\ FrameInv(kind, top) /\ top \in Frame /\ top.left # <<>>
      /\ SeenInv(kind, c, seen[p], top) /\ TopOf(p, seen[p]) /\ Len(c.stack) \in {1, 2}
      /\ top.at = "after" /\ ~Writing(top.method.action)
  BY <1>1, RunsOnTop, RunningFrame, OnTop
<1>3. NotedKept /\ OnlyWrittenBy({}) /\ phase' = phase /\ seen' = seen
  BY <1>1, StaysNoted DEF OutInv
<1>4. Writing(c.action) => top.method.action = "DELETE"
  BY <1>2 DEF TopOf, TopInv, Nested, Writing
<1>5. SeenInv(kind, c, seen'[p], Proceed(top))
  BY <1>2, <1>3, SeenProceedAfter DEF Writing
<1>6. /\ FrameInv(kind, ignored) /\ ignored.left = top.left /\ ignored.at = "after"
      /\ ignored.method = top.method
  BY <1>2 DEF FrameInv, Frame, NoCode, Codes
<1>7. IsGone(top.code) => SeenInv(kind, c, seen'[p], ignored)
  BY <1>2, <1>3, SeenChanged
<1> HIDE DEF ignored
<1>8. IsGone(top.code) => SeenInv(kind, c, seen'[p], Proceed(ignored))
  BY <1>2, <1>6, <1>7, SeenProceedAfter DEF Writing
<1>9. /\ Proceed(top).method = top.method /\ Proceed(top).at = "after"
      /\ Proceed(ignored).method = top.method /\ Proceed(ignored).at = "after"
  BY <1>2, <1>6 DEF Proceed, Frame, FrameInv
<1>10. StillOwes(p, Proceed(top)) /\ StillOwes(p, Proceed(ignored))
  BY <1>4, <1>9 DEF StillOwes, Owes
<1>11. SetTop(p, Proceed(top)) \/ (IsGone(top.code) /\ SetTop(p, Proceed(ignored)))
  BY <1>1
<1> QED BY <1>1, <1>2, <1>3, <1>5, <1>8, <1>10, <1>11, SeenTopSet

(* Going on with an error after the request keeps the invariant.           *)
LEMMA SeenFails ==
  ASSUME NEW k, NEW c, NEW m, NEW f, FrameInv(k, f), SeenInv(k, c, m, f), f.left # <<>>,
         f.at = "after"
  PROVE  /\ SeenInv(k, c, m, Proceed([f EXCEPT !.err = TRUE]))
         /\ Owes(Proceed([f EXCEPT !.err = TRUE]))
<1> DEFINE g == [f EXCEPT !.err = TRUE]
<1>1. /\ FrameInv(k, g) /\ g.left = f.left /\ g.at = "after" /\ g.err = TRUE
  BY DEF FrameInv, Frame
<1>2. SeenInv(k, c, m, g)
  BY SeenChanged DEF FrameInv
<1> HIDE DEF g
<1>3. SeenInv(k, c, m, Proceed(g))
  BY <1>1, <1>2, SeenProceedAfter DEF Failed
<1>4. Proceed(g).at = "after" /\ Proceed(g).err = TRUE
  BY <1>1 DEF FrameInv, Proceed, Frame
<1>5. Owes(Proceed(g))
  BY <1>4 DEF Owes, Failed
<1> QED BY <1>3, <1>5 DEF g

(* A callback that repeats GET gives up with an error.                     *)
LEMMA GiveUpSeen ==
  ASSUME OutInv, NEW p \in Callers, GiveUp(p)
  PROVE  OutInv' /\ OnlyWrittenBy({})
<1> DEFINE frame == Proceed([Top(p) EXCEPT !.err = TRUE])
<1>1. PICK callback \in {"GetObject", "TryToWaitUntilIsGone"} : Runs(p, callback)
  BY DEF GiveUp
<1>2. SetTop(p, frame) /\ kind' = kind /\ IInv' /\ PhaseStays
  BY GiveUpKeeps DEF GiveUp, OutInv
<1>3. /\ Busy(p) /\ FrameInv(kind, Top(p)) /\ Top(p).left # <<>> /\ Top(p).at = "after"
      /\ SeenInv(kind, call[p], seen[p], Top(p))
  BY <1>1, RunsOnTop, RunningFrame
<1>4. NotedKept /\ OnlyWrittenBy({}) /\ phase' = phase /\ seen' = seen
  BY <1>2, StaysNoted DEF OutInv
<1>5. SeenInv(kind, call[p], seen'[p], frame) /\ StillOwes(p, frame)
  BY <1>3, <1>4, SeenFails DEF StillOwes
<1> QED BY <1>2, <1>3, <1>4, <1>5, SeenTopSet

(* A creation goes on after GetObject when the object has a status.        *)
LEMMA GetObjectSeen ==
  ASSUME OutInv, NEW p \in Callers, GetObject(p)
  PROVE  OutInv' /\ OnlyWrittenBy({})
<1> DEFINE top == Top(p)
           c == call[p]
           fails == Proceed([top EXCEPT !.err = TRUE])
<1>1. Runs(p, "GetObject") /\ kind' = kind /\ IInv' /\ ~Failed(top)
  BY GetObjectKeeps DEF GetObject, OutInv
<1>2. /\ Busy(p) /\ FrameInv(kind, top) /\ top \in Frame /\ top.left # <<>> /\ top.at = "after"
      /\ SeenInv(kind, c, seen[p], top) /\ TopOf(p, seen[p]) /\ Noted(phase, c, seen[p])
  BY <1>1, RunsOnTop, RunningFrame
<1>3. PICK code \in Codes :
        /\ Get(GetIsMaster(p), code)
        /\ \/ HasValidStatus(phase) /\ SetTop(p, Proceed(top))
           \/ RetryOr(p, "GetObject", fails)
  BY DEF GetObject
<1>4. NotedKept /\ OnlyWrittenBy({}) /\ phase' = phase /\ seen' = seen
  BY <1>1, <1>2, <1>3, GetSeen DEF OutInv
<1>5. CASE HasValidStatus(phase) /\ SetTop(p, Proceed(top))
  <2>1. top.method.action = "POST" /\ c.action = "POST" => "status" \in seen[p]
    BY <1>1, <1>2, <1>5 DEF TopOf, TopInv, HasWritten, Writing, Noted
  <2>2. SeenInv(kind, c, seen'[p], Proceed(top))
    BY <1>2, <1>4, <2>1, SeenProceedAfter
  <2>3. StillOwes(p, Proceed(top))
    <3>1. /\ Proceed(top).method = top.method /\ Proceed(top).at = top.at
      BY <1>2 DEF Proceed, Frame
    <3> QED BY <1>1, <1>2, <1>4, <3>1, StaysOwed DEF Owes
  <2> QED BY <1>1, <1>2, <1>4, <1>5, <2>2, <2>3, SeenTopSet
<1>6. CASE RetryOr(p, "GetObject", fails)
  <2>1. SeenInv(kind, c, seen'[p], fails) /\ StillOwes(p, fails)
    BY <1>2, <1>4, SeenFails DEF StillOwes
  <2> HIDE DEF fails
  <2> QED BY <1>1, <1>2, <1>4, <1>6, <2>1, SeenRetrySet
<1> QED BY <1>3, <1>5, <1>6

(* A deletion goes on after it waited.                                     *)
LEMMA TryToWaitSeen ==
  ASSUME OutInv, NEW p \in Callers, TryToWaitUntilIsGone(p)
  PROVE  OutInv' /\ OnlyWrittenBy({})
<1> DEFINE top == Top(p)
           c == call[p]
<1>1. Runs(p, "TryToWaitUntilIsGone") /\ kind' = kind /\ IInv' /\ ~Failed(top)
  BY TryToWaitUntilIsGoneKeeps DEF TryToWaitUntilIsGone, OutInv
<1>2. /\ Busy(p) /\ FrameInv(kind, top) /\ top \in Frame /\ top.left # <<>> /\ top.at = "after"
      /\ SeenInv(kind, c, seen[p], top) /\ top.left[1] = "TryToWaitUntilIsGone"
  BY <1>1, RunsOnTop, RunningFrame
<1>3. top.method.action # "POST"
  <2>1. top.left \in Afters(kind, top.method.action)
    BY <1>2 DEF FrameInv
  <2> QED BY <1>2, <2>1 DEF Afters, AftersOfRedone, Redo
<1>4. PICK code \in Codes :
        /\ Get(GetIsMaster(p), code)
        /\ \/ SetTop(p, Proceed(top))
           \/ RetryOr(p, "TryToWaitUntilIsGone", Proceed(top))
  BY DEF TryToWaitUntilIsGone
<1>5. NotedKept /\ OnlyWrittenBy({}) /\ phase' = phase /\ seen' = seen
  BY <1>1, <1>2, <1>4, GetSeen DEF OutInv
<1>6. SeenInv(kind, c, seen'[p], Proceed(top))
  BY <1>2, <1>3, <1>5, SeenProceedAfter
<1>7. StillOwes(p, Proceed(top))
  <2>1. /\ Proceed(top).method = top.method /\ Proceed(top).at = top.at
    BY <1>2 DEF Proceed, Frame
  <2> QED BY <1>1, <1>2, <1>5, <2>1, StaysOwed DEF Owes
<1> QED BY <1>1, <1>2, <1>4, <1>5, <1>6, <1>7, SeenTopSet, SeenRetrySet

-----------------------------------------------------------------------------
(* The other steps *)

(* The bodies of CreatedIsReady and DeletedIsGoing.                        *)
Created ==
  \A p \in Callers : Answers(p, "ok") /\ call[p].action = "POST"
                       /\ kind \in ProjectKinds \cup {"ResourceQuota"} =>
    "status" \in seen[p]

Deleted ==
  \A p \in Callers :
    /\ Answers(p, "ok")
    /\ call[p].action = "DELETE"
         \/ (call[p].action = "ENSURE_DELETION" /\ DoCheckAndContinue(kind))
    => "gone" \in seen[p]

Outcome == Created /\ Deleted /\ PatchWaits

(* A step that answers nobody and writes nothing.                          *)
LEMMA NothingAnswered ==
  ASSUME Unanswered, PatchWaits
  PROVE  Outcome
BY DEF Unanswered, Outcome, Created, Deleted, Answers

(* The one frame of a call that ends is answered; what it has seen is what *)
(* the answer promises.                                                    *)
LEMMA LastReturnSeen ==
  ASSUME OutInv, NEW p \in Callers, Return(p), Len(call[p].stack) = 1
  PROVE  OutInv' /\ Outcome
<1> DEFINE top == Top(p)
           reply == IF Failed(top) THEN "error" ELSE "ok"
           c == [call[p] EXCEPT !.reply = reply, !.user = FALSE, !.stack = <<>>]
<1>1. /\ Busy(p) /\ top.at = "after" /\ top.left = <<>>
      /\ call' = [call EXCEPT ![p] = c]
      /\ seen' = [seen EXCEPT ![p] = {}]
      /\ kind' = kind /\ phase' = phase
  BY DEF Return, OutInv, IInv, TypeOK
<1>2. /\ call[p] \in Call /\ call[p].reply = "none" /\ call[p].action \in AllActions
      /\ TopOf(p, seen[p]) /\ SeenInv(kind, call[p], seen[p], top)
      /\ Unsettled(call[p]) <=> ~Writing(call[p].action) \/ Owes(top)
  BY <1>1, OnTop
<1>3. /\ c.stack = <<>> /\ c.reply = reply /\ c.action = call[p].action
  BY <1>2 DEF Call
<1> HIDE DEF c
<1>4. \A q \in Callers : call'[q] = IF q = p THEN c ELSE call[q]
  BY <1>1 DEF OutInv, IInv, TypeOK
<1>5. \A q \in Callers : seen'[q] = IF q = p THEN {} ELSE seen[q]
  BY <1>1 DEF OutInv, IInv, TypeOK
<1>6. SInv'
  <2>1. ASSUME NEW q \in Callers
        PROVE  SeenOfCall(phase', call'[q], seen'[q])
    BY <1>1, <1>3, <1>4, <1>5 DEF OutInv, SInv, SeenOfCall
  <2> QED BY <1>1, <2>1, SeenNext
<1>7. Writing(call[p].action) => Writing(top.method.action)
  BY <1>2 DEF TopOf, TopInv
<1>8. Unsettled(call[p]) => Unsettled(c)
  BY <1>1, <1>2, <1>3, <1>7 DEF Unsettled, Owes, Writing
<1>9. SomebodyOwes'
  <2>1. ASSUME IsLost(phase), Callers # {}
        PROVE  \E q \in Callers : Unsettled(call'[q])
    BY <1>4, <1>8, <2>1 DEF OutInv, SomebodyOwes
  <2> QED BY <1>1, <2>1 DEF SomebodyOwes
<1>10. PatchWaits
  BY <1>5 DEF PatchWaits
<1>11. ASSUME NEW q \in Callers, Answers(q, "ok")
       PROVE  q = p /\ ~Failed(top)
  <2>1. q = p
    BY <1>4, <1>11 DEF Answers, Busy, OutInv, IInv, CallInv
  <2> QED BY <1>3, <1>4, <1>11, <2>1 DEF Answers
<1>12. Created
  <2> SUFFICES ASSUME call[p].action = "POST", NeedsStatus(kind), ~Failed(top)
               PROVE  "status" \in seen[p]
    BY <1>11 DEF Created, NeedsStatus
  <2>1. top.method.action = "POST"
    BY <1>2, <1>7 DEF Writing, SeenInv
  <2> QED BY <1>1, <1>2, <2>1 DEF SeenInv, StatusSeen
<1>13. Deleted
  <2> SUFFICES ASSUME Deletes(kind, call[p]), ~Failed(top)
               PROVE  "gone" \in seen[p]
    BY <1>11 DEF Deleted, Deletes
  <2>1. ~(top.err \/ top.code = ServerError)
    BY DEF Failed, Bad, ServerError, NoCode, OK
  <2> QED BY <1>1, <1>2, <2>1 DEF SeenInv, GoneSeen
<1>14. IInv'
  BY LastReturn DEF OutInv
<1> QED BY <1>6, <1>9, <1>10, <1>12, <1>13, <1>14 DEF OutInv, Outcome

(* A frame that ends on top of another one hands on what it owes: the      *)
(* deletion to the repetition, the repetition its error to the creation.   *)
LEMMA NestedReturnSeen ==
  ASSUME OutInv, NEW p \in Callers, Return(p), Len(call[p].stack) # 1
  PROVE  OutInv' /\ OnlyWrittenBy({})
<1> DEFINE top == Top(p)
           c == call[p]
           below == c.stack[2]
           failed == Failed(top) \/ Bad(top.result)
           s == Resume(top.method.action, below, top.result, failed)
           fails == [below EXCEPT !.err = TRUE]
           redone == [below EXCEPT !.code = top.result, !.err = failed]
           method == RemoveAfterDoCallback(below.method, Redo)
           again == NewFrame(method)
<1>1. /\ Busy(p) /\ top.at = "after" /\ kind' = kind /\ PhaseStays /\ IInv'
      /\ call' = [call EXCEPT ![p].stack = s]
  BY NestedReturn DEF Return, PhaseStays, OutInv
<1>2. /\ c \in Call /\ Len(c.stack) = 2 /\ Writing(c.action) /\ top \in Frame
      /\ TopOf(p, seen[p])
  BY <1>1, OnTop
<1>3. call' = [call EXCEPT ![p] = [call[p] EXCEPT !.stack = s]]
  BY <1>1 DEF OutInv, IInv, TypeOK
<1>4. NotedKept /\ OnlyWrittenBy({}) /\ phase' = phase /\ seen' = seen
  BY <1>1, StaysNoted DEF OutInv
<1>5. KeepsGetObject(kind, below)
  BY <1>1, <1>2 DEF OutInv, SInv, SeenOfCall, Busy
<1>6. BelowInv(kind, c, seen[p], 2, below)
  BY <1>1, <1>2 DEF OutInv, IInv, CallInv, Busy
<1>7. /\ FrameInv(kind, below) /\ below \in Frame /\ below.method.action = "POST"
      /\ MethodInv(kind, below.method) /\ below.method \in Method
      /\ below.at = "after" /\ below.left # <<>> /\ below.left[1] = Redo
  BY <1>6 DEF BelowInv, FrameInv, Waiting, MethodInv
<1>8. below.left = <<Redo>> \/ below.left = <<Redo, "GetObject">>
  <2>1. below.left \in Afters(kind, "POST")
    BY <1>7 DEF FrameInv
  <2>2. below.left # <<"GetObject">>
    BY <1>7 DEF Redo
  <2> QED BY <1>7, <2>1, <2>2 DEF Afters, AftersOfRedone
<1>9. /\ NeedsStatus(kind) => Tail(below.left) # <<>>
      /\ Tail(below.left) # <<Redo>>
  <2>1. /\ Tail(<<Redo>>) = <<>> /\ Tail(<<Redo, "GetObject">>) = <<"GetObject">>
        /\ <<"GetObject">> # <<>> /\ <<"GetObject">> # <<Redo>> /\ <<>> # <<Redo>>
    BY Tails DEF Redo
  <2>2. NeedsStatus(kind) => below.left # <<Redo>>
    BY <1>5, <1>7 DEF KeepsGetObject
  <2> QED BY <1>8, <2>1, <2>2
<1>10. ASSUME NEW g, g.method = below.method, g.at = "after", g.left = Tail(below.left)
       PROVE  SeenInv(kind, c, seen'[p], g)
  BY <1>2, <1>5, <1>7, <1>9, <1>10
     DEF SeenInv, KeepsGetObject, GoneSeen, Deletes, StatusSeen, AliveSeen, Writing
<1>11. CASE top.method.action = "DELETE" /\ failed
  <2> DEFINE g == Proceed(fails)
  <2>1. /\ g.method = below.method /\ g.at = "after" /\ g.left = Tail(below.left) /\ g.err = TRUE
    BY <1>7 DEF Proceed, Frame
  <2>2. s = <<g>>
    BY <1>11 DEF Resume
  <2> HIDE DEF g, s
  <2>3. SeenInv(kind, c, seen'[p], g) /\ StillOwes(p, g)
    BY <1>10, <2>1 DEF StillOwes, Owes, Failed
  <2>4. s # <<>> /\ s[1] = g /\ Len(s) # 2
    BY <2>2, Tails
  <2> QED BY <1>1, <1>3, <1>4, <2>3, <2>4, SeenStackSet
<1>12. CASE top.method.action = "DELETE" /\ ~failed
  <2>1. MethodInv(kind, method) /\ method.action = "POST"
    BY <1>7, RedoneMethod
  <2>2. NeedsStatus(kind) => method.after = <<"GetObject">>
    BY <1>5, <1>7, RedoneKeepsGetObject DEF KeepsGetObject
  <2> HIDE DEF method
  <2>3. again.method = method /\ again.at = "before"
    BY DEF NewFrame
  <2>4. SeenInv(kind, c, seen'[p], again)
    BY <1>2, <2>1, <2>2, SeenNew
  <2> HIDE DEF again
  <2>5. StillOwes(p, again)
    BY <2>1, <2>3 DEF StillOwes, Owes
  <2>6. s = <<again, below>>
    BY <1>12 DEF Resume, again, method, Redo
  <2> HIDE DEF s
  <2>7. s # <<>> /\ s[1] = again /\ s[2] = below
    BY <2>6
  <2> QED BY <1>1, <1>2, <1>3, <1>4, <1>5, <2>4, <2>5, <2>7, SeenStackSet
<1>13. CASE top.method.action # "DELETE"
  <2> DEFINE g == Proceed(redone)
  <2>1. /\ g.method = below.method /\ g.at = "after" /\ g.left = Tail(below.left)
        /\ g.err = failed
    BY <1>7 DEF Proceed, Frame
  <2>2. s = <<g>>
    BY <1>13 DEF Resume
  <2> HIDE DEF g, s
  <2>3. SeenInv(kind, c, seen'[p], g)
    BY <1>10, <2>1
  <2>4. Owes(top) => Owes(g)
    BY <1>1, <1>13, <2>1 DEF Owes, Failed
  <2>5. StillOwes(p, g)
    BY <1>4, <2>4, StaysOwed
  <2>6. s # <<>> /\ s[1] = g /\ Len(s) # 2
    BY <2>2, Tails
  <2> QED BY <1>1, <1>3, <1>4, <2>3, <2>5, <2>6, SeenStackSet
<1> QED BY <1>4, <1>11, <1>12, <1>13

(* Notes are not about writing. *)
LEMMA NotesOfBegin ==
  ASSUME NEW action, NEW ph
  PROVE  "written" \notin Notes(action, ph)
BY DEF Notes

(* A call begins with a frame that owes the object.                        *)
LEMMA BeginSeen ==
  ASSUME OutInv, NEW p \in Callers, NEW action \in Actions, NEW user \in BOOLEAN,
         Begin(p, action, user)
  PROVE  OutInv' /\ OnlyWrittenBy({})
<1> DEFINE method == GetMethodDefinition(kind, action)
           frame == NewFrame(method)
           c == [action |-> action, user |-> user, reply |-> "none", stack |-> <<frame>>]
<1>1. /\ call' = [call EXCEPT ![p] = c]
      /\ seen' = [seen EXCEPT ![p] = Notes(action, phase)]
      /\ kind' = kind /\ phase' = phase /\ call[p] = IdleCall /\ action \in AllActions
  BY ConstantsAssumption DEF Begin
<1>2. \A q \in Callers : seen'[q] = IF q = p THEN Notes(action, phase) ELSE seen[q]
  BY <1>1 DEF OutInv, IInv, TypeOK
<1>3. MethodInv(kind, method) /\ method.action = action
  BY <1>1, TableMethod
<1>4. action = "PATCH" => method.before # <<>>
  BY DEF GetMethodDefinition, BeforeDo
<1>5. action = "POST" /\ NeedsStatus(kind) =>
        method.after \in {<<"GetObject">>, <<Redo, "GetObject">>}
  BY TableKeepsGetObject
<1> HIDE DEF method
<1>6. frame.method = method /\ frame.at = "before" /\ frame.left = method.before
  BY DEF NewFrame
<1>7. c.action = action /\ c.reply = "none" /\ c.stack[1] = frame /\ Len(c.stack) = 1
      /\ c.stack # <<>>
  OBVIOUS
<1> HIDE DEF c, frame
<1>8. SeenInv(kind, c, seen'[p], frame)
  BY <1>3, <1>4, <1>5, <1>7, SeenNew DEF frame
<1>9. Noted(phase', c, seen'[p])
  BY <1>1, <1>2, <1>7, NotesOfBegin DEF Noted
<1>10. SeenOfCall(phase', c, seen'[p])
  BY <1>7, <1>8, <1>9 DEF SeenOfCall
<1>11. Unsettled(c)
  BY <1>3, <1>4, <1>6, <1>7 DEF Unsettled, Owes
<1>12. NotedKept
  <2>1. ~Busy(p)
    BY <1>1 DEF Busy, IdleCall
  <2> QED BY <1>1, <1>2, <2>1 DEF NotedKept, OutInv, SInv, SeenOfCall, Busy
<1>13. OnlyWrittenBy({})
  BY <1>2, NotesOfBegin DEF OnlyWrittenBy
<1>14. IInv'
  BY BeginKeeps DEF OutInv
<1> QED BY <1>1, <1>10, <1>11, <1>12, <1>13, <1>14, SeenCallSet

(* The cluster only removes what is already going.                         *)
LEMMA ClusterSeen ==
  ASSUME OutInv, Cluster
  PROVE  OutInv' /\ OnlyWrittenBy({})
<1>1. PICK ph : PhaseBecomes(ph, {}) /\ (IsLost(ph) => IsLost(phase))
  BY DEF Cluster, GetsStatus, IsRemoved, SomebodyCreates, IsLost
<1>2. kind' = kind /\ call' = call
  BY DEF Cluster
<1>3. NotedKept /\ OnlyWrittenBy({}) /\ phase' = ph
  BY <1>1, <1>2, BecomesNoted DEF OutInv
<1>4. SInv'
  BY <1>2, <1>3, SeenOfOther, SeenNext
<1>5. SomebodyOwes'
  BY <1>1, <1>2, <1>3 DEF OutInv, SomebodyOwes
<1> QED BY <1>3, <1>4, <1>5, ClusterKeeps DEF OutInv

-----------------------------------------------------------------------------
(* The theorems *)

(* Nobody owes anything before the first call.                             *)
LEMMA InitSeen == Init => OutInv
<1> SUFFICES ASSUME Init
             PROVE  OutInv
  OBVIOUS
<1>1. SInv
  BY DEF Init, SInv, SeenOfCall, IdleCall
<1>2. SomebodyOwes
  BY DEF Init, SomebodyOwes, Unsettled, IdleCall, Writing
<1> QED BY <1>1, <1>2, InitInv DEF OutInv

(* Every step keeps what is seen and owed, and answers only what was seen. *)
LEMMA NextSeen == OutInv /\ [Next]_vars => OutInv' /\ [Outcome]_vars
<1> SUFFICES ASSUME OutInv, [Next]_vars
             PROVE  OutInv' /\ [Outcome]_vars
  OBVIOUS
<1>1. IInv
  BY DEF OutInv
<1>2. ASSUME NEW p \in Callers, NEW action \in Actions, NEW user \in BOOLEAN,
             Begin(p, action, user)
      PROVE  OutInv' /\ Outcome
  BY <1>1, <1>2, BeginSeen, BeginKeeps, NothingPatched, NothingAnswered
<1>3. ASSUME NEW p \in Callers, Step(p)
      PROVE  OutInv' /\ Outcome
  <2>1. CASE GetObjectAndMerge(p)
    BY <1>1, <2>1, GetObjectAndMergeSeen, GetObjectAndMergeKeeps, NothingPatched, NothingAnswered
  <2>2. CASE FailIfAlreadyExists(p)
    BY <1>1, <2>2, FailIfAlreadyExistsSeen, FailIfAlreadyExistsKeeps, NothingPatched,
       NothingAnswered
  <2>3. CASE WaitUntilIsRemoved(p)
    BY <1>1, <2>3, WaitUntilIsRemovedSeen, WaitUntilIsRemovedKeeps, NothingPatched,
       NothingAnswered
  <2>4. CASE Do(p)
    BY <1>1, <2>4, DoSeen, DoKeeps, NothingAnswered
  <2>5. CASE WhenConflictThenDeleteAndRedo(p)
    BY <1>1, <2>5, WhenConflictSeen, WhenConflictKeeps, NothingPatched, NothingAnswered
  <2>6. CASE IgnoreWhenDoesNotExistOrConflicts(p)
    BY <1>1, <2>6, IgnoreSeen, IgnoreKeeps, NothingPatched, NothingAnswered
  <2>7. CASE GiveUp(p)
    BY <1>1, <2>7, GiveUpSeen, GiveUpKeeps, NothingPatched, NothingAnswered
  <2>8. CASE GetObject(p)
    BY <1>1, <2>8, GetObjectSeen, GetObjectKeeps, NothingPatched, NothingAnswered
  <2>9. CASE TryToWaitUntilIsGone(p)
    BY <1>1, <2>9, TryToWaitSeen, TryToWaitUntilIsGoneKeeps, NothingPatched, NothingAnswered
  <2>10. CASE Return(p) /\ Len(call[p].stack) = 1
    BY <2>10, LastReturnSeen
  <2>11. CASE Return(p) /\ Len(call[p].stack) # 1
    BY <1>1, <2>11, NestedReturnSeen, NestedReturn, NothingPatched, NothingAnswered
  <2> QED BY <1>3, <2>1, <2>2, <2>3, <2>4, <2>5, <2>6, <2>7, <2>8, <2>9, <2>10, <2>11 DEF Step
<1>4. CASE Cluster
  BY <1>1, <1>4, ClusterSeen, ClusterKeeps, NothingPatched, NothingAnswered
<1>5. CASE UNCHANGED vars
  <2>1. IInv'
    BY <1>1, <1>5 DEF vars, IInv, TypeOK
  <2>2. SInv'
    BY <1>5, SeenNext DEF vars, OutInv, SInv
  <2>3. SomebodyOwes'
    BY <1>5 DEF vars, OutInv, SomebodyOwes
  <2> QED BY <1>5, <2>1, <2>2, <2>3 DEF OutInv
<1> QED BY <1>2, <1>3, <1>4, <1>5 DEF Next

(* The invariant holds always.                                             *)
LEMMA OutInvAlways == Spec => []OutInv
BY InitSeen, NextSeen, PTL DEF Spec

(* No step answers what was not seen.                                      *)
LEMMA OutcomeAlways == Spec => [][Outcome]_vars
<1>1. OutInv /\ [Next]_vars => [Outcome]_vars
  BY NextSeen
<1> QED BY <1>1, OutInvAlways, PTL DEF Spec

(* A project or quota whose creation is answered without an error had a    *)
(* status after this call wrote it, also when a conflict was resolved by a *)
(* deletion and a repetition: the repetition never drops GetObject, and    *)
(* its error reaches the creation (callback.go, endpoints.go).             *)
THEOREM StatusBeforeAnswer == Spec => CreatedIsReady
<1>1. Outcome => Created
  BY DEF Outcome
<1>2. Spec => [][Created]_vars
  BY <1>1, OutcomeAlways, PTL
<1> QED BY <1>2 DEF Created, CreatedIsReady

(* A deletion is answered without an error only if the object was absent,  *)
(* terminating or not the caller's at some time of the call, whichever     *)
(* answer was ignored (IgnoreWhenDoesNotExistOrConflicts, WaitUntilIsGone).*)
THEOREM NothingLeftToDelete == Spec => DeletedIsGoing
<1>1. Outcome => Deleted
  BY DEF Outcome
<1>2. Spec => [][Deleted]_vars
  BY <1>1, OutcomeAlways, PTL
<1> QED BY <1>2 DEF Deleted, DeletedIsGoing

(* An object is not patched by a call that only ever saw it terminating    *)
(* (GetObjectAndMerge).                                                    *)
THEOREM PatchesTheLiving == Spec => PatchWaitsForRemoval
<1>1. Outcome => PatchWaits
  BY DEF Outcome
<1>2. Spec => [][PatchWaits]_vars
  BY <1>1, OutcomeAlways, PTL
<1> QED BY <1>2 DEF PatchWaits, PatchWaitsForRemoval

(* However many callers write one object, and delete one another's work    *)
(* when they meet a conflict: whoever makes the object go still owes it,   *)
(* until it is created again or an error is answered. With nobody to       *)
(* answer there is nothing to say.                                         *)
THEOREM LossIsAnError ==
  ASSUME Callers # {}
  PROVE  Spec => []NothingLostSilently
<1>1. OutInv => NothingLostSilently
  <2> SUFFICES ASSUME OutInv,
                      \A p \in Callers : call[p].reply = "ok" /\ call[p].action \in {"POST", "PATCH"}
               PROVE  phase \notin {"absent", "terminating"}
    BY DEF NothingLostSilently
  <2>1. ASSUME NEW p \in Callers
        PROVE  ~Unsettled(call[p])
    BY <2>1 DEF Unsettled, Writing, OutInv, IInv, CallInv
  <2> QED BY <2>1 DEF OutInv, SomebodyOwes, IsLost
<1> QED BY <1>1, OutInvAlways, PTL
=============================================================================
