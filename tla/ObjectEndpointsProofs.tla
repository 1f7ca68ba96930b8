----------------------- MODULE ObjectEndpointsProofs -----------------------
(***************************************************************************)
(* Proofs about ObjectEndpoints, for all callers, kinds, methods, numbers  *)
(* of retries and faults: the type invariant, with the bound on the stack; *)
(* that a write answered without an error took place; that the creation of *)
(* a project is only sent when its name was free.                          *)
(***************************************************************************)
EXTENDS ObjectEndpoints, SequenceTheorems, TLAPS

Redo == "WhenConflictThenDeleteAndRedo"

(* The callbacks a method of an action may have, or have left, before its  *)
(* request and after it, for an object of kind k.                          *)
Befores(action) ==
  CASE action = "POST" -> {<<>>, <<"FailIfAlreadyExists">>}
    [] action = "PATCH" -> {<<>>, <<"GetObjectAndMerge">>}
    [] action = "ENSURE_DELETION" -> {<<>>, <<"WaitUntilIsRemoved">>}
    [] OTHER -> {<<>>}

AftersOfRedone == {<<>>, <<"GetObject">>}

Afters(k, action) ==
  CASE action = "POST" -> AftersOfRedone \cup
         (IF k \in ProjectKinds THEN {} ELSE {<<Redo>>, <<Redo, "GetObject">>})
    [] action = "PATCH" -> {<<>>}
    [] OTHER -> {<<>>, <<"IgnoreWhenDoesNotExistOrConflicts">>, <<"TryToWaitUntilIsGone">>,
                 <<"IgnoreWhenDoesNotExistOrConflicts", "TryToWaitUntilIsGone">>}

MethodInv(k, m) == /\ m \in Method
                   /\ m.before \in Befores(m.action)
                   /\ m.after \in Afters(k, m.action)

FrameInv(k, f) == /\ f \in Frame
                  /\ MethodInv(k, f.method)
                  /\ f.at = "before" => f.left \in Befores(f.method.action)
                  /\ f.at = "after" => f.left \in Afters(k, f.method.action)

Writing(action) == action \in {"POST", "PATCH"}

(* A frame that ends without an error of a method that writes has written. *)
HasWritten(f, marks) ==
  Writing(f.method.action) /\ f.at = "after" /\ ~Failed(f) => "written" \in marks

(* The frame below another one waits in WhenConflictThenDeleteAndRedo; the *)
(* one above deletes, or repeats without that callback.                    *)
Waiting(f) == f.method.action = "POST" /\ f.at = "after" /\ f.left # <<>> /\ f.left[1] = Redo

Nested(f) == \/ f.method.action = "DELETE"
             \/ /\ f.method.action = "POST"
                /\ f.method.after \in AftersOfRedone
                /\ f.at = "after" => f.left \in AftersOfRedone

CreatesProject(k, c) == c.action = "POST" /\ k \in ProjectKinds

(* The frame on top of the stack of c, which has depth frames. A creation  *)
(* of a project has noted a free name before its request.                  *)
TopInv(k, c, marks, depth, f) ==
  /\ FrameInv(k, f)
  /\ HasWritten(f, marks)
  /\ depth = 2 => Nested(f)
  /\ depth = 1 /\ Writing(c.action) => Writing(f.method.action)
  /\ CreatesProject(k, c) =>
       /\ f.method.action = "POST"
       /\ f.at = "before" /\ f.left = <<>> => "free" \in marks

(* The frame below it, if there is one. *)
BelowInv(k, c, marks, depth, f) ==
  depth = 2 => /\ FrameInv(k, f)
               /\ HasWritten(f, marks)
               /\ Waiting(f)
               /\ Writing(c.action) => Writing(f.method.action)

CallInv(k, ph, c, marks) ==
  c.stack # <<>> =>
    /\ c.reply = "none" /\ c.action \in AllActions
    /\ TopInv(k, c, marks, Len(c.stack), c.stack[1])
    /\ BelowInv(k, c, marks, Len(c.stack), c.stack[2])
    /\ CreatesProject(k, c) /\ ph = "absent" => "free" \in marks

IInv == TypeOK /\ \A p \in Callers : CallInv(kind, phase, call[p], seen[p])

-----------------------------------------------------------------------------
(* Sequences of at most two elements *)

(* A sequence of Upto2 is a sequence of at most two elements, as the       *)
(* chains of callbacks and the stacks are.                                 *)
LEMMA ShortSequence ==
  ASSUME NEW S, NEW s \in Upto2(S)
  PROVE  /\ s \in Seq(S)
         /\ Len(s) \in 0 .. 2
         /\ DOMAIN s = 1 .. Len(s)
         /\ s = <<>> <=> Len(s) = 0
<1>1. \E n \in 0 .. 2 : s \in [1 .. n -> S]
  <2>1. CASE s = <<>>
    BY <2>1
  <2> QED BY <2>1 DEF Upto2
<1>2. s \in Seq(S)
  BY <1>1, SeqDef
<1>3. DOMAIN s = 1 .. Len(s) /\ Len(s) \in Nat
  BY <1>2, LenProperties
<1>4. Len(s) \in 0 .. 2
  BY <1>1, <1>3
<1>5. s = <<>> <=> Len(s) = 0
  BY <1>2, EmptySeq
<1> QED BY <1>2, <1>3, <1>4, <1>5

(* Its elements.                                                           *)
LEMMA ShortElements ==
  ASSUME NEW S, NEW s \in Upto2(S)
  PROVE  \A i \in 1 .. Len(s) : s[i] \in S
BY ShortSequence, ElementOfSeq

(* Tuples of at most two elements are such sequences.                      *)
LEMMA ShortTuples ==
  ASSUME NEW S
  PROVE  /\ <<>> \in Upto2(S)
         /\ \A a \in S : <<a>> \in Upto2(S)
         /\ \A a, b \in S : <<a, b>> \in Upto2(S)
<1>1. \A a \in S : <<a>> \in [1 .. 1 -> S]
  OBVIOUS
<1>2. \A a, b \in S : <<a, b>> \in [1 .. 2 -> S]
  OBVIOUS
<1> QED BY <1>1, <1>2 DEF Upto2

(* Tails, lengths and distinctness of such tuples.                         *)
LEMMA Tails ==
  ASSUME NEW a, NEW b
  PROVE  /\ Tail(<<a>>) = <<>>
         /\ Tail(<<a, b>>) = <<b>>
         /\ Len(<<a>>) = 1 /\ Len(<<a, b>>) = 2
         /\ <<a>> # <<>> /\ <<a, b>> # <<>>
OBVIOUS

(* Pushing onto a stack of one frame.                                      *)
LEMMA Pushed ==
  ASSUME NEW S, NEW s \in Upto2(S), NEW a \in S, Len(s) = 1
  PROVE  <<a>> \o s = <<a, s[1]>>
<1>1. s \in Seq(S) /\ <<a>> \in Seq(S) /\ Len(<<a>>) = 1
  BY ShortSequence
<1>2. s[1] \in S
  BY ShortElements
<1>3. /\ <<a>> \o s \in Seq(S) /\ Len(<<a>> \o s) = 2
      /\ (<<a>> \o s)[1] = a /\ (<<a>> \o s)[2] = s[1]
  BY SMTT(40), <1>1, ConcatProperties
<1>4. /\ <<a, s[1]>> \in Seq(S) /\ Len(<<a, s[1]>>) = 2
      /\ <<a, s[1]>>[1] = a /\ <<a, s[1]>>[2] = s[1]
  BY <1>2
<1>5. \A i \in 1 .. 2 : (<<a>> \o s)[i] = <<a, s[1]>>[i]
  BY <1>3, <1>4
<1> QED BY <1>3, <1>4, <1>5, SeqEqual

(* Replacing the first element of a sequence keeps its length and the      *)
(* second one.                                                             *)
LEMMA ShortReplaced ==
  ASSUME NEW S, NEW s \in Upto2(S), s # <<>>, NEW a \in S
  PROVE  LET t == [s EXCEPT ![1] = a]
         IN  /\ t \in Upto2(S) /\ t # <<>>
             /\ Len(t) = Len(s)
             /\ t[1] = a
             /\ Len(s) = 2 => t[2] = s[2]
<1> DEFINE t == [s EXCEPT ![1] = a]
<1>1. CASE s \in [1 .. 1 -> S]
  <2>1. t \in [1 .. 1 -> S]
    BY <1>1
  <2> QED BY <1>1, <2>1 DEF Upto2
<1>2. CASE s \in [1 .. 2 -> S]
  <2>1. t \in [1 .. 2 -> S]
    BY <1>2
  <2> QED BY <1>2, <2>1 DEF Upto2
<1> QED BY <1>1, <1>2 DEF Upto2

(* Appending to a chain of at most one callback.                           *)
LEMMA Appended ==
  ASSUME NEW a, NEW b
  PROVE  Append(<<>>, b) = <<b>> /\ Append(<<a>>, b) = <<a, b>>
<1> DEFINE S == {a, b}
<1>1. /\ <<>> \in Seq(S) /\ <<a>> \in Seq(S) /\ <<b>> \in Seq(S) /\ <<a, b>> \in Seq(S)
      /\ Len(<<>>) = 0 /\ Len(<<a>>) = 1 /\ Len(<<b>>) = 1 /\ Len(<<a, b>>) = 2
      /\ <<a>>[1] = a /\ <<b>>[1] = b /\ <<a, b>>[1] = a /\ <<a, b>>[2] = b
  OBVIOUS
<1>2. \A s \in Seq(S) : /\ Append(s, b) \in Seq(S) /\ Len(Append(s, b)) = Len(s) + 1
                        /\ \A i \in 1 .. Len(s) : Append(s, b)[i] = s[i]
                        /\ Append(s, b)[Len(s) + 1] = b
  BY AppendProperties
<1>3. Append(<<>>, b) = <<b>>
  <2>1. Append(<<>>, b) \in Seq(S) /\ Len(Append(<<>>, b)) = 1 /\ Append(<<>>, b)[1] = b
    BY <1>1, <1>2
  <2>2. \A i \in 1 .. 1 : Append(<<>>, b)[i] = <<b>>[i]
    BY <1>1, <2>1
  <2> QED BY <1>1, <2>1, <2>2, SeqEqual
<1>4. Append(<<a>>, b) = <<a, b>>
  <2>1. /\ Append(<<a>>, b) \in Seq(S) /\ Len(Append(<<a>>, b)) = 2
        /\ Append(<<a>>, b)[1] = a /\ Append(<<a>>, b)[2] = b
    BY <1>1, <1>2
  <2>2. \A i \in 1 .. 2 : Append(<<a>>, b)[i] = <<a, b>>[i]
    BY <1>1, <2>1
  <2> QED BY <1>1, <2>1, <2>2, SeqEqual
<1> QED BY <1>3, <1>4

-----------------------------------------------------------------------------
(* Chains of callbacks *)

(* The chains of callbacks that run before a request: removing the first   *)
(* leaves none.                                                            *)
LEMMA BeforesShort ==
  ASSUME NEW action, NEW s \in Befores(action)
  PROVE  /\ s \in Upto2(BeforeCallbacks)
         /\ s \in Upto2(BeforeCallbacks \cup AfterCallbacks)
         /\ s # <<>> => Tail(s) = <<>>
<1>1. \/ s = <<>> \/ s = <<"FailIfAlreadyExists">> \/ s = <<"GetObjectAndMerge">>
      \/ s = <<"WaitUntilIsRemoved">>
  BY DEF Befores
<1> QED BY <1>1, ShortTuples, Tails DEF BeforeCallbacks, AfterCallbacks

(* The chains that run after it are closed under removing the first one,   *)
(* and so are those of a repeated method.                                  *)
LEMMA AftersShort ==
  ASSUME NEW k, NEW action \in AllActions, NEW s \in Afters(k, action)
  PROVE  /\ s \in Upto2(AfterCallbacks)
         /\ s \in Upto2(BeforeCallbacks \cup AfterCallbacks)
         /\ s # <<>> => Tail(s) \in Afters(k, action)
         /\ s \in AftersOfRedone /\ s # <<>> => Tail(s) \in AftersOfRedone
<1> DEFINE I == "IgnoreWhenDoesNotExistOrConflicts"
           T == "TryToWaitUntilIsGone"
<1>1. CASE action = "POST"
  <2>1. \/ s = <<>> \/ s = <<"GetObject">>
        \/ k \notin ProjectKinds /\ (s = <<Redo>> \/ s = <<Redo, "GetObject">>)
    BY <1>1 DEF Afters, AftersOfRedone
  <2>2. s \in Upto2(AfterCallbacks) /\ s \in Upto2(BeforeCallbacks \cup AfterCallbacks)
    BY <2>1, ShortTuples DEF AfterCallbacks, Redo
  <2> QED BY <1>1, <2>1, <2>2, Tails DEF Afters, AftersOfRedone
<1>2. CASE action = "PATCH"
  BY <1>2, ShortTuples DEF Afters
<1>3. CASE action \notin {"POST", "PATCH"}
  <2>1. s = <<>> \/ s = <<I>> \/ s = <<T>> \/ s = <<I, T>>
    BY <1>3 DEF Afters
  <2>2. s \in Upto2(AfterCallbacks) /\ s \in Upto2(BeforeCallbacks \cup AfterCallbacks)
    BY <2>1, ShortTuples DEF AfterCallbacks
  <2>3. s # <<>> => Tail(s) \in Afters(k, action)
    BY <1>3, <2>1, Tails DEF Afters
  <2>4. s \in AftersOfRedone => s = <<>>
    BY <2>1, Tails DEF AftersOfRedone
  <2> QED BY <2>2, <2>3, <2>4
<1> QED BY <1>1, <1>2, <1>3

(* The table of endpoints holds methods with such chains.                  *)
LEMMA TableMethod ==
  ASSUME NEW k, NEW action \in AllActions
  PROVE  /\ MethodInv(k, GetMethodDefinition(k, action))
         /\ GetMethodDefinition(k, action).action = action
<1> DEFINE m == GetMethodDefinition(k, action)
<1>1. BeforeDo(k, action) \in Befores(action)
  BY DEF BeforeDo, Befores
<1>2. AfterDo(k, action) \in Afters(k, action)
  <2>1. CASE action = "POST"
    BY <2>1 DEF AfterDo, Afters, AftersOfRedone, Redo, ProjectKinds
  <2>2. CASE action = "PATCH"
    BY <2>2 DEF AfterDo, Afters
  <2>3. CASE action = "DELETE"
    BY <2>3 DEF AfterDo, Afters
  <2>4. CASE action = "ENSURE_DELETION"
    BY <2>4 DEF AfterDo, Afters
  <2> QED BY <2>1, <2>2, <2>3, <2>4 DEF AllActions
<1>3. BeforeDo(k, action) \in Upto2(BeforeCallbacks)
  BY <1>1, BeforesShort
<1>4. AfterDo(k, action) \in Upto2(AfterCallbacks)
  BY <1>2, AftersShort
<1>5. RequireMasterToken(k, action) \in BOOLEAN
  BY DEF RequireMasterToken
<1>6. m \in Method
  BY <1>3, <1>4, <1>5 DEF GetMethodDefinition, Method
<1> QED BY <1>1, <1>2, <1>6 DEF GetMethodDefinition, MethodInv

(* The method WhenConflictThenDeleteAndRedo repeats has no such callback.  *)
LEMMA RedoneMethod ==
  ASSUME NEW k, NEW m, MethodInv(k, m), m.action = "POST"
  PROVE  LET r == RemoveAfterDoCallback(m, Redo)
         IN  MethodInv(k, r) /\ r.action = "POST" /\ r.after \in AftersOfRedone
<1> DEFINE r == RemoveAfterDoCallback(m, Redo)
           kept == {i \in DOMAIN m.after : m.after[i] # Redo}
           first == CHOOSE i \in kept : \A j \in kept : i <= j
<1>1. m.after = <<>> \/ m.after = <<"GetObject">> \/ m.after = <<Redo>>
        \/ m.after = <<Redo, "GetObject">>
  BY DEF MethodInv, Afters, AftersOfRedone
<1>2. r = [m EXCEPT !.after = IF kept = {} THEN <<>> ELSE <<m.after[first]>>]
  BY DEF RemoveAfterDoCallback, MethodInv, Method
<1>3. CASE m.after = <<>> \/ m.after = <<Redo>>
  <2>1. kept = {}
    BY <1>3
  <2> QED BY <1>2, <2>1, ShortTuples DEF MethodInv, Method, Afters, AftersOfRedone
<1>4. CASE m.after = <<"GetObject">> \/ m.after = <<Redo, "GetObject">>
  <2>1. kept # {} /\ \A i \in kept : m.after[i] = "GetObject"
    BY <1>4 DEF Redo
  <2>2. \E i \in kept : \A j \in kept : i <= j
    BY <1>4 DEF Redo
  <2>3. first \in kept
    BY <2>2
  <2>4. r = [m EXCEPT !.after = <<"GetObject">>]
    BY <1>2, <2>1, <2>3
  <2> QED BY <2>4, ShortTuples DEF MethodInv, Method, Afters, AftersOfRedone, AfterCallbacks
<1> QED BY <1>1, <1>3, <1>4

(* The method WaitUntilIsRemoved goes on with still is one of              *)
(* ENSURE_DELETION.                                                        *)
LEMMA EnsuringMethod ==
  ASSUME NEW k, NEW m, MethodInv(k, m), m.action = "ENSURE_DELETION"
  PROVE  LET r == AddAfterDoCallbackIfNotExist(m, "TryToWaitUntilIsGone")
         IN  MethodInv(k, r) /\ r.action = "ENSURE_DELETION"
<1> DEFINE I == "IgnoreWhenDoesNotExistOrConflicts"
           T == "TryToWaitUntilIsGone"
           r == AddAfterDoCallbackIfNotExist(m, T)
<1>1. m.after = <<>> \/ m.after = <<I>> \/ m.after = <<T>> \/ m.after = <<I, T>>
  BY DEF MethodInv, Afters
<1>2. CASE \E i \in DOMAIN m.after : m.after[i] = T
  BY <1>2 DEF AddAfterDoCallbackIfNotExist
<1>3. CASE ~\E i \in DOMAIN m.after : m.after[i] = T
  <2>1. Append(m.after, T) = <<T>> \/ Append(m.after, T) = <<I, T>>
    <3>1. m.after # <<T>> /\ m.after # <<I, T>>
      <4>1. 1 \in DOMAIN <<T>> /\ <<T>>[1] = T /\ 2 \in DOMAIN <<I, T>> /\ <<I, T>>[2] = T
        OBVIOUS
      <4> QED BY <1>3, <4>1
    <3>2. Append(<<>>, T) = <<T>> /\ Append(<<I>>, T) = <<I, T>>
      BY Appended
    <3> QED BY <1>1, <3>1, <3>2
  <2>2. Append(m.after, T) \in Afters(k, "ENSURE_DELETION")
    BY <2>1 DEF Afters
  <2>3. Append(m.after, T) \in Upto2(AfterCallbacks)
    BY <2>2, AftersShort DEF AllActions
  <2>4. r = [m EXCEPT !.after = Append(m.after, T)]
    BY <1>3 DEF AddAfterDoCallbackIfNotExist, MethodInv, Method
  <2> QED BY <2>2, <2>3, <2>4 DEF MethodInv, Method
<1> QED BY <1>2, <1>3

-----------------------------------------------------------------------------
(* Frames *)

(* Which callback is next tells where a frame is and which methods it may  *)
(* have.                                                                   *)
LEMMA RunningFrame ==
  ASSUME NEW k, NEW f, FrameInv(k, f), f.left # <<>>
  PROVE  /\ f.left[1] = "GetObjectAndMerge" => f.at = "before" /\ f.method.action = "PATCH"
         /\ f.left[1] = "FailIfAlreadyExists" => f.at = "before" /\ f.method.action = "POST"
         /\ f.left[1] = "WaitUntilIsRemoved" =>
              f.at = "before" /\ f.method.action = "ENSURE_DELETION"
         /\ f.left[1] = Redo =>
              /\ f.at = "after" /\ f.method.action = "POST" /\ k \notin ProjectKinds
              /\ f.left \notin AftersOfRedone
         /\ f.left[1] = "IgnoreWhenDoesNotExistOrConflicts" =>
              f.at = "after" /\ ~Writing(f.method.action)
         /\ f.left[1] \in {"GetObject", "TryToWaitUntilIsGone"} => f.at = "after"
<1>1. f.at \in {"before", "after"} /\ f.method.action \in AllActions
  BY DEF FrameInv, Frame, MethodInv, Method
<1>2. CASE f.at = "before"
  <2>1. f.left \in Befores(f.method.action)
    BY <1>2 DEF FrameInv
  <2>2. \/ f.left = <<"FailIfAlreadyExists">> /\ f.method.action = "POST"
        \/ f.left = <<"GetObjectAndMerge">> /\ f.method.action = "PATCH"
        \/ f.left = <<"WaitUntilIsRemoved">> /\ f.method.action = "ENSURE_DELETION"
    BY <2>1, <1>1 DEF Befores
  <2> QED BY <1>2, <2>2 DEF Redo
<1>3. CASE f.at = "after"
  <2>1. f.left \in Afters(k, f.method.action)
    BY <1>3 DEF FrameInv
  <2>2. CASE f.method.action = "POST"
    <3>1. \/ f.left = <<"GetObject">>
          \/ k \notin ProjectKinds /\ (f.left = <<Redo>> \/ f.left = <<Redo, "GetObject">>)
      BY <2>1, <2>2 DEF Afters, AftersOfRedone
    <3>2. f.left = <<Redo>> \/ f.left = <<Redo, "GetObject">> => f.left \notin AftersOfRedone
      BY Tails DEF AftersOfRedone, Redo
    <3> QED BY <1>3, <2>2, <3>1, <3>2 DEF Redo
  <2>3. CASE f.method.action = "PATCH"
    BY <2>1, <2>3 DEF Afters
  <2>4. CASE f.method.action \in {"DELETE", "ENSURE_DELETION"}
    <3>1. \/ f.left = <<"IgnoreWhenDoesNotExistOrConflicts">> \/ f.left = <<"TryToWaitUntilIsGone">>
          \/ f.left = <<"IgnoreWhenDoesNotExistOrConflicts", "TryToWaitUntilIsGone">>
      BY <2>1, <2>4 DEF Afters
    <3>2. f.left[1] \in {"IgnoreWhenDoesNotExistOrConflicts", "TryToWaitUntilIsGone"}
      BY <3>1
    <3> QED BY <1>3, <2>4, <3>2 DEF Redo, Writing
  <2> QED BY <1>1, <2>2, <2>3, <2>4 DEF AllActions
<1> QED BY <1>1, <1>2, <1>3

(* apply starts with a frame that satisfies the invariant.                 *)
LEMMA NewFrameInv ==
  ASSUME NEW k, NEW m, MethodInv(k, m), NEW marks
  PROVE  /\ FrameInv(k, NewFrame(m)) /\ HasWritten(NewFrame(m), marks)
         /\ NewFrame(m).method = m /\ NewFrame(m).at = "before" /\ NewFrame(m).left = m.before
<1>1. m.before \in Upto2(BeforeCallbacks \cup AfterCallbacks)
  BY BeforesShort DEF MethodInv
<1>2. NewFrame(m) \in Frame
  BY <1>1 DEF MethodInv, NewFrame, Frame, Codes, NoCode
<1> QED BY <1>2 DEF FrameInv, HasWritten, NewFrame, MethodInv

(* Changes to a frame keep its type.                                       *)
LEMMA FrameChanged ==
  ASSUME NEW f \in Frame, NEW left \in Upto2(BeforeCallbacks \cup AfterCallbacks),
         NEW err \in BOOLEAN
  PROVE  /\ [f EXCEPT !.left = left, !.tries = 0] \in Frame
         /\ [f EXCEPT !.at = "after", !.left = left, !.tries = 0, !.err = err] \in Frame
BY DEF Frame

(* Going on to the next callback keeps the invariant of a frame.           *)
LEMMA ProceedInv ==
  ASSUME NEW k, NEW f, NEW marks, FrameInv(k, f), HasWritten(f, marks), f.left # <<>>
  PROVE  /\ FrameInv(k, Proceed(f)) /\ HasWritten(Proceed(f), marks)
         /\ Proceed(f).at = "before" => Proceed(f).left = <<>>
         /\ Proceed(f).method = f.method /\ Proceed(f).at = f.at
         /\ Proceed(f).left = Tail(f.left)
<1> DEFINE g == Proceed(f)
           rest == Tail(f.left)
<1>1. /\ g = [f EXCEPT !.left = rest, !.tries = 0]
      /\ f \in Frame /\ f.method.action \in AllActions
  BY DEF Proceed, FrameInv, MethodInv, Method
<1>2. /\ g.method = f.method /\ g.at = f.at /\ g.left = rest
      /\ g.code = f.code /\ g.err = f.err
  BY <1>1 DEF Frame
<1>3. CASE f.at = "before"
  <2>1. rest = <<>>
    BY <1>3, BeforesShort DEF FrameInv
  <2>2. rest \in Upto2(BeforeCallbacks \cup AfterCallbacks)
    BY <2>1, ShortTuples
  <2>3. g \in Frame
    BY <1>1, <2>2, FrameChanged
  <2>4. <<>> \in Befores(f.method.action)
    BY DEF Befores
  <2> QED BY <1>2, <1>3, <2>1, <2>3, <2>4 DEF FrameInv, HasWritten, Failed
<1>4. CASE f.at = "after"
  <2>1. rest \in Afters(k, f.method.action)
    BY <1>1, <1>4, AftersShort DEF FrameInv
  <2>2. rest \in Upto2(BeforeCallbacks \cup AfterCallbacks)
    BY <1>1, <2>1, AftersShort
  <2>3. g \in Frame
    BY <1>1, <2>2, FrameChanged
  <2> QED BY <1>2, <1>4, <2>1, <2>3 DEF FrameInv, HasWritten, Failed
<1> QED BY <1>1, <1>3, <1>4 DEF Frame

(* It keeps that of the top of a stack when a creation of a project that   *)
(* gets to its request has noted a free name.                              *)
LEMMA ProceedTop ==
  ASSUME NEW k, NEW c, NEW marks, NEW depth, NEW f, TopInv(k, c, marks, depth, f),
         f.left # <<>>, f.at = "before" /\ CreatesProject(k, c) => "free" \in marks
  PROVE  TopInv(k, c, marks, depth, Proceed(f))
<1>1. f.left \in AftersOfRedone => Tail(f.left) \in AftersOfRedone
  BY Tails DEF AftersOfRedone
<1>2. depth = 2 => Nested(Proceed(f))
  BY <1>1, ProceedInv DEF TopInv, Nested
<1> QED BY <1>2, ProceedInv DEF TopInv

(* Ending apply keeps it unless a method that writes ends without an       *)
(* error.                                                                  *)
LEMMA EndsTop ==
  ASSUME NEW k, NEW c, NEW marks, NEW depth, NEW f, TopInv(k, c, marks, depth, f),
         NEW err \in BOOLEAN, Writing(f.method.action) => err
  PROVE  TopInv(k, c, marks, depth, Ends(f, err))
<1> DEFINE g == Ends(f, err)
<1>1. /\ g = [f EXCEPT !.at = "after", !.left = <<>>, !.tries = 0, !.err = err]
      /\ f \in Frame /\ f.method.action \in AllActions
  BY DEF Ends, TopInv, FrameInv, MethodInv, Method
<1>2. /\ g.method = f.method /\ g.at = "after" /\ g.left = <<>> /\ g.tries = 0
      /\ g.result = f.result /\ g.code = f.code /\ g.err = err
  BY <1>1 DEF Frame
<1>4. <<>> \in Upto2(BeforeCallbacks \cup AfterCallbacks)
  BY ShortTuples
<1>5. g \in Frame
  <2>1. \A left \in Upto2(BeforeCallbacks \cup AfterCallbacks) :
          [f EXCEPT !.at = "after", !.left = left, !.tries = 0, !.err = err] \in Frame
    BY <1>1, FrameChanged
  <2>2. [f EXCEPT !.at = "after", !.left = <<>>, !.tries = 0, !.err = err] \in Frame
    BY <1>4, <2>1, Zenon
  <2> QED BY <1>1, <2>2
<1>3. <<>> \in Afters(k, f.method.action) /\ <<>> \in AftersOfRedone
  BY <1>1 DEF Afters, AftersOfRedone
<1> QED BY <1>2, <1>3, <1>5 DEF TopInv, FrameInv, Nested, HasWritten, Failed

(* An error, one more try and, of a method that does not write, an ignored *)
(* answer change nothing the invariant speaks of.                          *)
LEMMA ChangedTop ==
  ASSUME NEW k, NEW c, NEW marks, NEW depth, NEW f, TopInv(k, c, marks, depth, f)
  PROVE  /\ TopInv(k, c, marks, depth, [f EXCEPT !.err = TRUE])
         /\ TopInv(k, c, marks, depth, [f EXCEPT !.tries = @ + 1])
         /\ ~Writing(f.method.action) =>
              TopInv(k, c, marks, depth, [f EXCEPT !.code = NoCode, !.err = FALSE])
<1>1. f \in Frame
  BY DEF TopInv, FrameInv
<1>2. TopInv(k, c, marks, depth, [f EXCEPT !.err = TRUE])
  BY <1>1 DEF TopInv, FrameInv, Nested, HasWritten, Failed, Frame
<1>3. TopInv(k, c, marks, depth, [f EXCEPT !.tries = @ + 1])
  BY <1>1 DEF TopInv, FrameInv, Nested, HasWritten, Failed, Frame
<1>4. ASSUME ~Writing(f.method.action)
      PROVE  TopInv(k, c, marks, depth, [f EXCEPT !.code = NoCode, !.err = FALSE])
  BY <1>1, <1>4 DEF TopInv, FrameInv, Nested, HasWritten, Failed, Frame, NoCode, Codes
<1> QED BY <1>2, <1>3, <1>4

-----------------------------------------------------------------------------
(* Calls *)

(* Marks are only added, and a creation notes when its name gets free.     *)
LEMMA CallKept ==
  ASSUME NEW k, NEW ph, NEW ph2, NEW c, NEW m, NEW m2,
         CallInv(k, ph, c, m), c.stack # <<>> => m \subseteq m2,
         CreatesProject(k, c) /\ c.stack # <<>> /\ ph2 = "absent" =>
           ph = "absent" \/ "free" \in m2
  PROVE  CallInv(k, ph2, c, m2)
<1> SUFFICES ASSUME c.stack # <<>>
             PROVE  CallInv(k, ph2, c, m2)
  BY DEF CallInv
<1>1. TopInv(k, c, m2, Len(c.stack), c.stack[1])
  BY DEF CallInv, TopInv, HasWritten
<1>2. BelowInv(k, c, m2, Len(c.stack), c.stack[2])
  BY DEF CallInv, BelowInv, HasWritten
<1> QED BY <1>1, <1>2 DEF CallInv

WithTop(c, frame) == [c EXCEPT !.stack[1] = frame]

(* A call whose top frame is replaced by one that satisfies the invariant. *)
LEMMA CallReplaced ==
  ASSUME NEW k, NEW ph, NEW c \in Call, NEW m, CallInv(k, ph, c, m), c.stack # <<>>,
         NEW frame, TopInv(k, c, m, Len(c.stack), frame)
  PROVE  /\ WithTop(c, frame) \in Call /\ CallInv(k, ph, WithTop(c, frame), m)
         /\ WithTop(c, frame).reply = c.reply
<1> DEFINE s == [c.stack EXCEPT ![1] = frame]
           d == WithTop(c, frame)
<1>1. c.stack \in Upto2(Frame) /\ frame \in Frame
  BY DEF Call, TopInv, FrameInv
<1>2. /\ s \in Upto2(Frame) /\ s # <<>> /\ Len(s) = Len(c.stack) /\ s[1] = frame
      /\ Len(c.stack) = 2 => s[2] = c.stack[2]
  BY <1>1, ShortReplaced
<1> HIDE DEF s
<1>3. d = [c EXCEPT !.stack = s]
  BY DEF Call, WithTop, s
<1>4. /\ d \in Call /\ d.reply = c.reply /\ d.action = c.action /\ d.stack = s
  BY <1>2, <1>3 DEF Call
<1>5. TopInv(k, d, m, Len(s), s[1])
  BY <1>2, <1>4 DEF TopInv, CreatesProject
<1>6. BelowInv(k, d, m, Len(s), s[2])
  BY <1>2, <1>4 DEF CallInv, BelowInv
<1>7. CallInv(k, ph, d, m)
  BY <1>4, <1>5, <1>6 DEF CallInv, CreatesProject
<1> QED BY <1>4, <1>7

(* A stack that is one or two given frames. *)
LEMMA CallWithStack ==
  ASSUME NEW k, NEW ph, NEW c \in Call, NEW m, c.stack # <<>>, CallInv(k, ph, c, m),
         NEW f, NEW g, BelowInv(k, c, m, 2, g)
  PROVE  /\ TopInv(k, c, m, 1, f) => /\ [c EXCEPT !.stack = <<f>>] \in Call
                                     /\ CallInv(k, ph, [c EXCEPT !.stack = <<f>>], m)
         /\ TopInv(k, c, m, 2, f) => /\ [c EXCEPT !.stack = <<f, g>>] \in Call
                                     /\ CallInv(k, ph, [c EXCEPT !.stack = <<f, g>>], m)
<1>1. ASSUME NEW s \in Upto2(Frame), s # <<>>, TopInv(k, c, m, Len(s), s[1]),
             BelowInv(k, c, m, Len(s), s[2])
      PROVE  [c EXCEPT !.stack = s] \in Call /\ CallInv(k, ph, [c EXCEPT !.stack = s], m)
  <2> DEFINE d == [c EXCEPT !.stack = s]
  <2>1. d \in Call /\ d.reply = c.reply /\ d.action = c.action /\ d.stack = s
    BY DEF Call
  <2> HIDE DEF d
  <2>2. TopInv(k, d, m, Len(s), s[1]) /\ BelowInv(k, d, m, Len(s), s[2])
    BY <1>1, <2>1 DEF TopInv, BelowInv, CreatesProject
  <2>3. CallInv(k, ph, d, m)
    BY <2>1, <2>2 DEF CallInv, CreatesProject
  <2> QED BY <2>1, <2>3 DEF d
<1>2. ASSUME TopInv(k, c, m, 1, f)
      PROVE  [c EXCEPT !.stack = <<f>>] \in Call /\ CallInv(k, ph, [c EXCEPT !.stack = <<f>>], m)
  <2>1. f \in Frame
    BY <1>2 DEF TopInv, FrameInv
  <2>2. <<f>> \in Upto2(Frame) /\ <<f>> # <<>> /\ Len(<<f>>) = 1 /\ <<f>>[1] = f
    BY <2>1, ShortTuples
  <2>3. BelowInv(k, c, m, 1, <<f>>[2])
    BY DEF BelowInv
  <2> QED BY <1>1, <1>2, <2>2, <2>3
<1>3. ASSUME TopInv(k, c, m, 2, f)
      PROVE  /\ [c EXCEPT !.stack = <<f, g>>] \in Call
             /\ CallInv(k, ph, [c EXCEPT !.stack = <<f, g>>], m)
  <2>1. f \in Frame /\ g \in Frame
    BY <1>3 DEF TopInv, BelowInv, FrameInv
  <2>2. /\ <<f, g>> \in Upto2(Frame) /\ <<f, g>> # <<>> /\ Len(<<f, g>>) = 2
        /\ <<f, g>>[1] = f /\ <<f, g>>[2] = g
    BY <2>1, ShortTuples
  <2> QED BY <1>1, <1>3, <2>2
<1> QED BY <1>2, <1>3

-----------------------------------------------------------------------------
(* Steps of the cluster *)

MarksKept ==
  /\ phase' \in Phases
  /\ seen' \in [Callers -> SUBSET Marks]
  /\ \A q \in Callers : CallInv(kind, phase', call[q], seen'[q])

(* Requests that change nothing leave the marks alone.                     *)
LEMMA StaysKeepsMarks ==
  ASSUME IInv, PhaseStays
  PROVE  MarksKept /\ phase' = phase /\ seen' = seen
BY DEF IInv, TypeOK, PhaseStays, MarksKept

(* A change of the object keeps the invariant of all calls and marks its   *)
(* writers.                                                                *)
LEMMA BecomesKeepsMarks ==
  ASSUME IInv, NEW ph \in Phases, NEW writers, PhaseBecomes(ph, writers)
  PROVE  /\ MarksKept
         /\ \A q \in Callers : Busy(q) /\ q \in writers => "written" \in seen'[q]
<1>1. phase' = ph
  BY DEF PhaseBecomes
<1>2. ASSUME NEW q \in Callers
      PROVE  /\ seen'[q] \in SUBSET Marks
             /\ Busy(q) => seen[q] \cup Notes(call[q].action, ph) \subseteq seen'[q]
             /\ Busy(q) /\ q \in writers => "written" \in seen'[q]
  <2>1. Notes(call[q].action, ph) \subseteq Marks
    BY DEF Notes, Marks
  <2>2. seen[q] \subseteq Marks
    BY DEF IInv, TypeOK
  <2> QED BY <2>1, <2>2 DEF PhaseBecomes, Marks
<1>3. ASSUME NEW q \in Callers
      PROVE  CallInv(kind, ph, call[q], seen'[q])
  <2>1. CallInv(kind, phase, call[q], seen[q])
    BY DEF IInv
  <2>2. call[q].stack # <<>> => seen[q] \subseteq seen'[q]
    BY <1>2 DEF Busy
  <2>3. CreatesProject(kind, call[q]) /\ call[q].stack # <<>> /\ ph = "absent" =>
          "free" \in seen'[q]
    BY <1>2 DEF Busy, CreatesProject, Notes
  <2> QED BY <2>1, <2>2, <2>3, CallKept
<1>4. seen' \in [Callers -> SUBSET Marks]
  BY <1>2 DEF PhaseBecomes
<1> QED BY <1>1, <1>2, <1>3, <1>4 DEF MarksKept

-----------------------------------------------------------------------------
(* Steps of a caller *)

Unanswered == \A q \in Callers : Busy(q) => call'[q].reply = "none"

(* What a step that changes the top of a stack has to show. *)
FaultsCounted == faults' \in 0 .. MaxFaults

TopOf(p, marks) == TopInv(kind, call[p], marks, Len(call[p].stack), Top(p))

(* Faults stay within their bound.                                         *)
LEMMA FaultCounts ==
  ASSUME IInv
  PROVE  /\ UNCHANGED faults => FaultsCounted
         /\ \A k : Fault(k) => FaultsCounted
BY ConstantsAssumption DEF IInv, TypeOK, FaultsCounted, Fault

(* A step that sets one call to one that satisfies the invariant keeps it, *)
(* and answers nobody.                                                     *)
LEMMA CallSet ==
  ASSUME IInv, NEW p \in Callers, MarksKept, kind' = kind, FaultsCounted,
         NEW c \in Call, CallInv(kind, phase', c, seen'[p]),
         call' = [call EXCEPT ![p] = c], Busy(p) => c.reply = "none"
  PROVE  IInv' /\ Unanswered
<1>1. call' \in [Callers -> Call]
  BY DEF IInv, TypeOK
<1>2. \A q \in Callers : call'[q] = IF q = p THEN c ELSE call[q]
  BY DEF IInv, TypeOK
<1>3. \A q \in Callers : CallInv(kind, phase', call'[q], seen'[q])
  BY <1>2 DEF MarksKept
<1>4. Unanswered
  BY <1>2 DEF Unanswered, Busy, IInv, CallInv
<1>5. TypeOK'
  BY <1>1 DEF IInv, TypeOK, MarksKept, FaultsCounted
<1> QED BY <1>3, <1>4, <1>5 DEF IInv

(* So does a step that sets the top of a stack.                            *)
LEMMA TopSet ==
  ASSUME IInv, NEW p \in Callers, Busy(p), MarksKept, kind' = kind, FaultsCounted,
         NEW frame, TopInv(kind, call[p], seen'[p], Len(call[p].stack), frame),
         SetTop(p, frame)
  PROVE  IInv' /\ Unanswered
<1> DEFINE c == WithTop(call[p], frame)
<1>1. call[p] \in Call /\ CallInv(kind, phase', call[p], seen'[p])
  BY DEF IInv, TypeOK, MarksKept
<1>2. call[p].stack # <<>> /\ call[p].reply = "none"
  BY DEF Busy, IInv, CallInv
<1>3. c \in Call /\ CallInv(kind, phase', c, seen'[p]) /\ c.reply = "none"
  BY <1>1, <1>2, CallReplaced
<1>4. call' = [call EXCEPT ![p] = c]
  BY DEF SetTop, WithTop, IInv, TypeOK
<1> HIDE DEF c
<1> QED BY <1>3, <1>4, CallSet

(* So does one more try.                                                   *)
LEMMA RetrySet ==
  ASSUME IInv, NEW p \in Callers, Busy(p), MarksKept, kind' = kind, FaultsCounted,
         NEW frame, TopInv(kind, call[p], seen'[p], Len(call[p].stack), frame),
         TopOf(p, seen'[p]), NEW callback, RetryOr(p, callback, frame)
  PROVE  IInv' /\ Unanswered
<1> DEFINE again == [Top(p) EXCEPT !.tries = @ + 1]
<1>1. TopInv(kind, call[p], seen'[p], Len(call[p].stack), again)
  BY ChangedTop DEF TopOf
<1>2. SetTop(p, again) \/ SetTop(p, frame)
  BY DEF RetryOr
<1> HIDE DEF again
<1> QED BY <1>1, <1>2, TopSet

(* What is known of the top of the stack of a caller that runs a callback. *)
LEMMA RunsTop ==
  ASSUME IInv, NEW p \in Callers, NEW callback, Runs(p, callback)
  PROVE  /\ Busy(p) /\ Top(p).left # <<>> /\ Top(p).left[1] = callback
         /\ TopOf(p, seen[p]) /\ FrameInv(kind, Top(p))
         /\ kind \in Kinds /\ call[p] \in Call /\ Len(call[p].stack) \in {1, 2}
         /\ CreatesProject(kind, call[p]) => Top(p).method.action = "POST"
<1>1. Busy(p) /\ Top(p).left # <<>> /\ Top(p).left[1] = callback
  BY DEF Runs
<1>2. CallInv(kind, phase, call[p], seen[p])
  BY DEF IInv
<1>3. TopOf(p, seen[p]) /\ FrameInv(kind, Top(p))
  BY <1>1, <1>2 DEF CallInv, Busy, TopOf, Top, TopInv
<1>4. kind \in Kinds /\ call[p] \in Call /\ call[p].stack \in Upto2(Frame)
  BY DEF IInv, TypeOK, Call
<1>5. Len(call[p].stack) \in {1, 2}
  BY <1>1, <1>4, ShortSequence DEF Busy
<1> QED BY <1>1, <1>3, <1>4, <1>5 DEF TopOf, TopInv

(* GET changes nothing; the master token is told that the object is not    *)
(* present only when it is absent.                                         *)
LEMMA GetAnswers ==
  ASSUME IInv, NEW master \in BOOLEAN, NEW code \in Codes, Get(master, code)
  PROVE  /\ MarksKept /\ FaultsCounted /\ phase' = phase /\ seen' = seen
         /\ master /\ IsNotPresent(code) => phase = "absent"
<1>1. MarksKept /\ phase' = phase /\ seen' = seen
  BY StaysKeepsMarks DEF Get
<1>2. FaultsCounted
  BY FaultCounts DEF Get
<1>3. master /\ IsNotPresent(code) => phase = "absent"
  BY DEF Get, IsNotPresent, IsHidden, NotFound, Forbidden, OK, ServerError, NoCode
<1> QED BY <1>1, <1>2, <1>3

(* Whether a token is the master token.                                    *)
LEMMA TokenIsBoolean ==
  ASSUME IInv, NEW p \in Callers
  PROVE  GetIsMaster(p) \in BOOLEAN
BY DEF GetIsMaster, UsesMaster

(* Top and TopInv after a request that left the marks as they were, or     *)
(* more of them.                                                           *)
LEMMA TopKept ==
  ASSUME IInv, NEW p \in Callers, Busy(p), MarksKept
  PROVE  TopOf(p, seen'[p])
BY DEF MarksKept, CallInv, TopOf, Busy, Top

(* A patch goes on as one or as a creation; both write.                    *)
LEMMA GetObjectAndMergeKeeps ==
  ASSUME IInv, NEW p \in Callers, GetObjectAndMerge(p)
  PROVE  IInv' /\ Unanswered
<1> DEFINE top == Top(p)
           depth == Len(call[p].stack)
<1>1. Runs(p, "GetObjectAndMerge") /\ kind' = kind
  BY DEF GetObjectAndMerge
<1>2. /\ Busy(p) /\ TopOf(p, seen[p]) /\ FrameInv(kind, top) /\ top.left # <<>>
      /\ top.at = "before" /\ top.method.action = "PATCH" /\ depth \in {1, 2}
      /\ ~CreatesProject(kind, call[p])
  BY <1>1, RunsTop, RunningFrame
<1>3. PICK code \in Codes :
       /\ Get(GetIsMaster(p), code)
       /\ \/ SetTop(p, Proceed([top EXCEPT !.method = GetMethodDefinition(kind, "POST")]))
          \/ SetTop(p, Proceed(top))
          \/ RetryOr(p, "GetObjectAndMerge", Ends(top, TRUE))
  BY DEF GetObjectAndMerge
<1>4. MarksKept /\ FaultsCounted /\ seen' = seen
  BY <1>3, GetAnswers, TokenIsBoolean
<1>5. TopInv(kind, call[p], seen'[p], depth, top)
  BY <1>2, <1>4 DEF TopOf
<1>6. CASE SetTop(p, Proceed([top EXCEPT !.method = GetMethodDefinition(kind, "POST")]))
  <2> DEFINE post == GetMethodDefinition(kind, "POST")
             frame == Proceed([top EXCEPT !.method = post])
  <2>1. MethodInv(kind, post) /\ post.action = "POST"
    BY TableMethod DEF AllActions
  <2>2. /\ top \in Frame /\ FrameInv(kind, Proceed(top)) /\ Proceed(top).left = <<>>
        /\ Proceed(top).at = "before"
    BY <1>2, ProceedInv DEF TopOf, TopInv, FrameInv
  <2> HIDE DEF post
  <2>3. frame = [Proceed(top) EXCEPT !.method = post]
    BY <2>2 DEF Proceed, Frame
  <2>4. /\ frame \in Frame /\ frame.method = post /\ frame.at = "before" /\ frame.left = <<>>
    BY <2>1, <2>2, <2>3 DEF FrameInv, MethodInv, Frame
  <2>5. <<>> \in Befores("POST")
    BY DEF Befores
  <2>6. FrameInv(kind, frame)
    BY <2>1, <2>4, <2>5 DEF FrameInv
  <2>7. depth # 2
    BY <1>2 DEF TopOf, TopInv, Nested
  <2>8. TopInv(kind, call[p], seen'[p], depth, frame)
    BY <1>2, <2>1, <2>4, <2>6, <2>7 DEF TopInv, HasWritten, Writing
  <2> HIDE DEF frame
  <2> QED BY <1>1, <1>2, <1>4, <1>6, <2>8, TopSet DEF frame, post
<1>7. CASE SetTop(p, Proceed(top))
  <2>1. TopInv(kind, call[p], seen'[p], depth, Proceed(top))
    BY <1>2, <1>5, ProceedTop
  <2> QED BY <1>1, <1>2, <1>4, <1>7, <2>1, TopSet
<1>8. CASE RetryOr(p, "GetObjectAndMerge", Ends(top, TRUE))
  <2>1. TopInv(kind, call[p], seen'[p], depth, Ends(top, TRUE))
    BY <1>5, EndsTop
  <2> QED BY <1>1, <1>2, <1>4, <1>5, <1>8, <2>1, RetrySet DEF TopOf
<1> QED BY <1>3, <1>6, <1>7, <1>8

(* A creation of a project only goes on when the name is free.             *)
LEMMA FailIfAlreadyExistsKeeps ==
  ASSUME IInv, NEW p \in Callers, FailIfAlreadyExists(p)
  PROVE  IInv' /\ Unanswered
<1> DEFINE top == Top(p)
           depth == Len(call[p].stack)
<1>1. Runs(p, "FailIfAlreadyExists") /\ kind' = kind
  BY DEF FailIfAlreadyExists
<1>2. /\ Busy(p) /\ TopOf(p, seen[p]) /\ FrameInv(kind, top) /\ top.left # <<>>
      /\ top.at = "before"
  BY <1>1, RunsTop, RunningFrame
<1>3. PICK code \in Codes :
       /\ Get(TRUE, code)
       /\ SetTop(p, IF IsNotPresent(code) THEN Proceed(top) ELSE Ends(top, TRUE))
  BY DEF FailIfAlreadyExists
<1>4. /\ MarksKept /\ FaultsCounted /\ seen' = seen
      /\ IsNotPresent(code) => phase = "absent"
  BY <1>3, GetAnswers
<1>5. TopInv(kind, call[p], seen'[p], depth, top)
  BY <1>2, <1>4 DEF TopOf
<1>6. CASE IsNotPresent(code)
  <2>1. CreatesProject(kind, call[p]) => "free" \in seen'[p]
    BY <1>2, <1>4, <1>6 DEF IInv, CallInv, Busy
  <2>2. TopInv(kind, call[p], seen'[p], depth, Proceed(top))
    BY <1>2, <1>5, <2>1, ProceedTop
  <2> QED BY <1>1, <1>2, <1>3, <1>4, <1>6, <2>2, TopSet
<1>7. CASE ~IsNotPresent(code)
  <2>1. TopInv(kind, call[p], seen'[p], depth, Ends(top, TRUE))
    BY <1>5, EndsTop
  <2> QED BY <1>1, <1>2, <1>3, <1>4, <1>7, <2>1, TopSet
<1> QED BY <1>6, <1>7

(* ENSURE_DELETION ends, or deletes.                                       *)
LEMMA WaitUntilIsRemovedKeeps ==
  ASSUME IInv, NEW p \in Callers, WaitUntilIsRemoved(p)
  PROVE  IInv' /\ Unanswered
<1> DEFINE top == Top(p)
           depth == Len(call[p].stack)
           ensuring == AddAfterDoCallbackIfNotExist(top.method, "TryToWaitUntilIsGone")
           frame == Proceed([top EXCEPT !.method = ensuring])
<1>1. Runs(p, "WaitUntilIsRemoved") /\ kind' = kind
  BY DEF WaitUntilIsRemoved
<1>2. /\ Busy(p) /\ TopOf(p, seen[p]) /\ FrameInv(kind, top) /\ top.left # <<>>
      /\ top.at = "before" /\ top.method.action = "ENSURE_DELETION"
      /\ ~CreatesProject(kind, call[p])
  BY <1>1, RunsTop, RunningFrame
<1>3. \/ SetTop(p, Ends(top, FALSE)) /\ PhaseStays /\ UNCHANGED faults
      \/ \E code \in Codes : /\ Get(GetIsMaster(p), code)
                             /\ \/ SetTop(p, Ends(top, FALSE))
                                \/ RetryOr(p, "WaitUntilIsRemoved", frame)
  BY DEF WaitUntilIsRemoved
<1>4. MarksKept /\ FaultsCounted /\ seen' = seen
  BY <1>3, GetAnswers, TokenIsBoolean, StaysKeepsMarks, FaultCounts
<1>5. TopInv(kind, call[p], seen'[p], depth, top)
  BY <1>2, <1>4 DEF TopOf
<1>6. CASE SetTop(p, Ends(top, FALSE))
  <2>1. TopInv(kind, call[p], seen'[p], depth, Ends(top, FALSE))
    BY <1>2, <1>5, EndsTop DEF Writing
  <2> QED BY <1>1, <1>2, <1>4, <1>6, <2>1, TopSet
<1>7. CASE RetryOr(p, "WaitUntilIsRemoved", frame)
  <2>1. MethodInv(kind, ensuring) /\ ensuring.action = "ENSURE_DELETION"
    BY <1>2, EnsuringMethod DEF FrameInv
  <2>2. /\ top \in Frame /\ FrameInv(kind, Proceed(top)) /\ Proceed(top).left = <<>>
        /\ Proceed(top).at = "before"
    BY <1>2, ProceedInv DEF TopOf, TopInv, FrameInv
  <2> HIDE DEF ensuring
  <2>3. frame = [Proceed(top) EXCEPT !.method = ensuring]
    BY <2>2 DEF Proceed, Frame
  <2>4. frame \in Frame /\ frame.method = ensuring /\ frame.at = "before" /\ frame.left = <<>>
    BY <2>1, <2>2, <2>3 DEF FrameInv, MethodInv, Frame
  <2>5. <<>> \in Befores("ENSURE_DELETION")
    BY DEF Befores
  <2>6. FrameInv(kind, frame)
    BY <2>1, <2>4, <2>5 DEF FrameInv
  <2>7. depth # 2 /\ (depth = 1 => ~Writing(call[p].action))
    BY <1>2 DEF TopOf, TopInv, Nested, Writing
  <2>8. TopInv(kind, call[p], seen'[p], depth, frame)
    BY <1>2, <2>1, <2>4, <2>6, <2>7 DEF TopInv, HasWritten
  <2> HIDE DEF frame
  <2> QED BY <1>1, <1>2, <1>4, <1>5, <1>7, <2>8, RetrySet DEF TopOf, frame, ensuring
<1> QED BY <1>3, <1>6, <1>7

(* What a request that is served does to the marks: one that writes is     *)
(* answered OK only when it did.                                           *)
LEMMA ServeKeepsMarks ==
  ASSUME IInv, NEW p \in Callers, Busy(p), NEW action \in AllActions, NEW master \in BOOLEAN,
         NEW code \in Codes, Serve(p, action, master, code)
  PROVE  /\ MarksKept
         /\ Writing(action) => code # NoCode
         /\ Writing(action) /\ code = OK => "written" \in seen'[p]
<1>1. CASE action = "POST"
  <2>1. Post(p, code)
    BY <1>1 DEF Serve
  <2>2. CASE PhaseBecomes("fresh", {p}) /\ code = OK
    <3>1. MarksKept /\ "written" \in seen'[p]
      BY <2>2, BecomesKeepsMarks DEF Phases
    <3> QED BY <2>2, <3>1 DEF OK, NoCode
  <2>3. CASE PhaseStays /\ code = Conflict
    BY <2>3, StaysKeepsMarks DEF OK, NoCode, Conflict
  <2> QED BY <2>1, <2>2, <2>3 DEF Post
<1>2. CASE action = "PATCH"
  <2>1. Patch(p, master, code)
    BY <1>2 DEF Serve
  <2>2. CASE PhaseBecomes(phase, {p}) /\ code = OK
    <3>1. phase \in Phases
      BY DEF IInv, TypeOK
    <3>2. MarksKept /\ "written" \in seen'[p]
      BY <2>2, <3>1, BecomesKeepsMarks
    <3> QED BY <2>2, <3>2 DEF OK, NoCode
  <2>3. CASE PhaseStays /\ code \in {NotFound, Forbidden}
    BY <2>3, StaysKeepsMarks DEF OK, NoCode, NotFound, Forbidden
  <2> QED BY <2>1, <2>2, <2>3 DEF Patch
<1>3. CASE action \in {"DELETE", "ENSURE_DELETION"}
  <2>1. Delete(master, code)
    BY <1>3 DEF Serve
  <2>2. PhaseStays \/ \E ph \in Phases : PhaseBecomes(ph, {})
    BY <2>1 DEF Delete, Phases
  <2>3. MarksKept
    BY <2>2, StaysKeepsMarks, BecomesKeepsMarks
  <2> QED BY <1>3, <2>3 DEF Writing
<1> QED BY <1>1, <1>2, <1>3 DEF AllActions

(* The request: with an answer the callbacks follow, without one apply     *)
(* ends with an error.                                                     *)
LEMMA DoKeeps ==
  ASSUME IInv, NEW p \in Callers, Do(p)
  PROVE  IInv' /\ Unanswered
<1> DEFINE top == Top(p)
           method == top.method
           depth == Len(call[p].stack)
           answered(code) == [top EXCEPT !.at = "after", !.left = method.after,
                                         !.result = code, !.code = code]
<1>1. AboutToDo(p) /\ Busy(p) /\ kind' = kind /\ top.at = "before"
  BY DEF Do, AboutToDo
<1>2. TopOf(p, seen[p]) /\ FrameInv(kind, top) /\ top \in Frame /\ method.action \in AllActions
  BY <1>1 DEF IInv, CallInv, Busy, TopOf, Top, TopInv, FrameInv, MethodInv, Method
<1>3. UsesMaster(p, method) \in BOOLEAN
  <2>1. method.needMasterToken \in BOOLEAN
    BY <1>2 DEF FrameInv, MethodInv, Method
  <2> QED BY <2>1 DEF UsesMaster
<1>4. PICK code \in Codes :
       \/ /\ Serve(p, method.action, UsesMaster(p, method), code)
          /\ UNCHANGED faults /\ SetTop(p, answered(code))
       \/ /\ Fault("refused") /\ PhaseStays
          /\ code = ServerError /\ SetTop(p, answered(code))
       \/ /\ Fault("noResponse")
          /\ Serve(p, method.action, UsesMaster(p, method), code) \/ PhaseStays
          /\ SetTop(p, Ends(top, TRUE))
  BY DEF Do
<1>5. MarksKept /\ FaultsCounted
  BY <1>1, <1>2, <1>3, <1>4, ServeKeepsMarks, StaysKeepsMarks, FaultCounts
<1>6. TopInv(kind, call[p], seen'[p], depth, top)
  BY <1>1, <1>5, TopKept DEF TopOf
<1>7. ASSUME Writing(method.action) /\ code \in {NoCode, OK} => "written" \in seen'[p]
      PROVE  TopInv(kind, call[p], seen'[p], depth, answered(code))
  <2> DEFINE g == answered(code)
  <2>1. /\ method \in Method /\ method.after \in Afters(kind, method.action)
    BY <1>2 DEF FrameInv, MethodInv
  <2>2. method.after \in Upto2(BeforeCallbacks \cup AfterCallbacks)
    BY <1>2, <2>1, AftersShort
  <2>3. /\ g \in Frame /\ g.method = method /\ g.at = "after" /\ g.left = method.after
        /\ g.code = code /\ g.err = top.err
    BY <1>2, <2>2 DEF Frame
  <2> HIDE DEF g
  <2>4. FrameInv(kind, g)
    BY <1>2, <2>1, <2>3 DEF FrameInv
  <2>5. HasWritten(g, seen'[p])
    BY <1>7, <2>3 DEF HasWritten, Failed, Bad
  <2>6. depth = 2 => Nested(g)
    BY <1>6, <2>3 DEF TopInv, Nested
  <2>7. TopInv(kind, call[p], seen'[p], depth, g)
    BY <1>6, <2>3, <2>4, <2>5, <2>6 DEF TopInv
  <2> QED BY <2>7 DEF g
<1>8. CASE Serve(p, method.action, UsesMaster(p, method), code) /\ SetTop(p, answered(code))
  <2>1. TopInv(kind, call[p], seen'[p], depth, answered(code))
    BY <1>1, <1>2, <1>3, <1>7, <1>8, ServeKeepsMarks
  <2> HIDE DEF answered
  <2> QED BY <1>1, <1>5, <1>8, <2>1, TopSet
<1>9. CASE code = ServerError /\ SetTop(p, answered(code))
  <2>1. TopInv(kind, call[p], seen'[p], depth, answered(code))
    BY <1>7, <1>9 DEF ServerError, NoCode, OK
  <2> HIDE DEF answered
  <2> QED BY <1>1, <1>5, <1>9, <2>1, TopSet
<1>10. CASE SetTop(p, Ends(top, TRUE))
  <2>1. TopInv(kind, call[p], seen'[p], depth, Ends(top, TRUE))
    BY <1>6, EndsTop
  <2> QED BY <1>1, <1>5, <1>10, <2>1, TopSet
<1> QED BY <1>4, <1>8, <1>9, <1>10

(* The frame that repeats GET, goes on after it or goes on with an error.  *)
LEMMA GetCallbackKeeps ==
  ASSUME IInv, NEW p \in Callers, NEW callback \in {"GetObject", "TryToWaitUntilIsGone"},
         Runs(p, callback), kind' = kind, MarksKept, FaultsCounted,
         \/ SetTop(p, Proceed(Top(p)))
         \/ SetTop(p, Proceed([Top(p) EXCEPT !.err = TRUE]))
         \/ RetryOr(p, callback, Proceed(Top(p)))
         \/ RetryOr(p, callback, Proceed([Top(p) EXCEPT !.err = TRUE]))
  PROVE  IInv' /\ Unanswered
<1> DEFINE top == Top(p)
           failed == [top EXCEPT !.err = TRUE]
           depth == Len(call[p].stack)
<1>1. /\ Busy(p) /\ FrameInv(kind, top) /\ top.left # <<>> /\ top.at = "after"
  BY RunsTop, RunningFrame
<1>2. TopInv(kind, call[p], seen'[p], depth, top) /\ TopOf(p, seen'[p])
  BY <1>1, TopKept DEF TopOf
<1>3. TopInv(kind, call[p], seen'[p], depth, failed)
  BY <1>2, ChangedTop
<1>4. failed.left = top.left /\ failed.at = top.at
  BY <1>1 DEF FrameInv, Frame
<1>5. TopInv(kind, call[p], seen'[p], depth, Proceed(top))
  BY <1>1, <1>2, ProceedTop
<1> HIDE DEF failed
<1>6. TopInv(kind, call[p], seen'[p], depth, Proceed(failed))
  BY <1>1, <1>3, <1>4, ProceedTop
<1>7. \/ SetTop(p, Proceed(top)) \/ SetTop(p, Proceed(failed))
      \/ RetryOr(p, callback, Proceed(top)) \/ RetryOr(p, callback, Proceed(failed))
  BY DEF failed
<1> QED BY <1>1, <1>2, <1>5, <1>6, <1>7, TopSet, RetrySet

(* A callback that repeats GET gives up with an error.                     *)
LEMMA GiveUpKeeps ==
  ASSUME IInv, NEW p \in Callers, GiveUp(p)
  PROVE  IInv' /\ Unanswered
<1>1. PICK callback \in {"GetObject", "TryToWaitUntilIsGone"} : Runs(p, callback)
  BY DEF GiveUp
<1>2. /\ SetTop(p, Proceed([Top(p) EXCEPT !.err = TRUE])) /\ kind' = kind
      /\ MarksKept /\ FaultsCounted
  BY StaysKeepsMarks, FaultCounts DEF GiveUp
<1> QED BY <1>1, <1>2, GetCallbackKeeps

(* GetObject goes on when the object has a status, or in the end with an   *)
(* error.                                                                  *)
LEMMA GetObjectKeeps ==
  ASSUME IInv, NEW p \in Callers, GetObject(p)
  PROVE  IInv' /\ Unanswered
<1>1. PICK code \in Codes :
        /\ Get(GetIsMaster(p), code)
        /\ \/ SetTop(p, Proceed(Top(p)))
           \/ RetryOr(p, "GetObject", Proceed([Top(p) EXCEPT !.err = TRUE]))
  BY DEF GetObject
<1>2. MarksKept /\ FaultsCounted
  BY <1>1, GetAnswers, TokenIsBoolean
<1>3. Runs(p, "GetObject") /\ kind' = kind
  BY DEF GetObject
<1> QED BY <1>1, <1>2, <1>3, GetCallbackKeeps

(* TryToWaitUntilIsGone goes on in any case.                               *)
LEMMA TryToWaitUntilIsGoneKeeps ==
  ASSUME IInv, NEW p \in Callers, TryToWaitUntilIsGone(p)
  PROVE  IInv' /\ Unanswered
<1>1. PICK code \in Codes :
        /\ Get(GetIsMaster(p), code)
        /\ \/ SetTop(p, Proceed(Top(p)))
           \/ RetryOr(p, "TryToWaitUntilIsGone", Proceed(Top(p)))
  BY DEF TryToWaitUntilIsGone
<1>2. MarksKept /\ FaultsCounted
  BY <1>1, GetAnswers, TokenIsBoolean
<1>3. Runs(p, "TryToWaitUntilIsGone") /\ kind' = kind
  BY DEF TryToWaitUntilIsGone
<1> QED BY <1>1, <1>2, <1>3, GetCallbackKeeps

(* Only the answers of methods that do not write are ignored.              *)
LEMMA IgnoreKeeps ==
  ASSUME IInv, NEW p \in Callers, IgnoreWhenDoesNotExistOrConflicts(p)
  PROVE  IInv' /\ Unanswered
<1> DEFINE top == Top(p)
           ignored == [top EXCEPT !.code = NoCode, !.err = FALSE]
           depth == Len(call[p].stack)
<1>1. /\ Runs(p, "IgnoreWhenDoesNotExistOrConflicts") /\ kind' = kind
      /\ SetTop(p, Proceed(ignored)) \/ SetTop(p, Proceed(top))
      /\ MarksKept /\ FaultsCounted
  BY StaysKeepsMarks, FaultCounts DEF IgnoreWhenDoesNotExistOrConflicts
<1>2. /\ Busy(p) /\ FrameInv(kind, top) /\ top.left # <<>> /\ top.at = "after"
      /\ ~Writing(top.method.action)
  BY <1>1, RunsTop, RunningFrame
<1>3. TopInv(kind, call[p], seen'[p], depth, top)
  BY <1>1, <1>2, TopKept DEF TopOf
<1>4. TopInv(kind, call[p], seen'[p], depth, ignored)
  BY <1>2, <1>3, ChangedTop
<1>5. ignored.left = top.left /\ ignored.at = top.at
  BY <1>2 DEF FrameInv, Frame
<1>6. TopInv(kind, call[p], seen'[p], depth, Proceed(top))
  BY <1>2, <1>3, ProceedTop
<1> HIDE DEF ignored
<1>7. TopInv(kind, call[p], seen'[p], depth, Proceed(ignored))
  BY <1>2, <1>4, <1>5, ProceedTop
<1> QED BY <1>1, <1>2, <1>6, <1>7, TopSet

(* A conflict puts the deletion on top of the frame that met it: there was *)
(* one frame, since one on top of another has no such callback.            *)
LEMMA WhenConflictKeeps ==
  ASSUME IInv, NEW p \in Callers, WhenConflictThenDeleteAndRedo(p)
  PROVE  IInv' /\ Unanswered
<1> DEFINE top == Top(p)
           c == call[p]
           depth == Len(c.stack)
           delete == NewFrame(GetMethodDefinition(kind, "DELETE"))
<1>1. /\ Runs(p, Redo) /\ kind' = kind /\ MarksKept /\ FaultsCounted
      /\ seen' = seen /\ phase' = phase
  BY StaysKeepsMarks, FaultCounts DEF WhenConflictThenDeleteAndRedo, Redo
<1>2. /\ Busy(p) /\ TopOf(p, seen[p]) /\ FrameInv(kind, top) /\ top.left # <<>>
      /\ top.at = "after" /\ top.method.action = "POST" /\ top.left[1] = Redo
      /\ kind \notin ProjectKinds /\ top.left \notin AftersOfRedone
      /\ depth \in {1, 2} /\ c \in Call
  BY <1>1, RunsTop, RunningFrame
<1>3. CASE SetTop(p, Proceed(top))
  <2>1. TopInv(kind, c, seen'[p], depth, Proceed(top))
    BY <1>1, <1>2, ProceedTop DEF TopOf
  <2> QED BY <1>1, <1>2, <1>3, <2>1, TopSet
<1>4. CASE call' = [call EXCEPT ![p].stack = <<delete>> \o @]
  <2>1. FrameInv(kind, delete) /\ HasWritten(delete, seen'[p]) /\ delete.method.action = "DELETE"
    BY TableMethod, NewFrameInv DEF AllActions
  <2>2. depth = 1
    BY <1>2 DEF TopOf, TopInv, Nested
  <2>3. c.stack \in Upto2(Frame) /\ delete \in Frame
    BY <1>2, <2>1 DEF Call, FrameInv
  <2> HIDE DEF delete
  <2>4. <<delete>> \o c.stack = <<delete, top>>
    BY <2>2, <2>3, Pushed DEF Top
  <2>5. BelowInv(kind, c, seen'[p], 2, top)
    BY <1>1, <1>2 DEF TopOf, TopInv, BelowInv, Waiting, Writing
  <2>6. TopInv(kind, c, seen'[p], 2, delete)
    BY <1>2, <2>1 DEF TopInv, Nested, CreatesProject
  <2>7. c.stack # <<>> /\ c.reply = "none" /\ CallInv(kind, phase', c, seen'[p])
    BY <1>1, <1>2 DEF Busy, IInv, CallInv, MarksKept
  <2>8. /\ [c EXCEPT !.stack = <<delete, top>>] \in Call
        /\ CallInv(kind, phase', [c EXCEPT !.stack = <<delete, top>>], seen'[p])
    BY <1>2, <2>5, <2>6, <2>7, CallWithStack
  <2>9. call' = [call EXCEPT ![p] = [c EXCEPT !.stack = <<delete, top>>]]
    BY <1>4, <2>4 DEF IInv, TypeOK
  <2>10. [c EXCEPT !.stack = <<delete, top>>].reply = "none"
    BY <1>2, <2>7 DEF Call
  <2> QED BY <1>1, <2>8, <2>9, <2>10, CallSet
<1>5. \/ call' = [call EXCEPT ![p].stack = <<delete>> \o @]
      \/ SetTop(p, Proceed(top))
  BY DEF WhenConflictThenDeleteAndRedo
<1> QED BY <1>3, <1>4, <1>5

-----------------------------------------------------------------------------
(* The other steps *)

(* The body of AcceptedIsWritten.                                          *)
Accepted ==
  \A p \in Callers : Answers(p, "ok") /\ call[p].action \in {"POST", "PATCH"} =>
    "written" \in seen[p]

(* A step that answers nobody satisfies AcceptedIsWritten.                 *)
LEMMA UnansweredAccepted ==
  ASSUME Unanswered
  PROVE  Accepted
BY DEF Unanswered, Accepted, Answers

(* A call is answered as its one frame ends.                               *)
LEMMA LastReturn ==
  ASSUME IInv, NEW p \in Callers, Return(p), Len(call[p].stack) = 1
  PROVE  IInv' /\ Accepted
<1> DEFINE top == Top(p)
           reply == IF Failed(top) THEN "error" ELSE "ok"
           c == [call[p] EXCEPT !.reply = reply, !.user = FALSE, !.stack = <<>>]
<1>1. /\ Busy(p) /\ top.at = "after"
      /\ call' = [call EXCEPT ![p] = c]
      /\ seen' = [seen EXCEPT ![p] = {}]
      /\ kind' = kind /\ phase' = phase /\ faults' = faults
  BY DEF Return, IInv, TypeOK
<1>2. call[p] \in Call /\ <<>> \in Upto2(Frame)
  BY ShortTuples DEF IInv, TypeOK
<1>3. /\ c \in Call /\ c.stack = <<>> /\ c.reply = reply
  BY <1>2 DEF Call
<1> HIDE DEF c
<1>4. TypeOK'
  BY <1>1, <1>3 DEF IInv, TypeOK
<1>5. ASSUME NEW q \in Callers
      PROVE  CallInv(kind, phase, call'[q], seen'[q])
  BY <1>1, <1>3 DEF IInv, TypeOK, CallInv
<1>6. ASSUME NEW q \in Callers, Busy(q), call'[q].reply = "ok",
             call[q].action \in {"POST", "PATCH"}
      PROVE  "written" \in seen[q]
  <2>1. q = p
    BY <1>1, <1>6 DEF IInv, TypeOK, CallInv, Busy
  <2>2. ~Failed(top)
    BY <1>1, <1>3, <1>6, <2>1 DEF IInv, TypeOK
  <2>3. TopInv(kind, call[p], seen[p], 1, top)
    BY <1>1 DEF IInv, CallInv, Busy, Top
  <2>4. Writing(top.method.action)
    BY <1>6, <2>1, <2>3 DEF TopInv, Writing
  <2> QED BY <1>1, <2>1, <2>2, <2>3, <2>4 DEF TopInv, HasWritten
<1> QED BY <1>1, <1>4, <1>5, <1>6 DEF IInv, Accepted, Answers

(* A frame that ends on top of another one: the deletion is followed by    *)
(* the repetition or by an error, the repetition gives the frame below its *)
(* result.                                                                 *)
LEMMA NestedReturn ==
  ASSUME IInv, NEW p \in Callers, Return(p), Len(call[p].stack) # 1
  PROVE  IInv' /\ Unanswered
<1> DEFINE top == Top(p)
           c == call[p]
           below == c.stack[2]
           failed == Failed(top) \/ Bad(top.result)
           s == Resume(top.method.action, below, top.result, failed)
           fails == [below EXCEPT !.err = TRUE]
           redone == [below EXCEPT !.code = top.result, !.err = failed]
           again == NewFrame(RemoveAfterDoCallback(below.method, Redo))
<1>1. /\ Busy(p) /\ top.at = "after" /\ kind' = kind
      /\ call' = [call EXCEPT ![p] = [c EXCEPT !.stack = s]]
      /\ MarksKept /\ FaultsCounted /\ seen' = seen /\ phase' = phase
  <2>1. PhaseStays
    BY DEF Return, PhaseStays
  <2>2. call' = [call EXCEPT ![p].stack = s]
    BY DEF Return
  <2>3. call' = [call EXCEPT ![p] = [c EXCEPT !.stack = s]]
    BY <2>2 DEF IInv, TypeOK
  <2> QED BY <2>1, <2>3, StaysKeepsMarks, FaultCounts DEF Return
<1>2. c \in Call /\ c.stack \in Upto2(Frame) /\ Len(c.stack) = 2
  <2>1. c \in Call /\ c.stack \in Upto2(Frame) /\ c.stack # <<>>
    BY <1>1 DEF IInv, TypeOK, Call, Busy
  <2>2. Len(c.stack) \in 1 .. 2
    BY <2>1, ShortSequence
  <2> QED BY <2>1, <2>2
<1>3. /\ c.stack # <<>> /\ c.reply = "none" /\ CallInv(kind, phase', c, seen'[p])
      /\ TopInv(kind, c, seen'[p], 2, top) /\ BelowInv(kind, c, seen'[p], 2, below)
  BY <1>1, <1>2 DEF Busy, IInv, CallInv, Top
<1>4. /\ FrameInv(kind, below) /\ below \in Frame /\ Waiting(below)
      /\ Writing(c.action) => Writing(below.method.action)
      /\ HasWritten(below, seen'[p]) /\ MethodInv(kind, below.method)
      /\ below.method.action = "POST" /\ below.at = "after" /\ below.left # <<>>
  BY <1>3 DEF BelowInv, FrameInv, Waiting
<1>5. ~CreatesProject(kind, c)
  BY <1>4, RunningFrame DEF Waiting, CreatesProject
<1>6. TopInv(kind, c, seen'[p], 1, below)
  BY <1>4, <1>5 DEF TopInv
<1>7. top \in Frame /\ top.result \in Codes /\ failed \in BOOLEAN
  BY <1>3 DEF TopInv, FrameInv, Frame, Failed
<1>8. CASE top.method.action = "DELETE" /\ failed
  <2>1. TopInv(kind, c, seen'[p], 1, fails)
    BY <1>6, ChangedTop
  <2>2. fails.left # <<>> /\ fails.at = "after"
    BY <1>4 DEF Frame
  <2> HIDE DEF fails
  <2>3. TopInv(kind, c, seen'[p], 1, Proceed(fails))
    BY <2>1, <2>2, ProceedTop
  <2>4. s = <<Proceed(fails)>>
    BY <1>8 DEF Resume, fails
  <2> HIDE DEF s
  <2>5. [c EXCEPT !.stack = s] \in Call /\ CallInv(kind, phase', [c EXCEPT !.stack = s], seen'[p])
    BY <1>2, <1>3, <2>3, <2>4, CallWithStack
  <2>6. [c EXCEPT !.stack = s].reply = "none"
    BY <1>2, <1>3 DEF Call
  <2> QED BY <1>1, <2>5, <2>6, CallSet
<1>9. CASE top.method.action = "DELETE" /\ ~failed
  <2>1. /\ FrameInv(kind, again) /\ HasWritten(again, seen'[p])
        /\ again.method.action = "POST" /\ again.method.after \in AftersOfRedone
        /\ again.at = "before"
    <3> DEFINE method == RemoveAfterDoCallback(below.method, Redo)
    <3>1. /\ MethodInv(kind, method) /\ method.action = "POST"
          /\ method.after \in AftersOfRedone
      BY <1>4, RedoneMethod
    <3> HIDE DEF method
    <3>2. /\ FrameInv(kind, NewFrame(method)) /\ HasWritten(NewFrame(method), seen'[p])
          /\ NewFrame(method).method = method /\ NewFrame(method).at = "before"
      BY <3>1, NewFrameInv
    <3> QED BY <3>1, <3>2 DEF method
  <2> HIDE DEF again
  <2>2. TopInv(kind, c, seen'[p], 2, again)
    BY <1>5, <2>1 DEF TopInv, Nested
  <2>3. s = <<again, below>>
    BY <1>9 DEF Resume, again, Redo
  <2> HIDE DEF s
  <2>4. [c EXCEPT !.stack = s] \in Call /\ CallInv(kind, phase', [c EXCEPT !.stack = s], seen'[p])
    BY <1>2, <1>3, <2>2, <2>3, CallWithStack
  <2>5. [c EXCEPT !.stack = s].reply = "none"
    BY <1>2, <1>3 DEF Call
  <2> QED BY <1>1, <2>4, <2>5, CallSet
<1>10. CASE top.method.action # "DELETE"
  <2>1. top.method.action = "POST" /\ (~failed => "written" \in seen'[p])
    BY <1>1, <1>3, <1>10 DEF TopInv, Nested, HasWritten, Writing
  <2>2. /\ redone \in Frame /\ redone.method = below.method /\ redone.at = below.at
        /\ redone.left = below.left /\ redone.err = failed
    BY <1>4, <1>7 DEF Frame
  <2> HIDE DEF redone, failed
  <2>3. TopInv(kind, c, seen'[p], 1, redone)
    BY <1>5, <1>6, <2>1, <2>2 DEF TopInv, FrameInv, HasWritten, Failed
  <2>4. TopInv(kind, c, seen'[p], 1, Proceed(redone))
    BY <1>4, <2>2, <2>3, ProceedTop
  <2>5. s = <<Proceed(redone)>>
    BY <1>10 DEF Resume, redone
  <2> HIDE DEF s
  <2>6. [c EXCEPT !.stack = s] \in Call /\ CallInv(kind, phase', [c EXCEPT !.stack = s], seen'[p])
    BY <1>2, <1>3, <2>4, <2>5, CallWithStack
  <2>7. [c EXCEPT !.stack = s].reply = "none"
    BY <1>2, <1>3 DEF Call
  <2> QED BY <1>1, <2>6, <2>7, CallSet
<1> QED BY <1>8, <1>9, <1>10

(* A call begins with the method of the table.                             *)
LEMMA BeginKeeps ==
  ASSUME IInv, NEW p \in Callers, NEW action \in Actions, NEW user \in BOOLEAN,
         Begin(p, action, user)
  PROVE  IInv' /\ Unanswered
<1> DEFINE method == GetMethodDefinition(kind, action)
           frame == NewFrame(method)
           c == [action |-> action, user |-> user, reply |-> "none", stack |-> <<frame>>]
<1>1. /\ call' = [call EXCEPT ![p] = c]
      /\ seen' = [seen EXCEPT ![p] = Notes(action, phase)]
      /\ kind' = kind /\ phase' = phase /\ faults' = faults
      /\ call[p] = IdleCall /\ action \in AllActions /\ kind \in Kinds
  BY ConstantsAssumption DEF Begin, IInv, TypeOK
<1>2. MethodInv(kind, method) /\ method.action = action
  BY <1>1, TableMethod
<1> HIDE DEF method
<1>3. /\ FrameInv(kind, frame) /\ HasWritten(frame, seen'[p]) /\ frame \in Frame
      /\ frame.method.action = action /\ frame.left = method.before /\ frame.at = "before"
  BY <1>2, NewFrameInv DEF FrameInv
<1>4. CreatesProject(kind, c) => frame.left # <<>>
  BY <1>1, <1>3 DEF CreatesProject, method, GetMethodDefinition, BeforeDo
<1>5. CreatesProject(kind, c) /\ phase = "absent" => "free" \in seen'[p]
  BY <1>1 DEF CreatesProject, Notes, IInv, TypeOK
<1> HIDE DEF frame
<1>6. <<frame>> \in Upto2(Frame) /\ Len(<<frame>>) = 1 /\ <<frame>>[1] = frame
  BY <1>3, ShortTuples
<1>7. c \in Call
  BY <1>1, <1>6 DEF Call
<1>8. TopInv(kind, c, seen'[p], 1, frame) /\ BelowInv(kind, c, seen'[p], 1, c.stack[2])
  BY <1>3, <1>4 DEF TopInv, BelowInv, CreatesProject
<1>9. CallInv(kind, phase', c, seen'[p])
  BY <1>1, <1>5, <1>6, <1>8 DEF CallInv
<1> HIDE DEF c
<1>10. seen' \in [Callers -> SUBSET Marks] /\ call' \in [Callers -> Call]
  <2>1. Notes(action, phase) \in SUBSET Marks
    BY DEF Notes, Marks
  <2> QED BY <1>1, <1>7, <2>1 DEF IInv, TypeOK
<1>11. TypeOK'
  BY <1>1, <1>10 DEF IInv, TypeOK
<1>12. ASSUME NEW q \in Callers
       PROVE  CallInv(kind, phase', call'[q], seen'[q])
  BY <1>1, <1>9 DEF IInv, TypeOK
<1>13. Unanswered
  <2>1. ~Busy(p)
    BY <1>1 DEF Busy, IdleCall
  <2>2. \A q \in Callers : q # p => call'[q] = call[q]
    BY <1>1 DEF IInv, TypeOK
  <2> QED BY <2>1, <2>2 DEF Unanswered, Busy, IInv, CallInv
<1> QED BY <1>1, <1>11, <1>12, <1>13 DEF IInv

(* The cluster and its other users change the object.                      *)
LEMMA ClusterKeeps ==
  ASSUME IInv, Cluster
  PROVE  IInv' /\ Unanswered
<1>1. \E ph \in Phases : PhaseBecomes(ph, {})
  BY DEF Cluster, GetsStatus, IsRemoved, SomebodyCreates, Phases
<1>2. MarksKept
  BY <1>1, BecomesKeepsMarks
<1>3. kind' = kind /\ call' = call /\ faults' = faults
  BY DEF Cluster
<1> QED BY <1>2, <1>3 DEF MarksKept, IInv, TypeOK, Unanswered, Busy, CallInv

-----------------------------------------------------------------------------
(* The theorems *)

(* The initial states satisfy the invariant.                               *)
LEMMA InitInv == Init => IInv
<1> SUFFICES ASSUME Init
             PROVE  IInv
  OBVIOUS
<1>1. IdleCall \in Call /\ IdleCall.stack = <<>>
  BY ShortTuples DEF IdleCall, Call
<1>2. TypeOK
  <2>1. phase \in Phases
    BY DEF Init
  <2>2. faults \in 0 .. MaxFaults
    BY ConstantsAssumption DEF Init
  <2> QED BY <1>1, <2>1, <2>2 DEF Init, TypeOK
<1>3. \A p \in Callers : CallInv(kind, phase, call[p], seen[p])
  BY <1>1 DEF Init, CallInv
<1> QED BY <1>2, <1>3 DEF IInv

(* Every step of a caller keeps it and answers a write only if it took     *)
(* place.                                                                  *)
LEMMA StepKeeps ==
  ASSUME IInv, NEW p \in Callers, Step(p)
  PROVE  IInv' /\ Accepted
<1>1. CASE GetObjectAndMerge(p)
  BY <1>1, GetObjectAndMergeKeeps, UnansweredAccepted
<1>2. CASE FailIfAlreadyExists(p)
  BY <1>2, FailIfAlreadyExistsKeeps, UnansweredAccepted
<1>3. CASE WaitUntilIsRemoved(p)
  BY <1>3, WaitUntilIsRemovedKeeps, UnansweredAccepted
<1>4. CASE Do(p)
  BY <1>4, DoKeeps, UnansweredAccepted
<1>5. CASE WhenConflictThenDeleteAndRedo(p)
  BY <1>5, WhenConflictKeeps, UnansweredAccepted
<1>6. CASE IgnoreWhenDoesNotExistOrConflicts(p)
  BY <1>6, IgnoreKeeps, UnansweredAccepted
<1>7. CASE GiveUp(p)
  BY <1>7, GiveUpKeeps, UnansweredAccepted
<1>8. CASE GetObject(p)
  BY <1>8, GetObjectKeeps, UnansweredAccepted
<1>9. CASE TryToWaitUntilIsGone(p)
  BY <1>9, TryToWaitUntilIsGoneKeeps, UnansweredAccepted
<1>10. CASE Return(p)
  BY <1>10, LastReturn, NestedReturn, UnansweredAccepted
<1> QED BY <1>1, <1>2, <1>3, <1>4, <1>5, <1>6, <1>7, <1>8, <1>9, <1>10 DEF Step

(* So does every step.                                                     *)
LEMMA NextInv == IInv /\ [Next]_vars => IInv' /\ [Accepted]_vars
<1> SUFFICES ASSUME IInv, [Next]_vars
             PROVE  IInv' /\ [Accepted]_vars
  OBVIOUS
<1>1. ASSUME NEW p \in Callers, NEW action \in Actions, NEW user \in BOOLEAN,
             Begin(p, action, user)
      PROVE  IInv' /\ Accepted
  BY <1>1, BeginKeeps, UnansweredAccepted
<1>2. ASSUME NEW p \in Callers, Step(p)
      PROVE  IInv' /\ Accepted
  BY <1>2, StepKeeps
<1>3. CASE Cluster
  BY <1>3, ClusterKeeps, UnansweredAccepted
<1>4. CASE UNCHANGED vars
  BY <1>4 DEF vars, IInv, TypeOK
<1> QED BY <1>1, <1>2, <1>3, <1>4 DEF Next

(* The invariant holds always.                                             *)
LEMMA IInvAlways == Spec => []IInv
BY InitInv, NextInv, PTL DEF Spec

(* The types of the variables; a stack has at most two frames: a method    *)
(* that is repeated after a conflict never meets the callback that would   *)
(* repeat it again (callback.go).                                          *)
THEOREM TypeCorrect == Spec => []TypeOK
<1>1. IInv => TypeOK
  BY DEF IInv
<1> QED BY <1>1, IInvAlways, PTL

(* POST and PATCH are answered without an error only if this call wrote    *)
(* the object, whatever other callers, the cluster and failing requests    *)
(* do, and for any number of retries (endpoints.go, callback.go).          *)
THEOREM WritesTakePlace == Spec => AcceptedIsWritten
<1>1. IInv /\ [Next]_vars => [Accepted]_vars
  BY NextInv
<1>2. Spec => [][Accepted]_vars
  BY <1>1, IInvAlways, PTL DEF Spec
<1> QED BY <1>2 DEF Accepted, AcceptedIsWritten

(* A project is only created by a call during which its name was free      *)
(* (FailIfAlreadyExists of callback.go).                                   *)
THEOREM FreeNamesOnly == Spec => []CreatedIfFree
<1>1. IInv => CreatedIfFree
  <2> SUFFICES ASSUME IInv, NEW p \in Callers, call[p].action = "POST",
                      kind \in ProjectKinds, AboutToDo(p)
               PROVE  "free" \in seen[p]
    BY DEF CreatedIfFree
  <2>1. TopInv(kind, call[p], seen[p], Len(call[p].stack), Top(p))
    BY DEF IInv, CallInv, AboutToDo, Busy, Top
  <2> QED BY <2>1 DEF TopInv, CreatesProject, AboutToDo
<1> QED BY <1>1, IInvAlways, PTL
=============================================================================
