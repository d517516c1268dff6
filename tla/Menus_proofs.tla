---------------------------- MODULE Menus_proofs ----------------------------
(***************************************************************************)
(* Proofs about Menus, for every set of sizes, of frames the user opens,   *)
(* of missed deadlines and of dirty bits: its types, that no overlay is    *)
(* left when the menu it belonged to is closed, that the boxes do not stay *)
(* frozen behind it, and where the two threads may wait for each other.    *)
(***************************************************************************)
EXTENDS Menus, Runner_proofs

MenusStep == MainStep \cup MenuStep

\* The rounds of Menu::process, and its step that shows the overlay again.
Marks == {"menu", "restoreOverlay"}

Plain == MenusStep \ (Marks \cup {"poll"})

---------------------------------------------------------------------------
(* What is in a list.                                                      *)

Has(s, x) == \E i \in 1 .. Len(s) : s[i] = x
Marked(s) == \E i \in 1 .. Len(s) : s[i] \in Marks

\* At most one of its steps is marked.
MarkedOnce(s) == \A i, j \in 1 .. Len(s) : s[i] \in Marks /\ s[j] \in Marks => i = j

\* The main loop waits for input when nothing else is left to do.
PollLast(s) == \A i \in 1 .. Len(s) : s[i] = "poll" => i = Len(s)

LEMMA MarkedHas == \A s : Marked(s) <=> Has(s, "menu") \/ Has(s, "restoreOverlay")
BY DEF Marked, Has, Marks

LEMMA HasTail ==
  ASSUME NEW S, NEW s \in Seq(S), s # <<>>
  PROVE  \A x : Has(s, x) <=> (Head(s) = x \/ Has(Tail(s), x))
<1> DEFINE t == Tail(s)
<1>1. /\ Len(t) = Len(s) - 1 /\ Len(s) \in Nat \ {0} /\ Head(s) = s[1]
      /\ \A i \in 1 .. Len(t) : t[i] = s[i + 1]
  BY HeadTailProperties, EmptySeq
<1> HIDE DEF t
<1> SUFFICES ASSUME NEW x PROVE Has(s, x) <=> (Head(s) = x \/ Has(t, x))
  BY DEF t
<1>2. ASSUME Has(s, x), Head(s) # x PROVE Has(t, x)
  <2>1. PICK i \in 1 .. Len(s) : s[i] = x
    BY <1>2 DEF Has
  <2>2. i - 1 \in 1 .. Len(t) /\ (i - 1) + 1 = i
    BY <1>1, <1>2, <2>1
  <2> QED  BY <1>1, <2>1, <2>2 DEF Has
<1>3. ASSUME Head(s) = x PROVE Has(s, x)
  <2>1. 1 \in 1 .. Len(s)
    BY <1>1
  <2> QED  BY <1>1, <1>3, <2>1 DEF Has
<1>4. ASSUME Has(t, x) PROVE Has(s, x)
  <2>1. PICK i \in 1 .. Len(t) : t[i] = x
    BY <1>4 DEF Has
  <2>2. i + 1 \in 1 .. Len(s)
    BY <1>1
  <2> QED  BY <1>1, <2>1, <2>2 DEF Has
<1> QED  BY <1>2, <1>3, <1>4

LEMMA HasConcat ==
  ASSUME NEW S, NEW p \in Seq(S), NEW t \in Seq(S)
  PROVE  \A x : Has(p \o t, x) <=> (Has(p, x) \/ Has(t, x))
<1> DEFINE u == p \o t
<1>1. /\ Len(u) = Len(p) + Len(t) /\ Len(p) \in Nat /\ Len(t) \in Nat
      /\ \A i \in 1 .. Len(p) + Len(t) : u[i] = IF i <= Len(p) THEN p[i] ELSE t[i - Len(p)]
  BY ConcatProperties, LenProperties
<1> HIDE DEF u
<1> SUFFICES ASSUME NEW x PROVE Has(u, x) <=> (Has(p, x) \/ Has(t, x))
  BY DEF u
<1>2. ASSUME Has(u, x) PROVE Has(p, x) \/ Has(t, x)
  <2>1. PICK i \in 1 .. Len(u) : u[i] = x
    BY <1>2 DEF Has
  <2>2. CASE i <= Len(p)
    <3>1. i \in 1 .. Len(p) /\ p[i] = x
      BY <1>1, <2>1, <2>2
    <3> QED  BY <3>1 DEF Has
  <2>3. CASE i > Len(p)
    <3>1. i - Len(p) \in 1 .. Len(t) /\ t[i - Len(p)] = x
      BY <1>1, <2>1, <2>3
    <3> QED  BY <3>1 DEF Has
  <2> QED  BY <1>1, <2>2, <2>3
<1>3. ASSUME Has(p, x) PROVE Has(u, x)
  <2>1. PICK i \in 1 .. Len(p) : p[i] = x
    BY <1>3 DEF Has
  <2>2. i \in 1 .. Len(u) /\ u[i] = x
    BY <1>1, <2>1
  <2> QED  BY <2>2 DEF Has
<1>4. ASSUME Has(t, x) PROVE Has(u, x)
  <2>1. PICK i \in 1 .. Len(t) : t[i] = x
    BY <1>4 DEF Has
  <2>2. Len(p) + i \in 1 .. Len(u) /\ u[Len(p) + i] = x
    BY <1>1, <2>1
  <2> QED  BY <2>2 DEF Has
<1> QED  BY <1>2, <1>3, <1>4

LEMMA PairConcat ==
  ASSUME NEW a, NEW b
  PROVE  <<a>> \o <<b>> = <<a, b>>
<1> DEFINE S == {a, b}
           u == <<a>> \o <<b>>
           v == <<a, b>>
<1>1. <<a>> \in Seq(S) /\ <<b>> \in Seq(S) /\ v \in Seq(S)
  OBVIOUS
<1>2. u \in Seq(S) /\ Len(u) = 2 /\ u[1] = a /\ u[2] = b
  <2>1. /\ u \in Seq(S) /\ Len(u) = Len(<<a>>) + Len(<<b>>)
        /\ \A i \in 1 .. Len(<<a>>) + Len(<<b>>) :
             u[i] = IF i <= Len(<<a>>) THEN <<a>>[i] ELSE <<b>>[i - Len(<<a>>)]
    BY <1>1, ConcatProperties
  <2> HIDE DEF u
  <2>2. Len(<<a>>) = 1 /\ Len(<<b>>) = 1 /\ <<a>>[1] = a /\ <<b>>[1] = b
    OBVIOUS
  <2>3. 1 \in 1 .. 2 /\ 2 \in 1 .. 2 /\ 2 - 1 = 1
    OBVIOUS
  <2> QED  BY <2>1, <2>2, <2>3
<1>3. Len(v) = 2 /\ v[1] = a /\ v[2] = b
  OBVIOUS
<1> HIDE DEF u, v
<1>4. \A i \in 1 .. Len(u) : u[i] = v[i]
  <2> SUFFICES ASSUME NEW i \in 1 .. Len(u) PROVE u[i] = v[i]
    OBVIOUS
  <2>1. i = 1 \/ i = 2
    BY <1>2
  <2> QED  BY <1>2, <1>3, <2>1
<1>5. u = v
  BY <1>1, <1>2, <1>3, <1>4, SeqEqual
<1> QED  BY <1>5 DEF u, v

LEMMA MarkedOnceTail ==
  ASSUME NEW S, NEW s \in Seq(S), s # <<>>, MarkedOnce(s)
  PROVE  MarkedOnce(Tail(s)) /\ (Head(s) \in Marks => ~Marked(Tail(s)))
<1> DEFINE t == Tail(s)
<1>1. /\ Len(t) = Len(s) - 1 /\ Len(s) \in Nat \ {0} /\ Head(s) = s[1]
      /\ \A i \in 1 .. Len(t) : t[i] = s[i + 1] /\ i + 1 \in 1 .. Len(s)
  BY HeadTailProperties, EmptySeq
<1> HIDE DEF t
<1>2. MarkedOnce(t)
  <2> SUFFICES ASSUME NEW i \in 1 .. Len(t), NEW j \in 1 .. Len(t),
                      t[i] \in Marks, t[j] \in Marks
               PROVE  i = j
    BY DEF MarkedOnce
  <2>1. i + 1 = j + 1
    BY <1>1 DEF MarkedOnce
  <2> QED  BY <2>1
<1>3. ASSUME Head(s) \in Marks, Marked(t) PROVE FALSE
  <2>1. PICK i \in 1 .. Len(t) : t[i] \in Marks
    BY <1>3 DEF Marked
  <2>2. 1 \in 1 .. Len(s) /\ i + 1 \in 1 .. Len(s) /\ s[1] \in Marks /\ s[i + 1] \in Marks
    BY <1>1, <1>3, <2>1
  <2>3. 1 = i + 1
    BY <2>2 DEF MarkedOnce
  <2> QED  BY <2>3
<1> QED  BY <1>2, <1>3 DEF t

LEMMA MarkedOnceConcat ==
  ASSUME NEW S, NEW p \in Seq(S), NEW t \in Seq(S), MarkedOnce(p), MarkedOnce(t),
         ~Marked(p) \/ ~Marked(t)
  PROVE  MarkedOnce(p \o t)
<1> DEFINE u == p \o t
<1>1. /\ Len(u) = Len(p) + Len(t) /\ Len(p) \in Nat /\ Len(t) \in Nat
      /\ \A i \in 1 .. Len(p) + Len(t) : u[i] = IF i <= Len(p) THEN p[i] ELSE t[i - Len(p)]
  BY ConcatProperties, LenProperties
<1> HIDE DEF u
<1>2. ASSUME NEW i \in 1 .. Len(u), u[i] \in Marks
      PROVE  \/ i \in 1 .. Len(p) /\ p[i] \in Marks /\ Marked(p)
             \/ i - Len(p) \in 1 .. Len(t) /\ t[i - Len(p)] \in Marks /\ Marked(t)
  <2>1. CASE i <= Len(p)
    <3>1. i \in 1 .. Len(p) /\ p[i] \in Marks
      BY <1>1, <1>2, <2>1
    <3> QED  BY <3>1 DEF Marked
  <2>2. CASE i > Len(p)
    <3>1. i - Len(p) \in 1 .. Len(t) /\ t[i - Len(p)] \in Marks
      BY <1>1, <1>2, <2>2
    <3> QED  BY <3>1 DEF Marked
  <2> QED  BY <1>1, <2>1, <2>2
<1>3. ASSUME NEW i \in 1 .. Len(u), NEW j \in 1 .. Len(u), u[i] \in Marks, u[j] \in Marks
      PROVE  i = j
  <2>1. CASE i \in 1 .. Len(p) /\ p[i] \in Marks /\ j \in 1 .. Len(p) /\ p[j] \in Marks
    BY <2>1 DEF MarkedOnce
  <2>2. CASE /\ i - Len(p) \in 1 .. Len(t) /\ t[i - Len(p)] \in Marks
             /\ j - Len(p) \in 1 .. Len(t) /\ t[j - Len(p)] \in Marks
    <3>1. i - Len(p) = j - Len(p)
      BY <2>2 DEF MarkedOnce
    <3> QED  BY <1>1, <3>1
  <2> QED  BY <1>2, <1>3, <2>1, <2>2
<1> QED  BY <1>3 DEF MarkedOnce, u

LEMMA PollLastTail ==
  ASSUME NEW S, NEW s \in Seq(S), s # <<>>, PollLast(s)
  PROVE  PollLast(Tail(s)) /\ (Head(s) = "poll" => Tail(s) = <<>>)
<1> DEFINE t == Tail(s)
<1>1. /\ t \in Seq(S) /\ Len(t) = Len(s) - 1 /\ Len(s) \in Nat \ {0} /\ Head(s) = s[1]
      /\ \A i \in 1 .. Len(t) : t[i] = s[i + 1] /\ i + 1 \in 1 .. Len(s)
  BY HeadTailProperties, EmptySeq
<1> HIDE DEF t
<1>2. PollLast(t)
  BY <1>1 DEF PollLast
<1>3. ASSUME Head(s) = "poll" PROVE t = <<>>
  <2>1. 1 \in 1 .. Len(s)
    BY <1>1
  <2>2. Len(t) = 0
    BY <1>1, <1>3, <2>1 DEF PollLast
  <2> QED  BY <1>1, <2>2, EmptySeq
<1> QED  BY <1>2, <1>3 DEF t

LEMMA PollLastConcat ==
  ASSUME NEW S, NEW p \in Seq(S \ {"poll"}), NEW t \in Seq(S), PollLast(t)
  PROVE  PollLast(p \o t)
<1> DEFINE u == p \o t
<1>1. /\ Len(u) = Len(p) + Len(t) /\ Len(p) \in Nat /\ Len(t) \in Nat
      /\ \A i \in 1 .. Len(p) + Len(t) : u[i] = IF i <= Len(p) THEN p[i] ELSE t[i - Len(p)]
  <2>1. p \in Seq(S)
    BY SeqMonotonic
  <2> QED  BY <2>1, ConcatProperties, LenProperties
<1>2. \A i \in 1 .. Len(p) : p[i] # "poll"
  BY ElementOfSeq
<1> HIDE DEF u
<1>3. ASSUME NEW i \in 1 .. Len(u), u[i] = "poll" PROVE i = Len(u)
  <2>1. CASE i <= Len(p)
    BY <1>1, <1>2, <1>3, <2>1
  <2>2. CASE i > Len(p)
    <3>1. i - Len(p) \in 1 .. Len(t) /\ t[i - Len(p)] = "poll"
      BY <1>1, <1>3, <2>2
    <3>2. i - Len(p) = Len(t)
      BY <3>1 DEF PollLast
    <3> QED  BY <1>1, <3>2
  <2> QED  BY <1>1, <2>1, <2>2
<1> QED  BY <1>3 DEF PollLast, u

---------------------------------------------------------------------------
(* What a step makes of todo.                                              *)

TodoInv == todo \in Seq(MenusStep) /\ PollLast(todo) /\ MarkedOnce(todo)

LEMMA PlainSteps ==
  /\ \A p \in Seq(CallStep) : p \in Seq(Plain)
  /\ \A p \in Seq(Plain) : /\ p \in Seq(MenusStep) /\ p \in Seq(MenusStep \ {"poll"})
                           /\ ~Marked(p) /\ MarkedOnce(p)
<1>1. CallStep \subseteq Plain /\ Plain \subseteq MenusStep \ {"poll"} /\ Plain \cap Marks = {}
  BY DEF CallStep, Plain, MenusStep, MainStep, MenuStep, Marks, AppState
<1>2. ASSUME NEW p \in Seq(Plain)
      PROVE  /\ p \in Seq(MenusStep) /\ p \in Seq(MenusStep \ {"poll"})
             /\ ~Marked(p) /\ MarkedOnce(p)
  <2>1. \A i \in 1 .. Len(p) : p[i] \notin Marks
    BY <1>1, ElementOfSeq
  <2>2. ~Marked(p) /\ MarkedOnce(p)
    BY <2>1 DEF Marked, MarkedOnce
  <2>3. Plain \subseteq MenusStep
    BY <1>1
  <2> QED  BY <1>1, <2>2, <2>3, SeqMonotonic
<1> QED  BY <1>1, <1>2, SeqMonotonic

LEMMA PlainLists ==
  /\ WaitIdle \in Seq(Plain) /\ Run \in Seq(Plain) /\ RunDirect \in Seq(Plain)
  /\ AwaitDoneBriefly \in Seq(Plain) /\ CalcSizes \in Seq(Plain)
  /\ <<>> \in Seq(Plain) /\ <<"markAll">> \in Seq(Plain)
  /\ <<"unlock">> \in Seq(Plain) /\ <<"unlockIfIdle">> \in Seq(Plain)
  /\ <<"markBox">> \in Seq(Plain) /\ <<"Running">> \in Seq(Plain)
  /\ <<"changed">> \in Seq(Plain)
<1>1. /\ WaitIdle \in Seq(Plain) /\ Run \in Seq(Plain) /\ RunDirect \in Seq(Plain)
      /\ AwaitDoneBriefly \in Seq(Plain)
  BY Lists, PlainSteps
<1>2. /\ <<>> \in Seq(Plain) /\ <<"markAll">> \in Seq(Plain)
      /\ <<"unlock">> \in Seq(Plain) /\ <<"unlockIfIdle">> \in Seq(Plain)
      /\ <<"markBox">> \in Seq(Plain) /\ <<"Running">> \in Seq(Plain)
      /\ <<"changed">> \in Seq(Plain)
      /\ <<"unlock", "clearOutput", "markAll">> \in Seq(Plain)
  BY DEF Plain, MenusStep, MainStep, MenuStep, Marks, AppState
<1>3. CalcSizes \in Seq(Plain)
  BY <1>1, <1>2, ConcatProperties DEF CalcSizes
<1> QED  BY <1>1, <1>2, <1>3

\* A step that is neither the wait for input nor marked.
LEMMA PlainMove ==
  ASSUME TodoInv, todo # <<>>, Head(todo) \notin Marks, NEW p \in Seq(Plain), Become(p)
  PROVE  TodoInv' /\ \A x \in Marks : Has(todo', x) <=> Has(todo, x)
<1> DEFINE t == Tail(todo)
<1>1. t \in Seq(MenusStep) /\ PollLast(t) /\ MarkedOnce(t)
  BY HeadTailProperties, PollLastTail, MarkedOnceTail DEF TodoInv
<1>2. p \in Seq(MenusStep) /\ p \in Seq(MenusStep \ {"poll"}) /\ ~Marked(p) /\ MarkedOnce(p)
  BY PlainSteps
<1>3. \A x : Has(todo, x) <=> (Head(todo) = x \/ Has(t, x))
  BY HasTail DEF TodoInv
<1> HIDE DEF t
<1>4. p \o t \in Seq(MenusStep) /\ PollLast(p \o t) /\ MarkedOnce(p \o t)
  BY <1>1, <1>2, ConcatProperties, PollLastConcat, MarkedOnceConcat
<1>5. \A x : Has(p \o t, x) <=> (Has(p, x) \/ Has(t, x))
  BY <1>1, <1>2, HasConcat
<1>6. todo' = p \o t
  BY DEF Become, t
<1>7. ASSUME NEW x \in Marks PROVE Has(todo', x) <=> Has(todo, x)
  <2>1. ~Has(p, x)
    BY <1>2, MarkedHas DEF Marks
  <2>2. Head(todo) # x
    OBVIOUS
  <2> QED  BY <1>3, <1>5, <1>6, <2>1, <2>2
<1> QED  BY <1>4, <1>6, <1>7 DEF TodoInv

\* The marked step is taken.
LEMMA MarkedMove ==
  ASSUME TodoInv, todo # <<>>, Head(todo) \in Marks, NEW p \in Seq(Plain), Become(p)
  PROVE  TodoInv' /\ ~Marked(todo')
<1> DEFINE t == Tail(todo)
<1>1. t \in Seq(MenusStep) /\ PollLast(t) /\ MarkedOnce(t) /\ ~Marked(t)
  BY HeadTailProperties, PollLastTail, MarkedOnceTail DEF TodoInv
<1>2. p \in Seq(MenusStep) /\ p \in Seq(MenusStep \ {"poll"}) /\ ~Marked(p) /\ MarkedOnce(p)
  BY PlainSteps
<1> HIDE DEF t
<1>3. p \o t \in Seq(MenusStep) /\ PollLast(p \o t) /\ MarkedOnce(p \o t)
  BY <1>1, <1>2, ConcatProperties, PollLastConcat, MarkedOnceConcat
<1>4. ~Marked(p \o t)
  BY <1>1, <1>2, HasConcat, MarkedHas
<1>5. todo' = p \o t
  BY DEF Become, t
<1> QED  BY <1>3, <1>4, <1>5 DEF TodoInv

\* What the main loop does for an input, up to the next wait.
LEMMA PollMove ==
  ASSUME TodoInv, At("poll"), NEW p \in Seq(MenusStep \ {"poll"}), MarkedOnce(p),
         Become(p \o <<"poll">>)
  PROVE  /\ TodoInv'
         /\ ~Marked(todo)
         /\ \A x \in Marks : Has(todo', x) <=> Has(p, x)
<1> DEFINE u == p \o <<"poll">>
<1>1. Tail(todo) = <<>> /\ todo # <<>>
  BY PollLastTail DEF TodoInv, At
<1>2. <<"poll">> \in Seq(MenusStep) /\ p \in Seq(MenusStep)
  BY SeqMonotonic DEF MenusStep, MenuStep
<1>3. PollLast(<<"poll">>) /\ ~Marked(<<"poll">>) /\ MarkedOnce(<<"poll">>)
  BY DEF PollLast, Marked, MarkedOnce, Marks
<1>4. u \in Seq(MenusStep) /\ PollLast(u) /\ MarkedOnce(u)
  BY <1>2, <1>3, ConcatProperties, PollLastConcat, MarkedOnceConcat
<1>5. \A x : Has(u, x) <=> (Has(p, x) \/ Has(<<"poll">>, x))
  BY <1>2, HasConcat
<1>6. todo' = u
  <2> HIDE DEF u
  <2> QED  BY <1>1, <1>4, ConcatEmptySeq DEF Become, u
<1>7. ~Marked(todo)
  <2>1. \A x : ~Has(<<>>, x)
    BY DEF Has
  <2>2. \A x : Has(todo, x) <=> (Head(todo) = x \/ Has(<<>>, x))
    BY <1>1, HasTail DEF TodoInv
  <2> QED  BY <2>1, <2>2, MarkedHas DEF At
<1> HIDE DEF u
<1>8. \A x \in Marks : Has(todo', x) <=> Has(p, x)
  BY <1>3, <1>5, <1>6, MarkedHas DEF Marks
<1> QED  BY <1>4, <1>6, <1>7, <1>8 DEF TodoInv

---------------------------------------------------------------------------
(* Types, and no ghost of a menu.                                          *)

\* What would show an overlay has a menu, or a round of Menu::process that
\* closes it, to answer for it.
GhostInv ==
  /\ Has(todo, "restoreOverlay") => stack # <<>>
  /\ overlay /\ stack = <<>> => Has(todo, "menu")

MenuData ==
  /\ fsm \in {"Normal", "MenuActive"}
  /\ stack \in Seq(Frames)
  /\ pause \in BOOLEAN /\ overlay \in BOOLEAN /\ redraw \in BOOLEAN
  /\ background \in BOOLEAN /\ first \in BOOLEAN
  /\ conf \in [overlay : BOOLEAN, background : BOOLEAN]
  /\ size \in Sizes
  /\ key \in Keys \cup {"none"}
  /\ keys \in 0 .. MaxKeys

MenuInv == ThreadsTypeOK /\ MenuData /\ TodoInv /\ GhostInv

LEMMA MenuInvInit == MenuInit => MenuInv
<1> SUFFICES ASSUME MenuInit PROVE MenuInv
  OBVIOUS
<1>1. ThreadsTypeOK
  BY ThreadsTypeInit DEF MenuInit
<1>2. MenuData
  <2>1. stack \in Seq(Frames) /\ keys \in 0 .. MaxKeys
    BY MaxKeysAssumption, EmptySeq DEF MenuInit
  <2> QED
    BY <2>1, BackgroundAssumption, SizesAssumption DEF MenuInit, MenuData, Keys
<1>3. todo = <<"poll">> /\ <<"poll">> \in Seq(MenusStep)
  BY DEF MenuInit, MenusStep, MenuStep
<1>4. PollLast(todo) /\ MarkedOnce(todo) /\ ~Has(todo, "restoreOverlay")
  BY <1>3 DEF PollLast, MarkedOnce, Has, Marks
<1>5. ~overlay
  BY DEF MenuInit
<1> QED  BY <1>1, <1>2, <1>3, <1>4, <1>5 DEF MenuInv, TodoInv, GhostInv

\* What the handlers may answer.
LEMMA AnswerTypes ==
  ASSUME NEW a \in Answers
  PROVE  a \in Frames \cup {"pop", "draw", "keep", "changed"}
<1>1. Answer(Top, key) \subseteq Frames \cup {"pop", "draw", "keep", "changed"}
  BY DEF Answer, Frames, Panels, MessageBoxes
<1> QED  BY <1>1 DEF Answers

LEMMA KeyTypes ==
  ASSUME NextKey, keys \in 0 .. MaxKeys
  PROVE  keys' \in 0 .. MaxKeys
BY MaxKeysAssumption DEF NextKey

LEMMA BelowTypes ==
  ASSUME stack \in Seq(Frames), stack # <<>>
  PROVE  Below \in Seq(Frames) /\ \A a \in Frames : Append(Below, a) \in Seq(Frames)
<1>1. Len(stack) \in Nat \ {0}
  BY EmptySeq
<1>2. \A i \in 1 .. Len(stack) - 1 : stack[i] \in Frames
  BY <1>1, ElementOfSeq
<1>3. Below \in Seq(Frames)
  BY <1>1, <1>2, SubSeqProperties DEF Below
<1> QED  BY <1>3, AppendProperties

LEMMA MenuDataStep ==
  ASSUME ThreadsTypeOK, MenuData, MenuLoop \/ Keyboard \/ Tick \/ Resize
  PROVE  MenuData'
<1> USE DEF MenuData
<1>1. CASE Closed  BY <1>1 DEF Closed
<1>2. CASE SizeErrorOverride
  <2>1. <<"SizeError">> \in Seq(Frames)
    BY DEF Frames, MessageBoxes
  <2> QED  BY <1>2, <2>1 DEF SizeErrorOverride
<1>3. CASE Handle  BY <1>3 DEF Handle, Kept
<1>4. CASE HandleAway
  <2>1. stack' \in Seq(Frames)
    BY <1>4, AnswerTypes, BelowTypes DEF HandleAway
  <2> QED  BY <1>4, <2>1 DEF HandleAway
<1>5. CASE HandleChanged  BY <1>5 DEF HandleChanged
<1>6. CASE HandledChanged  BY <1>6 DEF HandledChanged, Kept
<1>7. CASE RestoreOverlay  BY <1>7 DEF RestoreOverlay
<1>8. CASE ClearOutput  BY <1>8 DEF ClearOutput
<1>9. CASE UnlockIfIdle  BY <1>9 DEF UnlockIfIdle, menu
<1>10. CASE LeaveMenu  BY <1>10 DEF LeaveMenu
<1>11. CASE KeyToMenu  BY <1>11, KeyTypes DEF KeyToMenu
<1>12. CASE KeyOpens
  <2>1. PICK frame \in Opened : stack' = Append(stack, frame)
    BY <1>12 DEF KeyOpens
  <2>2. stack' \in Seq(Frames)
    BY <2>1, OpenedAssumption, AppendProperties DEF Frames, Panels, MessageBoxes
  <2> QED  BY <1>12, <2>2, KeyTypes DEF KeyOpens
<1>13. CASE KeyNormal  BY <1>13, KeyTypes DEF KeyNormal
<1>14. CASE Tick  BY <1>14 DEF Tick, menu
<1>15. CASE Resize  BY <1>15, KeyTypes DEF Resize
<1> QED
  BY <1>1, <1>2, <1>3, <1>4, <1>5, <1>6, <1>7, <1>8, <1>9, <1>10, <1>11, <1>12, <1>13,
     <1>14, <1>15 DEF MenuLoop, Keyboard

LEMMA MenuThreadsStep ==
  ASSUME ThreadsTypeOK, MenuLoop \/ Keyboard \/ Tick \/ Resize
  PROVE  ThreadsTypeOK'
<1>1. UNCHANGED threads
  BY DEF MenuLoop, Keyboard, Tick, Resize, Closed, SizeErrorOverride, Handle, HandleAway,
         HandleChanged, HandledChanged, RestoreOverlay, ClearOutput, UnlockIfIdle,
         LeaveMenu, KeyToMenu, KeyOpens, KeyNormal
<1> QED  BY <1>1 DEF ThreadsTypeOK, threads

\* A round of Menu::process, and the other steps between two waits.
LEMMA GhostLoop ==
  ASSUME MenuInv, MenuLoop
  PROVE  TodoInv' /\ GhostInv'
<1> USE DEF At
<1>1. TodoInv /\ GhostInv /\ todo \in Seq(MenusStep)
  BY DEF MenuInv, TodoInv
<1>2. ASSUME At("menu") PROVE Has(todo, "menu") /\ ~Has(todo, "restoreOverlay")
  <2>1. \A x : Has(todo, x) <=> (Head(todo) = x \/ Has(Tail(todo), x))
    BY <1>1, <1>2, HasTail
  <2>2. ~Marked(Tail(todo))
    BY <1>1, <1>2, MarkedOnceTail DEF TodoInv, Marks
  <2> QED  BY <1>2, <2>1, <2>2, MarkedHas
<1>3. ASSUME At("menu"), stack' # <<>>, NEW p \in Seq(Plain), Become(p)
      PROVE  TodoInv' /\ GhostInv'
  <2>1. TodoInv' /\ ~Marked(todo')
    BY <1>1, <1>3, MarkedMove DEF Marks
  <2> QED  BY <1>3, <2>1, MarkedHas DEF GhostInv
<1>4. ASSUME todo # <<>>, Head(todo) \notin Marks, stack' = stack, overlay' => overlay,
             NEW p \in Seq(Plain), Become(p)
      PROVE  TodoInv' /\ GhostInv'
  BY <1>1, <1>4, PlainMove DEF GhostInv, Marks
<1>5. CASE Closed
  <2>1. <<"markAll">> \o Run \in Seq(Plain)
    BY PlainLists, ConcatProperties
  <2>2. At("menu") /\ overlay' = FALSE /\ Become(<<"markAll">> \o Run)
    BY <1>5 DEF Closed
  <2>3. TodoInv' /\ ~Marked(todo')
    BY <1>1, <2>1, <2>2, MarkedMove DEF Marks
  <2> QED  BY <2>2, <2>3, MarkedHas DEF GhostInv
<1>6. CASE SizeErrorOverride \/ HandleAway
  <2>1. At("menu") /\ todo' = todo
    BY <1>6 DEF SizeErrorOverride, HandleAway
  <2> QED  BY <1>1, <1>2, <2>1 DEF TodoInv, GhostInv, Has, PollLast, MarkedOnce
<1>7. CASE Handle
  <2>1. At("menu") /\ stack # <<>> /\ stack' = stack
    BY <1>7 DEF Handle
  <2>2. \E p \in Seq(Plain) : Become(p)
    <3>1. PICK drawn \in {TRUE, FALSE} : Kept(drawn)
      BY <1>7 DEF Handle
    <3>2. /\ WaitIdle \o <<"markAll">> \o Run \in Seq(Plain)
          /\ <<>> \o <<"markAll">> \o Run \in Seq(Plain)
      BY PlainLists, ConcatProperties
    <3> QED  BY <3>1, <3>2, PlainLists DEF Kept
  <2> QED  BY <1>3, <2>1, <2>2
<1>8. CASE HandleChanged
  <2> DEFINE a == <<"unlock">> \o CalcSizes
             c == <<"restoreOverlay", "markAll">>
             t == Tail(todo)
  <2>1. /\ At("menu") /\ stack # <<>> /\ stack' = stack
        /\ Become(((a \o c) \o Run) \o <<"changed">>)
    BY <1>8 DEF HandleChanged
  <2>2. /\ a \in Seq(Plain)
        /\ Run \in Seq(Plain) /\ <<"changed">> \in Seq(Plain)
    BY PlainLists, ConcatProperties
  <2>3. /\ c \in Seq(MenusStep \ {"poll"}) /\ c \in Seq(MenusStep)
        /\ MarkedOnce(c) /\ ~Has(c, "menu")
    BY DEF MenusStep, MainStep, MenuStep, MarkedOnce, Marks, Has
  <2>4. /\ a \in Seq(MenusStep \ {"poll"}) /\ Run \in Seq(MenusStep \ {"poll"})
        /\ <<"changed">> \in Seq(MenusStep \ {"poll"})
        /\ ~Marked(a) /\ ~Marked(Run) /\ ~Marked(<<"changed">>)
        /\ MarkedOnce(a) /\ MarkedOnce(Run) /\ MarkedOnce(<<"changed">>)
    BY <2>2, PlainSteps
  <2> DEFINE ac == a \o c
             acr == ac \o Run
             p == acr \o <<"changed">>
  <2> HIDE DEF a, c
  <2>5. ac \in Seq(MenusStep \ {"poll"}) /\ MarkedOnce(ac)
    BY <2>3, <2>4, ConcatProperties, MarkedOnceConcat
  <2> HIDE DEF ac
  <2>6. acr \in Seq(MenusStep \ {"poll"}) /\ MarkedOnce(acr)
    BY <2>4, <2>5, ConcatProperties, MarkedOnceConcat
  <2> HIDE DEF acr
  <2>7. p \in Seq(MenusStep \ {"poll"}) /\ p \in Seq(MenusStep) /\ MarkedOnce(p)
    <3>1. p \in Seq(MenusStep \ {"poll"}) /\ MarkedOnce(p)
      BY <2>4, <2>6, ConcatProperties, MarkedOnceConcat
    <3> HIDE DEF p
    <3> QED  BY <3>1, SeqMonotonic
  <2> HIDE DEF p
  <2>8. t \in Seq(MenusStep) /\ PollLast(t) /\ MarkedOnce(t) /\ ~Marked(t)
    BY <1>1, <2>1, HeadTailProperties, PollLastTail, MarkedOnceTail DEF TodoInv, Marks
  <2>9. todo' = p \o t
    BY <2>1 DEF Become, p, acr, ac
  <2> HIDE DEF t
  <2>10. TodoInv'
    BY <2>7, <2>8, <2>9, ConcatProperties, PollLastConcat, MarkedOnceConcat DEF TodoInv
  <2> QED  BY <2>1, <2>10 DEF GhostInv
<1>9. CASE HandledChanged
  <2>1. /\ At("changed") /\ stack' = stack /\ overlay' = overlay /\ Kept(FALSE)
    BY <1>9 DEF HandledChanged
  <2>2. \E p \in Seq(Plain) : Become(p)
    <3>1. /\ WaitIdle \o <<"markAll">> \o Run \in Seq(Plain)
          /\ <<>> \o <<"markAll">> \o Run \in Seq(Plain)
      BY PlainLists, ConcatProperties
    <3> QED  BY <2>1, <3>1, PlainLists DEF Kept
  <2> QED  BY <1>4, <2>1, <2>2 DEF Marks
<1>10. CASE RestoreOverlay
  <2>1. At("restoreOverlay") /\ Return /\ stack' = stack
    BY <1>10 DEF RestoreOverlay
  <2>2. Has(todo, "restoreOverlay")
    BY <1>1, <2>1, HasTail
  <2>3. Become(<<>>)
    BY <1>1, <2>1, ReturnIsBecome
  <2>4. TodoInv' /\ ~Marked(todo')
    BY <1>1, <2>1, <2>3, PlainLists, MarkedMove DEF Marks
  <2> QED  BY <1>1, <2>1, <2>2, <2>4 DEF GhostInv
<1>11. CASE ClearOutput \/ LeaveMenu
  <2>1. /\ todo # <<>> /\ Head(todo) \in {"clearOutput", "leaveMenu"} /\ Return
        /\ stack' = stack /\ (overlay' => overlay)
    BY <1>11 DEF ClearOutput, LeaveMenu
  <2>2. Become(<<>>)
    BY <1>1, <2>1, ReturnIsBecome
  <2> QED  BY <1>4, <2>1, <2>2, PlainLists DEF Marks
<1>12. CASE UnlockIfIdle
  <2>1. /\ At("unlockIfIdle") /\ stack' = stack /\ overlay' = overlay
        /\ Become(<<>>) \/ Become(<<"unlock">>)
    BY <1>12 DEF UnlockIfIdle, menu
  <2> QED  BY <1>4, <2>1, PlainLists DEF Marks
<1> QED
  BY <1>5, <1>6, <1>7, <1>8, <1>9, <1>10, <1>11, <1>12 DEF MenuLoop

\* An input: a key, a tick, or a change of the size.
LEMMA GhostInput ==
  ASSUME MenuInv, Keyboard \/ Tick \/ Resize
  PROVE  TodoInv' /\ GhostInv'
<1>1. TodoInv /\ GhostInv
  BY DEF MenuInv
<1> DEFINE NoPoll == MenusStep \ {"poll"}
<1>2. \A p \in Seq(Plain) : p \in Seq(NoPoll) /\ ~Marked(p) /\ MarkedOnce(p)
  BY PlainSteps
<1>3. /\ <<"menu">> \in Seq(NoPoll) /\ Marked(<<"menu">>) /\ MarkedOnce(<<"menu">>)
      /\ ~Has(<<"menu">>, "restoreOverlay")
  BY DEF MenusStep, MenuStep, Marked, MarkedOnce, Marks, Has
<1>4. ASSUME At("poll"), NEW p \in Seq(NoPoll), MarkedOnce(p), ~Has(p, "restoreOverlay"),
             Become(p \o <<"poll">>), overlay' = overlay, stack' = stack \/ stack' # <<>>
      PROVE  TodoInv' /\ GhostInv'
  <2>1. /\ TodoInv' /\ ~Marked(todo)
        /\ \A x \in Marks : Has(todo', x) <=> Has(p, x)
    BY <1>1, <1>4, PollMove
  <2>2. ~Has(todo, "menu")
    BY <2>1, MarkedHas
  <2>3. ~Has(todo', "restoreOverlay")
    BY <1>4, <2>1 DEF Marks
  <2>4. overlay' /\ stack' = <<>> => FALSE
    BY <1>1, <1>4, <2>2 DEF GhostInv
  <2> QED  BY <2>1, <2>3, <2>4 DEF GhostInv
\* Plain steps around one round of Menu::process.
<1>5. ASSUME NEW p \in Seq(Plain), NEW q \in Seq(Plain)
      PROVE  /\ (p \o <<"menu">>) \o q \in Seq(NoPoll)
             /\ MarkedOnce((p \o <<"menu">>) \o q)
             /\ ~Has((p \o <<"menu">>) \o q, "restoreOverlay")
  <2> DEFINE u == p \o <<"menu">>
             v == u \o q
  <2>1. p \in Seq(NoPoll) /\ q \in Seq(NoPoll) /\ MarkedOnce(p) /\ MarkedOnce(q)
        /\ ~Marked(p) /\ ~Marked(q) /\ ~Has(p, "restoreOverlay") /\ ~Has(q, "restoreOverlay")
    BY <1>2, MarkedHas
  <2> HIDE DEF NoPoll
  <2>2. u \in Seq(NoPoll) /\ MarkedOnce(u)
    BY <1>3, <2>1, ConcatProperties, MarkedOnceConcat
  <2>3. ~Has(u, "restoreOverlay")
    <3>1. \A x : Has(u, x) <=> (Has(p, x) \/ Has(<<"menu">>, x))
      BY <1>3, <2>1, HasConcat
    <3> QED  BY <1>3, <2>1, <3>1
  <2> HIDE DEF u
  <2>4. v \in Seq(NoPoll) /\ MarkedOnce(v)
    BY <2>1, <2>2, ConcatProperties, MarkedOnceConcat
  <2>5. ~Has(v, "restoreOverlay")
    <3>1. \A x : Has(v, x) <=> (Has(u, x) \/ Has(q, x))
      BY <2>1, <2>2, HasConcat
    <3> QED  BY <2>1, <2>3, <3>1
  <2> QED  BY <2>4, <2>5 DEF u
<1>6. ASSUME NEW p \in Seq(Plain)
      PROVE  p \in Seq(NoPoll) /\ MarkedOnce(p) /\ ~Has(p, "restoreOverlay")
  BY <1>2, MarkedHas
<1> HIDE DEF NoPoll
<1>7. CASE KeyToMenu
  <2>1. /\ At("poll") /\ stack' = stack /\ overlay' = overlay
        /\ Become(<<"unlockIfIdle", "menu", "leaveMenu", "poll">>)
    BY <1>7 DEF KeyToMenu
  <2> DEFINE p == <<"unlockIfIdle", "menu", "leaveMenu">>
  <2>2. p \in Seq(NoPoll) /\ MarkedOnce(p) /\ ~Has(p, "restoreOverlay")
    BY DEF NoPoll, MenusStep, MenuStep, MarkedOnce, Marks, Has
  <2>3. <<"unlockIfIdle", "menu", "leaveMenu", "poll">> = p \o <<"poll">>
    OBVIOUS
  <2> QED  BY <1>4, <2>1, <2>2, <2>3
<1>8. CASE KeyOpens
  <2>1. PICK frame \in Opened :
          /\ Become((<<"unlockIfIdle">>
                       \o (IF frame \in {"Main", "Options", "Help"} THEN <<>> ELSE WaitIdle))
                      \o <<"menu", "poll">>)
          /\ stack' = Append(stack, frame)
    BY <1>8 DEF KeyOpens
  <2> DEFINE w == IF frame \in {"Main", "Options", "Help"} THEN <<>> ELSE WaitIdle
             p == <<"unlockIfIdle">> \o w
  <2>2. p \in Seq(Plain)
    BY PlainLists, ConcatProperties
  <2>3. p \o <<"menu">> \in Seq(NoPoll) /\ MarkedOnce(p \o <<"menu">>)
        /\ ~Has(p \o <<"menu">>, "restoreOverlay")
    BY <1>2, <1>3, <2>2, ConcatProperties, MarkedOnceConcat, HasConcat, MarkedHas
  <2> HIDE DEF p
  <2>4. p \o <<"menu", "poll">> = (p \o <<"menu">>) \o <<"poll">>
    <3>1. p \in Seq(MenusStep) /\ <<"menu">> \in Seq(MenusStep) /\ <<"poll">> \in Seq(MenusStep)
      BY <2>2, PlainSteps DEF MenusStep, MenuStep
    <3>2. <<"menu">> \o <<"poll">> = <<"menu", "poll">>
      BY PairConcat
    <3> QED  BY <3>1, <3>2, ConcatAssociative
  <2>5. stack' # <<>>
    <3>1. Len(stack') = Len(stack) + 1 /\ Len(stack) \in Nat
      BY <2>1, AppendProperties, LenProperties, OpenedAssumption
      DEF MenuInv, MenuData, Frames, Panels, MessageBoxes
    <3> QED  BY <3>1
  <2>6. At("poll") /\ overlay' = overlay
    BY <1>8 DEF KeyOpens
  <2>7. Become((p \o <<"menu">>) \o <<"poll">>)
    BY <2>1, <2>4 DEF p
  <2> QED  BY <1>4, <2>3, <2>5, <2>6, <2>7
<1>9. CASE KeyNormal
  <2>1. PICK calls \in {<<"markBox">> \o Run, WaitIdle \o CalcSizes \o <<"markAll">> \o Run} :
          Become((<<"unlockIfIdle">> \o calls) \o <<"poll">>)
    BY <1>9 DEF KeyNormal
  <2>2. <<"unlockIfIdle">> \o calls \in Seq(Plain)
    BY PlainLists, ConcatProperties
  <2>3. At("poll") /\ stack' = stack /\ overlay' = overlay
    BY <1>9 DEF KeyNormal
  <2> QED  BY <1>4, <1>6, <2>1, <2>2, <2>3
<1>10. CASE Tick
  <2>1. At("poll") /\ stack' = stack /\ overlay' = overlay /\ Become(Run \o <<"poll">>)
    BY <1>10 DEF Tick, menu
  <2> QED  BY <1>4, <1>6, <2>1, PlainLists
<1>11. CASE Resize
  <2> DEFINE r == <<"Resizing", "stopIfActive", "unlock">>
             m == IF fsm = "MenuActive" THEN <<"menu">> ELSE <<"markAll">> \o Run
             p == ((r \o CalcSizes) \o m) \o AwaitDoneBriefly
  <2>1. /\ At("poll") /\ stack' = stack /\ overlay' = overlay
        /\ Become(p \o <<"Running", "poll">>)
    BY <1>11 DEF Resize
  <2>2. r \in Seq(Plain) /\ r \o CalcSizes \in Seq(Plain)
    <3>1. r \in Seq(Plain)
      BY DEF Plain, MenusStep, MainStep, MenuStep, Marks, AppState
    <3> QED  BY <3>1, PlainLists, ConcatProperties
  <2> DEFINE rc == r \o CalcSizes
             a == AwaitDoneBriefly \o <<"Running">>
             q == p \o <<"Running">>
  <2>3. a \in Seq(Plain)
    BY PlainLists, ConcatProperties
  <2>4. rc \in Seq(MenusStep) /\ m \in Seq(MenusStep)
        /\ AwaitDoneBriefly \in Seq(MenusStep) /\ <<"Running">> \in Seq(MenusStep)
        /\ <<"poll">> \in Seq(MenusStep)
    <3>1. <<"menu">> \in Seq(MenusStep) /\ <<"poll">> \in Seq(MenusStep)
      BY DEF MenusStep, MenuStep
    <3>2. <<"markAll">> \o Run \in Seq(Plain)
      BY PlainLists, ConcatProperties
    <3> QED  BY <2>2, <3>1, <3>2, PlainSteps, PlainLists
  <2> HIDE DEF r, rc, m
  <2>5. q = (rc \o m) \o a /\ p \in Seq(MenusStep)
    <3>1. rc \o m \in Seq(MenusStep)
      BY <2>4, ConcatProperties
    <3>2. ((rc \o m) \o AwaitDoneBriefly) \o <<"Running">>
            = (rc \o m) \o (AwaitDoneBriefly \o <<"Running">>)
      BY <2>4, <3>1, ConcatAssociative
    <3> QED  BY <2>4, <3>1, <3>2, ConcatProperties DEF rc
  <2>6. q \in Seq(NoPoll) /\ MarkedOnce(q) /\ ~Has(q, "restoreOverlay")
    <3>1. CASE fsm = "MenuActive"
      <4>1. m = <<"menu">>
        BY <3>1 DEF m
      <4> QED  BY <1>5, <2>2, <2>3, <2>5, <4>1 DEF rc
    <3>2. CASE fsm # "MenuActive"
      <4>1. m \in Seq(Plain)
        BY <3>2, PlainLists, ConcatProperties DEF m
      <4>2. (rc \o m) \o a \in Seq(Plain)
        BY <2>2, <2>3, <4>1, ConcatProperties DEF rc
      <4> QED  BY <1>6, <2>5, <4>2
    <3> QED  BY <3>1, <3>2
  <2>7. p \o <<"Running", "poll">> = q \o <<"poll">>
    <3>1. <<"Running">> \o <<"poll">> = <<"Running", "poll">>
      BY PairConcat
    <3> HIDE DEF p
    <3> QED  BY <2>4, <2>5, <3>1, ConcatAssociative
  <2> HIDE DEF p, q
  <2> QED  BY <1>4, <2>1, <2>6, <2>7
<1> QED  BY <1>7, <1>8, <1>9, <1>10, <1>11 DEF Keyboard

\* A call leaves the menus alone, but for what it makes of current_conf.
LEMMA MenuCall ==
  ASSUME MenuInv, Called
  PROVE  MenuInv'
<1>1. TodoInv /\ todo \in Seq(MenusStep) /\ MainStep \subseteq MenusStep /\ MainCall
  BY DEF MenuInv, TodoInv, MenusStep, Called
<1>2. ThreadsTypeOK'
  BY <1>1, TypeCall DEF MenuInv
<1>3. MenuData' /\ stack' = stack /\ (overlay' => overlay)
  <2>1. overlay' \in BOOLEAN /\ conf' \in [overlay : BOOLEAN, background : BOOLEAN]
        /\ (overlay' => overlay)
    BY DEF Called, MenuInv, MenuData
  <2> QED  BY <2>1 DEF Called, MenuInv, MenuData
<1>4. TodoInv' /\ \A x \in Marks : Has(todo', x) <=> Has(todo, x)
  <2>1. /\ todo # <<>> /\ Head(todo) \in MainStep
        /\ \/ \E s \in Seq(CallStep) : Become(s)
           \/ Become(Leave \o <<"restore", "exited">>)
           \/ Return
    BY <1>1, CallTodo
  <2>2. Head(todo) \notin Marks
    BY <2>1 DEF MainStep, Marks, AppState
  <2>3. Leave \o <<"restore", "exited">> \in Seq(Plain)
    BY DEF Leave, Stop, Plain, MenusStep, MainStep, MenuStep, Marks, AppState
  <2>4. \E p \in Seq(Plain) : Become(p)
    BY <1>1, <2>1, <2>3, PlainSteps, PlainLists, ReturnIsBecome
  <2> QED  BY <1>1, <2>1, <2>2, <2>4, PlainMove
<1>5. GhostInv'
  BY <1>3, <1>4 DEF MenuInv, GhostInv, Marks
<1> QED  BY <1>2, <1>3, <1>4, <1>5 DEF MenuInv

LEMMA MenuInvStep ==
  ASSUME MenuInv, [MenuNext]_mvars
  PROVE  MenuInv'
<1>1. CASE Worker
  <2>1. ThreadsTypeOK' /\ todo' = todo
    BY <1>1, TypeThread DEF Worker, MenuInv
  <2>2. UNCHANGED <<fsm, stack, overlay, conf, redraw, background, size, key, first, keys>>
        /\ pause' \in BOOLEAN
    BY <1>1 DEF Worker, MenuInv, MenuData
  <2> QED
    BY <2>1, <2>2 DEF MenuInv, MenuData, TodoInv, GhostInv, PollLast, MarkedOnce, Has
<1>2. CASE Called  BY <1>2, MenuCall
<1>3. CASE MenuLoop \/ Keyboard \/ Tick \/ Resize
  BY <1>3, MenuThreadsStep, MenuDataStep, GhostLoop, GhostInput DEF MenuInv
<1>4. CASE UNCHANGED mvars
  BY <1>4 DEF mvars, rvars, menu, MenuInv, ThreadsTypeOK, MenuData, TodoInv, GhostInv,
              PollLast, MarkedOnce, Has
<1> QED  BY <1>1, <1>2, <1>3, <1>4 DEF MenuNext

LEMMA InductiveMenuInv == MenuSpec => []MenuInv
<1> QED  BY MenuInvInit, MenuInvStep, PTL DEF MenuSpec

(* Every variable keeps its type: whatever the handlers answer, the stack  *)
(* holds frames only, and the main thread never has a step to take that is *)
(* none of the calls, of Menu::process or of Input::process.               *)
THEOREM MenuTypesCorrect == MenuSpec => []MenuTypeOK
<1>1. MenuInv => MenuTypeOK
  BY DEF MenuInv, MenuData, MenuTypeOK, TodoInv, MenusStep
<1> QED  BY <1>1, InductiveMenuInv, PTL

(* However the menus are opened, replaced, popped, changed and resized,    *)
(* and whatever the runner does meanwhile: when btop waits for a key with  *)
(* no menu open, no overlay is left for a cycle to draw.                   *)
THEOREM NoGhostLeft == MenuSpec => []NoGhost
<1>1. MenuInv => NoGhost
  <2> SUFFICES ASSUME MenuInv, At("poll"), overlay PROVE stack # <<>>
    BY DEF NoGhost
  <2>1. Tail(todo) = <<>> /\ todo \in Seq(MenusStep) /\ todo # <<>> /\ Head(todo) = "poll"
    BY PollLastTail DEF MenuInv, TodoInv, At
  <2>2. ~Has(<<>>, "menu")
    BY DEF Has
  <2>3. ~Has(todo, "menu")
    BY <2>1, <2>2, HasTail
  <2> QED  BY <2>3 DEF MenuInv, GhostInv
<1> QED  BY <1>1, InductiveMenuInv, PTL

---------------------------------------------------------------------------
(* Nothing stays frozen.                                                   *)

\* What neither waits for input, nor dispatches to a menu, nor hands the
\* input back, nor is a change of the size.
Calm == MenusStep \ {"poll", "menu", "leaveMenu", "Resizing", "Running"}

\* The input is handed back last, and a change of the size comes first.
LeaveLast(s) == \A i \in 1 .. Len(s) : s[i] = "leaveMenu" => i = Len(s) - 1 /\ s[Len(s)] = "poll"
ResizingFirst(s) == s # <<>> => ~Has(Tail(s), "Resizing")

\* A cycle that ends now pauses the output.
Pausing == conf.overlay /\ ~conf.background

\* run() will assign current_conf, or the process leaves.
Configures == {"guard", "configure", "exited"}

\* With no menu open and the input handed back, the output is not paused and
\* no cycle can pause it; while the input is to be handed back, run() is still
\* to tell the runner that there is no overlay any more, or has done so, and
\* neither stop() nor a change of the size keeps it from that.
FrozenInv ==
  /\ LeaveLast(todo) /\ ResizingFirst(todo)
  /\ At("Resizing") \/ app = "Resizing" => Has(todo, "Running") /\ ~Has(todo, "leaveMenu")
  /\ Marked(todo) => fsm = "MenuActive"
  /\ fsm = "Normal" /\ stack = <<>> => ~Pausing /\ ~pause
  /\ Has(todo, "leaveMenu") /\ ~Has(todo, "menu") /\ stack = <<>>
       => ~Pausing \/ \E x \in Configures : Has(todo, x)

LEMMA LeaveLastTail ==
  ASSUME NEW S, NEW s \in Seq(S), s # <<>>, LeaveLast(s)
  PROVE  /\ LeaveLast(Tail(s))
         /\ Head(s) = "leaveMenu" => \A x : Has(Tail(s), x) => x = "poll"
<1> DEFINE t == Tail(s)
<1>1. /\ Len(t) = Len(s) - 1 /\ Len(s) \in Nat \ {0} /\ Head(s) = s[1]
      /\ \A i \in 1 .. Len(t) : t[i] = s[i + 1] /\ i + 1 \in 1 .. Len(s)
  BY HeadTailProperties, EmptySeq
<1> HIDE DEF t
<1>2. ASSUME NEW i \in 1 .. Len(t), t[i] = "leaveMenu"
      PROVE  i = Len(t) - 1 /\ t[Len(t)] = "poll"
  <2>1. i + 1 = Len(s) - 1 /\ s[Len(s)] = "poll"
    BY <1>1, <1>2 DEF LeaveLast
  <2>2. Len(t) \in 1 .. Len(t) /\ Len(t) + 1 = Len(s)
    BY <1>1, <2>1
  <2> QED  BY <1>1, <2>1, <2>2
<1>3. ASSUME Head(s) = "leaveMenu", NEW x, Has(t, x) PROVE x = "poll"
  <2>1. 1 \in 1 .. Len(s) /\ s[1] = "leaveMenu"
    BY <1>1, <1>3
  <2>2. Len(s) = 2 /\ s[Len(s)] = "poll"
    BY <1>1, <2>1 DEF LeaveLast
  <2>3. PICK i \in 1 .. Len(t) : t[i] = x
    BY <1>3 DEF Has
  <2>4. t[i] = s[i + 1] /\ i + 1 = Len(s)
    BY <1>1, <2>2
  <2> QED  BY <2>2, <2>3, <2>4
<1> QED  BY <1>2, <1>3 DEF LeaveLast, t

LEMMA LeaveLastConcat ==
  ASSUME NEW S, NEW p \in Seq(S \ {"leaveMenu"}), NEW t \in Seq(S), LeaveLast(t)
  PROVE  LeaveLast(p \o t)
<1> DEFINE u == p \o t
<1>1. /\ Len(u) = Len(p) + Len(t) /\ Len(p) \in Nat /\ Len(t) \in Nat
      /\ \A i \in 1 .. Len(p) + Len(t) : u[i] = IF i <= Len(p) THEN p[i] ELSE t[i - Len(p)]
  <2>1. p \in Seq(S)
    BY SeqMonotonic
  <2> QED  BY <2>1, ConcatProperties, LenProperties
<1>2. \A i \in 1 .. Len(p) : p[i] # "leaveMenu"
  BY ElementOfSeq
<1> HIDE DEF u
<1>3. ASSUME NEW i \in 1 .. Len(u), u[i] = "leaveMenu"
      PROVE  i = Len(u) - 1 /\ u[Len(u)] = "poll"
  <2>1. i > Len(p)
    BY <1>1, <1>2, <1>3
  <2>2. i - Len(p) \in 1 .. Len(t) /\ t[i - Len(p)] = "leaveMenu"
    BY <1>1, <1>3, <2>1
  <2>3. i - Len(p) = Len(t) - 1 /\ t[Len(t)] = "poll"
    BY <2>2 DEF LeaveLast
  <2>4. Len(u) \in 1 .. Len(p) + Len(t) /\ ~(Len(u) <= Len(p)) /\ Len(u) - Len(p) = Len(t)
    BY <1>1, <2>2
  <2>5. u[Len(u)] = t[Len(u) - Len(p)]
    BY <1>1, <2>4
  <2> QED  BY <1>1, <2>3, <2>4, <2>5
<1> QED  BY <1>3 DEF LeaveLast, u

LEMMA ResizingFirstConcat ==
  ASSUME NEW S, NEW p \in Seq(S), NEW t \in Seq(S), p # <<>>, ResizingFirst(p),
         ~Has(t, "Resizing")
  PROVE  p \o t # <<>> /\ ResizingFirst(p \o t)
<1> DEFINE u == p \o t
           v == Tail(u)
           q == Tail(p)
<1>1. /\ u \in Seq(S) /\ Len(u) = Len(p) + Len(t) /\ Len(t) \in Nat
      /\ \A i \in 1 .. Len(p) + Len(t) : u[i] = IF i <= Len(p) THEN p[i] ELSE t[i - Len(p)]
  BY ConcatProperties, LenProperties
<1>2. /\ Len(p) \in Nat \ {0} /\ Len(q) = Len(p) - 1
      /\ \A i \in 1 .. Len(q) : q[i] = p[i + 1]
  BY HeadTailProperties, EmptySeq
<1> HIDE DEF u
<1>3. u # <<>>
  BY <1>1, <1>2
<1>4. Len(v) = Len(u) - 1 /\ \A i \in 1 .. Len(v) : v[i] = u[i + 1]
  BY <1>1, <1>3, HeadTailProperties
<1> HIDE DEF v, q
<1>5. ASSUME Has(v, "Resizing") PROVE FALSE
  <2>1. PICK i \in 1 .. Len(v) : v[i] = "Resizing"
    BY <1>5 DEF Has
  <2>2. i + 1 \in 1 .. Len(p) + Len(t) /\ u[i + 1] = "Resizing"
    BY <1>1, <1>4, <2>1
  <2>3. CASE i + 1 <= Len(p)
    <3>1. i \in 1 .. Len(q) /\ q[i] = "Resizing"
      BY <1>1, <1>2, <2>2, <2>3
    <3> QED  BY <3>1 DEF ResizingFirst, Has, q
  <2>4. CASE i + 1 > Len(p)
    <3>1. (i + 1) - Len(p) \in 1 .. Len(t) /\ t[(i + 1) - Len(p)] = "Resizing"
      BY <1>1, <1>2, <2>2, <2>4
    <3> QED  BY <3>1 DEF Has
  <2> QED  BY <1>2, <2>3, <2>4
<1> QED  BY <1>3, <1>5 DEF ResizingFirst, u, v

\* A list has its elements only.
LEMMA HasIn ==
  ASSUME NEW S, NEW s \in Seq(S), NEW x, Has(s, x)
  PROVE  x \in S
BY ElementOfSeq DEF Has

\* A step whose successors are calm.
LEMMA CalmMove ==
  ASSUME TodoInv, todo # <<>>, LeaveLast(todo), ResizingFirst(todo),
         NEW p \in Seq(Calm), Become(p)
  PROVE  /\ LeaveLast(todo') /\ ResizingFirst(todo')
         /\ \A x : Has(todo, x) <=> (Head(todo) = x \/ Has(Tail(todo), x))
         /\ \A x : Has(todo', x) <=> (Has(p, x) \/ Has(Tail(todo), x))
         /\ ~Has(todo', "Resizing")
         /\ todo' \in Seq(MenusStep)
<1> DEFINE t == Tail(todo)
<1>1. t \in Seq(MenusStep) /\ LeaveLast(t) /\ ~Has(t, "Resizing")
  BY HeadTailProperties, LeaveLastTail DEF TodoInv, ResizingFirst
<1>2. p \in Seq(MenusStep) /\ p \in Seq(MenusStep \ {"leaveMenu"})
  <2>1. Calm \subseteq MenusStep \ {"leaveMenu"}
    BY DEF Calm
  <2>2. p \in Seq(MenusStep \ {"leaveMenu"})
    BY <2>1, SeqMonotonic
  <2> QED  BY <2>2, SeqMonotonic
<1>3. \A x : Has(todo, x) <=> (Head(todo) = x \/ Has(t, x))
  BY HasTail DEF TodoInv
<1> HIDE DEF t
<1>4. p \o t \in Seq(MenusStep) /\ LeaveLast(p \o t)
  BY <1>1, <1>2, ConcatProperties, LeaveLastConcat
<1>5. \A x : Has(p \o t, x) <=> (Has(p, x) \/ Has(t, x))
  BY <1>1, <1>2, HasConcat
<1>6. todo' = p \o t
  BY DEF Become, t
<1>7. ~Has(p, "Resizing")
  BY HasIn DEF Calm
<1>8. ~Has(todo', "Resizing")
  BY <1>1, <1>5, <1>6, <1>7
<1>9. ResizingFirst(todo')
  BY <1>4, <1>6, <1>8, HasTail DEF ResizingFirst
<1> QED  BY <1>3, <1>4, <1>5, <1>6, <1>8, <1>9 DEF t

LEMMA CalmLists ==
  /\ \A p \in Seq(CallStep) : p \in Seq(Calm) /\ p \in Seq(Plain)
  /\ Leave \o <<"restore", "exited">> \in Seq(Calm)
  /\ Leave \o <<"restore", "exited">> \in Seq(Plain)
  /\ <<>> \in Seq(Calm) /\ WaitIdle \in Seq(Calm) /\ Run \in Seq(Calm) /\ RunDirect \in Seq(Calm)
  /\ AwaitDoneBriefly \in Seq(Calm) /\ CalcSizes \in Seq(Calm)
  /\ <<"markAll">> \in Seq(Calm) /\ <<"markBox">> \in Seq(Calm) /\ <<"unlock">> \in Seq(Calm)
  /\ <<"unlockIfIdle">> \in Seq(Calm) /\ <<"changed">> \in Seq(Calm)
  /\ <<"restoreOverlay">> \in Seq(Calm)
<1>1. CallStep \subseteq Calm
  BY DEF CallStep, Calm, MenusStep, MainStep, AppState
<1>2. \A p \in Seq(CallStep) : p \in Seq(Calm) /\ p \in Seq(Plain)
  BY <1>1, SeqMonotonic, PlainSteps
<1>3. /\ Leave \o <<"restore", "exited">> \in Seq(Calm)
      /\ Leave \o <<"restore", "exited">> \in Seq(Plain)
  BY DEF Leave, Stop, Calm, Plain, Marks, MenusStep, MainStep, MenuStep, AppState
<1>4. /\ <<>> \in Seq(Calm) /\ <<"markAll">> \in Seq(Calm) /\ <<"markBox">> \in Seq(Calm)
      /\ <<"unlock">> \in Seq(Calm) /\ <<"unlockIfIdle">> \in Seq(Calm)
      /\ <<"changed">> \in Seq(Calm) /\ <<"restoreOverlay">> \in Seq(Calm)
      /\ <<"unlock", "clearOutput", "markAll">> \in Seq(Calm)
  BY DEF Calm, MenusStep, MainStep, MenuStep, AppState
<1>5. /\ WaitIdle \in Seq(Calm) /\ Run \in Seq(Calm) /\ RunDirect \in Seq(Calm)
      /\ AwaitDoneBriefly \in Seq(Calm)
  BY <1>2, Lists
<1>6. CalcSizes \in Seq(Calm)
  BY <1>4, <1>5, ConcatProperties DEF CalcSizes
<1> QED  BY <1>2, <1>3, <1>4, <1>5, <1>6

\* A call: run() assigns current_conf before it wakes the runner.
LEMMA FrozenCall ==
  ASSUME MenuInv, StopInv, FrozenInv, Called
  PROVE  FrozenInv'
<1>1. TodoInv /\ todo \in Seq(MenusStep) /\ MainStep \subseteq MenusStep /\ MainCall /\ GhostInv
  BY DEF MenuInv, TodoInv, MenusStep, Called
<1>2. /\ todo # <<>> /\ Head(todo) \in MainStep \ {"stopped", "exited"}
      /\ \/ Head(todo) \notin AppState /\ app' = app
         \/ Head(todo) \in AppState /\ app' = Head(todo)
      /\ \E p \in Seq(Calm) : p \in Seq(Plain) /\ Become(p)
  <2>1. "cleanQuit" \notin AppState
    BY DEF AppState
  <2> QED  BY <1>1, <2>1, CallTodo, CalmLists, PlainLists, ReturnIsBecome DEF At
<1>3. PICK p \in Seq(Calm) : p \in Seq(Plain) /\ Become(p)
  BY <1>2
<1> DEFINE t == Tail(todo)
<1>4. /\ LeaveLast(todo') /\ ResizingFirst(todo') /\ ~Has(todo', "Resizing")
      /\ \A x : Has(todo, x) <=> (Head(todo) = x \/ Has(t, x))
      /\ \A x : Has(todo', x) <=> (Has(p, x) \/ Has(t, x))
  BY <1>1, <1>2, <1>3, CalmMove DEF FrozenInv
<1>5. ~Has(p, "leaveMenu") /\ ~Has(p, "menu") /\ ~Has(p, "Running") /\ ~Has(p, "restoreOverlay")
  BY <1>3, HasIn DEF Calm, Plain, Marks
<1> HIDE DEF t
<1>6. /\ Has(todo', "leaveMenu") <=> Has(todo, "leaveMenu")
      /\ Has(todo', "menu") <=> Has(todo, "menu")
      /\ Marked(todo') => Marked(todo)
  <2>1. Head(todo) \notin {"leaveMenu", "menu", "restoreOverlay"}
    BY <1>2 DEF MainStep, AppState
  <2> QED  BY <1>4, <1>5, <2>1, MarkedHas
<1>7. ASSUME At("Resizing")' \/ app' = "Resizing"
      PROVE  Has(todo', "Running") /\ ~Has(todo', "leaveMenu")
  <2>1. todo' \in Seq(MenusStep) /\ (At("Resizing")' => Has(todo', "Resizing"))
    <3>1. todo' \in Seq(MenusStep)
      BY <1>1, <1>2, <1>3, CalmMove DEF FrozenInv
    <3> QED  BY <3>1, HasTail DEF At
  <2>2. app' = "Resizing"
    BY <1>4, <1>7, <2>1
  <2>3. Has(todo, "Running") /\ ~Has(todo, "leaveMenu") /\ Head(todo) # "Running"
    BY <1>2, <2>2 DEF FrozenInv, At, AppState
  <2> QED  BY <1>4, <1>6, <2>3
<1>8. UNCHANGED <<fsm, stack, pause>>
  BY DEF Called
<1>9. \/ At("configure") /\ conf'.overlay = overlay
      \/ ~At("configure") /\ conf' = conf
  BY DEF Called
<1>10. stack = <<>> /\ ~Has(todo, "menu") => ~overlay
  BY <1>1 DEF GhostInv
<1>11. fsm' = "Normal" /\ stack' = <<>> => ~Pausing' /\ ~pause'
  <2> SUFFICES ASSUME fsm = "Normal", stack = <<>> PROVE ~Pausing' /\ ~pause'
    BY <1>8
  <2>1. ~Has(todo, "menu") /\ ~Pausing /\ ~pause
    BY MarkedHas DEF FrozenInv
  <2> QED  BY <1>8, <1>9, <1>10, <2>1 DEF Pausing
<1>12. ASSUME Has(todo', "leaveMenu"), ~Has(todo', "menu"), stack' = <<>>
       PROVE  ~Pausing' \/ \E x \in Configures : Has(todo', x)
  <2>1. ~Pausing \/ \E x \in Configures : Has(todo, x)
    BY <1>6, <1>8, <1>12 DEF FrozenInv
  <2>2. CASE At("configure")
    BY <1>6, <1>8, <1>9, <1>10, <1>12, <2>2 DEF Pausing
  <2>3. CASE ~At("configure") /\ ~Pausing
    BY <1>9, <2>3 DEF Pausing
  <2>4. CASE ~At("configure") /\ \E x \in Configures : Has(todo, x)
    <3>1. PICK x \in Configures : Has(todo, x)
      BY <2>4
    <3>2. CASE Has(t, x)
      BY <1>4, <3>1, <3>2
    <3>3. CASE ~Has(t, x)
      <4>1. Head(todo) = "guard"
        BY <1>2, <1>4, <2>4, <3>1, <3>3 DEF At, Configures
      <4>2. tag # "Stopping"
        BY <1>1, <1>2, <4>1, StopsHead DEF StopInv, OnTheWay, Closer
      <4>3. app # "Resizing"
        BY <1>6, <1>12 DEF FrozenInv
      <4>4. RunGuard
        BY <1>1, <4>1 DEF MainCall, At, IfActive, AwaitCollected, AwaitDrawn, AwaitStarted, RunRestart,
             RunRecreate, RunWriteDirect, RunConfigure, Trigger, Unlock, UnlockWrite,
             IdleCheck, IdleLoad, IdleBlock, StopMark, StopTryLock, StopVerdict, StopReset,
             CleanQuit, CleanQuitJoin, Restore, MarkAll, MarkBox, StoreApp, AppState
      <4>5. Become(<<"unlock", "configure", "trigger", "awaitStarted">>)
        BY <4>1, <4>2, <4>3, <4>4 DEF RunGuard, At
      <4> DEFINE q == <<"unlock", "configure", "trigger", "awaitStarted">>
      <4>6. q \in Seq(MenusStep) /\ t \in Seq(MenusStep) /\ todo' = q \o t
        BY <1>1, <1>2, <4>5, HeadTailProperties DEF Become, MenusStep, MainStep, t
      <4>7. Has(q, "configure")
        BY DEF Has
      <4> HIDE DEF q
      <4>8. Has(todo', "configure")
        BY <4>6, <4>7, HasConcat
      <4> QED  BY <4>8 DEF Configures
    <3> QED  BY <3>2, <3>3
  <2> QED  BY <2>1, <2>2, <2>3, <2>4
<1> QED
  BY <1>4, <1>6, <1>7, <1>8, <1>11, <1>12 DEF FrozenInv

\* A round of Menu::process, and the other steps between two waits.
LEMMA FrozenLoop ==
  ASSUME MenuInv, FrozenInv, MenuLoop
  PROVE  FrozenInv'
<1>1. TodoInv /\ todo \in Seq(MenusStep) /\ app' = app
  BY DEF MenuInv, TodoInv, MenuLoop, threads, Closed, SizeErrorOverride, Handle, HandleAway,
         HandleChanged, HandledChanged, RestoreOverlay, ClearOutput, UnlockIfIdle, LeaveMenu
<1>2. At("menu") => fsm = "MenuActive" /\ Has(todo, "menu")
  <2>1. At("menu") => Has(todo, "menu")
    BY <1>1, HasTail DEF At
  <2> QED  BY <2>1, MarkedHas DEF FrozenInv
\* What a step that goes on with calm steps keeps.
<1>3. ASSUME NEW h \in MenuStep, At(h), NEW p \in Seq(Calm), Become(p)
      PROVE  /\ LeaveLast(todo') /\ ResizingFirst(todo')
             /\ At("Resizing")' \/ app' = "Resizing"
                  => Has(todo', "Running") /\ ~Has(todo', "leaveMenu")
             /\ Has(todo', "menu") => Has(todo, "menu")
             /\ h # "leaveMenu" => (Has(todo', "leaveMenu") <=> Has(todo, "leaveMenu"))
             /\ h # "menu" => (Has(todo, "menu") => Has(todo', "menu"))
             /\ \A x \in Configures : Has(todo, x) => Has(todo', x)
             /\ \A x : Has(p, x) => Has(todo', x)
  <2>1. /\ LeaveLast(todo') /\ ResizingFirst(todo') /\ ~Has(todo', "Resizing")
        /\ \A x : Has(todo, x) <=> (Head(todo) = x \/ Has(Tail(todo), x))
        /\ \A x : Has(todo', x) <=> (Has(p, x) \/ Has(Tail(todo), x))
        /\ todo' \in Seq(MenusStep)
    BY <1>1, <1>3, CalmMove DEF FrozenInv, At
  <2>2. ~Has(p, "leaveMenu") /\ ~Has(p, "menu")
    BY HasIn DEF Calm
  <2>3. /\ Head(todo) = h /\ h \notin Configures /\ h # "Running"
    BY <1>3 DEF At, MenuStep, Configures
  <2>4. At("Resizing")' => Has(todo', "Resizing")
    BY <2>1, HasTail DEF At
  <2>5. app = "Resizing" => Has(todo', "Running") /\ ~Has(todo', "leaveMenu")
    BY <2>1, <2>2, <2>3 DEF FrozenInv
  <2> QED  BY <1>1, <2>1, <2>2, <2>3, <2>4, <2>5
\* The last conjuncts, of a step outside a round.
<1>4. ASSUME NEW h \in MenuStep \ {"menu", "restoreOverlay", "leaveMenu"}, At(h),
             NEW p \in Seq(Calm), p \in Seq(Plain), Become(p),
             UNCHANGED <<fsm, stack, conf>>, pause' => pause
      PROVE  FrozenInv'
  <2>1. Marked(todo') => Marked(todo)
    BY <1>1, <1>4, PlainMove, MarkedHas DEF At, Marks
  <2>2. pause \in BOOLEAN /\ pause' \in BOOLEAN
    BY MenuDataStep DEF MenuInv, MenuData
  <2>3. fsm' = "Normal" /\ stack' = <<>> => ~Pausing' /\ ~pause'
    BY <1>4, <2>2 DEF FrozenInv, Pausing
  <2>4. Has(todo', "leaveMenu") /\ ~Has(todo', "menu") /\ stack' = <<>>
          => ~Pausing' \/ \E x \in Configures : Has(todo', x)
    BY <1>3, <1>4 DEF FrozenInv, Pausing
  <2> QED  BY <1>3, <1>4, <2>1, <2>3, <2>4 DEF FrozenInv
\* A round that leaves a menu open.
<1>5. ASSUME At("menu") \/ At("restoreOverlay"), fsm' = fsm, stack' # <<>>,
             NEW p \in Seq(Calm), Become(p)
      PROVE  FrozenInv'
  <2>1. fsm = "MenuActive"
    <3>1. At("restoreOverlay") => Has(todo, "restoreOverlay")
      BY <1>1, HasTail DEF At
    <3> QED  BY <1>2, <1>5, <3>1, MarkedHas DEF FrozenInv
  <2>2. "menu" \in MenuStep /\ "restoreOverlay" \in MenuStep
    BY DEF MenuStep
  <2> QED  BY <1>3, <1>5, <2>1, <2>2 DEF FrozenInv
<1>6. CASE Closed
  <2> DEFINE p == <<"markAll">> \o Run
  <2>1. At("menu") /\ fsm' = fsm /\ fsm = "MenuActive" /\ Become(p)
    BY <1>2, <1>6 DEF Closed
  <2>2. p \in Seq(Calm) /\ Has(p, "guard")
    <3>1. AwaitDone \in Seq(CallStep) /\ <<"restart", "guard">> \in Seq(CallStep)
      BY Lists DEF CallStep, MainStep, AppState
    <3>2. Has(<<"restart", "guard">>, "guard")
      <4>1. 2 \in 1 .. Len(<<"restart", "guard">>) /\ <<"restart", "guard">>[2] = "guard"
        OBVIOUS
      <4> QED  BY <4>1 DEF Has
    <3>3. Has(Run, "guard")
      BY <3>1, <3>2, HasConcat DEF Run
    <3> QED  BY <3>3, CalmLists, ConcatProperties, HasConcat
  <2> HIDE DEF p
  <2>3. "menu" \in MenuStep /\ "guard" \in Configures
    BY DEF MenuStep, Configures
  <2> QED  BY <1>3, <2>1, <2>2, <2>3 DEF FrozenInv
<1>7. CASE SizeErrorOverride \/ HandleAway
  <2>1. /\ At("menu") /\ todo' = todo /\ UNCHANGED <<fsm, app>>
    BY <1>7 DEF SizeErrorOverride, HandleAway, threads
  <2> QED
    BY <1>2, <2>1 DEF FrozenInv, At, Marked, Has, LeaveLast, ResizingFirst
<1>8. CASE Handle
  <2>1. PICK drawn \in {TRUE, FALSE} : Kept(drawn)
    BY <1>8 DEF Handle
  <2>2. \E p \in Seq(Calm) : Become(p)
    <3>1. \/ Become((IF Top = "SignalSend" THEN WaitIdle ELSE <<>>) \o <<"markAll">> \o Run)
          \/ Become(RunDirect) \/ Become(<<>>)
      BY <2>1 DEF Kept
    <3>2. (IF Top = "SignalSend" THEN WaitIdle ELSE <<>>) \o <<"markAll">> \o Run \in Seq(Calm)
      <4>1. (IF Top = "SignalSend" THEN WaitIdle ELSE <<>>) \in Seq(Calm)
        BY CalmLists
      <4> QED  BY <4>1, CalmLists, ConcatProperties
    <3> QED  BY <3>1, <3>2, CalmLists
  <2>3. At("menu") /\ fsm' = fsm /\ stack' = stack /\ stack # <<>>
    BY <1>8 DEF Handle
  <2> QED  BY <1>5, <2>2, <2>3
<1>9. CASE HandleChanged
  <2> DEFINE p == <<"unlock">> \o CalcSizes \o <<"restoreOverlay", "markAll">> \o Run
                    \o <<"changed">>
  <2>1. p \in Seq(Calm)
    <3>1. <<"restoreOverlay", "markAll">> \in Seq(Calm)
      BY DEF Calm, MenusStep, MainStep, MenuStep, AppState
    <3> QED  BY <3>1, CalmLists, ConcatProperties
  <2>2. At("menu") /\ fsm' = fsm /\ stack' = stack /\ stack # <<>> /\ Become(p)
    BY <1>9 DEF HandleChanged
  <2> HIDE DEF p
  <2> QED  BY <1>5, <2>1, <2>2
<1>10. CASE HandledChanged
  <2>1. At("changed") /\ UNCHANGED <<fsm, stack, conf, pause>> /\ Kept(FALSE)
    BY <1>10 DEF HandledChanged
  <2> DEFINE q == (IF Top = "SignalSend" THEN WaitIdle ELSE <<>>) \o <<"markAll">> \o Run
  <2>2. Become(q) \/ Become(<<>>)
    BY <2>1 DEF Kept
  <2>3. q \in Seq(Calm) /\ q \in Seq(Plain)
    <3>1. /\ (IF Top = "SignalSend" THEN WaitIdle ELSE <<>>) \in Seq(Calm)
          /\ (IF Top = "SignalSend" THEN WaitIdle ELSE <<>>) \in Seq(Plain)
      BY CalmLists, PlainLists
    <3> QED  BY <3>1, CalmLists, PlainLists, ConcatProperties
  <2> HIDE DEF q
  <2>4. "changed" \in MenuStep \ {"menu", "restoreOverlay", "leaveMenu"}
    BY DEF MenuStep
  <2> QED  BY <1>4, <2>1, <2>2, <2>3, <2>4, CalmLists, PlainLists
<1>11. CASE RestoreOverlay
  <2>1. At("restoreOverlay") /\ UNCHANGED <<fsm, stack>> /\ Become(<<>>)
    BY <1>1, <1>11, ReturnIsBecome DEF RestoreOverlay, At
  <2>2. stack # <<>>
    <3>1. Has(todo, "restoreOverlay")
      BY <1>1, <2>1, HasTail DEF At
    <3> QED  BY <3>1 DEF MenuInv, GhostInv
  <2> QED  BY <1>5, <2>1, <2>2, CalmLists
<1>12. CASE ClearOutput \/ UnlockIfIdle
  <2>1. /\ At("clearOutput") \/ At("unlockIfIdle")
        /\ UNCHANGED <<fsm, stack, conf>>
        /\ pause' => pause
        /\ Become(<<>>) \/ Become(<<"unlock">>)
    BY <1>1, <1>12, ReturnIsBecome DEF ClearOutput, UnlockIfIdle, menu, At
  <2>2. {"clearOutput", "unlockIfIdle"} \subseteq MenuStep \ {"menu", "restoreOverlay", "leaveMenu"}
    BY DEF MenuStep
  <2> QED  BY <1>4, <2>1, <2>2, CalmLists, PlainLists
<1>13. CASE LeaveMenu
  <2>1. /\ At("leaveMenu") /\ fsm' = (IF pause THEN fsm ELSE "Normal")
        /\ UNCHANGED <<stack, conf, pause>> /\ todo' = Tail(todo) /\ Become(<<>>)
    BY <1>1, <1>13, ReturnIsBecome DEF LeaveMenu, At, Return
  <2>2. "leaveMenu" \in MenuStep
    BY DEF MenuStep
  <2>3. \A x : Has(todo', x) => x = "poll"
    BY <1>1, <2>1, LeaveLastTail DEF FrozenInv, At
  <2>4. ~Marked(todo') /\ ~Has(todo', "leaveMenu")
    BY <2>3, MarkedHas
  <2>5. fsm' = "Normal" /\ stack' = <<>> => ~Pausing' /\ ~pause'
    <3> SUFFICES ASSUME fsm' = "Normal", stack = <<>> PROVE ~Pausing /\ ~pause
      BY <2>1 DEF Pausing
    <3>1. CASE pause
      BY <2>1, <3>1 DEF FrozenInv
    <3>2. CASE ~pause
      <4>1. \A x : Has(todo, x) => x = "leaveMenu" \/ x = "poll"
        BY <1>1, <2>1, <2>3, HasTail DEF At
      <4>2. Has(todo, "leaveMenu")
        BY <1>1, <2>1, HasTail DEF At
      <4>3. ~Has(todo, "menu") /\ \A x \in Configures : ~Has(todo, x)
        BY <4>1 DEF Configures
      <4> QED  BY <3>2, <4>2, <4>3 DEF FrozenInv
    <3> QED  BY <3>1, <3>2
  <2> QED  BY <1>3, <2>1, <2>2, <2>4, <2>5, CalmLists DEF FrozenInv
<1> QED
  BY <1>6, <1>7, <1>8, <1>9, <1>10, <1>11, <1>12, <1>13 DEF MenuLoop

\* No step of the menus or of the main loop stops the runner itself, and none
\* leaves the process.
Unstopping == MenusStep \ {"stopMark", "stopTryLock", "stopUnlock", "Quitting"}

LEMMA UnstoppingLists ==
  /\ WaitIdle \in Seq(Unstopping) /\ Run \in Seq(Unstopping) /\ RunDirect \in Seq(Unstopping)
  /\ AwaitDoneBriefly \in Seq(Unstopping) /\ CalcSizes \in Seq(Unstopping)
  /\ \A p \in Seq(Unstopping) : p \in Seq(MenusStep) /\ Proper(p) /\ ~Locks(p)
<1>1. /\ WaitIdle \in Seq(Unstopping) /\ AwaitDone \in Seq(Unstopping)
      /\ AwaitDoneBriefly \in Seq(Unstopping)
      /\ <<"restart", "guard">> \in Seq(Unstopping)
      /\ <<"restart", "guardDirect">> \in Seq(Unstopping)
      /\ <<"unlock", "clearOutput", "markAll">> \in Seq(Unstopping)
  BY DEF WaitIdle, AwaitDone, AwaitDoneBriefly, Unstopping, MenusStep, MainStep, MenuStep
<1>2. /\ Run \in Seq(Unstopping) /\ RunDirect \in Seq(Unstopping)
      /\ CalcSizes \in Seq(Unstopping)
  BY <1>1, ConcatProperties DEF Run, RunDirect, CalcSizes
<1>3. \A p \in Seq(Unstopping) : p \in Seq(MenusStep) /\ Proper(p) /\ ~Locks(p)
  <2>1. /\ Unstopping \subseteq MenusStep /\ "stopMark" \notin Unstopping
        /\ "stopTryLock" \notin Unstopping /\ "stopUnlock" \notin Unstopping
        /\ "Quitting" \notin Unstopping
    BY DEF Unstopping
  <2> QED  BY <2>1, SeqMonotonic, FreeProper
<1> QED  BY <1>1, <1>2, <1>3

\* What a step of the menus or an input puts in front of the main thread.
LEMMA InputLists ==
  ASSUME MenuInv, MenuLoop \/ Keyboard \/ Tick \/ Resize
  PROVE  /\ UNCHANGED <<tag, app, permits, rpc, quitting>>
         /\ \/ todo' = todo
            \/ /\ todo # <<>> /\ Head(todo) \in MenuStep
               /\ \E p \in Seq(Unstopping) : Become(p)
<1> DEFINE Goes == /\ todo # <<>> /\ Head(todo) \in MenuStep
                   /\ \E p \in Seq(Unstopping) : Become(p)
<1>1. /\ TodoInv /\ todo \in Seq(MenusStep) /\ MainStep \subseteq MenusStep
      /\ <<>> \in Seq(Unstopping)
  BY DEF MenuInv, TodoInv, MenusStep
<1>2. UNCHANGED <<tag, app, permits, rpc, quitting>>
  BY DEF MenuLoop, Keyboard, Tick, Resize, threads, Closed, SizeErrorOverride, Handle, HandleAway,
         HandleChanged, HandledChanged, RestoreOverlay, ClearOutput, UnlockIfIdle,
         LeaveMenu, KeyToMenu, KeyOpens, KeyNormal
<1>3. ASSUME NEW h \in MenuStep, At(h), NEW p \in Seq(Unstopping), Become(p)
      PROVE  Goes
  BY <1>3 DEF At
<1> SUFFICES todo' = todo \/ Goes
  BY <1>2
<1> HIDE DEF Goes
<1>4. /\ <<"markAll">> \in Seq(Unstopping) /\ <<"markBox">> \in Seq(Unstopping)
      /\ <<"unlock">> \in Seq(Unstopping) /\ <<"unlockIfIdle">> \in Seq(Unstopping)
      /\ <<"poll">> \in Seq(Unstopping) /\ <<"menu">> \in Seq(Unstopping)
      /\ <<"changed">> \in Seq(Unstopping) /\ <<"menu", "poll">> \in Seq(Unstopping)
      /\ <<"restoreOverlay", "markAll">> \in Seq(Unstopping)
      /\ <<"Resizing", "stopIfActive", "unlock">> \in Seq(Unstopping)
      /\ <<"Running", "poll">> \in Seq(Unstopping)
      /\ <<"unlockIfIdle", "menu", "leaveMenu", "poll">> \in Seq(Unstopping)
  BY DEF Unstopping, MenusStep, MainStep, MenuStep, AppState
<1>5. MenuStep = {"poll", "menu", "leaveMenu", "unlockIfIdle", "changed", "restoreOverlay",
                  "clearOutput"}
  BY DEF MenuStep
<1>6. ASSUME NEW drawn, Kept(drawn) PROVE \E p \in Seq(Unstopping) : Become(p)
  <2> DEFINE w == IF Top = "SignalSend" THEN WaitIdle ELSE <<>>
  <2>1. w \in Seq(Unstopping)
    BY <1>1, UnstoppingLists
  <2> HIDE DEF w
  <2>2. w \o <<"markAll">> \o Run \in Seq(Unstopping)
    BY <1>4, <2>1, UnstoppingLists, ConcatProperties
  <2>3. Become(w \o <<"markAll">> \o Run) \/ Become(RunDirect) \/ Become(<<>>)
    BY <1>6 DEF Kept, w
  <2> QED  BY <1>1, <2>2, <2>3, UnstoppingLists
<1>7. CASE Closed
  <2>1. <<"markAll">> \o Run \in Seq(Unstopping)
    BY <1>4, UnstoppingLists, ConcatProperties
  <2>2. At("menu") /\ Become(<<"markAll">> \o Run)
    BY <1>7 DEF Closed
  <2> QED  BY <1>3, <1>5, <2>1, <2>2
<1>8. CASE SizeErrorOverride \/ HandleAway
  BY <1>8 DEF SizeErrorOverride, HandleAway
<1>9. CASE Handle \/ HandledChanged
  <2>1. /\ At("menu") \/ At("changed")
        /\ \E drawn \in {TRUE, FALSE} : Kept(drawn)
    BY <1>9 DEF Handle, HandledChanged
  <2> QED  BY <1>3, <1>5, <1>6, <2>1
<1>10. CASE HandleChanged
  <2> DEFINE p == <<"unlock">> \o CalcSizes \o <<"restoreOverlay", "markAll">> \o Run
                    \o <<"changed">>
  <2>1. p \in Seq(Unstopping)
    BY <1>4, UnstoppingLists, ConcatProperties
  <2>2. At("menu") /\ Become(p)
    BY <1>10 DEF HandleChanged
  <2> HIDE DEF p
  <2> QED  BY <1>3, <1>5, <2>1, <2>2
<1>11. CASE RestoreOverlay \/ ClearOutput \/ UnlockIfIdle \/ LeaveMenu
  <2>1. /\ At("restoreOverlay") \/ At("clearOutput") \/ At("unlockIfIdle") \/ At("leaveMenu")
        /\ Become(<<>>) \/ Become(<<"unlock">>)
    BY <1>1, <1>11, ReturnIsBecome
    DEF RestoreOverlay, ClearOutput, UnlockIfIdle, LeaveMenu, At
  <2> QED  BY <1>1, <1>3, <1>4, <1>5, <2>1
<1>12. CASE KeyToMenu
  <2>1. At("poll") /\ Become(<<"unlockIfIdle", "menu", "leaveMenu", "poll">>)
    BY <1>12 DEF KeyToMenu
  <2> QED  BY <1>3, <1>4, <1>5, <2>1
<1>13. CASE KeyOpens
  <2>1. PICK frame \in Opened :
          Become((<<"unlockIfIdle">>
                   \o (IF frame \in {"Main", "Options", "Help"} THEN <<>> ELSE WaitIdle))
                  \o <<"menu", "poll">>)
    BY <1>13 DEF KeyOpens
  <2> DEFINE w == IF frame \in {"Main", "Options", "Help"} THEN <<>> ELSE WaitIdle
  <2>2. w \in Seq(Unstopping)
    BY <1>1, UnstoppingLists
  <2> HIDE DEF w
  <2>3. (<<"unlockIfIdle">> \o w) \o <<"menu", "poll">> \in Seq(Unstopping)
    BY <1>4, <2>2, ConcatProperties
  <2>4. At("poll") /\ Become((<<"unlockIfIdle">> \o w) \o <<"menu", "poll">>)
    BY <1>13, <2>1 DEF KeyOpens, w
  <2> QED  BY <1>3, <1>5, <2>3, <2>4
<1>14. CASE KeyNormal
  <2>1. PICK calls \in {<<"markBox">> \o Run, WaitIdle \o CalcSizes \o <<"markAll">> \o Run} :
          At("poll") /\ Become((<<"unlockIfIdle">> \o calls) \o <<"poll">>)
    BY <1>14 DEF KeyNormal
  <2>2. (<<"unlockIfIdle">> \o calls) \o <<"poll">> \in Seq(Unstopping)
    <3>1. /\ <<"markBox">> \o Run \in Seq(Unstopping)
          /\ WaitIdle \o CalcSizes \o <<"markAll">> \o Run \in Seq(Unstopping)
      BY <1>4, UnstoppingLists, ConcatProperties
    <3>2. calls \in Seq(Unstopping)
      BY <3>1
    <3> QED  BY <1>4, <3>2, ConcatProperties
  <2> QED  BY <1>3, <1>5, <2>1, <2>2
<1>15. CASE Tick
  <2>1. At("poll") /\ Become(Run \o <<"poll">>) /\ Run \o <<"poll">> \in Seq(Unstopping)
    BY <1>4, <1>15, UnstoppingLists, ConcatProperties DEF Tick
  <2> QED  BY <1>3, <1>5, <2>1
<1>16. CASE Resize
  <2> DEFINE m == IF fsm = "MenuActive" THEN <<"menu">> ELSE <<"markAll">> \o Run
             p == <<"Resizing", "stopIfActive", "unlock">> \o CalcSizes \o m
                    \o AwaitDoneBriefly \o <<"Running", "poll">>
  <2>1. m \in Seq(Unstopping)
    BY <1>4, UnstoppingLists, ConcatProperties
  <2>2. At("poll") /\ Become(p)
    BY <1>16 DEF Resize
  <2> HIDE DEF m
  <2>3. p \in Seq(Unstopping)
    BY <1>4, <2>1, UnstoppingLists, ConcatProperties
  <2> HIDE DEF p
  <2> QED  BY <1>3, <1>5, <2>2, <2>3
<1> QED
  BY <1>7, <1>8, <1>9, <1>10, <1>11, <1>12, <1>13, <1>14, <1>15, <1>16 DEF MenuLoop, Keyboard

LEMMA StopInput ==
  ASSUME MenuInv, StopInv, MenuLoop \/ Keyboard \/ Tick \/ Resize
  PROVE  StopInv'
<1>1. /\ todo \in Seq(MenusStep) /\ MainStep \subseteq MenusStep
      /\ MenuStep \cap (OnTheWay \cup Closer) = {}
  BY DEF MenuInv, TodoInv, MenusStep, MenuStep, OnTheWay, Closer
<1>2. CASE todo' = todo
  BY <1>2, InputLists DEF StopInv
<1>3. CASE /\ todo # <<>> /\ Head(todo) \in MenuStep
           /\ \E p \in Seq(Unstopping) : Become(p)
  <2>1. /\ tag' = tag /\ Head(todo) \notin OnTheWay \cup Closer
        /\ \E p \in Seq(MenusStep) : Paired(p) /\ Become(p)
    BY <1>1, <1>3, InputLists, UnstoppingLists DEF Proper
  <2> QED  BY <1>1, <1>3, <2>1, StopMove
<1> QED  BY <1>2, <1>3, InputLists

\* An input.
LEMMA FrozenInput ==
  ASSUME MenuInv, FrozenInv, Keyboard \/ Tick \/ Resize
  PROVE  FrozenInv'
<1>1. TodoInv /\ todo \in Seq(MenusStep) /\ At("poll") /\ UNCHANGED <<app, conf, pause>>
  BY DEF MenuInv, TodoInv, Keyboard, Tick, Resize, KeyToMenu, KeyOpens, KeyNormal, threads, menu
<1>2. todo # <<>> /\ Tail(todo) = <<>>
  BY <1>1, PollLastTail DEF TodoInv, At
<1>3. \A x : Has(todo, x) <=> x = "poll"
  <2>1. \A x : ~Has(<<>>, x)
    BY DEF Has
  <2> QED  BY <1>1, <1>2, <2>1, HasTail DEF At
<1>4. app # "Resizing" /\ ~Marked(todo)
  BY <1>3, MarkedHas DEF FrozenInv
<1>5. \A u \in Seq(MenusStep) : Become(u) => todo' = u
  BY <1>2, ConcatEmptySeq DEF Become
<1> DEFINE Other == MenusStep \ {"leaveMenu", "Resizing"}
<1>6. \A u \in Seq(Other) :
        /\ u \in Seq(MenusStep) /\ LeaveLast(u) /\ ~Has(u, "leaveMenu")
        /\ ~Has(u, "Resizing") /\ ResizingFirst(u)
        /\ u # <<>> => Head(u) # "Resizing"
  <2> SUFFICES ASSUME NEW u \in Seq(Other)
               PROVE  /\ u \in Seq(MenusStep) /\ LeaveLast(u) /\ ~Has(u, "leaveMenu")
                      /\ ~Has(u, "Resizing") /\ ResizingFirst(u)
                      /\ u # <<>> => Head(u) # "Resizing"
    OBVIOUS
  <2>1. u \in Seq(MenusStep)
    BY SeqMonotonic
  <2>2. ~Has(u, "leaveMenu") /\ ~Has(u, "Resizing")
    BY HasIn
  <2> HIDE DEF Other
  <2>3. LeaveLast(u)
    BY <2>2 DEF LeaveLast, Has
  <2>4. ResizingFirst(u) /\ (u # <<>> => Head(u) # "Resizing")
    BY <2>1, <2>2, HasTail DEF ResizingFirst
  <2> QED  BY <2>1, <2>2, <2>3, <2>4
<1>7. /\ WaitIdle \in Seq(Other) /\ Run \in Seq(Other) /\ CalcSizes \in Seq(Other)
      /\ AwaitDoneBriefly \in Seq(Other) /\ <<>> \in Seq(Other)
      /\ <<"markAll">> \in Seq(Other) /\ <<"markBox">> \in Seq(Other)
      /\ <<"unlockIfIdle">> \in Seq(Other) /\ <<"poll">> \in Seq(Other)
      /\ <<"menu">> \in Seq(Other) /\ <<"menu", "poll">> \in Seq(Other)
      /\ <<"stopIfActive", "unlock">> \in Seq(Other) /\ <<"Running", "poll">> \in Seq(Other)
  <2>1. \A p \in Seq(Calm) : p \in Seq(Other)
    <3>1. Calm \subseteq Other
      BY DEF Calm
    <3> QED  BY <3>1, SeqMonotonic
  <2>2. /\ <<"poll">> \in Seq(Other) /\ <<"menu">> \in Seq(Other) /\ <<"menu", "poll">> \in Seq(Other)
        /\ <<"stopIfActive", "unlock">> \in Seq(Other) /\ <<"Running", "poll">> \in Seq(Other)
    BY DEF MenusStep, MainStep, MenuStep, AppState
  <2> HIDE DEF Other
  <2> QED  BY <2>1, <2>2, CalmLists
<1> HIDE DEF Other
\* What is no change of the size.
<1>8. ASSUME NEW u \in Seq(Other), Become(u),
             \/ fsm' = "MenuActive"
             \/ UNCHANGED <<fsm, stack>> /\ ~Marked(u)
      PROVE  FrozenInv'
  <2>1. todo' = u
    BY <1>5, <1>6, <1>8
  <2>2. LeaveLast(todo)' /\ ResizingFirst(todo)' /\ ~At("Resizing")' /\ app' # "Resizing"
    BY <1>1, <1>4, <1>6, <1>8, <2>1 DEF At
  <2>3. Marked(todo)' => fsm' = "MenuActive"
    BY <1>8, <2>1
  <2>4. fsm' = "Normal" /\ stack' = <<>> => ~Pausing' /\ ~pause'
    BY <1>1, <1>8 DEF FrozenInv, Pausing
  <2>5. ~Has(todo, "leaveMenu")'
    BY <1>6, <1>8, <2>1
  <2> QED  BY <2>2, <2>3, <2>4, <2>5 DEF FrozenInv
<1>9. ASSUME NEW p \in Seq(Plain), p \in Seq(Other) PROVE ~Marked(p \o <<"poll">>)
  <2>1. ~Marked(p) /\ p \in Seq(MenusStep)
    BY PlainSteps
  <2>2. <<"poll">> \in Seq(MenusStep) /\ ~Marked(<<"poll">>)
    BY DEF MenusStep, MenuStep, Marked, Marks
  <2> QED  BY <2>1, <2>2, HasConcat, MarkedHas
<1>10. CASE KeyToMenu
  <2> DEFINE u == <<"unlockIfIdle", "menu", "leaveMenu", "poll">>
  <2>1. fsm = "MenuActive" /\ UNCHANGED <<fsm, stack>> /\ Become(u)
    BY <1>10 DEF KeyToMenu
  <2>2. u \in Seq(MenusStep) /\ LeaveLast(u) /\ Has(u, "menu") /\ ~Has(u, "Resizing")
    <3>1. /\ Len(u) = 4 /\ u[1] = "unlockIfIdle" /\ u[2] = "menu" /\ u[3] = "leaveMenu"
          /\ u[4] = "poll" /\ u \in Seq(MenusStep)
      BY DEF MenusStep, MenuStep
    <3> HIDE DEF u
    <3>2. \A i \in 1 .. Len(u) : i = 1 \/ i = 2 \/ i = 3 \/ i = 4
      BY <3>1
    <3>3. 2 \in 1 .. Len(u)
      BY <3>1
    <3> QED  BY <3>1, <3>2, <3>3 DEF LeaveLast, Has
  <2> HIDE DEF u
  <2>3. todo' = u
    BY <1>5, <2>1, <2>2
  <2>4. ResizingFirst(u) /\ (u # <<>> => Head(u) # "Resizing")
    BY <2>2, HasTail DEF ResizingFirst
  <2> QED  BY <1>1, <1>4, <2>1, <2>2, <2>3, <2>4 DEF FrozenInv, At
<1>11. CASE KeyOpens
  <2>1. PICK frame \in Opened :
          Become((<<"unlockIfIdle">>
                   \o (IF frame \in {"Main", "Options", "Help"} THEN <<>> ELSE WaitIdle))
                  \o <<"menu", "poll">>)
    BY <1>11 DEF KeyOpens
  <2> DEFINE w == IF frame \in {"Main", "Options", "Help"} THEN <<>> ELSE WaitIdle
  <2>2. w \in Seq(Other)
    BY <1>7
  <2>3. Become((<<"unlockIfIdle">> \o w) \o <<"menu", "poll">>)
    BY <2>1
  <2> HIDE DEF w
  <2>4. (<<"unlockIfIdle">> \o w) \o <<"menu", "poll">> \in Seq(Other)
    BY <1>7, <2>2, ConcatProperties
  <2>5. fsm' = "MenuActive"
    BY <1>11 DEF KeyOpens
  <2> QED  BY <1>8, <2>3, <2>4, <2>5
<1>12. CASE KeyNormal
  <2>1. PICK calls \in {<<"markBox">> \o Run, WaitIdle \o CalcSizes \o <<"markAll">> \o Run} :
          UNCHANGED <<fsm, stack>> /\ Become((<<"unlockIfIdle">> \o calls) \o <<"poll">>)
    BY <1>12 DEF KeyNormal
  <2>2. /\ <<"markBox">> \o Run \in Seq(Other) /\ <<"markBox">> \o Run \in Seq(Plain)
        /\ WaitIdle \o CalcSizes \o <<"markAll">> \o Run \in Seq(Other)
        /\ WaitIdle \o CalcSizes \o <<"markAll">> \o Run \in Seq(Plain)
    BY <1>7, PlainLists, ConcatProperties
  <2>3. calls \in Seq(Other) /\ calls \in Seq(Plain)
    BY <2>2
  <2>4. /\ <<"unlockIfIdle">> \o calls \in Seq(Other) /\ <<"unlockIfIdle">> \o calls \in Seq(Plain)
        /\ (<<"unlockIfIdle">> \o calls) \o <<"poll">> \in Seq(Other)
    BY <1>7, <2>3, PlainLists, ConcatProperties
  <2> QED  BY <1>8, <1>9, <2>1, <2>4
<1>13. CASE Tick
  <2>1. UNCHANGED <<fsm, stack>> /\ Become(Run \o <<"poll">>)
    BY <1>13 DEF Tick, menu
  <2>2. Run \o <<"poll">> \in Seq(Other)
    BY <1>7, ConcatProperties
  <2> QED  BY <1>7, <1>8, <1>9, <2>1, <2>2, PlainLists
<1>14. CASE Resize
  <2> DEFINE r == <<"Resizing", "stopIfActive", "unlock">>
             m == IF fsm = "MenuActive" THEN <<"menu">> ELSE <<"markAll">> \o Run
             v == ((r \o CalcSizes) \o m) \o AwaitDoneBriefly
             u == v \o <<"Running", "poll">>
             NL == MenusStep \ {"leaveMenu"}
  <2>1. UNCHANGED <<fsm, stack>> /\ Become(u)
    BY <1>14 DEF Resize
  <2>2. /\ r \in Seq(NL) /\ r \in Seq(MenusStep) /\ r # <<>> /\ ResizingFirst(r) /\ ~Marked(r)
    <3>1. r \in Seq(NL) /\ r \in Seq(MenusStep) /\ r \in Seq(Plain) /\ r # <<>>
      BY DEF MenusStep, MainStep, MenuStep, AppState, Plain, Marks
    <3>2. ~Has(Tail(r), "Resizing")
      <4>1. Tail(r) = <<"stopIfActive", "unlock">>
        OBVIOUS
      <4> QED  BY <4>1 DEF Has
    <3> QED  BY <3>1, <3>2, PlainSteps DEF ResizingFirst
  <2>3. m \in Seq(Other) /\ (fsm # "MenuActive" => ~Marked(m))
    <3>1. <<"markAll">> \o Run \in Seq(Other) /\ <<"markAll">> \o Run \in Seq(Plain)
      BY <1>7, PlainLists, ConcatProperties
    <3> QED  BY <1>7, <3>1, PlainSteps
  <2>4. \A p \in Seq(Other) : p \in Seq(NL) /\ p \in Seq(MenusStep) /\ ~Has(p, "Resizing")
    <3>1. Other \subseteq NL
      BY DEF Other
    <3> HIDE DEF NL
    <3>2. \A p \in Seq(Other) : p \in Seq(NL)
      BY <3>1, SeqMonotonic
    <3> QED  BY <1>6, <3>2
  <2> HIDE DEF r, m, NL
  <2>5. /\ r \o CalcSizes \in Seq(NL) /\ r \o CalcSizes \in Seq(MenusStep)
        /\ r \o CalcSizes # <<>> /\ ResizingFirst(r \o CalcSizes)
        /\ ~Marked(r \o CalcSizes)
    <3>1. ~Marked(CalcSizes) /\ CalcSizes \in Seq(MenusStep)
      BY PlainLists, PlainSteps
    <3>2. ~Marked(r \o CalcSizes)
      BY <2>2, <3>1, HasConcat, MarkedHas
    <3> QED  BY <1>7, <2>2, <2>4, <3>2, ConcatProperties, ResizingFirstConcat
  <2> DEFINE rc == r \o CalcSizes
             rcm == rc \o m
  <2> HIDE DEF rc
  <2>6. /\ rcm \in Seq(NL) /\ rcm \in Seq(MenusStep) /\ rcm # <<>> /\ ResizingFirst(rcm)
        /\ fsm # "MenuActive" => ~Marked(rcm)
    <3>1. fsm # "MenuActive" => ~Marked(rcm)
      BY <2>3, <2>4, <2>5, HasConcat, MarkedHas DEF rc
    <3> QED  BY <2>3, <2>4, <2>5, <3>1, ConcatProperties, ResizingFirstConcat DEF rc
  <2> HIDE DEF rcm
  <2>7. v = rcm \o AwaitDoneBriefly
    BY DEF rc, rcm
  <2> HIDE DEF v
  <2>8. /\ v \in Seq(NL) /\ v \in Seq(MenusStep) /\ v # <<>> /\ ResizingFirst(v)
        /\ fsm # "MenuActive" => ~Marked(v)
    <3>1. ~Marked(AwaitDoneBriefly) /\ AwaitDoneBriefly \in Seq(MenusStep)
      BY PlainLists, PlainSteps
    <3>2. fsm # "MenuActive" => ~Marked(v)
      BY <2>6, <2>7, <3>1, HasConcat, MarkedHas
    <3> QED  BY <1>7, <2>4, <2>6, <2>7, <3>2, ConcatProperties, ResizingFirstConcat
  <2>9. /\ u \in Seq(NL) /\ u \in Seq(MenusStep) /\ ResizingFirst(u) /\ Has(u, "Running")
        /\ fsm # "MenuActive" => ~Marked(u)
    <3> DEFINE w == <<"Running", "poll">>
    <3>1. w \in Seq(MenusStep) /\ w \in Seq(NL) /\ ~Has(w, "Resizing")
      BY <1>7, <2>4
    <3>2. Has(w, "Running") /\ ~Marked(w)
      <4>1. 1 \in 1 .. Len(w) /\ w[1] = "Running"
        OBVIOUS
      <4>2. ~Marked(w)
        BY DEF Marked, Marks
      <4> QED  BY <4>1, <4>2 DEF Has
    <3> HIDE DEF w
    <3>3. Has(u, "Running") /\ (fsm # "MenuActive" => ~Marked(u))
      BY <2>8, <3>1, <3>2, HasConcat, MarkedHas DEF w
    <3> QED  BY <2>8, <3>1, <3>3, ConcatProperties, ResizingFirstConcat DEF w
  <2> HIDE DEF u
  <2>10. todo' = u
    BY <1>5, <2>1, <2>9
  <2>11. ~Has(u, "leaveMenu")
    BY <2>9, HasIn DEF NL
  <2>12. LeaveLast(u)
    BY <2>11 DEF LeaveLast, Has
  <2> QED
    BY <1>1, <2>1, <2>9, <2>10, <2>11, <2>12 DEF FrozenInv, Pausing
<1> QED
  BY <1>10, <1>11, <1>12, <1>13, <1>14 DEF Keyboard

\* The runner only pauses the output where a cycle can.
LEMMA FrozenWorker ==
  ASSUME StopInv, FrozenInv, Worker
  PROVE  StopInv' /\ FrozenInv'
<1>1. UNCHANGED <<todo, app, fsm, stack, conf>> /\ (tag' = tag \/ tag' # "Stopping")
  BY DEF Worker, RunnerThread, RunnerStart, RunnerTest, RunnerIdle, RunnerAcquire, RunnerWoken,
         RunnerEntry, RunnerCollect, RunnerTake, RunnerCollected, RunnerCoresChanged, RunnerThrows,
         RunnerFault, RunnerRaise, RunnerCheck, RunnerDraw, RunnerEmit, shared, main
<1>2. pause' = (pause \/ (rpc = "emit" /\ Pausing))
  BY DEF Worker, Pausing
<1>3. StopInv'
  BY <1>1 DEF StopInv
<1>4. fsm' = "Normal" /\ stack' = <<>> => ~Pausing' /\ ~pause'
  BY <1>1, <1>2 DEF FrozenInv, Pausing
<1> QED
  BY <1>1, <1>3, <1>4 DEF FrozenInv, At, Pausing, Has, Marked, LeaveLast, ResizingFirst

LEMMA FrozenInvInit == MenuInit => StopInv /\ FrozenInv
<1> SUFFICES ASSUME MenuInit PROVE StopInv /\ FrozenInv
  OBVIOUS
<1>1. todo = <<"poll">> /\ tag = "Idle" /\ app = "Running" /\ ~conf.overlay /\ ~pause
  BY DEF MenuInit, ThreadsInit
<1>2. Paired(todo) /\ LeaveLast(todo) /\ ~Marked(todo) /\ ~Has(todo, "leaveMenu")
  BY <1>1 DEF Paired, LeaveLast, Marked, Marks, Has
<1>3. ResizingFirst(todo) /\ ~At("Resizing")
  <2>1. Tail(todo) = <<>>
    BY <1>1
  <2> QED  BY <1>1, <2>1 DEF ResizingFirst, Has, At
<1> QED  BY <1>1, <1>2, <1>3 DEF StopInv, FrozenInv, Pausing

LEMMA FrozenInvStep ==
  ASSUME MenuInv, StopInv, FrozenInv, [MenuNext]_mvars
  PROVE  StopInv' /\ FrozenInv'
<1>1. CASE Called
  <2>1. todo \in Seq(MenusStep) /\ MainStep \subseteq MenusStep /\ MainCall
    BY <1>1 DEF MenuInv, TodoInv, MenusStep, Called
  <2> QED  BY <1>1, <2>1, StopCall, FrozenCall
<1>2. CASE MenuLoop
  BY <1>2, StopInput, FrozenLoop
<1>3. CASE Keyboard \/ Tick \/ Resize
  BY <1>3, StopInput, FrozenInput
<1>4. CASE UNCHANGED mvars
  BY <1>4 DEF mvars, rvars, menu, StopInv, FrozenInv, At, Pausing, Has, Marked, LeaveLast,
              ResizingFirst, Paired, Stops
<1> QED  BY <1>1, <1>2, <1>3, <1>4, FrozenWorker DEF MenuNext

(* Whenever the menus are closed, and however late the runner pauses the   *)
(* output behind the main thread's back: with the boxes paused and no menu *)
(* open, the next key goes to the loop that lifts the pause.  No deadline  *)
(* is assumed to be met.                                                   *)
THEOREM NothingFreezes == MenuSpec => []NeverFrozen
<1>1. MenuInv /\ FrozenInv => NeverFrozen
  BY DEF MenuInv, MenuData, FrozenInv, NeverFrozen
<1>2. MenuInit /\ [][MenuNext]_mvars /\ []MenuInv => [](StopInv /\ FrozenInv)
  BY FrozenInvInit, FrozenInvStep, PTL
<1> QED
  BY <1>1, <1>2, InductiveMenuInv, PTL DEF MenuSpec

---------------------------------------------------------------------------
(* Neither thread waits for the other (see Runner_proofs).                 *)

LEMMA MenuHangStep ==
  ASSUME MenuInv, HangInv, [MenuNext]_mvars
  PROVE  HangInv'
<1>1. /\ todo \in Seq(MenusStep) /\ MainStep \subseteq MenusStep /\ permits \in Nat
      /\ MenuStep \cap (OnTheWay \cup Closer) = {}
  BY DEF MenuInv, TodoInv, MenusStep, MenuStep, OnTheWay, Closer, ThreadsTypeOK
<1>2. CASE Worker
  BY <1>1, <1>2, HangThread DEF Worker
<1>3. CASE Called
  BY <1>1, <1>3, HangCall DEF Called
<1>4. CASE MenuLoop \/ Keyboard \/ Tick \/ Resize
  <2>1. CASE todo' = todo
    BY <1>4, <2>1, InputLists, HangStill
  <2>2. CASE /\ todo # <<>> /\ Head(todo) \in MenuStep
             /\ \E p \in Seq(Unstopping) : Become(p)
    <3>1. Head(todo) \notin OnTheWay \cup Closer /\ UNCHANGED <<tag, app, permits, rpc, quitting>>
      BY <1>1, <1>4, <2>2, InputLists
    <3>2. PICK p \in Seq(Unstopping) : Become(p)
      BY <2>2
    <3>3. p \in Seq(MenusStep) /\ Proper(p) /\ ~Locks(p)
      BY UnstoppingLists
    <3> QED  BY <1>1, <2>2, <3>1, <3>2, <3>3, HangMove
  <2> QED  BY <1>4, <2>1, <2>2, InputLists
<1>5. CASE UNCHANGED mvars
  BY <1>5, HangStill DEF mvars, rvars
<1> QED  BY <1>2, <1>3, <1>4, <1>5 DEF MenuNext

(* Whatever the menus have the runner do, and however often they restart   *)
(* it: wherever one of the two threads waits, the other can go on, but for *)
(* the three places NoDeadlock names.                                      *)
THEOREM MenusNeverDeadlocked == MenuSpec => []NoDeadlock
<1>1. MenuInit => HangInv
  <2> SUFFICES ASSUME MenuInit PROVE HangInv
    OBVIOUS
  <2>1. ThreadsInit /\ todo = <<"poll">> /\ <<"poll">> \in Seq(Unstopping)
    BY DEF MenuInit, Unstopping, MenusStep, MenuStep
  <2>2. todo \in Seq(MenusStep) /\ Proper(todo) /\ ~Locks(todo)
    BY <2>1, UnstoppingLists
  <2> QED  BY <2>1, <2>2, HangInit
<1>2. MenuInv /\ HangInv => NoDeadlock
  BY HangMeans DEF MenuInv, TodoInv, ThreadsTypeOK
<1> QED
  BY <1>1, <1>2, MenuHangStep, InductiveMenuInv, PTL DEF MenuSpec
=============================================================================
