--------------------------- MODULE AppLoop_proofs ---------------------------
(***************************************************************************)
(* Proofs about AppLoop, for every set of signals, of missed deadlines and *)
(* of dirty bits, and for every length of the event queue: its types, that *)
(* no wake-up is lost, that btop reads keys in its own terminal mode, and  *)
(* where the two threads may wait for each other.                          *)
(***************************************************************************)
EXTENDS AppLoop, Runner_proofs

AppStep == MainStep \cup LoopStep

\* The steps of the main loop that stand at the end of todo.
Final == {"drain", "dispatch", "upkeep", "clockCheck", "tickCheck", "poll"}

\* The state in which the step at i will be reached is Sleeping.
ReachedAsleep(state, s, i) ==
  \E j \in 0 .. i - 1 :
    /\ (IF j = 0 THEN state ELSE s[j]) = "Sleeping"
    /\ \A k \in j + 1 .. i - 1 : s[k] \notin AppState

\* The process is stopped with the terminal restored, asleep, to drain the
\* queue when it goes on; after any other Term::restore it exits.
Shape(state, s) ==
  \A i \in 1 .. Len(s) :
    /\ s[i] \in Final => i = Len(s)
    /\ s[i] = "restore" => i < Len(s) /\ s[i + 1] \in {"stopped", "exited"}
    /\ s[i] = "stopped" => i < Len(s) /\ s[i + 1] = "drain" /\ ReachedAsleep(state, s, i)

Free == AppStep \ (Final \cup {"restore", "stopped"})
Plain == Free \ AppState

---------------------------------------------------------------------------
(* Shapes of lists.                                                        *)

\* Taking a step leaves the shape, in the state the step leads to.
LEMMA ShapeTail ==
  ASSUME NEW S, NEW state, NEW s \in Seq(S), s # <<>>, Shape(state, s)
  PROVE  Shape(IF Head(s) \in AppState THEN Head(s) ELSE state, Tail(s))
<1> DEFINE t == Tail(s)
           state2 == IF Head(s) \in AppState THEN Head(s) ELSE state
<1>1. /\ t \in Seq(S)
      /\ Len(t) = Len(s) - 1
      /\ \A i \in 1 .. Len(t) : t[i] = s[i + 1]
      /\ Len(s) \in Nat \ {0}
      /\ Head(s) = s[1]
  BY HeadTailProperties, EmptySeq, LenProperties
<1> HIDE DEF t
<1> SUFFICES ASSUME NEW i \in 1 .. Len(t)
             PROVE  /\ t[i] \in Final => i = Len(t)
                    /\ t[i] = "restore" => i < Len(t) /\ t[i + 1] \in {"stopped", "exited"}
                    /\ t[i] = "stopped" => /\ i < Len(t) /\ t[i + 1] = "drain"
                                           /\ ReachedAsleep(state2, t, i)
  BY DEF Shape, t
<1>2. i + 1 \in 1 .. Len(s) /\ t[i] = s[i + 1]
  BY <1>1
<1>3. t[i] \in Final => i = Len(t)
  BY <1>1, <1>2 DEF Shape
<1>4. ASSUME t[i] = "restore" PROVE i < Len(t) /\ t[i + 1] \in {"stopped", "exited"}
  <2>1. i + 1 < Len(s) /\ s[(i + 1) + 1] \in {"stopped", "exited"}
    BY <1>2, <1>4 DEF Shape
  <2>2. i + 1 \in 1 .. Len(t)
    BY <1>1, <2>1
  <2> QED  BY <1>1, <2>1, <2>2
<1>5. ASSUME t[i] = "stopped"
      PROVE  i < Len(t) /\ t[i + 1] = "drain" /\ ReachedAsleep(state2, t, i)
  <2>1. i + 1 < Len(s) /\ s[(i + 1) + 1] = "drain" /\ ReachedAsleep(state, s, i + 1)
    BY <1>2, <1>5 DEF Shape
  <2>2. i + 1 \in 1 .. Len(t)
    BY <1>1, <2>1
  <2>3. PICK j \in 0 .. i : /\ (IF j = 0 THEN state ELSE s[j]) = "Sleeping"
                            /\ \A k \in j + 1 .. i : s[k] \notin AppState
    BY <1>1, <2>1 DEF ReachedAsleep
  <2>4. \A k \in 1 .. i - 1 : t[k] = s[k + 1] /\ k + 1 \in 1 .. i
    BY <1>1
  <2>5. CASE j <= 1
    <3>1. state2 = "Sleeping"
      <4>1. CASE j = 0
        <5>1. s[1] \notin AppState
          BY <2>3, <4>1
        <5> QED  BY <1>1, <2>3, <4>1, <5>1
      <4>2. CASE j = 1
        BY <1>1, <2>3, <4>2 DEF AppState
      <4> QED  BY <2>5, <4>1, <4>2
    <3>2. \A k \in 0 + 1 .. i - 1 : t[k] \notin AppState
      <4> SUFFICES ASSUME NEW k \in 1 .. i - 1 PROVE s[k + 1] \notin AppState
        BY <2>4
      <4>1. k + 1 \in j + 1 .. i
        BY <2>5
      <4> QED  BY <2>3, <4>1
    <3> QED  BY <1>1, <2>1, <2>2, <3>1, <3>2 DEF ReachedAsleep
  <2>6. CASE j > 1
    <3>1. j - 1 \in 0 .. i - 1 /\ j - 1 # 0 /\ j - 1 \in 1 .. Len(t) /\ t[j - 1] = s[j]
      <4>1. j - 1 \in 1 .. Len(t) /\ (j - 1) + 1 = j
        BY <2>6
      <4> QED  BY <1>1, <2>6, <4>1
    <3>2. t[j - 1] = "Sleeping"
      BY <2>3, <2>6, <3>1
    <3>3. \A k \in (j - 1) + 1 .. i - 1 : t[k] \notin AppState
      <4> SUFFICES ASSUME NEW k \in (j - 1) + 1 .. i - 1 PROVE s[k + 1] \notin AppState
        BY <2>4, <2>6
      <4>1. k + 1 \in j + 1 .. i
        BY <2>6
      <4> QED  BY <2>3, <4>1
    <3> QED  BY <1>1, <2>1, <2>2, <3>1, <3>2, <3>3 DEF ReachedAsleep
  <2> QED  BY <2>5, <2>6
<1> HIDE DEF state2
<1> QED  BY <1>3, <1>4, <1>5

\* Steps that are put in front leave it, too.
LEMMA ShapeConcat ==
  ASSUME NEW state, NEW p \in Seq(Free), NEW t \in Seq(AppStep), Shape(state, t),
         \/ p \in Seq(Plain)
         \/ \A i \in 1 .. Len(t) : t[i] # "stopped"
  PROVE  Shape(state, p \o t)
<1> DEFINE u == p \o t
           n == Len(p)
<1>1. /\ Len(u) = n + Len(t)
      /\ \A i \in 1 .. Len(p) + Len(t) : u[i] = IF i <= n THEN p[i] ELSE t[i - n]
      /\ n \in Nat /\ Len(t) \in Nat
      /\ \A i \in 1 .. n : p[i] \in Free
  <2>1. p \in Seq(AppStep)
    BY SeqMonotonic DEF Free
  <2> QED  BY <2>1, ConcatProperties, LenProperties, ElementOfSeq
<1> HIDE DEF u, n
<1> SUFFICES ASSUME NEW i \in 1 .. Len(u)
             PROVE  /\ u[i] \in Final => i = Len(u)
                    /\ u[i] = "restore" => i < Len(u) /\ u[i + 1] \in {"stopped", "exited"}
                    /\ u[i] = "stopped" => /\ i < Len(u) /\ u[i + 1] = "drain"
                                           /\ ReachedAsleep(state, u, i)
  BY DEF Shape, u
<1>2. CASE i <= n
  <2>1. u[i] \in Free
    BY <1>1, <1>2 DEF n
  <2> QED  BY <2>1 DEF Free
<1>3. CASE i > n
  <2> DEFINE m == i - n
  <2>1. m \in 1 .. Len(t) /\ u[i] = t[m] /\ (m < Len(t) => u[i + 1] = t[m + 1])
        /\ (m < Len(t) => i < Len(u))
    BY <1>1, <1>3 DEF n
  <2>2. /\ t[m] \in Final => m = Len(t)
        /\ t[m] = "restore" => m < Len(t) /\ t[m + 1] \in {"stopped", "exited"}
        /\ t[m] = "stopped" => m < Len(t) /\ t[m + 1] = "drain" /\ ReachedAsleep(state, t, m)
    BY <2>1 DEF Shape
  <2>3. ASSUME t[m] = "stopped" PROVE ReachedAsleep(state, u, i)
    <3>1. p \in Seq(Plain)
      BY <2>1, <2>3
    <3>2. \A k \in 1 .. n : u[k] \notin AppState
      <4> SUFFICES ASSUME NEW k \in 1 .. n PROVE p[k] \notin AppState
        BY <1>1 DEF n
      <4>1. p[k] \in Plain
        BY <3>1, ElementOfSeq DEF n
      <4> QED  BY <4>1 DEF Plain
    <3>3. PICK j \in 0 .. m - 1 : /\ (IF j = 0 THEN state ELSE t[j]) = "Sleeping"
                                  /\ \A k \in j + 1 .. m - 1 : t[k] \notin AppState
      BY <2>2, <2>3 DEF ReachedAsleep
    <3>4. \A k \in n + 1 .. i - 1 : u[k] = t[k - n]
      BY <1>1, <1>3 DEF n
    <3>5. CASE j = 0
      <4>1. \A k \in 0 + 1 .. i - 1 : u[k] \notin AppState
        <5> SUFFICES ASSUME NEW k \in 1 .. i - 1 PROVE u[k] \notin AppState
          OBVIOUS
        <5>1. CASE k <= n  BY <1>1, <3>2, <5>1
        <5>2. CASE k > n
          <6>1. k - n \in j + 1 .. m - 1 /\ k \in n + 1 .. i - 1
            BY <1>1, <3>5, <5>2
          <6> QED  BY <3>3, <3>4, <6>1
        <5> QED  BY <5>1, <5>2, <1>1
      <4>2. 0 \in 0 .. i - 1
        BY <1>1, <1>3
      <4> QED  BY <3>3, <3>5, <4>1, <4>2 DEF ReachedAsleep
    <3>6. CASE j # 0
      <4>1. n + j \in 0 .. i - 1 /\ n + j # 0 /\ u[n + j] = "Sleeping"
        <5>1. n + j \in n + 1 .. i - 1 /\ (n + j) - n = j
          BY <1>1, <3>6, <1>3
        <5>2. u[n + j] = t[j]
          BY <3>4, <5>1
        <5> QED  BY <1>1, <3>3, <3>6, <5>1, <5>2
      <4>2. \A k \in (n + j) + 1 .. i - 1 : u[k] \notin AppState
        <5> SUFFICES ASSUME NEW k \in (n + j) + 1 .. i - 1 PROVE u[k] \notin AppState
          OBVIOUS
        <5>1. k - n \in j + 1 .. m - 1 /\ k \in n + 1 .. i - 1
          BY <1>1
        <5> QED  BY <3>3, <3>4, <5>1
      <4> QED  BY <4>1, <4>2 DEF ReachedAsleep
    <3> QED  BY <3>5, <3>6
  <2> QED  BY <1>1, <2>1, <2>2, <2>3
<1> QED  BY <1>1, <1>2, <1>3

---------------------------------------------------------------------------
(* The lists the main loop puts in front, and what it leaves of todo.      *)

LEMMA StepSets ==
  /\ CallStep \subseteq Plain
  /\ Plain \subseteq Free
  /\ Free \subseteq AppStep
  /\ Plain \cap AppState = {}
  /\ Final \subseteq AppStep /\ "exited" \in AppStep
BY DEF CallStep, Plain, Free, AppStep, Final, MainStep, LoopStep, AppState

LEMMA PlainIsFree ==
  /\ \A p \in Seq(CallStep) : p \in Seq(Plain)
  /\ \A p \in Seq(Plain) : p \in Seq(Free)
  /\ \A p \in Seq(Free) : p \in Seq(AppStep)
BY StepSets, SeqMonotonic

LEMMA LoopLists ==
  /\ TermResize \in Seq(Plain)
  /\ CalcSizes \in Seq(Plain)
  /\ Run \in Seq(Plain) /\ RunDirect \in Seq(Plain) /\ WaitIdle \in Seq(Plain)
  /\ AwaitDoneBriefly \in Seq(Plain)
<1>1. TermResize \in Seq(Plain) /\ <<"unlock", "markAll">> \in Seq(Plain)
  BY DEF TermResize, Plain, Free, AppStep, Final, MainStep, LoopStep, AppState
<1>2. /\ WaitIdle \in Seq(Plain) /\ Run \in Seq(Plain) /\ RunDirect \in Seq(Plain)
      /\ AwaitDoneBriefly \in Seq(Plain)
  BY Lists, PlainIsFree
<1>3. CalcSizes \in Seq(Plain)
  BY <1>1, <1>2, ConcatProperties DEF CalcSizes
<1> QED  BY <1>1, <1>2, <1>3

LEMMA TransitionLists ==
  ASSUME NEW from \in AppState, NEW to \in AppState, from = to \/ to # "Sleeping"
  PROVE  TransitionTo(from, to) \in Seq(Free)
<1>1. /\ <<>> \in Seq(Free)
      /\ <<to>> \in Seq(Free)
      /\ <<"markStopping">> \in Seq(Free)
      /\ <<"markAll">> \in Seq(Free)
      /\ <<"stopIfActive", "unlock">> \in Seq(Free)
      /\ <<"cleanQuit">> \in Seq(Free)
  BY DEF Free, AppStep, Final, MainStep, LoopStep, AppState
<1>2. CASE from = to
  BY <1>1, <1>2 DEF TransitionTo
<1>3. CASE from # to
  <2>1. OnExit(from, to) \in Seq(Free)
    BY <1>1 DEF OnExit
  <2>2. OnEnter(to) \in Seq(Free)
    <3>1. TermResize \o CalcSizes \o <<"markAll">> \o Run \o AwaitDoneBriefly \in Seq(Free)
      BY <1>1, LoopLists, PlainIsFree, ConcatProperties
    <3> QED  BY <1>1, <1>3, <3>1 DEF OnEnter, AppState
  <2>3. OnExit(from, to) \o <<to>> \o OnEnter(to) \in Seq(Free)
    BY <1>1, <2>1, <2>2, ConcatProperties
  <2> QED  BY <1>3, <2>3 DEF TransitionTo
<1> QED  BY <1>2, <1>3

LEMMA RelayoutList == Relayout \in Seq(Free)
<1>1. TransitionTo("Running", "Resizing") \in Seq(Free)
  BY TransitionLists DEF AppState
<1>2. <<"Running">> \in Seq(Free)
  BY DEF Free, AppStep, Final, MainStep, LoopStep, AppState
<1> QED  BY <1>1, <1>2, ConcatProperties DEF Relayout

LEMMA ChainedList == Chained \in Seq(Free)
<1>1. <<"Running">> \in Seq(Free) /\ <<>> \in Seq(Free)
  BY DEF Free, AppStep, Final, MainStep, LoopStep, AppState
<1> QED  BY <1>1, RelayoutList DEF Chained

LEMMA KeyLists == \A k \in DOMAIN KeyCalls : <<"unlockIfIdle">> \o KeyCalls[k] \in Seq(Plain)
<1>1. /\ <<"unlockIfIdle">> \in Seq(Plain) /\ <<"markBox">> \in Seq(Plain)
      /\ <<"postQuit">> \in Seq(Plain) /\ <<"markAll">> \in Seq(Plain)
  BY DEF Plain, Free, AppStep, Final, MainStep, LoopStep, AppState
<1>2. /\ <<"markBox">> \o Run \in Seq(Plain)
      /\ WaitIdle \o CalcSizes \o <<"markAll">> \o Run \in Seq(Plain)
  BY <1>1, LoopLists, ConcatProperties
<1>3. /\ DOMAIN KeyCalls = {"redraw", "layout", "quit"}
      /\ KeyCalls["redraw"] = <<"markBox">> \o Run
      /\ KeyCalls["layout"] = WaitIdle \o CalcSizes \o <<"markAll">> \o Run
      /\ KeyCalls["quit"] = <<"postQuit">>
  BY DEF KeyCalls
<1>4. \A k \in DOMAIN KeyCalls : KeyCalls[k] \in Seq(Plain)
  BY <1>1, <1>2, <1>3, LoopLists
<1> QED  BY <1>1, <1>4, ConcatProperties

\* From Sleeping's exit action to the loop that goes on after SIGCONT.
AsleepList == TransitionTo("Running", "Sleeping") \o <<"drain">>

\* A list that goes on to one of the steps in X.
Onward(s, X) == \E p \in Seq(Free) : \E x \in X : s = p \o <<x>>

\* Where the main thread goes through the queue, or from where it comes back
\* to it before it waits for input: with a SIGUSR1, or for SIGCONT.
Draining == {"discard", "drain", "dispatch", "fit", "stopped", "exited"}

LEMMA OnwardMore ==
  ASSUME NEW s, NEW X, NEW Y, X \subseteq Y, Onward(s, X)
  PROVE  Onward(s, Y)
BY DEF Onward

LEMMA FinalIsAlone ==
  ASSUME todo \in Seq(AppStep), todo # <<>>, Shape(app, todo), Head(todo) \in Final
  PROVE  Tail(todo) = <<>>
<1>1. Len(todo) \in Nat \ {0} /\ Head(todo) = todo[1]
  BY HeadTailProperties, EmptySeq, LenProperties
<1>2. 1 \in 1 .. Len(todo)
  BY <1>1
<1>3. Len(todo) = 1
  BY <1>1, <1>2 DEF Shape
<1>4. Tail(todo) \in Seq(AppStep) /\ Len(Tail(todo)) = 0
  BY <1>3, HeadTailProperties
<1> QED  BY <1>4, EmptySeq

\* What a final step of the loop leaves: the list it puts there.
LEMMA FinalBecomes ==
  ASSUME todo \in Seq(AppStep), Shape(app, todo), todo # <<>>, Head(todo) \in Final,
         NEW X \in SUBSET AppStep, NEW p \in Seq(Free), NEW x \in X, Become(p \o <<x>>)
  PROVE  Onward(todo', X)
<1>1. Tail(todo) = <<>>
  BY FinalIsAlone
<1>2. p \in Seq(AppStep) /\ <<x>> \in Seq(AppStep)
  BY PlainIsFree, StepSets
<1>3. p \o <<x>> \in Seq(AppStep)
  BY <1>2, ConcatProperties
<1>4. todo' = p \o <<x>>
  BY <1>1, <1>3, ConcatEmptySeq DEF Become
<1> QED  BY <1>4 DEF Onward

LEMMA FinalGoesTo ==
  ASSUME todo \in Seq(AppStep), Shape(app, todo), todo # <<>>, Head(todo) \in Final,
         NEW X \in SUBSET AppStep, NEW x \in X, Become(<<x>>)
  PROVE  Onward(todo', X)
<1>1. <<>> \in Seq(Free) /\ <<>> \o <<x>> = <<x>>
  OBVIOUS
<1> QED  BY <1>1, FinalBecomes

\* What leads to the queue, or out of the process.
LEMMA LoopDrains ==
  ASSUME todo \in Seq(AppStep), app \in AppState, Shape(app, todo),
         Drain \/ Dispatch \/ PollWoken \/ PollTimeout
  PROVE  /\ app' = app
         /\ \/ Onward(todo', {"drain", "dispatch", "exited"})
            \/ app = "Running" /\ todo' = AsleepList
<1> USE DEF At
<1> DEFINE X == {"drain", "dispatch", "exited"}
<1>1. X \in SUBSET AppStep /\ {"drain", "dispatch", "poll"} \subseteq Final
  BY DEF Final, AppStep, MainStep, LoopStep
<1>2. CASE Drain
  <2>1. /\ At("drain") /\ app' = app
        /\ \/ Become((<<"termInit">> \o TermResize) \o <<"dispatch">>)
           \/ Become(<<>> \o <<"dispatch">>)
    BY <1>2 DEF Drain, threads
  <2>2. <<"termInit">> \o TermResize \in Seq(Free) /\ <<>> \in Seq(Free)
    <3>1. <<"termInit">> \in Seq(Plain)
      BY DEF Plain, Free, AppStep, Final, MainStep, LoopStep, AppState
    <3>2. <<"termInit">> \o TermResize \in Seq(Plain)
      BY <3>1, LoopLists, ConcatProperties
    <3> QED  BY <3>2, PlainIsFree, EmptySeq
  <2> QED  BY <2>1, <2>2, <1>1, FinalBecomes
<1>3. CASE Dispatch
  <2> DEFINE next == OnEvent(app, ev)
             last == IF next \in {"Quitting", "Error"} THEN "exited" ELSE "drain"
  <2>1. /\ At("dispatch") /\ app' = app
        /\ Become(TransitionTo(app, next) \o <<last>>)
    BY <1>3 DEF Dispatch, threads
  <2>2. /\ next \in AppState
        /\ next = "Sleeping" => app \in {"Running", "Sleeping"}
    BY DEF OnEvent, AppState
  <2>3. last \in X
    OBVIOUS
  <2>4. CASE app = next \/ next # "Sleeping"
    <3>1. TransitionTo(app, next) \in Seq(Free)
      BY <2>2, <2>4, TransitionLists
    <3> HIDE DEF next, last
    <3> QED  BY <2>1, <2>3, <3>1, <1>1, FinalBecomes
  <2>5. CASE app = "Running" /\ next = "Sleeping"
    <3>1. last = "drain"
      BY <2>5
    <3>2. Tail(todo) = <<>>
      BY <2>1, <1>1, FinalIsAlone
    <3>3. todo' = AsleepList \o <<>>
      BY <2>1, <2>5, <3>1, <3>2 DEF Become, AsleepList
    <3>4. AsleepList \o <<>> = AsleepList
      BY DEF AsleepList, TransitionTo, OnExit, OnEnter, Stop
    <3> QED  BY <2>1, <2>5, <3>3, <3>4
  <2> QED  BY <2>2, <2>4, <2>5
<1>4. CASE PollWoken \/ PollTimeout
  <2>1. At("poll") /\ app' = app /\ Become(<<"drain">>)
    BY <1>4 DEF PollWoken, PollTimeout, threads
  <2>2. "drain" \in X
    OBVIOUS
  <2> HIDE DEF X
  <2>3. Onward(todo', X)
    BY <2>1, <2>2, <1>1, FinalGoesTo
  <2> QED  BY <2>1, <2>3 DEF X
<1> QED  BY <1>2, <1>3, <1>4

\* What a step of the loop or of the outside makes of todo.
LEMMA LoopTodo ==
  ASSUME todo \in Seq(AppStep), app \in AppState, Shape(app, todo), Loop \/ Outside
  PROVE  /\ app' = app
         /\ \/ todo' = todo
            \/ /\ todo # <<>> /\ Head(todo) \notin Final \cup AppState
               /\ \E p \in Seq(Plain) : Become(p)
            \/ Onward(todo', Final \cup {"exited"})
            \/ app = "Running" /\ todo' = AsleepList
<1> USE DEF At
<1>1. ASSUME NEW h, At(h), h \notin Final \cup AppState, Return
      PROVE  /\ todo # <<>> /\ Head(todo) \notin Final \cup AppState
             /\ \E p \in Seq(Plain) : Become(p)
  BY <1>1, ReturnIsBecome, EmptySeq
<1>2. Final \cup {"exited"} \in SUBSET AppStep
  BY StepSets
<1>3. ASSUME NEW h, At(h), h \in Final, NEW p \in Seq(Free), NEW x \in Final, Become(p \o <<x>>)
      PROVE  Onward(todo', Final \cup {"exited"})
  BY <1>2, <1>3, FinalBecomes
<1>4. {"startResize", "discard", "termInit", "markStopping", "unlockIfIdle", "postQuit",
       "fit", "stopped"} \cap (Final \cup AppState) = {}
  BY DEF Final, AppState
<1>5. {"drain", "dispatch", "upkeep", "clockCheck", "tickCheck", "poll"} \subseteq Final
  BY DEF Final
<1>6. CASE Discard \/ TermInit \/ MarkStopping \/ PostQuit \/ Fit \/ TooSmallQuit \/ Continue
  <2>1. /\ app' = app /\ Return
        /\ \/ At("discard") \/ At("termInit") \/ At("markStopping") \/ At("postQuit")
           \/ At("fit") \/ At("stopped")
    BY <1>6 DEF Discard, TermInit, MarkStopping, PostQuit, Fit, TooSmallQuit, Continue,
                threads
  <2> QED  BY <2>1, <1>1, <1>4
<1>7. CASE StartResize
  <2>1. At("startResize") /\ app' = app /\ (Become(<<>>) \/ Become(TermResize))
    BY <1>7 DEF StartResize, threads
  <2> QED  BY <2>1, <1>4, LoopLists, EmptySeq
<1>8. CASE UnlockIfIdle
  <2>1. At("unlockIfIdle") /\ app' = app /\ (Become(<<>>) \/ Become(<<"unlock">>))
    BY <1>8 DEF UnlockIfIdle, threads
  <2>2. <<"unlock">> \in Seq(Plain)
    BY DEF Plain, Free, AppStep, Final, MainStep, LoopStep, AppState
  <2> QED  BY <2>1, <2>2, <1>4, EmptySeq
<1>9. CASE TooSmall \/ Signal
  BY <1>9 DEF TooSmall, Signal, threads
<1>10. CASE Drain \/ Dispatch \/ PollWoken \/ PollTimeout
  <2>1. {"drain", "dispatch", "exited"} \subseteq Final \cup {"exited"}
    BY DEF Final
  <2> QED  BY <1>10, <2>1, LoopDrains, OnwardMore
<1>11. CASE Drained
  <2>1. At("drain") /\ app' = app /\ Become(Chained \o <<"upkeep">>)
    BY <1>11 DEF Drained, threads
  <2> QED  BY <2>1, <1>3, <1>5, ChainedList
<1>12. CASE Upkeep
  <2>1. /\ At("upkeep") /\ app' = app
        /\ \/ Become(<<"clockCheck">>)
           \/ Become(Relayout \o <<"drain">>)
           \/ Become((TermResize \o Relayout) \o <<"clockCheck">>)
    BY <1>12 DEF Upkeep, threads
  <2>2. TermResize \o Relayout \in Seq(Free)
    BY LoopLists, PlainIsFree, RelayoutList, ConcatProperties
  <2>3. Become(<<"clockCheck">>) => Onward(todo', Final \cup {"exited"})
    BY <2>1, <1>2, <1>5, FinalGoesTo
  <2> QED  BY <2>1, <2>2, <2>3, <1>3, <1>5, RelayoutList
<1>13. CASE ClockCheck
  <2>1. /\ At("clockCheck") /\ app' = app
        /\ Become(<<>> \o <<"tickCheck">>) \/ Become(RunDirect \o <<"tickCheck">>)
    BY <1>13 DEF ClockCheck, threads
  <2>2. <<>> \in Seq(Free) /\ RunDirect \in Seq(Free)
    BY LoopLists, PlainIsFree, EmptySeq
  <2> QED  BY <2>1, <2>2, <1>3, <1>5
<1>14. CASE TickCheck
  <2>1. /\ At("tickCheck") /\ app' = app
        /\ Become(<<>> \o <<"poll">>) \/ Become(Run \o <<"poll">>)
    BY <1>14 DEF TickCheck, threads
  <2>2. <<>> \in Seq(Free) /\ Run \in Seq(Free)
    BY LoopLists, PlainIsFree, EmptySeq
  <2> QED  BY <2>1, <2>2, <1>3, <1>5
<1>15. CASE PollKey
  <2>1. At("poll") /\ app' = app
    BY <1>15 DEF PollKey, threads
  <2>2. PICK k \in DOMAIN KeyCalls : Become((<<"unlockIfIdle">> \o KeyCalls[k]) \o <<"poll">>)
    BY <1>15 DEF PollKey
  <2>3. <<"unlockIfIdle">> \o KeyCalls[k] \in Seq(Free)
    BY KeyLists, PlainIsFree
  <2> QED  BY <2>1, <2>2, <2>3, <1>3, <1>5
<1> QED
  BY <1>6, <1>7, <1>8, <1>9, <1>10, <1>11, <1>12, <1>13, <1>14, <1>15
  DEF Loop, Outside

---------------------------------------------------------------------------
(* Types, and the shape of todo.                                           *)

TodoInv == todo \in Seq(AppStep) /\ Shape(app, todo)

LEMMA OnwardShape ==
  ASSUME NEW state, NEW s, Onward(s, Final \cup {"exited"})
  PROVE  s \in Seq(AppStep) /\ Shape(state, s)
<1>1. PICK p \in Seq(Free), x \in Final \cup {"exited"} : s = p \o <<x>>
  BY DEF Onward
<1>2. <<x>> \in Seq(AppStep) /\ p \in Seq(AppStep)
  BY StepSets, PlainIsFree
<1>3. Shape(state, <<x>>) /\ \A i \in 1 .. Len(<<x>>) : <<x>>[i] # "stopped"
  BY DEF Shape, Final
<1> QED  BY <1>1, <1>2, <1>3, ShapeConcat, ConcatProperties

\* Element by element: exit action, state, Runner::stop, Term::restore, SIGSTOP.
LEMMA AsleepSteps ==
  /\ AsleepList \in Seq(AppStep)
  /\ Len(AsleepList) = 7
  /\ AsleepList[1] = "markStopping" /\ AsleepList[2] = "Sleeping"
  /\ AsleepList[3] = "stopMark" /\ AsleepList[4] = "stopTryLock"
  /\ AsleepList[5] = "restore" /\ AsleepList[6] = "stopped" /\ AsleepList[7] = "drain"
<1> DEFINE p == <<"markStopping">>
           q == <<"Sleeping">>
           s == Stop
           r == <<"restore", "stopped">>
           d == <<"drain">>
           pq == p \o q
           sr == s \o r
           t == pq \o sr
           u == t \o d
<1>1. /\ p \in Seq(AppStep) /\ Len(p) = 1 /\ p[1] = "markStopping"
      /\ q \in Seq(AppStep) /\ Len(q) = 1 /\ q[1] = "Sleeping"
      /\ s \in Seq(AppStep) /\ Len(s) = 2 /\ s[1] = "stopMark" /\ s[2] = "stopTryLock"
      /\ r \in Seq(AppStep) /\ Len(r) = 2 /\ r[1] = "restore" /\ r[2] = "stopped"
      /\ d \in Seq(AppStep) /\ Len(d) = 1 /\ d[1] = "drain"
  BY DEF Stop, AppStep, MainStep, LoopStep, AppState
<1>2. AsleepList = u
  <2>1. OnExit("Running", "Sleeping") = p
    BY DEF OnExit
  <2>2. OnEnter("Sleeping") = sr
    BY DEF OnEnter
  <2>3. TransitionTo("Running", "Sleeping") = t
    BY <2>1, <2>2 DEF TransitionTo
  <2> QED  BY <2>3 DEF AsleepList
<1> HIDE DEF p, q, s, r, d
<1>3. /\ pq \in Seq(AppStep) /\ Len(pq) = 2
      /\ pq[1] = "markStopping" /\ pq[2] = "Sleeping"
  <2>1. /\ pq \in Seq(AppStep) /\ Len(pq) = Len(p) + Len(q)
        /\ \A i \in 1 .. Len(p) + Len(q) : pq[i] = IF i <= Len(p) THEN p[i] ELSE q[i - Len(p)]
    BY <1>1, ConcatProperties
  <2> HIDE DEF pq
  <2> QED  BY <1>1, <2>1
<1>4. /\ sr \in Seq(AppStep) /\ Len(sr) = 4
      /\ sr[1] = "stopMark" /\ sr[2] = "stopTryLock" /\ sr[3] = "restore" /\ sr[4] = "stopped"
  <2>1. /\ sr \in Seq(AppStep) /\ Len(sr) = Len(s) + Len(r)
        /\ \A i \in 1 .. Len(s) + Len(r) : sr[i] = IF i <= Len(s) THEN s[i] ELSE r[i - Len(s)]
    BY <1>1, ConcatProperties
  <2> HIDE DEF sr
  <2> QED  BY <1>1, <2>1
<1> HIDE DEF pq, sr
<1>5. /\ t \in Seq(AppStep) /\ Len(t) = 6
      /\ \A i \in 1 .. 6 : t[i] = IF i <= 2 THEN pq[i] ELSE sr[i - 2]
  <2>1. /\ t \in Seq(AppStep) /\ Len(t) = Len(pq) + Len(sr)
        /\ \A i \in 1 .. Len(pq) + Len(sr) : t[i] = IF i <= Len(pq) THEN pq[i] ELSE sr[i - Len(pq)]
    BY <1>3, <1>4, ConcatProperties
  <2> HIDE DEF t
  <2> QED  BY <1>3, <1>4, <2>1
<1> HIDE DEF t
<1>6. /\ u \in Seq(AppStep) /\ Len(u) = 7
      /\ \A i \in 1 .. 7 : u[i] = IF i <= 6 THEN t[i] ELSE d[i - 6]
  <2>1. /\ u \in Seq(AppStep) /\ Len(u) = Len(t) + Len(d)
        /\ \A i \in 1 .. Len(t) + Len(d) : u[i] = IF i <= Len(t) THEN t[i] ELSE d[i - Len(t)]
    BY <1>1, <1>5, ConcatProperties
  <2> HIDE DEF u
  <2> QED  BY <1>1, <1>5, <2>1
<1> HIDE DEF u
<1> QED  BY <1>1, <1>2, <1>3, <1>4, <1>5, <1>6

LEMMA AsleepShape == AsleepList \in Seq(AppStep) /\ Shape("Running", AsleepList)
<1> DEFINE s == AsleepList
<1>1. /\ s \in Seq(AppStep) /\ Len(s) = 7
      /\ s[1] = "markStopping" /\ s[2] = "Sleeping" /\ s[3] = "stopMark"
      /\ s[4] = "stopTryLock" /\ s[5] = "restore" /\ s[6] = "stopped" /\ s[7] = "drain"
  BY AsleepSteps
<1> HIDE DEF s
<1>2. \A i \in 1 .. 7 : /\ s[i] \in Final => i = 7
                        /\ s[i] = "restore" => i = 5
                        /\ s[i] = "stopped" => i = 6
  BY <1>1 DEF Final
<1>3. ReachedAsleep("Running", s, 6)
  <2>1. s[2] = "Sleeping" /\ 2 \in 0 .. 6 - 1
    BY <1>1
  <2>2. \A k \in 2 + 1 .. 6 - 1 : s[k] \notin AppState
    BY <1>1 DEF AppState
  <2> QED  BY <2>1, <2>2 DEF ReachedAsleep
<1>4. Shape("Running", s)
  BY <1>1, <1>2, <1>3 DEF Shape
<1> QED  BY <1>1, <1>4 DEF s

LEMMA PlainShape ==
  ASSUME TodoInv, todo # <<>>, Head(todo) \notin AppState, app' = app,
         NEW p \in Seq(Plain), Become(p)
  PROVE  TodoInv'
<1>1. Tail(todo) \in Seq(AppStep) /\ Shape(app, Tail(todo))
  BY ShapeTail, HeadTailProperties DEF TodoInv
<1>2. p \in Seq(Free) /\ p \in Seq(AppStep)
  BY PlainIsFree
<1>3. p \o Tail(todo) \in Seq(AppStep) /\ Shape(app, p \o Tail(todo))
  BY <1>1, <1>2, ShapeConcat, ConcatProperties
<1> QED  BY <1>3 DEF TodoInv, Become

\* The exit that clean_quit() puts in front.
LEMMA LeaveShape ==
  ASSUME TodoInv, At("cleanQuit"), app' = app, Become(Leave \o <<"restore", "exited">>)
  PROVE  TodoInv'
<1> DEFINE t == Tail(todo)
           e == <<"restore", "exited">>
           u == e \o t
<1>1. todo # <<>> /\ Head(todo) \notin AppState
  BY DEF At, AppState
<1>2. t \in Seq(AppStep) /\ Shape(app, t)
  BY <1>1, ShapeTail, HeadTailProperties DEF TodoInv
<1>3. e \in Seq(AppStep) /\ Len(e) = 2 /\ e[1] = "restore" /\ e[2] = "exited"
  BY DEF AppStep, MainStep
<1>4. /\ u \in Seq(AppStep) /\ Len(u) = 2 + Len(t) /\ Len(t) \in Nat
      /\ u[1] = "restore" /\ u[2] = "exited"
      /\ \A i \in 3 .. Len(u) : u[i] = t[i - 2] /\ i - 2 \in 1 .. Len(t)
  <2>1. /\ u \in Seq(AppStep) /\ Len(u) = Len(e) + Len(t)
        /\ \A i \in 1 .. Len(e) + Len(t) : u[i] = IF i <= Len(e) THEN e[i] ELSE t[i - Len(e)]
    BY <1>2, <1>3, ConcatProperties
  <2>2. Len(t) \in Nat
    BY <1>2, LenProperties
  <2> HIDE DEF t, e, u
  <2> QED  BY <1>3, <2>1, <2>2
<1> HIDE DEF t, e, u
<1>5. Shape(app, u)
  <2> SUFFICES ASSUME NEW i \in 1 .. Len(u)
               PROVE  /\ u[i] \in Final => i = Len(u)
                      /\ u[i] = "restore" => i < Len(u) /\ u[i + 1] \in {"stopped", "exited"}
                      /\ u[i] = "stopped" => /\ i < Len(u) /\ u[i + 1] = "drain"
                                             /\ ReachedAsleep(app, u, i)
    BY DEF Shape
  <2>1. CASE i <= 2
    BY <1>4, <2>1 DEF Final
  <2>2. CASE i > 2
    <3> DEFINE m == i - 2
    <3>1. /\ m \in 1 .. Len(t) /\ u[i] = t[m]
          /\ m < Len(t) => i < Len(u) /\ u[i + 1] = t[m + 1]
          /\ m = Len(t) => i = Len(u)
      BY <1>4, <2>2
    <3>2. /\ t[m] \in Final => m = Len(t)
          /\ t[m] = "restore" => m < Len(t) /\ t[m + 1] \in {"stopped", "exited"}
          /\ t[m] = "stopped" => m < Len(t) /\ t[m + 1] = "drain" /\ ReachedAsleep(app, t, m)
      BY <1>2, <3>1 DEF Shape
    <3>3. ASSUME ReachedAsleep(app, t, m) PROVE ReachedAsleep(app, u, i)
      <4>1. PICK j \in 0 .. m - 1 : /\ (IF j = 0 THEN app ELSE t[j]) = "Sleeping"
                                    /\ \A k \in j + 1 .. m - 1 : t[k] \notin AppState
        BY <3>3 DEF ReachedAsleep
      <4>2. \A k \in 1 .. m - 1 : u[k + 2] = t[k]
        <5> SUFFICES ASSUME NEW k \in 1 .. m - 1 PROVE u[k + 2] = t[k]
          OBVIOUS
        <5>1. k + 2 \in 3 .. Len(u) /\ (k + 2) - 2 = k
          BY <1>4, <2>2, <3>1
        <5> QED  BY <1>4, <5>1
      <4>3. CASE j = 0
        <5>1. \A k \in 0 + 1 .. i - 1 : u[k] \notin AppState
          <6> SUFFICES ASSUME NEW k \in 1 .. i - 1 PROVE u[k] \notin AppState
            OBVIOUS
          <6>1. CASE k <= 2  BY <1>4, <6>1 DEF AppState
          <6>2. CASE k > 2
            <7>1. k - 2 \in j + 1 .. m - 1 /\ k - 2 \in 1 .. m - 1 /\ (k - 2) + 2 = k
              BY <6>2, <4>3
            <7> QED  BY <4>1, <4>2, <7>1
          <6> QED  BY <6>1, <6>2
        <5> QED  BY <4>1, <4>3, <5>1, <2>2 DEF ReachedAsleep
      <4>4. CASE j # 0
        <5>1. u[j + 2] = "Sleeping" /\ j + 2 \in 0 .. i - 1 /\ j + 2 # 0
          BY <4>1, <4>2, <4>4
        <5>2. \A k \in (j + 2) + 1 .. i - 1 : u[k] \notin AppState
          <6> SUFFICES ASSUME NEW k \in (j + 2) + 1 .. i - 1 PROVE u[k] \notin AppState
            OBVIOUS
          <6>1. k - 2 \in j + 1 .. m - 1 /\ k - 2 \in 1 .. m - 1 /\ (k - 2) + 2 = k
            OBVIOUS
          <6> QED  BY <4>1, <4>2, <6>1
        <5> QED  BY <5>1, <5>2 DEF ReachedAsleep
      <4> QED  BY <4>3, <4>4
    <3> QED  BY <3>1, <3>2, <3>3
  <2> QED  BY <2>1, <2>2
<1>6. Leave \in Seq(Plain) /\ Leave \in Seq(AppStep) /\ Leave \in Seq(Free)
  <2>1. Leave \in Seq(Plain)
    BY DEF Leave, Stop, Plain, Free, AppStep, Final, MainStep, LoopStep, AppState
  <2> QED  BY <2>1, PlainIsFree
<1>7. Leave \o u \in Seq(AppStep) /\ Shape(app, Leave \o u)
  BY <1>4, <1>5, <1>6, ShapeConcat, ConcatProperties
<1>8. todo' = Leave \o u
  <2>1. todo' = (Leave \o e) \o t
    BY DEF Become, e, t
  <2> QED  BY <2>1, <1>2, <1>3, <1>6, ConcatAssociative DEF u
<1> QED  BY <1>7, <1>8 DEF TodoInv

LEMMA TodoInvInit == AppInit => TodoInv
<1> SUFFICES ASSUME AppInit PROVE TodoInv
  OBVIOUS
<1>1. <<"startResize", "discard">> \o CalcSizes \in Seq(Free)
  <2>1. <<"startResize", "discard">> \in Seq(Plain)
    BY DEF Plain, Free, AppStep, Final, MainStep, LoopStep, AppState
  <2>2. <<"startResize", "discard">> \o CalcSizes \in Seq(Plain)
    BY <2>1, LoopLists, ConcatProperties
  <2> QED  BY <2>2, PlainIsFree
<1>2. todo = (<<"startResize", "discard">> \o CalcSizes) \o <<"drain">>
  BY DEF AppInit, Startup
<1>3. Onward(todo, Final \cup {"exited"})
  BY <1>1, <1>2 DEF Onward, Final
<1> QED  BY <1>3, OnwardShape DEF TodoInv

LEMMA TodoInvStep ==
  ASSUME TodoInv, ThreadsTypeOK, [AppNext]_avars
  PROVE  TodoInv'
<1>1. CASE Worker \/ (RunnerCancelled \/ Exited) \/ UNCHANGED avars
  <2>1. todo' = todo /\ app' = app
    BY <1>1
    DEF Worker, RunnerCancelled, Exited, avars, rvars, shared, main, RunnerThread,
        RunnerStart, RunnerTest, RunnerIdle, RunnerAcquire, RunnerWoken, RunnerEntry,
        RunnerCollect, RunnerTake, RunnerCollected, RunnerCoresChanged, RunnerThrows,
        RunnerFault, RunnerRaise, RunnerCheck, RunnerDraw, RunnerEmit
  <2> QED  BY <2>1 DEF TodoInv
<1>2. CASE Called
  <2>1. MainStep \subseteq AppStep /\ MainCall
    BY <1>2 DEF AppStep, Called
  <2>2. /\ todo # <<>>
        /\ \/ /\ Head(todo) \notin AppState /\ app' = app
              /\ \E s \in Seq(CallStep) : Become(s)
           \/ /\ At("cleanQuit") /\ app' = app
              /\ Become(Leave \o <<"restore", "exited">>)
           \/ /\ Head(todo) \in AppState /\ app' = Head(todo)
              /\ Return
    BY <2>1, CallTodo DEF TodoInv
  <2>3. CASE Head(todo) \in AppState /\ app' = Head(todo) /\ Return
    BY <2>2, <2>3, ShapeTail, HeadTailProperties DEF TodoInv, Return
  <2>4. CASE /\ Head(todo) \notin AppState /\ app' = app
             /\ \E s \in Seq(CallStep) : Become(s)
    BY <2>2, <2>4, PlainShape, PlainIsFree
  <2> QED  BY <2>2, <2>3, <2>4, LeaveShape
<1>3. CASE Loop \/ Outside
  <2>1. /\ app' = app
        /\ \/ todo' = todo
           \/ /\ todo # <<>> /\ Head(todo) \notin Final \cup AppState
              /\ \E p \in Seq(Plain) : Become(p)
           \/ Onward(todo', Final \cup {"exited"})
           \/ app = "Running" /\ todo' = AsleepList
    BY <1>3, LoopTodo DEF TodoInv, ThreadsTypeOK
  <2>2. CASE Onward(todo', Final \cup {"exited"})  BY <2>1, <2>2, OnwardShape DEF TodoInv
  <2>3. CASE app = "Running" /\ todo' = AsleepList
    BY <2>1, <2>3, AsleepShape DEF TodoInv
  <2>4. CASE todo # <<>> /\ Head(todo) \notin Final \cup AppState
             /\ \E p \in Seq(Plain) : Become(p)
    BY <2>1, <2>4, PlainShape
  <2> QED  BY <2>1, <2>2, <2>3, <2>4 DEF TodoInv
<1> QED  BY <1>1, <1>2, <1>3 DEF AppNext

---------------------------------------------------------------------------
(* Types.                                                                  *)

LEMMA LoopTypes ==
  ASSUME ThreadsTypeOK, ev \in Event \cup {"none"}, inputs \in 0 .. MaxInputs,
         Loop \/ Outside
  PROVE  /\ ThreadsTypeOK'
         /\ ev' \in Event \cup {"none"}
         /\ inputs' \in 0 .. MaxInputs
<1>1. ASSUME UNCHANGED threads, queue' \in Seq(Event), Len(queue') <= QueueLength,
             wake' \in BOOLEAN, tty' \in {"app", "shell"}
      PROVE  ThreadsTypeOK'
  BY <1>1 DEF ThreadsTypeOK, threads
<1>2. ASSUME UNCHANGED <<threads, queue, wake, tty>> PROVE ThreadsTypeOK'
  BY <1>2 DEF ThreadsTypeOK, threads
<1>3. queue \in Seq(Event) /\ Len(queue) <= QueueLength /\ Len(queue) \in Nat
      /\ wake \in BOOLEAN /\ tty \in {"app", "shell"} /\ faults \in Nat
  BY LenProperties DEF ThreadsTypeOK
<1>4. Input \/ NoInput => inputs' \in 0 .. MaxInputs
  <2>1. NoInput => inputs' \in 0 .. MaxInputs
    BY DEF NoInput
  <2>2. Input => inputs' \in 0 .. MaxInputs
    BY <1>3, InputsAssumption DEF Input
  <2> QED  BY <2>1, <2>2
<1>5. CASE Discard
  <2>1. queue' \in Seq(Event) /\ Len(queue') <= QueueLength
    BY <1>5, BoundsAssumption, EmptySeq DEF Discard
  <2> QED  BY <1>1, <1>3, <1>5, <2>1 DEF Discard
<1>6. CASE Drain
  <2>1. queue # <<>> /\ queue' = Tail(queue) /\ ev' = Head(queue)
    BY <1>6 DEF Drain
  <2>2. /\ queue' \in Seq(Event) /\ Len(queue') = Len(queue) - 1 /\ ev' \in Event
    BY <1>3, <2>1, HeadTailProperties
  <2>3. Len(queue') <= QueueLength
    BY <1>3, <2>2, BoundsAssumption
  <2> QED  BY <1>1, <1>3, <1>6, <2>2, <2>3 DEF Drain
<1>7. CASE TermInit  BY <1>1, <1>3, <1>7 DEF TermInit
<1>8. CASE MarkStopping
  <2>1. tag' \in RunnerState
    BY <1>8 DEF MarkStopping, ThreadsTypeOK, RunnerState
  <2> QED  BY <1>8, <2>1 DEF MarkStopping, ThreadsTypeOK
<1>9. CASE Dispatch \/ Drained \/ ClockCheck \/ TickCheck \/ UnlockIfIdle
  BY <1>2, <1>9 DEF Dispatch, Drained, ClockCheck, TickCheck, UnlockIfIdle
<1>10. CASE StartResize \/ Upkeep \/ PollKey
  <2>1. UNCHANGED <<threads, queue, wake, tty, ev>> /\ (Input \/ NoInput)
    BY <1>10 DEF StartResize, Upkeep, PollKey
  <2> QED  BY <1>2, <1>4, <2>1
<1>11. CASE PollWoken \/ PollTimeout \/ Fit \/ TooSmall
  <2>1. UNCHANGED <<threads, queue, tty, ev, inputs>> /\ wake' \in BOOLEAN
    BY <1>3, <1>11 DEF PollWoken, PollTimeout, Fit, TooSmall
  <2> QED  BY <1>1, <1>3, <2>1
<1>12. CASE PostQuit \/ TooSmallQuit \/ Signal \/ Continue
  <2>1. /\ UNCHANGED <<threads, tty, ev>> /\ wake' = TRUE
        /\ Input \/ UNCHANGED inputs
        /\ \E e \in Event : Post(e)
    BY <1>12, SignalsAssumption DEF PostQuit, TooSmallQuit, Signal, Continue, Event
  <2>2. queue' \in Seq(Event) /\ Len(queue') <= QueueLength
    BY <1>3, <2>1, PostEvents
  <2> QED  BY <1>1, <1>3, <1>4, <2>1, <2>2
<1> QED
  BY <1>5, <1>6, <1>7, <1>8, <1>9, <1>10, <1>11, <1>12 DEF Loop, Outside

AppInv == AppTypeOK /\ Shape(app, todo)

LEMMA AppInvInit == AppInit => AppInv
<1> SUFFICES ASSUME AppInit PROVE AppInv
  OBVIOUS
<1>1. ThreadsTypeOK /\ TodoInv
  BY TodoInvInit, ThreadsTypeInit DEF AppInit
<1>2. inputs \in 0 .. MaxInputs /\ ev \in Event \cup {"none"}
  BY InputsAssumption DEF AppInit
<1> QED  BY <1>1, <1>2 DEF AppInv, AppTypeOK, TodoInv, AppStep

LEMMA AppInvStep ==
  ASSUME AppInv, [AppNext]_avars
  PROVE  AppInv'
<1>1. /\ ThreadsTypeOK /\ TodoInv
      /\ ev \in Event \cup {"none"} /\ inputs \in 0 .. MaxInputs
  BY DEF AppInv, AppTypeOK, TodoInv, AppStep
<1>2. TodoInv'
  BY <1>1, TodoInvStep
<1>3. ThreadsTypeOK' /\ ev' \in Event \cup {"none"} /\ inputs' \in 0 .. MaxInputs
  <2>1. CASE Worker  BY <1>1, <2>1, TypeThread DEF Worker
  <2>2. CASE Called  BY <1>1, <2>2, TypeCall DEF Called
  <2>3. CASE (RunnerCancelled \/ Exited) /\ UNCHANGED <<ev, inputs>>
    BY <1>1, <2>3, TypeCancelled DEF Exited, rvars, ThreadsTypeOK
  <2>4. CASE Loop \/ Outside  BY <1>1, <2>4, LoopTypes
  <2>5. CASE UNCHANGED avars
    BY <1>1, <2>5 DEF avars, rvars, ThreadsTypeOK
  <2> QED  BY <2>1, <2>2, <2>3, <2>4, <2>5 DEF AppNext
<1> QED  BY <1>2, <1>3 DEF AppInv, AppTypeOK, TodoInv, AppStep

LEMMA InductiveAppInv == AppSpec => []AppInv
<1> QED  BY AppInvInit, AppInvStep, PTL DEF AppSpec

(* Every variable keeps its type, whatever the handlers, the keys, the     *)
(* runner and the terminal do: the queue never grows past its length, and  *)
(* the list of steps holds steps of the calls and of the loop only.        *)
THEOREM AppTypesCorrect == AppSpec => []AppTypeOK
<1>1. AppInv => AppTypeOK
  BY DEF AppInv
<1> QED  BY <1>1, InductiveAppInv, PTL

---------------------------------------------------------------------------
(* No wake-up is lost.                                                     *)

WillDrain(s) == \E i \in 1 .. Len(s) : s[i] \in Draining

Raising == rpc \in {"raiseRetry", "raiseGoOn"}

WakeInv == queue # <<>> => wake \/ Raising \/ WillDrain(todo)

LEMMA DrainsFirst ==
  ASSUME NEW s \in Seq(AppStep), s # <<>>, Head(s) \in Draining
  PROVE  WillDrain(s)
<1>1. Len(s) \in Nat \ {0} /\ Head(s) = s[1]
  BY HeadTailProperties, EmptySeq
<1> QED  BY <1>1 DEF WillDrain

\* Steps put in front of those that drain.
LEMMA DrainsBehind ==
  ASSUME NEW p \in Seq(AppStep), NEW t \in Seq(AppStep), WillDrain(t)
  PROVE  WillDrain(p \o t)
<1> DEFINE u == p \o t
<1>1. /\ Len(u) = Len(p) + Len(t)
      /\ \A i \in 1 .. Len(p) + Len(t) : u[i] = IF i <= Len(p) THEN p[i] ELSE t[i - Len(p)]
      /\ Len(p) \in Nat /\ Len(t) \in Nat
  BY ConcatProperties, LenProperties
<1> HIDE DEF u
<1>2. PICK i \in 1 .. Len(t) : t[i] \in Draining
  BY DEF WillDrain
<1>3. Len(p) + i \in 1 .. Len(u) /\ u[Len(p) + i] = t[i]
  BY <1>1
<1>4. WillDrain(u)
  BY <1>2, <1>3 DEF WillDrain
<1> QED  BY <1>4 DEF u

\* Steps with draining ones behind them.
LEMMA DrainsLast ==
  ASSUME NEW p \in Seq(AppStep), NEW x \in AppStep \cap Draining
  PROVE  WillDrain(p \o <<x>>)
<1>1. <<x>> \in Seq(AppStep) /\ WillDrain(<<x>>)
  BY DEF WillDrain
<1> QED  BY <1>1, DrainsBehind

LEMMA DrainsOn ==
  ASSUME NEW p \in Seq(AppStep), todo \in Seq(AppStep), todo # <<>>,
         Head(todo) \notin Draining, WillDrain(todo), Become(p)
  PROVE  WillDrain(todo')
<1>1. /\ Tail(todo) \in Seq(AppStep) /\ Len(Tail(todo)) = Len(todo) - 1
      /\ \A i \in 1 .. Len(Tail(todo)) : Tail(todo)[i] = todo[i + 1]
      /\ Head(todo) = todo[1] /\ Len(todo) \in Nat
  BY HeadTailProperties, LenProperties
<1>2. PICK i \in 1 .. Len(todo) : todo[i] \in Draining
  BY DEF WillDrain
<1>3. i - 1 \in 1 .. Len(Tail(todo)) /\ (i - 1) + 1 = i
  BY <1>1, <1>2
<1>4. WillDrain(Tail(todo))
  BY <1>1, <1>2, <1>3 DEF WillDrain
<1> QED  BY <1>1, <1>4, DrainsBehind DEF Become

\* The last step of the loop stands alone.
LEMMA FinalDrainsNot ==
  ASSUME TodoInv, todo # <<>>, Head(todo) \in Final \ Draining
  PROVE  ~WillDrain(todo)
<1>1. Len(todo) \in Nat \ {0} /\ Head(todo) = todo[1]
  BY HeadTailProperties, EmptySeq, LenProperties DEF TodoInv
<1>2. 1 \in 1 .. Len(todo)
  BY <1>1
<1>3. Len(todo) = 1
  BY <1>1, <1>2 DEF TodoInv, Shape
<1> QED  BY <1>1, <1>3 DEF WillDrain

LEMMA WakeThread ==
  ASSUME WakeInv, RunnerThread, todo' = todo
  PROVE  WakeInv'
<1> USE DEF WakeInv, Raising, shared, main
<1>1. CASE RunnerStart  BY <1>1 DEF RunnerStart
<1>2. CASE RunnerTest  BY <1>2 DEF RunnerTest
<1>3. CASE RunnerIdle  BY <1>3 DEF RunnerIdle
<1>4. CASE RunnerAcquire  BY <1>4 DEF RunnerAcquire
<1>5. CASE RunnerWoken  BY <1>5 DEF RunnerWoken
<1>6. CASE RunnerEntry  BY <1>6 DEF RunnerEntry
<1>7. CASE RunnerCollect  BY <1>7 DEF RunnerCollect
<1>8. CASE RunnerTake  BY <1>8 DEF RunnerTake
<1>9. CASE RunnerCollected  BY <1>9 DEF RunnerCollected
<1>10. CASE RunnerCoresChanged \/ RunnerThrows
  BY <1>10 DEF RunnerCoresChanged, RunnerThrows, RunnerFault
<1>11. CASE RunnerRaise  BY <1>11 DEF RunnerRaise
<1>12. CASE RunnerCheck  BY <1>12 DEF RunnerCheck
<1>13. CASE RunnerDraw  BY <1>13 DEF RunnerDraw
<1>14. CASE RunnerEmit  BY <1>14 DEF RunnerEmit
<1> QED
  BY <1>1, <1>2, <1>3, <1>4, <1>5, <1>6, <1>7, <1>8, <1>9, <1>10, <1>11, <1>12,
     <1>13, <1>14 DEF RunnerThread

\* A call touches neither the queue nor the pending signal.
LEMMA CallsLeaveEvents ==
  ASSUME MainCall
  PROVE  queue' = queue /\ wake' = wake /\ (rpc' = rpc \/ rpc \in CancellationPoint)
<1> USE DEF shared, runner
<1>1. CASE \/ IfActive \/ AwaitCollected \/ AwaitDrawn \/ AwaitStarted \/ RunGuard
           \/ RunWriteDirect \/ Unlock \/ IdleCheck \/ IdleBlock \/ StopTryLock
           \/ CleanQuitJoin
  BY <1>1
  DEF IfActive, AwaitCollected, AwaitDrawn, AwaitStarted, RunGuard, RunWriteDirect,
      Unlock, IdleCheck, IdleBlock, StopTryLock, CleanQuitJoin
<1>2. CASE \/ RunRestart \/ RunRecreate \/ RunConfigure \/ Trigger \/ UnlockWrite
           \/ IdleLoad \/ StopMark \/ StopVerdict \/ StopReset \/ CleanQuit
  BY <1>2
  DEF RunRestart, RunRecreate, RunConfigure, Trigger, UnlockWrite, IdleLoad, StopMark,
      StopVerdict, StopReset, CleanQuit
<1>3. CASE Restore \/ MarkAll \/ MarkBox \/ StoreApp
  BY <1>3 DEF Restore, MarkAll, MarkBox, StoreApp
<1> QED  BY <1>1, <1>2, <1>3 DEF MainCall

LEMMA WakeCall ==
  ASSUME AppInv, WakeInv, MainCall
  PROVE  WakeInv'
<1>1. todo \in Seq(AppStep) /\ MainStep \subseteq AppStep
  BY DEF AppInv, AppTypeOK, AppStep
<1>2. /\ todo # <<>>
      /\ Head(todo) \in MainStep \ {"stopped", "exited"}
      /\ \/ \E s \in Seq(CallStep) : Become(s)
         \/ Become(Leave \o <<"restore", "exited">>)
         \/ Return
  BY <1>1, CallTodo
<1>3. Head(todo) \notin Draining
  BY <1>2 DEF MainStep, Draining, AppState
<1>4. \E p \in Seq(AppStep) : Become(p)
  <2>1. Leave \o <<"restore", "exited">> \in Seq(AppStep)
    BY DEF Leave, Stop, AppStep, MainStep
  <2>2. <<>> \in Seq(AppStep) /\ (Return => Become(<<>>))
    BY <1>1, <1>2, ReturnIsBecome, EmptySeq
  <2> QED  BY <1>2, <2>1, <2>2, PlainIsFree
<1>5. WillDrain(todo) => WillDrain(todo')
  BY <1>1, <1>2, <1>3, <1>4, DrainsOn
<1> QED  BY <1>5, CallsLeaveEvents DEF WakeInv, Raising, CancellationPoint

LEMMA WakeLoop ==
  ASSUME AppInv, WakeInv, Loop \/ Outside
  PROVE  WakeInv'
<1>1. TodoInv /\ todo \in Seq(AppStep) /\ app \in AppState
  BY DEF AppInv, AppTypeOK, TodoInv, AppStep, ThreadsTypeOK
<1> USE DEF At
<1>2. CASE Discard  BY <1>2 DEF Discard, WakeInv
<1>3. CASE Drain \/ Dispatch \/ PollWoken \/ PollTimeout
  <2>1. CASE Onward(todo', {"drain", "dispatch", "exited"})
    <3>1. {"drain", "dispatch", "exited"} \subseteq AppStep \cap Draining
      BY DEF AppStep, MainStep, LoopStep, Draining
    <3>2. PICK p \in Seq(Free), x \in {"drain", "dispatch", "exited"} : todo' = p \o <<x>>
      BY <2>1 DEF Onward
    <3>3. WillDrain(todo')
      BY <3>1, <3>2, PlainIsFree, DrainsLast
    <3> QED  BY <3>3 DEF WakeInv
  <2>2. CASE todo' = AsleepList
    <3>1. WillDrain(AsleepList)
      BY AsleepSteps DEF WillDrain, Draining
    <3> QED  BY <2>2, <3>1 DEF WakeInv
  <2> QED  BY <1>1, <1>3, <2>1, <2>2, LoopDrains DEF TodoInv
<1>4. CASE Drained
  BY <1>4 DEF Drained, WakeInv
<1>5. CASE Upkeep \/ ClockCheck \/ TickCheck \/ PollKey
  <2>1. /\ At("upkeep") \/ At("clockCheck") \/ At("tickCheck") \/ At("poll")
        /\ queue' = queue /\ wake' = wake /\ rpc' = rpc
    BY <1>5 DEF Upkeep, ClockCheck, TickCheck, PollKey, threads
  <2>2. ~WillDrain(todo)
    BY <1>1, <2>1, FinalDrainsNot DEF Final, Draining
  <2> QED  BY <2>1, <2>2 DEF WakeInv, Raising
<1>6. CASE StartResize \/ TermInit \/ MarkStopping \/ UnlockIfIdle
  <2>1. /\ \/ At("startResize") \/ At("termInit") \/ At("markStopping") \/ At("unlockIfIdle")
        /\ queue' = queue /\ wake' = wake /\ rpc' = rpc
        /\ Return \/ Become(<<>>) \/ Become(TermResize) \/ Become(<<"unlock">>)
    BY <1>6 DEF StartResize, TermInit, MarkStopping, UnlockIfIdle, threads
  <2>2. \E p \in Seq(AppStep) : Become(p)
    <3>1. <<"unlock">> \in Seq(AppStep) /\ TermResize \in Seq(AppStep) /\ <<>> \in Seq(AppStep)
      BY LoopLists, PlainIsFree DEF AppStep, MainStep
    <3> QED  BY <1>1, <2>1, <3>1, ReturnIsBecome
  <2>3. WillDrain(todo) => WillDrain(todo')
    BY <1>1, <2>1, <2>2, DrainsOn DEF Draining
  <2> QED  BY <2>1, <2>3 DEF WakeInv, Raising
<1>7. CASE PostQuit \/ Fit \/ TooSmallQuit \/ Signal \/ Continue
  BY <1>7 DEF PostQuit, Fit, TooSmallQuit, Signal, Continue, WakeInv
<1>8. CASE TooSmall
  <2>1. At("fit") /\ todo' = todo
    BY <1>8 DEF TooSmall
  <2> QED  BY <1>1, <2>1, DrainsFirst DEF WakeInv, Draining
<1> QED
  BY <1>2, <1>3, <1>4, <1>5, <1>6, <1>7, <1>8 DEF Loop, Outside

LEMMA WakeStep ==
  ASSUME AppInv, WakeInv, [AppNext]_avars
  PROVE  WakeInv'
<1>1. CASE Worker
  <2>1. RunnerThread /\ todo' = todo
    BY <1>1, TypeThread DEF Worker, AppInv, AppTypeOK
  <2> QED  BY <2>1, WakeThread
<1>2. CASE Called  BY <1>2, WakeCall DEF Called
<1>3. CASE RunnerCancelled
  BY <1>3 DEF RunnerCancelled, CancellationPoint, WakeInv, Raising, shared, main
<1>4. CASE Exited \/ UNCHANGED avars
  BY <1>4 DEF Exited, avars, rvars, WakeInv, Raising
<1>5. CASE Loop \/ Outside  BY <1>5, WakeLoop
<1> QED  BY <1>1, <1>2, <1>3, <1>4, <1>5 DEF AppNext

(* The main thread never settles down to wait for input over an event in   *)
(* the queue without the SIGUSR1 that wakes it: handlers set it after they *)
(* push, the runner is on its way to, and whoever eats it while the        *)
(* terminal is too small goes through the queue before the next wait.      *)
THEOREM NoWakeupLost == AppSpec => []NoLostWakeup
<1>1. AppInit => WakeInv
  BY DEF AppInit, ThreadsInit, WakeInv
<1>2. AppInv /\ WakeInv => NoLostWakeup
  <2> SUFFICES ASSUME AppInv, WakeInv, At("poll"), queue # <<>>
               PROVE  wake \/ rpc \in {"raiseRetry", "raiseGoOn"}
    BY DEF NoLostWakeup
  <2>1. ~WillDrain(todo)
    BY FinalDrainsNot DEF AppInv, AppTypeOK, TodoInv, AppStep, At, Final, Draining
  <2> QED  BY <2>1 DEF WakeInv, Raising
<1>3. AppInv /\ WakeInv /\ [AppNext]_avars => WakeInv'
  BY WakeStep
<1> QED  BY <1>1, <1>2, <1>3, InductiveAppInv, PTL DEF AppSpec

---------------------------------------------------------------------------
(* btop reads keys in its own terminal mode.                               *)

\* The queue has room for the Resume that SIGCONT posts: one that finds it
\* full is dropped, and the loop goes on in the mode of the shell.
RoomToResume == At("stopped") => Len(queue) < QueueLength

ResumePosted == \E i \in 1 .. Len(queue) : queue[i] = "Resume"

\* After Term::restore the process is gone, stopped, or asleep with a Resume
\* on its way to Term::init.
TtyInv ==
  tty = "shell" =>
    \/ At("exited")
    \/ /\ app = "Sleeping"
       /\ \/ At("stopped") \/ At("termInit")
          \/ ResumePosted /\ (At("drain") \/ (At("dispatch") /\ ev # "Resume"))

LEMMA PostKeepsResume ==
  ASSUME queue \in Seq(Event), NEW e \in Event, Post(e), ResumePosted
  PROVE  ResumePosted'
<1>1. PICK i \in 1 .. Len(queue) : queue[i] = "Resume"
  BY DEF ResumePosted
<1>2. CASE queue' = queue
  BY <1>2 DEF ResumePosted
<1>3. CASE queue' = Append(queue, e)
  <2>1. Len(queue') = Len(queue) + 1 /\ queue'[i] = queue[i] /\ Len(queue) \in Nat
    BY <1>3, AppendProperties, LenProperties
  <2>2. i \in 1 .. Len(queue')
    BY <2>1
  <2> QED  BY <1>1, <2>1, <2>2 DEF ResumePosted
<1> QED  BY <1>2, <1>3 DEF Post

LEMMA PostResume ==
  ASSUME queue \in Seq(Event), Len(queue) < QueueLength, Post("Resume")
  PROVE  ResumePosted'
<1>1. queue' = Append(queue, "Resume") /\ "Resume" \in Event
  BY DEF Post, Event
<1>2. Len(queue') = Len(queue) + 1 /\ queue'[Len(queue) + 1] = "Resume" /\ Len(queue) \in Nat
  BY <1>1, AppendProperties, LenProperties
<1>3. Len(queue) + 1 \in 1 .. Len(queue')
  BY <1>2
<1> QED  BY <1>2, <1>3 DEF ResumePosted

LEMMA FirstIsHead ==
  ASSUME NEW S, NEW s \in Seq(S), 1 \in 1 .. Len(s)
  PROVE  s # <<>> /\ Head(s) = s[1]
<1>1. s # <<>>
  OBVIOUS
<1> QED  BY <1>1

LEMMA HeadOfConcat ==
  ASSUME NEW S, NEW s \in Seq(S), NEW t \in Seq(S), s # <<>>
  PROVE  s \o t # <<>> /\ Head(s \o t) = Head(s)
<1> DEFINE u == s \o t
<1>1. /\ u \in Seq(S) /\ Len(u) = Len(s) + Len(t)
      /\ \A i \in 1 .. Len(s) + Len(t) : u[i] = IF i <= Len(s) THEN s[i] ELSE t[i - Len(s)]
      /\ Len(s) \in Nat \ {0} /\ Len(t) \in Nat
  BY ConcatProperties, LenProperties, EmptySeq
<1> HIDE DEF u
<1>2. u # <<>> /\ u[1] = s[1]
  BY <1>1
<1>3. Head(u) = u[1] /\ Head(s) = s[1]
  BY <1>1, <1>2
<1> QED  BY <1>2, <1>3 DEF u

\* The runner posts events, and leaves the rest to the main thread.
LEMMA TtyThread ==
  ASSUME AppInv, TtyInv, RunnerThread, ev' = ev
  PROVE  TtyInv'
<1>1. queue \in Seq(Event)
  BY DEF AppInv, AppTypeOK, ThreadsTypeOK
<1>2. /\ tty' = tty /\ app' = app /\ todo' = todo
      /\ \/ queue' = queue
         \/ \E e \in Event : Post(e)
  <2> USE DEF shared, main
  <2>1. CASE RunnerCoresChanged \/ RunnerThrows
    BY <2>1 DEF RunnerCoresChanged, RunnerThrows, RunnerFault, Event
  <2>2. CASE \/ RunnerStart \/ RunnerTest \/ RunnerIdle \/ RunnerAcquire \/ RunnerWoken
             \/ RunnerEntry \/ RunnerCollect \/ RunnerTake
    BY <2>2 DEF RunnerStart, RunnerTest, RunnerIdle, RunnerAcquire, RunnerWoken,
                RunnerEntry, RunnerCollect, RunnerTake
  <2>3. CASE \/ RunnerCollected \/ RunnerRaise \/ RunnerCheck \/ RunnerDraw \/ RunnerEmit
    BY <2>3 DEF RunnerCollected, RunnerRaise, RunnerCheck, RunnerDraw, RunnerEmit
  <2> QED  BY <2>1, <2>2, <2>3 DEF RunnerThread
<1>3. ResumePosted => ResumePosted'
  BY <1>1, <1>2, PostKeepsResume DEF ResumePosted
<1> QED  BY <1>2, <1>3 DEF TtyInv, At

\* Only Restore leaves btop's mode, and only for an exit or a sleep.
LEMMA TtyCall ==
  ASSUME AppInv, TtyInv, MainCall
  PROVE  TtyInv'
<1>1. /\ todo \in Seq(AppStep) /\ MainStep \subseteq AppStep /\ Shape(app, todo)
      /\ tty \in {"app", "shell"}
  BY DEF AppInv, AppTypeOK, AppStep, ThreadsTypeOK
<1>2. todo # <<>> /\ Head(todo) \in MainStep \ {"stopped", "exited"}
  BY <1>1, CallTodo
<1>3. tty # "shell"
  BY <1>2 DEF TtyInv, At, MainStep, AppState
<1>4. CASE Restore
  <2>1. At("restore") /\ app' = app /\ todo' = Tail(todo)
    BY <1>4 DEF Restore, shared, Return
  <2>2. /\ Tail(todo) \in Seq(AppStep) /\ Len(Tail(todo)) = Len(todo) - 1
        /\ \A i \in 1 .. Len(Tail(todo)) : Tail(todo)[i] = todo[i + 1]
        /\ Len(todo) \in Nat \ {0} /\ todo[1] = "restore"
    BY <1>1, <1>2, <2>1, HeadTailProperties, LenProperties, EmptySeq DEF At
  <2>3. 1 < Len(todo) /\ todo[2] \in {"stopped", "exited"}
    <3>1. 1 \in 1 .. Len(todo)
      BY <2>2
    <3>2. 1 < Len(todo) /\ todo[1 + 1] \in {"stopped", "exited"}
      BY <1>1, <2>2, <3>1 DEF Shape
    <3> QED  BY <3>2
  <2>4. todo' # <<>> /\ Head(todo') = todo[2]
    <3>1. 1 \in 1 .. Len(Tail(todo)) /\ Tail(todo)[1] = todo[2]
      BY <2>2, <2>3
    <3> QED  BY <2>1, <2>2, <3>1, FirstIsHead
  <2>5. CASE todo[2] = "exited"
    BY <2>4, <2>5 DEF TtyInv, At
  <2>6. CASE todo[2] = "stopped"
    <3>1. ReachedAsleep(app, todo, 2)
      <4>1. 2 \in 1 .. Len(todo)
        BY <2>2, <2>3
      <4> QED  BY <1>1, <2>6, <4>1 DEF Shape
    <3>2. PICK j \in 0 .. 1 : (IF j = 0 THEN app ELSE todo[j]) = "Sleeping"
      BY <3>1 DEF ReachedAsleep
    <3>3. app = "Sleeping"
      BY <2>2, <3>2
    <3> QED  BY <2>1, <2>4, <2>6, <3>3 DEF TtyInv, At
  <2> QED  BY <2>3, <2>5, <2>6
<1>5. CASE ~Restore
  <2> USE DEF shared, runner
  <2>1. tty' = tty
    <3>1. CASE \/ IfActive \/ AwaitCollected \/ AwaitDrawn \/ AwaitStarted \/ RunGuard
               \/ RunWriteDirect \/ Unlock \/ IdleCheck \/ IdleBlock \/ StopTryLock
               \/ CleanQuitJoin
      BY <3>1
      DEF IfActive, AwaitCollected, AwaitDrawn, AwaitStarted, RunGuard, RunWriteDirect,
          Unlock, IdleCheck, IdleBlock, StopTryLock, CleanQuitJoin
    <3>2. CASE \/ RunRestart \/ RunRecreate \/ RunConfigure \/ Trigger \/ UnlockWrite
               \/ IdleLoad \/ StopMark \/ StopVerdict \/ StopReset \/ CleanQuit
      BY <3>2
      DEF RunRestart, RunRecreate, RunConfigure, Trigger, UnlockWrite, IdleLoad, StopMark,
          StopVerdict, StopReset, CleanQuit
    <3>3. CASE MarkAll \/ MarkBox \/ StoreApp
      BY <3>3 DEF MarkAll, MarkBox, StoreApp
    <3> QED  BY <1>5, <3>1, <3>2, <3>3 DEF MainCall
  <2> QED  BY <1>3, <2>1 DEF TtyInv
<1> QED  BY <1>4, <1>5

LEMMA TtyLoop ==
  ASSUME AppInv, TtyInv, RoomToResume, Loop \/ Outside
  PROVE  TtyInv'
<1>1. /\ TodoInv /\ todo \in Seq(AppStep) /\ Shape(app, todo) /\ app \in AppState
      /\ queue \in Seq(Event)
  BY DEF AppInv, AppTypeOK, TodoInv, AppStep, ThreadsTypeOK
<1>2. app' = app
  BY <1>1, LoopTodo
<1>3. CASE tty = "app" /\ ~TermInit
  <2>1. tty' = tty
    BY <1>3
    DEF Loop, Outside, StartResize, Discard, Drain, Dispatch, MarkStopping, Drained,
        Upkeep, ClockCheck, TickCheck, PollWoken, PollTimeout, PollKey, UnlockIfIdle,
        PostQuit, Fit, TooSmall, TooSmallQuit, Signal, Continue, threads
  <2> QED  BY <1>3, <2>1 DEF TtyInv
<1>4. CASE TermInit  BY <1>4 DEF TermInit, TtyInv
<1>5. CASE tty # "app" /\ ~TermInit
  <2>1. tty = "shell"
    BY <1>5 DEF AppInv, AppTypeOK, ThreadsTypeOK
  <2>2. \/ At("exited")
        \/ /\ app = "Sleeping"
           /\ \/ At("stopped") \/ At("termInit")
              \/ ResumePosted /\ (At("drain") \/ (At("dispatch") /\ ev # "Resume"))
    BY <2>1 DEF TtyInv
  <2>3. \/ Drain \/ Dispatch \/ Signal \/ Continue
        \/ At("drain") /\ queue = <<>>
    BY <1>5, <2>2
    DEF At, Loop, Outside, StartResize, Discard, MarkStopping, Drained, Upkeep,
        ClockCheck, TickCheck, PollWoken, PollTimeout, PollKey, UnlockIfIdle, PostQuit,
        Fit, TooSmall, TooSmallQuit
  <2>4. ASSUME At("drain") PROVE ResumePosted /\ app = "Sleeping" /\ queue # <<>>
    BY <2>2, <2>4, EmptySeq DEF At, ResumePosted
  <2>5. CASE Drain
    <3>1. At("drain") /\ queue # <<>> /\ ev' = Head(queue) /\ queue' = Tail(queue)
      BY <2>5 DEF Drain
    <3>2. PICK i \in 1 .. Len(queue) : queue[i] = "Resume"
      BY <2>4, <3>1 DEF ResumePosted
    <3>3. /\ Len(Tail(queue)) = Len(queue) - 1 /\ Len(queue) \in Nat
          /\ \A k \in 1 .. Len(Tail(queue)) : Tail(queue)[k] = queue[k + 1]
          /\ Head(queue) = queue[1]
      BY <1>1, <3>1, HeadTailProperties, LenProperties
    <3>4. Tail(todo) = <<>>
      BY <1>1, <3>1, FinalIsAlone DEF At, Final
    <3>5. CASE ev' = "Resume"
      <4>1. todo' = ((<<"termInit">> \o TermResize) \o <<"dispatch">>) \o Tail(todo)
        BY <2>5, <3>5 DEF Drain, Become
      <4>2. todo' # <<>> /\ Head(todo') = "termInit"
        <5>1. <<"termInit">> \in Seq(AppStep) /\ TermResize \in Seq(AppStep)
          BY LoopLists, PlainIsFree DEF AppStep, LoopStep
        <5>2. <<"dispatch">> \in Seq(AppStep) /\ <<>> \in Seq(AppStep)
          BY <3>4 DEF AppStep, LoopStep
        <5>3. <<"termInit">> # <<>> /\ Head(<<"termInit">>) = "termInit"
          OBVIOUS
        <5> DEFINE r == <<"termInit">> \o TermResize
        <5>4. r \in Seq(AppStep) /\ r # <<>> /\ Head(r) = "termInit"
          BY <5>1, <5>3, HeadOfConcat, ConcatProperties
        <5> HIDE DEF r
        <5>5. /\ r \o <<"dispatch">> \in Seq(AppStep)
              /\ r \o <<"dispatch">> # <<>> /\ Head(r \o <<"dispatch">>) = "termInit"
          BY <5>2, <5>4, HeadOfConcat, ConcatProperties
        <5>6. todo' = r \o <<"dispatch">>
          BY <3>4, <4>1, <5>5, ConcatEmptySeq DEF r
        <5> QED  BY <5>5, <5>6
      <4> QED  BY <1>2, <2>4, <3>1, <4>2 DEF TtyInv, At
    <3>6. CASE ev' # "Resume"
      <4>1. todo' = (<<>> \o <<"dispatch">>) \o Tail(todo)
        BY <2>5, <3>6 DEF Drain, Become
      <4>2. todo' # <<>> /\ Head(todo') = "dispatch"
        BY <3>4, <4>1
      <4>3. i - 1 \in 1 .. Len(queue') /\ (i - 1) + 1 = i
        BY <3>1, <3>2, <3>3, <3>6
      <4>4. queue'[i - 1] = "Resume"
        BY <3>1, <3>2, <3>3, <4>3
      <4>5. ResumePosted'
        BY <4>3, <4>4 DEF ResumePosted
      <4> QED  BY <1>2, <2>4, <3>1, <3>6, <4>2, <4>5 DEF TtyInv, At
    <3> QED  BY <3>5, <3>6
  <2>6. CASE Dispatch
    <3>1. At("dispatch") /\ app = "Sleeping" /\ ResumePosted /\ ev # "Resume" /\ queue' = queue
      BY <2>2, <2>6 DEF Dispatch, At
    <3>2. OnEvent(app, ev) = "Sleeping"
      BY <3>1 DEF OnEvent
    <3>3. TransitionTo(app, OnEvent(app, ev)) = <<>>
      BY <3>1, <3>2 DEF TransitionTo
    <3>4. todo' = (<<>> \o <<"drain">>) \o Tail(todo)
      BY <2>6, <3>2, <3>3 DEF Dispatch, Become
    <3>5. Tail(todo) = <<>>
      BY <1>1, <3>1, FinalIsAlone DEF At, Final
    <3>6. todo' # <<>> /\ Head(todo') = "drain"
      BY <3>4, <3>5
    <3>7. ResumePosted'
      BY <3>1 DEF ResumePosted
    <3>8. At("drain")' /\ app' = "Sleeping"
      BY <1>2, <3>1, <3>6 DEF At
    <3> QED  BY <3>7, <3>8 DEF TtyInv
  <2>7. CASE Signal
    <3>1. todo' = todo /\ ev' = ev /\ \E e \in Event : Post(e)
      BY <2>7, SignalsAssumption DEF Signal
    <3>2. ResumePosted => ResumePosted'
      BY <1>1, <3>1, PostKeepsResume
    <3> QED  BY <1>2, <2>2, <3>1, <3>2 DEF TtyInv, At
  <2>8. CASE Continue
    <3>1. At("stopped") /\ app = "Sleeping" /\ Post("Resume") /\ todo' = Tail(todo)
      BY <2>2, <2>8 DEF Continue, At, Return
    <3>2. ResumePosted'
      BY <1>1, <3>1, PostResume DEF RoomToResume
    <3>3. /\ Tail(todo) \in Seq(AppStep) /\ Len(Tail(todo)) = Len(todo) - 1
          /\ \A i \in 1 .. Len(Tail(todo)) : Tail(todo)[i] = todo[i + 1]
          /\ Len(todo) \in Nat \ {0} /\ todo[1] = "stopped"
      BY <1>1, <3>1, HeadTailProperties, LenProperties, EmptySeq DEF At
    <3>4. 1 < Len(todo) /\ todo[2] = "drain"
      <4>1. 1 \in 1 .. Len(todo)
        BY <3>3
      <4>2. 1 < Len(todo) /\ todo[1 + 1] = "drain"
        BY <1>1, <3>3, <4>1 DEF Shape
      <4> QED  BY <4>2
    <3>5. 1 \in 1 .. Len(Tail(todo)) /\ Tail(todo)[1] = "drain"
      BY <3>3, <3>4
    <3>6. todo' # <<>> /\ Head(todo') = "drain"
      BY <3>1, <3>3, <3>5, FirstIsHead
    <3>7. At("drain")' /\ app' = "Sleeping"
      BY <1>2, <3>1, <3>6 DEF At
    <3> QED  BY <3>2, <3>7 DEF TtyInv
  <2> QED  BY <2>3, <2>4, <2>5, <2>6, <2>7, <2>8
<1> QED  BY <1>3, <1>4, <1>5 DEF AppInv, AppTypeOK, ThreadsTypeOK

LEMMA TtyStep ==
  ASSUME AppInv, TtyInv, RoomToResume, [AppNext]_avars
  PROVE  TtyInv'
<1>1. CASE Worker  BY <1>1, TtyThread DEF Worker
<1>2. CASE Called  BY <1>2, TtyCall DEF Called
<1>3. CASE (RunnerCancelled \/ Exited) /\ UNCHANGED <<ev, inputs>>
  BY <1>3
  DEF RunnerCancelled, Exited, rvars, shared, main, TtyInv, ResumePosted, At
<1>4. CASE UNCHANGED avars
  BY <1>4 DEF avars, rvars, TtyInv, ResumePosted, At
<1>5. CASE Loop \/ Outside  BY <1>5, TtyLoop
<1> QED  BY <1>1, <1>2, <1>3, <1>4, <1>5 DEF AppNext

(* As long as the queue has room for the Resume of a SIGCONT, btop reads   *)
(* keys only in its own terminal mode: a suspension always passes through  *)
(* Term::init, whatever events are posted before, while or after it.       *)
THEOREM ReadsInAppMode == AppSpec /\ []RoomToResume => []PollInAppMode
<1>1. AppInit => TtyInv
  BY DEF AppInit, ThreadsInit, TtyInv
<1>2. AppInv /\ TtyInv => PollInAppMode
  BY DEF TtyInv, PollInAppMode, At, AppInv, AppTypeOK, ThreadsTypeOK
<1>3. AppInv /\ TtyInv /\ RoomToResume /\ [AppNext]_avars => TtyInv'
  BY TtyStep
<1> QED  BY <1>1, <1>2, <1>3, InductiveAppInv, PTL DEF AppSpec

---------------------------------------------------------------------------
(* Neither thread waits for the other, with the main loop as the caller.   *)

\* on_exit() overwrites the tag right before the transitions behind which
\* stop() follows, or the exit.
Unmarked(s) == \A i \in 1 .. Len(s) : s[i] # "markStopping"

MarkedFirst(s) ==
  \A i \in 1 .. Len(s) :
    s[i] = "markStopping" =>
      /\ i = 1
      /\ \E k \in 2 .. Len(s) : s[k] \in Closer /\ \A j \in 2 .. k - 1 : s[j] \in OnTheWay

LEMMA MarkedTail ==
  ASSUME NEW S, NEW s \in Seq(S), s # <<>>, MarkedFirst(s)
  PROVE  /\ Unmarked(Tail(s))
         /\ Head(s) = "markStopping" => Stops(Tail(s))
<1> DEFINE t == Tail(s)
<1>1. /\ Len(t) = Len(s) - 1 /\ Len(s) \in Nat \ {0} /\ Head(s) = s[1]
      /\ \A i \in 1 .. Len(t) : t[i] = s[i + 1]
  BY HeadTailProperties, EmptySeq
<1> HIDE DEF t
<1>2. ASSUME NEW i \in 1 .. Len(t) PROVE t[i] # "markStopping"
  <2>1. i + 1 \in 1 .. Len(s) /\ i + 1 # 1 /\ t[i] = s[i + 1]
    BY <1>1
  <2> QED  BY <2>1 DEF MarkedFirst
<1>3. ASSUME Head(s) = "markStopping" PROVE Stops(t)
  <2>1. 1 \in 1 .. Len(s) /\ s[1] = "markStopping"
    BY <1>1, <1>3
  <2>2. PICK k \in 2 .. Len(s) : s[k] \in Closer /\ \A j \in 2 .. k - 1 : s[j] \in OnTheWay
    BY <2>1 DEF MarkedFirst
  <2>3. k - 1 \in 1 .. Len(t) /\ t[k - 1] = s[(k - 1) + 1] /\ (k - 1) + 1 = k
    BY <1>1
  <2>4. ASSUME NEW j \in 1 .. (k - 1) - 1 PROVE t[j] \in OnTheWay
    <3>1. j \in 1 .. Len(t) /\ j + 1 \in 2 .. k - 1 /\ t[j] = s[j + 1]
      BY <1>1
    <3> QED  BY <2>2, <3>1
  <2> QED  BY <2>2, <2>3, <2>4 DEF Stops
<1> QED  BY <1>2, <1>3 DEF Unmarked, t

LEMMA MarkedConcat ==
  ASSUME NEW S, NEW p \in Seq(S), NEW t \in Seq(S), MarkedFirst(p), Unmarked(t)
  PROVE  MarkedFirst(p \o t)
<1> DEFINE u == p \o t
<1>1. /\ Len(u) = Len(p) + Len(t) /\ Len(p) \in Nat /\ Len(t) \in Nat
      /\ \A i \in 1 .. Len(p) + Len(t) : u[i] = IF i <= Len(p) THEN p[i] ELSE t[i - Len(p)]
  BY ConcatProperties, LenProperties
<1> HIDE DEF u
<1>2. ASSUME NEW i \in 1 .. Len(u), u[i] = "markStopping"
      PROVE  /\ i = 1
             /\ \E k \in 2 .. Len(u) : u[k] \in Closer /\ \A j \in 2 .. k - 1 : u[j] \in OnTheWay
  <2>1. i <= Len(p)
    <3> SUFFICES ASSUME ~(i <= Len(p)) PROVE FALSE
      OBVIOUS
    <3>1. i - Len(p) \in 1 .. Len(t) /\ t[i - Len(p)] = "markStopping"
      BY <1>1, <1>2
    <3> QED  BY <3>1 DEF Unmarked
  <2>2. i \in 1 .. Len(p) /\ p[i] = "markStopping"
    BY <1>1, <1>2, <2>1
  <2>3. i = 1
    BY <2>2 DEF MarkedFirst
  <2>4. PICK k \in 2 .. Len(p) : p[k] \in Closer /\ \A j \in 2 .. k - 1 : p[j] \in OnTheWay
    BY <2>2 DEF MarkedFirst
  <2>5. k \in 2 .. Len(u) /\ u[k] = p[k] /\ \A j \in 2 .. k - 1 : u[j] = p[j]
    BY <1>1
  <2> QED  BY <2>3, <2>4, <2>5
<1> QED  BY <1>2 DEF MarkedFirst, u

\* The lists of the main loop have nothing to do with the exit and its marks,
\* but those of three transitions.
Aside == AppStep \ {"stopMark", "stopTryLock", "stopUnlock", "Quitting", "markStopping"}

\* What the loop may put in front of todo.
Fits(p) == p \in Seq(AppStep) /\ Proper(p) /\ ~Locks(p) /\ MarkedFirst(p)

LEMMA AsideFits == ASSUME NEW p \in Seq(Aside) PROVE Fits(p)
<1>1. p \in Seq(AppStep) /\ Proper(p) /\ ~Locks(p)
  BY SeqMonotonic, FreeProper DEF Aside
<1>2. MarkedFirst(p)
  BY ElementOfSeq DEF MarkedFirst, Aside
<1> QED  BY <1>1, <1>2 DEF Fits

LEMMA AsideLists ==
  /\ <<>> \in Seq(Aside)
  /\ \A h \in Aside : <<h>> \in Seq(Aside)
  /\ TermResize \in Seq(Aside) /\ CalcSizes \in Seq(Aside)
  /\ Run \in Seq(Aside) /\ RunDirect \in Seq(Aside) /\ WaitIdle \in Seq(Aside)
  /\ AwaitDoneBriefly \in Seq(Aside)
<1>1. /\ TermResize \in Seq(Aside) /\ WaitIdle \in Seq(Aside) /\ AwaitDone \in Seq(Aside)
      /\ AwaitDoneBriefly \in Seq(Aside) /\ <<"unlock", "markAll">> \in Seq(Aside)
      /\ <<"restart", "guard">> \in Seq(Aside) /\ <<"restart", "guardDirect">> \in Seq(Aside)
  BY DEF TermResize, WaitIdle, AwaitDone, AwaitDoneBriefly, Aside, AppStep, MainStep,
         LoopStep, AppState
<1>2. Run \in Seq(Aside) /\ RunDirect \in Seq(Aside) /\ CalcSizes \in Seq(Aside)
  BY <1>1, ConcatProperties DEF Run, RunDirect, CalcSizes
<1> QED  BY <1>1, <1>2

LEMMA AsideSteps ==
  {"Resizing", "Reloading", "Running", "stopIfActive", "unlock", "markAll", "markBox",
   "unlockIfIdle", "postQuit", "drain", "dispatch", "upkeep", "clockCheck", "tickCheck",
   "poll", "termInit", "exited"} \subseteq Aside
BY DEF Aside, AppStep, MainStep, LoopStep, AppState

LEMMA AsideTransitions ==
  /\ \A from, to \in AppState :
       from = to \/ to \in {"Resizing", "Reloading", "Running"}
         => TransitionTo(from, to) \in Seq(Aside)
  /\ Relayout \in Seq(Aside) /\ Chained \in Seq(Aside)
<1>1. TermResize \o CalcSizes \o <<"markAll">> \o Run \o AwaitDoneBriefly \in Seq(Aside)
  BY AsideLists, AsideSteps, ConcatProperties
<1>2. <<"stopIfActive", "unlock">> \in Seq(Aside)
  BY DEF Aside, AppStep, MainStep, LoopStep, AppState
<1>3. ASSUME NEW from \in AppState, NEW to \in {"Resizing", "Reloading", "Running"}, from # to
      PROVE  TransitionTo(from, to) \in Seq(Aside)
  <2>1. OnEnter(to) \in Seq(Aside)
    BY <1>1, <1>2, AsideLists DEF OnEnter
  <2>2. OnExit(from, to) = <<>> /\ <<>> \in Seq(Aside) /\ <<to>> \in Seq(Aside)
    BY AsideLists, AsideSteps DEF OnExit
  <2>3. OnExit(from, to) \o <<to>> \o OnEnter(to) \in Seq(Aside)
    BY <2>1, <2>2, ConcatProperties
  <2> QED  BY <1>3, <2>3 DEF TransitionTo
<1>4. \A s \in AppState : TransitionTo(s, s) = <<>>
  BY DEF TransitionTo
<1>5. /\ TransitionTo("Running", "Resizing") \in Seq(Aside)
      /\ <<"Running">> \in Seq(Aside)
  BY <1>3, AsideLists, AsideSteps DEF AppState
<1>6. Relayout \in Seq(Aside)
  BY <1>5, ConcatProperties DEF Relayout
<1> QED  BY <1>3, <1>4, <1>5, <1>6, AsideLists DEF Chained

\* A list that starts with the mark.
LEMMA MarkFits ==
  ASSUME NEW q \in Seq(AppStep \ {"markStopping"}), Proper(q), ~Locks(q), Stops(q)
  PROVE  Fits(<<"markStopping">> \o q)
<1> DEFINE m == <<"markStopping">>
           u == m \o q
<1>1. /\ m \in Seq({"markStopping"}) /\ m \in Seq(AppStep) /\ q \in Seq(AppStep)
      /\ Len(m) = 1 /\ m[1] = "markStopping"
  BY SeqMonotonic DEF AppStep, LoopStep
<1> HIDE DEF m
<1>2. /\ Len(u) = 1 + Len(q) /\ Len(q) \in Nat /\ u \in Seq(AppStep)
      /\ \A i \in 1 .. 1 + Len(q) : u[i] = IF i <= 1 THEN m[i] ELSE q[i - 1]
  <2>1. /\ u \in Seq(AppStep) /\ Len(u) = Len(m) + Len(q)
        /\ \A i \in 1 .. Len(m) + Len(q) : u[i] = IF i <= Len(m) THEN m[i] ELSE q[i - Len(m)]
    BY <1>1, ConcatProperties
  <2>2. Len(q) \in Nat
    BY <1>1, LenProperties
  <2> HIDE DEF u
  <2> QED  BY <1>1, <2>1, <2>2
<1>3. Proper(u) /\ ~Locks(u)
  <2>1. Proper(m) /\ ~Locks(m)
    BY <1>1, FreeProper
  <2> QED  BY <1>1, <2>1, ProperConcat
<1> HIDE DEF u
<1>4. PICK k \in 1 .. Len(q) : q[k] \in Closer /\ \A j \in 1 .. k - 1 : q[j] \in OnTheWay
  BY DEF Stops
<1>5. k + 1 \in 2 .. Len(u) /\ u[k + 1] \in Closer
  BY <1>2, <1>4
<1>6. ASSUME NEW j \in 2 .. (k + 1) - 1 PROVE u[j] \in OnTheWay
  <2>1. j - 1 \in 1 .. k - 1 /\ u[j] = q[j - 1]
    BY <1>2
  <2> QED  BY <1>4, <2>1
<1>7. ASSUME NEW i \in 1 .. Len(u), u[i] = "markStopping" PROVE i = 1
  <2> SUFFICES ASSUME i # 1 PROVE FALSE
    OBVIOUS
  <2>1. i - 1 \in 1 .. Len(q) /\ q[i - 1] = "markStopping"
    BY <1>2, <1>7
  <2> QED  BY <2>1, ElementOfSeq
<1>8. MarkedFirst(u)
  BY <1>5, <1>6, <1>7 DEF MarkedFirst
<1> QED  BY <1>2, <1>3, <1>8 DEF Fits, u, m

LEMMA PairOf == ASSUME NEW S, NEW a \in S, NEW b \in S PROVE <<a>> \o <<b>> = <<a, b>>
<1>1. <<a>> \in Seq(S) /\ <<b>> \in Seq(S) /\ <<a, b>> \in Seq(S)
  OBVIOUS
<1>2. <<a>>[1] = a /\ <<b>>[1] = b /\ <<a, b>>[1] = a /\ <<a, b>>[2] = b
      /\ Len(<<a>>) = 1 /\ Len(<<b>>) = 1 /\ Len(<<a, b>>) = 2
  OBVIOUS
<1> DEFINE p == <<a>>
           q == <<b>>
           r == <<a, b>>
<1> HIDE DEF p, q, r
<1>3. /\ p \in Seq(S) /\ q \in Seq(S) /\ r \in Seq(S) /\ Len(p) = 1 /\ Len(q) = 1 /\ Len(r) = 2
      /\ p[1] = a /\ q[1] = b /\ r[1] = a /\ r[2] = b
  BY <1>1, <1>2 DEF p, q, r
<1>4. /\ p \o q \in Seq(S) /\ Len(p \o q) = 2
      /\ \A i \in 1 .. 2 : (p \o q)[i] = IF i <= 1 THEN p[i] ELSE q[i - 1]
  BY <1>3, ConcatProperties, SMTT(30)
<1>5. \A i \in 1 .. 2 : (p \o q)[i] = r[i]
  <2>1. \A i \in 1 .. 2 : i = 1 \/ i = 2
    OBVIOUS
  <2> QED  BY <1>3, <1>4, <2>1
<1>6. p \o q = r
  BY <1>3, <1>4, <1>5, SeqEqual
<1> QED  BY <1>6 DEF p, q, r

LEMMA ClosingTransitions ==
  /\ Fits(TransitionTo("Running", "Quitting") \o <<"exited">>)
  /\ Fits(TransitionTo("Running", "Error") \o <<"exited">>)
  /\ Fits(TransitionTo("Running", "Sleeping") \o <<"drain">>)
<1> DEFINE Kept == AppStep \ {"markStopping"}
<1>1. ASSUME NEW to \in {"Quitting", "Error", "Sleeping"}, NEW e \in Seq(AppStep),
             OnEnter(to) = e, NEW last \in AppStep
      PROVE  TransitionTo("Running", to) \o <<last>>
               = <<"markStopping">> \o ((<<to>> \o e) \o <<last>>)
  <2>1. /\ <<"markStopping">> \in Seq(AppStep) /\ <<to>> \in Seq(AppStep)
        /\ <<last>> \in Seq(AppStep)
    BY DEF AppStep, LoopStep, MainStep, AppState
  <2>2. TransitionTo("Running", to) = (<<"markStopping">> \o <<to>>) \o e
    BY <1>1 DEF TransitionTo, OnExit
  <2>3. (<<"markStopping">> \o <<to>>) \o e = <<"markStopping">> \o (<<to>> \o e)
    BY <2>1, ConcatAssociative
  <2>4. <<to>> \o e \in Seq(AppStep)
    BY <2>1, ConcatProperties
  <2> QED  BY <2>1, <2>2, <2>3, <2>4, ConcatAssociative
<1>2. /\ <<"cleanQuit">> \in Seq(Kept) /\ <<"exited">> \in Seq(Kept)
      /\ <<"restore", "stopped">> \in Seq(Kept)
      /\ <<"drain">> \in Seq(Kept) /\ <<"Sleeping">> \in Seq(Kept)
      /\ <<"Quitting", "cleanQuit">> \in Seq(Kept) /\ <<"Error", "cleanQuit">> \in Seq(Kept)
      /\ Stop \in Seq(Kept)
  BY DEF AppStep, LoopStep, MainStep, AppState, Stop
<1>3. \A s \in Seq(Kept) : s \in Seq(AppStep)
  BY SeqMonotonic
<1>4. Stops(<<"exited">>)
  <2>1. 1 \in 1 .. Len(<<"exited">>) /\ <<"exited">>[1] \in Closer
    BY DEF Closer
  <2> QED  BY <2>1 DEF Stops
<1>5. /\ Proper(<<"exited">>) /\ ~Locks(<<"exited">>)
      /\ Proper(<<"Quitting", "cleanQuit">>) /\ ~Locks(<<"Quitting", "cleanQuit">>)
      /\ Proper(<<"Error", "cleanQuit">>) /\ ~Locks(<<"Error", "cleanQuit">>)
  BY DEF Proper, Paired, Entered, Locks
<1> HIDE DEF Kept
<1>6. ASSUME NEW to \in {"Quitting", "Error"}
      PROVE  Fits(TransitionTo("Running", to) \o <<"exited">>)
  <2>1. OnEnter(to) = <<"cleanQuit">>
    BY DEF OnEnter
  <2>2. <<to>> \o <<"cleanQuit">> = <<to, "cleanQuit">>
    <3>1. to \in AppStep /\ "cleanQuit" \in AppStep
      BY DEF AppStep, MainStep, AppState
    <3> QED  BY <3>1, PairOf
  <2> DEFINE p == <<to, "cleanQuit">>
  <2>3. p \in Seq(Kept) /\ Proper(p) /\ ~Locks(p)
    BY <1>2, <1>5
  <2>4. \A i \in 1 .. Len(p) : p[i] \in OnTheWay
    BY DEF OnTheWay
  <2> HIDE DEF p
  <2> DEFINE q == p \o <<"exited">>
  <2>5. q \in Seq(Kept) /\ Proper(q) /\ ~Locks(q) /\ Stops(q)
    BY <1>2, <1>4, <1>5, <2>3, <2>4, StopsBehind, ProperConcat, ConcatProperties
  <2> HIDE DEF q
  <2>6. Fits(<<"markStopping">> \o q)
    BY <2>5, MarkFits DEF Kept
  <2>7. TransitionTo("Running", to) \o <<"exited">> = <<"markStopping">> \o q
    <3>1. <<"cleanQuit">> \in Seq(AppStep) /\ "exited" \in AppStep
      BY <1>2, <1>3, StepSets
    <3>2. TransitionTo("Running", to) \o <<"exited">>
            = <<"markStopping">> \o ((<<to>> \o <<"cleanQuit">>) \o <<"exited">>)
      <4> DEFINE e == <<"cleanQuit">>
      <4>1. e \in Seq(AppStep) /\ OnEnter(to) = e /\ to \in {"Quitting", "Error", "Sleeping"}
        BY <1>6, <2>1, <3>1
      <4> HIDE DEF e
      <4>2. TransitionTo("Running", to) \o <<"exited">>
              = <<"markStopping">> \o ((<<to>> \o e) \o <<"exited">>)
        BY <1>1, <3>1, <4>1
      <4> QED  BY <4>2 DEF e
    <3> QED  BY <2>2, <3>2 DEF q, p
  <2> QED  BY <2>6, <2>7
<1>7. Fits(TransitionTo("Running", "Sleeping") \o <<"drain">>)
  <2> DEFINE e == Stop \o <<"restore", "stopped">>
             q == (<<"Sleeping">> \o e) \o <<"drain">>
  <2>1. /\ Stop \in Seq(Kept) /\ Proper(Stop) /\ ~Locks(Stop) /\ Stops(Stop)
        /\ <<"restore", "stopped">> \in Seq(Kept)
        /\ Proper(<<"restore", "stopped">>) /\ ~Locks(<<"restore", "stopped">>)
        /\ <<"Sleeping">> \in Seq(Kept) /\ Proper(<<"Sleeping">>) /\ ~Locks(<<"Sleeping">>)
        /\ <<"drain">> \in Seq(Kept) /\ Proper(<<"drain">>) /\ ~Locks(<<"drain">>)
        /\ \A i \in 1 .. Len(<<"Sleeping">>) : <<"Sleeping">>[i] \in OnTheWay
    <3>1. /\ <<"restore", "stopped">> \in Seq({"restore", "stopped"})
          /\ <<"Sleeping">> \in Seq({"Sleeping"}) /\ <<"drain">> \in Seq({"drain"})
          /\ \A i \in 1 .. Len(<<"Sleeping">>) : <<"Sleeping">>[i] \in OnTheWay
      BY DEF OnTheWay
    <3>2. Proper(<<"restore", "stopped">>) /\ ~Locks(<<"restore", "stopped">>)
      BY <3>1, FreeProper
    <3>3. /\ Proper(<<"Sleeping">>) /\ ~Locks(<<"Sleeping">>)
          /\ Proper(<<"drain">>) /\ ~Locks(<<"drain">>)
      BY <3>1, FreeProper
    <3>4. Stops(Stop)
      <4>1. /\ 2 \in 1 .. Len(Stop) /\ Stop[2] \in Closer /\ Stop[1] \in OnTheWay
            /\ \A j \in 1 .. 2 - 1 : j = 1
        BY DEF Stop, Closer, OnTheWay
      <4> QED  BY <4>1 DEF Stops
    <3> QED  BY <1>2, <3>1, <3>2, <3>3, <3>4, ProperLists
  <2>2. e \in Seq(Kept) /\ Proper(e) /\ ~Locks(e) /\ Stops(e)
    BY <2>1, ProperConcat, StopsConcat, ConcatProperties
  <2> HIDE DEF e
  <2> DEFINE f == <<"Sleeping">> \o e
  <2>3. f \in Seq(Kept) /\ Proper(f) /\ ~Locks(f) /\ Stops(f)
    BY <2>1, <2>2, ProperConcat, StopsBehind, ConcatProperties
  <2> HIDE DEF f
  <2>4. f \o <<"drain">> \in Seq(Kept) /\ Proper(f \o <<"drain">>)
        /\ ~Locks(f \o <<"drain">>) /\ Stops(f \o <<"drain">>)
    BY <2>1, <2>3, ProperConcat, StopsConcat, ConcatProperties
  <2>5. Fits(<<"markStopping">> \o (f \o <<"drain">>))
    BY <2>4, MarkFits DEF Kept
  <2>6. OnEnter("Sleeping") = e
    BY DEF OnEnter, e
  <2>7. TransitionTo("Running", "Sleeping") \o <<"drain">>
          = <<"markStopping">> \o (f \o <<"drain">>)
    BY <1>1, <1>3, <2>2, <2>6 DEF f, AppStep, LoopStep
  <2> QED  BY <2>5, <2>7
<1> QED  BY <1>6, <1>7

\* A step of the loop or of the outside, as the runner and the exit see it.
LEMMA LoopFits ==
  ASSUME todo \in Seq(AppStep), app \in AppState, Loop \/ Outside
  PROVE  /\ UNCHANGED <<app, permits, rpc, quitting>>
         /\ \/ tag' = tag
            \/ At("markStopping") /\ tag' = "Stopping" /\ Return
         /\ \/ todo' = todo /\ tag' = tag
            \/ /\ todo # <<>> /\ Head(todo) \in LoopStep \cup {"stopped"}
               /\ \E p \in Seq(AppStep) : Fits(p) /\ Become(p)
<1>1. /\ UNCHANGED <<app, permits, rpc, quitting>>
      /\ tag' = tag \/ (At("markStopping") /\ tag' = "Stopping" /\ Return)
  BY DEF Loop, Outside, StartResize, Discard, Drain, TermInit, Dispatch, MarkStopping,
         Drained, Upkeep, ClockCheck, TickCheck, PollWoken, PollTimeout, PollKey,
         UnlockIfIdle, PostQuit, Fit, TooSmall, TooSmallQuit, Signal, Continue, threads
<1>2. CASE TooSmall \/ Signal
  BY <1>1, <1>2 DEF TooSmall, Signal, threads
<1>3. ASSUME ~TooSmall, ~Signal
      PROVE  todo # <<>> /\ Head(todo) \in LoopStep \cup {"stopped"}
  BY <1>3
  DEF Loop, Outside, StartResize, Discard, Drain, TermInit, Dispatch, MarkStopping,
      Drained, Upkeep, ClockCheck, TickCheck, PollWoken, PollTimeout, PollKey,
      UnlockIfIdle, PostQuit, Fit, TooSmallQuit, Continue, At, LoopStep
<1>4. \A p \in Seq(Aside) : p \in Seq(AppStep) /\ Fits(p)
  BY AsideFits DEF Fits
<1>5. /\ \A h \in {"dispatch", "upkeep", "clockCheck", "tickCheck", "poll", "drain", "unlock",
                  "termInit", "unlockIfIdle", "markBox", "markAll", "postQuit", "exited"} :
            <<h>> \in Seq(Aside)
      /\ <<>> \in Seq(Aside)
  BY AsideLists, AsideSteps
<1>6. ASSUME ~TooSmall, ~Signal PROVE \E p \in Seq(AppStep) : Fits(p) /\ Become(p)
  <2>1. CASE Discard \/ TermInit \/ MarkStopping \/ PostQuit \/ Fit \/ TooSmallQuit \/ Continue
    <3>1. Return
      BY <2>1 DEF Discard, TermInit, MarkStopping, PostQuit, Fit, TooSmallQuit, Continue
    <3> QED  BY <1>3, <1>4, <1>5, <1>6, <3>1, ReturnIsBecome
  <2>2. CASE StartResize \/ UnlockIfIdle \/ PollWoken \/ PollTimeout
    <3>1. Become(<<>>) \/ Become(TermResize) \/ Become(<<"unlock">>) \/ Become(<<"drain">>)
      BY <2>2 DEF StartResize, UnlockIfIdle, PollWoken, PollTimeout
    <3> QED  BY <1>4, <1>5, <3>1, AsideLists
  <2>3. CASE Drain
    <3>1. \/ Become((<<"termInit">> \o TermResize) \o <<"dispatch">>)
          \/ Become(<<>> \o <<"dispatch">>)
      BY <2>3 DEF Drain
    <3>2. /\ (<<"termInit">> \o TermResize) \o <<"dispatch">> \in Seq(Aside)
          /\ <<>> \o <<"dispatch">> \in Seq(Aside)
      BY <1>5, AsideLists, ConcatProperties
    <3> QED  BY <1>4, <3>1, <3>2
  <2>4. CASE Dispatch
    <3> DEFINE next == OnEvent(app, ev)
               last == IF next \in {"Quitting", "Error"} THEN "exited" ELSE "drain"
    <3>1. Become(TransitionTo(app, next) \o <<last>>)
      BY <2>4 DEF Dispatch
    <3>2. /\ next \in AppState
          /\ \/ next = app \/ next \in {"Resizing", "Reloading", "Running"}
             \/ app = "Running" /\ next \in {"Quitting", "Error", "Sleeping"}
      BY DEF OnEvent, AppState
    <3>3. <<last>> \in Seq(Aside)
      BY <1>5
    <3>4. app = "Running" /\ next \in {"Quitting", "Error", "Sleeping"}
            => Fits(TransitionTo(app, next) \o <<last>>)
      BY ClosingTransitions
    <3> HIDE DEF next, last
    <3>5. ASSUME next = app \/ next \in {"Resizing", "Reloading", "Running"}
          PROVE  TransitionTo(app, next) \o <<last>> \in Seq(Aside)
      <4>1. TransitionTo(app, next) \in Seq(Aside)
        BY <3>2, <3>5, AsideTransitions
      <4> QED  BY <3>3, <4>1, ConcatProperties
    <3>6. Fits(TransitionTo(app, next) \o <<last>>)
      BY <1>4, <3>2, <3>4, <3>5
    <3>7. TransitionTo(app, next) \o <<last>> \in Seq(AppStep)
      BY <3>6 DEF Fits
    <3> QED  BY <3>1, <3>6, <3>7
  <2>5. CASE Drained
    <3>1. Become(Chained \o <<"upkeep">>) /\ Chained \o <<"upkeep">> \in Seq(Aside)
      BY <1>5, <2>5, AsideTransitions, ConcatProperties DEF Drained
    <3> QED  BY <1>4, <3>1
  <2>6. CASE Upkeep
    <3>1. \/ Become(<<"clockCheck">>)
          \/ Become(Relayout \o <<"drain">>)
          \/ Become(TermResize \o Relayout \o <<"clockCheck">>)
      BY <2>6 DEF Upkeep
    <3>2. /\ Relayout \o <<"drain">> \in Seq(Aside)
          /\ TermResize \o Relayout \o <<"clockCheck">> \in Seq(Aside)
      BY <1>5, AsideLists, AsideTransitions, ConcatProperties
    <3> QED  BY <1>4, <1>5, <3>1, <3>2
  <2>7. CASE ClockCheck \/ TickCheck
    <3>1. \E c \in {<<>>, Run, RunDirect} : \E h \in {"tickCheck", "poll"} : Become(c \o <<h>>)
      BY <2>7 DEF ClockCheck, TickCheck
    <3>2. \A c \in {<<>>, Run, RunDirect} : \A h \in {"tickCheck", "poll"} :
            c \o <<h>> \in Seq(Aside)
      BY <1>5, AsideLists, ConcatProperties
    <3> QED  BY <1>4, <3>1, <3>2
  <2>8. CASE PollKey
    <3>1. PICK k \in DOMAIN KeyCalls : Become(<<"unlockIfIdle">> \o KeyCalls[k] \o <<"poll">>)
      BY <2>8 DEF PollKey
    <3>2. /\ DOMAIN KeyCalls = {"redraw", "layout", "quit"}
          /\ KeyCalls["redraw"] = <<"markBox">> \o Run
          /\ KeyCalls["layout"] = WaitIdle \o CalcSizes \o <<"markAll">> \o Run
          /\ KeyCalls["quit"] = <<"postQuit">>
      BY DEF KeyCalls
    <3>3. /\ <<"markBox">> \o Run \in Seq(Aside)
          /\ WaitIdle \o CalcSizes \o <<"markAll">> \o Run \in Seq(Aside)
          /\ <<"postQuit">> \in Seq(Aside)
      BY <1>5, AsideLists, ConcatProperties
    <3>4. KeyCalls[k] \in Seq(Aside)
      BY <3>1, <3>2, <3>3
    <3>5. <<"unlockIfIdle">> \o KeyCalls[k] \o <<"poll">> \in Seq(Aside)
      BY <1>5, <3>4, ConcatProperties
    <3> QED  BY <1>4, <3>1, <3>5
  <2> QED
    BY <1>6, <2>1, <2>2, <2>3, <2>4, <2>5, <2>6, <2>7, <2>8 DEF Loop, Outside
<1> QED  BY <1>1, <1>2, <1>3, <1>6

AppHangInv == HangInv /\ MarkedFirst(todo)

LEMMA MarkedMove ==
  ASSUME todo \in Seq(AppStep), todo # <<>>, MarkedFirst(todo),
         NEW p \in Seq(AppStep), MarkedFirst(p), Become(p)
  PROVE  MarkedFirst(todo')
<1>1. Tail(todo) \in Seq(AppStep) /\ Unmarked(Tail(todo))
  BY HeadTailProperties, MarkedTail
<1> QED  BY <1>1, MarkedConcat DEF Become

LEMMA AppHangStep ==
  ASSUME AppInv, AppHangInv, [AppNext]_avars
  PROVE  AppHangInv'
<1>1. /\ todo \in Seq(AppStep) /\ app \in AppState /\ permits \in Nat
      /\ MainStep \subseteq AppStep
  BY DEF AppInv, AppTypeOK, ThreadsTypeOK, AppStep
<1>2. CASE Worker \/ RunnerCancelled
  <2>1. (RunnerThread \/ RunnerCancelled) /\ todo' = todo
    BY <1>2
    DEF Worker, RunnerCancelled, shared, main, RunnerThread,
        RunnerStart, RunnerTest, RunnerIdle, RunnerAcquire, RunnerWoken, RunnerEntry,
        RunnerCollect, RunnerTake, RunnerCollected, RunnerCoresChanged, RunnerThrows,
        RunnerFault, RunnerRaise, RunnerCheck, RunnerDraw, RunnerEmit
  <2> QED  BY <1>1, <2>1, HangThread DEF AppHangInv
<1>3. CASE Called
  <2>1. MainCall
    BY <1>3 DEF Called
  <2>2. HangInv'
    BY <1>1, <2>1, HangCall DEF AppHangInv
  <2>3. todo # <<>> /\ \E p \in Seq(MainStep) : Become(p)
    BY <1>1, <2>1, CallTodo, ProperCall
  <2>4. \A p \in Seq(MainStep) : p \in Seq(AppStep) /\ MarkedFirst(p)
    <3>1. "markStopping" \notin MainStep
      BY DEF MainStep, AppState
    <3> QED  BY <1>1, <3>1, SeqMonotonic, ElementOfSeq DEF MarkedFirst
  <2> QED  BY <1>1, <2>2, <2>3, <2>4, MarkedMove DEF AppHangInv
<1>4. CASE Loop \/ Outside
  <2>1. /\ UNCHANGED <<app, permits, rpc, quitting>>
        /\ \/ tag' = tag
           \/ At("markStopping") /\ tag' = "Stopping" /\ Return
        /\ \/ todo' = todo /\ tag' = tag
           \/ /\ todo # <<>> /\ Head(todo) \in LoopStep \cup {"stopped"}
              /\ \E p \in Seq(AppStep) : Fits(p) /\ Become(p)
    BY <1>1, <1>4, LoopFits
  <2>2. CASE todo' = todo /\ tag' = tag
    BY <2>1, <2>2, HangStill DEF AppHangInv
  <2>3. CASE /\ todo # <<>> /\ Head(todo) \in LoopStep \cup {"stopped"}
             /\ \E p \in Seq(AppStep) : Fits(p) /\ Become(p)
    <3>1. Head(todo) \notin OnTheWay \cup Closer
      BY <2>3 DEF LoopStep, OnTheWay, Closer
    <3>2. MarkedFirst(todo')
      BY <1>1, <2>3, MarkedMove DEF AppHangInv, Fits
    <3>3. CASE tag' = tag
      <4>1. HangInv'
        BY <1>1, <2>1, <2>3, <3>1, <3>3, HangMove DEF AppHangInv, Fits
      <4> QED  BY <3>2, <4>1 DEF AppHangInv
    <3>4. CASE At("markStopping") /\ tag' = "Stopping" /\ Return
      <4>1. Stops(todo') /\ Paired(todo')
        BY <1>1, <2>3, <3>4, MarkedTail, PairedTail DEF AppHangInv, HangInv, StopInv, Return, At
      <4>2. StopInv' /\ WaitInv'
        BY <2>1, <3>4, <4>1 DEF StopInv, WaitInv, Active
      <4>3. HangInv'
        BY <1>1, <2>1, <2>3, <3>1, <4>2, HangAside DEF AppHangInv, Fits
      <4> QED  BY <3>2, <4>3 DEF AppHangInv
    <3> QED  BY <2>1, <3>3, <3>4
  <2> QED  BY <2>1, <2>2, <2>3
<1>5. CASE Exited \/ UNCHANGED avars
  <2>1. UNCHANGED <<tag, app, permits, rpc, quitting, todo>>
    BY <1>5 DEF Exited, rvars, avars
  <2> QED  BY <2>1, HangStill DEF AppHangInv
<1> QED  BY <1>2, <1>3, <1>4, <1>5 DEF AppNext

LEMMA InductiveAppHang == AppSpec => []AppHangInv
<1>1. AppInit => AppHangInv
  <2> SUFFICES ASSUME AppInit PROVE AppHangInv
    OBVIOUS
  <2>1. ThreadsInit /\ todo = Startup
    BY DEF AppInit
  <2>2. <<"startResize", "discard">> \in Seq(Aside) /\ <<"drain">> \in Seq(Aside)
    BY DEF Aside, AppStep, LoopStep
  <2>3. <<"startResize", "discard">> \o CalcSizes \o <<"drain">> \in Seq(Aside)
    BY <2>2, AsideLists, ConcatProperties
  <2>4. Fits(todo)
    BY <2>1, <2>3, AsideFits DEF Startup
  <2>5. todo # <<>> => Head(todo) # "cleanQuit"
    <3> DEFINE f == <<"startResize", "discard">>
               r == CalcSizes \o <<"drain">>
    <3>1. f \in Seq(Aside) /\ f # <<>> /\ Head(f) = "startResize"
      BY <2>2
    <3>2. r \in Seq(Aside)
      BY <2>2, AsideLists, ConcatProperties
    <3>3. CalcSizes \in Seq(Aside) /\ <<"drain">> \in Seq(Aside)
      BY <2>2, AsideLists
    <3> HIDE DEF f
    <3>4. (f \o CalcSizes) \o <<"drain">> = f \o r
      BY <3>1, <3>3, ConcatAssociative
    <3> HIDE DEF r
    <3>5. Head(f \o r) = "startResize"
      BY <3>1, <3>2, HeadOf
    <3> QED  BY <2>1, <3>4, <3>5 DEF Startup, f
  <2> QED  BY <2>1, <2>4, <2>5, HangInit DEF AppHangInv, Fits
<1> QED  BY <1>1, AppHangStep, InductiveAppInv, PTL DEF AppSpec

(* With the main loop, the signal handlers and the keys as the callers,    *)
(* who stop() runners at work as no Client of the exclusion proof does:    *)
(* wherever one of the two threads waits, the other can go on, but for the *)
(* three places NoDeadlock names.                                          *)
THEOREM LoopNeverDeadlocked == AppSpec => []NoDeadlock
<1>1. AppInv /\ AppHangInv => NoDeadlock
  BY HangMeans DEF AppInv, AppTypeOK, ThreadsTypeOK, AppHangInv, AppStep
<1> QED  BY <1>1, InductiveAppInv, InductiveAppHang, PTL
=============================================================================
