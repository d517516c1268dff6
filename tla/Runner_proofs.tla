--------------------------- MODULE Runner_proofs ---------------------------
(***************************************************************************)
(* Proofs about Runner, for every set of dirty bits: its types, the        *)
(* runner's tag and where the two threads may wait for each other, for all *)
(* calls and missed deadlines; their exclusion for those of Prompt.        *)
(***************************************************************************)
EXTENDS Runner, SequenceTheorems, TLAPS

Steps == MainStep \cup {"client"}

---------------------------------------------------------------------------
(* The lists of steps a call consists of, and what a step of a call leaves *)
(* of todo; whatever else the main thread of an extension puts there.      *)

\* The steps a call may put in front of todo: only clean_quit() adds others.
CallStep == MainStep \ (AppState \cup {"restore", "stopped", "exited"})

LEMMA Lists ==
  /\ WaitIdle \in Seq(CallStep)
  /\ AwaitDone \in Seq(CallStep)
  /\ AwaitDoneBriefly \in Seq(CallStep)
  /\ Run \in Seq(CallStep)
  /\ RunDirect \in Seq(CallStep)
  /\ Stop \in Seq(CallStep)
  /\ StopBusy \in Seq(CallStep)
  /\ StopTrigger \in Seq(CallStep)
<1>1. /\ WaitIdle \in Seq(CallStep)
      /\ AwaitDone \in Seq(CallStep)
      /\ AwaitDoneBriefly \in Seq(CallStep)
      /\ Stop \in Seq(CallStep)
      /\ StopTrigger \in Seq(CallStep)
  BY DEF WaitIdle, AwaitDone, AwaitDoneBriefly, Stop, StopTrigger, CallStep, MainStep, AppState
<1>2. /\ <<"restart", "guard">> \in Seq(CallStep)
      /\ <<"restart", "guardDirect">> \in Seq(CallStep)
      /\ <<"stopVerdict">> \in Seq(CallStep)
  BY DEF CallStep, MainStep, AppState
<1>3. /\ Run \in Seq(CallStep)
      /\ RunDirect \in Seq(CallStep)
      /\ StopBusy \in Seq(CallStep)
  BY <1>1, <1>2, ConcatProperties DEF Run, RunDirect, StopBusy
<1> QED  BY <1>1, <1>3

LEMMA CallStepsAreSteps == ASSUME NEW s \in Seq(CallStep) PROVE s \in Seq(MainStep)
BY SeqMonotonic DEF CallStep

\* A return is a call that adds nothing.
LEMMA ReturnIsBecome ==
  ASSUME NEW S, todo \in Seq(S), todo # <<>>
  PROVE  Return <=> Become(<<>>)
<1>1. Tail(todo) \in Seq(S)
  BY HeadTailProperties
<1> QED  BY <1>1, ConcatEmptySeq DEF Become, Return

\* clean_quit() ends in the exit of the process.
Leave == Stop \o <<"join">>

LEMMA CallTodo ==
  ASSUME NEW S, MainStep \subseteq S, todo \in Seq(S), MainCall
  PROVE  /\ todo # <<>>
         /\ Head(todo) \in MainStep \ {"stopped", "exited"}
         /\ \/ /\ Head(todo) \notin AppState /\ app' = app
               /\ \E s \in Seq(CallStep) : Become(s)
            \/ /\ At("cleanQuit") /\ app' = app
               /\ Become(Leave \o <<"restore", "exited">>)
            \/ /\ Head(todo) \in AppState /\ app' = Head(todo)
               /\ Return
<1> DEFINE Callable == MainStep \ (AppState \cup {"stopped", "exited"})
           Plain == /\ todo # <<>>
                    /\ Head(todo) \in Callable
                    /\ app' = app
                    /\ \E s \in Seq(CallStep) : Become(s)
<1>1. <<>> \in Seq(CallStep)
  OBVIOUS
<1>2. ASSUME NEW h \in Callable, At(h), app' = app, Return
      PROVE  Plain
  BY <1>1, <1>2, ReturnIsBecome DEF At
<1>3. ASSUME NEW h \in Callable, At(h), app' = app,
             NEW s \in Seq(CallStep), Become(s)
      PROVE  Plain
  BY <1>3 DEF At
<1>4. /\ <<"recreate">> \in Seq(CallStep)
      /\ <<"writeDirect">> \in Seq(CallStep)
      /\ <<"unlock", "configure", "trigger", "awaitStarted">> \in Seq(CallStep)
      /\ <<"unlockWrite">> \in Seq(CallStep)
      /\ <<"idleLoad">> \in Seq(CallStep)
      /\ <<"idleBlock">> \in Seq(CallStep)
      /\ <<"idleCheck">> \in Seq(CallStep)
      /\ <<"cleanQuit", "stopUnlock">> \in Seq(CallStep)
      /\ <<"stopUnlock">> \in Seq(CallStep)
      /\ <<"cleanQuit">> \in Seq(CallStep)
  BY DEF CallStep, MainStep, AppState
<1>5. {"stopIfActive", "awaitCollected", "awaitDrawn", "awaitCollectedBriefly",
       "awaitDrawnBriefly", "awaitStarted", "restart", "recreate", "guard",
       "guardDirect", "writeDirect", "configure", "trigger", "unlock", "unlockWrite",
       "idleCheck", "idleLoad", "idleBlock", "stopMark", "stopTryLock", "stopVerdict",
       "stopReset", "stopUnlock", "cleanQuit", "join", "restore", "markAll",
       "markBox"} \subseteq Callable
  BY DEF Callable, MainStep, AppState
<1>6. CASE IfActive  BY <1>6, <1>1, <1>3, <1>5, Lists DEF IfActive, shared
<1>7. CASE RunRestart
  <2>1. At("restart") /\ app' = app /\ (Return \/ Become(<<"recreate">>))
    BY <1>7 DEF RunRestart
  <2> QED  BY <2>1, <1>2, <1>3, <1>4, <1>5
<1>8. CASE RunGuard
  <2>1. /\ At("guard") \/ At("guardDirect")
        /\ app' = app
        /\ \/ Become(<<>>) \/ Become(<<"writeDirect">>)
           \/ Become(<<"unlock", "configure", "trigger", "awaitStarted">>)
    BY <1>8 DEF RunGuard, shared
  <2> QED  BY <2>1, <1>1, <1>3, <1>4, <1>5
<1>9. CASE Unlock
  <2>1. WaitIdle \o <<"unlockWrite">> \in Seq(CallStep)
    BY <1>4, Lists, ConcatProperties
  <2>2. /\ At("unlock") /\ app' = app
        /\ Become(WaitIdle \o <<"unlockWrite">>) \/ Become(<<>>)
    BY <1>9 DEF Unlock, shared
  <2> QED  BY <2>1, <2>2, <1>1, <1>3, <1>5
<1>10. CASE IdleCheck
  BY <1>10, <1>1, <1>3, <1>4, <1>5 DEF IdleCheck, shared
<1>11. CASE IdleLoad
  BY <1>11, <1>3, <1>4, <1>5 DEF IdleLoad, shared
<1>12. CASE IdleBlock
  BY <1>12, <1>3, <1>4, <1>5 DEF IdleBlock, shared
<1>13. CASE StopTryLock
  <2>1. /\ At("stopTryLock") /\ app' = app
        /\ \/ Become(StopBusy) \/ Become(<<"cleanQuit", "stopUnlock">>)
           \/ Become(<<"stopUnlock">>)
    BY <1>13 DEF StopTryLock, shared
  <2> QED  BY <2>1, <1>3, <1>4, <1>5, Lists
<1>14. CASE StopVerdict
  <2>1. <<"cleanQuit">> \o StopTrigger \in Seq(CallStep)
    BY <1>4, Lists, ConcatProperties
  <2>2. /\ At("stopVerdict") /\ app' = app
        /\ Become(<<>>) \/ Become(StopTrigger) \/ Become(<<"cleanQuit">> \o StopTrigger)
    BY <1>14 DEF StopVerdict
  <2> QED  BY <2>1, <2>2, <1>1, <1>3, <1>5, Lists
<1>15. CASE RunRecreate
  <2>1. At("recreate") /\ app' = app /\ (Return \/ Become(<<"cleanQuit">>))
    BY <1>15 DEF RunRecreate, shared
  <2> QED  BY <2>1, <1>2, <1>3, <1>4, <1>5
<1>16. CASE CleanQuit
  <2>1. /\ At("cleanQuit") /\ app' = app
        /\ Become(<<>>) \/ Become(Stop \o <<"join", "restore", "exited">>)
    BY <1>16 DEF CleanQuit, shared
  <2>2. Stop \o <<"join", "restore", "exited">> = Leave \o <<"restore", "exited">>
    BY DEF Stop, Leave
  <2> QED  BY <2>1, <2>2, <1>1, <1>3, <1>5 DEF At
<1>17. CASE AwaitCollected \/ AwaitDrawn \/ AwaitStarted
  <2>1. /\ \/ At("awaitCollected") \/ At("awaitCollectedBriefly")
           \/ At("awaitDrawn") \/ At("awaitDrawnBriefly") \/ At("awaitStarted")
        /\ app' = app /\ Return
    BY <1>17 DEF AwaitCollected, AwaitDrawn, AwaitStarted, shared
  <2> QED  BY <2>1, <1>2, <1>5
<1>18. CASE RunWriteDirect \/ RunConfigure \/ Trigger \/ UnlockWrite \/ StopMark
  <2>1. /\ \/ At("writeDirect") \/ At("configure") \/ At("trigger")
           \/ At("unlockWrite") \/ At("stopMark")
        /\ app' = app /\ Return
    BY <1>18 DEF RunWriteDirect, RunConfigure, Trigger, UnlockWrite, StopMark, shared
  <2> QED  BY <2>1, <1>2, <1>5
<1>19. CASE StopReset \/ CleanQuitJoin \/ Restore \/ MarkAll \/ MarkBox
  <2>1. /\ \/ At("stopReset") \/ At("stopUnlock") \/ At("join") \/ At("restore")
           \/ At("markAll") \/ At("markBox")
        /\ app' = app /\ Return
    BY <1>19 DEF StopReset, CleanQuitJoin, Restore, MarkAll, MarkBox, shared
  <2> QED  BY <2>1, <1>2, <1>5
<1>20. CASE StoreApp
  BY <1>20 DEF StoreApp, MainStep, AppState
<1> QED
  BY <1>6, <1>7, <1>8, <1>9, <1>10, <1>11, <1>12, <1>13, <1>14, <1>15, <1>16, <1>17,
     <1>18, <1>19, <1>20 DEF MainCall

\* So todo keeps to the steps it is made of.
LEMMA CallKeepsSteps ==
  ASSUME NEW S, MainStep \subseteq S, todo \in Seq(S), MainCall
  PROVE  todo' \in Seq(S)
<1>1. todo # <<>> /\ Tail(todo) \in Seq(S)
  BY CallTodo, HeadTailProperties
<1>2. ASSUME NEW s \in Seq(MainStep), Become(s) PROVE todo' \in Seq(S)
  BY <1>1, <1>2, SeqMonotonic, ConcatProperties DEF Become
<1>3. Leave \o <<"restore", "exited">> \in Seq(MainStep)
  BY DEF Leave, Stop, MainStep
<1> QED  BY <1>1, <1>2, <1>3, CallTodo, CallStepsAreSteps DEF Return

---------------------------------------------------------------------------
(* Types.                                                                  *)

LEMMA CallLists ==
  /\ WaitIdle \in Seq(Steps) /\ Run \in Seq(Steps) /\ RunDirect \in Seq(Steps)
  /\ Stop \in Seq(Steps) /\ StopBusy \in Seq(Steps) /\ StopTrigger \in Seq(Steps)
BY Lists, CallStepsAreSteps, SeqMonotonic DEF Steps

LEMMA ClientLists == \A c \in DOMAIN ClientCalls : ClientCalls[c] \in Seq(Steps)
<1>1. /\ <<"markBox">> \in Seq(Steps)
      /\ <<"unlock", "markAll">> \in Seq(Steps)
      /\ <<"stopIfActive", "unlock">> \in Seq(Steps)
      /\ <<"restore", "stopped">> \in Seq(Steps)
      /\ <<"Quitting", "cleanQuit">> \in Seq(Steps)
      /\ <<"Error", "cleanQuit">> \in Seq(Steps)
  BY DEF Steps, MainStep, AppState
<1>2. /\ <<"markBox">> \o Run \in Seq(Steps)
      /\ WaitIdle \o <<"unlock", "markAll">> \o Run \in Seq(Steps)
      /\ Stop \o <<"restore", "stopped">> \in Seq(Steps)
  BY <1>1, CallLists, ConcatProperties
<1>3. DOMAIN ClientCalls
        = {"tick", "clock", "redraw", "layout", "reload", "sleep", "quit", "fail"}
  BY DEF ClientCalls
<1>4. /\ ClientCalls["tick"] = Run
      /\ ClientCalls["clock"] = RunDirect
      /\ ClientCalls["redraw"] = <<"markBox">> \o Run
      /\ ClientCalls["layout"] = WaitIdle \o <<"unlock", "markAll">> \o Run
      /\ ClientCalls["reload"] = <<"stopIfActive", "unlock">>
      /\ ClientCalls["sleep"] = Stop \o <<"restore", "stopped">>
      /\ ClientCalls["quit"] = <<"Quitting", "cleanQuit">>
      /\ ClientCalls["fail"] = <<"Error", "cleanQuit">>
  BY DEF ClientCalls
<1> QED  BY <1>1, <1>2, <1>3, <1>4, CallLists

LEMMA PostEvents ==
  ASSUME queue \in Seq(Event), Len(queue) <= QueueLength, NEW e \in Event, Post(e)
  PROVE  queue' \in Seq(Event) /\ Len(queue') <= QueueLength
BY BoundsAssumption, AppendProperties DEF Post

LEMMA ThreadsTypeInit == ThreadsInit => ThreadsTypeOK
<1> SUFFICES ASSUME ThreadsInit PROVE ThreadsTypeOK
  OBVIOUS
<1>1. queue \in Seq(Event) /\ Len(queue) <= QueueLength
  BY BoundsAssumption DEF ThreadsInit
<1>2. permits \in 0 .. MaxPermits /\ faults \in 0 .. MaxFaults
  BY BoundsAssumption DEF ThreadsInit
<1>3. /\ tag \in RunnerState /\ seen \in RunnerState
      /\ app \in AppState
      /\ rpc \in RunnerStep
      /\ taken \subseteq Dirty /\ pending \subseteq Dirty
  BY DEF ThreadsInit, RunnerState, AppState, RunnerStep
<1>4. /\ wake \in BOOLEAN /\ locked \in BOOLEAN /\ quitting \in BOOLEAN
      /\ tty \in {"app", "shell"}
  BY DEF ThreadsInit
<1> QED
  BY <1>1, <1>2, <1>3, <1>4 DEF ThreadsTypeOK

LEMMA TypeInit == RunnerInit => TypeOK
<1> SUFFICES ASSUME RunnerInit PROVE TypeOK
  OBVIOUS
<1>1. todo \in Seq(Steps)
  BY DEF RunnerInit, Steps
<1> QED  BY <1>1, ThreadsTypeInit DEF RunnerInit, TypeOK, Steps

LEMMA TypeThread ==
  ASSUME ThreadsTypeOK, RunnerThread
  PROVE  ThreadsTypeOK' /\ todo' = todo
<1> USE DEF ThreadsTypeOK, shared, main, RunnerStep
<1>1. CASE RunnerStart  BY <1>1 DEF RunnerStart
<1>2. CASE RunnerTest  BY <1>2 DEF RunnerTest
<1>3. CASE RunnerIdle  BY <1>3 DEF RunnerIdle, RunnerState
<1>4. CASE RunnerAcquire  BY <1>4, BoundsAssumption DEF RunnerAcquire
<1>5. CASE RunnerWoken  BY <1>5 DEF RunnerWoken
<1>6. CASE RunnerEntry  BY <1>6 DEF RunnerEntry
<1>7. CASE RunnerCollect  BY <1>7 DEF RunnerCollect, RunnerState
<1>8. CASE RunnerTake  BY <1>8 DEF RunnerTake
<1>9. CASE RunnerCollected  BY <1>9 DEF RunnerCollected
<1>10. CASE RunnerCoresChanged
  <2>1. queue' \in Seq(Event) /\ Len(queue') <= QueueLength
    BY <1>10, PostEvents DEF RunnerCoresChanged, RunnerFault, Event
  <2> QED  BY <1>10, <2>1, BoundsAssumption DEF RunnerCoresChanged, RunnerFault
<1>11. CASE RunnerThrows
  <2>1. queue' \in Seq(Event) /\ Len(queue') <= QueueLength
    BY <1>11, PostEvents DEF RunnerThrows, RunnerFault, Event
  <2> QED  BY <1>11, <2>1, BoundsAssumption DEF RunnerThrows, RunnerFault
<1>12. CASE RunnerRaise  BY <1>12 DEF RunnerRaise
<1>13. CASE RunnerCheck  BY <1>13 DEF RunnerCheck
<1>14. CASE RunnerDraw  BY <1>14 DEF RunnerDraw, RunnerState
<1>15. CASE RunnerEmit  BY <1>15 DEF RunnerEmit
<1> QED
  BY <1>1, <1>2, <1>3, <1>4, <1>5, <1>6, <1>7, <1>8, <1>9, <1>10, <1>11, <1>12,
     <1>13, <1>14, <1>15 DEF RunnerThread

LEMMA TypeCall ==
  ASSUME ThreadsTypeOK, MainCall
  PROVE  ThreadsTypeOK'
<1>1. ASSUME UNCHANGED <<shared, runner, locked, tty, quitting, seen>> PROVE ThreadsTypeOK'
  BY <1>1 DEF ThreadsTypeOK, shared, runner
<1> USE DEF ThreadsTypeOK, runner, shared
<1>3. CASE \/ IfActive \/ AwaitCollected \/ AwaitDrawn \/ AwaitStarted \/ RunGuard
           \/ RunWriteDirect \/ Unlock \/ IdleCheck \/ IdleBlock \/ StopTryLock
           \/ CleanQuitJoin
  BY <1>3, <1>1
  DEF IfActive, AwaitCollected, AwaitDrawn, AwaitStarted, RunGuard, RunWriteDirect,
      Unlock, IdleCheck, IdleBlock, StopTryLock, CleanQuitJoin
<1>4. CASE RunRestart  BY <1>4 DEF RunRestart, RunnerState
<1>5. CASE RunRecreate  BY <1>5 DEF RunRecreate, RunnerStep
<1>6. CASE RunConfigure  BY <1>6 DEF RunConfigure
<1>7. CASE Trigger
  <2>1. permits' \in 0 .. MaxPermits
    BY <1>7, BoundsAssumption DEF Trigger
  <2> QED  BY <1>7, <2>1 DEF Trigger
<1>8. CASE UnlockWrite  BY <1>8 DEF UnlockWrite
<1>9. CASE IdleLoad  BY <1>9 DEF IdleLoad
<1>10. CASE StopMark  BY <1>10 DEF StopMark, RunnerState
<1>11. CASE StopVerdict  BY <1>11 DEF StopVerdict, RunnerState
<1>12. CASE StopReset  BY <1>12 DEF StopReset, RunnerState
<1>13. CASE CleanQuit  BY <1>13 DEF CleanQuit
<1>14. CASE Restore  BY <1>14 DEF Restore
<1>15. CASE MarkAll  BY <1>15 DEF MarkAll
<1>16. CASE MarkBox  BY <1>16 DEF MarkBox
<1>17. CASE StoreApp  BY <1>17 DEF StoreApp
<1> QED
  BY <1>3, <1>4, <1>5, <1>6, <1>7, <1>8, <1>9, <1>10, <1>11, <1>12, <1>13, <1>14,
     <1>15, <1>16, <1>17 DEF MainCall

LEMMA TypeCancelled ==
  ASSUME ThreadsTypeOK, RunnerCancelled
  PROVE  ThreadsTypeOK' /\ todo' = todo
BY DEF RunnerCancelled, ThreadsTypeOK, shared, main, RunnerStep

LEMMA TypeStep ==
  ASSUME TypeOK, [RunnerNext]_rvars
  PROVE  TypeOK'
<1>1. CASE RunnerThread  BY <1>1, TypeThread DEF TypeOK
<1>2. CASE RunnerCancelled  BY <1>2, TypeCancelled DEF TypeOK
<1>3. CASE MainCall
  BY <1>3, TypeCall, CallKeepsSteps DEF TypeOK, Steps
<1>4. CASE Client
  <2>1. PICK c \in Calls : todo' = ClientCalls[c] \o <<"client">>
    BY <1>4 DEF Client
  <2>2. ClientCalls[c] \in Seq(Steps) /\ <<"client">> \in Seq(Steps)
    BY CallsAssumption, ClientLists DEF Steps
  <2>3. todo' \in Seq(Steps)
    BY <2>1, <2>2, ConcatProperties
  <2> QED  BY <1>4, <2>3 DEF Client, TypeOK, ThreadsTypeOK, shared, runner, Steps
<1>5. CASE Exited \/ UNCHANGED rvars
  BY <1>5 DEF Exited, rvars, TypeOK, ThreadsTypeOK
<1> QED  BY <1>1, <1>2, <1>3, <1>4, <1>5 DEF RunnerNext

(* Every variable keeps its type: no release, no event and no list of      *)
(* calls leaves its bounds.                                                *)
THEOREM TypeCorrect == RunnerSpec => []TypeOK
<1> QED  BY TypeInit, TypeStep, PTL DEF RunnerSpec

---------------------------------------------------------------------------
(* The tag is never Collecting or Drawing between the runner's store of    *)
(* Idle and its next store: everyone else stores Idle or Stopping only.    *)
WaitInv == rpc \in {"acquire", "woken", "entry", "collect"} => tag \notin Active

LEMMA WaitStep ==
  ASSUME WaitInv, [RunnerNext]_rvars
  PROVE  WaitInv'
<1> USE DEF WaitInv, Active, shared, runner, main
<1>1. CASE RunnerThread
  BY <1>1
  DEF RunnerThread, RunnerStart, RunnerTest, RunnerIdle, RunnerAcquire, RunnerWoken,
      RunnerEntry, RunnerCollect, RunnerTake, RunnerCollected, RunnerCoresChanged,
      RunnerThrows, RunnerFault, RunnerRaise, RunnerCheck, RunnerDraw, RunnerEmit
<1>2. CASE RunnerCancelled  BY <1>2 DEF RunnerCancelled
<1>3. CASE MainCall
  BY <1>3
  DEF MainCall, IfActive, AwaitCollected, AwaitDrawn, AwaitStarted, RunRestart,
      RunRecreate, RunGuard, RunWriteDirect, RunConfigure, Trigger, Unlock, UnlockWrite,
      IdleCheck, IdleLoad, IdleBlock, StopMark, StopTryLock, StopVerdict, StopReset,
      CleanQuit, CleanQuitJoin, Restore, MarkAll, MarkBox, StoreApp
<1>4. CASE Client \/ Exited \/ UNCHANGED rvars
  BY <1>4 DEF Client, Exited, rvars
<1> QED  BY <1>1, <1>2, <1>3, <1>4 DEF RunnerNext

(* Whatever the main thread stores into the tag, and however late either   *)
(* thread is, the runner is inactive when it comes out of thread_wait().   *)
THEOREM WokenInactive == RunnerSpec => []WokenIsInactive
<1>1. RunnerInit => WaitInv
  BY DEF RunnerInit, ThreadsInit, WaitInv
<1>2. WaitInv => WokenIsInactive
  BY DEF WaitInv, WokenIsInactive
<1> QED  BY <1>1, <1>2, WaitStep, PTL DEF RunnerSpec
---------------------------------------------------------------------------
(* Exclusion, with a runner that meets the deadlines that count and calls  *)
(* that never stop() a runner at work, except to quit.                     *)

Prompt ==
  /\ Slow \subseteq {"brief"}
  /\ Calls \subseteq {"tick", "clock", "redraw", "layout", "quit"}

\* Step b may stand behind step a in todo, before and after the quit.
RunThen(a, b) ==
  \/ a = "awaitCollected" /\ b = "awaitDrawn"
  \/ a = "awaitDrawn" /\ b = "restart"
  \/ a = "restart" /\ b \in {"guard", "guardDirect"}
  \/ a \in {"guard", "guardDirect", "writeDirect", "awaitStarted"} /\ b = "client"
  \/ a \in {"unlock", "unlockWrite"} /\ b \in {"configure", "markAll"}
  \/ a = "configure" /\ b = "trigger"
  \/ a = "trigger" /\ b = "awaitStarted"
  \/ a \in {"markBox", "markAll"} /\ b = "awaitCollected"
  \/ a \in {"idleCheck", "idleLoad", "idleBlock"} /\ b \in {"unlock", "unlockWrite"}
  \/ a = "Quitting" /\ b = "cleanQuit"
  \/ a = "cleanQuit" /\ b = "client"

QuitThen(a, b) ==
  \/ a = "cleanQuit" /\ b = "client"
  \/ a = "stopMark" /\ b = "stopTryLock"
  \/ a = "awaitCollected" /\ b = "awaitDrawn"
  \/ a = "awaitDrawn" /\ b = "stopVerdict"
  \/ a = "trigger" /\ b = "awaitStarted"
  \/ a = "awaitStarted" /\ b = "awaitCollectedBriefly"
  \/ a = "awaitCollectedBriefly" /\ b = "stopReset"
  \/ a \in {"stopTryLock", "stopVerdict", "stopReset", "stopUnlock"} /\ b = "join"
  \/ a = "join" /\ b = "restore"
  \/ a = "restore" /\ b = "exited"
  \/ a = "exited" /\ b = "client"

Then(state, a, b) == IF state = "Quitting" THEN QuitThen(a, b) ELSE RunThen(a, b)

Chain(state, s) == \A i \in 1 .. Len(s) - 1 : Then(state, s[i], s[i + 1])

\* No cycle is about to begin, and none is under way.
Resting == permits = 0 /\ rpc \notin {"woken", "entry", "collect"}
Quiet == Resting /\ tag \notin Active

RestingStep == {"client", "markBox", "markAll", "Quitting", "awaitCollected",
                "idleCheck", "idleLoad", "idleBlock"}
QuietStep == {"restart", "guard", "guardDirect", "writeDirect", "unlock",
              "unlockWrite", "configure", "trigger"}
UnpermittedStep == {"cleanQuit", "stopMark", "stopTryLock", "awaitCollected",
                    "awaitDrawn", "stopVerdict", "trigger"}
LastStep == {"awaitStarted", "awaitCollectedBriefly", "stopReset", "stopUnlock",
             "join", "restore", "exited"}

\* What is true of the runner while btop runs.
CycleInv ==
  /\ app \in {"Running", "Quitting"}
  /\ app = "Running" =>
       /\ tag # "Stopping"
       /\ rpc # "done"
       /\ rpc \in Reading => tag \in Active
       /\ ~quitting

\* What the main thread knows at its next step.
RunInv(step) ==
  /\ step \in RestingStep \cup QuietStep \cup {"awaitDrawn", "awaitStarted"}
  /\ step \in RestingStep => Resting
  /\ step = "awaitDrawn" => Resting /\ tag # "Collecting"
  /\ step \in QuietStep => Quiet
  /\ step = "awaitStarted" =>
       \/ permits = 0
       \/ permits = 1 /\ rpc \in {"start", "test", "idle", "acquire"} /\ tag = "Idle"

QuitInv(step) ==
  /\ step \in UnpermittedStep \cup LastStep
  /\ step = "cleanQuit" => ~quitting
  /\ step \in UnpermittedStep => permits = 0
  /\ step \in {"restore", "exited"} => rpc = "done"

ExclusionInv ==
  /\ todo \in Seq(Steps)
  /\ permits \in 0 .. 1
  /\ WaitInv
  /\ CycleInv
  /\ Chain(app, todo)
  /\ todo # <<>> =>
       IF app = "Quitting" THEN QuitInv(Head(todo)) ELSE RunInv(Head(todo))

---------------------------------------------------------------------------
(* Lists of steps that stand behind one another as they may.               *)

LEMMA ChainTail ==
  ASSUME NEW state, NEW s \in Seq(Steps), s # <<>>, Chain(state, s)
  PROVE  /\ Tail(s) \in Seq(Steps)
         /\ Chain(state, Tail(s))
         /\ Tail(s) # <<>> => Then(state, Head(s), Head(Tail(s)))
<1>1. /\ Tail(s) \in Seq(Steps)
      /\ Len(Tail(s)) = Len(s) - 1
      /\ \A i \in 1 .. Len(Tail(s)) : Tail(s)[i] = s[i + 1]
      /\ Len(s) \in Nat \ {0}
  BY HeadTailProperties, EmptySeq, LenProperties
<1>2. Chain(state, Tail(s))
  <2> SUFFICES ASSUME NEW i \in 1 .. Len(Tail(s)) - 1
               PROVE  Then(state, Tail(s)[i], Tail(s)[i + 1])
    BY DEF Chain
  <2>1. Tail(s)[i] = s[i + 1] /\ Tail(s)[i + 1] = s[(i + 1) + 1]
    BY <1>1
  <2>2. i + 1 \in 1 .. Len(s) - 1
    BY <1>1
  <2> QED  BY <2>1, <2>2 DEF Chain
<1>3. ASSUME Tail(s) # <<>> PROVE Then(state, Head(s), Head(Tail(s)))
  <2>1. Len(Tail(s)) \in Nat \ {0} /\ Head(Tail(s)) = Tail(s)[1] /\ Head(s) = s[1]
    BY <1>1, <1>3, HeadTailProperties, EmptySeq, LenProperties
  <2>2. 1 \in 1 .. Len(s) - 1 /\ Head(Tail(s)) = s[1 + 1]
    BY <1>1, <2>1
  <2> QED  BY <2>1, <2>2 DEF Chain
<1> QED  BY <1>1, <1>2, <1>3

LEMMA ChainConcat ==
  ASSUME NEW state, NEW s \in Seq(Steps), NEW t \in Seq(Steps),
         Chain(state, s), Chain(state, t), s # <<>>,
         t # <<>> => Then(state, s[Len(s)], Head(t))
  PROVE  /\ s \o t \in Seq(Steps)
         /\ s \o t # <<>>
         /\ Head(s \o t) = s[1]
         /\ Chain(state, s \o t)
<1>1. /\ s \o t \in Seq(Steps)
      /\ Len(s \o t) = Len(s) + Len(t)
      /\ \A i \in 1 .. Len(s) + Len(t) :
           (s \o t)[i] = IF i <= Len(s) THEN s[i] ELSE t[i - Len(s)]
  BY ConcatProperties
<1>2. Len(s) \in Nat \ {0} /\ Len(t) \in Nat
  BY EmptySeq, LenProperties
<1>3. s \o t # <<>> /\ Head(s \o t) = s[1]
  BY <1>1, <1>2, HeadTailProperties, EmptySeq
<1>4. Chain(state, s \o t)
  <2> SUFFICES ASSUME NEW i \in 1 .. Len(s \o t) - 1
               PROVE  Then(state, (s \o t)[i], (s \o t)[i + 1])
    BY DEF Chain
  <2>1. CASE i < Len(s)
    <3>1. (s \o t)[i] = s[i] /\ (s \o t)[i + 1] = s[i + 1] /\ i \in 1 .. Len(s) - 1
      BY <2>1, <1>1, <1>2
    <3> QED  BY <3>1 DEF Chain
  <2>2. CASE i = Len(s)
    <3>1. (s \o t)[i] = s[Len(s)] /\ (s \o t)[i + 1] = t[1] /\ Len(t) >= 1
      BY <2>2, <1>1, <1>2
    <3>2. t # <<>> /\ Head(t) = t[1]
      BY <3>1, <1>2, HeadTailProperties, EmptySeq
    <3> QED  BY <3>1, <3>2
  <2>3. CASE i > Len(s)
    <3>1. /\ (s \o t)[i] = t[i - Len(s)]
          /\ (s \o t)[i + 1] = t[(i - Len(s)) + 1]
          /\ i - Len(s) \in 1 .. Len(t) - 1
      BY <2>3, <1>1, <1>2
    <3> QED  BY <3>1 DEF Chain
  <2> QED  BY <2>1, <2>2, <2>3, <1>1, <1>2
<1> QED  BY <1>1, <1>3, <1>4

\* What a step leaves of a chain.
LEMMA ChainReturn ==
  ASSUME todo \in Seq(Steps), todo # <<>>, Chain(app, todo), Return
  PROVE  /\ todo' \in Seq(Steps)
         /\ Chain(app, todo')
         /\ todo' # <<>> => Then(app, Head(todo), Head(todo'))
BY ChainTail DEF Return

LEMMA ChainBecome ==
  ASSUME todo \in Seq(Steps), todo # <<>>, Chain(app, todo),
         NEW s \in Seq(Steps), s # <<>>, Chain(app, s), Become(s),
         \A b : Then(app, Head(todo), b) => Then(app, s[Len(s)], b)
  PROVE  /\ todo' \in Seq(Steps)
         /\ Chain(app, todo')
         /\ Head(todo') = s[1]
<1>1. /\ Tail(todo) \in Seq(Steps)
      /\ Chain(app, Tail(todo))
      /\ Tail(todo) # <<>> => Then(app, s[Len(s)], Head(Tail(todo)))
  BY ChainTail
<1>2. todo' = s \o Tail(todo)
  BY DEF Become
<1> QED  BY <1>1, <1>2, ChainConcat

LEMMA RunLinks ==
  ASSUME NEW state, state # "Quitting"
  PROVE  /\ Chain(state, <<"unlock", "configure", "trigger", "awaitStarted">>)
         /\ Chain(state, <<"writeDirect">>)
         /\ Chain(state, WaitIdle \o <<"unlockWrite">>)
         /\ Chain(state, <<"idleLoad">>)
         /\ Chain(state, <<"idleBlock">>)
         /\ Chain(state, <<"idleCheck">>)
         /\ Chain(state, <<"client">>)
         /\ Chain(state, <<"Quitting", "cleanQuit">>)
         /\ Chain(state, <<"markBox">>)
         /\ Chain(state, <<"unlock", "markAll">>)
         /\ Chain(state, WaitIdle)
         /\ Chain(state, AwaitDone)
         /\ Chain(state, <<"restart", "guard">>)
         /\ Chain(state, <<"restart", "guardDirect">>)
BY DEF Chain, Then, RunThen, WaitIdle, AwaitDone

LEMMA QuitLinks ==
  /\ Chain("Quitting", Stop \o <<"join", "restore", "exited">>)
  /\ Chain("Quitting", StopBusy)
  /\ Chain("Quitting", <<"stopUnlock">>)
  /\ Chain("Quitting", StopTrigger)
BY DEF Chain, Then, QuitThen, Stop, StopBusy, AwaitDone, StopTrigger

\* Calls that begin with the step a and end with the step b.
Call(t, a, b) ==
  /\ t \in Seq(Steps) /\ t # <<>>
  /\ t[1] = a /\ t[Len(t)] = b
  /\ Chain("Running", t)

LEMMA Joined ==
  ASSUME NEW t, NEW u, NEW a, NEW b, NEW c, NEW d,
         Call(t, a, b), Call(u, c, d), RunThen(b, c)
  PROVE  Call(t \o u, a, d)
<1>1. /\ t \in Seq(Steps) /\ u \in Seq(Steps)
      /\ Len(t) \in Nat \ {0} /\ Len(u) \in Nat \ {0}
      /\ t # <<>> /\ Head(u) = u[1]
  BY EmptySeq, HeadTailProperties DEF Call
<1>2. /\ t \o u \in Seq(Steps)
      /\ t \o u # <<>>
      /\ Chain("Running", t \o u)
  BY <1>1, ChainConcat DEF Call, Then
<1>3. (t \o u)[1] = t[1] /\ (t \o u)[Len(t \o u)] = u[Len(u)]
  BY <1>1, ConcatProperties
<1> QED  BY <1>2, <1>3 DEF Call

LEMMA SmallCalls ==
  /\ Call(<<"client">>, "client", "client")
  /\ Call(<<"markBox">>, "markBox", "markBox")
  /\ Call(<<"unlock", "markAll">>, "unlock", "markAll")
  /\ Call(<<"Quitting", "cleanQuit">>, "Quitting", "cleanQuit")
  /\ Call(WaitIdle, "idleCheck", "idleCheck")
  /\ Call(AwaitDone, "awaitCollected", "awaitDrawn")
  /\ Call(<<"restart", "guard">>, "restart", "guard")
  /\ Call(<<"restart", "guardDirect">>, "restart", "guardDirect")
BY RunLinks DEF Call, Steps, MainStep, AppState, AwaitDone, WaitIdle

\* A call of the Client is a chain of its own, up to its return.
LEMMA CallLinks ==
  ASSUME NEW c \in {"tick", "clock", "redraw", "layout", "quit"}
  PROVE  \E a \in RestingStep : Call(ClientCalls[c] \o <<"client">>, a, "client")
<1>1. Call(Run, "awaitCollected", "guard") /\ Call(RunDirect, "awaitCollected", "guardDirect")
  BY SmallCalls, Joined DEF Run, RunDirect, RunThen
<1>2. CASE c = "tick"
  <2>1. ClientCalls[c] = Run
    BY <1>2 DEF ClientCalls
  <2>2. Call(Run \o <<"client">>, "awaitCollected", "client")
    BY <1>1, SmallCalls, Joined DEF RunThen
  <2> QED  BY <2>1, <2>2 DEF RestingStep
<1>3. CASE c = "clock"
  <2>1. ClientCalls[c] = RunDirect
    BY <1>3 DEF ClientCalls
  <2>2. Call(RunDirect \o <<"client">>, "awaitCollected", "client")
    BY <1>1, SmallCalls, Joined DEF RunThen
  <2> QED  BY <2>1, <2>2 DEF RestingStep
<1>4. CASE c = "redraw"
  <2>1. ClientCalls[c] = <<"markBox">> \o Run
    BY <1>4 DEF ClientCalls
  <2>2. Call(<<"markBox">> \o Run, "markBox", "guard")
    BY <1>1, SmallCalls, Joined DEF RunThen
  <2>3. Call((<<"markBox">> \o Run) \o <<"client">>, "markBox", "client")
    BY <2>2, SmallCalls, Joined DEF RunThen
  <2> QED  BY <2>1, <2>3 DEF RestingStep
<1>5. CASE c = "layout"
  <2>1. ClientCalls[c] = (WaitIdle \o <<"unlock", "markAll">>) \o Run
    BY <1>5 DEF ClientCalls
  <2>2. Call(WaitIdle \o <<"unlock", "markAll">>, "idleCheck", "markAll")
    BY SmallCalls, Joined DEF RunThen
  <2>3. Call((WaitIdle \o <<"unlock", "markAll">>) \o Run, "idleCheck", "guard")
    BY <1>1, <2>2, Joined DEF RunThen
  <2>4. Call(((WaitIdle \o <<"unlock", "markAll">>) \o Run) \o <<"client">>, "idleCheck", "client")
    BY <2>3, SmallCalls, Joined DEF RunThen
  <2> QED  BY <2>1, <2>4 DEF RestingStep
<1>6. CASE c = "quit"
  <2>1. ClientCalls[c] = <<"Quitting", "cleanQuit">>
    BY <1>6 DEF ClientCalls
  <2>2. Call(<<"Quitting", "cleanQuit">> \o <<"client">>, "Quitting", "client")
    BY SmallCalls, Joined DEF RunThen
  <2> QED  BY <2>1, <2>2 DEF RestingStep
<1> QED  BY <1>2, <1>3, <1>4, <1>5, <1>6

LEMMA ExclusionInit == RunnerInit => ExclusionInv
<1> SUFFICES ASSUME RunnerInit PROVE ExclusionInv
  OBVIOUS
<1>1. todo = <<"client">> /\ app = "Running" /\ permits = 0 /\ rpc = "start"
      /\ tag = "Idle" /\ ~quitting
  BY DEF RunnerInit, ThreadsInit
<1>2. todo \in Seq(Steps) /\ Chain(app, todo) /\ Head(todo) = "client"
  BY <1>1, SmallCalls DEF Call
<1>3. WaitInv /\ CycleInv /\ RunInv("client")
  BY <1>1 DEF WaitInv, CycleInv, RunInv, RestingStep, QuietStep, Resting, Reading
<1> QED  BY <1>1, <1>2, <1>3 DEF ExclusionInv

LEMMA ExclusionThread ==
  ASSUME TypeOK, ExclusionInv, RunnerThread
  PROVE  ExclusionInv'
<1>1. UNCHANGED <<todo, app, quitting>>
  BY DEF RunnerThread, RunnerStart, RunnerTest, RunnerIdle, RunnerAcquire, RunnerWoken,
         RunnerEntry, RunnerCollect, RunnerTake, RunnerCollected, RunnerCoresChanged,
         RunnerThrows, RunnerFault, RunnerRaise, RunnerCheck, RunnerDraw, RunnerEmit,
         shared, main
<1>2. WaitInv'
  BY WaitStep DEF ExclusionInv, RunnerNext
<1>3. permits' \in 0 .. 1 /\ (permits = 0 => permits' = 0)
  BY DEF ExclusionInv, RunnerThread, RunnerStart, RunnerTest, RunnerIdle, RunnerAcquire,
         RunnerWoken, RunnerEntry, RunnerCollect, RunnerTake, RunnerCollected,
         RunnerCoresChanged, RunnerThrows, RunnerFault, RunnerRaise, RunnerCheck,
         RunnerDraw, RunnerEmit, shared
<1>4. CASE app = "Quitting"
  <2>1. rpc = "done" => rpc' = "done"
    BY DEF RunnerThread, RunnerStart, RunnerTest, RunnerIdle, RunnerAcquire, RunnerWoken,
           RunnerEntry, RunnerCollect, RunnerTake, RunnerCollected, RunnerCoresChanged,
           RunnerThrows, RunnerFault, RunnerRaise, RunnerCheck, RunnerDraw, RunnerEmit
  <2>2. ASSUME NEW step, QuitInv(step) PROVE QuitInv(step)'
    BY <2>2, <2>1, <1>1, <1>3 DEF QuitInv, UnpermittedStep
  <2> QED  BY <2>2, <1>1, <1>2, <1>3, <1>4 DEF ExclusionInv, CycleInv, Chain
<1>5. CASE app = "Running"
  <2>1. CycleInv'
    BY <1>1, <1>5
    DEF ExclusionInv, CycleInv, Reading, Active, RunnerThread, RunnerStart, RunnerTest,
        RunnerIdle, RunnerAcquire, RunnerWoken, RunnerEntry, RunnerCollect, RunnerTake,
        RunnerCollected, RunnerCoresChanged, RunnerThrows, RunnerFault, RunnerRaise,
        RunnerCheck, RunnerDraw, RunnerEmit, shared
  <2>2. Resting => Resting'
    BY <1>3
    DEF Resting, RunnerThread, RunnerStart, RunnerTest,
        RunnerIdle, RunnerAcquire, RunnerWoken, RunnerEntry, RunnerCollect, RunnerTake,
        RunnerCollected, RunnerCoresChanged, RunnerThrows, RunnerFault, RunnerRaise,
        RunnerCheck, RunnerDraw, RunnerEmit
  <2>3. Resting /\ tag # "Collecting" => tag' # "Collecting"
    BY DEF Resting, RunnerThread, RunnerStart, RunnerTest,
        RunnerIdle, RunnerAcquire, RunnerWoken, RunnerEntry, RunnerCollect, RunnerTake,
        RunnerCollected, RunnerCoresChanged, RunnerThrows, RunnerFault, RunnerRaise,
        RunnerCheck, RunnerDraw, RunnerEmit, shared
  <2>4. Quiet => Quiet'
    <3> SUFFICES ASSUME Quiet PROVE tag' \notin Active
      BY <2>2 DEF Quiet
    <3>1. rpc \notin Reading \cup {"collect"}
      BY <1>5 DEF Quiet, Resting, ExclusionInv, CycleInv
    <3> QED  BY <3>1
      DEF Quiet, Active, Reading, RunnerThread, RunnerStart, RunnerTest,
        RunnerIdle, RunnerAcquire, RunnerWoken, RunnerEntry, RunnerCollect, RunnerTake,
        RunnerCollected, RunnerCoresChanged, RunnerThrows, RunnerFault, RunnerRaise,
        RunnerCheck, RunnerDraw, RunnerEmit, shared
  <2>5. ASSUME permits = 1, rpc \in {"start", "test", "idle", "acquire"}, tag = "Idle"
        PROVE  \/ permits' = 0
               \/ permits' = 1 /\ rpc' \in {"start", "test", "idle", "acquire"} /\ tag' = "Idle"
    BY <2>5, <1>5
      DEF RunnerThread, RunnerStart, RunnerTest,
        RunnerIdle, RunnerAcquire, RunnerWoken, RunnerEntry, RunnerCollect, RunnerTake,
        RunnerCollected, RunnerCoresChanged, RunnerThrows, RunnerFault, RunnerRaise,
        RunnerCheck, RunnerDraw, RunnerEmit, shared
  <2>6. ASSUME NEW step, RunInv(step) PROVE RunInv(step)'
    BY <2>6, <2>2, <2>3, <2>4, <2>5, <1>3 DEF RunInv
  <2> QED  BY <2>1, <2>6, <1>1, <1>2, <1>3, <1>5 DEF ExclusionInv, Chain
<1> QED  BY <1>4, <1>5 DEF ExclusionInv, CycleInv

\* A step of the main thread that returns, or goes on with the steps s,
\* keeps the chain and comes to a step that may stand there.
LEMMA RunReturns ==
  ASSUME ExclusionInv, app = "Running", todo # <<>>, Return, app' = app
  PROVE  /\ todo' \in Seq(Steps)
         /\ Chain(app', todo')
         /\ todo' # <<>> => RunThen(Head(todo), Head(todo'))
BY ChainReturn DEF ExclusionInv, Then

LEMMA RunBecomes ==
  ASSUME ExclusionInv, app = "Running", todo # <<>>, app' = app,
         NEW s \in Seq(Steps), s # <<>>, Chain(app, s), Become(s),
         \A b : RunThen(Head(todo), b) => RunThen(s[Len(s)], b)
  PROVE  /\ todo' \in Seq(Steps)
         /\ Chain(app', todo')
         /\ Head(todo') = s[1]
BY ChainBecome DEF ExclusionInv, Then

\* Before the quit, what the runner is known to do is known from where the
\* main thread is: the waits of run() have seen the last cycle end.
LEMMA ExclusionRun ==
  ASSUME Prompt, TypeOK, ExclusionInv, MainCall, app = "Running"
  PROVE  ExclusionInv'
<1> DEFINE h == Head(todo)
<1>0. todo # <<>>
  BY DEF MainCall, At, IfActive, AwaitCollected, AwaitDrawn, AwaitStarted, RunRestart,
         RunRecreate, RunGuard, RunWriteDirect, RunConfigure, Trigger, Unlock,
         UnlockWrite, IdleCheck, IdleLoad, IdleBlock, StopMark, StopTryLock,
         StopVerdict, StopReset, CleanQuit, CleanQuitJoin, Restore, MarkAll, MarkBox,
         StoreApp
<1>1. /\ RunInv(h)
      /\ h \in RestingStep \cup QuietStep \cup {"awaitDrawn", "awaitStarted"}
  BY <1>0 DEF ExclusionInv, RunInv
<1>2. WaitInv'
  BY WaitStep DEF ExclusionInv, RunnerNext
<1>3. /\ app = "Running" /\ tag # "Stopping" /\ rpc # "done" /\ ~quitting
      /\ (rpc \in Reading => tag \in Active)
      /\ permits \in 0 .. 1
  BY DEF ExclusionInv, CycleInv
<1>4. ASSUME UNCHANGED <<tag, app, permits, rpc, quitting>>,
             todo' \in Seq(Steps), Chain(app', todo'),
             todo' # <<>> => RunInv(Head(todo'))
      PROVE  ExclusionInv'
  <2>1. CycleInv'
    BY <1>4, <1>3 DEF CycleInv
  <2>2. todo' # <<>> => RunInv(Head(todo))'
    BY <1>4 DEF RunInv, Resting, Quiet
  <2> QED  BY <1>2, <1>3, <1>4, <2>1, <2>2 DEF ExclusionInv
<1> USE DEF At
<1>5. CASE AwaitCollected
  <2>1. h = "awaitCollected" /\ tag # "Collecting" /\ Resting
    BY <1>5, <1>1, <1>3 DEF AwaitCollected, RestingStep, QuietStep, Late, Prompt, RunInv
  <2>2. todo' # <<>> => Head(todo') = "awaitDrawn"
    BY <1>0, <1>5, <2>1, RunReturns DEF AwaitCollected, RunThen, shared
  <2>3. RunInv("awaitDrawn")
    BY <2>1 DEF RunInv, RestingStep, QuietStep
  <2> QED  BY <1>0, <1>5, <2>2, <2>3, <1>4, RunReturns DEF AwaitCollected, shared, runner
<1>6. CASE AwaitDrawn
  <2>1. h = "awaitDrawn" /\ tag \notin Active /\ Resting
    BY <1>6, <1>1, <1>3 DEF AwaitDrawn, RestingStep, QuietStep, Late, Prompt, RunInv, Active
  <2>2. todo' # <<>> => Head(todo') = "restart"
    BY <1>0, <1>6, <2>1, RunReturns DEF AwaitDrawn, RunThen, shared
  <2>3. RunInv("restart")
    BY <2>1 DEF RunInv, RestingStep, QuietStep, Quiet
  <2> QED  BY <1>0, <1>6, <2>2, <2>3, <1>4, RunReturns DEF AwaitDrawn, shared, runner
<1>7. CASE AwaitStarted
  <2>1. h = "awaitStarted"
    BY <1>7 DEF AwaitStarted
  <2>2. Resting
    <3>1. \/ tag # "Idle"
          \/ permits = 0 /\ rpc = "acquire"
      BY <1>7, <1>3 DEF AwaitStarted, Late, Prompt
    <3>2. \/ permits = 0
          \/ permits = 1 /\ tag = "Idle"
      BY <1>1, <2>1 DEF RunInv
    <3>3. tag # "Idle" => tag \in Active
      BY <1>3 DEF TypeOK, ThreadsTypeOK, RunnerState, Active
    <3> QED  BY <3>1, <3>2, <3>3 DEF Resting, ExclusionInv, WaitInv
  <2>3. todo' # <<>> => Head(todo') = "client"
    BY <1>0, <1>7, <2>1, RunReturns DEF AwaitStarted, RunThen, shared
  <2>4. RunInv("client")
    BY <2>2 DEF RunInv, RestingStep, QuietStep
  <2> QED  BY <1>0, <1>7, <2>3, <2>4, <1>4, RunReturns DEF AwaitStarted, shared, runner
<1>8. CASE RunRestart
  <2>1. h = "restart" /\ Quiet
    BY <1>8, <1>1 DEF RunRestart, RunInv, QuietStep
  <2>2. tag' = tag /\ Return
    BY <1>8, <2>1 DEF RunRestart, Quiet
  <2>3. todo' # <<>> => Head(todo') \in {"guard", "guardDirect"}
    BY <1>0, <1>8, <2>1, <2>2, RunReturns DEF RunRestart, RunThen
  <2>4. RunInv("guard") /\ RunInv("guardDirect")
    BY <2>1 DEF RunInv, RestingStep, QuietStep
  <2> QED  BY <1>0, <1>8, <2>2, <2>3, <2>4, <1>4, RunReturns DEF RunRestart, runner
<1>9. CASE RunGuard
  <2>1. h \in {"guard", "guardDirect"} /\ Quiet
    BY <1>9, <1>1 DEF RunGuard, RunInv, QuietStep
  <2>2. UNCHANGED <<tag, app, permits, rpc, quitting>>
    BY <1>9 DEF RunGuard, shared, runner
  <2>3. CASE h = "guard"
    <3> DEFINE s == <<"unlock", "configure", "trigger", "awaitStarted">>
    <3>1. s \in Seq(Steps) /\ s # <<>> /\ s[Len(s)] = "awaitStarted" /\ s[1] = "unlock"
      BY DEF Steps, MainStep
    <3>2. Chain(app, s) /\ Become(s)
      BY <1>3, <1>9, <2>3, RunLinks DEF RunGuard
    <3>3. \A b : RunThen("guard", b) => RunThen("awaitStarted", b)
      BY DEF RunThen
    <3>4. RunInv("unlock")
      BY <2>1 DEF RunInv, RestingStep, QuietStep
    <3> HIDE DEF s
    <3> QED  BY <1>0, <1>3, <2>2, <2>3, <3>1, <3>2, <3>3, <3>4, <1>4, RunBecomes
  <2>4. CASE h = "guardDirect"
    <3> DEFINE s == <<"writeDirect">>
    <3>1. s \in Seq(Steps) /\ s # <<>> /\ s[Len(s)] = "writeDirect" /\ s[1] = "writeDirect"
      BY DEF Steps, MainStep
    <3>2. Chain(app, s) /\ Become(s)
      BY <1>3, <1>9, <2>4, RunLinks DEF RunGuard
    <3>3. \A b : RunThen("guardDirect", b) => RunThen("writeDirect", b)
      BY DEF RunThen
    <3>4. RunInv("writeDirect")
      BY <2>1 DEF RunInv, RestingStep, QuietStep
    <3> HIDE DEF s
    <3> QED  BY <1>0, <1>3, <2>2, <2>4, <3>1, <3>2, <3>3, <3>4, <1>4, RunBecomes
  <2> QED  BY <2>1, <2>3, <2>4
<1>10. CASE RunWriteDirect
  <2>1. h = "writeDirect" /\ Quiet
    BY <1>10, <1>1 DEF RunWriteDirect, RunInv, QuietStep
  <2>2. todo' # <<>> => Head(todo') = "client"
    BY <1>0, <1>10, <2>1, RunReturns DEF RunWriteDirect, RunThen, shared
  <2>3. RunInv("client")
    BY <2>1 DEF RunInv, RestingStep, QuietStep, Quiet
  <2> QED  BY <1>0, <1>10, <2>2, <2>3, <1>4, RunReturns DEF RunWriteDirect, shared, runner
<1>11. CASE RunConfigure
  <2>1. h = "configure" /\ Quiet
    BY <1>11, <1>1 DEF RunConfigure, RunInv, QuietStep
  <2>2. todo' # <<>> => Head(todo') = "trigger"
    BY <1>0, <1>11, <2>1, RunReturns DEF RunConfigure, RunThen, shared
  <2>3. RunInv("trigger")
    BY <2>1 DEF RunInv, RestingStep, QuietStep
  <2> QED  BY <1>0, <1>11, <2>2, <2>3, <1>4, RunReturns DEF RunConfigure, shared, runner
<1>12. CASE Trigger
  <2>1. h = "trigger" /\ Quiet
    BY <1>12, <1>1 DEF Trigger, RunInv, QuietStep
  <2>2. todo' # <<>> => Head(todo') = "awaitStarted"
    BY <1>0, <1>12, <2>1, RunReturns DEF Trigger, RunThen
  <2>3. permits' = 1
    BY <1>12, <2>1, BoundsAssumption DEF Trigger, Quiet, Resting
  <2>4. rpc \in {"start", "test", "idle", "acquire"} /\ tag = "Idle"
    BY <2>1, <1>3 DEF Quiet, Resting, TypeOK, ThreadsTypeOK, RunnerStep, Reading,
                      RunnerState, Active
  <2>5. RunInv("awaitStarted")'
    BY <1>12, <2>3, <2>4 DEF RunInv, Trigger, runner, RestingStep, QuietStep
  <2>6. CycleInv'
    BY <1>12, <1>3 DEF CycleInv, Trigger, runner
  <2>7. /\ todo' \in Seq(Steps) /\ Chain(app', todo') /\ app' = "Running"
    BY <1>0, <1>3, <1>12, RunReturns DEF Trigger
  <2> QED  BY <1>2, <2>2, <2>3, <2>5, <2>6, <2>7 DEF ExclusionInv
<1>13. CASE Unlock
  <2>1. h = "unlock" /\ Quiet
    BY <1>13, <1>1 DEF Unlock, RunInv, QuietStep
  <2>2. UNCHANGED <<tag, app, permits, rpc, quitting>>
    BY <1>13 DEF Unlock, shared, runner
  <2>3. CASE locked
    <3> DEFINE s == WaitIdle \o <<"unlockWrite">>
    <3>1. s \in Seq(Steps) /\ s # <<>> /\ s[Len(s)] = "unlockWrite" /\ s[1] = "idleCheck"
      <4>1. WaitIdle \in Seq(Steps) /\ <<"unlockWrite">> \in Seq(Steps)
        BY CallLists DEF Steps, MainStep
      <4> QED  BY <4>1, ConcatProperties DEF WaitIdle
    <3>2. Chain(app, s) /\ Become(s)
      BY <1>3, <1>13, <2>3, RunLinks DEF Unlock
    <3>3. \A b : RunThen("unlock", b) => RunThen("unlockWrite", b)
      BY DEF RunThen
    <3>4. RunInv("idleCheck")
      BY <2>1 DEF RunInv, RestingStep, QuietStep, Quiet
    <3> HIDE DEF s
    <3> QED  BY <1>0, <1>3, <2>1, <2>2, <3>1, <3>2, <3>3, <3>4, <1>4, RunBecomes
  <2>4. CASE ~locked
    <3>1. Return
      BY <1>0, <1>13, <2>4, ReturnIsBecome DEF Unlock, ExclusionInv
    <3>2. todo' # <<>> => Head(todo') \in {"configure", "markAll"}
      BY <1>0, <2>1, <2>2, <3>1, RunReturns DEF RunThen
    <3>3. RunInv("configure") /\ RunInv("markAll")
      BY <2>1 DEF RunInv, RestingStep, QuietStep, Quiet
    <3> QED  BY <1>0, <2>2, <3>1, <3>2, <3>3, <1>4, RunReturns
  <2> QED  BY <2>3, <2>4
<1>14. CASE UnlockWrite
  <2>1. h = "unlockWrite" /\ Quiet
    BY <1>14, <1>1 DEF UnlockWrite, RunInv, QuietStep
  <2>2. todo' # <<>> => Head(todo') \in {"configure", "markAll"}
    BY <1>0, <1>14, <2>1, RunReturns DEF UnlockWrite, RunThen, shared
  <2>3. RunInv("configure") /\ RunInv("markAll")
    BY <2>1 DEF RunInv, RestingStep, QuietStep, Quiet
  <2> QED  BY <1>0, <1>14, <2>2, <2>3, <1>4, RunReturns DEF UnlockWrite, shared, runner
<1>15. CASE IdleCheck
  <2>1. h = "idleCheck" /\ Resting
    BY <1>15, <1>1 DEF IdleCheck, RunInv, RestingStep
  <2>2. UNCHANGED <<tag, app, permits, rpc, quitting>>
    BY <1>15 DEF IdleCheck, shared, runner
  <2>3. CASE tag \in Active
    <3> DEFINE s == <<"idleLoad">>
    <3>1. s \in Seq(Steps) /\ s # <<>> /\ s[Len(s)] = "idleLoad" /\ s[1] = "idleLoad"
      BY DEF Steps, MainStep
    <3>2. Chain(app, s) /\ Become(s)
      BY <1>3, <1>15, <2>3, RunLinks DEF IdleCheck
    <3>3. \A b : RunThen("idleCheck", b) => RunThen("idleLoad", b)
      BY DEF RunThen
    <3>4. RunInv("idleLoad")
      BY <2>1 DEF RunInv, RestingStep, QuietStep
    <3> HIDE DEF s
    <3> QED  BY <1>0, <1>3, <2>1, <2>2, <3>1, <3>2, <3>3, <3>4, <1>4, RunBecomes
  <2>4. CASE tag \notin Active
    <3>1. Return
      BY <1>0, <1>15, <2>4, ReturnIsBecome DEF IdleCheck, ExclusionInv
    <3>2. todo' # <<>> => Head(todo') \in {"unlock", "unlockWrite"}
      BY <1>0, <2>1, <2>2, <3>1, RunReturns DEF RunThen
    <3>3. RunInv("unlock") /\ RunInv("unlockWrite")
      BY <2>1, <2>4 DEF RunInv, RestingStep, QuietStep, Quiet
    <3> QED  BY <1>0, <2>2, <3>1, <3>2, <3>3, <1>4, RunReturns
  <2> QED  BY <2>3, <2>4
<1>16. CASE IdleLoad
  <2> DEFINE s == <<"idleBlock">>
  <2>1. h = "idleLoad" /\ Resting
    BY <1>16, <1>1 DEF IdleLoad, RunInv, RestingStep
  <2>2. s \in Seq(Steps) /\ s # <<>> /\ s[Len(s)] = "idleBlock" /\ s[1] = "idleBlock"
    BY DEF Steps, MainStep
  <2>3. Chain(app, s) /\ Become(s) /\ UNCHANGED <<tag, app, permits, rpc, quitting>>
    BY <1>3, <1>16, RunLinks DEF IdleLoad, shared, runner
  <2>4. \A b : RunThen("idleLoad", b) => RunThen("idleBlock", b)
    BY DEF RunThen
  <2>5. RunInv("idleBlock")
    BY <2>1 DEF RunInv, RestingStep, QuietStep
  <2> HIDE DEF s
  <2> QED  BY <1>0, <1>3, <2>1, <2>2, <2>3, <2>4, <2>5, <1>4, RunBecomes
<1>17. CASE IdleBlock
  <2> DEFINE s == <<"idleCheck">>
  <2>1. h = "idleBlock" /\ Resting
    BY <1>17, <1>1 DEF IdleBlock, RunInv, RestingStep
  <2>2. s \in Seq(Steps) /\ s # <<>> /\ s[Len(s)] = "idleCheck" /\ s[1] = "idleCheck"
    BY DEF Steps, MainStep
  <2>3. Chain(app, s) /\ Become(s) /\ UNCHANGED <<tag, app, permits, rpc, quitting>>
    BY <1>3, <1>17, RunLinks DEF IdleBlock, shared, runner
  <2>4. \A b : RunThen("idleBlock", b) => RunThen("idleCheck", b)
    BY DEF RunThen
  <2>5. RunInv("idleCheck")
    BY <2>1 DEF RunInv, RestingStep, QuietStep
  <2> HIDE DEF s
  <2> QED  BY <1>0, <1>3, <2>1, <2>2, <2>3, <2>4, <2>5, <1>4, RunBecomes
<1>18. CASE MarkAll \/ MarkBox
  <2>1. h \in {"markAll", "markBox"} /\ Resting
    BY <1>18, <1>1 DEF MarkAll, MarkBox, RunInv, RestingStep
  <2>2. Return /\ UNCHANGED <<tag, app, permits, rpc, quitting>>
    BY <1>18 DEF MarkAll, MarkBox, runner
  <2>3. todo' # <<>> => Head(todo') = "awaitCollected"
    BY <1>0, <2>1, <2>2, RunReturns DEF RunThen
  <2>4. RunInv("awaitCollected")
    BY <2>1 DEF RunInv, RestingStep, QuietStep
  <2> QED  BY <1>0, <2>2, <2>3, <2>4, <1>4, RunReturns
<1>19. CASE StoreApp
  <2>1. h = "Quitting" /\ Resting /\ app' = "Quitting"
    BY <1>19, <1>1 DEF StoreApp, RunInv, AppState, RestingStep, QuietStep
  <2>2. /\ todo' \in Seq(Steps)
        /\ Chain("Running", todo')
        /\ todo' # <<>> => Head(todo') = "cleanQuit"
    BY <1>0, <1>3, <1>19, <2>1, ChainReturn DEF StoreApp, ExclusionInv, Then, RunThen
  <2>3. Chain("Quitting", todo')
    <3> SUFFICES ASSUME NEW i \in 1 .. Len(todo') - 1
                 PROVE  QuitThen(todo'[i], todo'[i + 1])
      BY DEF Chain, Then
    <3>1. Len(todo') \in Nat /\ todo' # <<>> /\ todo'[1] = "cleanQuit"
      BY <2>2, EmptySeq, LenProperties, HeadTailProperties
    <3>2. RunThen(todo'[1], todo'[1 + 1])
      BY <2>2, <3>1 DEF Chain, Then
    <3>3. todo'[2] = "client"
      BY <3>1, <3>2 DEF RunThen
    <3>4. Len(todo') < 3
      <4> SUFFICES ASSUME Len(todo') >= 3 PROVE FALSE
        BY <3>1
      <4>1. RunThen(todo'[2], todo'[2 + 1])
        BY <2>2, <3>1 DEF Chain, Then
      <4> QED  BY <4>1, <3>3 DEF RunThen
    <3>5. i = 1
      BY <3>1, <3>4
    <3> QED  BY <3>1, <3>3, <3>5 DEF QuitThen
  <2>4. CycleInv' /\ QuitInv("cleanQuit")'
    BY <1>19, <1>3, <2>1 DEF StoreApp, CycleInv, QuitInv, UnpermittedStep, Resting
  <2> QED  BY <1>2, <1>3, <1>19, <2>1, <2>2, <2>3, <2>4 DEF ExclusionInv, StoreApp
<1>20. ~(\/ IfActive \/ RunRecreate \/ StopMark \/ StopTryLock \/ StopVerdict \/ StopReset
          \/ CleanQuit \/ CleanQuitJoin \/ Restore)
  BY <1>1 DEF IfActive, RunRecreate, StopMark, StopTryLock, StopVerdict, StopReset,
              CleanQuit, CleanQuitJoin, Restore, RestingStep, QuietStep
<1> QED
  BY <1>5, <1>6, <1>7, <1>8, <1>9, <1>10, <1>11, <1>12, <1>13, <1>14, <1>15, <1>16,
     <1>17, <1>18, <1>19, <1>20 DEF MainCall

LEMMA QuitReturns ==
  ASSUME ExclusionInv, app = "Quitting", todo # <<>>, Return, app' = app
  PROVE  /\ todo' \in Seq(Steps)
         /\ Chain(app', todo')
         /\ todo' # <<>> => QuitThen(Head(todo), Head(todo'))
BY ChainReturn DEF ExclusionInv, Then

LEMMA QuitBecomes ==
  ASSUME ExclusionInv, app = "Quitting", todo # <<>>, app' = app,
         NEW s \in Seq(Steps), s # <<>>, Chain("Quitting", s), Become(s),
         \A b : QuitThen(Head(todo), b) => QuitThen(s[Len(s)], b)
  PROVE  /\ todo' \in Seq(Steps)
         /\ Chain(app', todo')
         /\ Head(todo') = s[1]
BY ChainBecome DEF ExclusionInv, Then

\* After it, stop() is called once, gives one permit, and the exit waits for
\* the runner to leave its loop.
LEMMA ExclusionQuit ==
  ASSUME Prompt, TypeOK, ExclusionInv, MainCall, app = "Quitting"
  PROVE  ExclusionInv'
<1> DEFINE h == Head(todo)
<1>0. todo # <<>>
  BY DEF MainCall, At, IfActive, AwaitCollected, AwaitDrawn, AwaitStarted, RunRestart,
         RunRecreate, RunGuard, RunWriteDirect, RunConfigure, Trigger, Unlock,
         UnlockWrite, IdleCheck, IdleLoad, IdleBlock, StopMark, StopTryLock,
         StopVerdict, StopReset, CleanQuit, CleanQuitJoin, Restore, MarkAll, MarkBox,
         StoreApp
<1>1. QuitInv(h) /\ h \in UnpermittedStep \cup LastStep
  BY <1>0 DEF ExclusionInv, QuitInv
<1>2. WaitInv'
  BY WaitStep DEF ExclusionInv, RunnerNext
<1>3. permits \in 0 .. 1 /\ (h \in UnpermittedStep => permits = 0)
  BY <1>1 DEF ExclusionInv, QuitInv
<1>4. ASSUME app' = app, permits' \in 0 .. 1,
             todo' \in Seq(Steps), Chain(app', todo'),
             NEW step, todo' # <<>> => Head(todo') = step, QuitInv(step)'
      PROVE  ExclusionInv'
  <2>1. todo' # <<>> => QuitInv(Head(todo))'
    BY <1>4 DEF QuitInv
  <2> QED  BY <1>2, <1>4, <2>1 DEF ExclusionInv, CycleInv
<1> USE DEF At
<1>5. CASE CleanQuit
  <2> DEFINE s == Stop \o <<"join", "restore", "exited">>
  <2>1. h = "cleanQuit" /\ ~quitting
    BY <1>5, <1>1 DEF CleanQuit, QuitInv
  <2>2. s \in Seq(Steps) /\ s # <<>> /\ s[Len(s)] = "exited" /\ s[1] = "stopMark"
    <3>1. Stop \in Seq(Steps) /\ <<"join", "restore", "exited">> \in Seq(Steps)
      BY CallLists DEF Steps, MainStep
    <3> QED  BY <3>1, ConcatProperties DEF Stop
  <2>3. Chain("Quitting", s) /\ Become(s) /\ UNCHANGED <<app, permits>>
    BY <1>5, <2>1, QuitLinks DEF CleanQuit, shared
  <2>4. \A b : QuitThen("cleanQuit", b) => QuitThen("exited", b)
    BY DEF QuitThen
  <2>5. QuitInv("stopMark")'
    BY <1>3, <2>1, <2>3 DEF QuitInv, UnpermittedStep, LastStep
  <2> HIDE DEF s
  <2> QED  BY <1>0, <1>3, <1>4, <2>1, <2>2, <2>3, <2>4, <2>5, QuitBecomes
<1>6. CASE StopMark
  <2>1. h = "stopMark" /\ Return /\ app' = app /\ permits' \in 0 .. 1
    BY <1>6, <1>1, <1>3 DEF StopMark, shared
  <2>2. todo' # <<>> => Head(todo') = "stopTryLock"
    BY <1>0, <2>1, QuitReturns DEF QuitThen
  <2>3. QuitInv("stopTryLock")'
    BY <1>6, <1>1, <1>3, <2>1 DEF StopMark, QuitInv, UnpermittedStep, LastStep, shared, runner
  <2> QED  BY <1>0, <1>4, <2>1, <2>2, <2>3, QuitReturns
<1>7. CASE StopTryLock
  <2>1. h = "stopTryLock" /\ UNCHANGED <<app, permits>>
    BY <1>7 DEF StopTryLock, shared
  <2>2. CASE Become(StopBusy)
    <3>1. /\ StopBusy \in Seq(Steps) /\ StopBusy # <<>>
          /\ StopBusy[Len(StopBusy)] = "stopVerdict" /\ StopBusy[1] = "awaitCollected"
      BY CallLists DEF StopBusy, AwaitDone
    <3>2. \A b : QuitThen("stopTryLock", b) => QuitThen("stopVerdict", b)
      BY DEF QuitThen
    <3>3. QuitInv("awaitCollected")'
      BY <1>3, <2>1 DEF QuitInv, UnpermittedStep, LastStep
    <3> QED  BY <1>0, <1>3, <1>4, <2>1, <2>2, <3>1, <3>2, <3>3, QuitLinks, QuitBecomes
  <2>3. CASE Become(<<"stopUnlock">>)
    <3> DEFINE s == <<"stopUnlock">>
    <3>1. s \in Seq(Steps) /\ s # <<>> /\ s[Len(s)] = "stopUnlock" /\ s[1] = "stopUnlock"
      BY DEF Steps, MainStep
    <3>2. \A b : QuitThen("stopTryLock", b) => QuitThen("stopUnlock", b)
      BY DEF QuitThen
    <3>3. QuitInv("stopUnlock")'
      BY DEF QuitInv, UnpermittedStep, LastStep
    <3>4. Chain("Quitting", s) /\ Become(s)
      BY <2>3, QuitLinks
    <3> HIDE DEF s
    <3> QED  BY <1>0, <1>3, <1>4, <2>1, <3>1, <3>2, <3>3, <3>4, QuitBecomes
  <2> QED  BY <1>7, <2>2, <2>3 DEF StopTryLock
<1>8. CASE AwaitCollected /\ h = "awaitCollected"
  <2>1. Return /\ UNCHANGED <<app, permits>>
    BY <1>8 DEF AwaitCollected, shared
  <2>2. todo' # <<>> => Head(todo') = "awaitDrawn"
    BY <1>0, <1>8, <2>1, QuitReturns DEF QuitThen
  <2>3. QuitInv("awaitDrawn")'
    BY <1>3, <1>8, <2>1 DEF QuitInv, UnpermittedStep, LastStep
  <2> QED  BY <1>0, <1>3, <1>4, <2>1, <2>2, <2>3, QuitReturns
<1>9. CASE AwaitCollected /\ h = "awaitCollectedBriefly"
  <2>1. Return /\ UNCHANGED <<app, permits>>
    BY <1>9 DEF AwaitCollected, shared
  <2>2. todo' # <<>> => Head(todo') = "stopReset"
    BY <1>0, <1>9, <2>1, QuitReturns DEF QuitThen
  <2>3. QuitInv("stopReset")'
    BY DEF QuitInv, UnpermittedStep, LastStep
  <2> QED  BY <1>0, <1>3, <1>4, <2>1, <2>2, <2>3, QuitReturns
<1>10. CASE AwaitDrawn
  <2>1. h = "awaitDrawn" /\ Return /\ app' = app /\ permits' \in 0 .. 1
    BY <1>10, <1>1, <1>3 DEF AwaitDrawn, shared, UnpermittedStep, LastStep
  <2>2. todo' # <<>> => Head(todo') = "stopVerdict"
    BY <1>0, <2>1, QuitReturns DEF QuitThen
  <2>3. QuitInv("stopVerdict")'
    BY <1>10, <1>1, <1>3, <2>1 DEF AwaitDrawn, QuitInv, UnpermittedStep, LastStep, shared, runner
  <2> QED  BY <1>0, <1>4, <2>1, <2>2, <2>3, QuitReturns
<1>11. CASE StopVerdict
  <2>1. h = "stopVerdict" /\ UNCHANGED <<app, permits>>
    BY <1>11 DEF StopVerdict
  <2>2. CASE Become(StopTrigger)
    <3>1. /\ StopTrigger \in Seq(Steps) /\ StopTrigger # <<>>
          /\ StopTrigger[Len(StopTrigger)] = "stopReset" /\ StopTrigger[1] = "trigger"
      BY CallLists DEF StopTrigger
    <3>2. \A b : QuitThen("stopVerdict", b) => QuitThen("stopReset", b)
      BY DEF QuitThen
    <3>3. QuitInv("trigger")'
      BY <1>3, <2>1 DEF QuitInv, UnpermittedStep, LastStep
    <3> QED  BY <1>0, <1>3, <1>4, <2>1, <2>2, <3>1, <3>2, <3>3, QuitLinks, QuitBecomes
  <2>3. CASE Become(<<>>)
    <3>1. Return
      BY <1>0, <2>3, ReturnIsBecome DEF ExclusionInv
    <3>2. todo' # <<>> => Head(todo') = "join"
      BY <1>0, <2>1, <3>1, QuitReturns DEF QuitThen
    <3>3. QuitInv("join")'
      BY DEF QuitInv, UnpermittedStep, LastStep
    <3> QED  BY <1>0, <1>3, <1>4, <2>1, <3>1, <3>2, <3>3, QuitReturns
  <2> QED  BY <1>11, <2>2, <2>3 DEF StopVerdict
<1>12. CASE Trigger
  <2>1. h = "trigger" /\ Return /\ app' = app /\ permits' \in 0 .. 1
    BY <1>12, <1>1, <1>3, BoundsAssumption DEF Trigger, shared, UnpermittedStep
  <2>2. todo' # <<>> => Head(todo') = "awaitStarted"
    BY <1>0, <2>1, QuitReturns DEF QuitThen
  <2>3. QuitInv("awaitStarted")'
    BY <1>12, <1>1, <1>3, <2>1 DEF Trigger, QuitInv, UnpermittedStep, LastStep, shared, runner
  <2> QED  BY <1>0, <1>4, <2>1, <2>2, <2>3, QuitReturns
<1>13. CASE AwaitStarted
  <2>1. h = "awaitStarted" /\ Return /\ app' = app /\ permits' \in 0 .. 1
    BY <1>13, <1>1, <1>3 DEF AwaitStarted, shared
  <2>2. todo' # <<>> => Head(todo') = "awaitCollectedBriefly"
    BY <1>0, <2>1, QuitReturns DEF QuitThen
  <2>3. QuitInv("awaitCollectedBriefly")'
    BY <1>13, <1>1, <1>3, <2>1 DEF AwaitStarted, QuitInv, UnpermittedStep, LastStep, shared, runner
  <2> QED  BY <1>0, <1>4, <2>1, <2>2, <2>3, QuitReturns
<1>14. CASE StopReset
  <2>1. h \in {"stopReset", "stopUnlock"} /\ Return /\ UNCHANGED <<app, permits>>
    BY <1>14 DEF StopReset
  <2>2. todo' # <<>> => Head(todo') = "join"
    BY <1>0, <2>1, QuitReturns DEF QuitThen
  <2>3. QuitInv("join")'
    BY DEF QuitInv, UnpermittedStep, LastStep
  <2> QED  BY <1>0, <1>3, <1>4, <2>1, <2>2, <2>3, QuitReturns
<1>15. CASE CleanQuitJoin
  <2>1. h = "join" /\ Return /\ UNCHANGED <<app, permits, rpc>>
    BY <1>15 DEF CleanQuitJoin, shared, runner
  <2>2. ~MainHoldsLock
    <3> SUFFICES ASSUME NEW i \in DOMAIN todo, todo[i] = "stopUnlock" PROVE FALSE
      BY DEF MainHoldsLock
    <3>1. /\ todo \in Seq(Steps) /\ i \in 1 .. Len(todo) /\ Len(todo) \in Nat
          /\ todo[1] = "join"
      BY <1>0, <2>1, LenProperties, HeadTailProperties DEF ExclusionInv
    <3>2. i - 1 \in 1 .. Len(todo) - 1
      BY <3>1
    <3>3. Then("Quitting", todo[i - 1], todo[(i - 1) + 1])
      BY <3>2 DEF ExclusionInv, Chain
    <3>4. (i - 1) + 1 = i
      BY <3>1
    <3> QED  BY <3>3, <3>4 DEF Then, QuitThen
  <2>3. rpc = "done"
    BY <1>15, <2>2 DEF CleanQuitJoin, Prompt
  <2>4. todo' # <<>> => Head(todo') = "restore"
    BY <1>0, <2>1, QuitReturns DEF QuitThen
  <2>5. QuitInv("restore")'
    BY <2>1, <2>3 DEF QuitInv, UnpermittedStep, LastStep
  <2> QED  BY <1>0, <1>3, <1>4, <2>1, <2>4, <2>5, QuitReturns
<1>16. CASE Restore
  <2>1. h = "restore" /\ Return /\ app' = app /\ permits' \in 0 .. 1
    BY <1>16, <1>1, <1>3 DEF Restore, shared
  <2>2. todo' # <<>> => Head(todo') = "exited"
    BY <1>0, <2>1, QuitReturns DEF QuitThen
  <2>3. QuitInv("exited")'
    BY <1>16, <1>1, <1>3, <2>1 DEF Restore, QuitInv, UnpermittedStep, LastStep, shared, runner
  <2> QED  BY <1>0, <1>4, <2>1, <2>2, <2>3, QuitReturns
<1>17. ~(\/ IfActive \/ RunRestart \/ RunRecreate \/ RunGuard \/ RunWriteDirect \/ RunConfigure
          \/ Unlock \/ UnlockWrite \/ IdleCheck \/ IdleLoad \/ IdleBlock \/ MarkAll
          \/ MarkBox \/ StoreApp)
  BY <1>1 DEF IfActive, RunRestart, RunRecreate, RunGuard, RunWriteDirect, RunConfigure,
              Unlock, UnlockWrite, IdleCheck, IdleLoad, IdleBlock, MarkAll, MarkBox,
              StoreApp, UnpermittedStep, LastStep, AppState
<1>18. AwaitCollected => h \in {"awaitCollected", "awaitCollectedBriefly"}
  BY DEF AwaitCollected
<1> QED
  BY <1>5, <1>6, <1>7, <1>8, <1>9, <1>10, <1>11, <1>12, <1>13, <1>14, <1>15, <1>16,
     <1>17, <1>18 DEF MainCall

LEMMA ExclusionStep ==
  ASSUME Prompt, TypeOK, ExclusionInv, [RunnerNext]_rvars
  PROVE  ExclusionInv'
<1>1. CASE RunnerThread  BY <1>1, ExclusionThread
<1>2. CASE RunnerCancelled
  <2>1. app = "Quitting"
    BY <1>2 DEF RunnerCancelled, At, ExclusionInv, CycleInv, RunInv, RestingStep, QuietStep
  <2>2. QuitInv("restore")
    BY <1>2, <2>1 DEF RunnerCancelled, At, ExclusionInv
  <2> QED  BY <1>2, <2>2 DEF RunnerCancelled, CancellationPoint, QuitInv
<1>3. CASE MainCall
  <2>1. app \in {"Running", "Quitting"}
    BY DEF ExclusionInv, CycleInv
  <2> QED  BY <1>3, <2>1, ExclusionRun, ExclusionQuit
<1>4. CASE Client
  <2>1. PICK c \in Calls : todo' = ClientCalls[c] \o <<"client">>
    BY <1>4 DEF Client
  <2>2. PICK a \in RestingStep : Call(todo', a, "client")
    BY <2>1, CallLinks DEF Prompt
  <2>3. todo' \in Seq(Steps) /\ Head(todo') = a /\ Chain("Running", todo')
    BY <2>2, HeadTailProperties DEF Call
  <2>4. Head(todo) = "client" /\ todo # <<>>
    BY <1>4 DEF Client
  <2>5. app = "Running" /\ Resting
    BY <2>4 DEF ExclusionInv, CycleInv, QuitInv, RunInv, UnpermittedStep, LastStep, RestingStep
  <2>6. UNCHANGED <<tag, app, permits, rpc, quitting>>
    BY <1>4 DEF Client, shared, runner
  <2>7. RunInv(a)'
    BY <2>5, <2>6 DEF RunInv, Resting, RestingStep, QuietStep
  <2>8. RunInv(Head(todo))'
    BY <2>3, <2>7 DEF RunInv
  <2> QED  BY <2>3, <2>5, <2>6, <2>8 DEF ExclusionInv, WaitInv, CycleInv
<1>5. CASE Exited \/ UNCHANGED rvars
  <2>1. UNCHANGED rvars
    BY <1>5 DEF Exited
  <2> QED  BY <2>1 DEF rvars, ExclusionInv, WaitInv, CycleInv, Chain, RunInv, QuitInv, Resting,
                      Quiet
<1> QED  BY <1>1, <1>2, <1>3, <1>4, <1>5 DEF RunnerNext

(* What the main thread knows of the runner at each of its steps holds     *)
(* whenever btop is in that step.                                          *)
THEOREM Exclusion ==
  ASSUME Prompt
  PROVE  RunnerSpec => []ExclusionInv
<1>1. TypeOK /\ ExclusionInv /\ [RunnerNext]_rvars => (TypeOK /\ ExclusionInv)'
  BY Prompt, TypeStep, ExclusionStep
<1>2. RunnerInit => TypeOK /\ ExclusionInv
  BY TypeInit, ExclusionInit
<1> QED  BY <1>1, <1>2, PTL DEF RunnerSpec

(* With Prompt, run() never assigns current_conf under a cycle that reads  *)
(* it.                                                                     *)
THEOREM ConfiguresAlone ==
  ASSUME Prompt
  PROVE  RunnerSpec => []ConfigureExclusive
<1>1. ExclusionInv => ConfigureExclusive
  BY DEF ExclusionInv, ConfigureExclusive, At, CycleInv, RunInv, QuitInv, QuietStep,
         Quiet, UnpermittedStep, LastStep
<1> QED  BY <1>1, Exclusion, PTL

(* With Prompt, Config::unlock() never overwrites the settings under a     *)
(* cycle.                                                                  *)
THEOREM UnlocksAlone ==
  ASSUME Prompt
  PROVE  RunnerSpec => []UnlockExclusive
<1>1. ExclusionInv => UnlockExclusive
  BY DEF ExclusionInv, UnlockExclusive, At, CycleInv, RunInv, QuitInv, QuietStep,
         Quiet, UnpermittedStep, LastStep
<1> QED  BY <1>1, Exclusion, PTL

(* With Prompt, the binary semaphore do_work is never released twice.      *)
THEOREM OnePermit ==
  ASSUME Prompt
  PROVE  RunnerSpec => []PermitsBinary
<1>1. ExclusionInv => PermitsBinary
  BY DEF ExclusionInv, PermitsBinary
<1> QED  BY <1>1, Exclusion, PTL

(* With Prompt, clean_quit() ends the process behind the runner, never in  *)
(* the middle of a cycle.                                                  *)
THEOREM ExitsLast ==
  ASSUME Prompt
  PROVE  RunnerSpec => []ExitAfterRunner
<1>1. ExclusionInv => ExitAfterRunner
  BY DEF ExclusionInv, ExitAfterRunner, At, CycleInv, RunInv, QuitInv, RestingStep, QuietStep
<1> QED  BY <1>1, Exclusion, PTL

---------------------------------------------------------------------------
(* stop(): the tag is Stopping only as long as the main thread is in it.   *)

\* The steps of stop() that store another tag or come to one that does, and
\* the exit, behind which nothing runs; the steps on the way there.
Closer == {"stopTryLock", "stopVerdict", "stopReset", "stopUnlock", "exited"}
OnTheWay == {"stopMark", "cleanQuit", "trigger", "awaitStarted", "awaitCollected",
             "awaitDrawn", "awaitCollectedBriefly", "join", "restore",
             "Sleeping", "Quitting", "Error"}

Stops(s) == \E i \in 1 .. Len(s) : s[i] \in Closer /\ \A j \in 1 .. i - 1 : s[j] \in OnTheWay
Paired(s) == \A i \in 1 .. Len(s) : s[i] = "stopMark" => i < Len(s) /\ s[i + 1] = "stopTryLock"

StopInv == Paired(todo) /\ (tag = "Stopping" => Stops(todo))

LEMMA StopsHead ==
  ASSUME NEW S, NEW s \in Seq(S), s # <<>>, Stops(s)
  PROVE  \/ Head(s) \in Closer
         \/ Head(s) \in OnTheWay /\ Stops(Tail(s))
<1> DEFINE t == Tail(s)
<1>1. /\ Len(t) = Len(s) - 1 /\ Len(s) \in Nat \ {0} /\ Head(s) = s[1]
      /\ \A i \in 1 .. Len(t) : t[i] = s[i + 1]
  BY HeadTailProperties, EmptySeq
<1> HIDE DEF t
<1>2. PICK i \in 1 .. Len(s) : s[i] \in Closer /\ \A j \in 1 .. i - 1 : s[j] \in OnTheWay
  BY DEF Stops
<1>3. CASE i = 1
  BY <1>1, <1>2, <1>3
<1>4. CASE i > 1
  <2>1. 1 \in 1 .. i - 1 /\ i - 1 \in 1 .. Len(t) /\ (i - 1) + 1 = i
    BY <1>1, <1>4
  <2>2. Head(s) \in OnTheWay /\ t[i - 1] \in Closer
    BY <1>1, <1>2, <2>1
  <2>3. ASSUME NEW j \in 1 .. (i - 1) - 1 PROVE t[j] \in OnTheWay
    <3>1. j \in 1 .. Len(t) /\ j + 1 \in 1 .. i - 1
      BY <1>1
    <3> QED  BY <1>1, <1>2, <3>1
  <2> QED  BY <2>1, <2>2, <2>3 DEF Stops, t
<1> QED  BY <1>3, <1>4

LEMMA StopsConcat ==
  ASSUME NEW S, NEW p \in Seq(S), NEW t \in Seq(S), Stops(p)
  PROVE  Stops(p \o t)
<1> DEFINE u == p \o t
<1>1. /\ Len(u) = Len(p) + Len(t) /\ Len(p) \in Nat /\ Len(t) \in Nat
      /\ \A i \in 1 .. Len(p) + Len(t) : u[i] = IF i <= Len(p) THEN p[i] ELSE t[i - Len(p)]
  BY ConcatProperties, LenProperties
<1> HIDE DEF u
<1>2. PICK i \in 1 .. Len(p) : p[i] \in Closer /\ \A j \in 1 .. i - 1 : p[j] \in OnTheWay
  BY DEF Stops
<1>3. i \in 1 .. Len(u) /\ u[i] = p[i] /\ \A j \in 1 .. i - 1 : u[j] = p[j]
  BY <1>1
<1> QED  BY <1>2, <1>3 DEF Stops, u

LEMMA StopsBehind ==
  ASSUME NEW S, NEW p \in Seq(S), NEW t \in Seq(S),
         \A i \in 1 .. Len(p) : p[i] \in OnTheWay, Stops(t)
  PROVE  Stops(p \o t)
<1> DEFINE u == p \o t
<1>1. /\ Len(u) = Len(p) + Len(t) /\ Len(p) \in Nat /\ Len(t) \in Nat
      /\ \A i \in 1 .. Len(p) + Len(t) : u[i] = IF i <= Len(p) THEN p[i] ELSE t[i - Len(p)]
  BY ConcatProperties, LenProperties
<1> HIDE DEF u
<1>2. PICK i \in 1 .. Len(t) : t[i] \in Closer /\ \A j \in 1 .. i - 1 : t[j] \in OnTheWay
  BY DEF Stops
<1> DEFINE k == Len(p) + i
<1>3. k \in 1 .. Len(u) /\ u[k] = t[i]
  BY <1>1
<1>4. ASSUME NEW j \in 1 .. k - 1 PROVE u[j] \in OnTheWay
  <2>1. CASE j <= Len(p)
    BY <1>1, <2>1
  <2>2. CASE j > Len(p)
    <3>1. j - Len(p) \in 1 .. i - 1 /\ u[j] = t[j - Len(p)]
      BY <1>1, <2>2
    <3> QED  BY <1>2, <3>1
  <2> QED  BY <1>1, <2>1, <2>2
<1> HIDE DEF k
<1> QED  BY <1>2, <1>3, <1>4 DEF Stops, u

LEMMA PairedTail ==
  ASSUME NEW S, NEW s \in Seq(S), s # <<>>, Paired(s)
  PROVE  Paired(Tail(s)) /\ (Head(s) = "stopMark" => Stops(Tail(s)))
<1> DEFINE t == Tail(s)
<1>1. /\ Len(t) = Len(s) - 1 /\ Len(s) \in Nat \ {0} /\ Head(s) = s[1]
      /\ \A i \in 1 .. Len(t) : t[i] = s[i + 1]
  BY HeadTailProperties, EmptySeq
<1> HIDE DEF t
<1>2. ASSUME NEW i \in 1 .. Len(t), t[i] = "stopMark"
      PROVE  i < Len(t) /\ t[i + 1] = "stopTryLock"
  <2>1. i + 1 \in 1 .. Len(s) /\ s[i + 1] = "stopMark"
    BY <1>1, <1>2
  <2>2. i + 1 < Len(s) /\ s[(i + 1) + 1] = "stopTryLock"
    BY <2>1 DEF Paired
  <2>3. i + 1 \in 1 .. Len(t)
    BY <1>1, <2>2
  <2> QED  BY <1>1, <2>2, <2>3
<1>3. ASSUME Head(s) = "stopMark" PROVE Stops(t)
  <2>1. 1 \in 1 .. Len(s) /\ s[1] = "stopMark"
    BY <1>1, <1>3
  <2>2. 1 < Len(s) /\ s[1 + 1] = "stopTryLock"
    BY <2>1 DEF Paired
  <2>3. 1 \in 1 .. Len(t) /\ t[1] = "stopTryLock"
    BY <1>1, <2>2
  <2> QED  BY <2>3 DEF Stops, Closer
<1> QED  BY <1>2, <1>3 DEF Paired, t

LEMMA PairedConcat ==
  ASSUME NEW S, NEW p \in Seq(S), NEW t \in Seq(S), Paired(p), Paired(t)
  PROVE  Paired(p \o t)
<1> DEFINE u == p \o t
<1>1. /\ Len(u) = Len(p) + Len(t) /\ Len(p) \in Nat /\ Len(t) \in Nat
      /\ \A i \in 1 .. Len(p) + Len(t) : u[i] = IF i <= Len(p) THEN p[i] ELSE t[i - Len(p)]
  BY ConcatProperties, LenProperties
<1> HIDE DEF u
<1>2. ASSUME NEW i \in 1 .. Len(u), u[i] = "stopMark"
      PROVE  i < Len(u) /\ u[i + 1] = "stopTryLock"
  <2>1. CASE i <= Len(p)
    <3>1. i \in 1 .. Len(p) /\ p[i] = "stopMark"
      BY <1>1, <1>2, <2>1
    <3>2. i < Len(p) /\ p[i + 1] = "stopTryLock"
      BY <3>1 DEF Paired
    <3>3. i + 1 \in 1 .. Len(p) + Len(t) /\ i + 1 <= Len(p)
      BY <1>1, <3>2
    <3> QED  BY <1>1, <3>2, <3>3
  <2>2. CASE i > Len(p)
    <3> DEFINE k == i - Len(p)
    <3>1. k \in 1 .. Len(t) /\ t[k] = "stopMark"
      BY <1>1, <1>2, <2>2
    <3>2. k < Len(t) /\ t[k + 1] = "stopTryLock"
      BY <3>1 DEF Paired
    <3>3. /\ i + 1 \in 1 .. Len(p) + Len(t) /\ ~(i + 1 <= Len(p)) /\ i < Len(u)
          /\ (i + 1) - Len(p) = k + 1
      BY <1>1, <2>2, <3>2
    <3>4. u[i + 1] = t[(i + 1) - Len(p)]
      BY <1>1, <3>3
    <3> QED  BY <3>2, <3>3, <3>4
  <2> QED  BY <1>1, <2>1, <2>2
<1> QED  BY <1>2 DEF Paired, u

LEMMA UnstoppedPaired ==
  ASSUME NEW S, NEW p \in Seq(S), "stopMark" \notin S
  PROVE  Paired(p)
BY ElementOfSeq DEF Paired

\* How the steps of the main thread keep to that.
LEMMA StopMove ==
  ASSUME NEW S, todo \in Seq(S), MainStep \subseteq S, todo # <<>>, StopInv,
         NEW p \in Seq(S), Paired(p), Become(p),
         \/ tag' # "Stopping"
         \/ Stops(p)
         \/ tag' = tag /\ Head(todo) \notin OnTheWay \cup Closer
  PROVE  StopInv'
<1>1. Tail(todo) \in Seq(S) /\ Paired(Tail(todo))
  BY HeadTailProperties, PairedTail DEF StopInv
<1>2. Paired(todo')
  BY <1>1, PairedConcat DEF Become
<1>3. Stops(p) => Stops(todo')
  BY <1>1, StopsConcat DEF Become
<1>4. Head(todo) \notin OnTheWay \cup Closer => tag # "Stopping"
  BY StopsHead DEF StopInv
<1> QED  BY <1>2, <1>3, <1>4 DEF StopInv

LEMMA StopReturn ==
  ASSUME NEW S, todo \in Seq(S), todo # <<>>, StopInv, Return,
         \/ tag' = tag /\ Head(todo) \notin Closer
         \/ Head(todo) = "stopMark"
  PROVE  StopInv'
<1>1. Paired(Tail(todo)) /\ (Head(todo) = "stopMark" => Stops(Tail(todo)))
  BY PairedTail DEF StopInv
<1>2. tag = "Stopping" /\ Head(todo) \notin Closer => Stops(Tail(todo))
  BY StopsHead DEF StopInv
<1> QED  BY <1>1, <1>2 DEF StopInv, Return

LEMMA StopLists ==
  /\ Paired(Stop) /\ Paired(StopBusy) /\ Stops(StopBusy)
  /\ Paired(StopTrigger) /\ Stops(StopTrigger) /\ Paired(<<"cleanQuit">> \o StopTrigger)
  /\ Paired(Stop \o <<"join", "restore", "exited">>)
  /\ Stops(Stop \o <<"join", "restore", "exited">>)
<1>1. Paired(Stop) /\ Stop \in Seq(CallStep) /\ Stops(Stop)
  <2>1. /\ 2 \in 1 .. Len(Stop) /\ Stop[2] \in Closer /\ Stop[1] \in OnTheWay
        /\ \A j \in 1 .. 2 - 1 : j = 1
    BY DEF Stop, Closer, OnTheWay
  <2>2. Stops(Stop)
    BY <2>1 DEF Stops
  <2>3. Paired(Stop)
    BY DEF Stop, Paired
  <2> QED  BY <2>2, <2>3, Lists
<1>2. <<"stopVerdict">> \in Seq(CallStep) /\ Stops(<<"stopVerdict">>) /\ Paired(<<"stopVerdict">>)
  <2>1. <<"stopVerdict">>[1] \in Closer /\ 1 \in 1 .. Len(<<"stopVerdict">>)
    BY DEF Closer
  <2> QED  BY <2>1 DEF Stops, Paired, CallStep, MainStep, AppState
<1>3. /\ AwaitDone \in Seq(CallStep) /\ Paired(AwaitDone)
      /\ \A i \in 1 .. Len(AwaitDone) : AwaitDone[i] \in OnTheWay
  BY Lists DEF AwaitDone, Paired, OnTheWay
<1>4. Paired(StopBusy) /\ Stops(StopBusy)
  BY <1>2, <1>3, PairedConcat, StopsBehind DEF StopBusy
<1>5. Paired(StopTrigger)
  BY DEF Paired, StopTrigger
<1>6. Stops(StopTrigger)
  <2>1. /\ 4 \in 1 .. Len(StopTrigger) /\ StopTrigger[4] \in Closer
        /\ StopTrigger[1] \in OnTheWay /\ StopTrigger[2] \in OnTheWay
        /\ StopTrigger[3] \in OnTheWay
    BY DEF StopTrigger, Closer, OnTheWay
  <2>2. \A j \in 1 .. 4 - 1 : j = 1 \/ j = 2 \/ j = 3
    OBVIOUS
  <2> QED  BY <2>1, <2>2 DEF Stops
<1>7. Paired(<<"cleanQuit">> \o StopTrigger)
  <2>1. Paired(<<"cleanQuit">>) /\ <<"cleanQuit">> \in Seq(CallStep)
    BY DEF Paired, CallStep, MainStep, AppState
  <2> QED  BY <1>5, <2>1, Lists, PairedConcat
<1>8. /\ Paired(Stop \o <<"join", "restore", "exited">>)
      /\ Stops(Stop \o <<"join", "restore", "exited">>)
  <2>1. <<"join", "restore", "exited">> \in Seq(MainStep)
        /\ Paired(<<"join", "restore", "exited">>)
    BY DEF Paired, MainStep
  <2>2. Stop \in Seq(MainStep)
    BY <1>1, CallStepsAreSteps
  <2> QED  BY <1>1, <2>1, <2>2, PairedConcat, StopsConcat
<1> QED  BY <1>1, <1>4, <1>5, <1>6, <1>7, <1>8

LEMMA StopCall ==
  ASSUME NEW S, todo \in Seq(S), MainStep \subseteq S, StopInv, MainCall
  PROVE  StopInv'
<1>0. todo # <<>>
  BY CallTodo
<1> DEFINE Calm == MainStep \ (OnTheWay \cup Closer)
\* A step that has nothing to do with stop(), and puts nothing of it in todo.
<1>1. ASSUME NEW h \in Calm, At(h), tag' = tag \/ tag' = "Idle",
             NEW p \in Seq(S), Paired(p), Become(p)
      PROVE  StopInv'
  BY <1>0, <1>1, StopMove DEF At
<1>2. ASSUME NEW h \in MainStep \ Closer, At(h), tag' = tag, Return
      PROVE  StopInv'
  BY <1>0, <1>2, StopReturn DEF At
<1>3. {"stopIfActive", "restart", "recreate", "guard", "guardDirect", "unlock", "idleCheck",
       "idleLoad", "idleBlock"} \subseteq Calm
  BY DEF Calm, MainStep, OnTheWay, Closer
<1>4. <<>> \in Seq(S) /\ Paired(<<>>) /\ (Return => Become(<<>>))
  BY <1>0, ReturnIsBecome DEF Paired
<1>5. /\ <<"recreate">> \in Seq(S) /\ Paired(<<"recreate">>)
      /\ <<"cleanQuit">> \in Seq(S) /\ Paired(<<"cleanQuit">>)
      /\ <<"writeDirect">> \in Seq(S) /\ Paired(<<"writeDirect">>)
      /\ <<"unlock", "configure", "trigger", "awaitStarted">> \in Seq(S)
      /\ Paired(<<"unlock", "configure", "trigger", "awaitStarted">>)
      /\ <<"idleLoad">> \in Seq(S) /\ Paired(<<"idleLoad">>)
      /\ <<"idleBlock">> \in Seq(S) /\ Paired(<<"idleBlock">>)
      /\ <<"idleCheck">> \in Seq(S) /\ Paired(<<"idleCheck">>)
  <2> DEFINE Free == MainStep \ {"stopMark"}
  <2>1. /\ <<"recreate">> \in Seq(Free) /\ <<"cleanQuit">> \in Seq(Free)
        /\ <<"writeDirect">> \in Seq(Free) /\ <<"idleLoad">> \in Seq(Free)
        /\ <<"unlock", "configure", "trigger", "awaitStarted">> \in Seq(Free)
        /\ <<"idleBlock">> \in Seq(Free) /\ <<"idleCheck">> \in Seq(Free)
    BY DEF MainStep
  <2>2. \A p \in Seq(Free) : p \in Seq(S) /\ Paired(p)
    <3>1. Free \subseteq S /\ "stopMark" \notin Free
      OBVIOUS
    <3> HIDE DEF Free
    <3> QED  BY <3>1, SeqMonotonic, UnstoppedPaired
  <2> QED  BY <2>1, <2>2
<1>6. /\ Stop \in Seq(S) /\ StopBusy \in Seq(S) /\ StopTrigger \in Seq(S)
      /\ <<"cleanQuit">> \o StopTrigger \in Seq(S)
      /\ Stop \o <<"join", "restore", "exited">> \in Seq(S)
      /\ WaitIdle \o <<"unlockWrite">> \in Seq(S) /\ Paired(WaitIdle \o <<"unlockWrite">>)
  <2>1. /\ <<"cleanQuit">> \in Seq(MainStep) /\ <<"join", "restore", "exited">> \in Seq(MainStep)
        /\ <<"unlockWrite">> \in Seq(MainStep) /\ Paired(<<"unlockWrite">>)
        /\ WaitIdle \in Seq(MainStep) /\ Paired(WaitIdle)
    BY DEF MainStep, WaitIdle, Paired
  <2> QED
    BY <2>1, Lists, CallStepsAreSteps, SeqMonotonic, ConcatProperties, PairedConcat
<1> HIDE DEF Calm
<1>7. CASE IfActive
  <2>1. At("stopIfActive") /\ tag' = tag /\ (Become(Stop) \/ Become(<<>>))
    BY <1>7 DEF IfActive, shared
  <2> QED  BY <2>1, <1>1, <1>3, <1>4, <1>6, StopLists
<1>8. CASE RunRestart
  <2>1. /\ At("restart")
        /\ tag' = tag \/ tag' = "Idle"
        /\ Become(<<"recreate">>) \/ Return
    BY <1>8 DEF RunRestart
  <2> QED  BY <2>1, <1>1, <1>3, <1>4, <1>5
<1>9. CASE RunRecreate
  <2>1. At("recreate") /\ tag' = tag /\ (Become(<<"cleanQuit">>) \/ Return)
    BY <1>9 DEF RunRecreate, shared
  <2> QED  BY <2>1, <1>1, <1>3, <1>4, <1>5
<1>10. CASE RunGuard
  <2>1. /\ At("guard") \/ At("guardDirect")
        /\ tag' = tag
        /\ \/ Become(<<>>) \/ Become(<<"writeDirect">>)
           \/ Become(<<"unlock", "configure", "trigger", "awaitStarted">>)
    BY <1>10 DEF RunGuard, shared
  <2> QED  BY <2>1, <1>1, <1>3, <1>4, <1>5
<1>11. CASE Unlock
  <2>1. At("unlock") /\ tag' = tag /\ (Become(WaitIdle \o <<"unlockWrite">>) \/ Become(<<>>))
    BY <1>11 DEF Unlock, shared
  <2> QED  BY <2>1, <1>1, <1>3, <1>4, <1>6
<1>12. CASE IdleCheck \/ IdleLoad \/ IdleBlock
  <2>1. /\ At("idleCheck") \/ At("idleLoad") \/ At("idleBlock")
        /\ tag' = tag
        /\ \/ Become(<<>>) \/ Become(<<"idleLoad">>) \/ Become(<<"idleBlock">>)
           \/ Become(<<"idleCheck">>)
    BY <1>12 DEF IdleCheck, IdleLoad, IdleBlock, shared
  <2> QED  BY <2>1, <1>1, <1>3, <1>4, <1>5
<1>13. CASE StopMark
  BY <1>0, <1>13, StopReturn DEF StopMark, At
<1>14. CASE StopTryLock
  <2>1. /\ tag' = tag
        /\ \/ Become(StopBusy) \/ Become(<<"cleanQuit", "stopUnlock">>)
           \/ Become(<<"stopUnlock">>)
    BY <1>14 DEF StopTryLock, shared
  <2>2. /\ <<"cleanQuit", "stopUnlock">> \in Seq(S) /\ <<"stopUnlock">> \in Seq(S)
        /\ Paired(<<"cleanQuit", "stopUnlock">>) /\ Paired(<<"stopUnlock">>)
    BY DEF Paired, MainStep
  <2>3. <<"stopUnlock">> \in Seq(MainStep) /\ Stops(<<"stopUnlock">>)
    <3>1. <<"stopUnlock">>[1] \in Closer /\ 1 \in 1 .. Len(<<"stopUnlock">>)
      BY DEF Closer
    <3> QED  BY <3>1 DEF Stops, MainStep
  <2>4. Stops(<<"cleanQuit", "stopUnlock">>)
    <3> DEFINE s == <<"cleanQuit", "stopUnlock">>
    <3>1. /\ 2 \in 1 .. Len(s) /\ s[2] \in Closer /\ s[1] \in OnTheWay
          /\ \A j \in 1 .. 2 - 1 : j = 1
      BY DEF Closer, OnTheWay
    <3> HIDE DEF s
    <3>2. Stops(s)
      BY <3>1 DEF Stops
    <3> QED  BY <3>2 DEF s
  <2> QED  BY <1>0, <1>6, <2>1, <2>2, <2>3, <2>4, StopLists, StopMove
<1>15. CASE StopVerdict
  <2>1. \/ tag' = "Idle" /\ (Become(<<>>) \/ Become(<<"cleanQuit">> \o StopTrigger))
        \/ Become(StopTrigger)
    BY <1>15 DEF StopVerdict
  <2> QED  BY <1>0, <1>4, <1>6, <2>1, StopLists, StopMove
<1>16. CASE StopReset
  <2>1. tag' = "Idle" /\ Return
    BY <1>16 DEF StopReset
  <2> QED  BY <1>0, <1>4, <2>1, StopMove
<1>17. CASE CleanQuit
  <2>1. \/ tag' = tag /\ At("cleanQuit") /\ Return
        \/ Become(Stop \o <<"join", "restore", "exited">>)
    BY <1>0, <1>17, ReturnIsBecome DEF CleanQuit, shared
  <2>2. "cleanQuit" \in MainStep \ Closer
    BY DEF MainStep, Closer
  <2> QED  BY <1>0, <1>2, <1>6, <2>1, <2>2, StopLists, StopMove
<1>18. CASE \/ AwaitCollected \/ AwaitDrawn \/ AwaitStarted \/ RunWriteDirect \/ RunConfigure
            \/ Trigger \/ UnlockWrite \/ CleanQuitJoin \/ Restore \/ MarkAll \/ MarkBox
            \/ StoreApp
  <2>1. tag' = tag /\ Return
    BY <1>18 DEF AwaitCollected, AwaitDrawn, AwaitStarted, RunWriteDirect, RunConfigure,
         Trigger, UnlockWrite, CleanQuitJoin, Restore, MarkAll, MarkBox, StoreApp, shared
  <2>2. Head(todo) \notin Closer
    BY <1>18 DEF AwaitCollected, AwaitDrawn, AwaitStarted, RunWriteDirect, RunConfigure,
         Trigger, UnlockWrite, CleanQuitJoin, Restore, MarkAll, MarkBox, StoreApp, At,
         Closer, AppState
  <2> QED  BY <1>0, <2>1, <2>2, StopReturn
<1> QED
  BY <1>7, <1>8, <1>9, <1>10, <1>11, <1>12, <1>13, <1>14, <1>15, <1>16, <1>17, <1>18
  DEF MainCall

---------------------------------------------------------------------------
(* Neither thread waits for the other.                                     *)

\* The store of Quitting comes right before clean_quit(), and the try_lock
\* right behind the store of Stopping.
Entered(s) ==
  \A i \in 1 .. Len(s) :
    /\ s[i] = "Quitting" => i < Len(s) /\ s[i + 1] = "cleanQuit"
    /\ s[i] = "stopTryLock" /\ i > 1 => s[i - 1] = "stopMark"

\* A list that may come in front of any other.
Proper(s) == Paired(s) /\ Entered(s) /\ (s # <<>> => Head(s) # "stopTryLock")

Locks(s) == \E i \in 1 .. Len(s) : s[i] = "stopUnlock"

\* Step b comes behind step a on the way out of the process.
Leads(a, b) ==
  \/ a = "stopMark" /\ b = "stopTryLock"
  \/ a = "awaitCollected" /\ b = "awaitDrawn"
  \/ a = "awaitDrawn" /\ b = "stopVerdict"
  \/ a = "cleanQuit" /\ b \in {"stopUnlock", "trigger"}
  \/ a = "trigger" /\ b = "awaitStarted"
  \/ a = "awaitStarted" /\ b = "awaitCollectedBriefly"
  \/ a = "awaitCollectedBriefly" /\ b = "stopReset"
  \/ a \in {"stopTryLock", "stopVerdict", "stopReset", "stopUnlock"} /\ b = "join"
  \/ a = "join" /\ b = "restore"
  \/ a = "restore" /\ b = "exited"

Live(s) ==
  \E n \in 1 .. Len(s) : s[n] = "exited" /\ \A i \in 1 .. n - 1 : Leads(s[i], s[i + 1])

LEMMA EnteredTail ==
  ASSUME NEW S, NEW s \in Seq(S), s # <<>>, Entered(s)
  PROVE  /\ Entered(Tail(s))
         /\ Head(s) = "Quitting" => Tail(s) # <<>> /\ Head(Tail(s)) = "cleanQuit"
         /\ Tail(s) # <<>> /\ Head(Tail(s)) = "stopTryLock" => Head(s) = "stopMark"
<1> DEFINE t == Tail(s)
<1>1. /\ t \in Seq(S) /\ Len(t) = Len(s) - 1 /\ Len(s) \in Nat \ {0} /\ Head(s) = s[1]
      /\ \A i \in 1 .. Len(t) : t[i] = s[i + 1]
  BY HeadTailProperties, EmptySeq
<1>2. /\ t # <<>> => 1 \in 1 .. Len(t) /\ Head(t) = t[1]
      /\ Len(t) > 0 => t # <<>>
  BY <1>1, HeadTailProperties, EmptySeq
<1> HIDE DEF t
<1>3. ASSUME NEW i \in 1 .. Len(t), t[i] = "Quitting" PROVE i < Len(t) /\ t[i + 1] = "cleanQuit"
  <2>1. i + 1 \in 1 .. Len(s) /\ s[i + 1] = "Quitting"
    BY <1>1, <1>3
  <2>2. i + 1 < Len(s) /\ s[(i + 1) + 1] = "cleanQuit"
    BY <2>1 DEF Entered
  <2>3. i + 1 \in 1 .. Len(t)
    BY <1>1, <2>2
  <2> QED  BY <1>1, <2>2, <2>3
<1>4. ASSUME NEW i \in 1 .. Len(t), t[i] = "stopTryLock" PROVE s[i] = "stopMark"
  <2>1. i + 1 \in 1 .. Len(s) /\ s[i + 1] = "stopTryLock" /\ i + 1 > 1 /\ (i + 1) - 1 = i
    BY <1>1, <1>4
  <2>2. s[(i + 1) - 1] = "stopMark"
    BY <2>1 DEF Entered
  <2> QED  BY <2>1, <2>2
<1>5. ASSUME NEW i \in 1 .. Len(t), t[i] = "stopTryLock", i > 1 PROVE t[i - 1] = "stopMark"
  <2>1. i - 1 \in 1 .. Len(t) /\ (i - 1) + 1 = i
    BY <1>1, <1>5
  <2> QED  BY <1>1, <1>4, <1>5, <2>1
<1>6. Entered(t)
  BY <1>3, <1>5 DEF Entered
<1>7. ASSUME Head(s) = "Quitting" PROVE t # <<>> /\ Head(t) = "cleanQuit"
  <2>1. 1 \in 1 .. Len(s) /\ s[1] = "Quitting"
    BY <1>1, <1>7
  <2>2. 1 < Len(s) /\ s[1 + 1] = "cleanQuit"
    BY <2>1 DEF Entered
  <2> QED  BY <1>1, <1>2, <2>2
<1>8. ASSUME t # <<>>, Head(t) = "stopTryLock" PROVE Head(s) = "stopMark"
  BY <1>1, <1>2, <1>4, <1>8
<1> QED  BY <1>6, <1>7, <1>8 DEF t

LEMMA EnteredConcat ==
  ASSUME NEW S, NEW p \in Seq(S), NEW t \in Seq(S), Entered(p), Entered(t),
         p = <<>> \/ t = <<>> \/ Head(t) # "stopTryLock"
  PROVE  Entered(p \o t)
<1> DEFINE u == p \o t
<1>1. /\ Len(u) = Len(p) + Len(t) /\ Len(p) \in Nat /\ Len(t) \in Nat
      /\ \A i \in 1 .. Len(p) + Len(t) : u[i] = IF i <= Len(p) THEN p[i] ELSE t[i - Len(p)]
      /\ Len(t) > 0 => Head(t) = t[1] /\ t # <<>>
      /\ Len(p) > 0 => p # <<>>
  BY ConcatProperties, LenProperties, HeadTailProperties, EmptySeq
<1> HIDE DEF u
<1>2. ASSUME NEW i \in 1 .. Len(u), u[i] = "Quitting"
      PROVE  i < Len(u) /\ u[i + 1] = "cleanQuit"
  <2>1. CASE i <= Len(p)
    <3>1. i \in 1 .. Len(p) /\ p[i] = "Quitting"
      BY <1>1, <1>2, <2>1
    <3>2. i < Len(p) /\ p[i + 1] = "cleanQuit"
      BY <3>1 DEF Entered
    <3>3. i + 1 \in 1 .. Len(p) + Len(t) /\ i + 1 <= Len(p)
      BY <1>1, <3>2
    <3> QED  BY <1>1, <3>2, <3>3
  <2>2. CASE i > Len(p)
    <3> DEFINE k == i - Len(p)
    <3>1. k \in 1 .. Len(t) /\ t[k] = "Quitting"
      BY <1>1, <1>2, <2>2
    <3>2. k < Len(t) /\ t[k + 1] = "cleanQuit"
      BY <3>1 DEF Entered
    <3>3. /\ i + 1 \in 1 .. Len(p) + Len(t) /\ ~(i + 1 <= Len(p)) /\ i < Len(u)
          /\ (i + 1) - Len(p) = k + 1
      BY <1>1, <2>2, <3>2
    <3>4. u[i + 1] = t[(i + 1) - Len(p)]
      BY <1>1, <3>3
    <3> QED  BY <3>2, <3>3, <3>4
  <2> QED  BY <1>1, <2>1, <2>2
<1>3. ASSUME NEW i \in 1 .. Len(u), u[i] = "stopTryLock", i > 1
      PROVE  u[i - 1] = "stopMark"
  <2>1. CASE i <= Len(p)
    <3>1. i \in 1 .. Len(p) /\ p[i] = "stopTryLock"
      BY <1>1, <1>3, <2>1
    <3>2. p[i - 1] = "stopMark"
      BY <1>3, <3>1 DEF Entered
    <3>3. i - 1 \in 1 .. Len(p) + Len(t) /\ i - 1 <= Len(p)
      BY <1>1, <1>3, <2>1
    <3> QED  BY <1>1, <3>2, <3>3
  <2>2. CASE i > Len(p)
    <3> DEFINE k == i - Len(p)
    <3>1. k \in 1 .. Len(t) /\ t[k] = "stopTryLock"
      BY <1>1, <1>3, <2>2
    <3>2. k > 1
      BY <1>1, <1>3, <3>1
    <3>3. t[k - 1] = "stopMark"
      BY <3>1, <3>2 DEF Entered
    <3>4. /\ i - 1 \in 1 .. Len(p) + Len(t) /\ ~(i - 1 <= Len(p))
          /\ (i - 1) - Len(p) = k - 1
      BY <1>1, <1>3, <2>2, <3>2
    <3>5. u[i - 1] = t[(i - 1) - Len(p)]
      BY <1>1, <3>4
    <3> QED  BY <3>3, <3>4, <3>5
  <2> QED  BY <1>1, <2>1, <2>2
<1> QED  BY <1>2, <1>3 DEF Entered, u

LEMMA LocksTail ==
  ASSUME NEW S, NEW s \in Seq(S), s # <<>>
  PROVE  /\ Locks(Tail(s)) => Locks(s)
         /\ Locks(s) => Head(s) = "stopUnlock" \/ Locks(Tail(s))
<1> DEFINE t == Tail(s)
<1>1. /\ Len(t) = Len(s) - 1 /\ Len(s) \in Nat \ {0} /\ Head(s) = s[1]
      /\ \A i \in 1 .. Len(t) : t[i] = s[i + 1]
  BY HeadTailProperties, EmptySeq
<1> HIDE DEF t
<1>2. ASSUME NEW i \in 1 .. Len(t), t[i] = "stopUnlock" PROVE Locks(s)
  <2>1. i + 1 \in 1 .. Len(s) /\ s[i + 1] = "stopUnlock"
    BY <1>1, <1>2
  <2> QED  BY <2>1 DEF Locks
<1>3. ASSUME NEW i \in 1 .. Len(s), s[i] = "stopUnlock", i # 1 PROVE Locks(t)
  <2>1. i - 1 \in 1 .. Len(t) /\ (i - 1) + 1 = i
    BY <1>1, <1>3
  <2>2. t[i - 1] = "stopUnlock"
    BY <1>1, <1>3, <2>1
  <2> QED  BY <2>1, <2>2 DEF Locks
<1> QED  BY <1>1, <1>2, <1>3 DEF Locks, t

LEMMA LocksConcat ==
  ASSUME NEW S, NEW p \in Seq(S), NEW t \in Seq(S), Locks(p \o t)
  PROVE  Locks(p) \/ Locks(t)
<1> DEFINE u == p \o t
<1>1. /\ Len(u) = Len(p) + Len(t) /\ Len(p) \in Nat /\ Len(t) \in Nat
      /\ \A i \in 1 .. Len(p) + Len(t) : u[i] = IF i <= Len(p) THEN p[i] ELSE t[i - Len(p)]
  BY ConcatProperties, LenProperties
<1> HIDE DEF u
<1>2. PICK i \in 1 .. Len(u) : u[i] = "stopUnlock"
  BY DEF Locks, u
<1>3. CASE i <= Len(p)
  <2>1. i \in 1 .. Len(p) /\ p[i] = "stopUnlock"
    BY <1>1, <1>2, <1>3
  <2> QED  BY <2>1 DEF Locks
<1>4. CASE i > Len(p)
  <2>1. i - Len(p) \in 1 .. Len(t) /\ t[i - Len(p)] = "stopUnlock"
    BY <1>1, <1>2, <1>4
  <2> QED  BY <2>1 DEF Locks
<1> QED  BY <1>1, <1>3, <1>4

LEMMA LiveHead ==
  ASSUME NEW S, NEW s \in Seq(S), Live(s)
  PROVE  /\ s # <<>>
         /\ \/ Head(s) = "exited"
            \/ Live(Tail(s)) /\ Tail(s) # <<>> /\ Leads(Head(s), Head(Tail(s)))
<1> DEFINE t == Tail(s)
<1>0. s # <<>>
  BY EmptySeq DEF Live
<1>1. /\ t \in Seq(S) /\ Len(t) = Len(s) - 1 /\ Len(s) \in Nat \ {0} /\ Head(s) = s[1]
      /\ \A i \in 1 .. Len(t) : t[i] = s[i + 1]
  BY <1>0, HeadTailProperties, EmptySeq
<1> HIDE DEF t
<1>2. Len(t) > 0 => t # <<>> /\ Head(t) = t[1]
  BY <1>1, HeadTailProperties, EmptySeq
<1>3. PICK n \in 1 .. Len(s) : s[n] = "exited" /\ \A i \in 1 .. n - 1 : Leads(s[i], s[i + 1])
  BY DEF Live
<1>4. CASE n = 1
  BY <1>0, <1>1, <1>3, <1>4
<1>5. CASE n > 1
  <2>1. n - 1 \in 1 .. Len(t) /\ t[n - 1] = s[(n - 1) + 1] /\ (n - 1) + 1 = n
    BY <1>1, <1>5
  <2>2. ASSUME NEW i \in 1 .. (n - 1) - 1 PROVE Leads(t[i], t[i + 1])
    <3>1. /\ i \in 1 .. Len(t) /\ i + 1 \in 1 .. Len(t) /\ i + 1 \in 1 .. n - 1
      BY <1>1
    <3>2. Leads(s[i + 1], s[(i + 1) + 1])
      BY <1>3, <3>1
    <3> QED  BY <1>1, <3>1, <3>2
  <2>3. Live(t)
    BY <1>3, <2>1, <2>2 DEF Live
  <2>4. 1 \in 1 .. n - 1 /\ 1 \in 1 .. Len(t) /\ t[1] = s[1 + 1]
    BY <1>1, <1>5
  <2>5. Leads(s[1], s[1 + 1])
    BY <1>3, <2>4
  <2>6. t # <<>> /\ Head(t) = t[1]
    BY <1>1, <1>2, <2>4
  <2> QED  BY <1>0, <1>1, <2>3, <2>4, <2>5, <2>6 DEF t
<1> QED  BY <1>3, <1>4, <1>5

LEMMA LiveFront ==
  ASSUME NEW S, NEW p \in Seq(S), NEW t \in Seq(S), Live(p)
  PROVE  Live(p \o t)
<1> DEFINE u == p \o t
<1>1. /\ Len(u) = Len(p) + Len(t) /\ Len(p) \in Nat /\ Len(t) \in Nat
      /\ \A i \in 1 .. Len(p) + Len(t) : u[i] = IF i <= Len(p) THEN p[i] ELSE t[i - Len(p)]
  BY ConcatProperties, LenProperties
<1> HIDE DEF u
<1>2. PICK n \in 1 .. Len(p) : p[n] = "exited" /\ \A i \in 1 .. n - 1 : Leads(p[i], p[i + 1])
  BY DEF Live
<1>3. n \in 1 .. Len(u) /\ u[n] = p[n] /\ \A i \in 1 .. n - 1 : u[i] = p[i] /\ u[i + 1] = p[i + 1]
  BY <1>1
<1> QED  BY <1>2, <1>3 DEF Live, u

LEMMA LiveBehind ==
  ASSUME NEW S, NEW p \in Seq(S), NEW t \in Seq(S), Live(t), t # <<>>, p # <<>>,
         \A i \in 1 .. Len(p) - 1 : Leads(p[i], p[i + 1]),
         Leads(p[Len(p)], Head(t))
  PROVE  Live(p \o t)
<1> DEFINE u == p \o t
<1>1. /\ Len(u) = Len(p) + Len(t) /\ Len(p) \in Nat \ {0} /\ Len(t) \in Nat
      /\ \A i \in 1 .. Len(p) + Len(t) : u[i] = IF i <= Len(p) THEN p[i] ELSE t[i - Len(p)]
      /\ Head(t) = t[1]
  BY ConcatProperties, LenProperties, HeadTailProperties, EmptySeq
<1> HIDE DEF u
<1>2. PICK n \in 1 .. Len(t) : t[n] = "exited" /\ \A i \in 1 .. n - 1 : Leads(t[i], t[i + 1])
  BY DEF Live
<1> DEFINE k == Len(p) + n
<1>3. k \in 1 .. Len(u) /\ u[k] = "exited"
  BY <1>1, <1>2
<1>4. ASSUME NEW i \in 1 .. k - 1 PROVE Leads(u[i], u[i + 1])
  <2>1. CASE i < Len(p)
    <3>1. i \in 1 .. Len(p) - 1 /\ u[i] = p[i] /\ u[i + 1] = p[i + 1]
      BY <1>1, <2>1
    <3> QED  BY <3>1
  <2>2. CASE i = Len(p)
    <3>1. u[i] = p[Len(p)] /\ u[i + 1] = t[1]
      BY <1>1, <2>2
    <3> QED  BY <1>1, <3>1
  <2>3. CASE i > Len(p)
    <3>1. /\ i - Len(p) \in 1 .. n - 1 /\ (i + 1) - Len(p) = (i - Len(p)) + 1
          /\ u[i] = t[i - Len(p)] /\ u[i + 1] = t[(i + 1) - Len(p)]
      BY <1>1, <2>3
    <3> QED  BY <1>2, <3>1
  <2> QED  BY <1>1, <2>1, <2>2, <2>3
<1> HIDE DEF k
<1> QED  BY <1>3, <1>4 DEF Live, u

LEMMA HeadOf ==
  ASSUME NEW S, NEW p \in Seq(S), NEW t \in Seq(S)
  PROVE  /\ p # <<>> => p \o t # <<>> /\ Head(p \o t) = Head(p)
         /\ p = <<>> => p \o t = t
<1>1. ASSUME p # <<>> PROVE p \o t # <<>> /\ Head(p \o t) = Head(p)
  <2>1. Len(p) \in Nat \ {0} /\ Len(t) \in Nat /\ Head(p) = p[1]
    BY <1>1, LenProperties, HeadTailProperties, EmptySeq
  <2>2. p \o t \in Seq(S) /\ Len(p \o t) = Len(p) + Len(t) /\ (p \o t)[1] = p[1]
    BY <2>1, ConcatProperties
  <2>3. p \o t # <<>>
    BY <2>1, <2>2, EmptySeq
  <2> QED  BY <2>1, <2>2, <2>3, HeadTailProperties
<1>2. p = <<>> => p \o t = t
  BY ConcatEmptySeq
<1> QED  BY <1>1, <1>2

LEMMA FreeProper ==
  ASSUME NEW S, NEW p \in Seq(S),
         "stopMark" \notin S, "stopTryLock" \notin S, "stopUnlock" \notin S, "Quitting" \notin S
  PROVE  Proper(p) /\ ~Locks(p)
<1>1. \A i \in 1 .. Len(p) : p[i] \in S
  BY ElementOfSeq
<1>2. Paired(p) /\ Entered(p) /\ ~Locks(p)
  BY <1>1 DEF Paired, Entered, Locks
<1>3. p # <<>> => Head(p) # "stopTryLock"
  BY HeadTailProperties
<1> QED  BY <1>2, <1>3 DEF Proper

LEMMA ProperConcat ==
  ASSUME NEW S, NEW p \in Seq(S), NEW q \in Seq(S), Proper(p), Proper(q)
  PROVE  /\ Proper(p \o q)
         /\ ~Locks(p) /\ ~Locks(q) => ~Locks(p \o q)
<1>1. Paired(p \o q) /\ Entered(p \o q) /\ (Locks(p \o q) => Locks(p) \/ Locks(q))
  BY PairedConcat, EnteredConcat, LocksConcat DEF Proper
<1>2. p \o q # <<>> => Head(p \o q) # "stopTryLock"
  BY HeadOf DEF Proper
<1> QED  BY <1>1, <1>2 DEF Proper

\* The lists a call puts in front of todo.
LEMMA ProperLists ==
  /\ \A p \in {<<>>, <<"recreate">>, <<"cleanQuit">>, <<"writeDirect">>, <<"idleLoad">>,
               <<"idleBlock">>, <<"idleCheck">>,
               <<"unlock", "configure", "trigger", "awaitStarted">>,
               WaitIdle \o <<"unlockWrite">>, Stop, StopBusy, StopTrigger,
               <<"cleanQuit">> \o StopTrigger, Stop \o <<"join", "restore", "exited">>} :
       p \in Seq(MainStep) /\ Proper(p) /\ ~Locks(p)
  /\ \A p \in {<<"stopUnlock">>, <<"cleanQuit", "stopUnlock">>} :
       p \in Seq(MainStep) /\ Proper(p)
<1> DEFINE Free == MainStep \ {"stopMark", "stopTryLock", "stopUnlock", "Quitting"}
<1>1. ASSUME NEW p \in Seq(Free) PROVE p \in Seq(MainStep) /\ Proper(p) /\ ~Locks(p)
  BY SeqMonotonic, FreeProper
<1>2. ASSUME NEW p \in {<<"stopUnlock">>, <<"cleanQuit", "stopUnlock">>}
      PROVE  p \in Seq(MainStep) /\ Proper(p)
  <2>1. <<"stopUnlock">> \in Seq(MainStep) /\ <<"cleanQuit", "stopUnlock">> \in Seq(MainStep)
    BY DEF MainStep
  <2>2. CASE p = <<"stopUnlock">>
    BY <2>1, <2>2 DEF Proper, Paired, Entered
  <2>3. CASE p = <<"cleanQuit", "stopUnlock">>
    BY <2>1, <2>3 DEF Proper, Paired, Entered
  <2> QED  BY <2>1, <2>2, <2>3
<1>3. /\ <<"recreate">> \in Seq(Free) /\ <<"cleanQuit">> \in Seq(Free)
      /\ <<"writeDirect">> \in Seq(Free) /\ <<"idleLoad">> \in Seq(Free)
      /\ <<"idleBlock">> \in Seq(Free) /\ <<"idleCheck">> \in Seq(Free)
      /\ <<"unlock", "configure", "trigger", "awaitStarted">> \in Seq(Free)
      /\ <<"unlockWrite">> \in Seq(Free) /\ WaitIdle \in Seq(Free)
      /\ AwaitDone \in Seq(Free) /\ <<"stopVerdict">> \in Seq(Free)
      /\ StopTrigger \in Seq(Free) /\ <<>> \in Seq(Free)
  BY DEF MainStep, WaitIdle, AwaitDone, StopTrigger
<1>4. <<"join", "restore", "exited">> \in Seq(Free)
  BY DEF MainStep
<1>5. /\ WaitIdle \o <<"unlockWrite">> \in Seq(Free) /\ StopBusy \in Seq(Free)
      /\ <<"cleanQuit">> \o StopTrigger \in Seq(Free)
  <2> HIDE DEF Free
  <2> QED  BY <1>3, ConcatProperties DEF StopBusy
<1>6. Stop \in Seq(MainStep) /\ Proper(Stop) /\ ~Locks(Stop)
  <2>1. Stop \in Seq(MainStep) /\ Stop # <<>> /\ Head(Stop) # "stopTryLock"
    BY DEF Stop, MainStep
  <2>2. Paired(Stop) /\ Entered(Stop) /\ ~Locks(Stop)
    BY DEF Stop, Paired, Entered, Locks
  <2> QED  BY <2>1, <2>2 DEF Proper
<1> HIDE DEF Free
<1>7. LET p == Stop \o <<"join", "restore", "exited">>
      IN  p \in Seq(MainStep) /\ Proper(p) /\ ~Locks(p)
  <2> DEFINE q == <<"join", "restore", "exited">>
  <2>1. q \in Seq(MainStep) /\ Proper(q) /\ ~Locks(q)
    BY <1>1, <1>4
  <2> HIDE DEF q
  <2>2. Stop \o q \in Seq(MainStep) /\ Proper(Stop \o q) /\ ~Locks(Stop \o q)
    BY <1>6, <2>1, ProperConcat, ConcatProperties
  <2> QED  BY <2>2 DEF q
<1>8. \A p \in {<<>>, <<"recreate">>, <<"cleanQuit">>, <<"writeDirect">>, <<"idleLoad">>,
               <<"idleBlock">>, <<"idleCheck">>,
               <<"unlock", "configure", "trigger", "awaitStarted">>,
               WaitIdle \o <<"unlockWrite">>, StopBusy, StopTrigger,
               <<"cleanQuit">> \o StopTrigger} : p \in Seq(Free)
  BY <1>3, <1>5
<1> QED  BY <1>1, <1>2, <1>6, <1>7, <1>8

LEMMA ProperCall ==
  ASSUME NEW S, MainStep \subseteq S, todo \in Seq(S), MainCall
  PROVE  \E p \in Seq(MainStep) :
           /\ Become(p) /\ Proper(p)
           /\ p = <<>> \/ Head(todo) # "stopMark"
           /\ Locks(p) => /\ StopTryLock
                          /\ rpc = "start" \/ rpc = "done"
                          /\ IF app = "Quitting" THEN p = <<"stopUnlock">>
                             ELSE p = <<"cleanQuit", "stopUnlock">>
<1> DEFINE Good(p) ==
     /\ Become(p) /\ Proper(p)
     /\ p = <<>> \/ Head(todo) # "stopMark"
     /\ Locks(p) => /\ StopTryLock
                    /\ rpc = "start" \/ rpc = "done"
                    /\ IF app = "Quitting" THEN p = <<"stopUnlock">>
                       ELSE p = <<"cleanQuit", "stopUnlock">>
<1>0. todo # <<>>
  BY CallTodo
<1>1. CASE \/ AwaitCollected \/ AwaitDrawn \/ AwaitStarted \/ RunWriteDirect \/ RunConfigure
           \/ Trigger \/ UnlockWrite \/ CleanQuitJoin \/ Restore \/ MarkAll \/ MarkBox
           \/ StoreApp \/ StopMark \/ StopReset
  <2>1. Return
    BY <1>1 DEF AwaitCollected, AwaitDrawn, AwaitStarted, RunWriteDirect, RunConfigure,
         Trigger, UnlockWrite, CleanQuitJoin, Restore, MarkAll, MarkBox, StoreApp, StopMark,
         StopReset
  <2>2. Become(<<>>)
    BY <1>0, <2>1, ReturnIsBecome
  <2> QED  BY <2>2, ProperLists
<1>2. CASE IfActive \/ RunRestart \/ RunGuard \/ Unlock \/ IdleCheck \/ IdleLoad \/ IdleBlock
  <2>1. Head(todo) # "stopMark"
    BY <1>2 DEF IfActive, RunRestart, RunGuard, Unlock, IdleCheck, IdleLoad, IdleBlock, At
  <2>2. \E p \in {<<>>, <<"recreate">>, <<"writeDirect">>, <<"idleLoad">>,
                  <<"idleBlock">>, <<"idleCheck">>,
                  <<"unlock", "configure", "trigger", "awaitStarted">>,
                  WaitIdle \o <<"unlockWrite">>, Stop} : Become(p)
    BY <1>0, <1>2, ReturnIsBecome
    DEF IfActive, RunRestart, RunGuard, Unlock, IdleCheck, IdleLoad, IdleBlock
  <2> QED  BY <2>1, <2>2, ProperLists
<1>3. CASE RunRecreate \/ StopVerdict \/ CleanQuit
  <2>1. Head(todo) # "stopMark"
    BY <1>3 DEF RunRecreate, StopVerdict, CleanQuit, At
  <2>2. \E p \in {<<>>, <<"cleanQuit">>, StopTrigger, <<"cleanQuit">> \o StopTrigger,
                  Stop \o <<"join", "restore", "exited">>} : Become(p)
    BY <1>0, <1>3, ReturnIsBecome DEF RunRecreate, StopVerdict, CleanQuit
  <2> QED  BY <2>1, <2>2, ProperLists
<1>4. CASE StopTryLock
  <2>1. Head(todo) # "stopMark"
    BY <1>4 DEF StopTryLock, At
  <2>2. CASE Become(StopBusy)
    BY <2>1, <2>2, ProperLists
  <2>3. CASE ~Become(StopBusy)
    <3>1. /\ rpc = "start" \/ rpc = "done"
          /\ IF app = "Quitting" THEN Become(<<"stopUnlock">>)
             ELSE Become(<<"cleanQuit", "stopUnlock">>)
      BY <1>4, <2>3 DEF StopTryLock
    <3> QED  BY <1>4, <2>1, <3>1, ProperLists
  <2> QED  BY <2>2, <2>3
<1> QED  BY <1>1, <1>2, <1>3, <1>4 DEF MainCall

\* A permit is there, or the runner will pass the test of the state before
\* it needs one.
Served == permits > 0 \/ rpc \notin {"idle", "acquire"}

\* What stop() still has to do before it stores Idle, and behind the permit.
Undone == {"awaitCollected", "awaitDrawn", "stopVerdict", "trigger", "awaitStarted",
           "cleanQuit"}
Behind == {"awaitStarted", "awaitCollectedBriefly", "stopReset", "stopUnlock", "join"}

\* clean_quit() is about to be entered or was.
Leaving == quitting \/ At("cleanQuit")

\* A runner that has not begun while stop() holds mtx: it will find the tag
\* as stop() left it.
NewInv ==
  rpc = "start" =>
    /\ MainHoldsLock => tag \notin Active
    /\ At("stopTryLock") => tag = "Stopping"
    /\ MainHoldsLock /\ todo # <<>> /\ Head(todo) \in Undone => tag = "Stopping"

\* The way out, in the state Quitting.
EndInv ==
  app = "Quitting" /\ quitting =>
    /\ ~At("cleanQuit")
    /\ At("stopMark") \/ ~(rpc = "idle" /\ tag \in Active)
    /\ todo # <<>> /\ Head(todo) \in Behind => Served

HangInv ==
  /\ StopInv
  /\ Entered(todo)
  /\ WaitInv
  /\ quitting => Live(todo)
  /\ app = "Quitting" \/ rpc = "done" \/ MainHoldsLock => Leaving
  /\ NewInv
  /\ EndInv

LEMMA HoldsLocks ==
  ASSUME NEW S, todo \in Seq(S)
  PROVE  MainHoldsLock <=> Locks(todo)
BY LenProperties DEF MainHoldsLock, Locks

\* Where the main thread is on the way out.
LEMMA LiveAt ==
  ASSUME NEW S, todo \in Seq(S), quitting, HangInv
  PROVE  todo # <<>> /\ Head(todo) \in OnTheWay \cup Closer
BY LiveHead DEF HangInv, Leads, OnTheWay, Closer

(* Where neither can go on, the main thread is at one of the three places. *)
LEMMA HangMeans ==
  ASSUME NEW S, todo \in Seq(S), tag \in RunnerState, HangInv
  PROVE  NoDeadlock
<1> SUFFICES ASSUME MainWaits, RunnerWaits PROVE Hung \/ ExitHung
  BY DEF NoDeadlock
<1>1. ASSUME At("recreate") \/ At("idleBlock") PROVE ~Leaving
  BY <1>1, LiveAt DEF Leaving, At, OnTheWay, Closer
<1>2. ASSUME At("idleBlock") PROVE tag # "Stopping"
  BY <1>2, StopsHead DEF HangInv, StopInv, At, OnTheWay, Closer
<1>3. CASE \/ At("awaitCollected") /\ tag = "Collecting" /\ ~Late("work")
           \/ At("awaitCollectedBriefly") /\ tag = "Collecting" /\ ~Late("brief")
           \/ At("awaitDrawn") /\ tag = "Drawing" /\ ~Late("work")
           \/ At("awaitDrawnBriefly") /\ tag = "Drawing" /\ ~Late("brief")
  <2>1. tag \in Active /\ rpc # "done" /\ ~At("recreate")
    BY <1>3 DEF Active, Late, At
  <2> QED  BY <2>1 DEF RunnerWaits, HangInv, WaitInv, NewInv
<1>4. CASE At("awaitStarted") /\ tag = "Idle" /\ ~(permits = 0 /\ rpc = "acquire") /\ ~Late("start")
  <2>1. rpc # "done" /\ ~At("recreate") /\ todo # <<>> /\ Head(todo) \in Undone
    BY <1>4 DEF Late, At, Undone
  <2> QED  BY <1>4, <2>1 DEF RunnerWaits, HangInv, NewInv
<1>5. CASE At("idleBlock") /\ tag = seen
  <2>1. rpc # "done" /\ ~MainHoldsLock /\ ~At("recreate")
    BY <1>1, <1>5 DEF HangInv, At
  <2>2. rpc = "acquire" /\ permits = 0
    BY <2>1 DEF RunnerWaits
  <2> QED
    BY <1>2, <1>5, <2>2 DEF HangInv, WaitInv, RunnerState, Active, Hung, WaitIdleHung
<1>6. CASE At("recreate") /\ rpc \notin CancellationPoint
  <2>1. rpc # "done" /\ ~MainHoldsLock /\ rpc # "emit"
    BY <1>1, <1>6 DEF HangInv, CancellationPoint
  <2>2. rpc = "acquire" /\ permits = 0
    BY <2>1 DEF RunnerWaits
  <2> QED  BY <1>6, <2>2 DEF Hung, JoinHung
<1>7. CASE /\ At("join") /\ rpc # "done"
           /\ TimedJoin => "join" \notin Slow /\ app = "Quitting" /\ ~MainHoldsLock
  <2>1. CASE ~TimedJoin
    BY <1>7, <2>1 DEF ExitHung
  <2>2. CASE TimedJoin
    <3>1. app = "Quitting" /\ ~MainHoldsLock /\ ~At("recreate") /\ ~At("cleanQuit")
      BY <1>7, <2>2 DEF At
    <3>2. quitting /\ todo # <<>> /\ Head(todo) \in Behind
      BY <1>7, <3>1 DEF HangInv, Leaving, At, Behind
    <3>3. Served
      BY <3>1, <3>2 DEF HangInv, EndInv
    <3> QED  BY <1>7, <3>1, <3>3 DEF RunnerWaits, Served
  <2> QED  BY <2>1, <2>2
<1> QED  BY <1>3, <1>4, <1>5, <1>6, <1>7 DEF MainWaits

LEMMA HangThread ==
  ASSUME HangInv, permits \in Nat, RunnerThread \/ RunnerCancelled
  PROVE  HangInv'
<1>1. /\ UNCHANGED <<app, locked, tty, quitting, todo, seen>>
      /\ \/ tag' = tag
         \/ tag' = "Idle" /\ rpc = "idle" /\ rpc' = "acquire"
         \/ tag' \in Active /\ rpc \in {"collect", "draw"} /\ rpc' \in {"take", "emit"}
      /\ rpc' # "start"
      /\ rpc' = "done" => (rpc = "test" /\ app = "Quitting") \/ quitting
      /\ rpc' = "idle" => rpc = "test" /\ app # "Quitting"
      /\ rpc' = "acquire" => rpc = "idle" /\ permits' = permits
      /\ permits' # permits => rpc' = "woken"
  <2> USE DEF shared, runner, main, Active
  <2>1. CASE RunnerThread
    BY <2>1
    DEF RunnerThread, RunnerStart, RunnerTest, RunnerIdle, RunnerAcquire, RunnerWoken,
        RunnerEntry, RunnerCollect, RunnerTake, RunnerCollected, RunnerCoresChanged,
        RunnerThrows, RunnerFault, RunnerRaise, RunnerCheck, RunnerDraw, RunnerEmit
  <2>2. CASE RunnerCancelled
    BY <2>2 DEF RunnerCancelled
  <2> QED  BY <2>1, <2>2
<1>2. WaitInv'
  <2>1. RunnerNext
    BY DEF RunnerNext
  <2> QED  BY <2>1, WaitStep DEF HangInv
<1>3. tag' = "Stopping" => tag = "Stopping"
  BY <1>1 DEF Active
<1>4. /\ UNCHANGED <<MainHoldsLock, Leaving>>
      /\ \A x : At(x)' <=> At(x)
  BY <1>1 DEF MainHoldsLock, Leaving, At
<1>5. StopInv' /\ Entered(todo') /\ (quitting' => Live(todo'))
  BY <1>1, <1>3 DEF HangInv, StopInv
<1>6. app' = "Quitting" \/ rpc' = "done" \/ MainHoldsLock' => Leaving'
  BY <1>1, <1>4 DEF HangInv, Leaving
<1>7. NewInv'
  BY <1>1 DEF NewInv
<1>8. EndInv'
  <2> SUFFICES ASSUME app' = "Quitting", quitting'
               PROVE  /\ ~At("cleanQuit")'
                      /\ At("stopMark")' \/ ~(rpc' = "idle" /\ tag' \in Active)
                      /\ todo' # <<>> /\ Head(todo') \in Behind => Served'
    BY DEF EndInv
  <2>1. /\ app = "Quitting" /\ quitting /\ ~At("cleanQuit")
        /\ todo # <<>> /\ Head(todo) \in Behind => Served
    BY <1>1 DEF HangInv, EndInv
  <2>2. rpc' # "idle"
    BY <1>1, <2>1
  <2>3. Served => Served'
    BY <1>1, <2>2 DEF Served
  <2> QED  BY <1>1, <1>4, <2>1, <2>2, <2>3
<1> QED  BY <1>2, <1>5, <1>6, <1>7, <1>8 DEF HangInv

\* What a list in front leaves of todo.
LEMMA EnteredMove ==
  ASSUME NEW S, todo \in Seq(S), todo # <<>>, Entered(todo),
         NEW p \in Seq(S), Proper(p), p = <<>> \/ Head(todo) # "stopMark", Become(p)
  PROVE  /\ Entered(todo')
         /\ At("stopTryLock")' => Head(todo) = "stopMark"
         /\ MainHoldsLock' => Locks(p) \/ MainHoldsLock
<1> DEFINE t == Tail(todo)
<1>1. /\ t \in Seq(S) /\ Entered(t)
      /\ t # <<>> /\ Head(t) = "stopTryLock" => Head(todo) = "stopMark"
  BY EnteredTail, HeadTailProperties
<1>2. todo' = p \o t /\ todo' \in Seq(S)
  BY <1>1, ConcatProperties DEF Become
<1>3. MainHoldsLock' => Locks(p) \/ MainHoldsLock
  <2>1. MainHoldsLock' => Locks(todo')
    BY <1>2, LenProperties DEF MainHoldsLock, Locks
  <2>2. Locks(t) => MainHoldsLock
    BY LocksTail, HoldsLocks
  <2> HIDE DEF t
  <2> QED  BY <1>1, <1>2, <2>1, <2>2, LocksConcat
<1> HIDE DEF t
<1>4. Entered(p \o t)
  BY <1>1, EnteredConcat DEF Proper
<1>5. At("stopTryLock")' => Head(todo) = "stopMark"
  BY <1>1, <1>2, HeadOf DEF Proper, At
<1> QED  BY <1>2, <1>3, <1>4, <1>5

LEMMA CallAtCleanQuit ==
  ASSUME MainCall, At("cleanQuit"), ~quitting
  PROVE  /\ Become(Stop \o <<"join", "restore", "exited">>)
         /\ quitting'
         /\ UNCHANGED <<tag, app, permits, rpc>>
<1>1. CleanQuit
  BY DEF MainCall, IfActive, AwaitCollected, AwaitDrawn, AwaitStarted, RunRestart,
         RunRecreate, RunGuard, RunWriteDirect, RunConfigure, Trigger, Unlock, UnlockWrite,
         IdleCheck, IdleLoad, IdleBlock, StopMark, StopTryLock, StopVerdict, StopReset,
         CleanQuitJoin, Restore, MarkAll, MarkBox, StoreApp, At, AppState
<1> QED  BY <1>1 DEF CleanQuit, shared, runner

\* Before clean_quit() is entered.
LEMMA HangQuiet ==
  ASSUME NEW S, MainStep \subseteq S, todo \in Seq(S), HangInv, MainCall, ~Leaving
  PROVE  /\ Entered(todo')
         /\ ~quitting'
         /\ app' = "Quitting" \/ rpc' = "done" \/ MainHoldsLock' => Leaving'
         /\ NewInv'
<1>1. todo # <<>>
  BY CallTodo
<1>2. app # "Quitting" /\ rpc # "done" /\ ~MainHoldsLock /\ ~quitting /\ ~At("cleanQuit")
  BY DEF HangInv, Leaving
<1>3. PICK p \in Seq(MainStep) :
        /\ Become(p) /\ Proper(p)
        /\ p = <<>> \/ Head(todo) # "stopMark"
        /\ Locks(p) => StopTryLock /\ rpc = "start" /\ p = <<"cleanQuit", "stopUnlock">>
  BY <1>2, ProperCall
<1>4. /\ Entered(todo')
      /\ At("stopTryLock")' => Head(todo) = "stopMark"
      /\ MainHoldsLock' => Locks(p)
  <2>1. p \in Seq(S)
    BY SeqMonotonic
  <2> QED  BY <1>1, <1>2, <1>3, <2>1, EnteredMove DEF HangInv
<1>5. ~quitting'
  BY <1>2
  DEF MainCall, IfActive, AwaitCollected, AwaitDrawn, AwaitStarted, RunRestart,
      RunRecreate, RunGuard, RunWriteDirect, RunConfigure, Trigger, Unlock, UnlockWrite,
      IdleCheck, IdleLoad, IdleBlock, StopMark, StopTryLock, StopVerdict, StopReset,
      CleanQuit, CleanQuitJoin, Restore, MarkAll, MarkBox, StoreApp
<1>6. CASE Locks(p)
  <2>1. At("cleanQuit")' /\ app' = app /\ rpc' = rpc /\ tag' = tag /\ tag = "Stopping"
    <3>1. Tail(todo) \in Seq(S) /\ p \in Seq(S)
      BY <1>1, SeqMonotonic, HeadTailProperties
    <3>2. p # <<>> /\ Head(p) = "cleanQuit"
      <4>1. /\ <<"cleanQuit", "stopUnlock">> # <<>>
            /\ Head(<<"cleanQuit", "stopUnlock">>) = "cleanQuit"
        OBVIOUS
      <4> QED  BY <1>3, <1>6, <4>1
    <3>3. At("cleanQuit")'
      BY <1>3, <3>1, <3>2, HeadOf DEF Become, At
    <3> QED  BY <1>3, <1>6, <3>3 DEF StopTryLock, shared, runner, HangInv, NewInv
  <2> QED  BY <1>4, <1>5, <2>1 DEF Leaving, NewInv, Active
<1>7. CASE ~Locks(p)
  <2>1. ~MainHoldsLock'
    BY <1>4, <1>7
  <2>2. /\ app' = "Quitting" \/ rpc' = "done" => At("cleanQuit")'
        /\ Head(todo) = "stopMark" => tag' = "Stopping"
    <3>1. CASE StoreApp
      <4>1. Head(todo) = "Quitting" => At("cleanQuit")'
        BY <1>1, <3>1, EnteredTail DEF StoreApp, Return, HangInv, At
      <4> QED  BY <1>2, <3>1, <4>1 DEF StoreApp, runner, AppState
    <3>2. CASE RunRecreate
      <4>1. Become(<<"cleanQuit">>) => At("cleanQuit")'
        <5>1. Tail(todo) \in Seq(S) /\ <<"cleanQuit">> \in Seq(S)
          BY <1>1, HeadTailProperties DEF MainStep
        <5> QED  BY <5>1, HeadOf DEF Become, At
      <4> QED  BY <1>2, <3>2, <4>1 DEF RunRecreate, shared, At
    <3>3. CASE MainCall /\ ~StoreApp /\ ~RunRecreate
      <4>1. app' = app /\ rpc' = rpc
        BY <3>3
        DEF MainCall, IfActive, AwaitCollected, AwaitDrawn, AwaitStarted, RunRestart,
            RunGuard, RunWriteDirect, RunConfigure, Trigger, Unlock, UnlockWrite,
            IdleCheck, IdleLoad, IdleBlock, StopMark, StopTryLock, StopVerdict, StopReset,
            CleanQuit, CleanQuitJoin, Restore, MarkAll, MarkBox, shared, runner
      <4>2. Head(todo) = "stopMark" => tag' = "Stopping"
        BY <3>3
        DEF MainCall, IfActive, AwaitCollected, AwaitDrawn, AwaitStarted, RunRestart,
            RunGuard, RunWriteDirect, RunConfigure, Trigger, Unlock, UnlockWrite,
            IdleCheck, IdleLoad, IdleBlock, StopMark, StopTryLock, StopVerdict, StopReset,
            CleanQuit, CleanQuitJoin, Restore, MarkAll, MarkBox, At
      <4> QED  BY <1>2, <4>1, <4>2
    <3> QED  BY <3>1, <3>2, <3>3
  <2> QED  BY <1>4, <1>5, <2>1, <2>2 DEF Leaving, NewInv
<1> QED  BY <1>6, <1>7

\* The first entry of clean_quit().
LEMMA HangEnter ==
  ASSUME NEW S, MainStep \subseteq S, todo \in Seq(S), HangInv, MainCall,
         At("cleanQuit"), ~quitting
  PROVE  /\ Entered(todo')
         /\ Live(todo')
         /\ quitting'
         /\ NewInv'
         /\ EndInv'
<1> DEFINE p == Stop \o <<"join", "restore", "exited">>
<1> HIDE DEF p
<1>1. /\ todo # <<>> /\ Tail(todo) \in Seq(S)
      /\ p \in Seq(S) /\ p \in Seq(MainStep) /\ Proper(p) /\ ~Locks(p)
  <2>1. p \in Seq(MainStep) /\ Proper(p) /\ ~Locks(p)
    BY ProperLists DEF p
  <2> QED  BY <2>1, CallTodo, SeqMonotonic, HeadTailProperties
<1>2. /\ Become(p) /\ quitting'
      /\ UNCHANGED <<tag, app, permits, rpc>>
  BY CallAtCleanQuit DEF p
<1>3. p # <<>> /\ Head(p) = "stopMark" /\ Live(p)
  <2> DEFINE q == <<"join", "restore", "exited">>
  <2>1. /\ q \in Seq(MainStep) /\ q # <<>> /\ Head(q) = "join"
        /\ 3 \in 1 .. Len(q) /\ q[3] = "exited"
        /\ Leads(q[1], q[2]) /\ Leads(q[2], q[3])
    BY DEF Leads, MainStep
  <2> HIDE DEF q
  <2>2. \A i \in 1 .. 3 - 1 : Leads(q[i], q[i + 1])
    <3>1. \A i \in 1 .. 3 - 1 : i = 1 \/ i = 2
      OBVIOUS
    <3> QED  BY <2>1, <3>1
  <2>3. Live(q)
    BY <2>1, <2>2 DEF Live
  <2>4. /\ Stop \in Seq(MainStep) /\ Stop # <<>> /\ Head(Stop) = "stopMark"
        /\ \A i \in 1 .. Len(Stop) - 1 : Leads(Stop[i], Stop[i + 1])
        /\ Leads(Stop[Len(Stop)], Head(q))
    BY <2>1 DEF Stop, Leads, MainStep
  <2>5. Live(Stop \o q)
    BY <2>1, <2>3, <2>4, LiveBehind
  <2>6. Stop \o q # <<>> /\ Head(Stop \o q) = "stopMark"
    BY <2>1, <2>4, HeadOf
  <2> QED  BY <2>5, <2>6 DEF p, q
<1>4. /\ Entered(todo')
      /\ MainHoldsLock' => MainHoldsLock
  BY <1>1, <1>2, EnteredMove DEF HangInv, At
<1>5. Live(todo') /\ todo' # <<>> /\ Head(todo') = "stopMark"
  BY <1>1, <1>2, <1>3, HeadOf, LiveFront DEF Become
<1>6. NewInv'
  BY <1>2, <1>4, <1>5 DEF NewInv, HangInv, At, Undone
<1>7. EndInv'
  BY <1>5 DEF EndInv, At, Behind
<1> QED  BY <1>2, <1>4, <1>5, <1>6, <1>7

\* On the way out each list ends where the step behind it goes on.
LEMMA LiveLists ==
  ASSUME NEW S, MainStep \subseteq S, NEW t \in Seq(S), Live(t), t # <<>>,
         Head(t) = "join"
  PROVE  \A p \in {<<"stopUnlock">>, <<"cleanQuit", "stopUnlock">>, StopBusy, StopTrigger,
                    <<"cleanQuit">> \o StopTrigger} : Live(p \o t)
<1> DEFINE Linked(p) == /\ p \in Seq(S) /\ p # <<>>
                        /\ \A i \in 1 .. Len(p) - 1 : Leads(p[i], p[i + 1])
                        /\ Leads(p[Len(p)], "join")
<1>1. ASSUME NEW p, Linked(p) PROVE Live(p \o t)
  BY <1>1, LiveBehind
<1>2. \A s : s \in Seq(MainStep) => s \in Seq(S)
  BY SeqMonotonic
<1>3. <<"stopUnlock">> \in Seq(MainStep) /\ <<"cleanQuit", "stopUnlock">> \in Seq(MainStep)
      /\ StopBusy \in Seq(MainStep) /\ StopTrigger \in Seq(MainStep)
      /\ <<"cleanQuit">> \o StopTrigger \in Seq(MainStep)
  BY ProperLists
<1>4. Linked(<<"stopUnlock">>)
  BY <1>2, <1>3 DEF Leads
<1>5. Linked(<<"cleanQuit", "stopUnlock">>)
  <2> DEFINE p == <<"cleanQuit", "stopUnlock">>
  <2>1. p # <<>> /\ Len(p) = 2 /\ p[1] = "cleanQuit" /\ p[2] = "stopUnlock"
    OBVIOUS
  <2>2. p \in Seq(S)
    BY <1>2, <1>3
  <2> HIDE DEF p
  <2>3. \A i \in 1 .. Len(p) - 1 : i = 1
    BY <2>1
  <2>4. Linked(p)
    BY <2>1, <2>2, <2>3 DEF Leads
  <2> QED  BY <2>4 DEF p
<1>6. Linked(StopTrigger)
  <2>1. /\ StopTrigger # <<>> /\ Len(StopTrigger) = 4
        /\ StopTrigger[1] = "trigger" /\ StopTrigger[2] = "awaitStarted"
        /\ StopTrigger[3] = "awaitCollectedBriefly" /\ StopTrigger[4] = "stopReset"
    BY DEF StopTrigger
  <2>2. \A i \in 1 .. 4 - 1 : i = 1 \/ i = 2 \/ i = 3
    OBVIOUS
  <2> QED  BY <1>2, <1>3, <2>1, <2>2 DEF Leads
<1>7. Linked(StopBusy)
  <2>1. Len(AwaitDone) = 2 /\ AwaitDone[1] = "awaitCollected" /\ AwaitDone[2] = "awaitDrawn"
    BY DEF AwaitDone
  <2>2. /\ StopBusy # <<>> /\ Len(StopBusy) = 3
        /\ StopBusy[1] = "awaitCollected" /\ StopBusy[2] = "awaitDrawn"
        /\ StopBusy[3] = "stopVerdict"
    <3> DEFINE q == <<"stopVerdict">>
    <3>1. /\ AwaitDone \in Seq(CallStep) /\ q \in Seq(CallStep)
          /\ Len(q) = 1 /\ q[1] = "stopVerdict"
      BY Lists DEF CallStep, MainStep, AppState
    <3> HIDE DEF q
    <3>2. /\ AwaitDone \o q \in Seq(CallStep)
          /\ Len(AwaitDone \o q) = Len(AwaitDone) + Len(q)
          /\ \A i \in 1 .. Len(AwaitDone) + Len(q) :
               (AwaitDone \o q)[i] = IF i <= Len(AwaitDone) THEN AwaitDone[i]
                                     ELSE q[i - Len(AwaitDone)]
      BY <3>1, ConcatProperties
    <3>3. /\ Len(AwaitDone \o q) = 3
          /\ (AwaitDone \o q)[1] = AwaitDone[1]
          /\ (AwaitDone \o q)[2] = AwaitDone[2]
          /\ (AwaitDone \o q)[3] = q[1]
      BY <2>1, <3>1, <3>2
    <3> QED  BY <2>1, <3>1, <3>2, <3>3, EmptySeq DEF StopBusy, q
  <2>3. \A i \in 1 .. 3 - 1 : i = 1 \/ i = 2
    OBVIOUS
  <2> QED  BY <1>2, <1>3, <2>2, <2>3 DEF Leads
<1>8. Live((<<"cleanQuit">> \o StopTrigger) \o t)
  <2> DEFINE r == StopTrigger \o t
  <2>1. <<"cleanQuit">> \in Seq(S) /\ StopTrigger \in Seq(S)
    BY <1>2, <1>3 DEF MainStep
  <2>2. r \in Seq(S) /\ Live(r)
    BY <1>1, <1>6, <2>1, ConcatProperties
  <2>3. r # <<>> /\ Head(r) = "trigger"
    <3>1. StopTrigger # <<>> /\ Head(StopTrigger) = "trigger"
      BY DEF StopTrigger
    <3> QED  BY <2>1, <3>1, HeadOf
  <2>4. (<<"cleanQuit">> \o StopTrigger) \o t = <<"cleanQuit">> \o r
    BY <2>1, ConcatAssociative
  <2> HIDE DEF r
  <2>5. /\ <<"cleanQuit">> # <<>>
        /\ \A i \in 1 .. Len(<<"cleanQuit">>) - 1 :
             Leads(<<"cleanQuit">>[i], <<"cleanQuit">>[i + 1])
        /\ Leads(<<"cleanQuit">>[Len(<<"cleanQuit">>)], "trigger")
    BY DEF Leads
  <2> QED  BY <2>1, <2>2, <2>3, <2>4, <2>5, LiveBehind
<1> HIDE DEF Linked
<1> QED  BY <1>1, <1>4, <1>5, <1>6, <1>7, <1>8

\* Where it is on the way out decides what the main thread does.
LEMMA CallOut ==
  ASSUME MainCall
  PROVE  /\ At("stopMark") => StopMark
         /\ At("stopTryLock") => StopTryLock
         /\ At("stopVerdict") => StopVerdict
         /\ At("trigger") => Trigger
         /\ At("stopReset") \/ At("stopUnlock") => StopReset
         /\ \/ At("awaitCollected") \/ At("awaitDrawn") \/ At("awaitCollectedBriefly")
            \/ At("awaitStarted") \/ (At("cleanQuit") /\ quitting) \/ At("join") \/ At("restore")
            => UNCHANGED <<tag, app, permits, rpc, quitting>> /\ (Return \/ Become(<<>>))
BY DEF MainCall, IfActive, AwaitCollected, AwaitDrawn, AwaitStarted, RunRestart,
       RunRecreate, RunGuard, RunWriteDirect, RunConfigure, Trigger, Unlock, UnlockWrite,
       IdleCheck, IdleLoad, IdleBlock, StopMark, StopTryLock, StopVerdict, StopReset,
       CleanQuit, CleanQuitJoin, Restore, MarkAll, MarkBox, StoreApp, At, AppState,
       shared, runner

LEMMA ListHeads ==
  /\ StopBusy # <<>> /\ Head(StopBusy) = "awaitCollected"
  /\ StopTrigger # <<>> /\ Head(StopTrigger) = "trigger"
  /\ <<"cleanQuit">> \o StopTrigger # <<>> /\ Head(<<"cleanQuit">> \o StopTrigger) = "cleanQuit"
  /\ <<"cleanQuit", "stopUnlock">> # <<>> /\ Head(<<"cleanQuit", "stopUnlock">>) = "cleanQuit"
  /\ <<"stopUnlock">> # <<>> /\ Head(<<"stopUnlock">>) = "stopUnlock"
<1>1. /\ AwaitDone # <<>> /\ Head(AwaitDone) = "awaitCollected"
      /\ <<"stopVerdict">> \in Seq(MainStep) /\ AwaitDone \in Seq(MainStep)
      /\ <<"cleanQuit">> \in Seq(MainStep) /\ StopTrigger \in Seq(MainStep)
  BY DEF AwaitDone, StopTrigger, MainStep
<1>2. StopBusy # <<>> /\ Head(StopBusy) = "awaitCollected"
  BY <1>1, HeadOf DEF StopBusy
<1>3. /\ <<"cleanQuit">> \o StopTrigger # <<>>
      /\ Head(<<"cleanQuit">> \o StopTrigger) = Head(<<"cleanQuit">>)
  BY <1>1, HeadOf
<1>4. /\ StopTrigger # <<>> /\ Head(StopTrigger) = "trigger"
      /\ <<"cleanQuit", "stopUnlock">> # <<>>
      /\ Head(<<"cleanQuit", "stopUnlock">>) = "cleanQuit"
      /\ <<"stopUnlock">> # <<>> /\ Head(<<"stopUnlock">>) = "stopUnlock"
      /\ Head(<<"cleanQuit">>) = "cleanQuit"
  BY DEF StopTrigger
<1> QED  BY <1>2, <1>3, <1>4

\* Behind the first entry of clean_quit(), to the end.
LEMMA HangOut ==
  ASSUME NEW S, MainStep \subseteq S, todo \in Seq(S), permits \in Nat, HangInv, MainCall,
         quitting
  PROVE  /\ Entered(todo')
         /\ Live(todo')
         /\ quitting'
         /\ NewInv'
         /\ EndInv'
<1> DEFINE t == Tail(todo)
           n == Head(Tail(todo))
<1>1. /\ todo # <<>> /\ Head(todo) # "exited"
      /\ t \in Seq(S) /\ Live(t) /\ t # <<>> /\ Leads(Head(todo), n)
  BY CallTodo, LiveHead, HeadTailProperties DEF HangInv
<1>2. PICK p \in Seq(MainStep) :
        /\ Become(p) /\ Proper(p)
        /\ p = <<>> \/ Head(todo) # "stopMark"
        /\ Locks(p) => StopTryLock
  BY ProperCall
<1>3. /\ Entered(todo')
      /\ MainHoldsLock' => MainHoldsLock \/ At("stopTryLock")
  <2>1. p \in Seq(S)
    BY SeqMonotonic
  <2> QED  BY <1>1, <1>2, <2>1, EnteredMove DEF HangInv, StopTryLock
<1> HIDE DEF t, n
<1>4. ASSUME Return \/ Become(<<>>) PROVE Live(todo') /\ todo' # <<>> /\ Head(todo') = n
  BY <1>1, <1>4, ReturnIsBecome DEF Return, t, n
<1>5. ASSUME NEW q \in {<<"stopUnlock">>, <<"cleanQuit", "stopUnlock">>, StopBusy, StopTrigger,
                         <<"cleanQuit">> \o StopTrigger},
             Become(q), n = "join"
      PROVE  Live(todo') /\ todo' # <<>> /\ Head(todo') = Head(q)
  <2>1. q \in Seq(S) /\ q # <<>>
    BY ProperLists, SeqMonotonic, ListHeads
  <2>2. Live(q \o t) /\ q \o t # <<>> /\ Head(q \o t) = Head(q)
    BY <1>1, <1>5, <2>1, LiveLists, HeadOf DEF n, t
  <2> QED  BY <1>5, <2>2 DEF Become, t
<1>6. CASE At("stopMark")
  <2>1. /\ tag' = "Stopping" /\ quitting' = quitting /\ Return
    BY <1>6, CallOut DEF StopMark
  <2>2. Live(todo') /\ todo' # <<>> /\ Head(todo') = "stopTryLock"
    BY <1>1, <1>4, <1>6, <2>1 DEF Leads, At
  <2> QED  BY <1>3, <2>1, <2>2 DEF NewInv, EndInv, At, Active, Behind
<1>7. CASE At("stopTryLock")
  <2>1. /\ UNCHANGED <<tag, app, permits, rpc, quitting>>
        /\ n = "join"
        /\ ~At("stopMark")
    BY <1>1, <1>7, CallOut DEF StopTryLock, shared, runner, Leads, At
  <2>2. \/ Become(StopBusy)
        \/ Become(<<"cleanQuit", "stopUnlock">>) /\ app # "Quitting"
        \/ Become(<<"stopUnlock">>) /\ rpc \in {"start", "done"}
    BY <1>7, CallOut DEF StopTryLock
  <2>3. /\ Live(todo') /\ todo' # <<>>
        /\ \/ Head(todo') = "awaitCollected"
           \/ Head(todo') = "cleanQuit" /\ app # "Quitting"
           \/ Head(todo') = "stopUnlock" /\ rpc \in {"start", "done"}
    BY <1>5, <2>1, <2>2, ListHeads
  <2>4. NewInv'
    BY <1>7, <2>1 DEF HangInv, NewInv, Active
  <2>5. EndInv'
    BY <2>1, <2>3 DEF HangInv, EndInv, At, Behind, Served
  <2> QED  BY <1>3, <2>1, <2>3, <2>4, <2>5
<1>8. CASE \/ At("awaitCollected") \/ At("awaitDrawn") \/ At("awaitCollectedBriefly")
           \/ At("awaitStarted") \/ At("cleanQuit") \/ At("join") \/ At("restore")
  <2>1. UNCHANGED <<tag, app, permits, rpc, quitting>> /\ (Return \/ Become(<<>>))
    BY <1>8, CallOut
  <2>2. Live(todo') /\ todo' # <<>> /\ Head(todo') = n
    BY <1>4, <2>1
  <2>3. /\ n # "cleanQuit" /\ n # "stopTryLock" /\ ~At("stopMark") /\ ~At("stopTryLock")
        /\ n \in Undone => Head(todo) \in Undone
        /\ n \in Behind => Head(todo) \in Behind \/ At("cleanQuit")
    BY <1>1, <1>8 DEF Leads, At, Undone, Behind
  <2>4. NewInv'
    BY <1>1, <1>3, <2>1, <2>2, <2>3 DEF HangInv, NewInv, At
  <2>5. EndInv'
    BY <1>1, <2>1, <2>2, <2>3 DEF HangInv, EndInv, At, Served
  <2> QED  BY <1>3, <2>1, <2>2, <2>4, <2>5
<1>9. CASE At("trigger")
  <2>1. UNCHANGED <<tag, app, rpc, quitting>> /\ permits' > 0 /\ Return
    BY <1>9, CallOut, BoundsAssumption DEF Trigger, runner
  <2>2. Live(todo') /\ todo' # <<>> /\ Head(todo') = "awaitStarted"
    BY <1>1, <1>4, <1>9, <2>1 DEF Leads, At
  <2>3. NewInv'
    BY <1>3, <1>9, <2>1, <2>2 DEF HangInv, NewInv, At, Undone
  <2>4. EndInv'
    BY <1>9, <2>1, <2>2 DEF HangInv, EndInv, At, Served
  <2> QED  BY <1>3, <2>1, <2>2, <2>3, <2>4
<1>10. CASE At("stopReset") \/ At("stopUnlock")
  <2>1. UNCHANGED <<app, permits, rpc, quitting>> /\ tag' = "Idle" /\ Return
    BY <1>10, CallOut DEF StopReset, runner
  <2>2. Live(todo') /\ todo' # <<>> /\ Head(todo') = "join"
    BY <1>1, <1>4, <1>10, <2>1 DEF Leads, At
  <2>3. NewInv'
    BY <2>1, <2>2 DEF NewInv, At, Undone, Active
  <2>4. EndInv'
    BY <1>10, <2>1, <2>2 DEF HangInv, EndInv, At, Served, Behind, Active
  <2> QED  BY <1>3, <2>1, <2>2, <2>3, <2>4
<1>11. CASE At("stopVerdict")
  <2>1. /\ UNCHANGED <<app, permits, rpc, quitting>>
        /\ n = "join"
        /\ ~At("stopMark") /\ ~At("stopTryLock") /\ Head(todo) \in Undone
    BY <1>1, <1>11, CallOut DEF StopVerdict, runner, Leads, At, Undone
  <2>2. \/ tag \in Active /\ tag' = "Idle" /\ app = "Quitting" /\ Become(<<>>)
        \/ tag \in Active /\ tag' = "Idle" /\ app # "Quitting"
           /\ Become(<<"cleanQuit">> \o StopTrigger)
        \/ tag \notin Active /\ tag' = tag /\ Become(StopTrigger)
    BY <1>11, CallOut DEF StopVerdict
  <2>3. /\ Live(todo') /\ todo' # <<>>
        /\ \/ tag \in Active /\ tag' = "Idle" /\ app = "Quitting" /\ Head(todo') = "join"
           \/ tag \in Active /\ tag' = "Idle" /\ app # "Quitting" /\ Head(todo') = "cleanQuit"
           \/ tag \notin Active /\ tag' = tag /\ Head(todo') = "trigger"
    BY <1>4, <1>5, <2>1, <2>2, ListHeads
  <2>4. NewInv'
    BY <1>1, <1>3, <2>1, <2>3 DEF HangInv, NewInv, At, Active
  <2>5. EndInv'
    BY <2>1, <2>3 DEF HangInv, EndInv, WaitInv, At, Served, Behind, Active
  <2> QED  BY <1>3, <2>1, <2>3, <2>4, <2>5
<1> QED
  BY <1>1, <1>6, <1>7, <1>8, <1>9, <1>10, <1>11 DEF Leads, At

\* How every step of a call keeps to it.
LEMMA HangCall ==
  ASSUME NEW S, MainStep \subseteq S, todo \in Seq(S), permits \in Nat, HangInv, MainCall
  PROVE  HangInv'
<1>1. StopInv' /\ WaitInv'
  <2>1. RunnerNext
    BY DEF RunnerNext
  <2> QED  BY <2>1, StopCall, WaitStep DEF HangInv
<1>2. CASE ~Leaving
  BY <1>1, <1>2, HangQuiet DEF HangInv, EndInv
<1>3. CASE ~quitting /\ At("cleanQuit")
  BY <1>1, <1>3, HangEnter DEF HangInv, Leaving
<1>4. CASE quitting
  BY <1>1, <1>4, HangOut DEF HangInv, Leaving
<1> QED  BY <1>2, <1>3, <1>4 DEF Leaving

\* A step of an extension of the module, that has nothing to do with the
\* runner and its end, and one that does not touch the tag either.
LEMMA HangAside ==
  ASSUME NEW S, todo \in Seq(S), todo # <<>>, HangInv, StopInv', WaitInv',
         Head(todo) \notin OnTheWay \cup Closer,
         NEW p \in Seq(S), Proper(p), ~Locks(p), Become(p),
         UNCHANGED <<app, permits, rpc, quitting>>
  PROVE  HangInv'
<1>1. ~quitting /\ ~Leaving
  BY LiveAt DEF Leaving, At, OnTheWay, Closer
<1>2. app # "Quitting" /\ rpc # "done" /\ ~MainHoldsLock
  BY <1>1 DEF HangInv
<1>3. Entered(todo') /\ ~At("stopTryLock")' /\ ~MainHoldsLock'
  <2>1. Head(todo) # "stopMark"
    BY DEF OnTheWay
  <2> QED  BY <1>2, <2>1, EnteredMove DEF HangInv
<1> QED
  BY <1>1, <1>2, <1>3 DEF HangInv, NewInv, EndInv

LEMMA HangMove ==
  ASSUME NEW S, MainStep \subseteq S, todo \in Seq(S), todo # <<>>, HangInv,
         Head(todo) \notin OnTheWay \cup Closer,
         NEW p \in Seq(S), Proper(p), ~Locks(p), Become(p),
         UNCHANGED <<tag, app, permits, rpc, quitting>>
  PROVE  HangInv'
<1>1. StopInv /\ Paired(p) /\ WaitInv'
  BY DEF HangInv, Proper, WaitInv
<1>2. StopInv'
  BY <1>1, StopMove
<1> QED  BY <1>1, <1>2, HangAside

LEMMA HangStill ==
  ASSUME HangInv, UNCHANGED <<tag, app, permits, rpc, quitting, todo>>
  PROVE  HangInv'
BY DEF HangInv, StopInv, WaitInv, NewInv, EndInv, MainHoldsLock, Leaving, At, Served

LEMMA ProperCalls ==
  \A c \in DOMAIN ClientCalls : ClientCalls[c] \in Seq(Steps) /\ Proper(ClientCalls[c])
                                /\ ~Locks(ClientCalls[c])
<1> DEFINE Free == Steps \ {"stopMark", "stopTryLock", "stopUnlock", "Quitting"}
<1>1. /\ <<"markBox">> \in Seq(Free) /\ WaitIdle \in Seq(Free) /\ AwaitDone \in Seq(Free)
      /\ <<"unlock", "markAll">> \in Seq(Free)
      /\ <<"restart", "guard">> \in Seq(Free) /\ <<"restart", "guardDirect">> \in Seq(Free)
      /\ <<"stopIfActive", "unlock">> \in Seq(Free)
      /\ <<"restore", "stopped">> \in Seq(Free)
      /\ <<"Error", "cleanQuit">> \in Seq(Free)
  BY DEF Steps, MainStep, AppState, WaitIdle, AwaitDone
<1>2. ASSUME NEW p \in Seq(Free) PROVE p \in Seq(Steps) /\ Proper(p) /\ ~Locks(p)
  BY SeqMonotonic, FreeProper
<1> HIDE DEF Free
<1>3. Run \in Seq(Free) /\ RunDirect \in Seq(Free)
  BY <1>1, ConcatProperties DEF Run, RunDirect
<1>4. /\ <<"markBox">> \o Run \in Seq(Free)
      /\ WaitIdle \o <<"unlock", "markAll">> \o Run \in Seq(Free)
  BY <1>1, <1>3, ConcatProperties
<1>5. LET p == Stop \o <<"restore", "stopped">>
      IN  p \in Seq(Steps) /\ Proper(p) /\ ~Locks(p)
  <2>1. Stop \in Seq(Steps) /\ Proper(Stop) /\ ~Locks(Stop)
    BY ProperLists, SeqMonotonic DEF Steps
  <2>2. /\ <<"restore", "stopped">> \in Seq(Steps) /\ Proper(<<"restore", "stopped">>)
        /\ ~Locks(<<"restore", "stopped">>)
    BY <1>1, <1>2
  <2> QED  BY <2>1, <2>2, ProperConcat, ConcatProperties
<1>6. LET p == <<"Quitting", "cleanQuit">>
      IN  p \in Seq(Steps) /\ Proper(p) /\ ~Locks(p)
  BY DEF Proper, Paired, Entered, Locks, Steps, MainStep, AppState
<1>7. /\ DOMAIN ClientCalls
          = {"tick", "clock", "redraw", "layout", "reload", "sleep", "quit", "fail"}
      /\ ClientCalls["tick"] = Run
      /\ ClientCalls["clock"] = RunDirect
      /\ ClientCalls["redraw"] = <<"markBox">> \o Run
      /\ ClientCalls["layout"] = WaitIdle \o <<"unlock", "markAll">> \o Run
      /\ ClientCalls["reload"] = <<"stopIfActive", "unlock">>
      /\ ClientCalls["sleep"] = Stop \o <<"restore", "stopped">>
      /\ ClientCalls["quit"] = <<"Quitting", "cleanQuit">>
      /\ ClientCalls["fail"] = <<"Error", "cleanQuit">>
  BY DEF ClientCalls
<1> QED  BY <1>1, <1>2, <1>3, <1>4, <1>5, <1>6, <1>7

LEMMA HangInit ==
  ASSUME ThreadsInit, Proper(todo), ~Locks(todo), NEW S, todo \in Seq(S),
         todo # <<>> => Head(todo) # "cleanQuit"
  PROVE  HangInv
<1>1. ~MainHoldsLock
  BY HoldsLocks
<1> QED
  BY <1>1 DEF ThreadsInit, HangInv, StopInv, Proper, WaitInv, NewInv, EndInv, At

LEMMA HangStep ==
  ASSUME HangInv, TypeOK, [RunnerNext]_rvars
  PROVE  HangInv'
<1>1. todo \in Seq(Steps) /\ MainStep \subseteq Steps /\ permits \in Nat
  BY DEF TypeOK, ThreadsTypeOK, Steps
<1>2. CASE RunnerThread \/ RunnerCancelled
  BY <1>1, <1>2, HangThread
<1>3. CASE MainCall
  BY <1>1, <1>3, HangCall
<1>4. CASE Client
  <2>1. PICK c \in DOMAIN ClientCalls : todo' = ClientCalls[c] \o <<"client">>
    BY <1>4, CallsAssumption DEF Client
  <2> DEFINE p == ClientCalls[c] \o <<"client">>
  <2>2. <<"client">> \in Seq({"client"}) /\ <<"client">> \in Seq(Steps)
    BY DEF Steps
  <2>3. Proper(<<"client">>) /\ ~Locks(<<"client">>)
    BY <2>2, FreeProper
  <2>4. p \in Seq(Steps) /\ Proper(p) /\ ~Locks(p)
    <3> HIDE DEF p
    <3>1. ClientCalls[c] \in Seq(Steps) /\ Proper(ClientCalls[c]) /\ ~Locks(ClientCalls[c])
      BY ProperCalls
    <3> QED  BY <2>2, <2>3, <3>1, ProperConcat, ConcatProperties DEF p
  <2> HIDE DEF p
  <2>5. /\ todo # <<>> /\ Tail(todo) = <<>> /\ Head(todo) = "client"
        /\ UNCHANGED <<tag, app, permits, rpc, quitting>>
    BY <1>4 DEF Client, shared, runner
  <2>6. Become(p)
    BY <2>1, <2>4, <2>5, ConcatEmptySeq DEF Become, p
  <2>7. Head(todo) \notin OnTheWay \cup Closer
    BY <2>5 DEF OnTheWay, Closer
  <2> QED  BY <1>1, <2>4, <2>5, <2>6, <2>7, HangMove
<1>5. CASE Exited \/ UNCHANGED rvars
  <2>1. UNCHANGED <<tag, app, permits, rpc, quitting, todo>>
    BY <1>5 DEF Exited, rvars
  <2> QED  BY <2>1, HangStill
<1> QED  BY <1>2, <1>3, <1>4, <1>5 DEF RunnerNext

(* For every set of calls, of missed deadlines and of dirty bits, with a   *)
(* timed join and without, a runner that fails to start, is cancelled or   *)
(* created anew: the two threads wait for each other only in the three     *)
(* places NoDeadlock names.                                                *)
THEOREM NeverDeadlocked == RunnerSpec => []NoDeadlock
<1>1. RunnerInit => HangInv
  <2> SUFFICES ASSUME RunnerInit PROVE HangInv
    OBVIOUS
  <2>1. /\ todo = <<"client">> /\ ThreadsInit /\ todo # <<>> /\ Head(todo) # "cleanQuit"
        /\ todo \in Seq({"client"})
    BY DEF RunnerInit
  <2>2. Proper(todo) /\ ~Locks(todo)
    BY <2>1, FreeProper
  <2> QED  BY <2>1, <2>2, HangInit
<1>2. TypeOK /\ HangInv => NoDeadlock
  BY HangMeans DEF TypeOK, ThreadsTypeOK
<1> QED  BY <1>1, <1>2, HangStep, TypeCorrect, PTL DEF RunnerSpec
===========================================================================
