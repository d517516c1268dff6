------------------------------ MODULE Runner ------------------------------
(***************************************************************************)
(* The worker thread of btop (_runner in btop.cpp) and the functions by    *)
(* which the main thread drives it: Runner::run, Runner::stop,             *)
(* Runner::wait_idle, Config::unlock and clean_quit.                       *)
(*                                                                         *)
(* The runner sleeps on a semaphore, collects, draws, and goes back to     *)
(* sleep; runner_state_tag says what it does, and the main thread both     *)
(* reads and overwrites that tag.  One TLA+ step per access to a variable  *)
(* the threads share.                                                      *)
(*                                                                         *)
(* The main thread is its list of remaining steps, `todo': a call puts the *)
(* steps of the callee in front, an early return leaves them out.  Here    *)
(* its caller is a Client that issues the calls in every order; AppLoop    *)
(* puts the main loop in the client's place.                               *)
(***************************************************************************)
EXTENDS Naturals, Sequences

CONSTANTS
  Boxes,        \* the per-box bits of DirtyBit
  ForceFullEmit, \* DirtyBit::ForceFullEmit
  Slow,         \* the deadlines that may pass before what they wait for:
                \* "start", "work", "brief", "join"
  TimedJoin,    \* does the platform have pthread_timedjoin_np?
  Calls,        \* the calls the Client makes
  QueueLength,  \* capacity of the event queue
  MaxPermits,   \* bound: do_work is not counted above it
  MaxFaults     \* bound: exceptions and core count changes in the collectors

ASSUME ForceAssumption == ForceFullEmit \notin Boxes
ASSUME SlowAssumption == Slow \subseteq {"start", "work", "brief", "join"}
ASSUME BoundsAssumption ==
  /\ QueueLength \in Nat \ {0}
  /\ MaxPermits \in Nat \ {0}
  /\ MaxFaults \in Nat

VARIABLES
  tag,      \* Global::runner_state_tag
  app,      \* Global::app_state
  permits,  \* the count of Runner::do_work
  rpc,      \* where the runner thread is
  taken,    \* the dirty bits of the runner's current cycle
  pending,  \* Runner::pending_dirty
  faults,   \* exceptions and core count changes so far
  queue,    \* Global::event_queue, as EventFifo describes it
  wake,     \* a SIGUSR1 is pending: Input::interrupt() was called
  locked,   \* Config::locked
  tty,      \* "app" between Term::init and Term::restore, then "shell"
  quitting, \* clean_quit was entered
  todo,     \* the steps the main thread still has to take
  seen      \* what wait_idle loaded from the tag before it blocks

shared == <<tag, app, permits, pending, queue, wake>>
runner == <<rpc, taken, faults>>
main == <<locked, tty, quitting, todo, seen>>
rvars == <<tag, app, permits, pending, queue, wake, rpc, taken, faults,
           locked, tty, quitting, todo, seen>>

AppState == {"Running", "Resizing", "Reloading", "Sleeping", "Quitting", "Error"}
RunnerState == {"Idle", "Collecting", "Drawing", "Stopping"}
Event == {"Quit", "Sleep", "Resume", "Resize", "Reload", "ThreadError"}
Dirty == Boxes \cup {ForceFullEmit}

RunnerStep == {"start", "test", "idle", "acquire", "woken", "entry", "collect",
               "take", "work", "raiseRetry", "raiseGoOn", "check", "draw", "emit",
               "done"}

\* Runner::is_active
Active == {"Collecting", "Drawing"}

At(step) == todo # <<>> /\ Head(todo) = step

\* The main thread replaces its next step by the steps s.
Become(s) == todo' = s \o Tail(todo)
Return == todo' = Tail(todo)

\* The process is stopped by SIGSTOP or has left: no thread runs.
Halted == At("stopped") \/ At("exited")

\* stop() got mtx and has not returned yet.
MainHoldsLock == \E i \in DOMAIN todo : todo[i] = "stopUnlock"

\* slip: push() without its check for room.
PostUnchecked(e) == queue' = Append(queue, e)
\* EventQueue::push: an event that finds the queue full is dropped.
Post(e) == queue' = IF Len(queue) < QueueLength THEN Append(queue, e) ELSE queue

ThreadsInit ==
  /\ tag = "Idle"
  /\ app = "Running"
  /\ permits = 0
  /\ rpc = "start"
  /\ taken = {}
  /\ pending = {}
  /\ faults = 0
  /\ queue = <<>>
  /\ wake = FALSE
  /\ locked = FALSE
  /\ tty = "app"
  /\ quitting = FALSE
  /\ seen = "Idle"

RunnerInit == ThreadsInit /\ todo = <<"client">>

---------------------------------------------------------------------------
(* The runner thread: _runner().                                           *)

\* lock_guard on mtx.
RunnerStart ==
  /\ rpc = "start"
  /\ ~MainHoldsLock
  /\ rpc' = "test"
  /\ UNCHANGED <<shared, taken, faults, main>>

\* while (app_state != Quitting); leaving the loop releases mtx.
RunnerTest ==
  /\ rpc = "test"
  /\ rpc' = IF app = "Quitting" THEN "done" ELSE "idle"
  /\ UNCHANGED <<shared, taken, faults, main>>

\* slip: the tag keeps what the last cycle left in it.
RunnerIdleUnmarked ==
  /\ rpc = "idle"
  /\ rpc' = "acquire"
  /\ UNCHANGED <<shared, taken, faults, main>>

RunnerIdle ==
  /\ rpc = "idle"
  /\ tag' = "Idle"
  /\ rpc' = "acquire"
  /\ UNCHANGED <<app, permits, pending, queue, wake, taken, faults, main>>

RunnerAcquire ==
  /\ rpc = "acquire"
  /\ permits > 0
  /\ permits' = permits - 1
  /\ rpc' = "woken"
  /\ UNCHANGED <<tag, app, pending, queue, wake, taken, faults, main>>

\* is_stopping(), after a check of is_active() whose error branch is dead
\* code (WokenIsInactive).
RunnerWoken ==
  /\ rpc = "woken"
  /\ rpc' = IF tag = "Stopping" THEN "test" ELSE "entry"
  /\ UNCHANGED <<shared, taken, faults, main>>

RunnerEntry ==
  /\ rpc = "entry"
  /\ rpc' = IF app = "Resizing" THEN "test" ELSE "collect"
  /\ UNCHANGED <<shared, taken, faults, main>>

RunnerCollect ==
  /\ rpc = "collect"
  /\ tag' = "Collecting"
  /\ rpc' = "take"
  /\ UNCHANGED <<app, permits, pending, queue, wake, taken, faults, main>>

RunnerTake ==
  /\ rpc = "take"
  /\ taken' = pending
  /\ pending' = {}
  /\ rpc' = "work"
  /\ UNCHANGED <<tag, app, permits, queue, wake, faults, main>>

RunnerCollected ==
  /\ rpc = "work"
  /\ rpc' = "check"
  /\ UNCHANGED <<shared, taken, faults, main>>

\* A collector set coreNum_reset: ask for a resize and start over, or it
\* threw: report it and go on.
RunnerFault(event, next) ==
  /\ rpc = "work"
  /\ faults < MaxFaults
  /\ faults' = faults + 1
  /\ Post(event)
  /\ rpc' = next
  /\ UNCHANGED <<tag, app, permits, pending, wake, taken, main>>

RunnerCoresChanged == RunnerFault("Resize", "raiseRetry")
RunnerThrows == RunnerFault("ThreadError", "raiseGoOn")

\* Input::interrupt() after either of them.
RunnerRaise ==
  /\ rpc \in {"raiseRetry", "raiseGoOn"}
  /\ wake' = TRUE
  /\ rpc' = IF rpc = "raiseRetry" THEN "test" ELSE "check"
  /\ UNCHANGED <<tag, app, permits, pending, queue, taken, faults, main>>

\* is_stopping(): a cancelled cycle drops the dirty bits it took.
RunnerCheck ==
  /\ rpc = "check"
  /\ rpc' = IF tag = "Stopping" THEN "test" ELSE "draw"
  /\ UNCHANGED <<shared, taken, faults, main>>

RunnerDraw ==
  /\ rpc = "draw"
  /\ tag' = "Drawing"
  /\ rpc' = "emit"
  /\ UNCHANGED <<app, permits, pending, queue, wake, taken, faults, main>>

\* slip: the requests are cleared once more after the frame.
RunnerEmitClearing ==
  /\ rpc = "emit"
  /\ ~At("recreate")
  /\ rpc' = "test"
  /\ taken' = {}
  /\ pending' = {}
  /\ UNCHANGED <<tag, app, permits, queue, wake, faults, main>>

\* Renders into screen_buffer, writes to the terminal, swaps the buffers.  A
\* thread that was cancelled does not get through the write.
RunnerEmit ==
  /\ rpc = "emit"
  /\ ~At("recreate")
  /\ rpc' = "test"
  /\ taken' = {}
  /\ UNCHANGED <<shared, faults, main>>

\* The calls of the runner in which pthread_cancel takes effect: reads in the
\* collectors and the write of a frame.  The semaphore is a bare futex, which
\* is none: a runner that gets there first is never joined.
CancellationPoint == {"work", "emit"}

\* pthread_cancel in clean_quit, where it can take effect.
RunnerCancelled ==
  /\ At("restore") /\ quitting
  /\ rpc \in CancellationPoint
  /\ rpc' = "done"
  /\ UNCHANGED <<shared, taken, faults, main>>

RunnerThread ==
  /\ ~Halted
  /\ \/ RunnerStart \/ RunnerTest \/ RunnerIdle \/ RunnerAcquire
     \/ RunnerWoken \/ RunnerEntry \/ RunnerCollect \/ RunnerTake
     \/ RunnerCollected \/ RunnerCoresChanged \/ RunnerThrows
     \/ RunnerRaise \/ RunnerCheck \/ RunnerDraw \/ RunnerEmit

---------------------------------------------------------------------------
(* The main thread: the steps of each call, in order.                      *)

WaitIdle == <<"idleCheck">>
AwaitDone == <<"awaitCollected", "awaitDrawn">>
AwaitDoneBriefly == <<"awaitCollectedBriefly", "awaitDrawnBriefly">>
Run == AwaitDone \o <<"restart", "guard">>
RunDirect == AwaitDone \o <<"restart", "guardDirect">>
Stop == <<"stopMark", "stopTryLock">>
StopBusy == AwaitDone \o <<"stopVerdict">>
\* slip: no permit for a runner that sleeps.
StopTriggerless == <<"awaitStarted", "awaitCollectedBriefly", "stopReset">>
StopTrigger == <<"trigger", "awaitStarted", "awaitCollectedBriefly", "stopReset">>

\* Runner::is_active() before the call.
IfActive ==
  /\ At("stopIfActive")
  /\ Become(IF tag \in Active THEN Stop ELSE <<>>)
  /\ UNCHANGED <<shared, runner, locked, tty, quitting, seen>>

\* The deadline d of a timed wait passes: the runner is slow, or gone.
Late(d) == d \in Slow \/ rpc = "done"

AwaitCollected ==
  /\ \/ At("awaitCollected") /\ (tag # "Collecting" \/ Late("work"))
     \/ At("awaitCollectedBriefly") /\ (tag # "Collecting" \/ Late("brief"))
  /\ Return
  /\ UNCHANGED <<shared, runner, locked, tty, quitting, seen>>

AwaitDrawn ==
  /\ \/ At("awaitDrawn") /\ (tag # "Drawing" \/ Late("work"))
     \/ At("awaitDrawnBriefly") /\ (tag # "Drawing" \/ Late("brief"))
  /\ Return
  /\ UNCHANGED <<shared, runner, locked, tty, quitting, seen>>

\* Waits for the tag to leave Idle.  When the runner was through before the
\* main thread looked, the deadline passes; otherwise only on a slow start.
AwaitStarted ==
  /\ At("awaitStarted")
  /\ \/ tag # "Idle"
     \/ permits = 0 /\ rpc = "acquire"
     \/ Late("start")
  /\ Return
  /\ UNCHANGED <<shared, runner, locked, tty, quitting, seen>>

\* run(): a runner still active after both deadlines is declared stalled:
\* the tag is reset, the thread cancelled, joined and created anew.
RunRestart ==
  /\ At("restart")
  /\ IF tag \in Active
     THEN tag' = "Idle" /\ Become(<<"recreate">>)
     ELSE tag' = tag /\ Return
  /\ UNCHANGED <<app, permits, pending, queue, wake, runner, locked, tty, quitting, seen>>

\* pthread_join, and pthread_create, which may fail.
RunRecreate ==
  /\ At("recreate")
  /\ rpc \in CancellationPoint
  /\ \/ rpc' = "start" /\ Return
     \/ rpc' = "done" /\ Become(<<"cleanQuit">>)
  /\ taken' = {}
  /\ UNCHANGED <<shared, faults, locked, tty, quitting, seen>>

\* slip: run() returns without the wait for the runner to start.
RunGuardHasty ==
  /\ At("guard") \/ At("guardDirect")
  /\ Become(IF tag = "Stopping" \/ app = "Resizing" THEN <<>>
            ELSE IF At("guardDirect") THEN <<"writeDirect">>
            ELSE <<"unlock", "configure", "trigger">>)
  /\ UNCHANGED <<shared, runner, locked, tty, quitting, seen>>

RunGuard ==
  /\ At("guard") \/ At("guardDirect")
  /\ Become(IF tag = "Stopping" \/ app = "Resizing" THEN <<>>
            ELSE IF At("guardDirect") THEN <<"writeDirect">>
            ELSE <<"unlock", "configure", "trigger", "awaitStarted">>)
  /\ UNCHANGED <<shared, runner, locked, tty, quitting, seen>>

\* run("clock") and run("overlay") write to the terminal themselves.
RunWriteDirect ==
  /\ At("writeDirect")
  /\ Return
  /\ UNCHANGED <<shared, runner, locked, tty, quitting, seen>>

\* Config::lock() and the assignment of current_conf.
RunConfigure ==
  /\ At("configure")
  /\ locked' = TRUE
  /\ Return
  /\ UNCHANGED <<shared, runner, tty, quitting, seen>>

\* thread_trigger()
Trigger ==
  /\ At("trigger")
  /\ permits' = IF permits < MaxPermits THEN permits + 1 ELSE permits
  /\ Return
  /\ UNCHANGED <<tag, app, pending, queue, wake, runner, locked, tty, quitting, seen>>

\* Config::unlock()
Unlock ==
  /\ At("unlock")
  /\ Become(IF locked THEN WaitIdle \o <<"unlockWrite">> ELSE <<>>)
  /\ UNCHANGED <<shared, runner, locked, tty, quitting, seen>>

\* Copies the cached changes into the arrays the runner's getters read.
UnlockWrite ==
  /\ At("unlockWrite")
  /\ locked' = FALSE
  /\ Return
  /\ UNCHANGED <<shared, runner, tty, quitting, seen>>

\* while (is_active()) atomic_wait(tag, tag.load());
IdleCheck ==
  /\ At("idleCheck")
  /\ Become(IF tag \in Active THEN <<"idleLoad">> ELSE <<>>)
  /\ UNCHANGED <<shared, runner, locked, tty, quitting, seen>>

IdleLoad ==
  /\ At("idleLoad")
  /\ seen' = tag
  /\ Become(<<"idleBlock">>)
  /\ UNCHANGED <<shared, runner, locked, tty, quitting>>

\* atomic::wait returns once the tag is seen to differ from `seen'.
IdleBlock ==
  /\ At("idleBlock")
  /\ tag # seen
  /\ Become(<<"idleCheck">>)
  /\ UNCHANGED <<shared, runner, locked, tty, quitting, seen>>

\* Runner::stop()
StopMark ==
  /\ At("stopMark")
  /\ tag' = "Stopping"
  /\ Return
  /\ UNCHANGED <<app, permits, pending, queue, wake, runner, locked, tty, quitting, seen>>

\* The runner holds mtx from its start to its end: a failed try_lock is
\* taken to mean that it lives.
StopTryLock ==
  /\ At("stopTryLock")
  /\ Become(IF rpc \notin {"start", "done"} \/ MainHoldsLock THEN StopBusy
            ELSE IF app # "Quitting" THEN <<"cleanQuit", "stopUnlock">>
            ELSE <<"stopUnlock">>)
  /\ UNCHANGED <<shared, runner, locked, tty, quitting, seen>>

\* "No response from Runner thread", unless there is one: then one more
\* permit makes the runner look at the tag.
StopVerdict ==
  /\ At("stopVerdict")
  /\ IF tag \in Active
     THEN /\ tag' = "Idle"
          /\ Become(IF app = "Quitting" THEN <<>> ELSE <<"cleanQuit">> \o StopTrigger)
     ELSE /\ tag' = tag
          /\ Become(StopTrigger)
  /\ UNCHANGED <<app, permits, pending, queue, wake, runner, locked, tty, quitting, seen>>

\* The last store of stop(), with or without mtx in hand.
StopReset ==
  /\ At("stopReset") \/ At("stopUnlock")
  /\ tag' = "Idle"
  /\ Return
  /\ UNCHANGED <<app, permits, pending, queue, wake, runner, locked, tty, quitting, seen>>

\* slip: the process leaves without joining the runner.
CleanQuitUnjoined ==
  /\ At("cleanQuit")
  /\ quitting' = TRUE
  /\ Become(IF quitting THEN <<>> ELSE Stop \o <<"restore", "exited">>)
  /\ UNCHANGED <<shared, runner, locked, tty, seen>>

\* clean_quit(): a second entry returns at once.
CleanQuit ==
  /\ At("cleanQuit")
  /\ quitting' = TRUE
  /\ Become(IF quitting THEN <<>> ELSE Stop \o <<"join", "restore", "exited">>)
  /\ UNCHANGED <<shared, runner, locked, tty, seen>>

\* slip: a plain pthread_join on every platform.
CleanQuitJoinUntimed ==
  /\ At("join")
  /\ rpc = "done"
  /\ Return
  /\ UNCHANGED <<shared, runner, locked, tty, quitting, seen>>

\* pthread_timedjoin_np; past its deadline the thread is cancelled, and the
\* exit goes on without it.  Elsewhere it is a plain pthread_join.
CleanQuitJoin ==
  /\ At("join")
  /\ \/ rpc = "done"
     \/ TimedJoin /\ ("join" \in Slow \/ app # "Quitting" \/ MainHoldsLock)
  /\ Return
  /\ UNCHANGED <<shared, runner, locked, tty, quitting, seen>>

\* Config::write and Term::restore.
Restore ==
  /\ At("restore")
  /\ tty' = "shell"
  /\ Return
  /\ UNCHANGED <<shared, runner, locked, quitting, seen>>

\* Runner::request_redraw()
MarkAll ==
  /\ At("markAll")
  /\ pending' = Dirty
  /\ Return
  /\ UNCHANGED <<tag, app, permits, queue, wake, runner, locked, tty, quitting, seen>>

\* Runner::mark_dirty(b)
MarkBox ==
  /\ At("markBox")
  /\ \E b \in Dirty : pending' = pending \cup {b}
  /\ Return
  /\ UNCHANGED <<tag, app, permits, queue, wake, runner, locked, tty, quitting, seen>>

\* transition_to: the store of Global::app_state.
StoreApp ==
  /\ todo # <<>> /\ Head(todo) \in AppState
  /\ app' = Head(todo)
  /\ Return
  /\ UNCHANGED <<tag, permits, pending, queue, wake, runner, locked, tty, quitting, seen>>

MainCall ==
  \/ IfActive \/ AwaitCollected \/ AwaitDrawn \/ AwaitStarted
  \/ RunRestart \/ RunRecreate \/ RunGuard \/ RunWriteDirect \/ RunConfigure
  \/ Trigger \/ Unlock \/ UnlockWrite
  \/ IdleCheck \/ IdleLoad \/ IdleBlock
  \/ StopMark \/ StopTryLock \/ StopVerdict \/ StopReset
  \/ CleanQuit \/ CleanQuitJoin \/ Restore
  \/ MarkAll \/ MarkBox \/ StoreApp

---------------------------------------------------------------------------
(* The caller: what the main loop, the key handlers and the menus ask for. *)

\* A timer tick, the clock, a key that redraws a box, a key that lays out
\* the screen anew (Draw::calcSizes), SIGUSR2 or a new terminal size up to
\* Config::unlock(), SIGTSTP, SIGTERM, a ThreadError.
ClientCalls ==
  [tick   |-> Run,
   clock  |-> RunDirect,
   redraw |-> <<"markBox">> \o Run,
   layout |-> WaitIdle \o <<"unlock", "markAll">> \o Run,
   reload |-> <<"stopIfActive", "unlock">>,
   sleep  |-> Stop \o <<"restore", "stopped">>,
   quit   |-> <<"Quitting", "cleanQuit">>,
   fail   |-> <<"Error", "cleanQuit">>]

ASSUME CallsAssumption == Calls \subseteq DOMAIN ClientCalls

Client ==
  /\ todo = <<"client">>
  /\ \E c \in Calls :
       todo' = ClientCalls[c] \o <<"client">>
  /\ UNCHANGED <<shared, runner, locked, tty, quitting, seen>>

\* The process is gone.
Exited ==
  /\ At("exited")
  /\ UNCHANGED rvars

RunnerNext == RunnerThread \/ RunnerCancelled \/ MainCall \/ Client \/ Exited

\* The operating system schedules both threads.
RunnerFairness == WF_rvars(RunnerThread) /\ WF_rvars(MainCall)

RunnerSpec == RunnerInit /\ [][RunnerNext]_rvars /\ RunnerFairness

---------------------------------------------------------------------------
(* Properties *)

MainStep ==
  {"stopIfActive", "awaitCollected", "awaitDrawn", "awaitCollectedBriefly",
   "awaitDrawnBriefly", "awaitStarted", "restart", "recreate", "guard", "guardDirect",
   "writeDirect", "configure", "trigger", "unlock", "unlockWrite", "idleCheck",
   "idleLoad", "idleBlock", "stopMark", "stopTryLock", "stopVerdict", "stopReset",
   "stopUnlock", "cleanQuit", "join", "restore", "markAll", "markBox", "stopped",
   "exited"} \cup AppState

ThreadsTypeOK ==
  /\ tag \in RunnerState
  /\ app \in AppState
  /\ permits \in 0 .. MaxPermits
  /\ rpc \in RunnerStep
  /\ taken \subseteq Dirty
  /\ pending \subseteq Dirty
  /\ faults \in 0 .. MaxFaults
  /\ queue \in Seq(Event) /\ Len(queue) <= QueueLength
  /\ wake \in BOOLEAN
  /\ locked \in BOOLEAN
  /\ tty \in {"app", "shell"}
  /\ quitting \in BOOLEAN
  /\ seen \in RunnerState

TypeOK == ThreadsTypeOK /\ todo \in Seq(MainStep \cup {"client"})

\* Where the runner reads current_conf and the Config arrays.
Reading == {"take", "work", "raiseRetry", "raiseGoOn", "check", "draw", "emit"}

\* wait_idle blocks for a change of Idle, which only a new permit can bring.
WaitIdleHung == At("idleBlock") /\ seen = "Idle" /\ tag = "Idle"

\* run() joins a thread that got to the semaphore before the cancellation.
JoinHung == At("recreate")

\* The main thread waits for a runner that waits for the main thread.
Hung == rpc = "acquire" /\ permits = 0 /\ (WaitIdleHung \/ JoinHung)

\* What a thread waits for is not there: the main thread, and the runner.
MainWaits ==
  \/ At("awaitCollected") /\ tag = "Collecting" /\ ~Late("work")
  \/ At("awaitCollectedBriefly") /\ tag = "Collecting" /\ ~Late("brief")
  \/ At("awaitDrawn") /\ tag = "Drawing" /\ ~Late("work")
  \/ At("awaitDrawnBriefly") /\ tag = "Drawing" /\ ~Late("brief")
  \/ At("awaitStarted") /\ tag = "Idle" /\ ~(permits = 0 /\ rpc = "acquire") /\ ~Late("start")
  \/ At("idleBlock") /\ tag = seen
  \/ At("recreate") /\ rpc \notin CancellationPoint
  \/ /\ At("join") /\ rpc # "done"
     /\ TimedJoin => "join" \notin Slow /\ app = "Quitting" /\ ~MainHoldsLock

RunnerWaits ==
  \/ rpc = "start" /\ MainHoldsLock
  \/ rpc = "acquire" /\ permits = 0
  \/ rpc = "emit" /\ At("recreate")
  \/ rpc = "done"

\* The exit joins the runner for as long as it takes.
ExitHung == At("join") /\ ~TimedJoin

(* The two threads never wait for each other but in three places: wait_idle *)
(* that loaded Idle, run() joining a runner that sleeps, and the exit on a *)
(* platform without a timed join.  Wherever else one of them waits, for    *)
(* the tag, the semaphore, mtx or the end of the thread, the other has a   *)
(* step to take.  (stop, run, clean_quit, thread_trigger, _runner)         *)
NoDeadlock == MainWaits /\ RunnerWaits => Hung \/ ExitHung

(* Whatever the main thread stored into the tag meanwhile, the runner never *)
(* comes out of the semaphore to find itself active: the check after       *)
(* thread_wait() has nothing to catch.                                     *)
WokenIsInactive == rpc = "woken" => tag \notin Active

(* run() never assigns current_conf, which has no lock of its own, while   *)
(* the runner is between reading it and finishing the frame.               *)
ConfigureExclusive == At("configure") => rpc \notin Reading

(* "Stops any work being done in runner thread" (btop.cpp:983) and "Wait   *)
(* for runner to become idle" (btop_shared.hpp:448): Config::unlock(),     *)
(* which comes after them, never overwrites the settings under a cycle     *)
(* that reads them.                                                        *)
UnlockExclusive == At("unlockWrite") => rpc \notin Reading

(* do_work is a binary semaphore: no sequence of calls releases it while   *)
(* an earlier permit is still there.                                       *)
PermitsBinary == permits <= 1

(* The process leaves through clean_quit only when the runner has ended:   *)
(* it is never destroyed in the middle of a cycle.                         *)
ExitAfterRunner == At("exited") => rpc = "done"

(* Once quitting has begun, on request or because the runner is gone, the  *)
(* process leaves.                                                         *)
QuitCompletes == app = "Quitting" \/ quitting ~> At("exited")

(* A requested redraw is drawn: no dirty bit is lost between mark_dirty()  *)
(* and the frame that shows it, unless the cycle that took it asked for a  *)
(* resize, the program quits, or wait_idle hangs (WaitIdleReturns).        *)
Redrawn ==
  \A d \in Dirty :
    d \in pending ~> \/ rpc = "emit" /\ d \in taken
                     \/ \E i \in DOMAIN queue : queue[i] = "Resize"
                     \/ app = "Quitting"
                     \/ Hung

(* "Wait for runner to become idle" (btop_shared.hpp:448): the call ends.  *)
WaitIdleReturns ==
  At("idleCheck") ~> ~(At("idleCheck") \/ At("idleLoad") \/ At("idleBlock"))
===========================================================================
