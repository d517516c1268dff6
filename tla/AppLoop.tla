------------------------------ MODULE AppLoop ------------------------------
(***************************************************************************)
(* The main thread of btop (btop.cpp): signal handlers push events, the    *)
(* main loop pops them, dispatches each on the application state machine   *)
(* and runs the exit and entry actions of the transition, then chains the  *)
(* transient states back to Running, looks for a system wake-up and a      *)
(* changed terminal, redraws, and waits for input.                         *)
(*                                                                         *)
(* The entry actions drive the runner thread, so the module extends Runner *)
(* and takes the place of its Client.  No menu is open.                    *)
(***************************************************************************)
EXTENDS Runner

CONSTANTS
  Signals,    \* the events the signal handlers push
  MaxInputs   \* bound: signals, keys, terminal changes and faults of a collector

ASSUME SignalsAssumption == Signals \subseteq Event \ {"ThreadError"}
ASSUME InputsAssumption == MaxInputs \in Nat

VARIABLES
  ev,      \* the event being dispatched, "none" between two events
  inputs   \* how many inputs the environment has given

avars == <<rvars, ev, inputs>>
threads == <<tag, app, permits, pending, rpc, taken, faults, locked, quitting, seen>>

\* The outside acts.
Input == inputs + faults < MaxInputs /\ inputs' = inputs + 1
NoInput == UNCHANGED inputs

---------------------------------------------------------------------------
(* The application state machine.                                          *)

\* on_event(): what is not listed preserves the state.
OnEvent(state, event) ==
  CASE state = "Running" /\ event = "Quit"        -> "Quitting"
    [] state = "Running" /\ event = "Sleep"       -> "Sleeping"
    [] state = "Running" /\ event = "Resize"      -> "Resizing"
    [] state = "Running" /\ event = "Reload"      -> "Reloading"
    [] state = "Running" /\ event = "ThreadError" -> "Error"
    [] state = "Sleeping" /\ event = "Resume"     -> "Resizing"
    [] OTHER                                      -> state

\* term_resize() once it has decided to act.
TermResize == <<"stopIfActive", "unlock", "fit">>

\* Draw::calcSizes()
CalcSizes == WaitIdle \o <<"unlock", "markAll">>

\* slip: the exit action names a state of the other state machine.
OnExitMisnamed(from, to) ==
  IF from = "Running" /\ to \in {"Quitting", "Sleeping", "Error"}
  THEN <<"Stopping">> ELSE <<>>

\* on_exit()
OnExit(from, to) ==
  IF from = "Running" /\ to \in {"Quitting", "Sleeping", "Error"}
  THEN <<"markStopping">> ELSE <<>>

\* on_enter().  run("all") finds the state Resizing and returns at its guard.
OnEnter(to) ==
  CASE to = "Resizing"  -> TermResize \o CalcSizes \o <<"markAll">> \o Run \o AwaitDoneBriefly
    [] to = "Reloading" -> <<"stopIfActive", "unlock">>
    [] to = "Sleeping"  -> Stop \o <<"restore", "stopped">>
    [] to \in {"Quitting", "Error"} -> <<"cleanQuit">>
    [] to = "Running"   -> <<>>

\* transition_to()
TransitionTo(from, to) ==
  IF from = to THEN <<>> ELSE OnExit(from, to) \o <<to>> \o OnEnter(to)

\* Through Resizing and back.
Relayout == TransitionTo("Running", "Resizing") \o <<"Running">>

---------------------------------------------------------------------------
(* The main loop, step by step.                                            *)

\* Before the loop: signal handlers are already installed; events that
\* arrive until the terminal is large enough are thrown away.
Startup == <<"startResize", "discard">> \o CalcSizes \o <<"drain">>

\* The terminal is large enough, or term_resize(true) waits for it.
StartResize ==
  /\ At("startResize")
  /\ \/ Become(<<>>) /\ NoInput
     \/ Become(TermResize) /\ Input
  /\ UNCHANGED <<threads, queue, wake, tty, ev>>

Discard ==
  /\ At("discard")
  /\ queue' = <<>>
  /\ Return
  /\ UNCHANGED <<threads, wake, tty, ev, inputs>>

\* slip: a popped Resume is dispatched without _resume().
DrainUnresumed ==
  /\ At("drain")
  /\ queue # <<>>
  /\ ev' = Head(queue)
  /\ queue' = Tail(queue)
  /\ Become(<<"dispatch">>)
  /\ UNCHANGED <<threads, wake, tty, inputs>>

\* try_pop(), and _resume() when it is a Resume.
Drain ==
  /\ At("drain")
  /\ queue # <<>>
  /\ ev' = Head(queue)
  /\ queue' = Tail(queue)
  /\ Become((IF ev' = "Resume" THEN <<"termInit">> \o TermResize ELSE <<>>) \o <<"dispatch">>)
  /\ UNCHANGED <<threads, wake, tty, inputs>>

TermInit ==
  /\ At("termInit")
  /\ tty' = "app"
  /\ Return
  /\ UNCHANGED <<threads, queue, wake, ev, inputs>>

\* dispatch_event() and transition_to(); a terminal state leaves the loop.
Dispatch ==
  /\ At("dispatch")
  /\ LET next == OnEvent(app, ev) IN
       Become(TransitionTo(app, next)
                \o IF next \in {"Quitting", "Error"} THEN <<"exited">> ELSE <<"drain">>)
  /\ ev' = "none"
  /\ UNCHANGED <<threads, queue, wake, tty, inputs>>

\* on_exit(): the tag is overwritten when the runner is active.
MarkStopping ==
  /\ At("markStopping")
  /\ tag' = IF tag \in Active THEN "Stopping" ELSE tag
  /\ Return
  /\ UNCHANGED <<app, permits, pending, rpc, taken, faults, locked, quitting, seen,
                 queue, wake, tty, ev, inputs>>

\* slip: a Resizing state reached from an event is not left again.
ChainedPartly ==
  CASE app = "Reloading" -> Relayout
    [] app = "Sleeping"  -> <<"Running">>
    [] OTHER             -> <<>>

\* Reloading -> Resizing -> Running, Sleeping -> Running.
Chained ==
  CASE app = "Reloading"               -> Relayout
    [] app \in {"Resizing", "Sleeping"} -> <<"Running">>
    [] OTHER                           -> <<>>

\* The queue is empty.
Drained ==
  /\ At("drain")
  /\ queue = <<>>
  /\ Become(Chained \o <<"upkeep">>)
  /\ UNCHANGED <<threads, queue, wake, tty, ev, inputs>>

\* More than 3 s since the last time round (the system was asleep), or a
\* terminal that changed its size without a SIGWINCH.
Upkeep ==
  /\ At("upkeep")
  /\ \/ Become(<<"clockCheck">>) /\ NoInput
     \/ Become(Relayout \o <<"drain">>) /\ Input
     \/ Become(TermResize \o Relayout \o <<"clockCheck">>) /\ Input
  /\ UNCHANGED <<threads, queue, wake, tty, ev>>

\* Does the clock show another time?
ClockCheck ==
  /\ At("clockCheck")
  /\ \E calls \in {<<>>, RunDirect} : Become(calls \o <<"tickCheck">>)
  /\ UNCHANGED <<threads, queue, wake, tty, ev, inputs>>

\* Has future_time come?
TickCheck ==
  /\ At("tickCheck")
  /\ \E calls \in {<<>>, Run} : Become(calls \o <<"poll">>)
  /\ UNCHANGED <<threads, queue, wake, tty, ev, inputs>>

---------------------------------------------------------------------------
(* Input::poll(): pselect() with SIGUSR1 unblocked.                        *)

PollWoken ==
  /\ At("poll")
  /\ wake
  /\ wake' = FALSE
  /\ Become(<<"drain">>)
  /\ UNCHANGED <<threads, queue, tty, ev, inputs>>

\* The wait times out, or the loop around poll() ends before it calls it.
PollTimeout ==
  /\ At("poll")
  /\ Become(<<"drain">>)
  /\ UNCHANGED <<threads, queue, wake, tty, ev, inputs>>

\* What Input::process does for a key that redraws a box, one that changes
\* the layout, and 'q'.
KeyCalls ==
  [redraw |-> <<"markBox">> \o Run,
   layout |-> WaitIdle \o CalcSizes \o <<"markAll">> \o Run,
   quit   |-> <<"postQuit">>]

PollKey ==
  /\ At("poll")
  /\ Input
  /\ \E k \in DOMAIN KeyCalls : Become(<<"unlockIfIdle">> \o KeyCalls[k] \o <<"poll">>)
  /\ UNCHANGED <<threads, queue, wake, tty, ev>>

\* if (not Runner::is_active()) Config::unlock();
UnlockIfIdle ==
  /\ At("unlockIfIdle")
  /\ Become(IF tag \in Active THEN <<>> ELSE <<"unlock">>)
  /\ UNCHANGED <<threads, queue, wake, tty, ev, inputs>>

PostQuit ==
  /\ At("postQuit")
  /\ Post("Quit")
  /\ wake' = TRUE
  /\ Return
  /\ UNCHANGED <<threads, tty, ev, inputs>>

Loop ==
  \/ StartResize \/ Discard
  \/ Drain \/ TermInit \/ Dispatch \/ MarkStopping
  \/ Drained \/ Upkeep \/ ClockCheck \/ TickCheck
  \/ PollWoken \/ PollTimeout \/ PollKey \/ UnlockIfIdle \/ PostQuit

---------------------------------------------------------------------------
(* The outside: signals, and the size of the terminal.                     *)

\* slip: term_resize() ends without Input::interrupt().
FitUnraised ==
  /\ At("fit")
  /\ Return
  /\ UNCHANGED <<threads, queue, wake, tty, ev, inputs>>

\* The terminal has the size the layout needs; term_resize() ends with
\* Input::interrupt().
Fit ==
  /\ At("fit")
  /\ wake' = TRUE
  /\ Return
  /\ UNCHANGED <<threads, queue, tty, ev, inputs>>

\* It has not: the poll for a key eats a pending SIGUSR1.
TooSmall ==
  /\ At("fit")
  /\ wake
  /\ wake' = FALSE
  /\ UNCHANGED <<threads, queue, tty, ev, inputs, todo>>

\* 'q' in a terminal that is too small.
TooSmallQuit ==
  /\ At("fit")
  /\ Input
  /\ Post("Quit")
  /\ wake' = TRUE
  /\ Return
  /\ UNCHANGED <<threads, tty, ev>>

\* _signal_handler(): push, then Input::interrupt().  A stopped process
\* takes its pending signals before the SIGCONT.
Signal ==
  /\ ~At("exited")
  /\ Input
  /\ \E e \in Signals :
       /\ At("stopped") => e \notin {"Sleep", "Resume"}
       /\ Post(e)
  /\ wake' = TRUE
  /\ UNCHANGED <<threads, todo, tty, ev>>

\* SIGCONT after SIGSTOP.
Continue ==
  /\ At("stopped")
  /\ Post("Resume")
  /\ wake' = TRUE
  /\ Return
  /\ UNCHANGED <<threads, tty, ev, inputs>>

Outside == Fit \/ TooSmall \/ TooSmallQuit \/ Signal \/ Continue

---------------------------------------------------------------------------
AppInit ==
  /\ ThreadsInit
  /\ todo = Startup
  /\ ev = "none"
  /\ inputs = 0

\* A fault of a collector counts as an input.
Worker == RunnerThread /\ inputs + faults' <= MaxInputs /\ UNCHANGED <<ev, inputs>>
Called == MainCall /\ UNCHANGED <<ev, inputs>>

AppNext ==
  \/ Worker
  \/ Called
  \/ (RunnerCancelled \/ Exited) /\ UNCHANGED <<ev, inputs>>
  \/ Loop
  \/ Outside

\* Both threads run.  Nothing is assumed of the outside.
AppFairness == WF_avars(Worker) /\ WF_avars(Called \/ Loop)

AppSpec == AppInit /\ [][AppNext]_avars /\ AppFairness

---------------------------------------------------------------------------
(* Properties *)

LoopStep ==
  {"startResize", "discard", "drain", "termInit", "dispatch", "markStopping", "fit",
   "upkeep", "clockCheck", "tickCheck", "poll", "unlockIfIdle", "postQuit"}

AppTypeOK ==
  /\ ThreadsTypeOK
  /\ todo \in Seq(MainStep \cup LoopStep)
  /\ ev \in Event \cup {"none"}
  /\ inputs \in 0 .. MaxInputs

\* The main thread waits for the user, or for ever.
Waiting == At("fit") \/ At("stopped") \/ At("exited") \/ Hung

(* The main thread never settles down to wait for input with an event in   *)
(* the queue, unless the SIGUSR1 that will wake it is pending or about to  *)
(* be sent: no interleaving of handlers, runner and the polls inside       *)
(* term_resize() loses a wake-up.                                          *)
NoLostWakeup ==
  At("poll") /\ queue # <<>> => wake \/ rpc \in {"raiseRetry", "raiseGoOn"}

(* Whenever btop reads keys the terminal is in btop's mode: a suspension,  *)
(* with whatever signals arrive around it, always ends in Term::init(), as *)
(* long as the queue has room for the Resume.                              *)
PollInAppMode == At("poll") => tty = "app"

(* The queue is drained, whatever the runner does meanwhile, unless btop   *)
(* waits for the user.                                                     *)
EventsDrained == queue # <<>> ~> queue = <<>> \/ Waiting

(* The transient states are left again.                                    *)
BackToRunning ==
  app \in {"Resizing", "Reloading", "Sleeping"} ~> app = "Running" \/ Waiting

(* "The main loop checks: Error > Quitting > Sleeping > ..." and "Quitting: *)
(* Clean shutdown requested" (btop_state.hpp): a request to quit that is   *)
(* dispatched ends the process, in whatever state it finds the program.    *)
QuitHonoured == At("dispatch") /\ ev = "Quit" ~> At("exited") \/ Hung
============================================================================
