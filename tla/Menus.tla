------------------------------- MODULE Menus -------------------------------
(***************************************************************************)
(* The menus of btop: the input state machine of btop_input.cpp, the stack *)
(* of menu frames and the dispatch loop of btop_menu.cpp, and what both    *)
(* share with the runner thread: Runner::pause_output and Global::overlay. *)
(*                                                                         *)
(* pause_output is stored by the menus (false) and by the runner (true, in *)
(* a cycle that shows an overlay), and read by Input::process as the sign  *)
(* that a menu is still open.  The module extends Runner and takes the     *)
(* place of its Client.  Text editing of the process filter is left out.   *)
(***************************************************************************)
EXTENDS Runner

CONSTANTS
  Background,  \* the values background_update has at the start
  Sizes,       \* the sizes the terminal may have: "large", "small" (less than
               \* 80 x 24), "tiny" (less than 50 x 20)
  Opened,      \* the frames the user opens with a key
  MaxKeys      \* bound: keys and changes of the terminal's size

ASSUME OpenedAssumption == Opened \subseteq {"Main", "Options", "Help", "SizeError", "SignalChoose",
                                            "SignalSend", "Renice"}
ASSUME BackgroundAssumption == Background \subseteq BOOLEAN
ASSUME SizesAssumption == Sizes \subseteq {"large", "small", "tiny"} /\ "large" \in Sizes
ASSUME MaxKeysAssumption == MaxKeys \in Nat

VARIABLES
  fsm,         \* Input::fsm_state
  stack,       \* the frames of MenuPDA, bottom first
  pause,       \* Runner::pause_output
  overlay,     \* Global::overlay is not empty
  conf,        \* the overlay and background_update of current_conf
  redraw,      \* Menu::redraw
  background,  \* background_update, and not tty_mode
  size,        \* of the terminal
  key,         \* current_key of Menu::process, by what it asks for
  first,       \* first_call of Menu::process
  keys         \* how many keys and changes of size there were

menu == <<fsm, stack, pause, overlay, conf, redraw, background, size, key, first, keys>>
mvars == <<rvars, menu>>
\* What a step of the main thread outside Runner leaves alone.
threads == <<tag, app, permits, pending, queue, wake, rpc, taken, faults,
             locked, tty, quitting, seen>>

Panels == {"Main", "Options", "Help", "SignalChoose", "Renice"}
MessageBoxes == {"SizeError", "SignalSend", "SignalReturn"}
Frames == Panels \cup MessageBoxes

\* Escape and its like; enter; what moves a cursor; left and right on an
\* option; anything else.
Keys == {"leave", "enter", "move", "change", "other"}

Top == stack[Len(stack)]
Below == SubSeq(stack, 1, Len(stack) - 1)

---------------------------------------------------------------------------
(* What a handler may answer: leave the overlay or draw it anew (NoChange), *)
(* "pop", the frame to replace it with, or "changed": a switch was flipped. *)

\* slip: the Quit entry of the main menu is looked up as a frame.
AnswerMisnamed(frame, k) ==
  CASE k = "leave" -> {"pop"}
    [] k = "enter" /\ frame = "Main" -> {"Options", "Help", "Quit"}
    [] k = "move"  -> {"draw"}
    [] OTHER       -> {"keep"}

\* Escape in the options may only end an edit or dismiss a warning.  The
\* Quit entry of the main menu pushes the event AppLoop deals with.
Answer(frame, k) ==
  CASE k = "leave" /\ frame = "Options"               -> {"pop", "draw"}
    [] k = "leave"                                    -> {"pop"}
    [] k = "enter" /\ frame = "Main"                  -> {"Options", "Help", "keep"}
    [] k = "enter" /\ frame = "Options"               -> {"draw", "keep"}
    [] k = "enter" /\ frame = "SignalChoose"          -> {"pop", "SignalReturn", "keep"}
    [] k = "enter" /\ frame = "SignalSend"            -> {"pop", "SignalReturn"}
    [] k = "enter"                                    -> {"pop"}
    [] k = "move" /\ frame = "Help"                   -> {"draw", "keep"}
    [] k = "move" /\ frame \in Panels \cup {"SignalSend"} -> {"draw"}
    [] k = "change" /\ frame = "Options"              -> {"changed"}
    [] OTHER                                          -> {"keep"}

\* With redraw set a panel draws itself and ignores the key, a message box
\* looks at it all the same; signalSend gives up when the process is gone.
Answers ==
  (IF redraw /\ Top \in Panels THEN {"draw"}
   ELSE {IF redraw /\ a = "keep" THEN "draw" ELSE a : a \in Answer(Top, key)})
  \cup (IF Top = "SignalSend" THEN {"pop"} ELSE {})

---------------------------------------------------------------------------
(* Menu::process(): each step is one round of its loop.  Its local         *)
(* variables go back to their first values when it returns.                *)

\* Draw::calcSizes()
CalcSizes == WaitIdle \o <<"unlock", "clearOutput", "markAll">>

\* slip: the overlay of the menu that was closed stays.
ClosedUncleared ==
  /\ At("menu")
  /\ stack = <<>>
  /\ pause' = FALSE
  /\ key' = "none" /\ first' = TRUE
  /\ Become(<<"markAll">> \o Run)
  /\ UNCHANGED <<threads, fsm, stack, overlay, conf, redraw, background, size, keys>>

\* The stack is empty: the menu is closed.
Closed ==
  /\ At("menu")
  /\ stack = <<>>
  /\ overlay' = FALSE
  /\ pause' = FALSE
  /\ key' = "none" /\ first' = TRUE
  /\ Become(<<"markAll">> \o Run)
  /\ UNCHANGED <<threads, fsm, stack, conf, redraw, background, size, keys>>

NeedsLarge == Panels \ {"Renice"}

DoesNotFit ==
  first /\ stack # <<>> /\ (size = "tiny" \/ (size = "small" /\ Top \in NeedsLarge))

\* The whole stack makes room for the error.
SizeErrorOverride ==
  /\ At("menu")
  /\ DoesNotFit
  /\ stack' = <<"SizeError">>
  /\ redraw' = TRUE
  /\ first' = FALSE
  /\ UNCHANGED <<threads, todo, fsm, pause, overlay, conf, background, size, key, keys>>

\* The handler answered NoChange; signalSend waits for the runner before it
\* draws.
Kept(drawn) ==
  /\ redraw' = FALSE
  /\ key' = "none" /\ first' = TRUE
  /\ Become(IF redraw THEN (IF Top = "SignalSend" THEN WaitIdle ELSE <<>>)
                            \o <<"markAll">> \o Run
            ELSE IF drawn THEN RunDirect ELSE <<>>)

Handle ==
  /\ At("menu")
  /\ stack # <<>> /\ ~DoesNotFit
  /\ \E drawn \in {TRUE, FALSE} :
       /\ (IF drawn THEN "draw" ELSE "keep") \in Answers
       /\ overlay' = (overlay \/ drawn)
       /\ Kept(drawn)
  /\ UNCHANGED <<threads, fsm, stack, pause, conf, background, size, keys>>

\* Pop, or Replace: the frame on top now is dispatched without a key.
HandleAway ==
  /\ At("menu")
  /\ stack # <<>> /\ ~DoesNotFit
  /\ \E a \in Answers \ {"keep", "draw", "changed"} :
       stack' = IF a = "pop" THEN Below ELSE Append(Below, a)
  /\ pause' = FALSE
  /\ redraw' = TRUE
  /\ key' = "none"
  /\ first' = FALSE
  /\ UNCHANGED <<threads, todo, fsm, overlay, conf, background, size, keys>>

\* A flipped switch, background_update or another: the sizes are calculated
\* anew under the menu and everything is collected again.
HandleChanged ==
  /\ At("menu")
  /\ stack # <<>> /\ ~DoesNotFit
  /\ "changed" \in Answers
  /\ \/ background' = ~background /\ pause' = FALSE
     \/ UNCHANGED <<background, pause>>
  /\ Become(<<"unlock">> \o CalcSizes \o <<"restoreOverlay", "markAll">> \o Run \o <<"changed">>)
  /\ UNCHANGED <<threads, fsm, stack, overlay, conf, redraw, size, key, first, keys>>

HandledChanged ==
  /\ At("changed")
  /\ Kept(FALSE)
  /\ UNCHANGED <<threads, fsm, stack, pause, overlay, conf, background, size, keys>>

RestoreOverlay ==
  /\ At("restoreOverlay")
  /\ overlay' = TRUE
  /\ Return
  /\ UNCHANGED <<threads, fsm, stack, pause, conf, redraw, background, size, key, first, keys>>

\* calcSizes() clears the overlay, lifts the pause and has the menu redrawn.
ClearOutput ==
  /\ At("clearOutput")
  /\ overlay' = FALSE
  /\ pause' = FALSE
  /\ redraw' = (redraw \/ fsm = "MenuActive")
  /\ Return
  /\ UNCHANGED <<threads, fsm, stack, conf, background, size, key, first, keys>>

---------------------------------------------------------------------------
(* Input::process()                                                        *)

\* Bound on the keys and resizes.
NextKey == keys < MaxKeys /\ keys' = keys + 1

\* Before each key: if (not Runner::is_active()) Config::unlock();
UnlockIfIdle ==
  /\ At("unlockIfIdle")
  /\ Become(IF tag \in Active THEN <<>> ELSE <<"unlock">>)
  /\ UNCHANGED <<threads, menu>>

\* A key while a menu has the input.
KeyToMenu ==
  /\ At("poll")
  /\ fsm = "MenuActive"
  /\ NextKey
  /\ key' \in Keys
  /\ first' = TRUE
  /\ Become(<<"unlockIfIdle", "menu", "leaveMenu", "poll">>)
  /\ UNCHANGED <<threads, fsm, stack, pause, overlay, conf, redraw, background, size>>

\* slip: any key of a menu hands the input back.
LeaveMenuAlways ==
  /\ At("leaveMenu")
  /\ fsm' = "Normal"
  /\ Return
  /\ UNCHANGED <<threads, stack, pause, overlay, conf, redraw, background, size, key, first, keys>>

\* exit_menu() unless the output is paused.
LeaveMenu ==
  /\ At("leaveMenu")
  /\ fsm' = IF pause THEN fsm ELSE "Normal"
  /\ Return
  /\ UNCHANGED <<threads, stack, pause, overlay, conf, redraw, background, size, key, first, keys>>

\* enter_menu() and Menu::show(), for a frame about a process or a refused
\* box after wait_idle().
KeyOpens ==
  /\ At("poll")
  /\ fsm = "Normal"
  /\ NextKey
  /\ \E frame \in Opened :
       /\ Become(<<"unlockIfIdle">>
                   \o (IF frame \in {"Main", "Options", "Help"} THEN <<>> ELSE WaitIdle)
                   \o <<"menu", "poll">>)
       /\ stack' = Append(stack, frame)
  /\ fsm' = "MenuActive"
  /\ key' = "none"
  /\ first' = TRUE
  /\ UNCHANGED <<threads, pause, overlay, conf, redraw, background, size>>

\* A key that redraws a box, or changes the layout.
KeyNormal ==
  /\ At("poll")
  /\ fsm = "Normal"
  /\ NextKey
  /\ \E calls \in {<<"markBox">> \o Run, WaitIdle \o CalcSizes \o <<"markAll">> \o Run} :
       Become(<<"unlockIfIdle">> \o calls \o <<"poll">>)
  /\ UNCHANGED <<threads, fsm, stack, pause, overlay, conf, redraw, background, size, key, first>>

---------------------------------------------------------------------------
(* What else the main loop does: a tick, and a change of the size.         *)

Tick ==
  /\ At("poll")
  /\ Become(Run \o <<"poll">>)
  /\ UNCHANGED <<threads, menu>>

\* transition_to(Resizing) and back: the open menu is dispatched anew, the
\* state still Resizing.
Resize ==
  /\ At("poll")
  /\ NextKey
  /\ size' \in Sizes
  /\ Become(<<"Resizing", "stopIfActive", "unlock">> \o CalcSizes
              \o (IF fsm = "MenuActive" THEN <<"menu">> ELSE <<"markAll">> \o Run)
              \o AwaitDoneBriefly \o <<"Running", "poll">>)
  /\ key' = "none"
  /\ first' = TRUE
  /\ UNCHANGED <<threads, fsm, stack, pause, overlay, conf, redraw, background>>

MenuLoop ==
  \/ Closed \/ SizeErrorOverride \/ Handle \/ HandleAway \/ HandleChanged
  \/ HandledChanged \/ RestoreOverlay \/ ClearOutput
  \/ UnlockIfIdle \/ LeaveMenu

Keyboard == KeyToMenu \/ KeyOpens \/ KeyNormal

---------------------------------------------------------------------------
(* The runner's and run()'s part.                                          *)

\* A cycle whose overlay hides the boxes pauses their output.
Worker ==
  /\ RunnerThread
  /\ pause' = (pause \/ (rpc = "emit" /\ conf.overlay /\ ~conf.background))
  /\ UNCHANGED <<fsm, stack, overlay, conf, redraw, background, size, key, first, keys>>

\* The assignment of current_conf; under a pause the overlay is shown once.
Called ==
  /\ MainCall
  /\ IF At("configure")
     THEN /\ conf' = [overlay |-> overlay, background |-> background]
          /\ overlay' = (overlay /\ ~(pause /\ ~background))
     ELSE UNCHANGED <<conf, overlay>>
  /\ UNCHANGED <<fsm, stack, pause, redraw, background, size, key, first, keys>>

MenuInit ==
  /\ ThreadsInit
  /\ todo = <<"poll">>
  /\ fsm = "Normal"
  /\ stack = <<>>
  /\ pause = FALSE
  /\ overlay = FALSE
  /\ background \in Background
  /\ conf = [overlay |-> FALSE, background |-> FALSE]
  /\ redraw = TRUE
  /\ size = "large"
  /\ key = "none"
  /\ first = TRUE
  /\ keys = 0

MenuNext ==
  \/ Worker
  \/ Called
  \/ MenuLoop
  \/ Keyboard
  \/ Tick
  \/ Resize

\* Both threads run.  Nothing is assumed of the user.
MenuFairness == WF_mvars(Worker) /\ WF_mvars(Called \/ MenuLoop)

MenuSpec == MenuInit /\ [][MenuNext]_mvars /\ MenuFairness

---------------------------------------------------------------------------
(* Properties *)

MenuStep == {"poll", "menu", "leaveMenu", "unlockIfIdle", "changed", "restoreOverlay",
             "clearOutput"}

MenuTypeOK ==
  /\ ThreadsTypeOK
  /\ todo \in Seq(MainStep \cup MenuStep)
  /\ fsm \in {"Normal", "MenuActive"}
  /\ stack \in Seq(Frames)
  /\ {pause, overlay, redraw, background, first} \subseteq BOOLEAN
  /\ conf \in [overlay : BOOLEAN, background : BOOLEAN]
  /\ size \in Sizes
  /\ key \in Keys \cup {"none"}
  /\ keys \in 0 .. MaxKeys

(* No overlay without a menu: whenever btop waits for a key with the stack *)
(* empty, nothing of a closed menu is left that a cycle would draw.        *)
NoGhost == At("poll") /\ overlay => stack # <<>>

(* The runner pauses the output behind the main thread's back, also just   *)
(* as a menu is closed; it never happens that the boxes are paused, no     *)
(* menu is open, and the next key goes elsewhere than to the loop that     *)
(* lifts the pause.                                                        *)
NeverFrozen == At("poll") /\ pause /\ stack = <<>> => fsm = "MenuActive"

(* Every dispatch of a key to the menus comes to an end, however many      *)
(* frames it pops and whatever the runner does, unless wait_idle hangs or   *)
(* a runner taken for dead ends the process.                               *)
MenuReturns == At("menu") ~> At("poll") \/ At("exited") \/ Hung

(* "delegate to Menu::process(), transition back on PDA empty"             *)
(* (btop_input.cpp:264): keys go to the menus as long as, and only as long *)
(* as, one is open.                                                        *)
InputFollowsMenu == At("poll") => (fsm = "MenuActive" <=> stack # <<>>)
============================================================================
