----------------------------- MODULE SignalMenu -----------------------------
(***************************************************************************)
(* The menus that act on the selected process: signalSend(), signalChoose()*)
(* and reniceMenu() of btop_menu.cpp, over the menus of Menus.             *)
(*                                                                         *)
(* The runner's draw of the process box notes which process is on the      *)
(* selected row, as Proc::selected_pid; Config::unlock() makes it the      *)
(* setting selected_pid; and the menus read the setting each time they are *)
(* dispatched.  Details are not open, so that a process is always selected.*)
(***************************************************************************)
EXTENDS Menus

CONSTANT Pids    \* the processes, numbered from 1

VARIABLES
  asked,       \* the no_update of the last call of run()
  noUpdate,    \* current_conf.no_update
  drawnPid,    \* Proc::selected_pid
  selectedPid, \* the setting selected_pid
  named,       \* the process in the text of the menu opened last, or 0
  reached      \* the process that it acted on, or 0

target == <<asked, noUpdate, drawnPid, selectedPid, named, reached>>
svars == <<mvars, target>>

Targeting == {"SignalSend", "SignalChoose", "Renice"}

\* Proc::collect() and, unless the output is paused, Proc::draw(): an update
\* may bring another process to the selected row.
DrawProcesses ==
  /\ Worker
  /\ IF rpc = "work" /\ rpc' = "check" /\ ~pause /\ ~noUpdate
     THEN drawnPid' \in Pids ELSE UNCHANGED drawnPid
  /\ UNCHANGED <<asked, noUpdate, selectedPid, named, reached>>

\* run() passes its argument on; unlock() takes over what was drawn.
CallTarget ==
  /\ Called
  /\ noUpdate' = IF At("configure") THEN asked ELSE noUpdate
  /\ selectedPid' = IF At("unlockWrite") THEN drawnPid ELSE selectedPid
  /\ UNCHANGED <<asked, drawnPid, named, reached>>

\* A menu that is redrawn writes the process into its text.
Names == redraw /\ Top \in Targeting

\* Yes or enter on such a menu, unless it is No, or there is no signal yet.
Acts ==
  /\ Top \in Targeting /\ key = "enter"
  /\ redraw => Top = "SignalSend"

HandleTarget ==
  \/ /\ Closed \/ SizeErrorOverride
     /\ asked' = TRUE
     /\ UNCHANGED <<noUpdate, drawnPid, selectedPid, named, reached>>
  \/ /\ Handle
     /\ named' = IF Names THEN selectedPid ELSE named
     /\ asked' = TRUE
     /\ UNCHANGED <<noUpdate, drawnPid, selectedPid, reached>>
  \/ /\ HandleAway
     /\ named' = IF Names /\ Top = "SignalSend" THEN selectedPid ELSE named
     /\ \/ Acts /\ reached' = selectedPid
        \/ (Acts => Top = "SignalSend" /\ stack' = Below) /\ UNCHANGED reached
     /\ UNCHANGED <<asked, noUpdate, drawnPid, selectedPid>>
  \/ /\ HandleChanged
     /\ asked' = FALSE
     /\ UNCHANGED <<noUpdate, drawnPid, selectedPid, named, reached>>
  \/ /\ HandledChanged \/ RestoreOverlay \/ ClearOutput \/ UnlockIfIdle \/ LeaveMenu
     /\ UNCHANGED target

\* Who calls run(), and whether it is to collect: a key, a tick, a new size.
Request ==
  /\ \/ KeyNormal /\ asked' \in BOOLEAN
     \/ Tick /\ asked' = FALSE
     \/ Resize /\ asked' = TRUE
  /\ UNCHANGED <<noUpdate, drawnPid, selectedPid, named, reached>>

MenuKey ==
  /\ \/ KeyToMenu /\ UNCHANGED <<named, reached>>
     \/ KeyOpens /\ named' = 0 /\ reached' = 0
  /\ UNCHANGED <<asked, noUpdate, drawnPid, selectedPid>>

SignalInit ==
  /\ MenuInit
  /\ asked = FALSE /\ noUpdate = FALSE
  /\ drawnPid \in Pids /\ selectedPid = drawnPid
  /\ named = 0 /\ reached = 0

SignalNext == DrawProcesses \/ CallTarget \/ HandleTarget \/ Request \/ MenuKey

SignalSpec == SignalInit /\ [][SignalNext]_svars

---------------------------------------------------------------------------
(* Property.                                                               *)

\* The process a signal or a priority goes to is the one that the menu named
\* when it asked ("To PID: ", btop_menu.cpp:1125), whatever the updates
\* behind the menu brought to the selected row.  (signalSend, signalChoose,
\* reniceMenu)
ReachesTheNamed == reached # 0 => reached = named
=============================================================================
