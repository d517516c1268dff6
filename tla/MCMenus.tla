------------------------------ MODULE MCMenus ------------------------------
(***************************************************************************)
(* Instances of Menus for TLC.                                             *)
(***************************************************************************)
EXTENDS Menus

NoBox == {}
NoSlow == {}
NoCalls == {}
\* The overlay pauses the boxes; a switch in the options may end that.
NoBackground == {FALSE}
\* The value btop is shipped with.
DefaultBackground == {TRUE}
\* Too small for the panels, not for the message boxes.
TwoSizes == {"large", "small"}
\* A panel that leads to others, and a message box that leads to another.
MainAndSignal == {"Main", "SignalSend"}
OneSize == {"large"}
============================================================================
