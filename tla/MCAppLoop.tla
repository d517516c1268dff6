----------------------------- MODULE MCAppLoop -----------------------------
(***************************************************************************)
(* Instances of AppLoop for TLC.                                           *)
(***************************************************************************)
EXTENDS AppLoop

NoBox == {}
NoSlow == {}
NoCalls == {}
Handled == {"Quit", "Sleep", "Resize", "Reload"}
QuitOrReload == {"Quit", "Reload"}
============================================================================
