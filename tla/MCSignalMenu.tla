---------------------------- MODULE MCSignalMenu ----------------------------
(***************************************************************************)
(* Two processes that take turns on the selected row, under the three      *)
(* menus about a process and the value background_update is shipped with.  *)
(***************************************************************************)
EXTENDS SignalMenu

NoBox == {}
NoSlow == {}
NoCalls == {}
Shipped == {TRUE}
OneSize == {"large"}
TwoPids == {1, 2}
=============================================================================
