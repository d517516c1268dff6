--------------------------- MODULE MCEventQueue ---------------------------
(***************************************************************************)
(* Instances of EventQueue: two slots, counters modulo 8 and two events,   *)
(* so that the counters wrap with the ring empty, half full and full.      *)
(***************************************************************************)
EXTENDS EventQueue

CONSTANTS handler, runner, e1, e2

\* The contract: one context pushes.
OneProducer == {handler}
\* The program: a signal handler on the main thread, and the runner thread.
BtopProducers == {handler, runner}
TwoItems == {e1, e2}
===========================================================================
