----------------------------- MODULE MCRunner -----------------------------
(***************************************************************************)
(* Instances of Runner for TLC.                                            *)
(***************************************************************************)
EXTENDS Runner

CONSTANTS box

OneBox == {box}
NoBox == {}
NoSlow == {}
AllSlow == {"start", "work", "brief", "join"}
\* What does not call stop() on a runner at work, and goes on.
Ordinary == {"tick", "clock", "redraw", "layout", "quit"}
AllCalls == Ordinary \cup {"reload", "sleep", "fail"}
Layouts == {"tick", "layout"}
Fails == {"tick", "fail"}
Reloads == {"tick", "reload"}
===========================================================================
