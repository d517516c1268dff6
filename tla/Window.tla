------------------------------- MODULE Window -------------------------------
(***************************************************************************)
(* What a time series of a collector promises: the most recent samples, at *)
(* most as many as it has room for, in the order they were taken.          *)
(***************************************************************************)
EXTENDS Integers, Sequences

CONSTANTS Samples, Rooms

VARIABLES room, recent

Newest(s, n) == IF Len(s) <= n THEN s ELSE SubSeq(s, Len(s) - n + 1, Len(s))
Recorded(s, v, n) == IF n = 0 THEN s ELSE Newest(Append(s, v), n)

WindowInit == room = 0 /\ recent = <<>>

\* A sample is taken, and the room changed before or after.
Record(v, n) ==
  /\ room' = n
  /\ \/ recent' = Newest(Recorded(recent, v, room), n)
     \/ recent' = Recorded(Newest(recent, n), v, n)

WindowNext == \E v \in Samples, n \in Rooms : Record(v, n)

WindowSpec == WindowInit /\ [][WindowNext]_<<room, recent>>
=============================================================================
