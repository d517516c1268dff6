---------------------------- MODULE EventFifo ----------------------------
(***************************************************************************)
(* What Global::event_queue promises its users: a bounded first-in         *)
(* first-out queue.  A producer offers an event and is answered exactly    *)
(* once: the event is queued, or it is dropped, and it is dropped only at  *)
(* a moment the queue holds Capacity events.  The one consumer takes the   *)
(* oldest event, or learns that there is none.                             *)
(***************************************************************************)
EXTENDS Naturals, Sequences

CONSTANTS
  Producers,   \* contexts that push: signal handlers, the runner, the main thread
  Items,       \* the events
  NoItem,      \* "nothing": no offer outstanding, std::nullopt
  Capacity     \* the template parameter, event_queue_capacity in btop

VARIABLES
  fifo,    \* the queued events, oldest first
  offer,   \* offer[p]: the event producer p is pushing, or NoItem
  got      \* the last result of the consumer

vars == <<fifo, offer, got>>

Init ==
  /\ fifo = <<>>
  /\ offer = [p \in Producers |-> NoItem]
  /\ got = NoItem

Offer(p, i) ==
  /\ offer[p] = NoItem
  /\ offer' = [offer EXCEPT ![p] = i]
  /\ UNCHANGED <<fifo, got>>

Accept(p) ==
  /\ offer[p] # NoItem
  /\ Len(fifo) < Capacity
  /\ fifo' = Append(fifo, offer[p])
  /\ offer' = [offer EXCEPT ![p] = NoItem]
  /\ UNCHANGED got

Drop(p) ==
  /\ offer[p] # NoItem
  /\ Len(fifo) = Capacity
  /\ offer' = [offer EXCEPT ![p] = NoItem]
  /\ UNCHANGED <<fifo, got>>

Take ==
  /\ fifo # <<>>
  /\ got' = Head(fifo)
  /\ fifo' = Tail(fifo)
  /\ UNCHANGED offer

TakeNothing ==
  /\ fifo = <<>>
  /\ got' = NoItem
  /\ UNCHANGED <<fifo, offer>>

Next ==
  \/ \E p \in Producers : Accept(p) \/ Drop(p) \/ \E i \in Items : Offer(p, i)
  \/ Take
  \/ TakeNothing

Spec == Init /\ [][Next]_vars
==========================================================================
