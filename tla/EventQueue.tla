---------------------------- MODULE EventQueue ----------------------------
(***************************************************************************)
(* EventQueue<T, Capacity> of btop_events.hpp: a ring of Capacity slots    *)
(* with two free-running unsigned counters, head_ and tail_.  One TLA+     *)
(* step per access to a shared variable; copying an event into or out of a *)
(* slot is not atomic (an AppEvent is several words) and has a beginning   *)
(* and an end.  Loads and stores are sequentially consistent here: the     *)
(* release stores of head_ and tail_ pair with the acquire loads of the    *)
(* other side.                                                             *)
(*                                                                         *)
(* The class is written for one producer.  Producers is a parameter because*)
(* btop has several: the signal handlers, the runner thread (ThreadError,  *)
(* Resize) and the main thread (the 'q' key, the Quit menu entry).         *)
(***************************************************************************)
EXTENDS Integers, Sequences

CONSTANTS
  Producers,   \* contexts that call push()
  Items,       \* event values
  NoItem,      \* std::nullopt; also: no item in a producer's or the consumer's hands
  Torn,        \* contents of a slot whose copy is incomplete
  Capacity,    \* number of slots
  Wrap         \* 2^w for counters of w bits

ASSUME CapacityAssumption == Capacity \in Nat \ {0}
\* Capacity is a power of two below 2^32, so it divides the counter range.
ASSUME WrapAssumption == Wrap \in Nat /\ Capacity < Wrap /\ Wrap % Capacity = 0
ASSUME ItemAssumption == NoItem \notin Items /\ Torn \notin Items /\ Torn # NoItem

VARIABLES
  head,     \* head_: next slot to fill, modulo Wrap
  tail,     \* tail_: next slot to empty, modulo Wrap
  slots,    \* slots_
  ppc,      \* ppc[p]: where producer p is in push()
  pitem,    \* pitem[p]: the argument of p's push(), NoItem outside push()
  ph,       \* ph[p]: p's local h
  cpc,      \* where the consumer is in try_pop()
  citem,    \* the consumer's local copy
  got       \* the last value try_pop() returned

vars == <<head, tail, slots, ppc, pitem, ph, cpc, citem, got>>

Index(n) == n % Capacity          \* n & mask
Used(h, t) == (h - t) % Wrap      \* h - t on unsigned counters

Succ(n) == (n + 1) % Wrap

RoomSigned(h, t) == h - t < Capacity             \* slip: signed subtraction
RoomOffByOne(h, t) == Used(h, t) <= Capacity     \* slip: full one event late
HasRoom(h, t) == Used(h, t) < Capacity

PushStep == {"idle", "loadTail", "startCopy", "copying", "publish"}
PopStep == {"idle", "copying", "release"}

TypeOK ==
  /\ head \in 0 .. Wrap - 1
  /\ tail \in 0 .. Wrap - 1
  /\ slots \in [0 .. Capacity - 1 -> Items \cup {NoItem, Torn}]
  /\ ppc \in [Producers -> PushStep]
  /\ pitem \in [Producers -> Items \cup {NoItem}]
  /\ ph \in [Producers -> 0 .. Wrap - 1]
  /\ cpc \in PopStep
  /\ citem \in Items \cup {NoItem, Torn}
  /\ got \in Items \cup {NoItem, Torn}

Init ==
  /\ head = 0
  /\ tail = 0
  /\ slots = [s \in 0 .. Capacity - 1 |-> NoItem]
  /\ ppc = [p \in Producers |-> "idle"]
  /\ pitem = [p \in Producers |-> NoItem]
  /\ ph = [p \in Producers |-> 0]
  /\ cpc = "idle"
  /\ citem = NoItem
  /\ got = NoItem

---------------------------------------------------------------------------
(* push() *)

PushLoadHead(p, i) ==
  /\ ppc[p] = "idle"
  /\ pitem' = [pitem EXCEPT ![p] = i]
  /\ ph' = [ph EXCEPT ![p] = head]
  /\ ppc' = [ppc EXCEPT ![p] = "loadTail"]
  /\ UNCHANGED <<head, tail, slots, cpc, citem, got>>

PushRoom(p) ==
  /\ ppc[p] = "loadTail"
  /\ HasRoom(ph[p], tail)
  /\ ppc' = [ppc EXCEPT ![p] = "startCopy"]
  /\ UNCHANGED <<head, tail, slots, pitem, ph, cpc, citem, got>>

PushFull(p) ==
  /\ ppc[p] = "loadTail"
  /\ ~HasRoom(ph[p], tail)
  /\ ppc' = [ppc EXCEPT ![p] = "idle"]
  /\ pitem' = [pitem EXCEPT ![p] = NoItem]
  /\ UNCHANGED <<head, tail, slots, ph, cpc, citem, got>>

\* slip: head_ is stored before the event is in its slot.
PushStartCopyPublished(p) ==
  /\ ppc[p] = "startCopy"
  /\ slots' = [slots EXCEPT ![Index(ph[p])] = Torn]
  /\ head' = Succ(ph[p])
  /\ ppc' = [ppc EXCEPT ![p] = "copying"]
  /\ UNCHANGED <<tail, pitem, ph, cpc, citem, got>>

PushStartCopy(p) ==
  /\ ppc[p] = "startCopy"
  /\ slots' = [slots EXCEPT ![Index(ph[p])] = Torn]
  /\ ppc' = [ppc EXCEPT ![p] = "copying"]
  /\ UNCHANGED <<head, tail, pitem, ph, cpc, citem, got>>

\* Another producer copying into the same slot may leave a mixture behind.
PushEndCopy(p) ==
  /\ ppc[p] = "copying"
  /\ \E v \in {pitem[p], Torn} :
       /\ v = Torn => \E q \in Producers \ {p} :
                         ppc[q] = "copying" /\ Index(ph[q]) = Index(ph[p])
       /\ slots' = [slots EXCEPT ![Index(ph[p])] = v]
  /\ ppc' = [ppc EXCEPT ![p] = "publish"]
  /\ UNCHANGED <<head, tail, pitem, ph, cpc, citem, got>>

PushPublish(p) ==
  /\ ppc[p] = "publish"
  /\ head' = Succ(ph[p])
  /\ ppc' = [ppc EXCEPT ![p] = "idle"]
  /\ pitem' = [pitem EXCEPT ![p] = NoItem]
  /\ UNCHANGED <<tail, slots, ph, cpc, citem, got>>

---------------------------------------------------------------------------
(* try_pop(): only the main thread calls it, so its own tail_ cannot move. *)

PopEmpty ==
  /\ cpc = "idle"
  /\ tail = head
  /\ got' = NoItem
  /\ UNCHANGED <<head, tail, slots, ppc, pitem, ph, cpc, citem>>

PopStartCopy ==
  /\ cpc = "idle"
  /\ tail # head
  /\ cpc' = "copying"
  /\ UNCHANGED <<head, tail, slots, ppc, pitem, ph, citem, got>>

PopEndCopy ==
  /\ cpc = "copying"
  /\ citem' = slots[Index(tail)]
  /\ cpc' = "release"
  /\ UNCHANGED <<head, tail, slots, ppc, pitem, ph, got>>

PopRelease ==
  /\ cpc = "release"
  /\ tail' = Succ(tail)
  /\ got' = citem
  /\ citem' = NoItem
  /\ cpc' = "idle"
  /\ UNCHANGED <<head, slots, ppc, pitem, ph>>

---------------------------------------------------------------------------
Push(p) ==
  \/ \E i \in Items : PushLoadHead(p, i)
  \/ PushRoom(p)
  \/ PushFull(p)
  \/ PushStartCopy(p)
  \/ PushEndCopy(p)
  \/ PushPublish(p)

Pop == PopEmpty \/ PopStartCopy \/ PopEndCopy \/ PopRelease

Next == (\E p \in Producers : Push(p)) \/ Pop

Spec == Init /\ [][Next]_vars

---------------------------------------------------------------------------
(* At most Capacity events lie between tail_ and head_, through every      *)
(* wrap-around of the counters: the ring never overwrites an unread event  *)
(* and the consumer never replays a read one.                              *)
Bounded == Used(head, tail) <= Capacity

(* No two copies, of which one writes, are ever under way on one slot: the *)
(* absence of a data race on slots_.                                       *)
NoSlotRace ==
  \A p \in Producers :
    ppc[p] = "copying" =>
      /\ ~(cpc = "copying" /\ Index(ph[p]) = Index(tail))
      /\ \A q \in Producers \ {p} :
           ~(ppc[q] = "copying" /\ Index(ph[q]) = Index(ph[p]))

(* The events of the ring, oldest first. *)
Contents == [k \in 1 .. Used(head, tail) |-> slots[Index(tail + k - 1)]]

Fifo == INSTANCE EventFifo WITH fifo <- Contents, offer <- pitem

(* push() and try_pop() behave as a bounded FIFO: an event push() returned *)
(* true for is delivered once, whole and in order, and push() returns      *)
(* false only when the queue was full at some moment during the call.      *)
ImplementsFifo == Fifo!Spec
===========================================================================
