------------------------- MODULE EventQueue_proofs -------------------------
(***************************************************************************)
(* Theorems about EventQueue for every number of slots and every counter   *)
(* width.  All but the types assume that one context pushes: with two, the *)
(* queue does not have these properties (run event_queue_mpsc).            *)
(***************************************************************************)
EXTENDS EventQueue, ModArith, SequenceTheorems

\* The contract the class is written for.
OneProducer == \A p, q \in Producers : p = q

Counter == 0 .. Wrap - 1

---------------------------------------------------------------------------
(* Unsigned arithmetic on the counters, as case distinctions. *)

LEMMA ConstantTypes == /\ Capacity \in Nat \ {0}
                       /\ Wrap \in Nat \ {0}
                       /\ Capacity < Wrap
                       /\ Wrap % Capacity = 0
BY CapacityAssumption, WrapAssumption

LEMMA SuccCases ==
  ASSUME NEW n \in Counter
  PROVE  Succ(n) = IF n = Wrap - 1 THEN 0 ELSE n + 1
<1>1. CASE n = Wrap - 1
  BY <1>1, ConstantTypes, ModUnique, Z3 DEF Succ, Counter
<1>2. CASE n # Wrap - 1
  <2>1. n + 1 \in 0 .. Wrap - 1
    BY <1>2, ConstantTypes DEF Counter
  <2> QED
    BY <1>2, <2>1, ConstantTypes, ModUnique, Z3 DEF Succ, Counter
<1> QED
  BY <1>1, <1>2

LEMMA UsedCases ==
  ASSUME NEW h \in Counter, NEW t \in Counter
  PROVE  Used(h, t) = IF h >= t THEN h - t ELSE h - t + Wrap
<1>1. CASE h >= t
  BY <1>1, ConstantTypes, ModUnique, Z3 DEF Used, Counter
<1>2. CASE h < t
  <2>1. h - t = Wrap * (0-1) + (h - t + Wrap) /\ h - t + Wrap \in 0 .. Wrap - 1
    BY <1>2, ConstantTypes, Z3 DEF Counter
  <2>2. (Wrap * (0-1) + (h - t + Wrap)) % Wrap = h - t + Wrap
    BY <2>1, ConstantTypes, ModUnique, Z3
  <2>3. ~(h >= t)
    BY <1>2, ConstantTypes DEF Counter
  <2> QED
    BY <2>1, <2>2, <2>3 DEF Used
<1> QED
  BY <1>1, <1>2 DEF Counter

\* A push adds one to the number of events in the ring, unless it was full.
LEMMA UsedAfterPush ==
  ASSUME NEW h \in Counter, NEW t \in Counter, Used(h, t) < Capacity
  PROVE  Succ(h) \in Counter /\ Used(Succ(h), t) = Used(h, t) + 1
<1>1. Succ(h) \in Counter
  BY SuccCases, ConstantTypes DEF Counter
<1>2. Used(Succ(h), t) = IF Succ(h) >= t THEN Succ(h) - t ELSE Succ(h) - t + Wrap
  BY <1>1, UsedCases
<1>3. Used(h, t) = IF h >= t THEN h - t ELSE h - t + Wrap
  BY UsedCases
<1>4. Succ(h) = IF h = Wrap - 1 THEN 0 ELSE h + 1
  BY SuccCases
<1> QED
  BY <1>1, <1>2, <1>3, <1>4, ConstantTypes, Z3 DEF Counter

\* A pop takes one away, unless the ring was empty.
LEMMA UsedAfterPop ==
  ASSUME NEW h \in Counter, NEW t \in Counter, h # t
  PROVE  Succ(t) \in Counter /\ Used(h, Succ(t)) = Used(h, t) - 1
<1>1. Succ(t) \in Counter
  BY SuccCases, ConstantTypes DEF Counter
<1>2. Used(h, Succ(t)) = IF h >= Succ(t) THEN h - Succ(t) ELSE h - Succ(t) + Wrap
  BY <1>1, UsedCases
<1>3. Used(h, t) = IF h >= t THEN h - t ELSE h - t + Wrap
  BY UsedCases
<1>4. Succ(t) = IF t = Wrap - 1 THEN 0 ELSE t + 1
  BY SuccCases
<1> QED
  BY <1>1, <1>2, <1>3, <1>4, ConstantTypes, Z3 DEF Counter

LEMMA UsedRange ==
  ASSUME NEW h \in Counter, NEW t \in Counter
  PROVE  /\ Used(h, t) \in 0 .. Wrap - 1
         /\ Used(h, t) = 0 <=> h = t
BY UsedCases, ConstantTypes DEF Counter

\* The slot of an entry less than a lap ahead of tail_ is not tail_'s slot.
LEMMA IndexDistinct ==
  ASSUME NEW h \in Counter, NEW t \in Counter, h # t, Used(h, t) < Capacity
  PROVE  Index(h) # Index(t)
<1>1. CASE h >= t
  BY <1>1, UsedCases, ConstantTypes, ModDistinct DEF Counter, Index
<1>2. CASE h < t
  <2>1. Used(h, t) = h + Wrap - t /\ 0 < h + Wrap - t
    BY <1>2, UsedCases, ConstantTypes DEF Counter
  <2>2. h \in Int /\ Wrap + h \in Int /\ t \in Int /\ 0 < (Wrap + h) - t /\ (Wrap + h) - t < Capacity
    BY <2>1, ConstantTypes, Z3 DEF Counter
  <2>3. (Wrap + h) % Capacity # t % Capacity
    BY ONLY <2>2, ConstantTypes, ModDistinct
  <2>4. (Wrap + h) % Capacity = h % Capacity
    BY ONLY <2>2, ConstantTypes, ModShift
  <2> QED
    BY <2>3, <2>4 DEF Index
<1> QED
  BY <1>1, <1>2 DEF Counter

LEMMA IndexInRange ==
  ASSUME NEW n \in Int
  PROVE  Index(n) \in 0 .. Capacity - 1
BY ConstantTypes, DivMod DEF Index
---------------------------------------------------------------------------
(* The inductive invariant.  The producer's private copy of head_ stays    *)
(* current while it pushes, the room it saw stays (the consumer only adds  *)
(* to it), and the entry the consumer is copying stays in the ring.        *)

PushCurrent == \A p \in Producers : ppc[p] # "idle" => ph[p] = head

PushHasRoom ==
  \A p \in Producers :
    ppc[p] \in {"startCopy", "copying", "publish"} => HasRoom(head, tail)

PopHasItem == cpc # "idle" => tail # head

IInv == TypeOK /\ Bounded /\ PushCurrent /\ PushHasRoom /\ PopHasItem

LEMMA InitIInv == Init => IInv
<1> SUFFICES ASSUME Init PROVE IInv
  OBVIOUS
<1>1. 0 \in Counter
  BY ConstantTypes DEF Counter
<1>2. TypeOK
  BY ConstantTypes DEF Init, TypeOK, PushStep, PopStep
<1>3. Bounded
  BY <1>1, UsedRange, ConstantTypes DEF Init, Bounded
<1> QED
  BY <1>2, <1>3 DEF Init, IInv, PushCurrent, PushHasRoom, PopHasItem

\* Every step of a producer preserves the invariant.
LEMMA PushIInv ==
  ASSUME OneProducer, IInv, NEW p \in Producers, Push(p)
  PROVE  IInv'
<1> USE DEF IInv, PushCurrent, PushHasRoom, PopHasItem, Bounded
<1>0. head \in Counter /\ tail \in Counter /\ \A q \in Producers : q = p
  BY DEF TypeOK, Counter, OneProducer
<1>1. ASSUME NEW i \in Items, PushLoadHead(p, i) PROVE IInv'
  BY <1>0, <1>1 DEF PushLoadHead, TypeOK, PushStep
<1>2. CASE PushRoom(p)
  BY <1>0, <1>2 DEF PushRoom, TypeOK, PushStep
<1>3. CASE PushFull(p)
  BY <1>0, <1>3 DEF PushFull, TypeOK, PushStep
<1>4. CASE PushStartCopy(p)
  BY <1>0, <1>4 DEF PushStartCopy, TypeOK, PushStep
<1>5. CASE PushEndCopy(p)
  <2>1. TypeOK'
    BY <1>5 DEF PushEndCopy, TypeOK, PushStep
  <2> QED
    BY <1>0, <1>5, <2>1 DEF PushEndCopy, TypeOK
<1>6. CASE PushPublish(p)
  <2>1. Used(head, tail) < Capacity
    BY <1>6 DEF PushPublish, HasRoom
  <2>2. head' = Succ(head)
    BY <1>6 DEF PushPublish
  <2>3. head' \in Counter /\ Used(head', tail) = Used(head, tail) + 1
    BY <1>0, <2>1, <2>2, UsedAfterPush
  <2>4. TypeOK'
    BY <1>6, <2>3 DEF PushPublish, TypeOK, PushStep, Counter
  <2>5. Used(head, tail) \in Nat
    BY <1>0, UsedRange, ConstantTypes
  <2>6. Bounded'
    BY <1>6, <2>1, <2>3, <2>5, ConstantTypes DEF PushPublish
  <2>7. head' # tail'
    BY <1>0, <1>6, <2>3, <2>5, UsedRange DEF PushPublish
  <2> QED
    BY <1>0, <1>6, <2>4, <2>6, <2>7 DEF PushPublish, TypeOK
<1> QED
  BY <1>1, <1>2, <1>3, <1>4, <1>5, <1>6 DEF Push

\* Every step of the consumer preserves the invariant.
LEMMA PopIInv ==
  ASSUME IInv, Pop
  PROVE  IInv'
<1> USE DEF IInv, PushCurrent, PushHasRoom, PopHasItem, Bounded
<1>0. head \in Counter /\ tail \in Counter
  BY DEF TypeOK, Counter
<1>1. CASE PopEmpty
  BY <1>1 DEF PopEmpty, TypeOK
<1>2. CASE PopStartCopy
  BY <1>2 DEF PopStartCopy, TypeOK, PopStep
<1>3. CASE PopEndCopy
  <2>1. slots[Index(tail)] \in Items \cup {NoItem, Torn}
    BY <1>0, IndexInRange, ConstantTypes DEF TypeOK, Counter
  <2> QED
    BY <1>3, <2>1 DEF PopEndCopy, TypeOK, PopStep
<1>4. CASE PopRelease
  <2>1. tail' = Succ(tail) /\ head' = head /\ tail # head
    BY <1>4 DEF PopRelease
  <2>2. tail' \in Counter /\ Used(head, tail') = Used(head, tail) - 1
    BY <1>0, <2>1, UsedAfterPop
  <2>3. TypeOK'
    BY <1>4, <2>2 DEF PopRelease, TypeOK, PopStep, Counter
  <2>4. Used(head, tail) \in Nat
    BY <1>0, UsedRange, ConstantTypes
  <2>5. Bounded' /\ (HasRoom(head, tail) => HasRoom(head', tail'))
    BY <2>1, <2>2, <2>4, ConstantTypes DEF HasRoom
  <2> QED
    BY <1>4, <2>3, <2>5 DEF PopRelease, TypeOK
<1> QED
  BY <1>1, <1>2, <1>3, <1>4 DEF Pop

LEMMA StutterIInv ==
  ASSUME IInv, UNCHANGED vars
  PROVE  IInv'
BY DEF vars, IInv, TypeOK, Bounded, PushCurrent, PushHasRoom, PopHasItem

LEMMA InductiveIInv == ASSUME OneProducer PROVE Spec => []IInv
<1>1. Init => IInv
  BY InitIInv
<1>2. IInv /\ [Next]_vars => IInv'
  BY PushIInv, PopIInv, StutterIInv DEF Next
<1> QED
  BY <1>1, <1>2, PTL DEF Spec

---------------------------------------------------------------------------
(* Types hold for any number of producers: a data race on slots_ tears     *)
(* events and loses them, and leaves the counters within their width.      *)
LEMMA TypeInit == Init => TypeOK
BY ConstantTypes DEF Init, TypeOK, PushStep, PopStep

LEMMA TypeStep ==
  ASSUME TypeOK, [Next]_vars
  PROVE  TypeOK'
<1>1. ASSUME NEW p \in Producers, Push(p) PROVE TypeOK'
  <2>1. ASSUME NEW i \in Items, PushLoadHead(p, i) PROVE TypeOK'
    BY <1>1, <2>1 DEF PushLoadHead, TypeOK, PushStep
  <2>2. CASE PushRoom(p)
    BY <2>2 DEF PushRoom, TypeOK, PushStep
  <2>3. CASE PushFull(p)
    BY <2>3 DEF PushFull, TypeOK, PushStep
  <2>4. CASE PushStartCopy(p)
    BY <2>4 DEF PushStartCopy, TypeOK, PushStep
  <2>5. CASE PushEndCopy(p)
    BY <1>1, <2>5 DEF PushEndCopy, TypeOK, PushStep
  <2>6. CASE PushPublish(p)
    <3>1. Succ(ph[p]) \in Counter
      BY <1>1, SuccCases, ConstantTypes DEF TypeOK, Counter
    <3> QED
      BY <2>6, <3>1 DEF PushPublish, TypeOK, PushStep, Counter
  <2> QED
    BY <1>1, <2>1, <2>2, <2>3, <2>4, <2>5, <2>6 DEF Push
<1>2. CASE Pop
  <2>1. CASE PopEmpty
    BY <2>1 DEF PopEmpty, TypeOK
  <2>2. CASE PopStartCopy
    BY <2>2 DEF PopStartCopy, TypeOK, PopStep
  <2>3. CASE PopEndCopy
    <3>1. slots[Index(tail)] \in Items \cup {NoItem, Torn}
      BY IndexInRange, ConstantTypes DEF TypeOK
    <3> QED
      BY <2>3, <3>1 DEF PopEndCopy, TypeOK, PopStep
  <2>4. CASE PopRelease
    <3>1. Succ(tail) \in Counter
      BY SuccCases, ConstantTypes DEF TypeOK, Counter
    <3> QED
      BY <2>4, <3>1 DEF PopRelease, TypeOK, PopStep, Counter
  <2> QED
    BY <1>2, <2>1, <2>2, <2>3, <2>4 DEF Pop
<1>3. CASE UNCHANGED vars
  BY <1>3 DEF vars, TypeOK
<1> QED
  BY <1>1, <1>2, <1>3 DEF Next

(* The counters of btop_events.hpp stay within their width, and a slot     *)
(* holds an event, nothing, or a torn event, however many contexts push.   *)
THEOREM TypeCorrect == Spec => []TypeOK
BY TypeInit, TypeStep, PTL DEF Spec

---------------------------------------------------------------------------
(* The ring under its contract.                                            *)

(* With one producer the ring of btop_events.hpp never holds more than     *)
(* Capacity events, through any number of counter wrap-arounds: push()     *)
(* never overwrites an event that was not read.                            *)
THEOREM NeverOverfull == ASSUME OneProducer PROVE Spec => []Bounded
<1>1. IInv => Bounded
  BY DEF IInv
<1> QED
  BY <1>1, InductiveIInv, PTL

(* With one producer a push and a pop never touch one slot at once, so     *)
(* slots_ needs no lock.                                                   *)
THEOREM RaceFree == ASSUME OneProducer PROVE Spec => []NoSlotRace
<1>1. IInv => NoSlotRace
  <2> SUFFICES ASSUME IInv, NEW p \in Producers, ppc[p] = "copying"
               PROVE  /\ ~(cpc = "copying" /\ Index(ph[p]) = Index(tail))
                      /\ \A q \in Producers \ {p} :
                           ~(ppc[q] = "copying" /\ Index(ph[q]) = Index(ph[p]))
    BY DEF NoSlotRace
  <2>1. head \in Counter /\ tail \in Counter
    BY DEF IInv, TypeOK, Counter
  <2>2. ph[p] = head /\ Used(head, tail) < Capacity
    BY DEF IInv, PushCurrent, PushHasRoom, HasRoom
  <2>3. cpc = "copying" => tail # head
    BY DEF IInv, PopHasItem
  <2>4. cpc = "copying" => Index(head) # Index(tail)
    BY <2>1, <2>2, <2>3, IndexDistinct
  <2>5. Producers \ {p} = {}
    BY DEF OneProducer
  <2> QED
    BY <2>2, <2>4, <2>5
<1> QED
  BY <1>1, InductiveIInv, PTL

---------------------------------------------------------------------------
(* The ring implements EventFifo.                                          *)

SlotType == Items \cup {NoItem, Torn}

---------------------------------------------------------------------------
(* Sequences written as functions. *)

LEMMA AppendAsFunction ==
  ASSUME NEW T, NEW n \in Nat, NEW s \in [1 .. n -> T], NEW t \in [1 .. n + 1 -> T],
         \A k \in 1 .. n : t[k] = s[k]
  PROVE  t = Append(s, t[n + 1])
<1>1. s \in Seq(T) /\ Len(s) = n
  OBVIOUS
<1>2. t \in Seq(T) /\ Len(t) = n + 1
  OBVIOUS
<1>3. Append(s, t[n + 1]) \in Seq(T) /\ Len(Append(s, t[n + 1])) = n + 1
  BY <1>1
<1>4. \A k \in 1 .. n + 1 : t[k] = Append(s, t[n + 1])[k]
  BY <1>1
<1> QED
  BY <1>2, <1>3, <1>4, SeqEqual

LEMMA TailAsFunction ==
  ASSUME NEW T, NEW n \in Nat \ {0}, NEW s \in [1 .. n -> T], NEW t \in [1 .. n - 1 -> T],
         \A k \in 1 .. n - 1 : t[k] = s[k + 1]
  PROVE  s # <<>> /\ Head(s) = s[1] /\ t = Tail(s)
<1>1. s \in Seq(T) /\ Len(s) = n
  OBVIOUS
<1>2. t \in Seq(T) /\ Len(t) = n - 1
  OBVIOUS
<1>3. s # <<>> /\ Head(s) = s[1]
  BY <1>1
<1>4. Tail(s) \in Seq(T) /\ Len(Tail(s)) = n - 1
  BY <1>1, <1>3
<1>5. \A k \in 1 .. n - 1 : t[k] = Tail(s)[k]
  BY <1>1, <1>3
<1> QED
  BY <1>2, <1>3, <1>4, <1>5, SeqEqual
---------------------------------------------------------------------------
(* Where the entries of the ring lie. *)

LEMMA ShiftIndex ==
  ASSUME NEW n \in Int
  PROVE  Index(Wrap + n) = Index(n)
BY ConstantTypes, ModShift DEF Index

\* The slot push() fills next is the one after the last entry.
LEMMA HeadIndex ==
  ASSUME NEW h \in Counter, NEW t \in Counter
  PROVE  Index(t + Used(h, t)) = Index(h)
<1>1. CASE h >= t
  BY <1>1, UsedCases DEF Counter
<1>2. CASE h < t
  <2>1. t + Used(h, t) = Wrap + h /\ h \in Int
    BY <1>2, UsedCases, ConstantTypes, Z3 DEF Counter
  <2> QED
    BY <2>1, ShiftIndex
<1> QED
  BY <1>1, <1>2 DEF Counter

\* Advancing tail_, wrap-around included, advances every entry by one.
LEMMA SuccIndex ==
  ASSUME NEW t \in Counter, NEW k \in Nat
  PROVE  Index(Succ(t) + k) = Index(t + k + 1)
<1>1. CASE t = Wrap - 1
  <2>1. t + k + 1 = Wrap + k /\ Succ(t) + k = k /\ k \in Int
    BY <1>1, SuccCases, ConstantTypes DEF Counter
  <2> QED
    BY <2>1, ShiftIndex
<1>2. CASE t # Wrap - 1
  <2>1. Succ(t) + k = t + k + 1
    BY <1>2, SuccCases, ConstantTypes DEF Counter
  <2> QED
    BY <2>1
<1> QED
  BY <1>1, <1>2

\* While there is room, no entry lies in the slot push() fills.
LEMMA FreeSlot ==
  ASSUME NEW h \in Counter, NEW t \in Counter, Used(h, t) < Capacity,
         NEW k \in 1 .. Used(h, t)
  PROVE  Index(t + k - 1) # Index(h)
<1>1. Used(h, t) \in Nat
  BY UsedRange, ConstantTypes
<1> DEFINE a == t + Used(h, t)
           b == t + k - 1
<1>2. a \in Int /\ b \in Int /\ 0 < a - b /\ a - b < Capacity
  BY <1>1, ConstantTypes, Z3 DEF Counter
<1>3. Index(a) # Index(b)
  <2> HIDE DEF a, b
  <2> QED
    BY <1>2, ConstantTypes, ModDistinct DEF Index
<1> QED
  BY <1>3, HeadIndex

LEMMA EntryType ==
  ASSUME TypeOK, NEW t \in Counter, NEW k \in Nat
  PROVE  slots[Index(t + k - 1)] \in SlotType
<1>1. t + k - 1 \in Int
  BY ConstantTypes DEF Counter
<1> QED
  BY <1>1, IndexInRange DEF TypeOK, SlotType

LEMMA ContentsType ==
  ASSUME TypeOK
  PROVE  /\ Used(head, tail) \in Nat
         /\ Contents \in [1 .. Used(head, tail) -> SlotType]
         /\ Contents \in Seq(SlotType)
         /\ Len(Contents) = Used(head, tail)
<1>0. head \in Counter /\ tail \in Counter
  BY DEF TypeOK, Counter
<1>1. Used(head, tail) \in Nat
  BY <1>0, UsedRange, ConstantTypes
<1>2. ASSUME NEW k \in 1 .. Used(head, tail)
      PROVE  slots[Index(tail + k - 1)] \in SlotType
  <2>1. k \in Nat
    BY <1>1
  <2> QED
    BY <1>0, <2>1, EntryType
<1>3. Contents \in [1 .. Used(head, tail) -> SlotType]
  BY <1>2 DEF Contents
<1> QED
  BY <1>1, <1>3

---------------------------------------------------------------------------
(* What the refinement needs beyond IInv: the event in a producer's hands  *)
(* is in its slot when it is published, and the consumer's copy is the     *)
(* oldest entry when it is released.                                       *)

PushHolds ==
  \A p \in Producers :
    /\ ppc[p] = "idle" <=> pitem[p] = NoItem
    /\ ppc[p] = "publish" => slots[Index(ph[p])] = pitem[p]

PopHolds == cpc = "release" => citem = slots[Index(tail)]

RInv == IInv /\ PushHolds /\ PopHolds

LEMMA InitRInv == Init => RInv
BY InitIInv DEF Init, RInv, PushHolds, PopHolds

LEMMA PushRInv ==
  ASSUME OneProducer, RInv, NEW p \in Producers, Push(p)
  PROVE  RInv'
<1>0. IInv' /\ TypeOK /\ \A q \in Producers : q = p
  BY PushIInv DEF RInv, IInv, OneProducer
<1> USE DEF RInv, PushHolds, PopHolds
<1>1. ASSUME NEW i \in Items, PushLoadHead(p, i) PROVE RInv'
  BY <1>0, <1>1, ItemAssumption DEF PushLoadHead, TypeOK
<1>2. CASE PushRoom(p)
  BY <1>0, <1>2 DEF PushRoom, TypeOK
<1>3. CASE PushFull(p)
  BY <1>0, <1>3 DEF PushFull, TypeOK
<1>4. CASE PushStartCopy(p)
  <2>1. cpc = "release" => Index(head) # Index(tail)
    BY <1>4, IndexDistinct
       DEF PushStartCopy, IInv, TypeOK, Counter, PushHasRoom, PopHasItem, HasRoom
  <2>2. ph[p] = head
    BY <1>4 DEF PushStartCopy, IInv, PushCurrent
  <2>3. Index(tail) \in 0 .. Capacity - 1
    BY IndexInRange, ConstantTypes, <1>0, SMTT(30) DEF TypeOK
  <2> QED
    BY <1>0, <1>4, <2>1, <2>2, <2>3 DEF PushStartCopy, TypeOK
<1>5. CASE PushEndCopy(p)
  <2>1. cpc = "release" => Index(head) # Index(tail)
    BY <1>5, IndexDistinct
       DEF PushEndCopy, IInv, TypeOK, Counter, PushHasRoom, PopHasItem, HasRoom
  <2>2. ph[p] = head
    BY <1>5 DEF PushEndCopy, IInv, PushCurrent
  <2>3. Index(tail) \in 0 .. Capacity - 1 /\ Index(head) \in 0 .. Capacity - 1
    BY IndexInRange, ConstantTypes, <1>0, SMTT(30) DEF TypeOK
  <2>4. slots' = [slots EXCEPT ![Index(ph[p])] = pitem[p]]
    BY <1>0, <1>5 DEF PushEndCopy
  <2> QED
    BY <1>0, <1>5, <2>1, <2>2, <2>3, <2>4 DEF PushEndCopy, TypeOK
<1>6. CASE PushPublish(p)
  BY <1>0, <1>6 DEF PushPublish, TypeOK
<1> QED
  BY <1>1, <1>2, <1>3, <1>4, <1>5, <1>6 DEF Push

LEMMA PopRInv ==
  ASSUME RInv, Pop
  PROVE  RInv'
<1>1. IInv'
  BY PopIInv DEF RInv
<1> QED
  BY <1>1 DEF RInv, PushHolds, PopHolds, Pop, PopEmpty, PopStartCopy, PopEndCopy, PopRelease

LEMMA InductiveRInv == ASSUME OneProducer PROVE Spec => []RInv
<1>1. RInv /\ [Next]_vars => RInv'
  <2> SUFFICES ASSUME RInv, UNCHANGED vars PROVE RInv'
    BY PushRInv, PopRInv DEF Next
  <2> QED
    BY StutterIInv DEF RInv, vars, PushHolds, PopHolds
<1> QED
  BY InitRInv, <1>1, PTL DEF Spec
---------------------------------------------------------------------------
(* Each step of the ring is a step of the FIFO, or leaves it alone. *)

LEMMA PushSimulates ==
  ASSUME OneProducer, RInv, RInv', NEW p \in Producers, Push(p)
  PROVE  [Fifo!Next]_(Fifo!vars)
<1> DEFINE n == Used(head, tail)
<1>0. /\ TypeOK /\ TypeOK' /\ head \in Counter /\ tail \in Counter /\ n \in Nat
      /\ Contents \in [1 .. n -> SlotType] /\ Len(Contents) = n
      /\ Bounded
  BY ContentsType DEF RInv, IInv, TypeOK, Counter
<1>1. ASSUME NEW i \in Items, PushLoadHead(p, i) PROVE Fifo!Offer(p, i)
  BY <1>1 DEF PushLoadHead, Fifo!Offer, Contents, RInv, PushHolds
<1>2. CASE PushRoom(p)
  BY <1>2 DEF PushRoom, Fifo!vars, Contents
<1>3. CASE PushFull(p)
  <2>1. n = Capacity
    BY <1>0, <1>3, ConstantTypes DEF PushFull, HasRoom, Bounded, RInv, IInv, PushCurrent
  <2>2. Fifo!Drop(p)
    BY <1>0, <1>3, <2>1 DEF PushFull, Fifo!Drop, Contents, RInv, PushHolds
  <2> QED
    BY <2>2 DEF Fifo!Next
<1>4. ASSUME PushStartCopy(p) \/ PushEndCopy(p) PROVE UNCHANGED Fifo!vars
  <2>1. PICK v : slots' = [slots EXCEPT ![Index(head)] = v]
    BY <1>4 DEF PushStartCopy, PushEndCopy, RInv, IInv, PushCurrent
  <2>2. UNCHANGED <<head, tail, pitem, got>> /\ n < Capacity
    BY <1>4 DEF PushStartCopy, PushEndCopy, RInv, IInv, PushHasRoom, HasRoom
  <2>3. \A k \in 1 .. n : slots'[Index(tail + k - 1)] = slots[Index(tail + k - 1)]
    <3> SUFFICES ASSUME NEW k \in 1 .. n
                 PROVE  slots'[Index(tail + k - 1)] = slots[Index(tail + k - 1)]
      OBVIOUS
    <3>1. Index(tail + k - 1) # Index(head)
      BY <1>0, <2>2, FreeSlot
    <3>2. tail + k - 1 \in Int
      BY <1>0, ConstantTypes DEF Counter
    <3>3. Index(tail + k - 1) \in 0 .. Capacity - 1
      BY <3>2, IndexInRange
    <3> QED
      BY <1>0, <2>1, <3>1, <3>3 DEF TypeOK
  <2>4. Contents' = Contents
    BY <2>2, <2>3 DEF Contents
  <2> QED
    BY <2>2, <2>4 DEF Fifo!vars
<1>5. CASE PushPublish(p)
  <2>1. n < Capacity /\ ph[p] = head /\ pitem[p] = slots[Index(head)] /\ pitem[p] # NoItem
    BY <1>5 DEF PushPublish, RInv, IInv, PushHasRoom, HasRoom, PushCurrent, PushHolds
  <2>2. UNCHANGED <<tail, slots, got>> /\ head' = Succ(head)
    BY <1>5, <2>1 DEF PushPublish
  <2>3. Used(head', tail') = n + 1
    BY <1>0, <2>1, <2>2, UsedAfterPush
  <2>4. Contents' = [k \in 1 .. n + 1 |-> slots[Index(tail + k - 1)]]
    BY <2>2, <2>3 DEF Contents
  <2>5. Contents' \in [1 .. n + 1 -> SlotType]
    <3>1. \A k \in 1 .. n + 1 : slots[Index(tail + k - 1)] \in SlotType
      BY <1>0, EntryType
    <3> QED
      BY <2>4, <3>1
  <2>6. \A k \in 1 .. n : Contents'[k] = Contents[k]
    <3>1. \A k \in 1 .. n : Contents[k] = slots[Index(tail + k - 1)]
      BY DEF Contents
    <3> QED
      BY <1>0, <2>4, <3>1
  <2>7. Contents'[n + 1] = pitem[p]
    <3>1. tail + (n + 1) - 1 = tail + n
      BY <1>0, ConstantTypes DEF Counter
    <3>2. Index(tail + n) = Index(head)
      BY <1>0, HeadIndex
    <3> QED
      BY <1>0, <2>1, <2>4, <3>1, <3>2
  <2>8. Contents' = Append(Contents, pitem[p])
    BY <1>0, <2>5, <2>6, <2>7, AppendAsFunction
  <2>9. Fifo!Accept(p)
    BY <1>0, <1>5, <2>1, <2>2, <2>8 DEF PushPublish, Fifo!Accept
  <2> QED
    BY <2>9 DEF Fifo!Next
<1> QED
  BY <1>1, <1>2, <1>3, <1>4, <1>5 DEF Push, Fifo!Next

LEMMA PopSimulates ==
  ASSUME RInv, RInv', Pop
  PROVE  [Fifo!Next]_(Fifo!vars)
<1> DEFINE n == Used(head, tail)
<1>0. /\ TypeOK /\ TypeOK' /\ head \in Counter /\ tail \in Counter /\ n \in Nat
      /\ Contents \in [1 .. n -> SlotType] /\ Len(Contents) = n
  BY ContentsType DEF RInv, IInv, TypeOK, Counter
<1>1. CASE PopEmpty
  <2>1. n = 0
    BY <1>0, <1>1, UsedRange DEF PopEmpty
  <2>2. Contents = <<>>
    BY <1>0, <2>1 DEF Contents
  <2> QED
    BY <1>1, <2>2 DEF PopEmpty, Fifo!TakeNothing, Fifo!Next, Contents
<1>2. CASE PopStartCopy
  BY <1>2 DEF PopStartCopy, Fifo!vars, Contents
<1>3. CASE PopEndCopy
  BY <1>3 DEF PopEndCopy, Fifo!vars, Contents
<1>4. CASE PopRelease
  <2>1. UNCHANGED <<head, slots, pitem>> /\ tail' = Succ(tail) /\ head # tail
    BY <1>4 DEF PopRelease, RInv, IInv, PopHasItem
  <2>2. Used(head', tail') = n - 1
    BY <1>0, <2>1, UsedAfterPop
  <2>3. n \in Nat \ {0}
    BY <1>0, <2>1, UsedRange
  <2>4. Contents' = [k \in 1 .. n - 1 |-> slots[Index(Succ(tail) + k - 1)]]
    BY <2>1, <2>2 DEF Contents
  <2>5. Contents' \in [1 .. n - 1 -> SlotType]
    <3>1. Succ(tail) \in Counter
      BY <1>0, <2>1, UsedAfterPop
    <3>2. \A k \in 1 .. n - 1 : slots[Index(Succ(tail) + k - 1)] \in SlotType
      BY <1>0, <3>1, EntryType
    <3> QED
      BY <2>4, <3>2
  <2>6. \A k \in 1 .. n - 1 : Contents'[k] = Contents[k + 1]
    <3> SUFFICES ASSUME NEW k \in 1 .. n - 1
                 PROVE  Contents'[k] = Contents[k + 1]
      OBVIOUS
    <3>1. k - 1 \in Nat /\ k + 1 \in 1 .. n
      BY <1>0
    <3>2. Index(Succ(tail) + (k - 1)) = Index(tail + (k - 1) + 1)
      BY <1>0, <3>1, SuccIndex
    <3>3. /\ Succ(tail) + (k - 1) = Succ(tail) + k - 1
          /\ tail + (k - 1) + 1 = tail + (k + 1) - 1
      BY <1>0, SuccCases, ConstantTypes DEF Counter
    <3> QED
      BY <2>4, <3>1, <3>2, <3>3 DEF Contents
  <2>7. Contents # <<>> /\ Head(Contents) = Contents[1] /\ Contents' = Tail(Contents)
    BY <1>0, <2>3, <2>5, <2>6, TailAsFunction
  <2>8. Contents[1] = slots[Index(tail)]
    <3>1. tail + 1 - 1 = tail /\ 1 \in 1 .. n
      BY <1>0, <2>3, ConstantTypes DEF Counter
    <3> QED
      BY <3>1 DEF Contents
  <2>9. got' = slots[Index(tail)]
    BY <1>4 DEF PopRelease, RInv, PopHolds
  <2> QED
    BY <2>1, <2>7, <2>8, <2>9 DEF Fifo!Take, Fifo!Next
<1> QED
  BY <1>1, <1>2, <1>3, <1>4 DEF Pop

(* With one producer the ring is a bounded FIFO: every event push()        *)
(* accepted is delivered once, whole and in order, and push() refuses an   *)
(* event only when Capacity events are queued.                             *)
THEOREM RingImplementsFifo == ASSUME OneProducer PROVE Spec => ImplementsFifo
<1>1. Init => Fifo!Init
  <2> SUFFICES ASSUME Init PROVE Fifo!Init
    OBVIOUS
  <2>1. TypeOK /\ Used(head, tail) = 0
    BY InitIInv, UsedRange DEF Init, IInv, TypeOK, Counter
  <2>2. Contents = <<>>
    BY <2>1, ContentsType DEF Contents
  <2> QED
    BY <2>2 DEF Init, Fifo!Init
<1>2. RInv /\ RInv' /\ [Next]_vars => [Fifo!Next]_(Fifo!vars)
  <2>1. ASSUME UNCHANGED vars PROVE UNCHANGED Fifo!vars
    BY <2>1 DEF vars, Fifo!vars, Contents
  <2> QED
    BY <2>1, PushSimulates, PopSimulates DEF Next
<1> QED
  BY <1>1, <1>2, InductiveRInv, PTL DEF Spec, ImplementsFifo, Fifo!Spec
===========================================================================
