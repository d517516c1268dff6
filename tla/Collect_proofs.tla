--------------------------- MODULE Collect_proofs ---------------------------
(***************************************************************************)
(* Proofs about what the collectors keep: the rings of samples (History),  *)
(* the network counters and the interface shown (NetStats), the list of    *)
(* processes, paused and counted (ProcList), and the graphs (History); and *)
(* that each of the three keeps to its types.                              *)
(***************************************************************************)
EXTENDS History, NetStats, ProcList, ModArith, SequenceTheorems

---------------------------------------------------------------------------
(* History: for every set of samples and capacities, whatever is pushed    *)
(* and however often the box changes its width.                            *)

RingOK(r) ==
  /\ r = Ring(r.data, r.capacity, r.head, r.size)
  /\ r.capacity \in Nat
  /\ r.data \in [0 .. r.capacity - 1 -> Samples]
  /\ r.size \in 0 .. r.capacity
  /\ r.head \in Nat
  /\ r.capacity = 0 => r.head = 0
  /\ r.capacity # 0 => r.head < r.capacity

Inv == RingOK(ring) /\ want \in Rooms

---------------------------------------------------------------------------
(* Indices. *)

\* A multiple of the modulus adds nothing.
LEMMA ModMultiple ==
  ASSUME NEW m \in Nat \ {0}, NEW q \in Int, NEW e \in Int
  PROVE  (m * q + e) % m = e % m
<1> DEFINE p == e \div m
           r == e % m
<1>1. e = m * p + r /\ p \in Int /\ r \in 0 .. m - 1
  BY DivMod, Z3
<1> HIDE DEF p, r
<1>2. m * q + e = m * (q + p) + r /\ q + p \in Int
  BY <1>1, Z3
<1>3. (m * (q + p) + r) % m = r
  BY <1>1, <1>2, ModUnique
<1> QED
  BY <1>2, <1>3 DEF r

\* Reducing head_ early changes no index.
LEMMA HeadReduced ==
  ASSUME NEW m \in Nat \ {0}, NEW a \in Nat, NEW i \in Nat
  PROVE  ((a % m) + i) % m = (a + i) % m
<1> DEFINE q == a \div m
           c == a % m
<1>1. a = m * q + c /\ q \in Int /\ c \in 0 .. m - 1
  BY DivMod, Z3
<1> HIDE DEF q, c
<1>2. a + i = m * q + (c + i) /\ c + i \in Int
  BY <1>1, Z3
<1>3. (m * q + (c + i)) % m = (c + i) % m
  BY <1>1, <1>2, ModMultiple
<1> QED
  BY <1>2, <1>3 DEF c

LEMMA SlotIndex ==
  ASSUME NEW m \in Nat \ {0}, NEW a \in Nat
  PROVE  /\ a % m \in 0 .. m - 1
         /\ a < m => a % m = a
         /\ (m + a) % m = a % m
<1>1. a % m \in 0 .. m - 1
  BY DivMod
<1>2. ASSUME a < m PROVE a % m = a
  <2>1. (m * 0 + a) % m = a
    BY <1>2, ModUnique
  <2> QED
    BY <2>1
<1>3. m % m = 0
  <2>1. (m * 1 + 0) % m = 0
    BY ModUnique
  <2> QED
    BY <2>1
<1>4. (m + a) % m = a % m
  <2>1. m \in Nat /\ a \in Int
    OBVIOUS
  <2> QED
    BY <1>3, <2>1, ModShift
<1> QED
  BY <1>1, <1>2, <1>4

---------------------------------------------------------------------------
(* Sequences. *)

LEMMA RingContents ==
  ASSUME NEW r, RingOK(r)
  PROVE  /\ Held(r) \in Seq(Samples)
         /\ Len(Held(r)) = r.size
         /\ \A k \in 1 .. r.size : Held(r)[k] = Slot(r, k - 1)
<1>1. ASSUME NEW k \in 1 .. r.size PROVE Slot(r, k - 1) \in Samples
  <2>1. r.capacity \in Nat \ {0} /\ r.head + (k - 1) \in Nat
    BY <1>1 DEF RingOK
  <2>2. (r.head + (k - 1)) % r.capacity \in 0 .. r.capacity - 1
    BY <2>1, SlotIndex
  <2> QED
    BY <2>2 DEF RingOK, Slot
<1>2. /\ Held(r) \in [1 .. r.size -> Samples] /\ r.size \in Nat
      /\ \A k \in 1 .. r.size : Held(r)[k] = Slot(r, k - 1)
  BY <1>1 DEF Held, RingOK
<1> HIDE DEF Held
<1> QED
  BY <1>2

\* What W!Newest keeps.
LEMMA NewestType ==
  ASSUME NEW s \in Seq(Samples), NEW n \in Nat
  PROVE  /\ W!Newest(s, n) \in Seq(Samples)
         /\ Len(W!Newest(s, n)) = Smaller(Len(s), n)
         /\ \A k \in 1 .. Smaller(Len(s), n) :
              W!Newest(s, n)[k] = s[Len(s) - Smaller(Len(s), n) + k]
<1>1. CASE Len(s) <= n
  <2>1. W!Newest(s, n) = s /\ Smaller(Len(s), n) = Len(s)
    BY <1>1 DEF W!Newest, Smaller
  <2>2. \A k \in 1 .. Len(s) : Len(s) - Len(s) + k = k
    OBVIOUS
  <2> QED
    BY <2>1, <2>2
<1>2. CASE Len(s) > n
  <2> DEFINE a == Len(s) - n + 1
             t == SubSeq(s, a, Len(s))
  <2>1. t = [k \in 1 .. n |-> s[a + k - 1]]
    BY <1>2
  <2>2. \A k \in 1 .. n : a + k - 1 \in 1 .. Len(s) /\ a + k - 1 = Len(s) - n + k
    BY <1>2
  <2>3. t \in Seq(Samples) /\ Len(t) = n
    <3>1. \A j \in 1 .. Len(s) : s[j] \in Samples
      OBVIOUS
    <3>2. t \in [1 .. n -> Samples]
      BY <2>1, <2>2, <3>1
    <3> HIDE DEF t
    <3> QED
      BY <3>2
  <2>4. W!Newest(s, n) = t /\ Smaller(Len(s), n) = n
    BY <1>2 DEF W!Newest, Smaller
  <2> QED
    BY <2>1, <2>2, <2>3, <2>4, SMTT(30)
<1> QED
  BY <1>1, <1>2

---------------------------------------------------------------------------
(* The operations of the ring. *)

\* push_back() records the value in the window.
LEMMA PushRecords ==
  ASSUME NEW r, RingOK(r), NEW v \in Samples
  PROVE  /\ RingOK(PushBack(r, v))
         /\ PushBack(r, v).capacity = r.capacity
         /\ Held(PushBack(r, v)) = W!Recorded(Held(r), v, r.capacity)
<1> DEFINE p == PushBack(r, v)
           s == Held(r)
           m == r.capacity
           z == r.size
           d == r.data
           f == r.head
           sv == Append(s, v)
<1>0. /\ r = Ring(d, m, f, z)
      /\ m \in Nat /\ z \in 0 .. m /\ f \in Nat
      /\ d \in [0 .. m - 1 -> Samples]
      /\ m = 0 => f = 0
      /\ m # 0 => f < m
  BY DEF RingOK
<1>a. \A i : Slot(r, i) = d[(f + i) % m]
  BY DEF Slot
<1>b. /\ s \in Seq(Samples) /\ Len(s) = z
      /\ \A k \in 1 .. z : s[k] = Slot(r, k - 1)
  BY RingContents
<1>c. /\ sv \in Seq(Samples) /\ Len(sv) = z + 1 /\ sv[z + 1] = v
      /\ \A k \in 1 .. z : sv[k] = Slot(r, k - 1)
  <2> HIDE DEF s, m, z, d, f
  <2>1. z \in Nat /\ s \in Seq(Samples) /\ Len(s) = z
    BY <1>0, <1>b
  <2>2. sv \in Seq(Samples) /\ Len(sv) = z + 1 /\ sv[z + 1] = v
    BY <2>1
  <2>3. \A k \in 1 .. z : sv[k] = s[k]
    BY <2>1
  <2> QED  BY <1>b, <2>2, <2>3
<1>d. p = IF m = 0 THEN r
          ELSE IF z < m
               THEN Ring([d EXCEPT ![(f + z) % m] = v], m, f, z + 1)
               ELSE Ring([d EXCEPT ![f] = v], m, (f + 1) % m, z)
  BY DEF PushBack, Stored
<1>e. W!Recorded(s, v, m) = IF m = 0 THEN s ELSE W!Newest(sv, m)
  BY DEF W!Recorded
<1>f. p.capacity = m /\ (m # 0 => p.size = (IF z < m THEN z + 1 ELSE z))
  <2> HIDE DEF p, s, m, z, d, f
  <2> QED
    BY <1>0, <1>d DEF Ring
<1> HIDE DEF p, s, m, z, d, f, sv
<1>1. CASE m = 0
  BY <1>1, <1>0, <1>d, <1>e, <1>f DEF p, s, m
<1>2. CASE m # 0 /\ z < m
  <2> DEFINE at == (f + z) % m
  <2>0. m \in Nat \ {0} /\ f + z \in Nat
    BY <1>0, <1>2
  <2>1. at \in 0 .. m - 1
    BY <2>0, SlotIndex
  <2> HIDE DEF at
  <2>2. p = Ring([d EXCEPT ![at] = v], m, f, z + 1)
    BY <1>2, <1>d DEF at
  <2>3. RingOK(p)
    BY <1>0, <1>2, <2>1, <2>2 DEF RingOK, Ring
  <2>4. \A k \in 1 .. z : Slot(p, k - 1) = Slot(r, k - 1)
    <3> TAKE k \in 1 .. z
    <3> DEFINE a == f + z
               b == f + (k - 1)
    <3>1. a \in Int /\ b \in Int /\ b \in Nat /\ a - b < m /\ 0 < a - b
      BY <1>0, <1>2
    <3> HIDE DEF a, b
    <3>2. a % m # b % m
      BY <2>0, <3>1, ModDistinct
    <3>3. b % m \in 0 .. m - 1
      BY <2>0, <3>1, SlotIndex
    <3>4. Slot(p, k - 1) = [d EXCEPT ![at] = v][b % m]
      BY <2>2 DEF Slot, Ring, b
    <3>5. Slot(r, k - 1) = d[b % m]
      BY <1>a DEF b
    <3> QED
      BY <1>0, <3>2, <3>3, <3>4, <3>5 DEF at, a
  <2>5. Slot(p, z) = v
    <3>1. Slot(p, z) = [d EXCEPT ![at] = v][at]
      BY <2>2 DEF Slot, Ring, at
    <3> QED
      BY <1>0, <2>1, <3>1
  <2>6. p.size = z + 1
    BY <1>2, <1>f
  <2>7. /\ Held(p) \in Seq(Samples) /\ Len(Held(p)) = z + 1
        /\ \A k \in 1 .. z + 1 : Held(p)[k] = Slot(p, k - 1)
    BY <2>3, <2>6, RingContents
  <2>8. \A k \in 1 .. z + 1 : Held(p)[k] = sv[k]
    <3> TAKE k \in 1 .. z + 1
    <3>1. CASE k \in 1 .. z
      BY <3>1, <1>c, <2>4, <2>7
    <3>2. CASE k = z + 1
      <4>1. k - 1 = z
        BY <1>0, <3>2
      <4> QED
        BY <3>2, <4>1, <1>c, <2>5, <2>7
    <3> QED
      BY <1>0, <3>1, <3>2
  <2>9. Held(p) = sv
    BY <1>c, <2>7, <2>8, SeqEqual
  <2>10. W!Newest(sv, m) = sv
    BY <1>0, <1>2, <1>c DEF W!Newest
  <2> QED
    BY <1>2, <1>e, <1>f, <2>3, <2>9, <2>10 DEF p, s, m
<1>3. CASE m # 0 /\ z = m
  <2> DEFINE h == (f + 1) % m
  <2>0. m \in Nat \ {0} /\ f \in 0 .. m - 1 /\ f + 1 \in Nat
    BY <1>0, <1>3
  <2>1. h \in 0 .. m - 1
    BY <2>0, SlotIndex
  <2> HIDE DEF h
  <2>2. p = Ring([d EXCEPT ![f] = v], m, h, m)
    BY <1>0, <1>3, <1>d DEF h
  <2>3. RingOK(p)
    BY <1>0, <1>3, <2>1, <2>2 DEF RingOK, Ring
  <2>4. \A k \in 1 .. m : (h + (k - 1)) % m = (f + k) % m
    <3> TAKE k \in 1 .. m
    <3>1. k - 1 \in Nat /\ f + 1 + (k - 1) = f + k
      BY <2>0
    <3>2. (((f + 1) % m) + (k - 1)) % m = (f + 1 + (k - 1)) % m
      BY <2>0, <3>1, HeadReduced
    <3> QED
      BY <3>1, <3>2 DEF h
  <2>5. \A i : Slot(p, i) = [d EXCEPT ![f] = v][(h + i) % m]
    BY <2>2 DEF Slot, Ring
  <2>6. \A k \in 1 .. m - 1 : Slot(p, k - 1) = Slot(r, k)
    <3> TAKE k \in 1 .. m - 1
    <3> DEFINE a == f + k
    <3>1. 0 < a - f /\ a - f < m /\ a \in Int /\ f \in Int /\ a \in Nat /\ k \in 1 .. m
      BY <2>0
    <3>2. (h + (k - 1)) % m = a % m
      BY <3>1, <2>4
    <3>3. Slot(r, k) = d[a % m]
      BY <1>a
    <3> HIDE DEF a
    <3>4. a % m # f % m
      BY <2>0, <3>1, ModDistinct
    <3>5. f % m = f
      BY <1>0, <2>0, SlotIndex
    <3>6. a % m \in 0 .. m - 1
      BY <2>0, <3>1, SlotIndex
    <3>7. Slot(p, k - 1) = [d EXCEPT ![f] = v][a % m]
      BY <2>5, <3>2
    <3> QED
      BY <1>0, <3>3, <3>4, <3>5, <3>6, <3>7
  <2>7. Slot(p, m - 1) = v
    <3>1. (m + f) % m = f % m /\ f % m = f
      BY <1>0, <2>0, SlotIndex
    <3>2. m + f = f + m /\ m \in 1 .. m
      BY <1>0, <2>0
    <3>3. (h + (m - 1)) % m = f
      BY <2>4, <3>1, <3>2
    <3>4. Slot(p, m - 1) = [d EXCEPT ![f] = v][f]
      BY <2>5, <3>3
    <3> QED
      BY <1>0, <2>0, <3>4
  <2>8. p.size = m
    BY <1>0, <1>3, <1>f
  <2>9. /\ Held(p) \in Seq(Samples) /\ Len(Held(p)) = m
        /\ \A k \in 1 .. m : Held(p)[k] = Slot(p, k - 1)
    BY <2>3, <2>8, RingContents
  <2> DEFINE t == W!Newest(sv, m)
  <2>10. /\ t \in Seq(Samples) /\ Len(t) = m
         /\ \A k \in 1 .. m : t[k] = sv[k + 1]
    <3>1. Smaller(Len(sv), m) = m
      BY <1>0, <1>3, <1>c DEF Smaller
    <3>2. \A k \in 1 .. m : Len(sv) - m + k = k + 1
      BY <1>0, <1>3, <1>c
    <3>3. /\ t \in Seq(Samples) /\ Len(t) = Smaller(Len(sv), m)
          /\ \A k \in 1 .. Smaller(Len(sv), m) :
               t[k] = sv[Len(sv) - Smaller(Len(sv), m) + k]
      BY <1>0, <1>c, NewestType
    <3> HIDE DEF t
    <3> QED
      BY <3>1, <3>2, <3>3
  <2> HIDE DEF t
  <2>11. \A k \in 1 .. m : Held(p)[k] = t[k]
    <3> TAKE k \in 1 .. m
    <3>1. CASE k = m
      BY <3>1, <1>3, <1>c, <2>7, <2>9, <2>10
    <3>2. CASE k # m
      <4>1. k \in 1 .. m - 1 /\ k + 1 \in 1 .. m /\ (k + 1) - 1 = k
        BY <3>2, <2>0
      <4>2. Held(p)[k] = Slot(r, k)
        BY <4>1, <2>6, <2>9
      <4>3. sv[k + 1] = Slot(r, k)
        BY <1>3, <1>c, <4>1
      <4> QED
        BY <2>10, <4>2, <4>3
    <3> QED
      BY <3>1, <3>2
  <2>12. Held(p) = t
    BY <2>9, <2>10, <2>11, SeqEqual
  <2> QED
    BY <1>3, <1>e, <1>f, <2>3, <2>12 DEF p, s, m, t
<1> QED
  BY <1>0, <1>1, <1>2, <1>3

\* resize() keeps the newest values.
LEMMA ResizeKeepsNewest ==
  ASSUME NEW r, RingOK(r), NEW n \in Nat
  PROVE  /\ RingOK(Resized(r, n))
         /\ Resized(r, n).capacity = n
         /\ Held(Resized(r, n)) = W!Newest(Held(r), n)
<1> DEFINE p == Resized(r, n)
           s == Held(r)
           t == W!Newest(s, n)
<1>0. /\ s \in Seq(Samples) /\ Len(s) = r.size
      /\ \A k \in 1 .. r.size : s[k] = Slot(r, k - 1)
  BY RingContents
<1>1. CASE n = r.capacity
  <2>1. t = s
    BY <1>0, <1>1 DEF W!Newest, RingOK
  <2> QED
    BY <1>1, <2>1 DEF Resized
<1>2. CASE n # r.capacity /\ n = 0
  <2>1. p = EmptyRing
    BY <1>2 DEF Resized
  <2>2. RingOK(EmptyRing) /\ EmptyRing.size = 0 /\ EmptyRing.capacity = 0
    BY DEF EmptyRing, RingOK, Ring
  <2>3. Smaller(Len(s), n) = 0
    BY <1>0, <1>2 DEF Smaller, RingOK
  <2>4. Len(t) = 0 /\ t \in Seq(Samples)
    BY <1>0, <2>3, NewestType
  <2>5. Held(EmptyRing) \in Seq(Samples) /\ Len(Held(EmptyRing)) = 0
    BY <2>2, RingContents
  <2>6. Held(EmptyRing) = t
    <3> HIDE DEF t
    <3> QED
      BY <2>4, <2>5
  <2> QED
    BY <1>2, <2>1, <2>2, <2>6
<1>3. CASE n # r.capacity /\ n # 0
  <2> DEFINE z == r.size
             keep == Smaller(z, n)
  <2>0. z \in Nat
    BY DEF RingOK
  <2>1. keep \in 0 .. n /\ keep \in 0 .. z
    BY <2>0 DEF Smaller
  <2>2. p = Ring([i \in 0 .. n - 1 |-> Moved(r, keep, i)], n, 0, keep)
    BY <1>3 DEF Resized
  <2>3. \A k \in 1 .. keep : Moved(r, keep, k - 1) = s[z - keep + k]
    <3> TAKE k \in 1 .. keep
    <3> HIDE DEF keep, s
    <3>1. z - keep + k \in 1 .. z /\ k - 1 < keep
      BY <2>0, <2>1
    <3>2. (z - keep + k) - 1 = z - keep + (k - 1)
      BY <2>0, <2>1
    <3>3. s[z - keep + k] = Slot(r, (z - keep + k) - 1)
      BY <1>0, <3>1
    <3>4. Moved(r, keep, k - 1) = Slot(r, z - keep + (k - 1))
      BY <3>1 DEF Moved
    <3> QED
      BY <3>2, <3>3, <3>4
  <2>4. \A i \in 0 .. n - 1 : Moved(r, keep, i) \in Samples
    <3> TAKE i \in 0 .. n - 1
    <3>1. CASE i < keep
      <4> HIDE DEF s, keep
      <4>1. i + 1 \in 1 .. keep /\ (i + 1) - 1 = i
        BY <3>1, <2>1
      <4>2. z - keep + (i + 1) \in 1 .. Len(s)
        BY <1>0, <2>0, <4>1, <2>1
      <4>3. Moved(r, keep, i) = s[z - keep + (i + 1)]
        BY <4>1, <2>3
      <4> QED
        BY <4>2, <4>3, <1>0
    <3>2. CASE ~ (i < keep)
      BY <3>2, SamplesAssumption DEF Moved
    <3> QED
      BY <3>1, <3>2
  <2>5. /\ t \in Seq(Samples) /\ Len(t) = keep
        /\ \A k \in 1 .. keep : t[k] = s[z - keep + k]
    <3>1. /\ t \in Seq(Samples) /\ Len(t) = Smaller(Len(s), n)
          /\ \A k \in 1 .. Smaller(Len(s), n) :
               t[k] = s[Len(s) - Smaller(Len(s), n) + k]
      BY <1>0, NewestType
    <3> HIDE DEF t, s
    <3> QED
      BY <1>0, <3>1
  <2> HIDE DEF keep, t, s
  <2>6. RingOK(p) /\ p.capacity = n /\ p.size = keep
    <3> HIDE DEF p
    <3> QED
      BY <1>3, <2>1, <2>2, <2>4 DEF RingOK, Ring
  <2>7. /\ Held(p) \in Seq(Samples) /\ Len(Held(p)) = keep
        /\ \A k \in 1 .. keep : Held(p)[k] = Slot(p, k - 1)
    BY <2>6, RingContents
  <2>8. \A k \in 1 .. keep : Slot(p, k - 1) = Moved(r, keep, k - 1)
    <3> TAKE k \in 1 .. keep
    <3>1. k - 1 \in 0 .. n - 1 /\ 0 + (k - 1) = k - 1 /\ k - 1 \in Nat /\ k - 1 < n
      BY <2>1
    <3>2. (0 + (k - 1)) % n = k - 1
      BY <1>3, <3>1, SlotIndex
    <3> HIDE DEF p
    <3> QED
      BY <2>2, <3>1, <3>2 DEF Slot, Ring
  <2>9. \A k \in 1 .. keep : Held(p)[k] = t[k]
    BY <2>3, <2>5, <2>7, <2>8
  <2>10. Held(p) = t
    <3> HIDE DEF p
    <3> QED
      BY <2>5, <2>7, <2>9, SeqEqual
  <2> QED
    BY <2>6, <2>10 DEF p, t, s
<1> QED
  BY <1>1, <1>2, <1>3

---------------------------------------------------------------------------
(* The refinement. *)

LEMMA InitImplements == HistoryInit => Inv /\ W!WindowInit
<1> SUFFICES ASSUME HistoryInit PROVE Inv /\ W!WindowInit
  OBVIOUS
<1>1. RingOK(EmptyRing)
  BY DEF RingOK, EmptyRing, Ring
<1>2. Held(EmptyRing) = <<>>
  BY DEF Held, EmptyRing, Ring
<1> QED
  BY <1>1, <1>2 DEF HistoryInit, Inv, W!WindowInit, EmptyRing, Ring

LEMMA StepImplements ==
  Inv /\ [HistoryNext]_historyVars
    => Inv' /\ [W!WindowNext]_<<ring.capacity, Held(ring)>>
<1> SUFFICES ASSUME Inv, [HistoryNext]_historyVars
             PROVE  Inv' /\ [W!WindowNext]_<<ring.capacity, Held(ring)>>
  OBVIOUS
<1>0. RingOK(ring) /\ want \in Rooms /\ want \in Nat /\ ring.capacity \in Nat
  BY RoomsAssumption DEF Inv, RingOK
<1>1. CASE PushThenResize
  <2>1. PICK v \in Samples : ring' = Resized(PushBack(ring, v), want)
    BY <1>1 DEF PushThenResize
  <2> DEFINE p == PushBack(ring, v)
  <2>2. /\ RingOK(p) /\ p.capacity = ring.capacity
        /\ Held(p) = W!Recorded(Held(ring), v, ring.capacity)
    BY <1>0, PushRecords
  <2> HIDE DEF p
  <2>3. /\ RingOK(Resized(p, want)) /\ Resized(p, want).capacity = want
        /\ Held(Resized(p, want)) = W!Newest(Held(p), want)
    BY <1>0, <2>2, ResizeKeepsNewest
  <2>4. ring' = Resized(p, want)
    BY <2>1 DEF p
  <2>5. /\ RingOK(ring)' /\ (ring.capacity)' = want
        /\ Held(ring)' = W!Newest(Held(p), want)
    BY <2>3, <2>4 DEF RingOK, Held, Slot
  <2>6. W!Record(v, want)
    BY <2>2, <2>5 DEF W!Record
  <2> QED
    BY <1>0, <1>1, <2>5, <2>6 DEF Inv, PushThenResize, W!WindowNext
<1>2. CASE ResizeThenPush
  <2>1. PICK v \in Samples : ring' = PushBack(Resized(ring, want), v)
    BY <1>2 DEF ResizeThenPush
  <2> DEFINE p == Resized(ring, want)
  <2>2. /\ RingOK(p) /\ p.capacity = want
        /\ Held(p) = W!Newest(Held(ring), want)
    BY <1>0, ResizeKeepsNewest
  <2> HIDE DEF p
  <2>3. /\ RingOK(PushBack(p, v)) /\ PushBack(p, v).capacity = want
        /\ Held(PushBack(p, v)) = W!Recorded(Held(p), v, want)
    BY <2>2, PushRecords
  <2>4. ring' = PushBack(p, v)
    BY <2>1 DEF p
  <2>5. /\ RingOK(ring)' /\ (ring.capacity)' = want
        /\ Held(ring)' = W!Recorded(Held(p), v, want)
    BY <2>3, <2>4 DEF RingOK, Held, Slot
  <2>6. W!Record(v, want)
    BY <2>2, <2>5 DEF W!Record
  <2> QED
    BY <1>0, <1>2, <2>5, <2>6 DEF Inv, ResizeThenPush, W!WindowNext
<1>3. CASE Layout
  BY <1>0, <1>3 DEF Layout, Inv, RingOK, Held, Slot
<1>4. CASE DrawAnew
  BY <1>0, <1>4 DEF DrawAnew, Inv, RingOK, Held, Slot
<1>5. CASE DrawMoved
  BY <1>0, <1>5 DEF DrawMoved, Inv, RingOK, Held, Slot
<1>6. CASE UNCHANGED historyVars
  BY <1>0, <1>6 DEF historyVars, Inv, RingOK, Held, Slot
<1> QED
  BY <1>1, <1>2, <1>3, <1>4, <1>5, <1>6 DEF HistoryNext

\* The RingBuffer of a collector (btop_shared.hpp), filled and resized as the
\* collectors do, is a window on the newest samples.
THEOREM RingIsWindow == HistorySpec => ImplementsWindow
<1>1. HistoryInit => Inv /\ W!WindowInit
  BY InitImplements
<1>2. Inv /\ [HistoryNext]_historyVars
        => Inv' /\ [W!WindowNext]_<<ring.capacity, Held(ring)>>
  BY StepImplements
<1> QED
  BY <1>1, <1>2, PTL DEF HistorySpec, ImplementsWindow, W!WindowSpec

---------------------------------------------------------------------------
(* NetStats: for every set of interfaces, however many bytes they carry    *)
(* and whichever readings fail.                                            *)

\* What was carried before the counter last restarted, and what failed
\* readings added to it.
Past(l) == sent[l] - counter[l] + again[l]

\* One interface and direction.  The past covers either all that collect()
\* has counted or, if the counter has not restarted since the last reading,
\* the part of it that lies before that restart.
LinkOK(l) ==
  /\ counter[l] <= sent[l]
  /\ stat[l].total <= stat[l].last + stat[l].rollover
  /\ \/ stat[l].last + stat[l].rollover <= Past(l)
     \/ stat[l].rollover <= Past(l) /\ stat[l].last <= counter[l]

NetTypes ==
  /\ live \subseteq Ifaces /\ interfaces \subseteq Ifaces
  /\ counter \in [Links -> Nat] /\ sent \in [Links -> Nat]
  /\ stat \in [Links -> Stats] /\ again \in [Links -> Nat]

\* The inductive invariant.
NetInv ==
  /\ NetTypes
  /\ \A l \in Links : l[1] \notin interfaces => stat[l] = Zero
  /\ \A l \in Links : LinkOK(l)

LEMMA ZeroStats == Zero \in Stats
BY DEF Zero, Stats

\* A reading counts what was counted before, or more, and nothing twice.
LEMMA UpdatedStats ==
  ASSUME NEW s \in Stats, NEW val \in Nat
  PROVE  LET u == Updated(s, val) IN
         /\ u \in Stats /\ u.last = val
         /\ u.rollover = IF val < s.last THEN s.rollover + s.last ELSE s.rollover
         /\ u.total <= u.last + u.rollover
         /\ s.offset = 0 => u.total = u.last + u.rollover
<1> DEFINE counted == val + Rollover(s, val)
           offset == IF s.offset > counted THEN 0 ELSE s.offset
<1>1. s.last \in Nat /\ s.rollover \in Nat /\ s.offset \in Nat
  BY DEF Stats
<1>2. /\ Rollover(s, val) \in Nat /\ counted \in Nat
      /\ Rollover(s, val) = IF val < s.last THEN s.rollover + s.last ELSE s.rollover
  BY <1>1 DEF Rollover
<1>3. /\ offset \in Nat /\ counted - offset \in Nat /\ counted - offset <= counted
      /\ s.offset = 0 => counted - offset = counted
  BY <1>1, <1>2
<1>4. Updated(s, val) = [last |-> val, rollover |-> Rollover(s, val),
                         offset |-> offset, total |-> counted - offset]
  BY DEF Updated
<1> HIDE DEF offset
<1> QED  BY <1>2, <1>3, <1>4 DEF Stats

LEMMA NetInvInit == NetInit => NetInv
<1> SUFFICES ASSUME NetInit PROVE NetInv
  OBVIOUS
<1>1. NetTypes
  BY ZeroStats DEF NetInit, NetTypes
<1>2. \A l \in Links : LinkOK(l)
  BY DEF NetInit, LinkOK, Past, Zero
<1> QED  BY <1>1, <1>2 DEF NetInit, NetInv

\* A failed reading too leaves what was counted covered, by what it adds to
\* again, and never lowers a total that is not offset.
LEMMA ReadOK ==
  ASSUME NetInv, NEW l \in Links, NEW failed, l[1] \in live
  PROVE  LET u == Updated(stat[l], Reading(l, failed))
             past == sent[l] - counter[l] + CountedAgain(l, failed) IN
         /\ u \in Stats /\ CountedAgain(l, failed) \in Nat
         /\ u.total <= u.last + u.rollover
         /\ u.rollover <= past /\ u.last <= counter[l]
         /\ stat[l].offset = 0 => stat[l].total <= u.total
<1> DEFINE s == stat[l]
           val == Reading(l, failed)
           u == Updated(s, val)
           more == CountedAgain(l, failed)
<1>1. /\ s \in Stats /\ val \in Nat /\ val <= counter[l]
      /\ counter[l] \in Nat /\ sent[l] \in Nat /\ again[l] \in Nat
  BY DEF NetInv, NetTypes, Reading
<1>2. s.last \in Nat /\ s.rollover \in Nat /\ s.total \in Nat
  BY <1>1 DEF Stats
<1>3. LinkOK(l)
  BY DEF NetInv
<1>4. /\ u \in Stats /\ u.last = val
      /\ u.rollover = IF val < s.last THEN s.rollover + s.last ELSE s.rollover
      /\ u.total <= u.last + u.rollover
      /\ s.offset = 0 => u.total = u.last + u.rollover
  BY <1>1, UpdatedStats
<1>5. /\ more = IF l \in failed /\ s.last <= counter[l]
                THEN again[l] + s.last ELSE again[l]
      /\ val = IF l \in failed THEN 0 ELSE counter[l]
  BY DEF CountedAgain, Reading
<1>6. more \in Nat
  BY <1>1, <1>2, <1>5
<1> HIDE DEF u, val, more
<1>7. u.rollover <= sent[l] - counter[l] + more
  BY <1>1, <1>2, <1>3, <1>4, <1>5 DEF LinkOK, Past
<1>8. s.last + s.rollover <= u.last + u.rollover
  BY <1>1, <1>2, <1>4
<1>9. u.last \in Nat /\ u.rollover \in Nat /\ u.total \in Nat
  BY <1>4 DEF Stats
<1>10. s.offset = 0 => s.total <= u.total
  BY <1>2, <1>3, <1>4, <1>8, <1>9 DEF LinkOK
<1> QED  BY <1>1, <1>4, <1>6, <1>7, <1>10 DEF u, val, more

LEMMA NetInvStep == NetInv /\ [NetNext]_netVars => NetInv'
<1> SUFFICES ASSUME NetInv, [NetNext]_netVars PROVE NetInv'
  OBVIOUS
<1>0. NetTypes /\ \A l \in Links : LinkOK(l)
  BY DEF NetInv
<1>1. CASE Traffic
  <2>1. PICK k \in Links :
          /\ counter' = [counter EXCEPT ![k] = @ + 1]
          /\ sent' = [sent EXCEPT ![k] = @ + 1]
    BY <1>1, SentAssumption DEF Traffic
  <2>2. UNCHANGED <<live, interfaces, stat, again>>
    BY <1>1 DEF Traffic, program
  <2>3. NetTypes'
    BY <1>0, <2>1, <2>2 DEF NetTypes
  <2>4. ASSUME NEW l \in Links PROVE LinkOK(l)'
    <3>1. /\ counter[l] \in Nat /\ sent[l] \in Nat /\ stat[l].last \in Nat
          /\ stat[l].rollover \in Nat /\ again[l] \in Nat
      BY <1>0 DEF NetTypes, Stats
    <3>2. \/ counter'[l] = counter[l] /\ sent'[l] = sent[l]
          \/ counter'[l] = counter[l] + 1 /\ sent'[l] = sent[l] + 1
      BY <1>0, <2>1 DEF NetTypes
    <3> QED  BY <1>0, <2>2, <3>1, <3>2 DEF LinkOK, Past
  <2> QED  BY <2>2, <2>3, <2>4 DEF NetInv
<1>2. CASE Restart \/ Appear
  <2>1. PICK i \in Ifaces :
          /\ counter' = [l \in Links |-> IF l[1] = i THEN 0 ELSE counter[l]]
          /\ \/ sent' = sent
             \/ sent' = [l \in Links |-> IF l[1] = i /\ i \notin interfaces
                                         THEN 0 ELSE sent[l]]
    BY <1>0, <1>2 DEF Restart, Appear, NetTypes
  <2>2. UNCHANGED <<interfaces, stat, again>> /\ live' \subseteq Ifaces
    BY <1>0, <1>2 DEF Restart, Appear, program, NetTypes
  <2>3. NetTypes'
    BY <1>0, <2>1, <2>2 DEF NetTypes
  <2>4. ASSUME NEW l \in Links PROVE LinkOK(l)'
    <3>1. /\ counter[l] \in Nat /\ sent[l] \in Nat /\ stat[l].last \in Nat
          /\ stat[l].rollover \in Nat /\ stat[l].total \in Nat
          /\ again[l] \in Nat
      BY <1>0 DEF NetTypes, Stats
    <3>2. counter'[l] = IF l[1] = i THEN 0 ELSE counter[l]
      BY <2>1
    <3>3. CASE sent'[l] = sent[l]
      BY <1>0, <2>2, <3>1, <3>2, <3>3 DEF LinkOK, Past
    <3>4. CASE sent'[l] # sent[l]
      <4>1. l[1] = i /\ i \notin interfaces /\ sent'[l] = 0
        BY <2>1, <3>4
      <4>2. stat[l] = Zero
        BY <4>1 DEF NetInv
      <4> QED  BY <2>2, <3>1, <3>2, <4>1, <4>2 DEF LinkOK, Past, Zero
    <3> QED  BY <3>3, <3>4
  <2> QED  BY <2>2, <2>3, <2>4 DEF NetInv
<1>3. CASE Vanish
  BY <1>0, <1>3 DEF Vanish, program, NetInv, NetTypes, LinkOK, Past
<1>4. CASE CollectUpdates
  <2>1. PICK failed \in SUBSET {l \in Links : l[1] \in live /\ counter[l] > 0} :
          /\ stat' = [l \in Links |-> Read(l, failed)]
          /\ again' = [l \in Links |-> CountedAgain(l, failed)]
    BY <1>4 DEF CollectUpdates
  <2>2. interfaces' = live /\ UNCHANGED <<live, counter, sent>>
    BY <1>4 DEF CollectUpdates, kernel
  <2>3. ASSUME NEW l \in Links
        PROVE  /\ Read(l, failed) \in Stats /\ CountedAgain(l, failed) \in Nat
               /\ LinkOK(l)'
               /\ l[1] \notin live => Read(l, failed) = Zero
    <3>1. counter[l] \in Nat /\ sent[l] \in Nat /\ counter[l] <= sent[l]
      BY <1>0 DEF NetTypes, LinkOK
    <3>2. stat'[l] = Read(l, failed) /\ again'[l] = CountedAgain(l, failed)
      BY <2>1
    <3>3. CASE l[1] \in live
      <4>1. Read(l, failed) = Updated(stat[l], Reading(l, failed))
        BY <3>3 DEF Read
      <4> QED  BY <2>2, <3>1, <3>2, <3>3, <4>1, ReadOK DEF LinkOK, Past
    <3>4. CASE l[1] \notin live
      <4>1. Read(l, failed) = Zero /\ CountedAgain(l, failed) = 0
        BY <3>4 DEF Read, CountedAgain
      <4> QED  BY <2>2, <3>1, <3>2, <4>1, ZeroStats DEF LinkOK, Past, Zero
    <3> QED  BY <3>3, <3>4
  <2>4. NetTypes'
    BY <1>0, <2>1, <2>2, <2>3 DEF NetTypes
  <2> QED  BY <2>1, <2>2, <2>3, <2>4 DEF NetInv
<1>5. CASE CollectFails \/ CollectSkips \/ Cycle
  BY <1>0, <1>5 DEF CollectFails, CollectSkips, Cycle, kernel, NetInv, NetTypes,
                    LinkOK, Past
<1>6. CASE ZeroTotals
  <2>1. PICK zeroed \in BOOLEAN :
          stat' = [l \in Links |->
                    IF l[1] = selectedIface
                    THEN [stat[l] EXCEPT !.offset = Offset(stat[l], zeroed)]
                    ELSE stat[l]]
    BY <1>6 DEF ZeroTotals
  <2>2. selectedIface \in interfaces /\ UNCHANGED <<live, counter, sent, interfaces, again>>
    BY <1>6 DEF ZeroTotals, kernel
  <2>3. ASSUME NEW l \in Links
        PROVE  /\ stat'[l] \in Stats
               /\ stat'[l].last = stat[l].last /\ stat'[l].rollover = stat[l].rollover
               /\ stat'[l].total = stat[l].total
               /\ l[1] \notin interfaces => stat'[l] = stat[l]
    <3>1. stat[l] \in Stats
      BY <1>0 DEF NetTypes
    <3>2. Offset(stat[l], zeroed) \in Nat
      BY <3>1 DEF Offset, Stats
    <3> QED  BY <2>1, <2>2, <3>1, <3>2 DEF Stats
  <2>4. NetTypes'
    BY <1>0, <2>1, <2>2, <2>3 DEF NetTypes
  <2>5. \A l \in Links : LinkOK(l)'
    BY <1>0, <2>2, <2>3 DEF LinkOK, Past
  <2> QED  BY <2>2, <2>3, <2>4, <2>5 DEF NetInv
<1>7. CASE UNCHANGED netVars
  BY <1>0, <1>7 DEF netVars, NetInv, NetTypes, LinkOK, Past
<1> QED
  BY <1>1, <1>2, <1>3, <1>4, <1>5, <1>6, <1>7 DEF NetNext

\* A total claims no more bytes than were carried, and the last value of each
\* counter that could not be read and was taken for restarted.
\* (Net::collect)
THEOREM TotalsAreCarried == NetSpec => []NeverOvercounts
<1>1. NetInv => NeverOvercounts
  <2> SUFFICES ASSUME NetInv, NEW l \in interfaces \X Dirs
               PROVE  /\ stat[l].last + stat[l].rollover <= sent[l] + again[l]
                      /\ stat[l].total <= sent[l] + again[l]
    BY DEF NeverOvercounts
  <2>1. l \in Links
    BY DEF NetInv, NetTypes, Links
  <2>2. /\ counter[l] \in Nat /\ sent[l] \in Nat /\ stat[l].last \in Nat
        /\ stat[l].rollover \in Nat /\ stat[l].total \in Nat /\ LinkOK(l)
        /\ again[l] \in Nat
    BY <2>1 DEF NetInv, NetTypes, Stats
  <2> QED  BY <2>2 DEF LinkOK, Past
<1> QED
  BY <1>1, NetInvInit, NetInvStep, PTL DEF NetSpec

\* A total only falls when the user has zeroed it.  (Net::collect)
THEOREM TotalsGrow == NetSpec => TotalOnlyGrows
<1> DEFINE Grows == \A l \in (interfaces \cap interfaces') \X Dirs :
                      stat'[l].total < stat[l].total => stat[l].offset > 0
<1>1. NetInv /\ [NetNext]_netVars => [Grows]_netVars
  <2> SUFFICES ASSUME NetInv, NetNext, NEW l \in (interfaces \cap interfaces') \X Dirs,
                      stat'[l].total < stat[l].total
               PROVE  stat[l].offset > 0
    OBVIOUS
  <2>1. l \in Links /\ l[1] \in interfaces'
    BY DEF NetInv, NetTypes, Links
  <2>2. stat[l] \in Stats
    BY <2>1 DEF NetInv, NetTypes
  <2>3. stat[l].total \in Nat /\ stat[l].offset \in Nat
    BY <2>2 DEF Stats
  <2>4. CASE CollectUpdates
    <3>1. PICK failed : l[1] \in live /\ stat'[l] = Updated(stat[l], Reading(l, failed))
      BY <2>1, <2>4 DEF CollectUpdates, Read
    <3>2. Updated(stat[l], Reading(l, failed)).total \in Nat
      BY <2>1, <3>1, ReadOK DEF Stats
    <3> QED  BY <2>1, <2>3, <3>1, <3>2, ReadOK
  <2>5. CASE ZeroTotals
    <3>1. stat'[l].total = stat[l].total
      BY <2>1, <2>2, <2>5 DEF ZeroTotals, Stats
    <3> QED  BY <2>3, <3>1
  <2>6. CASE ~ (CollectUpdates \/ ZeroTotals)
    <3>1. stat' = stat
      BY <2>6 DEF NetNext, Traffic, Restart, Vanish, Appear, CollectFails,
                  CollectSkips, Cycle, program
    <3> QED  BY <2>3, <3>1
  <2> QED  BY <2>4, <2>5, <2>6
<1> QED
  BY <1>1, NetInvInit, NetInvStep, PTL DEF NetSpec, TotalOnlyGrows


---------------------------------------------------------------------------
(* NetStats: the interface on display, whatever is connected or vanishes.  *)

SelectedInv ==
  /\ Permanent \subseteq live
  /\ collected => interfaces # {} /\ selectedIface \in interfaces

\* The part of collect() that looks at the selection leaves it in the list.
LEMMA SelectListed ==
  ASSUME NEW listed, NEW st, Select(listed, st), listed # {}
  PROVE  selectedIface' \in listed
<1>1. PICK connected \in SUBSET listed : selectedIface' \in Shown(listed, st, connected)
  BY DEF Select
<1>2. CASE selectedIface \in listed
  BY <1>1, <1>2 DEF Shown
<1>3. CASE selectedIface \notin listed
  <2>1. selectedIface' \in Replacement(listed, st, connected)
    BY <1>1, <1>3 DEF Shown
  <2>2. CASE ConfigIface \in listed
    BY <2>1, <2>2 DEF Replacement
  <2>3. CASE ConfigIface \notin listed
    BY <2>1, <2>3 DEF Replacement, Largest
  <2> QED  BY <2>2, <2>3
<1> QED  BY <1>2, <1>3

LEMMA SelectedInvInit == NetInit => SelectedInv
BY IfaceAssumption DEF NetInit, SelectedInv

LEMMA SelectedInvStep == SelectedInv /\ [NetNext]_netVars => SelectedInv'
<1> SUFFICES ASSUME SelectedInv, [NetNext]_netVars PROVE SelectedInv'
  OBVIOUS
<1>1. CASE Traffic \/ Restart \/ Vanish \/ Appear
  <2>1. UNCHANGED <<interfaces, selectedIface, collected>>
    BY <1>1 DEF Traffic, Restart, Vanish, Appear, program
  <2>2. Permanent \subseteq live'
    BY <1>1 DEF Traffic, Restart, Vanish, Appear, SelectedInv
  <2> QED  BY <2>1, <2>2 DEF SelectedInv
<1>2. CASE CollectUpdates
  <2>1. live' = live /\ interfaces' = live /\ interfaces' # {} /\ Select(interfaces', stat')
    BY <1>2, IfaceAssumption DEF CollectUpdates, kernel, SelectedInv
  <2>2. selectedIface' \in interfaces'
    BY <2>1, SelectListed
  <2> QED  BY <2>1, <2>2 DEF SelectedInv
<1>3. CASE CollectSkips
  <2>1. UNCHANGED <<live, interfaces, collected>> /\ Select(interfaces, stat)
    BY <1>3 DEF CollectSkips, kernel
  <2>2. interfaces # {} => selectedIface' \in interfaces
    BY <2>1, SelectListed
  <2> QED  BY <2>1, <2>2 DEF SelectedInv
<1>4. CASE Cycle
  <2>1. UNCHANGED <<live, interfaces, collected>>
    BY <1>4 DEF Cycle, kernel
  <2>2. selectedIface' \in interfaces /\ interfaces # {}
    BY <1>4 DEF Cycle, Listed
  <2> QED  BY <2>1, <2>2 DEF SelectedInv
<1>5. CASE CollectFails \/ ZeroTotals \/ UNCHANGED netVars
  <2>1. UNCHANGED <<live, interfaces, selectedIface, collected>>
    BY <1>5 DEF CollectFails, ZeroTotals, kernel, netVars
  <2> QED  BY <2>1 DEF SelectedInv
<1> QED
  BY <1>1, <1>2, <1>3, <1>4, <1>5 DEF NetNext

\* The z key finds the interface on display.  (Net::collect, Input::process)
THEOREM SelectedIsKnown == NetSpec => []SelectedKnown
<1>1. SelectedInv => SelectedKnown
  BY DEF SelectedInv, SelectedKnown
<1> QED
  BY <1>1, SelectedInvInit, SelectedInvStep, PTL DEF NetSpec

---------------------------------------------------------------------------
(* ProcList: a paused list, for every set of processes and filters.        *)

ListInv == DOMAIN entries \subseteq DOMAIN procMap

\* Filtering, sorting and the tree neither add a process nor lose one.
LEMMA ArrangeDomain ==
  ASSUME NEW list, NEW s, NEW alive, NEW update, NEW resorted, NEW fold,
         Arrange(list, s, alive, update, resorted, fold)
  PROVE  DOMAIN entries' = DOMAIN list
<1> DEFINE should == update \/ s.filter # procFilter
           passed == FilterPass(list, s, should)
           tree == Adopted(Folded(passed, fold), s, alive)
           asks == should \/ s.filter # NoFilter
<1>1. DOMAIN passed = DOMAIN list
  BY DEF FilterPass
<1>2. DOMAIN TreeGen(tree, Matching(s), asks, update).list = DOMAIN tree
  BY DEF TreeGen
<1>3. DOMAIN tree = DOMAIN passed
  BY DEF Adopted, Folded
<1> HIDE DEF passed, tree, asks
<1>4. entries' = passed \/ entries' = TreeGen(tree, Matching(s), asks, update).list
  BY DEF Arrange, passed, tree, asks
<1> QED  BY <1>1, <1>2, <1>3, <1>4

\* What one update makes of the list.
LEMMA CollectAllDomain ==
  ASSUME CollectAll
  PROVE  /\ DOMAIN entries' = DOMAIN procMap'
         /\ paused' => DOMAIN procMap' = DOMAIN procMap
<1>1. PICK s \in Settings, system \in Systems : \E fold \in Folds(s) :
        LET alive == DOMAIN system
            known == MapAfterRead(system, s)
            kept == IF s.paused THEN known ELSE [p \in alive |-> known[p]]
        IN  /\ procMap' = kept
            /\ Arrange([p \in DOMAIN kept |-> Entry(kept[p])], s, alive, TRUE, FALSE, fold)
            /\ TakeNote(s)
  BY DEF CollectAll
<1> DEFINE alive == DOMAIN system
           known == MapAfterRead(system, s)
           kept == IF s.paused THEN known ELSE [p \in alive |-> known[p]]
           list == [p \in DOMAIN kept |-> Entry(kept[p])]
<1>2. PICK fold \in Folds(s) : /\ procMap' = kept
                               /\ Arrange(list, s, alive, TRUE, FALSE, fold)
                               /\ TakeNote(s)
  BY <1>1
<1>3. DOMAIN list = DOMAIN kept
  OBVIOUS
<1>4. s.paused => DOMAIN kept = DOMAIN procMap
  BY DEF MapAfterRead
<1> HIDE DEF list, kept, alive
<1>5. DOMAIN entries' = DOMAIN list
  BY <1>2, ArrangeDomain
<1> QED  BY <1>2, <1>3, <1>4, <1>5 DEF TakeNote

LEMMA ListInvInit == ProcListInit => ListInv
BY DEF ProcListInit, ListInv

ListKept == paused /\ paused' => /\ DOMAIN entries \subseteq DOMAIN entries'
                                /\ DOMAIN entries' \subseteq DOMAIN procMap

LEMMA ListStep ==
  ListInv /\ [ProcListNext]_procListVars => ListInv' /\ [ListKept]_procListVars
<1> SUFFICES ASSUME ListInv, [ProcListNext]_procListVars
             PROVE  ListInv' /\ [ListKept]_procListVars
  OBVIOUS
<1>1. CASE CollectAll
  BY <1>1, CollectAllDomain DEF ListInv, ListKept
<1>2. CASE CollectAgain
  <2>1. procMap' = procMap
    BY <1>2 DEF CollectAgain
  <2>2. DOMAIN entries' = DOMAIN entries
    BY <1>2, ArrangeDomain DEF CollectAgain
  <2> QED  BY <2>1, <2>2 DEF ListInv, ListKept
<1>3. CASE CollectStopped
  <2>1. entries' = entries /\ DOMAIN procMap \subseteq DOMAIN procMap'
    BY <1>3 DEF CollectStopped
  <2> QED  BY <2>1 DEF ListInv, ListKept
<1>4. CASE UNCHANGED procListVars
  BY <1>4 DEF procListVars, ListInv
<1> QED
  BY <1>1, <1>2, <1>3, <1>4 DEF ProcListNext

\* A paused list keeps its processes, and none joins it.  (Proc::collect)
THEOREM PausedKeeps == ProcListSpec => PausedListKept
BY ListInvInit, ListStep, PTL DEF ProcListSpec, PausedListKept, ListKept

---------------------------------------------------------------------------
(* ProcList: the rows are counted, for every set of processes and filters. *)

\* What is above a process.
LEMMA AboveSelf ==
  ASSUME NEW list, NEW roots, NEW p \in DOMAIN list
  PROVE  p \in UpFrom(list, roots, p)
BY DEF UpFrom

LEMMA AboveRoot ==
  ASSUME NEW list, NEW roots, NEW p \in DOMAIN list, p \in roots
  PROVE  UpFrom(list, roots, p) = {p}
<1>1. Closed(list, roots, {p})
  BY DEF Closed
<1> QED  BY <1>1, AboveSelf DEF UpFrom

LEMMA AboveAbove ==
  ASSUME NEW list, NEW roots, NEW p, NEW q \in UpFrom(list, roots, p)
  PROVE  UpFrom(list, roots, q) \subseteq UpFrom(list, roots, p)
BY DEF UpFrom

\* Who is above a process, is its parent or above that.
LEMMA AboveParent ==
  ASSUME NEW list, NEW roots, NEW p \in DOMAIN list,
         NEW q \in UpFrom(list, roots, p), q # p
  PROVE  /\ list[p].ppid \in UpFrom(list, roots, p)
         /\ q \in UpFrom(list, roots, list[p].ppid)
<1> DEFINE parent == list[p].ppid
<1>1. p \notin roots
  BY AboveRoot
<1>2. parent \in DOMAIN list
  <2> SUFFICES ASSUME parent \notin DOMAIN list PROVE FALSE
    OBVIOUS
  <2>1. Closed(list, roots, {p})
    BY DEF Closed
  <2> QED  BY <2>1 DEF UpFrom
<1>3. parent \in UpFrom(list, roots, p)
  BY <1>1, <1>2 DEF UpFrom, Closed
<1>4. q \in DOMAIN list
  BY DEF UpFrom
<1>5. ASSUME NEW S \in SUBSET DOMAIN list, parent \in S, Closed(list, roots, S)
      PROVE  q \in S
  <2>1. Closed(list, roots, S \cup {p})
    BY <1>5 DEF Closed
  <2>2. q \in S \cup {p}
    BY <2>1 DEF UpFrom
  <2> QED  BY <2>2
<1>6. q \in UpFrom(list, roots, parent)
  BY <1>4, <1>5 DEF UpFrom
<1> QED  BY <1>3, <1>6

\* The tree is a matter of the parents alone.
LEMMA SameParents ==
  ASSUME NEW l, NEW k, DOMAIN l = DOMAIN k,
         \A p \in DOMAIN l : l[p].ppid = k[p].ppid
  PROVE  Reached(l) = Reached(k)
<1>1. Roots(l) = Roots(k)
  BY DEF Roots
<1>2. \A roots, S : S \in SUBSET DOMAIN l => (Closed(l, roots, S) <=> Closed(k, roots, S))
  BY DEF Closed
<1>3. \A roots, p : UpFrom(l, roots, p) = UpFrom(k, roots, p)
  BY <1>2 DEF UpFrom
<1> QED  BY <1>1, <1>3 DEF Reached

---------------------------------------------------------------------------
(* The tree hides what it says it hides.                                   *)

Listing(list) ==
  /\ list = [p \in DOMAIN list |-> list[p]]
  /\ DOMAIN list \subseteq Pids
  /\ \A p \in DOMAIN list :
       /\ list[p] = [ppid |-> list[p].ppid, collapsed |-> list[p].collapsed,
                     filtered |-> list[p].filtered]
       /\ list[p].collapsed \in BOOLEAN /\ list[p].filtered \in BOOLEAN

Uncollapsed(list) == \A p \in DOMAIN list : ~ list[p].collapsed
HiddenOpen(list) == \A p \in Hidden(list) : ~ list[p].collapsed

\* A flag that is up.
On(flag) == flag = TRUE
Off(flag) == flag = FALSE

UpTo(list, p) == UpFrom(list, Roots(list), p)
MatchedAbove(list, matching, asks) ==
  {p \in Reached(list) : asks /\ (UpTo(list, p) \ {p}) \cap matching # {}}
Filtering(list, matching, asks) ==
  {p \in Reached(list) \ (MatchedAbove(list, matching, asks) \cup matching) : asks}
Buried(list) == {p \in Reached(list) : \E q \in UpTo(list, p) \ {p} : list[q].collapsed}
Swallowed(list, matching, asks, update) ==
  {p \in Buried(list) \ Roots(list) :
     update /\ list[p].ppid \notin Filtering(list, matching, asks)}
Unfiltered(list, matching, asks) ==
  {p \in Reached(list) \ Filtering(list, matching, asks) :
     ~ asks \/ p \in MatchedAbove(list, matching, asks)}
BuriedAbove(list, matching, asks) ==
  {p \in Buried(list) \ Filtering(list, matching, asks) : Children(list, p) # {}}

\* TreeGen, part by part.
LEMMA TreeGenParts ==
  ASSUME NEW list, NEW matching, NEW asks, NEW update
  PROVE  TreeGen(list, matching, asks, update) =
           [list |-> [p \in DOMAIN list |-> [list[p] EXCEPT !.filtered =
              \/ p \in Filtering(list, matching, asks) \cup BuriedAbove(list, matching, asks)
                       \cup Swallowed(list, matching, asks, update)
              \/ @ /\ p \notin Unfiltered(list, matching, asks)]],
            hidden |-> Cardinality(Filtering(list, matching, asks))
                       + Cardinality(Swallowed(list, matching, asks, update))]
<1> DEFINE roots == Roots(list)
           up == [p \in DOMAIN list |-> UpFrom(list, roots, p)]
           reached == {p \in DOMAIN list : up[p] \cap roots # {}}
           found == {p \in reached : asks /\ (up[p] \ {p}) \cap matching # {}}
           filtering == {p \in reached \ (found \cup matching) : asks}
           collapsed == {p \in reached : \E q \in up[p] \ {p} : list[q].collapsed}
           swallowed == {p \in collapsed \ roots : update /\ list[p].ppid \notin filtering}
           cleared == {p \in reached \ filtering : ~ asks \/ p \in found}
           above == {p \in collapsed \ filtering : Children(list, p) # {}}
<1>1. \A p \in DOMAIN list : up[p] = UpTo(list, p)
  BY DEF UpTo
<1> HIDE DEF up
<1>2. reached = Reached(list)
  BY <1>1 DEF Reached, UpTo
<1>3. reached \subseteq DOMAIN list
  OBVIOUS
<1> HIDE DEF reached
<1>4. found = MatchedAbove(list, matching, asks)
  BY <1>1, <1>2, <1>3 DEF MatchedAbove
<1>5. collapsed = Buried(list)
  BY <1>1, <1>2, <1>3 DEF Buried
<1> HIDE DEF found, collapsed
<1>6. filtering = Filtering(list, matching, asks)
  BY <1>2, <1>4 DEF Filtering
<1> HIDE DEF filtering
<1>7. swallowed = Swallowed(list, matching, asks, update)
  BY <1>5, <1>6 DEF Swallowed
<1>8. cleared = Unfiltered(list, matching, asks)
  BY <1>2, <1>4, <1>6 DEF Unfiltered
<1>9. above = BuriedAbove(list, matching, asks)
  BY <1>5, <1>6 DEF BuriedAbove
<1> HIDE DEF swallowed, cleared, above
<1>10. TreeGen(list, matching, asks, update) =
         [list |-> [p \in DOMAIN list |-> [list[p] EXCEPT !.filtered =
            \/ p \in filtering \cup above \cup swallowed
            \/ @ /\ p \notin cleared]],
          hidden |-> Cardinality(filtering) + Cardinality(swallowed)]
  BY Zenon DEF TreeGen, roots, up, reached, found, filtering, collapsed, swallowed, cleared, above
<1> QED  BY Zenon, <1>6, <1>7, <1>8, <1>9, <1>10

\* The rows TreeGen leaves alone but for the flag, and whom it hides.
LEMMA TreeGenList ==
  ASSUME NEW list, Listing(list), NEW matching, NEW asks, NEW update,
         NEW grown, grown = TreeGen(list, matching, asks, update).list
  PROVE  /\ DOMAIN grown = DOMAIN list
         /\ \A p \in DOMAIN list : /\ grown[p].ppid = list[p].ppid
                                   /\ grown[p].collapsed = list[p].collapsed
         /\ Listing(grown)
         /\ \A p \in DOMAIN list :
              p \in Hidden(grown) <=>
                \/ p \in Filtering(list, matching, asks) \cup BuriedAbove(list, matching, asks)
                         \cup Swallowed(list, matching, asks, update)
                \/ list[p].filtered /\ p \notin Unfiltered(list, matching, asks)
<1> DEFINE hides == [p \in DOMAIN list |->
      \/ p \in Filtering(list, matching, asks) \cup BuriedAbove(list, matching, asks)
               \cup Swallowed(list, matching, asks, update)
      \/ list[p].filtered /\ p \notin Unfiltered(list, matching, asks)]
<1>1. grown = [p \in DOMAIN list |-> [list[p] EXCEPT !.filtered = hides[p]]]
  BY TreeGenParts
<1>2. \A p \in DOMAIN list : hides[p] \in BOOLEAN
  BY DEF Listing
<1>3. \A p \in DOMAIN list :
        hides[p] <=>
          \/ p \in Filtering(list, matching, asks) \cup BuriedAbove(list, matching, asks)
                   \cup Swallowed(list, matching, asks, update)
          \/ list[p].filtered /\ p \notin Unfiltered(list, matching, asks)
  BY DEF Listing
<1> HIDE DEF hides
<1>4. DOMAIN grown = DOMAIN list
  BY <1>1
<1>5. ASSUME NEW p \in DOMAIN list
      PROVE  /\ grown[p].ppid = list[p].ppid
             /\ grown[p].collapsed = list[p].collapsed
             /\ grown[p].filtered = hides[p]
             /\ grown[p] = [ppid |-> grown[p].ppid, collapsed |-> grown[p].collapsed,
                            filtered |-> grown[p].filtered]
  <2>1. grown[p] = [list[p] EXCEPT !.filtered = hides[p]]
    BY <1>1
  <2>2. list[p] = [ppid |-> list[p].ppid, collapsed |-> list[p].collapsed,
                   filtered |-> list[p].filtered]
    BY DEF Listing
  <2>3. grown[p] = [ppid |-> list[p].ppid, collapsed |-> list[p].collapsed,
                    filtered |-> hides[p]]
    BY <2>1, <2>2
  <2> QED  BY <2>3
<1>6. Listing(grown)
  <2>1. grown = [p \in DOMAIN grown |-> grown[p]]
    BY <1>1
  <2> QED  BY <1>2, <1>4, <1>5, <2>1 DEF Listing
<1>7. Hidden(grown) = {p \in DOMAIN list : hides[p]}
  BY <1>4, <1>5 DEF Hidden
<1> QED  BY <1>3, <1>4, <1>5, <1>6, <1>7

\* An update counts whom it hides: a row that a collapsed branch buries is
\* hidden by the filter or swallowed, unless the branch is itself hidden.
LEMMA UpdateCounts ==
  ASSUME NEW list, Listing(list), NEW matching,
         NEW asks, NEW update, On(asks), On(update),
         \A p \in DOMAIN list : ~ list[p].filtered,
         NEW grown, grown = TreeGen(list, matching, asks, update).list,
         HiddenOpen(grown), Reached(grown) = DOMAIN grown
  PROVE  TreeGen(list, matching, asks, update).hidden = Cardinality(Hidden(grown))
<1> DEFINE filtering == Filtering(list, matching, asks)
           swallowed == Swallowed(list, matching, asks, update)
           buried == BuriedAbove(list, matching, asks)
<1>1. /\ DOMAIN grown = DOMAIN list
      /\ \A p \in DOMAIN list : /\ grown[p].ppid = list[p].ppid
                                /\ grown[p].collapsed = list[p].collapsed
      /\ Hidden(grown) = filtering \cup buried \cup swallowed
  <2>1. filtering \cup buried \cup swallowed \subseteq DOMAIN list
    BY DEF Filtering, Swallowed, BuriedAbove, Buried, Reached
  <2>2. /\ DOMAIN grown = DOMAIN list
        /\ \A p \in DOMAIN list : /\ grown[p].ppid = list[p].ppid
                                  /\ grown[p].collapsed = list[p].collapsed
        /\ \A p \in DOMAIN list :
             p \in Hidden(grown) <=>
               \/ p \in filtering \cup buried \cup swallowed
               \/ list[p].filtered /\ p \notin Unfiltered(list, matching, asks)
    BY TreeGenList
  <2>3. Hidden(grown) \subseteq DOMAIN list
    BY <2>2 DEF Hidden
  <2>4. \A p \in DOMAIN list : p \in Hidden(grown) <=> p \in filtering \cup buried \cup swallowed
    BY <2>2
  <2> HIDE DEF filtering, swallowed, buried
  <2> QED  BY <2>1, <2>2, <2>3, <2>4
<1>2. Reached(list) = DOMAIN list
  BY <1>1, SameParents
<1>11. asks = TRUE /\ update = TRUE
  BY DEF On
<1>12. filtering = Reached(list) \ (MatchedAbove(list, matching, asks) \cup matching)
  BY <1>11 DEF Filtering
<1>13. swallowed = {p \in Buried(list) \ Roots(list) : list[p].ppid \notin filtering}
  BY <1>11 DEF Swallowed
<1>14. MatchedAbove(list, matching, asks)
         = {p \in Reached(list) : (UpTo(list, p) \ {p}) \cap matching # {}}
  BY <1>11 DEF MatchedAbove
\* A parent that is not hidden by the filter has matching ones at or above it.
<1>3. ASSUME NEW p \in Reached(list), p \notin Roots(list),
             list[p].ppid \in DOMAIN list, list[p].ppid \notin filtering,
             list[p].ppid \in UpTo(list, p), list[p].ppid # p
      PROVE  p \notin filtering
  <2> DEFINE parent == list[p].ppid
  <2>1. UpTo(list, parent) \subseteq UpTo(list, p)
    BY <1>3, AboveAbove DEF UpTo
  <2>2. parent \in matching \/ parent \in MatchedAbove(list, matching, asks)
    BY <1>2, <1>3, <1>12
  <2>3. CASE parent \in matching
    BY <2>3, <1>3, <1>12, <1>14
  <2>4. CASE parent \in MatchedAbove(list, matching, asks)
    <3>1. PICK m \in UpTo(list, parent) : m \in matching
      BY <2>4, <1>14
    <3>2. CASE m = p
      BY <3>1, <3>2, <1>12
    <3>3. CASE m # p
      BY <3>1, <3>3, <2>1, <1>3, <1>12, <1>14
    <3> QED  BY <3>2, <3>3
  <2> QED  BY <2>2, <2>3, <2>4
<1>4. ASSUME NEW p \in Buried(list)
      PROVE  /\ p \in Reached(list) /\ p \notin Roots(list)
             /\ list[p].ppid \in UpTo(list, p) /\ list[p].ppid \in DOMAIN list
             /\ \E q \in UpTo(list, list[p].ppid) : q # p /\ list[q].collapsed
  <2>1. PICK q \in UpTo(list, p) \ {p} : list[q].collapsed
    BY DEF Buried
  <2>2. p \in DOMAIN list
    BY DEF Buried, Reached
  <2>3. p \notin Roots(list)
    BY <2>1, <2>2, AboveRoot DEF UpTo
  <2>4. list[p].ppid \in UpTo(list, p) /\ q \in UpTo(list, list[p].ppid)
    BY <2>1, <2>2, AboveParent DEF UpTo
  <2>5. list[p].ppid \in DOMAIN list
    BY <2>4 DEF UpTo, UpFrom
  <2> QED  BY <2>1, <2>3, <2>4, <2>5 DEF Buried
<1>5. filtering \cap swallowed = {}
  <2> SUFFICES ASSUME NEW p \in swallowed, p \in filtering PROVE FALSE
    OBVIOUS
  <2>1. p \in Buried(list) /\ list[p].ppid \notin filtering
    BY <1>13
  <2>2. list[p].ppid # p
    BY <2>1
  <2> QED  BY <1>3, <1>4, <2>1, <2>2
<1>6. buried \subseteq swallowed
  <2> SUFFICES ASSUME NEW p \in buried, p \notin swallowed PROVE FALSE
    OBVIOUS
  <2> DEFINE parent == list[p].ppid
  <2>1. p \in Buried(list) /\ p \notin filtering
    BY DEF BuriedAbove
  <2>2. parent \in filtering
    BY <2>1, <1>4, <1>13
  <2>3. PICK q \in UpTo(list, parent) : q # p /\ list[q].collapsed
    BY <2>1, <1>4
  <2>4. parent \in DOMAIN list /\ q \in DOMAIN list
    BY <2>1, <2>3, <1>4 DEF UpTo, UpFrom
  <2>5. q \notin filtering
    BY <2>3, <2>4, <1>1 DEF HiddenOpen
  <2>6. q # parent
    BY <2>2, <2>5
  <2>7. q \in matching \/ q \in MatchedAbove(list, matching, asks)
    BY <2>4, <2>5, <1>2, <1>12
  <2>8. \E m \in UpTo(list, parent) : m \in matching
    <3>1. CASE q \in matching
      BY <3>1, <2>3
    <3>2. CASE q \in MatchedAbove(list, matching, asks)
      <4>1. UpTo(list, q) \subseteq UpTo(list, parent)
        BY <2>3, AboveAbove DEF UpTo
      <4> QED  BY <3>2, <4>1, <1>14
    <3> QED  BY <3>1, <3>2, <2>7
  <2>9. parent \notin matching /\ parent \notin MatchedAbove(list, matching, asks) /\ parent \in Reached(list)
    BY <2>2, <1>12
  <2> QED  BY <2>8, <2>9, <1>14
<1>7. IsFiniteSet(filtering) /\ IsFiniteSet(swallowed)
  <2>1. filtering \in SUBSET Pids /\ swallowed \in SUBSET Pids
    BY DEF Filtering, Swallowed, Buried, Reached, Listing
  <2> QED  BY <2>1, FS_Subset, ProcListAssumption
<1>8. Cardinality(filtering \cup swallowed) = Cardinality(filtering) + Cardinality(swallowed)
  <2> HIDE DEF filtering, swallowed
  <2>1. Cardinality(filtering \cup swallowed)
          = Cardinality(filtering) + Cardinality(swallowed) - Cardinality(filtering \cap swallowed)
    BY <1>7, FS_Union
  <2>2. Cardinality(filtering \cap swallowed) = 0
    BY <1>5, FS_EmptySet
  <2>3. Cardinality(filtering) \in Nat /\ Cardinality(swallowed) \in Nat
    BY <1>7, FS_CardinalityType
  <2> QED  BY <2>1, <2>2, <2>3
<1>9. TreeGen(list, matching, asks, update).hidden = Cardinality(filtering) + Cardinality(swallowed)
  BY TreeGenParts
<1>10. Hidden(grown) = filtering \cup swallowed
  <2> HIDE DEF filtering, swallowed, buried
  <2> QED  BY <1>1, <1>6
<1> QED  BY <1>8, <1>9, <1>10

\* With no branch collapsed, only the filter hides, and whom it lets through
\* is not hidden.
LEMMA OpenCounts ==
  ASSUME NEW list, Listing(list), Uncollapsed(list), NEW matching,
         \A p \in DOMAIN list : list[p].filtered => p \notin matching,
         NEW asks, NEW update,
         NEW grown, grown = TreeGen(list, matching, asks, update).list
  PROVE  /\ TreeGen(list, matching, asks, update).hidden
              = Cardinality(Filtering(list, matching, asks))
         /\ Filtering(list, matching, asks) \subseteq DOMAIN list \ matching
         /\ ~ On(asks) => Filtering(list, matching, asks) = {}
         /\ \A p \in DOMAIN grown : grown[p].filtered => p \notin matching
         /\ On(asks) /\ Reached(grown) = DOMAIN grown
              => Hidden(grown) = Filtering(list, matching, asks)
<1> DEFINE filtering == Filtering(list, matching, asks)
<1>1. Buried(list) = {}
  <2> SUFFICES ASSUME NEW p \in Buried(list) PROVE FALSE
    OBVIOUS
  <2>1. PICK q \in UpTo(list, p) : list[q].collapsed
    BY DEF Buried
  <2>2. q \in DOMAIN list
    BY DEF UpTo, UpFrom
  <2> QED  BY <2>1, <2>2 DEF Uncollapsed
<1>2. /\ Swallowed(list, matching, asks, update) = {}
      /\ BuriedAbove(list, matching, asks) = {}
  BY <1>1 DEF Swallowed, BuriedAbove
<1>3. TreeGen(list, matching, asks, update).hidden = Cardinality(filtering)
  <2>1. TreeGen(list, matching, asks, update).hidden = Cardinality(filtering) + Cardinality({})
    BY <1>2, TreeGenParts
  <2>2. IsFiniteSet(filtering)
    <3>1. filtering \in SUBSET Pids
      BY DEF Filtering, Reached, Listing
    <3> QED  BY <3>1, FS_Subset, ProcListAssumption
  <2>3. Cardinality(filtering) \in Nat
    BY <2>2, FS_CardinalityType
  <2> QED  BY <2>1, <2>3, FS_EmptySet
<1>4. filtering \subseteq DOMAIN list \ matching
  BY DEF Filtering, Reached
<1>5. ~ On(asks) => filtering = {}
  BY DEF Filtering, On
<1>6. /\ DOMAIN grown = DOMAIN list
      /\ \A p \in DOMAIN list : /\ grown[p].ppid = list[p].ppid
                                /\ grown[p].collapsed = list[p].collapsed
      /\ Listing(grown)
      /\ \A p \in DOMAIN list :
           p \in Hidden(grown) <=>
             \/ p \in filtering
             \/ list[p].filtered /\ p \notin Unfiltered(list, matching, asks)
  <2>1. \A p \in DOMAIN list :
           p \in Hidden(grown) <=>
             \/ p \in filtering \cup BuriedAbove(list, matching, asks)
                      \cup Swallowed(list, matching, asks, update)
             \/ list[p].filtered /\ p \notin Unfiltered(list, matching, asks)
    BY TreeGenList
  <2>2. /\ DOMAIN grown = DOMAIN list
        /\ \A p \in DOMAIN list : /\ grown[p].ppid = list[p].ppid
                                  /\ grown[p].collapsed = list[p].collapsed
        /\ Listing(grown)
    BY TreeGenList
  <2> HIDE DEF filtering
  <2> QED  BY <1>2, <2>1, <2>2
<1>7. \A p \in DOMAIN grown : grown[p].filtered => p \notin matching
  <2> HIDE DEF filtering
  <2> QED  BY <1>4, <1>6 DEF Hidden
<1>8. ASSUME On(asks), Reached(grown) = DOMAIN grown
      PROVE  Hidden(grown) = filtering
  <2>1. Reached(list) = DOMAIN list
    BY <1>6, <1>8, SameParents
  <2>2. ASSUME NEW p \in DOMAIN list, list[p].filtered, p \notin filtering
        PROVE  p \in Unfiltered(list, matching, asks)
    <3>1. p \notin matching /\ p \in Reached(list)
      BY <2>1, <2>2
    <3>2. p \in MatchedAbove(list, matching, asks)
      BY <1>8, <2>2, <3>1 DEF Filtering, On
    <3> QED  BY <3>1, <3>2, <2>2 DEF Unfiltered
  <2>3. Hidden(grown) \subseteq DOMAIN list
    BY <1>6 DEF Hidden
  <2> HIDE DEF filtering
  <2> QED  BY <2>2, <2>3, <1>4, <1>6
<1> QED  BY <1>3, <1>4, <1>5, <1>7, <1>8

---------------------------------------------------------------------------
(* The invariant: how the rows that are hidden were counted.               *)

\* The processes the filter lets through, as of the last call.
Through == IF procFilter = NoFilter THEN Pids ELSE procFilter

\* With no branch collapsed, what the flags must be for the tree to be made
\* again from them without an update.
OpenInv ==
  ~ muddled /\ Uncollapsed(entries) =>
    /\ \A p \in DOMAIN entries : entries[p].filtered => p \notin Through
    /\ procFilter = NoFilter => filterFound = 0

HiddenInv ==
  ~ muddled /\ HiddenOpen(entries) /\ Reached(entries) = DOMAIN entries
    => filterFound = Cardinality(Hidden(entries))

CountInv ==
  /\ Listing(entries) /\ DOMAIN procMap \subseteq Pids
  /\ muddled \in BOOLEAN
  /\ filterFound \in Nat
  /\ numpids = Cardinality(DOMAIN entries) - filterFound
  /\ OpenInv
  /\ HiddenInv

LEMMA HiddenFinite ==
  ASSUME NEW list, Listing(list)
  PROVE  /\ IsFiniteSet(DOMAIN list) /\ IsFiniteSet(Hidden(list))
         /\ Cardinality(DOMAIN list) \in Nat /\ Cardinality(Hidden(list)) \in Nat
<1>1. DOMAIN list \in SUBSET Pids /\ Hidden(list) \in SUBSET Pids
  BY DEF Listing, Hidden
<1>2. IsFiniteSet(DOMAIN list) /\ IsFiniteSet(Hidden(list))
  BY <1>1, FS_Subset, ProcListAssumption
<1> QED  BY <1>2, FS_CardinalityType

\* The filter outside of the tree.
LEMMA FilterPassList ==
  ASSUME NEW list, Listing(list), NEW s, NEW should \in BOOLEAN, NEW passed,
         passed = FilterPass(list, s, should)
  PROVE  /\ DOMAIN passed = DOMAIN list
         /\ Listing(passed)
         /\ \A p \in DOMAIN list : passed[p].collapsed = list[p].collapsed
         /\ \A p \in DOMAIN list :
              should = TRUE => (passed[p].filtered <=> ~ s.tree /\ p \notin Matching(s))
         /\ should = FALSE => passed = list
<1> DEFINE out == [p \in DOMAIN list |-> ~ s.tree /\ p \notin Matching(s)]
<1>1. DOMAIN passed = DOMAIN list
  BY DEF FilterPass
<1>2. \A p \in DOMAIN list : /\ out[p] \in BOOLEAN
                             /\ out[p] <=> ~ s.tree /\ p \notin Matching(s)
  OBVIOUS
<1>3. CASE should = FALSE
  <2>1. passed = [p \in DOMAIN list |-> list[p]]
    BY <1>3 DEF FilterPass
  <2> QED  BY <1>3, <2>1 DEF Listing
<1>4. CASE should = TRUE
  <2>1. passed = [p \in DOMAIN list |-> [list[p] EXCEPT !.filtered = out[p]]]
    BY <1>4 DEF FilterPass
  <2> HIDE DEF out
  <2>2. ASSUME NEW p \in DOMAIN list
        PROVE  /\ passed[p].ppid = list[p].ppid
               /\ passed[p].collapsed = list[p].collapsed
               /\ passed[p].filtered = out[p]
               /\ passed[p] = [ppid |-> passed[p].ppid, collapsed |-> passed[p].collapsed,
                               filtered |-> passed[p].filtered]
    <3>1. passed[p] = [list[p] EXCEPT !.filtered = out[p]]
      BY <2>1
    <3>2. list[p] = [ppid |-> list[p].ppid, collapsed |-> list[p].collapsed,
                     filtered |-> list[p].filtered]
      BY DEF Listing
    <3>3. passed[p] = [ppid |-> list[p].ppid, collapsed |-> list[p].collapsed,
                       filtered |-> out[p]]
      BY <3>1, <3>2
    <3> QED  BY <3>3
  <2>3. passed = [p \in DOMAIN passed |-> passed[p]]
    BY <2>1
  <2>4. Listing(passed)
    BY <1>1, <1>2, <2>2, <2>3 DEF Listing
  <2> QED  BY <1>1, <1>2, <1>4, <2>2, <2>4
<1> QED  BY <1>3, <1>4

\* Folding and adoption change neither who is there nor who is hidden.
LEMMA FoldedList ==
  ASSUME NEW list, Listing(list), NEW fold
  PROVE  /\ DOMAIN Folded(list, fold) = DOMAIN list
         /\ Listing(Folded(list, fold))
         /\ \A p \in DOMAIN list : Folded(list, fold)[p].filtered = list[p].filtered
<1> DEFINE folds == [p \in DOMAIN list |->
       IF fold.key = "children" /\ fold.pid \in DOMAIN list /\ list[p].ppid = fold.pid
       THEN ~ list[p].collapsed
       ELSE IF p # fold.pid THEN list[p].collapsed
       ELSE IF fold.key = "flip" THEN ~ list[p].collapsed
       ELSE (fold.key = "collapse") \/ (list[p].collapsed /\ fold.key # "expand")]
           folded == Folded(list, fold)
<1>1. folded = [p \in DOMAIN list |-> [list[p] EXCEPT !.collapsed = folds[p]]]
  BY DEF Folded
<1>2. \A p \in DOMAIN list : folds[p] \in BOOLEAN
  BY DEF Listing
<1> HIDE DEF folds, folded
<1>3. DOMAIN folded = DOMAIN list /\ folded = [p \in DOMAIN folded |-> folded[p]]
  BY <1>1
<1>4. ASSUME NEW p \in DOMAIN list
      PROVE  /\ folded[p].filtered = list[p].filtered
             /\ folded[p].collapsed = folds[p]
             /\ folded[p] = [ppid |-> folded[p].ppid, collapsed |-> folded[p].collapsed,
                             filtered |-> folded[p].filtered]
  <2>1. folded[p] = [list[p] EXCEPT !.collapsed = folds[p]]
    BY <1>1
  <2>2. list[p] = [ppid |-> list[p].ppid, collapsed |-> list[p].collapsed,
                   filtered |-> list[p].filtered]
    BY DEF Listing
  <2>3. folded[p] = [ppid |-> list[p].ppid, collapsed |-> folds[p],
                     filtered |-> list[p].filtered]
    BY <2>1, <2>2
  <2> QED  BY <2>3
<1>5. Listing(folded)
  BY <1>2, <1>3, <1>4 DEF Listing
<1> QED  BY <1>3, <1>4, <1>5 DEF folded

LEMMA AdoptedList ==
  ASSUME NEW list, Listing(list), NEW s, NEW alive
  PROVE  /\ DOMAIN Adopted(list, s, alive) = DOMAIN list
         /\ Listing(Adopted(list, s, alive))
         /\ \A p \in DOMAIN list : Adopted(list, s, alive)[p].filtered = list[p].filtered
<1> DEFINE to == [p \in DOMAIN list |->
       IF ~ s.paused /\ list[p].ppid \notin alive THEN 0 ELSE list[p].ppid]
           adopted == Adopted(list, s, alive)
<1>1. adopted = [p \in DOMAIN list |-> [list[p] EXCEPT !.ppid = to[p]]]
  BY DEF Adopted
<1> HIDE DEF to, adopted
<1>2. DOMAIN adopted = DOMAIN list /\ adopted = [p \in DOMAIN adopted |-> adopted[p]]
  BY <1>1
<1>3. ASSUME NEW p \in DOMAIN list
      PROVE  /\ adopted[p].filtered = list[p].filtered
             /\ adopted[p].collapsed = list[p].collapsed
             /\ adopted[p] = [ppid |-> adopted[p].ppid, collapsed |-> adopted[p].collapsed,
                              filtered |-> adopted[p].filtered]
  <2>1. adopted[p] = [list[p] EXCEPT !.ppid = to[p]]
    BY <1>1
  <2>2. list[p] = [ppid |-> list[p].ppid, collapsed |-> list[p].collapsed,
                   filtered |-> list[p].filtered]
    BY DEF Listing
  <2>3. adopted[p] = [ppid |-> to[p], collapsed |-> list[p].collapsed,
                      filtered |-> list[p].filtered]
    BY <2>1, <2>2
  <2> QED  BY <2>3
<1>4. Listing(adopted)
  BY <1>2, <1>3 DEF Listing
<1> QED  BY <1>2, <1>3, <1>4 DEF adopted

LEMMA TreeGenHides ==
  ASSUME NEW list, Listing(list), NEW matching, NEW asks, NEW update
  PROVE  TreeGen(list, matching, asks, update).hidden \in Nat
<1> DEFINE filtering == Filtering(list, matching, asks)
           swallowed == Swallowed(list, matching, asks, update)
<1>1. filtering \in SUBSET Pids /\ swallowed \in SUBSET Pids
  BY DEF Filtering, Swallowed, Buried, Reached, Listing
<1> HIDE DEF filtering, swallowed
<1>2. IsFiniteSet(filtering) /\ IsFiniteSet(swallowed)
  BY <1>1, FS_Subset, ProcListAssumption
<1>3. Cardinality(filtering) \in Nat /\ Cardinality(swallowed) \in Nat
  BY <1>2, FS_CardinalityType
<1>4. TreeGen(list, matching, asks, update).hidden
        = Cardinality(filtering) + Cardinality(swallowed)
  BY TreeGenParts DEF filtering, swallowed
<1> QED  BY <1>3, <1>4

\* What sorting, filtering and the tree leave is counted, if what they began
\* with is a fresh list or was.
LEMMA ArrangeCounts ==
  ASSUME NEW list, Listing(list), NEW s, NEW alive, NEW update,
         NEW resorted, NEW fold, muddled \in BOOLEAN, filterFound \in Nat,
         Arrange(list, s, alive, update, resorted, fold), TakeNote(s),
         ~ On(update) => list = entries /\ OpenInv /\ HiddenInv
  PROVE  /\ Listing(entries')
         /\ muddled' \in BOOLEAN
         /\ filterFound' \in Nat
         /\ numpids' = Cardinality(DOMAIN entries') - filterFound'
         /\ OpenInv'
         /\ HiddenInv'
<1> DEFINE should == update \/ s.filter # procFilter
           passed == FilterPass(list, s, should)
           counted == IF should THEN Cardinality(Hidden(passed)) ELSE filterFound
           grows == s.tree /\ (should \/ resorted)
           tree == Adopted(Folded(passed, fold), s, alive)
           asks == should \/ s.filter # NoFilter
           grown == TreeGen(tree, Matching(s), asks, update).list
           hidden == TreeGen(tree, Matching(s), asks, update).hidden
           found == IF grows THEN (IF asks THEN 0 ELSE counted) + hidden ELSE counted
<1>1. /\ entries' = IF grows THEN grown ELSE passed
      /\ filterFound' = found
      /\ numpids' = Cardinality(DOMAIN list) - found
      /\ muddled' = IF update THEN muddled /\ s.paused
                    ELSE \/ muddled
                         \/ grows /\ \E p \in DOMAIN tree : tree[p].collapsed \/ list[p].collapsed
  BY DEF Arrange
<1>2. muddled' \in BOOLEAN
  BY <1>1 DEF On
<1>3. /\ should \in BOOLEAN /\ asks \in BOOLEAN
      /\ On(update) => should = TRUE
      /\ should = TRUE => asks = TRUE
      /\ should = FALSE => s.filter = procFilter
      /\ asks = FALSE => s.filter = NoFilter
      /\ asks = TRUE <=> On(asks)
  BY DEF On
<1>4. /\ DOMAIN passed = DOMAIN list
      /\ Listing(passed)
      /\ \A p \in DOMAIN list :
           should = TRUE => (passed[p].filtered <=> ~ s.tree /\ p \notin Matching(s))
      /\ should = FALSE => passed = list
  <2> HIDE DEF should
  <2> QED  BY <1>3, FilterPassList
<1>5. /\ DOMAIN tree = DOMAIN list
      /\ Listing(tree)
      /\ \A p \in DOMAIN list : tree[p].filtered = passed[p].filtered
  <2> HIDE DEF passed
  <2>1. /\ DOMAIN Folded(passed, fold) = DOMAIN list
        /\ Listing(Folded(passed, fold))
        /\ \A p \in DOMAIN list : Folded(passed, fold)[p].filtered = passed[p].filtered
    BY <1>4, FoldedList
  <2> QED  BY <2>1, AdoptedList
<1> HIDE DEF should, passed, tree, asks
<1>6. /\ DOMAIN grown = DOMAIN list
      /\ Listing(grown)
      /\ \A p \in DOMAIN list : grown[p].collapsed = tree[p].collapsed
  BY <1>5, TreeGenList
<1>7. Through' = Matching(s) /\ procFilter' = s.filter
  BY DEF Through, TakeNote, Matching
<1>8. counted \in Nat /\ Cardinality(Hidden(passed)) \in Nat
  BY <1>3, <1>4, HiddenFinite
<1>9. CASE ~ grows
  <2>1. entries' = passed /\ filterFound' = counted /\ numpids' = Cardinality(DOMAIN list) - counted
    BY <1>1, <1>9
  <2>2. CASE should = TRUE
    <3>1. ~ s.tree /\ counted = Cardinality(Hidden(passed))
      BY <1>9, <2>2
    <3>2. \A p \in DOMAIN passed : passed[p].filtered => p \notin Matching(s)
      BY <1>4, <2>2, <3>1
    <3>3. s.filter = NoFilter => counted = 0
      <4>1. s.filter = NoFilter => Hidden(passed) = {}
        BY <1>4, <3>2 DEF Hidden, Matching, Listing
      <4> QED  BY <3>1, <4>1, FS_EmptySet
    <3>4. OpenInv'
      BY <1>7, <2>1, <3>2, <3>3 DEF OpenInv
    <3>5. HiddenInv'
      BY <2>1, <3>1 DEF HiddenInv
    <3> QED  BY <1>2, <1>4, <1>8, <2>1, <3>4, <3>5
  <2>3. CASE should = FALSE
    <3>1. list = entries /\ OpenInv /\ HiddenInv /\ passed = list
      BY <1>3, <1>4, <2>3
    <3>2. counted = filterFound /\ muddled' = muddled
      BY <1>1, <1>3, <1>9, <2>3 DEF On
    <3>3. Through' = Through /\ procFilter' = procFilter
      BY <1>3, <1>7, <2>3 DEF Through, Matching
    <3>4. entries' = entries /\ filterFound' = filterFound
      BY <2>1, <3>1, <3>2
    <3>5. OpenInv'
      BY <3>1, <3>2, <3>3, <3>4 DEF OpenInv
    <3>6. HiddenInv'
      BY <3>1, <3>2, <3>4 DEF HiddenInv
    <3> QED  BY <1>2, <1>4, <1>8, <2>1, <3>5, <3>6
  <2> QED  BY <1>3, <2>2, <2>3
<1>10. CASE grows
  <2>1. /\ entries' = grown /\ filterFound' = found
        /\ found = (IF asks THEN 0 ELSE counted) + hidden
        /\ numpids' = Cardinality(DOMAIN list) - found
    BY <1>1, <1>10
  <2>2. hidden \in Nat
    BY <1>5, TreeGenHides
  <2>3. \A p \in DOMAIN tree : should = TRUE => ~ tree[p].filtered
    BY <1>4, <1>5, <1>10
  <2>4. ASSUME ~ muddled', Uncollapsed(tree)
        PROVE  /\ \A p \in DOMAIN tree : tree[p].filtered => p \notin Matching(s)
               /\ asks = FALSE => filterFound = 0 /\ counted = 0
    <3>1. CASE should = TRUE
      BY <1>3, <2>3, <3>1
    <3>2. CASE should = FALSE
      <4>1. ~ On(update) /\ list = entries /\ OpenInv /\ passed = list /\ counted = filterFound
        BY <1>3, <1>4, <3>2
      <4>2. ~ muddled /\ Uncollapsed(list)
        BY <1>1, <1>5, <1>10, <2>4, <4>1 DEF Uncollapsed, On
      <4>3. /\ \A p \in DOMAIN entries : entries[p].filtered => p \notin Through
            /\ procFilter = NoFilter => filterFound = 0
        BY <4>1, <4>2 DEF OpenInv
      <4>4. Through = Matching(s) /\ procFilter = s.filter
        BY <1>3, <3>2 DEF Through, Matching
      <4> QED  BY <1>3, <1>5, <4>1, <4>3, <4>4
    <3> QED  BY <1>3, <3>1, <3>2
  \* With no branch collapsed, the filter alone hides.
  <2>5. ASSUME ~ muddled', Uncollapsed(tree)
        PROVE  /\ hidden = Cardinality(Filtering(tree, Matching(s), asks))
               /\ Filtering(tree, Matching(s), asks) \subseteq DOMAIN tree \ Matching(s)
               /\ ~ On(asks) => Filtering(tree, Matching(s), asks) = {}
               /\ \A p \in DOMAIN grown : grown[p].filtered => p \notin Matching(s)
               /\ On(asks) /\ Reached(grown) = DOMAIN grown
                    => Hidden(grown) = Filtering(tree, Matching(s), asks)
    <3>1. \A p \in DOMAIN tree : tree[p].filtered => p \notin Matching(s)
      BY <2>4, <2>5
    <3>2. Listing(tree) /\ Uncollapsed(tree)
      BY <1>5, <2>5
    <3>3. grown = TreeGen(tree, Matching(s), asks, update).list
      OBVIOUS
    <3>4. hidden = TreeGen(tree, Matching(s), asks, update).hidden
      OBVIOUS
    <3> HIDE DEF grown, hidden
    <3> QED  BY <3>1, <3>2, <3>3, <3>4, OpenCounts
  <2>6. Uncollapsed(grown) => Uncollapsed(tree)
    BY <1>5, <1>6 DEF Uncollapsed
  <2>7. s.filter = NoFilter => Matching(s) = Pids
    BY DEF Matching
  <2> HIDE DEF counted, grown, hidden, found, grows
  <2>8. OpenInv'
    <3> SUFFICES ASSUME ~ muddled', Uncollapsed(grown)
                 PROVE  /\ \A p \in DOMAIN grown : grown[p].filtered => p \notin Matching(s)
                        /\ s.filter = NoFilter => found = 0
      BY <1>7, <2>1 DEF OpenInv
    <3>1. s.filter = NoFilter => hidden = 0
      <4>1. s.filter = NoFilter => Filtering(tree, Matching(s), asks) = {}
        BY <1>5, <2>5, <2>6, <2>7 DEF Listing
      <4> QED  BY <2>5, <2>6, <4>1, FS_EmptySet
    <3>2. s.filter = NoFilter => found = 0
      <4>1. CASE asks = TRUE
        BY <2>1, <3>1, <4>1
      <4>2. CASE asks = FALSE
        <5>1. counted = 0
          BY <2>4, <2>6, <4>2
        <5>2. found = counted + hidden
          BY <2>1, <4>2
        <5> QED  BY <3>1, <5>1, <5>2
      <4> QED  BY <1>3, <4>1, <4>2
    <3> QED  BY <2>5, <2>6, <3>2
  <2>9. HiddenInv'
    <3> SUFFICES ASSUME ~ muddled', HiddenOpen(grown), Reached(grown) = DOMAIN grown
                 PROVE  found = Cardinality(Hidden(grown))
      BY <2>1 DEF HiddenInv
    <3>0. HiddenOpen(grown) /\ Reached(grown) = DOMAIN grown
      OBVIOUS
    <3>1. CASE On(update)
      <4>1. On(asks) /\ On(update) /\ asks = TRUE /\ should = TRUE
        BY <1>3, <3>1
      <4>2. \A p \in DOMAIN tree : ~ tree[p].filtered
        BY <2>3, <4>1
      <4>3. hidden = Cardinality(Hidden(grown))
        <5>1. /\ grown = TreeGen(tree, Matching(s), asks, update).list
              /\ hidden = TreeGen(tree, Matching(s), asks, update).hidden
          BY DEF grown, hidden
        <5>2. Listing(tree) /\ On(asks) /\ On(update)
          BY <1>5, <4>1
        <5> QED  BY <3>0, <4>2, <5>1, <5>2, UpdateCounts
      <4>4. asks = TRUE
        BY <4>1
      <4> QED  BY <2>1, <2>2, <4>3, <4>4
    <3>2. CASE ~ On(update)
      <4>1. Uncollapsed(tree)
        BY <1>1, <1>10, <3>2 DEF Uncollapsed, On
      <4>2. CASE asks = TRUE
        BY <1>3, <2>1, <2>2, <2>5, <4>1, <4>2
      <4>3. CASE asks = FALSE
        <5>1. hidden = 0 /\ counted = 0 /\ Matching(s) = Pids
          BY <1>3, <2>4, <2>5, <2>7, <4>1, <4>3, FS_EmptySet
        <5>2. Hidden(grown) = {}
          BY <1>6, <2>5, <4>1, <5>1 DEF Hidden, Listing
        <5>3. found = 0
          BY <2>1, <4>3, <5>1
        <5> QED  BY <5>2, <5>3, FS_EmptySet
      <4> QED  BY <1>3, <4>2, <4>3
    <3> QED  BY <3>1, <3>2
  <2> QED  BY <1>2, <1>6, <1>8, <2>1, <2>2, <2>8, <2>9
<1> QED  BY <1>9, <1>10

LEMMA CollectAllCounts ==
  ASSUME CountInv, CollectAll
  PROVE  CountInv'
<1>1. PICK s \in Settings, system \in Systems : \E fold \in Folds(s) :
        LET alive == DOMAIN system
            known == MapAfterRead(system, s)
            kept == IF s.paused THEN known ELSE [p \in alive |-> known[p]]
        IN  /\ procMap' = kept
            /\ Arrange([p \in DOMAIN kept |-> Entry(kept[p])], s, alive, TRUE, FALSE, fold)
            /\ TakeNote(s)
  BY DEF CollectAll
<1> DEFINE alive == DOMAIN system
           known == MapAfterRead(system, s)
           kept == IF s.paused THEN known ELSE [p \in alive |-> known[p]]
           list == [p \in DOMAIN kept |-> Entry(kept[p])]
<1>2. PICK fold \in Folds(s) : /\ procMap' = kept
                               /\ Arrange(list, s, alive, TRUE, FALSE, fold)
                               /\ TakeNote(s)
  BY <1>1
<1>3. DOMAIN kept \subseteq Pids
  BY ProcListAssumption DEF CountInv, MapAfterRead
<1>4. Listing(list)
  <2> HIDE DEF kept
  <2> QED  BY <1>3 DEF Listing, Entry
<1>5. muddled \in BOOLEAN /\ filterFound \in Nat
  BY DEF CountInv
<1> HIDE DEF list, kept, alive
<1>6. /\ Listing(entries')
      /\ muddled' \in BOOLEAN
      /\ filterFound' \in Nat
      /\ numpids' = Cardinality(DOMAIN entries') - filterFound'
      /\ OpenInv'
      /\ HiddenInv'
  <2> DEFINE update == TRUE
             resorted == FALSE
  <2>1. On(update) /\ Arrange(list, s, alive, update, resorted, fold)
    BY <1>2 DEF On
  <2> HIDE DEF update, resorted
  <2> QED  BY <1>2, <1>4, <1>5, <2>1, ArrangeCounts
<1> QED  BY <1>2, <1>3, <1>6 DEF CountInv

LEMMA CountInvStep ==
  ASSUME CountInv, [ProcListNext]_procListVars
  PROVE  CountInv'
<1>1. CASE CollectAll
  BY <1>1, CollectAllCounts
<1>2. CASE CollectAgain
  <2>1. PICK s \in Settings, resorted \in BOOLEAN : \E fold \in Folds(s) :
          Arrange(entries, s, alivePids, FALSE, resorted, fold) /\ TakeNote(s)
    BY <1>2 DEF CollectAgain
  <2>2. PICK fold \in Folds(s) :
          Arrange(entries, s, alivePids, FALSE, resorted, fold) /\ TakeNote(s)
    BY <2>1
  <2>3. procMap' = procMap
    BY <1>2 DEF CollectAgain
  <2>4. Listing(entries) /\ muddled \in BOOLEAN /\ filterFound \in Nat /\ OpenInv /\ HiddenInv
    BY DEF CountInv
  <2>5. /\ Listing(entries')
        /\ muddled' \in BOOLEAN
        /\ filterFound' \in Nat
        /\ numpids' = Cardinality(DOMAIN entries') - filterFound'
        /\ OpenInv'
        /\ HiddenInv'
    <3> DEFINE update == FALSE
    <3>1. Arrange(entries, s, alivePids, update, resorted, fold)
      BY <2>2
    <3> HIDE DEF update
    <3> QED  BY <2>2, <2>4, <3>1, ArrangeCounts
  <2> QED  BY <2>3, <2>5 DEF CountInv
<1>3. CASE CollectStopped
  <2>1. muddled' = TRUE /\ UNCHANGED <<entries, filterFound, numpids>>
    BY <1>3 DEF CollectStopped
  <2>2. DOMAIN procMap' \subseteq Pids
    <3>1. PICK s \in Settings, S \in {{p \in DOMAIN f : p <= upTo} : f \in Systems, upTo \in Pids} :
            /\ alivePids' = S
            /\ procMap' = [p \in DOMAIN procMap \cup (IF s.paused THEN {} ELSE S) |->
                             IF p \in DOMAIN procMap THEN procMap[p] ELSE 0]
            /\ TakeNote(s)
      BY <1>3 DEF CollectStopped
    <3>2. S \subseteq Pids
      BY ProcListAssumption
    <3> QED  BY <3>1, <3>2 DEF CountInv
  <2> QED  BY <2>1, <2>2 DEF CountInv, OpenInv, HiddenInv
<1>4. CASE UNCHANGED procListVars
  BY <1>4 DEF procListVars, CountInv, OpenInv, HiddenInv, Through
<1> QED
  BY <1>1, <1>2, <1>3, <1>4 DEF ProcListNext

LEMMA CountInvInit == ProcListInit => CountInv
<1> SUFFICES ASSUME ProcListInit PROVE CountInv
  OBVIOUS
<1>1. DOMAIN entries = {} /\ DOMAIN procMap = {} /\ filterFound = 0 /\ numpids = 0 /\ muddled = FALSE
  BY DEF ProcListInit
<1>2. Listing(entries)
  BY <1>1 DEF Listing, ProcListInit
<1>3. Hidden(entries) = {}
  BY <1>1 DEF Hidden
<1>4. OpenInv /\ HiddenInv
  BY <1>1, <1>3, FS_EmptySet DEF OpenInv, HiddenInv
<1>5. Cardinality(DOMAIN entries) = 0
  BY <1>1, FS_EmptySet
<1>6. DOMAIN procMap \subseteq Pids /\ muddled \in BOOLEAN /\ filterFound \in Nat
  BY <1>1
<1>7. numpids = Cardinality(DOMAIN entries) - filterFound
  BY <1>1, <1>5
<1> QED  BY <1>2, <1>4, <1>6, <1>7 DEF CountInv

\* The number below the box of processes is the number of its rows: with a
\* filter, in the tree, with branches collapsed, whoever starts, ends or is
\* adopted, except where ShownCounted says so.  (Proc::collect, _tree_gen)
THEOREM RowsAreCounted == ProcListSpec => []ShownCounted
<1>1. CountInv => ShownCounted
  <2> SUFFICES ASSUME CountInv, ~ muddled, \A p \in Hidden(entries) : ~ entries[p].collapsed,
                      Reached(entries) = DOMAIN entries
               PROVE  numpids = Cardinality(Rows)
    BY DEF ShownCounted
  <2>1. filterFound = Cardinality(Hidden(entries))
    BY DEF CountInv, HiddenInv, HiddenOpen
  <2>2. /\ IsFiniteSet(DOMAIN entries) /\ IsFiniteSet(Hidden(entries))
        /\ Cardinality(DOMAIN entries) \in Nat /\ Cardinality(Hidden(entries)) \in Nat
    BY HiddenFinite DEF CountInv
  <2>3. Rows \in SUBSET DOMAIN entries /\ Rows \cap Hidden(entries) = {}
        /\ Rows \cup Hidden(entries) = DOMAIN entries
    BY DEF Rows, Hidden
  <2>4. IsFiniteSet(Rows)
    BY <2>2, <2>3, FS_Subset
  <2>5. Cardinality(Rows) \in Nat
    BY <2>4, FS_CardinalityType
  <2>6. Cardinality(Rows \cup Hidden(entries))
          = Cardinality(Rows) + Cardinality(Hidden(entries)) - Cardinality(Rows \cap Hidden(entries))
    BY <2>2, <2>4, FS_Union
  <2>7. Cardinality(DOMAIN entries) = Cardinality(Rows) + Cardinality(Hidden(entries))
    <3>1. Cardinality(Rows \cap Hidden(entries)) = 0
      BY <2>3, FS_EmptySet
    <3> QED  BY <2>2, <2>3, <2>5, <2>6, <3>1
  <2> QED  BY <2>1, <2>2, <2>5, <2>7 DEF CountInv
<1> QED
  BY <1>1, CountInvInit, CountInvStep, PTL DEF ProcListSpec

---------------------------------------------------------------------------
(* History: the graph, for all samples, capacities and widths.             *)

\* The loop of _create() has the rounds it is written with.
LEMMA RoundsAre ==
  ASSUME NEW g, NEW s, NEW offset \in Int, NEW mult, Len(s) - offset \in Nat
  PROVE  LET after == Rounds(g, s, offset, mult)
         IN  /\ after[0] = g
             /\ \A k \in 1 .. Len(s) - offset : after[k] = Plot(after[k - 1], s, offset + k - 1, mult)
<1> DEFINE n == Len(s) - offset
           Is(f, m) == f = [k \in 0 .. m |-> IF k = 0 THEN g
                                             ELSE Plot(f[k - 1], s, offset + k - 1, mult)]
           Fails == {m \in Nat : ~ \E f : Is(f, m)}
<1>1. Fails = {}
  <2> SUFFICES ASSUME Fails # {} PROVE FALSE
    OBVIOUS
  <2>1. Fails \subseteq Nat
    OBVIOUS
  <2>2. PICK m \in Fails : \A l \in Fails : m <= l
    <3> HIDE DEF Fails
    <3> QED  BY <2>1, LeastNatural
  <2>3. m \in Nat /\ ~ \E f : Is(f, m)
    OBVIOUS
  <2>4. CASE m = 0
    <3>1. Is([k \in 0 .. 0 |-> g], 0)
      OBVIOUS
    <3> QED  BY <2>3, <2>4, <3>1
  <2>5. CASE m > 0
    <3>1. m - 1 \in Nat /\ m - 1 \notin Fails
      <4> HIDE DEF Fails
      <4> QED  BY <2>2, <2>3, <2>5
    <3>2. PICK f : Is(f, m - 1)
      BY <3>1
    <3> DEFINE h == [k \in 0 .. m |-> IF k = m THEN Plot(f[m - 1], s, offset + m - 1, mult) ELSE f[k]]
    <3>3. Is(h, m)
      <4>1. \A k \in 0 .. m - 1 : f[k] = IF k = 0 THEN g ELSE Plot(f[k - 1], s, offset + k - 1, mult)
        BY <3>2
      <4>2. ASSUME NEW k \in 0 .. m
            PROVE  h[k] = IF k = 0 THEN g ELSE Plot(h[k - 1], s, offset + k - 1, mult)
        <5>1. CASE k = m
          <6>1. h[k] = Plot(f[m - 1], s, offset + m - 1, mult) /\ h[k - 1] = f[m - 1]
            BY <2>3, <2>5, <5>1
          <6> QED  BY <2>5, <5>1, <6>1
        <5>2. CASE k # m /\ k # 0
          <6>1. h[k] = f[k] /\ h[k - 1] = f[k - 1] /\ k \in 0 .. m - 1
            BY <2>3, <5>2
          <6> QED  BY <4>1, <5>2, <6>1
        <5>3. CASE k = 0 /\ k # m
          BY <2>3, <4>1, <5>3
        <5> QED  BY <5>1, <5>2, <5>3
      <4>3. h = [k \in 0 .. m |-> h[k]]
        OBVIOUS
      <4> HIDE DEF h
      <4> QED  BY <4>2, <4>3
    <3> QED  BY <2>3, <3>3
  <2> QED  BY <2>3, <2>4, <2>5
<1>2. \E f : Is(f, n)
  BY <1>1
<1>3. Is(Rounds(g, s, offset, mult), n)
  BY <1>2 DEF Rounds
<1> HIDE DEF Fails
<1> QED  BY <1>3

---------------------------------------------------------------------------
(* One round.                                                              *)

Character == Samples \X Samples

GraphType ==
  [tty : BOOLEAN, width : Nat, current : BOOLEAN, last : Samples,
   cols : [BOOLEAN -> Seq(Character)], newest : Samples \cup {-1}, out : Seq(Character)]

\* The sample of a place in the series, the places before it blank, and what
\* a character that ends at it shows.
SampleAt(s, i) == IF i > 0 THEN s[i] ELSE 0
Pairing(s, i) == <<SampleAt(s, i - 1), SampleAt(s, i)>>

LEMMA SampleAtType ==
  ASSUME NEW s \in Seq(Samples), NEW i \in Int, i <= Len(s)
  PROVE  SampleAt(s, i) \in Samples
BY SamplesAssumption DEF SampleAt

Turned(g, mult) == IF ~ g.tty /\ mult THEN ~ g.current ELSE g.current

Added(cols, side, x) == [cols EXCEPT ![side] = Append(@, x)]
LeftOf(g, i) == IF i < 0 THEN 0 ELSE g.last

LEMMA PlotIs ==
  ASSUME NEW g \in GraphType, NEW s \in Seq(Samples), NEW i \in -1 .. Len(s) - 1, NEW mult,
         NEW h, h = Plot(g, s, i, mult)
  PROVE  /\ h \in GraphType
         /\ h.tty = g.tty /\ h.width = g.width /\ h.newest = g.newest
         /\ h.current = Turned(g, mult)
         /\ h.cols = Added(g.cols, Turned(g, mult), <<LeftOf(g, i), SampleAt(s, i + 1)>>)
         /\ h.last = IF i < 0 THEN 0 ELSE IF mult THEN SampleAt(s, i + 1) ELSE g.last
<1> DEFINE left == IF i < 0 THEN 0 ELSE g.last
           value == IF i < 0 THEN 0 ELSE s[i + 1]
           side == Turned(g, mult)
           cols == [g.cols EXCEPT ![side] = Append(@, <<left, value>>)]
<1>1. h = [g EXCEPT !.current = side, !.cols[side] = Append(@, <<left, value>>),
                    !.last = IF mult /\ i >= 0 THEN value ELSE left]
  BY DEF Plot, Turned
<1>2. left \in Samples /\ value \in Samples /\ side \in BOOLEAN
  <2>1. left \in Samples /\ value \in Samples
    BY SamplesAssumption DEF GraphType
  <2>2. g.current \in BOOLEAN
    BY DEF GraphType
  <2> QED  BY <2>1, <2>2, Zenon DEF Turned
<1>3. value = SampleAt(s, i + 1)
  BY DEF SampleAt
<1>4. cols \in [BOOLEAN -> Seq(Character)]
  <2>1. <<left, value>> \in Character
    BY <1>2 DEF Character
  <2>2. g.cols \in [BOOLEAN -> Seq(Character)]
    BY DEF GraphType
  <2> HIDE DEF left, value, side
  <2>3. Append(g.cols[side], <<left, value>>) \in Seq(Character)
    BY <1>2, <2>1, <2>2, AppendProperties
  <2> QED  BY <1>2, <2>2, <2>3
<1> HIDE DEF side
<1>5. h = [tty |-> g.tty, width |-> g.width, current |-> side,
           last |-> IF mult /\ i >= 0 THEN value ELSE left,
           cols |-> cols, newest |-> g.newest, out |-> g.out]
  BY <1>1 DEF GraphType
<1> HIDE DEF cols, left, value
<1>6. h \in GraphType
  BY <1>2, <1>4, <1>5 DEF GraphType
<1>7. /\ h.tty = g.tty /\ h.width = g.width /\ h.newest = g.newest
      /\ h.current = side /\ h.cols = cols
      /\ h.last = IF mult /\ i >= 0 THEN value ELSE left
  BY <1>5
<1>8. h.last = IF i < 0 THEN 0 ELSE IF mult THEN SampleAt(s, i + 1) ELSE g.last
  BY <1>3, <1>7 DEF left
<1>9. h.cols = Added(g.cols, side, <<LeftOf(g, i), SampleAt(s, i + 1)>>)
  BY <1>3, <1>7 DEF cols, left, Added, LeftOf
<1> QED  BY <1>6, <1>7, <1>8, <1>9 DEF side

---------------------------------------------------------------------------
(* The two sides of a graph, read from the right.                          *)

FrontSide(g) == g.cols[g.current]
BackSide(g) == g.cols[~ g.current]
FromRight(q, j) == q[Len(q) - j + 1]

LEMMA SidesType ==
  ASSUME NEW g \in GraphType
  PROVE  FrontSide(g) \in Seq(Character) /\ BackSide(g) \in Seq(Character)
BY DEF GraphType, FrontSide, BackSide

LEMMA AppendReads ==
  ASSUME NEW q \in Seq(Character), NEW x \in Character
  PROVE  /\ Append(q, x) \in Seq(Character)
         /\ Len(Append(q, x)) = Len(q) + 1
         /\ FromRight(Append(q, x), 1) = x
         /\ \A j \in 2 .. Len(q) + 1 : FromRight(Append(q, x), j) = FromRight(q, j - 1)
BY DEF FromRight

LEMMA TailReads ==
  ASSUME NEW q \in Seq(Character), q # <<>>
  PROVE  /\ Tail(q) \in Seq(Character)
         /\ Len(Tail(q)) = Len(q) - 1
         /\ \A j \in 1 .. Len(q) - 1 : FromRight(Tail(q), j) = FromRight(q, j)
BY DEF FromRight

\* A round of _create() with the sides turned, and one with them left alone.
LEMMA PlotSides ==
  ASSUME NEW g \in GraphType, NEW s \in Seq(Samples), NEW i \in -1 .. Len(s) - 1, NEW mult,
         NEW h, h = Plot(g, s, i, mult),
         NEW x, x = <<LeftOf(g, i), SampleAt(s, i + 1)>>
  PROVE  /\ h \in GraphType /\ x \in Character
         /\ h.tty = g.tty /\ h.width = g.width /\ h.newest = g.newest
         /\ On(mult) => h.last = IF i < 0 THEN 0 ELSE SampleAt(s, i + 1)
         /\ ~ g.tty /\ On(mult) => FrontSide(h) = Append(BackSide(g), x) /\ BackSide(h) = FrontSide(g)
         /\ g.tty => FrontSide(h) = Append(FrontSide(g), x) /\ BackSide(h) = BackSide(g)
<1>1. /\ h \in GraphType
      /\ h.tty = g.tty /\ h.width = g.width /\ h.newest = g.newest
      /\ h.current = Turned(g, mult)
      /\ h.cols = Added(g.cols, Turned(g, mult), <<LeftOf(g, i), SampleAt(s, i + 1)>>)
      /\ h.last = IF i < 0 THEN 0 ELSE IF mult THEN SampleAt(s, i + 1) ELSE g.last
  BY PlotIs
<1>2. SampleAt(s, i + 1) \in Samples /\ g.last \in Samples /\ 0 \in Samples
  BY SampleAtType, SamplesAssumption DEF GraphType
<1>3. x \in Character
  BY <1>2 DEF Character, LeftOf
<1>4. g.cols \in [BOOLEAN -> Seq(Character)] /\ g.current \in BOOLEAN /\ g.tty \in BOOLEAN
  BY DEF GraphType
<1>7. ASSUME On(mult) PROVE h.last = IF i < 0 THEN 0 ELSE SampleAt(s, i + 1)
  BY <1>1, <1>7 DEF On
<1>5. ASSUME ~ g.tty /\ On(mult) PROVE FrontSide(h) = Append(BackSide(g), x) /\ BackSide(h) = FrontSide(g)
  <2>1. h.current = ~ g.current /\ h.cols = [g.cols EXCEPT ![~ g.current] = Append(@, x)]
    BY <1>1, <1>5 DEF Turned, Added, On
  <2> QED  BY <1>4, <2>1 DEF FrontSide, BackSide
<1>6. ASSUME g.tty PROVE FrontSide(h) = Append(FrontSide(g), x) /\ BackSide(h) = BackSide(g)
  <2>1. h.current = g.current /\ h.cols = [g.cols EXCEPT ![g.current] = Append(@, x)]
    BY <1>1, <1>6 DEF Turned, Added
  <2> QED  BY <1>4, <2>1 DEF FrontSide, BackSide
<1> QED  BY <1>1, <1>3, <1>5, <1>6, <1>7

---------------------------------------------------------------------------
(* The loop of _create().                                                  *)

\* Both sides show the series up to place e, two places for a character; in
\* tty mode one place for each.
Aligned(g, s, e) ==
  IF g.tty
  THEN \A j \in 1 .. Len(FrontSide(g)) : FromRight(FrontSide(g), j) = Pairing(s, e - j + 1)
  ELSE /\ \A j \in 1 .. Len(FrontSide(g)) : FromRight(FrontSide(g), j) = Pairing(s, e - 2 * j + 2)
       /\ \A j \in 1 .. Len(BackSide(g)) : FromRight(BackSide(g), j) = Pairing(s, e - 2 * j + 1)

\* The two sides take turns.
InTurn(g) == Len(FrontSide(g)) - Len(BackSide(g)) \in 0 .. 1
Entries(g) == IF g.tty THEN Len(FrontSide(g)) ELSE Len(FrontSide(g)) + Len(BackSide(g))

LEMMA RoundKeeps ==
  ASSUME NEW g \in GraphType, NEW s \in Seq(Samples), NEW e \in -1 .. Len(s) - 1, NEW mult, On(mult),
         g.last = SampleAt(s, e), Aligned(g, s, e), ~ g.tty => InTurn(g),
         NEW h, h = Plot(g, s, e, mult)
  PROVE  /\ h \in GraphType
         /\ h.tty = g.tty /\ h.width = g.width /\ h.newest = g.newest
         /\ h.last = SampleAt(s, e + 1)
         /\ Aligned(h, s, e + 1)
         /\ ~ g.tty => InTurn(h)
         /\ Entries(h) = Entries(g) + 1
<1> DEFINE x == <<LeftOf(g, e), SampleAt(s, e + 1)>>
<1>0. x = <<LeftOf(g, e), SampleAt(s, e + 1)>> /\ x = Pairing(s, e + 1)
  BY DEF Pairing, LeftOf, SampleAt
<1>7. e \in Int /\ (e < 0 => ~ e + 1 > 0)
  OBVIOUS
<1> HIDE DEF x
<1>1. /\ h \in GraphType /\ x \in Character
      /\ h.tty = g.tty /\ h.width = g.width /\ h.newest = g.newest
      /\ h.last = IF e < 0 THEN 0 ELSE SampleAt(s, e + 1)
      /\ ~ g.tty => FrontSide(h) = Append(BackSide(g), x) /\ BackSide(h) = FrontSide(g)
      /\ g.tty => FrontSide(h) = Append(FrontSide(g), x) /\ BackSide(h) = BackSide(g)
  BY <1>0, PlotSides
<1>2. h.last = SampleAt(s, e + 1)
  <2>1. CASE e < 0
    BY <1>1, <1>7, <2>1 DEF SampleAt
  <2>2. CASE ~ e < 0
    BY <1>1, <2>2
  <2> QED  BY <2>1, <2>2
<1>3. x = Pairing(s, e + 1)
  BY <1>0
<1>4. /\ FrontSide(g) \in Seq(Character) /\ BackSide(g) \in Seq(Character)
      /\ Len(FrontSide(g)) \in Nat /\ Len(BackSide(g)) \in Nat
  BY SidesType
<1> DEFINE F == FrontSide(g)
           B == BackSide(g)
<1>5. CASE g.tty
  <2>1. \A j \in 1 .. Len(F) : FromRight(F, j) = Pairing(s, e - j + 1)
    BY <1>5 DEF Aligned
  <2>2. FrontSide(h) = Append(F, x)
    BY <1>1, <1>5
  <2> HIDE DEF F, B
  <2>3. /\ Len(Append(F, x)) = Len(F) + 1
        /\ FromRight(Append(F, x), 1) = x
        /\ \A j \in 2 .. Len(F) + 1 : FromRight(Append(F, x), j) = FromRight(F, j - 1)
    BY <1>1, <1>4, AppendReads DEF F
  <2>4. ASSUME NEW j \in 1 .. Len(F) + 1
        PROVE  FromRight(Append(F, x), j) = Pairing(s, (e + 1) - j + 1)
    <3>0. Len(F) \in Nat
      BY <1>4 DEF F
    <3>1. CASE j = 1
      BY <1>3, <2>3, <3>1
    <3>2. CASE j # 1
      <4>1. j - 1 \in 1 .. Len(F) /\ j \in 2 .. Len(F) + 1
        BY <3>0, <3>2
      <4>2. FromRight(F, j - 1) = Pairing(s, e - (j - 1) + 1)
        BY <2>1, <4>1
      <4>3. e - (j - 1) + 1 = (e + 1) - j + 1
        OBVIOUS
      <4> QED  BY <2>3, <4>1, <4>2, <4>3
    <3> QED  BY <3>1, <3>2
  <2>5. h.tty
    BY <1>1, <1>5
  <2>6. Aligned(h, s, e + 1)
    BY <2>2, <2>3, <2>4, <2>5 DEF Aligned
  <2>7. Entries(h) = Entries(g) + 1
    BY <1>5, <2>2, <2>3, <2>5 DEF Entries, F
  <2> QED  BY <1>1, <1>2, <1>5, <2>6, <2>7
<1>6. CASE ~ g.tty
  <2>1. /\ \A j \in 1 .. Len(F) : FromRight(F, j) = Pairing(s, e - 2 * j + 2)
        /\ \A j \in 1 .. Len(B) : FromRight(B, j) = Pairing(s, e - 2 * j + 1)
    BY <1>6 DEF Aligned
  <2>2. FrontSide(h) = Append(B, x) /\ BackSide(h) = F
    BY <1>1, <1>6
  <2>0. Len(F) \in Nat /\ Len(B) \in Nat
    BY <1>4
  <2>8. Len(F) - Len(B) \in 0 .. 1
    BY <1>6 DEF InTurn
  <2> HIDE DEF F, B
  <2>3. /\ Len(Append(B, x)) = Len(B) + 1
        /\ FromRight(Append(B, x), 1) = x
        /\ \A j \in 2 .. Len(B) + 1 : FromRight(Append(B, x), j) = FromRight(B, j - 1)
    BY <1>1, <1>4, AppendReads DEF B
  <2>4. ASSUME NEW j \in 1 .. Len(B) + 1
        PROVE  FromRight(Append(B, x), j) = Pairing(s, (e + 1) - 2 * j + 2)
    <3>1. CASE j = 1
      <4>1. (e + 1) - 2 * j + 2 = e + 1
        BY <3>1
      <4> QED  BY <1>3, <2>3, <3>1, <4>1
    <3>2. CASE j # 1
      <4>1. j - 1 \in 1 .. Len(B) /\ j \in 2 .. Len(B) + 1
        BY <2>0, <3>2
      <4>2. FromRight(B, j - 1) = Pairing(s, e - 2 * (j - 1) + 1)
        BY <2>1, <4>1
      <4>3. e - 2 * (j - 1) + 1 = (e + 1) - 2 * j + 2
        OBVIOUS
      <4> QED  BY <2>3, <4>1, <4>2, <4>3
    <3> QED  BY <3>1, <3>2
  <2>5. ~ h.tty
    BY <1>1, <1>6
  <2>9. ASSUME NEW j \in 1 .. Len(F)
        PROVE  FromRight(F, j) = Pairing(s, (e + 1) - 2 * j + 1)
    <3>1. e - 2 * j + 2 = (e + 1) - 2 * j + 1
      OBVIOUS
    <3> QED  BY <2>1, <3>1
  <2>6. Aligned(h, s, e + 1)
    BY <2>2, <2>3, <2>4, <2>5, <2>9 DEF Aligned
  <2>7. Entries(h) = Entries(g) + 1
    <3>1. Entries(h) = Len(Append(B, x)) + Len(F)
      BY <2>2, <2>5 DEF Entries
    <3>2. Entries(g) = Len(F) + Len(B)
      BY <1>6 DEF Entries, F, B
    <3>3. \A l, r \in Nat : (r + 1) + l = (l + r) + 1
      OBVIOUS
    <3> QED  BY <2>0, <2>3, <3>1, <3>2, <3>3
  <2>10. InTurn(h)
    <3>1. (Len(B) + 1) - Len(F) \in 0 .. 1
      BY <2>0, <2>8
    <3> QED  BY <2>2, <2>3, <3>1 DEF InTurn
  <2> QED  BY <1>1, <1>2, <2>6, <2>7, <2>10
<1> QED  BY <1>5, <1>6

\* All the rounds.
LEMMA RoundsKeep ==
  ASSUME NEW g \in GraphType, NEW s \in Seq(Samples), NEW offset \in -1 .. Len(s) - 1, NEW mult, On(mult),
         g.last = SampleAt(s, offset), Aligned(g, s, offset), ~ g.tty => InTurn(g),
         NEW h, h = Rounds(g, s, offset, mult)[Len(s) - offset]
  PROVE  /\ h \in GraphType
         /\ h.tty = g.tty /\ h.width = g.width /\ h.newest = g.newest
         /\ Aligned(h, s, Len(s))
         /\ ~ g.tty => InTurn(h)
         /\ Entries(h) = Entries(g) + (Len(s) - offset)
<1> DEFINE n == Len(s) - offset
           after == Rounds(g, s, offset, mult)
           Keeps(k) == /\ after[k] \in GraphType
                       /\ after[k].tty = g.tty /\ after[k].width = g.width
                       /\ after[k].newest = g.newest
                       /\ after[k].last = SampleAt(s, offset + k)
                       /\ Aligned(after[k], s, offset + k)
                       /\ ~ g.tty => InTurn(after[k])
                       /\ Entries(after[k]) = Entries(g) + k
           Fails == {k \in 0 .. n : ~ Keeps(k)}
<1>1. n \in Nat /\ offset \in Int /\ Len(s) \in Nat
  OBVIOUS
<1>2. /\ after[0] = g
      /\ \A k \in 1 .. n : after[k] = Plot(after[k - 1], s, offset + k - 1, mult)
  BY <1>1, RoundsAre
<1>3. Entries(g) \in Nat
  BY SidesType DEF Entries
<1> HIDE DEF after
<1>4. Keeps(0)
  <2>1. offset + 0 = offset /\ Entries(g) + 0 = Entries(g)
    BY <1>1, <1>3
  <2> QED  BY <1>2, <2>1
<1>5. ASSUME NEW k \in 1 .. n, Keeps(k - 1) PROVE Keeps(k)
  <2>1. offset + k - 1 \in -1 .. Len(s) - 1 /\ offset + (k - 1) = offset + k - 1
    BY <1>1
  <2>2. after[k - 1] \in GraphType /\ after[k] = Plot(after[k - 1], s, offset + k - 1, mult)
    BY <1>2, <1>5
  <2>3. /\ after[k - 1].last = SampleAt(s, offset + k - 1)
        /\ Aligned(after[k - 1], s, offset + k - 1)
        /\ ~ after[k - 1].tty => InTurn(after[k - 1])
    BY <1>5, <2>1
  <2>4. /\ after[k] \in GraphType
        /\ after[k].tty = after[k - 1].tty /\ after[k].width = after[k - 1].width
        /\ after[k].newest = after[k - 1].newest
        /\ after[k].last = SampleAt(s, (offset + k - 1) + 1)
        /\ Aligned(after[k], s, (offset + k - 1) + 1)
        /\ ~ after[k - 1].tty => InTurn(after[k])
        /\ Entries(after[k]) = Entries(after[k - 1]) + 1
    BY <2>1, <2>2, <2>3, RoundKeeps
  <2>5. (offset + k - 1) + 1 = offset + k
    BY <1>1
  <2>6. Entries(after[k]) = Entries(g) + k
    <3>1. Entries(after[k - 1]) = Entries(g) + (k - 1)
      BY <1>5
    <3> QED  BY <1>3, <2>4, <3>1
  <2> QED  BY <1>5, <2>4, <2>5, <2>6
<1>6. Fails = {}
  <2> SUFFICES ASSUME Fails # {} PROVE FALSE
    OBVIOUS
  <2>1. Fails \subseteq Nat
    BY <1>1
  <2>2. PICK k \in Fails : \A l \in Fails : k <= l
    <3> HIDE DEF Fails
    <3> QED  BY <2>1, LeastNatural
  <2>3. k \in 0 .. n /\ ~ Keeps(k)
    OBVIOUS
  <2> HIDE DEF Keeps
  <2>4. k \in 1 .. n
    BY <1>1, <1>4, <2>3
  <2>5. k - 1 \in 0 .. n /\ ~ k <= k - 1
    BY <1>1, <2>4
  <2>6. k - 1 \notin Fails
    <3> HIDE DEF Fails
    <3> QED  BY <2>2, <2>5
  <2>7. Keeps(k - 1)
    BY <2>5, <2>6
  <2> QED  BY <1>5, <2>3, <2>4, <2>7
<1>7. Keeps(n)
  <2> HIDE DEF Keeps
  <2> QED  BY <1>1, <1>6
<1>8. h = after[n] /\ offset + n = Len(s)
  BY <1>1 DEF after
<1> QED  BY <1>7, <1>8

\* _create() with more than one round: the sides show the whole series, and
\* out the one in front.
LEMMA CreateKeeps ==
  ASSUME NEW g \in GraphType, NEW s \in Seq(Samples), NEW offset \in -1 .. Len(s) - 2,
         g.last = 0, Aligned(g, s, offset), ~ g.tty => InTurn(g),
         NEW h, h = Create(g, s, offset)
  PROVE  /\ h \in GraphType
         /\ h.tty = g.tty /\ h.width = g.width
         /\ h.last = SampleAt(s, Len(s)) /\ h.out = FrontSide(h)
         /\ Aligned(h, s, Len(s))
         /\ ~ g.tty => InTurn(h)
         /\ Entries(h) = Entries(g) + (Len(s) - offset)
<1> DEFINE mult == Len(s) - offset > 1
           before == IF mult /\ offset > 0 THEN [g EXCEPT !.last = s[offset]] ELSE g
           after == Rounds(before, s, offset, mult)[Len(s) - offset]
<1>1. h = [after EXCEPT !.last = IF s = <<>> THEN 0 ELSE s[Len(s)],
                        !.out = after.cols[after.current]]
  BY DEF Create
<1>2. On(mult)
  BY DEF On
<1>3. before \in GraphType /\ before.last = SampleAt(s, offset)
  <2>1. CASE offset > 0
    <3>1. before = [g EXCEPT !.last = s[offset]] /\ s[offset] \in Samples
      BY <2>1
    <3> QED  BY <2>1, <3>1 DEF GraphType, SampleAt
  <2>2. CASE ~ offset > 0
    BY <2>2 DEF SampleAt
  <2> QED  BY <2>1, <2>2
<1>4. /\ before.tty = g.tty /\ before.width = g.width
      /\ before.cols = g.cols /\ before.current = g.current
  BY DEF GraphType
<1> HIDE DEF before
<1>5. FrontSide(before) = FrontSide(g) /\ BackSide(before) = BackSide(g)
  BY <1>4 DEF FrontSide, BackSide
<1>6. /\ Aligned(before, s, offset) /\ (~ before.tty => InTurn(before))
      /\ Entries(before) = Entries(g)
  BY <1>4, <1>5 DEF Aligned, InTurn, Entries
<1> HIDE DEF mult
<1>7. /\ after \in GraphType
      /\ after.tty = g.tty /\ after.width = g.width
      /\ Aligned(after, s, Len(s))
      /\ ~ g.tty => InTurn(after)
      /\ Entries(after) = Entries(g) + (Len(s) - offset)
  <2>1. offset \in -1 .. Len(s) - 1
    OBVIOUS
  <2> QED  BY <1>2, <1>3, <1>4, <1>6, <2>1, RoundsKeep
<1> HIDE DEF after
<1>8. SampleAt(s, Len(s)) \in Samples /\ SampleAt(s, Len(s)) = IF s = <<>> THEN 0 ELSE s[Len(s)]
  BY SampleAtType DEF SampleAt
<1>9. FrontSide(after) \in Seq(Character)
  BY <1>7, SidesType
<1>10. h = [after EXCEPT !.last = SampleAt(s, Len(s)), !.out = FrontSide(after)]
  BY <1>1, <1>8 DEF FrontSide
<1>11. /\ h \in GraphType /\ h.tty = after.tty /\ h.width = after.width
       /\ h.last = SampleAt(s, Len(s)) /\ h.out = FrontSide(after)
       /\ h.cols = after.cols /\ h.current = after.current
  BY <1>7, <1>8, <1>9, <1>10 DEF GraphType
<1>12. FrontSide(h) = FrontSide(after) /\ BackSide(h) = BackSide(after)
  BY <1>11 DEF FrontSide, BackSide
<1>13. /\ Aligned(h, s, Len(s)) /\ (~ g.tty => InTurn(h))
       /\ Entries(h) = Entries(after)
  BY <1>7, <1>11, <1>12 DEF Aligned, InTurn, Entries
<1> QED  BY <1>7, <1>11, <1>12, <1>13

LEMMA OneRound ==
  ASSUME NEW g \in GraphType, NEW s \in Seq(Samples), NEW i \in -1 .. Len(s) - 1, NEW mult, Off(mult),
         NEW h, h = Plot(g, s, i, mult),
         NEW x, x = <<LeftOf(g, i), SampleAt(s, i + 1)>>
  PROVE  /\ h \in GraphType /\ x \in Character
         /\ h.tty = g.tty /\ h.width = g.width
         /\ FrontSide(h) = Append(FrontSide(g), x) /\ BackSide(h) = BackSide(g)
<1>1. /\ h \in GraphType
      /\ h.tty = g.tty /\ h.width = g.width
      /\ h.current = Turned(g, mult)
      /\ h.cols = Added(g.cols, Turned(g, mult), <<LeftOf(g, i), SampleAt(s, i + 1)>>)
  BY PlotIs
<1>2. SampleAt(s, i + 1) \in Samples /\ g.last \in Samples /\ 0 \in Samples
  BY SampleAtType, SamplesAssumption DEF GraphType
<1>3. x \in Character
  BY <1>2 DEF Character, LeftOf
<1>4. g.cols \in [BOOLEAN -> Seq(Character)] /\ g.current \in BOOLEAN
  BY DEF GraphType
<1>5. h.current = g.current /\ h.cols = [g.cols EXCEPT ![g.current] = Append(@, x)]
  BY <1>1 DEF Turned, Added, Off
<1>6. FrontSide(h) = Append(FrontSide(g), x) /\ BackSide(h) = BackSide(g)
  BY <1>4, <1>5 DEF FrontSide, BackSide
<1> QED  BY <1>1, <1>3, <1>6

\* _create() with one round: a character is added in front.
LEMMA CreateOnce ==
  ASSUME NEW g \in GraphType, NEW s \in Seq(Samples),
         NEW h, h = Create(g, s, Len(s) - 1)
  PROVE  /\ h \in GraphType
         /\ h.tty = g.tty /\ h.width = g.width
         /\ h.last = SampleAt(s, Len(s)) /\ h.out = FrontSide(h)
         /\ LeftOf(g, Len(s) - 1) \in Samples
         /\ FrontSide(h) = Append(FrontSide(g), <<LeftOf(g, Len(s) - 1), SampleAt(s, Len(s))>>)
         /\ BackSide(h) = BackSide(g)
<1> DEFINE offset == Len(s) - 1
           mult == Len(s) - offset > 1
           before == IF mult /\ offset > 0 THEN [g EXCEPT !.last = s[offset]] ELSE g
           rounds == Rounds(before, s, offset, mult)
           after == rounds[Len(s) - offset]
           x == <<LeftOf(g, offset), SampleAt(s, offset + 1)>>
<1>1. h = [after EXCEPT !.last = IF s = <<>> THEN 0 ELSE s[Len(s)],
                        !.out = after.cols[after.current]]
  BY DEF Create
<1>2. Off(mult) /\ before = g
  BY DEF Off
<1>3. /\ offset \in Int /\ Len(s) - offset = 1 /\ offset + 1 = Len(s) /\ offset + 1 - 1 = offset
      /\ offset \in -1 .. Len(s) - 1
  OBVIOUS
<1> HIDE DEF before, mult
<1>4. rounds[0] = before /\ rounds[1] = Plot(rounds[0], s, offset, mult)
  <2>1. Len(s) - offset \in Nat
    BY <1>3
  <2>2. /\ rounds[0] = before
        /\ \A k \in 1 .. Len(s) - offset : rounds[k] = Plot(rounds[k - 1], s, offset + k - 1, mult)
    BY <1>3, <2>1, RoundsAre
  <2> HIDE DEF rounds
  <2>3. rounds[1] = Plot(rounds[1 - 1], s, offset + 1 - 1, mult)
    BY <1>3, <2>2
  <2> QED  BY <1>3, <2>2, <2>3
<1> HIDE DEF rounds
<1>5. after = Plot(g, s, offset, mult)
  BY <1>2, <1>3, <1>4
<1>6. x = <<LeftOf(g, offset), SampleAt(s, offset + 1)>>
  OBVIOUS
<1> HIDE DEF after, x, offset
<1>7. /\ after \in GraphType /\ x \in Character
      /\ after.tty = g.tty /\ after.width = g.width
      /\ FrontSide(after) = Append(FrontSide(g), x) /\ BackSide(after) = BackSide(g)
  BY <1>2, <1>3, <1>5, <1>6, OneRound
<1>8. SampleAt(s, Len(s)) \in Samples /\ SampleAt(s, Len(s)) = IF s = <<>> THEN 0 ELSE s[Len(s)]
  BY SampleAtType DEF SampleAt
<1>9. FrontSide(after) \in Seq(Character)
  BY <1>7, SidesType
<1>10. h = [after EXCEPT !.last = SampleAt(s, Len(s)), !.out = FrontSide(after)]
  BY <1>1, <1>8 DEF FrontSide
<1>11. /\ h \in GraphType /\ h.tty = after.tty /\ h.width = after.width
       /\ h.last = SampleAt(s, Len(s)) /\ h.out = FrontSide(after)
       /\ h.cols = after.cols /\ h.current = after.current
  BY <1>7, <1>8, <1>9, <1>10 DEF GraphType
<1>12. FrontSide(h) = FrontSide(after) /\ BackSide(h) = BackSide(after)
  BY <1>11 DEF FrontSide, BackSide
<1>13. LeftOf(g, offset) \in Samples
  BY SamplesAssumption DEF LeftOf, GraphType
<1> QED  BY <1>3, <1>6, <1>7, <1>11, <1>12, <1>13 DEF offset

---------------------------------------------------------------------------
(* What a drawn graph shows of the samples it was given.  The leftmost     *)
(* character of the side behind is dropped before it is ever in front.     *)

Shows(g, p) ==
  /\ g \in GraphType /\ g.width \in GraphWidths /\ p \in Seq(Samples)
  /\ g.last = SampleAt(p, Len(p))
  /\ g.out = <<>> \/ g.out = FrontSide(g)
  /\ Len(FrontSide(g)) = g.width
  /\ g.tty => \A j \in 1 .. g.width : FromRight(FrontSide(g), j) = Pairing(p, Len(p) - j + 1)
  /\ ~ g.tty =>
       /\ Len(BackSide(g)) = g.width
       /\ \A j \in 1 .. g.width : FromRight(FrontSide(g), j) = Pairing(p, Len(p) - 2 * j + 2)
       /\ \A j \in 1 .. g.width - 1 : FromRight(BackSide(g), j) = Pairing(p, Len(p) - 2 * j + 1)

LEMMA VisibleReads ==
  ASSUME NEW s \in Seq(Samples), NEW w \in Nat \ {0}, NEW q, q = Visible(s, w)
  PROVE  /\ q \in Seq(Samples)
         /\ \A i \in 0 .. 2 * w - 1 : SampleAt(q, Len(q) - i) = SampleAt(s, Len(s) - i)
<1>1. CASE Len(s) > 2 * w
  <2> DEFINE m == Len(s) - 2 * w
  <2>1. m \in Nat /\ m + 1 \in 1 .. Len(s) /\ Len(s) = m + 2 * w
    BY <1>1
  <2>2. q = SubSeq(s, m + 1, Len(s))
    BY <1>1 DEF Visible
  <2> HIDE DEF m
  <2>3. q \in Seq(Samples) /\ Len(q) = 2 * w /\ \A k \in 1 .. 2 * w : q[k] = s[m + k]
    BY <2>1, <2>2
  <2>4. ASSUME NEW i \in 0 .. 2 * w - 1 PROVE SampleAt(q, Len(q) - i) = SampleAt(s, Len(s) - i)
    <3>1. Len(q) - i \in 1 .. 2 * w /\ Len(s) - i = m + (Len(q) - i) /\ Len(s) - i > 0
      BY <2>1, <2>3
    <3> QED  BY <2>3, <3>1 DEF SampleAt
  <2> QED  BY <2>3, <2>4
<1>2. CASE ~ Len(s) > 2 * w
  <2>1. q = SubSeq(s, 1, Len(s))
    BY <1>2 DEF Visible
  <2>2. q = s
    BY <2>1
  <2> QED  BY <2>2
<1> QED  BY <1>1, <1>2

\* The part that is visible is all a graph shows.
LEMMA ShowsVisible ==
  ASSUME NEW g, NEW p, Shows(g, p), NEW q, q = Visible(p, g.width)
  PROVE  Shows(g, q)
<1> DEFINE w == g.width
<1>1. w \in Nat \ {0} /\ w > 1 /\ p \in Seq(Samples) /\ Len(p) \in Nat
  BY GraphWidthsAssumption DEF Shows
<1>2. q \in Seq(Samples) /\ \A i \in 0 .. 2 * w - 1 : SampleAt(q, Len(q) - i) = SampleAt(p, Len(p) - i)
  BY <1>1, VisibleReads
<1>3. Len(q) \in Nat
  BY <1>2
<1> HIDE DEF w
<1>4. ASSUME NEW i \in Int, 0 <= i, i + 1 <= 2 * w - 1
      PROVE  Pairing(q, Len(q) - i) = Pairing(p, Len(p) - i)
  <2>1. i \in 0 .. 2 * w - 1 /\ i + 1 \in 0 .. 2 * w - 1
    BY <1>1, <1>4
  <2>2. Len(q) - (i + 1) = (Len(q) - i) - 1 /\ Len(p) - (i + 1) = (Len(p) - i) - 1
    BY <1>1, <1>3
  <2> QED  BY <1>2, <2>1, <2>2 DEF Pairing
<1>5. ASSUME NEW j \in 1 .. w
      PROVE  /\ Pairing(q, Len(q) - j + 1) = Pairing(p, Len(p) - j + 1)
             /\ Pairing(q, Len(q) - 2 * j + 2) = Pairing(p, Len(p) - 2 * j + 2)
             /\ j \in 1 .. w - 1 => Pairing(q, Len(q) - 2 * j + 1) = Pairing(p, Len(p) - 2 * j + 1)
  <2>1. /\ Len(q) - (j - 1) = Len(q) - j + 1 /\ Len(p) - (j - 1) = Len(p) - j + 1
        /\ Len(q) - (2 * j - 2) = Len(q) - 2 * j + 2 /\ Len(p) - (2 * j - 2) = Len(p) - 2 * j + 2
        /\ Len(q) - (2 * j - 1) = Len(q) - 2 * j + 1 /\ Len(p) - (2 * j - 1) = Len(p) - 2 * j + 1
    BY <1>1, <1>3
  <2>2. /\ j - 1 \in Int /\ 0 <= j - 1 /\ (j - 1) + 1 <= 2 * w - 1
        /\ 2 * j - 2 \in Int /\ 0 <= 2 * j - 2 /\ (2 * j - 2) + 1 <= 2 * w - 1
        /\ 2 * j - 1 \in Int /\ 0 <= 2 * j - 1 /\ (j \in 1 .. w - 1 => (2 * j - 1) + 1 <= 2 * w - 1)
    BY <1>1
  <2>3. Pairing(q, Len(q) - (j - 1)) = Pairing(p, Len(p) - (j - 1))
    BY <1>4, <2>2
  <2>4. Pairing(q, Len(q) - (2 * j - 2)) = Pairing(p, Len(p) - (2 * j - 2))
    BY <1>4, <2>2
  <2>5. j \in 1 .. w - 1 => Pairing(q, Len(q) - (2 * j - 1)) = Pairing(p, Len(p) - (2 * j - 1))
    BY <1>4, <2>2
  <2> QED  BY <2>1, <2>3, <2>4, <2>5
<1>6. g.last = SampleAt(q, Len(q))
  <2>1. 0 \in 0 .. 2 * w - 1 /\ Len(q) - 0 = Len(q) /\ Len(p) - 0 = Len(p)
    BY <1>1, <1>3
  <2>2. SampleAt(q, Len(q)) = SampleAt(p, Len(p))
    BY <1>2, <2>1
  <2> QED  BY <2>2 DEF Shows
<1>7. \A j \in 1 .. w - 1 : j \in 1 .. w
  BY <1>1
<1> QED  BY <1>2, <1>5, <1>6, <1>7 DEF Shows, w

---------------------------------------------------------------------------
(* The constructor.                                                        *)

\* How many blanks there are, and where the samples start that fill the rest.
LEMMA FirstShownIs ==
  ASSUME NEW n \in Nat \ {0}, NEW w \in Nat, w > 1, NEW tty \in BOOLEAN
  PROVE  LET first == FirstShown(n, w, tty)
             blanks == IF w > PairsFor(n, tty) THEN w - PairsFor(n, tty) ELSE 0
         IN  /\ first \in -1 .. n - 1 /\ blanks \in Nat
             /\ blanks > 0 => first \in -1 .. 0
             /\ tty => first \in Nat /\ blanks + (n - first) = w /\ (n - first = 1 => n = 1)
             /\ ~ tty => 2 * blanks + (n - first) = 2 * w /\ first \in -1 .. n - 2
<1> DEFINE half == (n + 1) \div 2
<1>1. half \in Nat /\ (n + 1 = 2 * half \/ n = 2 * half)
  OBVIOUS
<1>2. \A k \in Int : (2 * k) % 2 = 0 /\ (2 * k + 1) % 2 = 1
  OBVIOUS
<1>3. CASE tty
  BY <1>3 DEF FirstShown, PairsFor
<1>4. CASE ~ tty
  <2>1. PairsFor(n, tty) = half
    BY <1>4 DEF PairsFor
  <2> HIDE DEF half
  <2>2. CASE half > w
    <3>1. FirstShown(n, w, tty) = IF (n - (n - w * 2)) % 2 # 0 THEN n - w * 2 - 1 ELSE n - w * 2
      BY <1>4, <2>1, <2>2 DEF FirstShown
    <3>2. n - (n - w * 2) = 2 * w /\ n > 2 * w - 1
      BY <1>1, <2>2
    <3>3. FirstShown(n, w, tty) = n - w * 2
      BY <1>2, <3>1, <3>2
    <3> QED  BY <1>1, <1>4, <2>1, <2>2, <3>2, <3>3
  <2>3. CASE ~ half > w
    <3>1. FirstShown(n, w, tty) = IF (n - 0) % 2 # 0 THEN 0 - 1 ELSE 0
      BY <1>4, <2>1, <2>3 DEF FirstShown
    <3>2. CASE n = 2 * half
      <4>1. FirstShown(n, w, tty) = 0
        BY <1>1, <1>2, <3>1, <3>2
      <4> QED  BY <1>1, <1>4, <2>1, <2>3, <3>2, <4>1
    <3>3. CASE n + 1 = 2 * half
      <4>1. n = 2 * (half - 1) + 1 /\ half - 1 \in Int
        BY <1>1, <3>3
      <4>2. n % 2 = 1 /\ n - 0 = n
        BY <1>2, <4>1
      <4>3. FirstShown(n, w, tty) = 0 - 1
        BY <3>1, <4>2
      <4> QED  BY <1>1, <1>4, <2>1, <2>3, <3>3, <4>3
    <3> QED  BY <1>1, <3>2, <3>3
  <2> QED  BY <2>2, <2>3
<1> QED  BY <1>3, <1>4

\* Whatever the sides show up to the end of the series, they show of it.
LEMMA AlignedShows ==
  ASSUME NEW h \in GraphType, NEW s \in Seq(Samples), h.width \in GraphWidths,
         h.last = SampleAt(s, Len(s)), h.out = <<>> \/ h.out = FrontSide(h),
         Aligned(h, s, Len(s)), ~ h.tty => InTurn(h),
         Entries(h) = IF h.tty THEN h.width ELSE 2 * h.width
  PROVE  Shows(h, s)
<1>1. h.width \in Nat /\ Len(FrontSide(h)) \in Nat /\ Len(BackSide(h)) \in Nat
  <2>1. FrontSide(h) \in Seq(Character) /\ BackSide(h) \in Seq(Character)
    BY SidesType
  <2>2. h.width \in Nat
    BY GraphWidthsAssumption
  <2> QED  BY <2>1, <2>2
<1>2. CASE h.tty
  <2>1. Len(FrontSide(h)) = h.width
    BY <1>2 DEF Entries
  <2> QED  BY <1>2, <2>1 DEF Aligned, Shows
<1>3. CASE ~ h.tty
  <2>1. Len(FrontSide(h)) + Len(BackSide(h)) = 2 * h.width /\ Len(FrontSide(h)) - Len(BackSide(h)) \in 0 .. 1
    BY <1>3 DEF Entries, InTurn
  <2>2. Len(FrontSide(h)) = h.width /\ Len(BackSide(h)) = h.width
    BY <1>1, <2>1
  <2>3. \A j \in 1 .. h.width - 1 : j \in 1 .. h.width
    BY <1>1
  <2> QED  BY <1>3, <2>2, <2>3 DEF Aligned, Shows
<1> QED  BY <1>2, <1>3

LEMMA NewGraphShows ==
  ASSUME NEW s \in Seq(Samples), NEW w \in GraphWidths, NEW tty \in BOOLEAN,
         NEW h, h = NewGraph(s, w, tty)
  PROVE  Shows(h, s) /\ h.width = w
<1> DEFINE n == Len(s)
           pairs == PairsFor(n, tty)
           blanks == [k \in 1 .. w - pairs |-> BlankPair]
           b == IF w > pairs THEN w - pairs ELSE 0
           cols == [c \in BOOLEAN |-> IF tty /\ ~ c THEN <<>> ELSE blanks]
           g == Unplotted(tty, w, cols)
<1>1. w \in Nat /\ w > 1 /\ n \in Nat
  BY GraphWidthsAssumption
<1>2. pairs \in Nat
  BY <1>1 DEF PairsFor
<1>3. blanks \in Seq(Character) /\ Len(blanks) = b /\ \A k \in 1 .. b : blanks[k] = <<0, 0>>
  <2>1. <<0, 0>> \in Character
    BY SamplesAssumption DEF Character
  <2> HIDE DEF pairs
  <2>2. CASE w > pairs
    <3>1. w - pairs \in Nat /\ b = w - pairs
      BY <1>1, <1>2, <2>2
    <3>2. blanks \in [1 .. w - pairs -> Character] /\ \A k \in 1 .. w - pairs : blanks[k] = <<0, 0>>
      BY <2>1 DEF BlankPair
    <3> HIDE DEF blanks, b
    <3> QED  BY <3>1, <3>2
  <2>3. CASE ~ w > pairs
    <3>1. 1 .. w - pairs = {} /\ b = 0
      BY <1>1, <1>2, <2>3
    <3>2. blanks = <<>>
      BY <3>1
    <3> HIDE DEF blanks, b
    <3> QED  BY <3>1, <3>2
  <2> QED  BY <2>2, <2>3
<1>4. h = IF s = <<>> THEN g ELSE [Create(g, s, FirstShown(n, w, tty)) EXCEPT !.newest = s[n]]
  BY DEF NewGraph
<1>5. cols \in [BOOLEAN -> Seq(Character)] /\ cols[TRUE] = blanks /\ (~ tty => cols[FALSE] = blanks)
  <2> HIDE DEF blanks
  <2> QED  BY <1>3
<1>6. g = [tty |-> tty, width |-> w, current |-> TRUE, last |-> 0, cols |-> cols, newest |-> -1, out |-> <<>>]
  <2> HIDE DEF cols
  <2> QED  BY DEF Unplotted
<1> HIDE DEF cols, g, blanks
<1>7. /\ g \in GraphType /\ g.last = 0 /\ g.tty = tty /\ g.width = w /\ g.out = <<>>
      /\ FrontSide(g) = blanks /\ (~ tty => BackSide(g) = blanks)
  <2>1. /\ g.last = 0 /\ g.tty = tty /\ g.width = w /\ g.out = <<>>
        /\ g.current = TRUE /\ g.cols = cols
    BY <1>6
  <2>2. g \in GraphType
    BY <1>1, <1>5, <1>6, SamplesAssumption DEF GraphType
  <2>3. FrontSide(g) = blanks /\ (~ tty => BackSide(g) = blanks)
    BY <1>5, <2>1 DEF FrontSide, BackSide
  <2> QED  BY <2>1, <2>2, <2>3
<1> HIDE DEF pairs
<1>8. b \in Nat
  BY <1>1, <1>2
<1>9. ASSUME NEW e \in Int, b > 0 => e <= 0 PROVE Aligned(g, s, e)
  <2>1. ASSUME NEW j \in 1 .. b
        PROVE  /\ FromRight(blanks, j) = Pairing(s, e - j + 1)
               /\ FromRight(blanks, j) = Pairing(s, e - 2 * j + 2)
               /\ FromRight(blanks, j) = Pairing(s, e - 2 * j + 1)
    <3> HIDE DEF b
    <3>1. e <= 0 /\ b - j + 1 \in 1 .. b
      BY <1>8, <1>9
    <3>2. FromRight(blanks, j) = <<0, 0>>
      BY <1>3, <3>1 DEF FromRight
    <3>3. \A k \in Int : k <= 0 => Pairing(s, k) = <<0, 0>>
      BY DEF Pairing, SampleAt
    <3>4. /\ e - j + 1 \in Int /\ e - j + 1 <= 0
          /\ e - 2 * j + 2 \in Int /\ e - 2 * j + 2 <= 0
          /\ e - 2 * j + 1 \in Int /\ e - 2 * j + 1 <= 0
      BY <1>8, <3>1
    <3> QED  BY <3>2, <3>3, <3>4
  <2> HIDE DEF b
  <2> QED  BY <1>3, <1>7, <2>1 DEF Aligned
<1>10. (~ tty => InTurn(g)) /\ Entries(g) = IF tty THEN b ELSE 2 * b
  <2> HIDE DEF b
  <2>1. CASE tty
    BY <1>3, <1>7, <2>1 DEF Entries
  <2>2. CASE ~ tty
    <3>1. Len(FrontSide(g)) = b /\ Len(BackSide(g)) = b
      BY <1>3, <1>7, <2>2
    <3>2. Entries(g) = b + b
      BY <1>7, <2>2, <3>1 DEF Entries
    <3> QED  BY <1>8, <2>2, <3>1, <3>2 DEF InTurn
  <2> QED  BY <2>1, <2>2
<1>11. CASE s = <<>>
  <2>1. h = g /\ n = 0 /\ pairs = 0
    BY <1>4, <1>11 DEF pairs, PairsFor
  <2>2. b = w
    BY <1>1, <2>1
  <2> HIDE DEF b
  <2>3. Aligned(g, s, Len(s)) /\ g.last = SampleAt(s, Len(s))
    BY <1>7, <1>9, <2>1 DEF SampleAt
  <2> QED  BY <1>7, <1>10, <2>1, <2>2, <2>3, AlignedShows
<1>12. CASE s # <<>>
  <2> DEFINE first == FirstShown(n, w, tty)
             c == Create(g, s, first)
  <2>1. n \in Nat \ {0} /\ s[n] \in Samples
    BY <1>12
  <2>2. /\ first \in -1 .. n - 1
        /\ b > 0 => first \in -1 .. 0
        /\ tty => first \in Nat /\ b + (n - first) = w /\ (n - first = 1 => n = 1)
        /\ ~ tty => 2 * b + (n - first) = 2 * w /\ first \in -1 .. n - 2
    <3> HIDE DEF n
    <3> QED  BY <1>1, <2>1, FirstShownIs DEF pairs
  <2>3. h = [c EXCEPT !.newest = s[n]]
    BY <1>4, <1>12
  <2> HIDE DEF b, first
  <2>4. Aligned(g, s, first)
    BY <1>1, <1>8, <1>9, <2>2
  <2> HIDE DEF c
  <2>5. ASSUME Shows(c, s), c.width = w PROVE Shows(h, s) /\ h.width = w
    <3>1. /\ h \in GraphType /\ h.tty = c.tty /\ h.width = c.width /\ h.last = c.last
          /\ h.out = c.out /\ h.cols = c.cols /\ h.current = c.current
      BY <2>1, <2>3, <2>5 DEF Shows, GraphType
    <3>2. FrontSide(h) = FrontSide(c) /\ BackSide(h) = BackSide(c)
      BY <3>1 DEF FrontSide, BackSide
    <3> QED  BY <2>5, <3>1, <3>2 DEF Shows
  <2>6. CASE first \in -1 .. n - 2
    <3>1. /\ c \in GraphType /\ c.tty = tty /\ c.width = w
          /\ c.last = SampleAt(s, Len(s)) /\ c.out = FrontSide(c)
          /\ Aligned(c, s, Len(s))
          /\ ~ c.tty => InTurn(c)
          /\ Entries(c) = Entries(g) + (n - first)
      BY <1>7, <1>10, <2>4, <2>6, CreateKeeps DEF c
    <3>2. Entries(c) = IF tty THEN w ELSE 2 * w
      BY <1>1, <1>8, <1>10, <2>2, <3>1
    <3> QED  BY <2>5, <3>1, <3>2, AlignedShows
  <2>7. CASE first \notin -1 .. n - 2
    <3>1. tty /\ first = n - 1 /\ n = 1 /\ first = 0
      <4>1. tty
        BY <2>2, <2>7
      <4>2. first = n - 1
        BY <1>1, <2>2, <2>7
      <4>3. n - first = 1
        BY <1>1, <4>2
      <4>4. n = 1
        BY <2>2, <4>1, <4>3
      <4> QED  BY <4>1, <4>2, <4>4
    <3>2. /\ c \in GraphType /\ c.tty = tty /\ c.width = w
          /\ c.last = SampleAt(s, n) /\ c.out = FrontSide(c)
          /\ FrontSide(c) = Append(FrontSide(g), <<LeftOf(g, n - 1), SampleAt(s, n)>>)
      <4>1. c = Create(g, s, Len(s) - 1)
        BY <3>1 DEF c
      <4> QED  BY <1>7, <4>1, CreateOnce
    <3> DEFINE x == <<LeftOf(g, n - 1), SampleAt(s, n)>>
    <3>3. x = Pairing(s, n)
      BY <1>7, <3>1 DEF LeftOf, Pairing, SampleAt
    <3>4. x \in Character
      BY <2>1, <3>3, SampleAtType, SamplesAssumption DEF Pairing, Character, SampleAt
    <3> HIDE DEF x
    <3>5. /\ Len(Append(blanks, x)) = b + 1
          /\ FromRight(Append(blanks, x), 1) = x
          /\ \A j \in 2 .. b + 1 : FromRight(Append(blanks, x), j) = FromRight(blanks, j - 1)
      BY <1>3, <3>4, AppendReads
    <3>6. b + 1 = w
      BY <1>1, <1>8, <2>2, <3>1
    <3>7. FrontSide(c) = Append(blanks, x)
      BY <1>7, <3>2 DEF x
    <3>8. \A j \in 1 .. b : FromRight(blanks, j) = Pairing(s, 0 - j + 1)
      BY <1>3, <1>7, <2>4, <3>1 DEF Aligned
    <3>9. ASSUME NEW j \in 1 .. w PROVE FromRight(FrontSide(c), j) = Pairing(s, n - j + 1)
      <4>1. CASE j = 1
        BY <1>1, <3>3, <3>5, <3>7, <4>1
      <4>2. CASE j # 1
        <5>1. j \in 2 .. b + 1 /\ j - 1 \in 1 .. b /\ 0 - (j - 1) + 1 = n - j + 1
          BY <1>8, <3>1, <3>6, <4>2
        <5> QED  BY <3>5, <3>7, <3>8, <5>1
      <4> QED  BY <4>1, <4>2
    <3>10. Shows(c, s)
      BY <3>1, <3>2, <3>5, <3>6, <3>7, <3>9 DEF Shows
    <3> QED  BY <2>5, <3>2, <3>10
  <2> QED  BY <2>6, <2>7
<1> QED  BY <1>11, <1>12

---------------------------------------------------------------------------
(* operator(): the graph moved on by one sample.                           *)

LEMMA MovedOnShows ==
  ASSUME NEW g, NEW p, Shows(g, p), NEW s \in Seq(Samples), s = <<>> => g.last = 0,
         NEW v, v = SampleAt(s, Len(s)),
         NEW h, h = MovedOn(g, s)
  PROVE  Shows(h, Append(p, v)) /\ h.width = g.width
<1> DEFINE side == IF g.tty THEN g.current ELSE ~ g.current
           newest == IF s = <<>> THEN g.newest ELSE s[Len(s)]
           shifted == [g EXCEPT !.current = side, !.cols[side] = Tail(@),
                                !.newest = IF s = <<>> THEN @ ELSE s[Len(s)]]
           r == Append(p, v)
           n == Len(p)
           w == g.width
           x == <<LeftOf(shifted, Len(s) - 1), SampleAt(s, Len(s))>>
<1>1. /\ g \in GraphType /\ w \in Nat /\ w > 1 /\ p \in Seq(Samples) /\ n \in Nat
      /\ g.last = SampleAt(p, n) /\ Len(FrontSide(g)) = w
  BY GraphWidthsAssumption DEF Shows
<1>2. v \in Samples /\ newest \in Samples \cup {-1}
  <2>1. v \in Samples
    BY SampleAtType
  <2>2. g.newest \in Samples \cup {-1}
    BY <1>1 DEF GraphType
  <2> QED  BY <2>1, <2>2
<1>3. r \in Seq(Samples) /\ Len(r) = n + 1 /\ SampleAt(r, n + 1) = v
      /\ \A k \in Int : k <= n => SampleAt(r, k) = SampleAt(p, k)
  BY <1>1, <1>2 DEF SampleAt
<1>4. h = Create(shifted, s, Len(s) - 1)
  BY DEF MovedOn
<1> DEFINE next == IF g.tty THEN FrontSide(g) ELSE BackSide(g)
<1>5. next \in Seq(Character) /\ Len(next) = w /\ next # <<>>
  <2>1. FrontSide(g) \in Seq(Character) /\ BackSide(g) \in Seq(Character)
    BY <1>1, SidesType
  <2>2. ~ g.tty => Len(BackSide(g)) = w
    BY DEF Shows
  <2> QED  BY <1>1, <2>1, <2>2
<1>6. /\ Tail(next) \in Seq(Character) /\ Len(Tail(next)) = w - 1
      /\ \A j \in 1 .. w - 1 : FromRight(Tail(next), j) = FromRight(next, j)
  <2> HIDE DEF next
  <2> QED  BY <1>5, TailReads
<1>7. /\ g.cols \in [BOOLEAN -> Seq(Character)] /\ g.current \in BOOLEAN /\ g.tty \in BOOLEAN
      /\ side \in BOOLEAN /\ g.cols[side] = next
  BY <1>1 DEF GraphType, FrontSide, BackSide
<1> DEFINE cols == [g.cols EXCEPT ![side] = Tail(@)]
<1>8. /\ cols \in [BOOLEAN -> Seq(Character)] /\ cols[side] = Tail(next)
      /\ ~ g.tty => cols[~ side] = FrontSide(g)
  <2>1. ~ g.tty => g.cols[~ side] = FrontSide(g) /\ (~ side) # side /\ (~ side) \in BOOLEAN
    <3>1. ASSUME ~ g.tty PROVE (~ side) = g.current
      BY <1>7, <3>1
    <3>2. \A b \in BOOLEAN : (~ b) # b /\ (~ b) \in BOOLEAN
      OBVIOUS
    <3> HIDE DEF side
    <3> QED  BY <1>7, <3>1, <3>2, Zenon DEF FrontSide
  <2> HIDE DEF next, side
  <2> QED  BY <1>6, <1>7, <2>1
<1>9. shifted = [tty |-> g.tty, width |-> g.width, current |-> side, last |-> g.last,
                 cols |-> cols, newest |-> newest, out |-> g.out]
  <2>1. g = [tty |-> g.tty, width |-> g.width, current |-> g.current, last |-> g.last,
             cols |-> g.cols, newest |-> g.newest, out |-> g.out]
    BY <1>1 DEF GraphType
  <2>2. shifted = [g EXCEPT !.current = side, !.cols = cols, !.newest = newest]
    BY <1>1 DEF GraphType
  <2> HIDE DEF side, cols, newest, shifted
  <2> QED  BY <2>1, <2>2
<1> HIDE DEF side, cols, newest, next, shifted
<1>10. /\ shifted \in GraphType /\ shifted.tty = g.tty /\ shifted.width = w
       /\ shifted.last = g.last
       /\ FrontSide(shifted) = Tail(next) /\ (~ g.tty => BackSide(shifted) = FrontSide(g))
  <2>1. /\ shifted.tty = g.tty /\ shifted.width = w /\ shifted.last = g.last
        /\ shifted.current = side /\ shifted.cols = cols
    BY <1>9
  <2>2. shifted \in GraphType
    BY <1>1, <1>2, <1>7, <1>8, <1>9 DEF GraphType
  <2>3. FrontSide(shifted) = Tail(next) /\ (~ g.tty => BackSide(shifted) = FrontSide(g))
    BY <1>8, <2>1 DEF FrontSide, BackSide
  <2> QED  BY <2>1, <2>2, <2>3
<1>11. /\ h \in GraphType /\ h.tty = g.tty /\ h.width = w
       /\ h.last = v /\ h.out = FrontSide(h)
       /\ FrontSide(h) = Append(Tail(next), x) /\ (~ g.tty => BackSide(h) = FrontSide(g))
       /\ LeftOf(shifted, Len(s) - 1) \in Samples
  <2>1. /\ h \in GraphType
        /\ h.tty = shifted.tty /\ h.width = shifted.width
        /\ h.last = SampleAt(s, Len(s)) /\ h.out = FrontSide(h)
        /\ LeftOf(shifted, Len(s) - 1) \in Samples
        /\ FrontSide(h) = Append(FrontSide(shifted), <<LeftOf(shifted, Len(s) - 1), SampleAt(s, Len(s))>>)
        /\ BackSide(h) = BackSide(shifted)
    BY <1>4, <1>10, CreateOnce, ZenonT(40)
  <2> QED  BY <1>10, <2>1
<1>12. x = Pairing(r, n + 1) /\ x \in Character
  <2>1. LeftOf(shifted, Len(s) - 1) = g.last
    <3>1. CASE s = <<>>
      BY <1>10, <3>1 DEF LeftOf
    <3>2. CASE s # <<>>
      <4>1. ~ Len(s) - 1 < 0
        BY <3>2
      <4> QED  BY <1>10, <4>1 DEF LeftOf
    <3> QED  BY <3>1, <3>2
  <2>2. x = <<SampleAt(p, n), v>>
    BY <1>1, <2>1
  <2>3. n <= n /\ n \in Int /\ (n + 1) - 1 = n
    BY <1>1
  <2>4. SampleAt(r, n) = SampleAt(p, n)
    BY <1>3, <2>3
  <2>5. x = Pairing(r, n + 1)
    BY <1>3, <2>2, <2>3, <2>4 DEF Pairing
  <2> QED  BY <1>2, <1>11, <2>5 DEF Character
<1> HIDE DEF x, r
<1>13. /\ Len(FrontSide(h)) = w
       /\ FromRight(FrontSide(h), 1) = x
       /\ \A j \in 2 .. w : FromRight(FrontSide(h), j) = FromRight(next, j - 1)
  <2>1. /\ Len(Append(Tail(next), x)) = Len(Tail(next)) + 1
        /\ FromRight(Append(Tail(next), x), 1) = x
        /\ \A j \in 2 .. Len(Tail(next)) + 1 :
             FromRight(Append(Tail(next), x), j) = FromRight(Tail(next), j - 1)
    BY <1>6, <1>12, AppendReads
  <2>2. Len(Tail(next)) + 1 = w /\ \A j \in 2 .. w : j - 1 \in 1 .. w - 1
    BY <1>1, <1>6
  <2> QED  BY <1>6, <1>11, <2>1, <2>2
<1>14. \A k \in Int : k <= n => Pairing(r, k) = Pairing(p, k)
  <2>1. ASSUME NEW k \in Int, k <= n PROVE Pairing(r, k) = Pairing(p, k)
    <3>1. k - 1 \in Int /\ k - 1 <= n
      BY <1>1, <2>1
    <3> QED  BY <1>3, <2>1, <3>1 DEF Pairing
  <2> QED  BY <2>1
<1>15. h.width \in GraphWidths /\ h.last = SampleAt(r, Len(r)) /\ r \in Seq(Samples) /\ Len(r) = n + 1
  BY <1>3, <1>11 DEF Shows
<1>16. CASE g.tty
  <2>1. ASSUME NEW j \in 1 .. w PROVE FromRight(FrontSide(h), j) = Pairing(r, Len(r) - j + 1)
    <3>1. CASE j = 1
      <4>1. Len(r) - j + 1 = n + 1
        BY <1>1, <1>15, <3>1
      <4> QED  BY <1>12, <1>13, <3>1, <4>1
    <3>2. CASE j # 1
      <4>1. /\ j \in 2 .. w /\ j - 1 \in 1 .. w /\ n - (j - 1) + 1 = Len(r) - j + 1
            /\ n - (j - 1) + 1 \in Int /\ n - (j - 1) + 1 <= n
        BY <1>1, <1>15, <3>2
      <4>2. FromRight(next, j - 1) = Pairing(p, n - (j - 1) + 1)
        BY <1>16, <4>1 DEF Shows, next
      <4> QED  BY <1>13, <1>14, <4>1, <4>2
    <3> QED  BY <3>1, <3>2
  <2> QED  BY <1>11, <1>13, <1>15, <1>16, <2>1 DEF Shows, r
<1>17. CASE ~ g.tty
  <2>0. /\ \A j \in 1 .. w : FromRight(FrontSide(g), j) = Pairing(p, n - 2 * j + 2)
        /\ \A j \in 1 .. w - 1 : FromRight(BackSide(g), j) = Pairing(p, n - 2 * j + 1)
    BY <1>17 DEF Shows
  <2>1. ASSUME NEW j \in 1 .. w PROVE FromRight(FrontSide(h), j) = Pairing(r, Len(r) - 2 * j + 2)
    <3>1. CASE j = 1
      <4>1. Len(r) - 2 * j + 2 = n + 1
        BY <1>1, <1>15, <3>1
      <4> QED  BY <1>12, <1>13, <3>1, <4>1
    <3>2. CASE j # 1
      <4>1. /\ j \in 2 .. w /\ j - 1 \in 1 .. w - 1 /\ n - 2 * (j - 1) + 1 = Len(r) - 2 * j + 2
            /\ n - 2 * (j - 1) + 1 \in Int /\ n - 2 * (j - 1) + 1 <= n
        BY <1>1, <1>15, <3>2
      <4>2. FromRight(next, j - 1) = Pairing(p, n - 2 * (j - 1) + 1)
        BY <1>17, <2>0, <4>1 DEF next
      <4> QED  BY <1>13, <1>14, <4>1, <4>2
    <3> QED  BY <3>1, <3>2
  <2>2. ASSUME NEW j \in 1 .. w - 1 PROVE FromRight(BackSide(h), j) = Pairing(r, Len(r) - 2 * j + 1)
    <3>1. /\ j \in 1 .. w /\ n - 2 * j + 2 = Len(r) - 2 * j + 1
          /\ n - 2 * j + 2 \in Int /\ n - 2 * j + 2 <= n
      BY <1>1, <1>15
    <3>2. FromRight(FrontSide(g), j) = Pairing(p, n - 2 * j + 2)
      BY <2>0, <3>1
    <3> QED  BY <1>11, <1>14, <1>17, <3>1, <3>2
  <2>3. Len(BackSide(h)) = w
    BY <1>1, <1>11, <1>17
  <2> QED  BY <1>11, <1>13, <1>15, <1>17, <2>1, <2>2, <2>3 DEF Shows, r
<1> QED  BY <1>7, <1>16, <1>17

---------------------------------------------------------------------------
(* The graph with the ring it is drawn from.  A ring that has held a       *)
(* sample keeps one as long as no box asks for an empty ring.              *)

ShowsInv ==
  /\ Inv
  /\ ring.size = 0 => graph.last = 0
  /\ \/ graph = NoGraph /\ redraw
     \/ Shows(graph, plotted)

LEMMA PushShows ==
  ASSUME NEW r, RingOK(r), NEW v
  PROVE  r.size # 0 => PushBack(r, v).size # 0
<1>1. r.size \in Nat
  BY DEF RingOK
<1> QED  BY <1>1 DEF PushBack, Stored, Ring

LEMMA ResizeHolds ==
  ASSUME NEW r, RingOK(r), NEW n \in Nat \ {0}
  PROVE  r.size # 0 => Resized(r, n).size # 0
<1>1. r.size \in Nat
  BY DEF RingOK
<1> QED  BY <1>1 DEF Resized, Ring, Smaller

LEMMA ShowsInvStep ==
  ASSUME 0 \notin Rooms
  PROVE  ShowsInv /\ [HistoryNext]_historyVars => ShowsInv'
<1> SUFFICES ASSUME ShowsInv, [HistoryNext]_historyVars PROVE ShowsInv'
  OBVIOUS
<1>1. Inv'
  BY StepImplements DEF ShowsInv
<1>2. RingOK(ring) /\ want \in Nat \ {0}
  BY RoomsAssumption DEF ShowsInv, Inv
<1>3. /\ Held(ring) \in Seq(Samples) /\ Len(Held(ring)) = ring.size /\ ring.size \in Nat
  BY <1>2, RingContents DEF RingOK
<1>4. CASE PushThenResize
  <2>1. PICK v \in Samples : ring' = Resized(PushBack(ring, v), want)
    BY <1>4 DEF PushThenResize
  <2>2. RingOK(PushBack(ring, v))
    BY <1>2, PushRecords
  <2>3. ring.size # 0 => ring'.size # 0
    BY <1>2, <2>1, <2>2, PushShows, ResizeHolds
  <2>4. UNCHANGED <<graph, plotted, redraw>>
    BY <1>4 DEF PushThenResize
  <2> QED  BY <1>1, <2>3, <2>4 DEF ShowsInv
<1>5. CASE ResizeThenPush
  <2>1. PICK v \in Samples : ring' = PushBack(Resized(ring, want), v)
    BY <1>5 DEF ResizeThenPush
  <2>2. RingOK(Resized(ring, want))
    BY <1>2, ResizeKeepsNewest
  <2>3. ring.size # 0 => ring'.size # 0
    BY <1>2, <2>1, <2>2, PushShows, ResizeHolds
  <2>4. UNCHANGED <<graph, plotted, redraw>>
    BY <1>5 DEF ResizeThenPush
  <2> QED  BY <1>1, <2>3, <2>4 DEF ShowsInv
<1>6. CASE Layout
  BY <1>1, <1>6 DEF Layout, ShowsInv
<1>7. CASE DrawAnew
  <2>1. PICK w \in GraphWidths, tty \in BOOLEAN :
          graph' = NewGraph(Held(ring), w, tty) /\ plotted' = Visible(Held(ring), w)
    BY <1>7 DEF DrawAnew
  <2>2. Shows(graph', Held(ring)) /\ graph'.width = w
    BY <1>3, <2>1, NewGraphShows
  <2>3. ring' = ring
    BY <1>7 DEF DrawAnew
  <2>4. Shows(graph', plotted')
    BY <2>1, <2>2, ShowsVisible
  <2>5. ring'.size = 0 => graph'.last = 0
    BY <1>3, <2>2, <2>3 DEF Shows, SampleAt
  <2> QED  BY <1>1, <2>4, <2>5 DEF ShowsInv
<1>8. CASE DrawMoved
  <2> DEFINE v == SampleAt(Held(ring), Len(Held(ring)))
  <2>1. /\ Shows(graph, plotted) /\ ring' = ring
        /\ graph' = MovedOn(graph, Held(ring))
    BY <1>8 DEF DrawMoved, ShowsInv
  <2>2. v = IF ring.size = 0 THEN 0 ELSE Held(ring)[ring.size]
    BY <1>3 DEF SampleAt
  <2>3. plotted' = Visible(Append(plotted, v), graph.width)
    BY <1>8, <2>2 DEF DrawMoved
  <2>4. Held(ring) = <<>> => graph.last = 0
    BY <1>3 DEF ShowsInv
  <2> HIDE DEF v
  <2>5. Shows(graph', Append(plotted, v)) /\ graph'.width = graph.width
    BY <1>3, <2>1, <2>4, MovedOnShows DEF v
  <2>6. Shows(graph', plotted')
    BY <2>3, <2>5, ShowsVisible
  <2>7. ring'.size = 0 => graph'.last = 0
    <3>1. ASSUME ring.size = 0 PROVE graph'.last = 0
      <4>1. v = 0
        BY <2>2, <3>1
      <4>2. graph'.last = SampleAt(Append(plotted, v), Len(Append(plotted, v))) /\ plotted \in Seq(Samples)
        BY <2>1, <2>5 DEF Shows
      <4> QED  BY <4>1, <4>2 DEF SampleAt
    <3> QED  BY <2>1, <3>1
  <2> QED  BY <1>1, <2>6, <2>7 DEF ShowsInv
<1>9. CASE UNCHANGED historyVars
  BY <1>1, <1>9 DEF historyVars, ShowsInv
<1> QED  BY <1>4, <1>5, <1>6, <1>7, <1>8, <1>9 DEF HistoryNext

\* A graph shows, from right to left, the samples it was given (_create(),
\* the constructor and operator() in btop_draw.cpp): for every set of
\* samples, every width above one, in either mode, as long as no box asks for
\* a ring without room.
THEOREM GraphIsPlotted ==
  ASSUME 0 \notin Rooms
  PROVE  HistorySpec => []GraphShowsPlotted
<1>1. HistoryInit => ShowsInv
  <2>1. HistoryInit => Inv /\ graph = NoGraph /\ redraw /\ graph.last = 0
    BY InitImplements DEF HistoryInit, NoGraph, Unplotted
  <2> QED  BY <2>1 DEF ShowsInv
<1>2. ShowsInv /\ [HistoryNext]_historyVars => ShowsInv'
  BY ShowsInvStep
<1>3. ShowsInv => GraphShowsPlotted
  <2> SUFFICES ASSUME ShowsInv, graph.out # <<>>
               PROVE  /\ Len(graph.out) = graph.width
                      /\ \A j \in 1 .. graph.width : graph.out[graph.width - j + 1] =
                           LET n == Len(plotted)
                           IN  IF graph.tty THEN <<Given(n - j), Given(n - j + 1)>>
                               ELSE <<Given(n - 2 * j + 1), Given(n - 2 * j + 2)>>
    BY DEF GraphShowsPlotted
  <2>1. Shows(graph, plotted)
    BY DEF ShowsInv, NoGraph, Unplotted
  <2>2. graph.out = FrontSide(graph) /\ Len(graph.out) = graph.width /\ Len(plotted) \in Nat
    BY <2>1 DEF Shows
  <2>3. \A k : Given(k) = SampleAt(plotted, k)
    BY DEF Given, SampleAt
  <2> DEFINE n == Len(plotted)
  <2>4. ASSUME NEW j \in 1 .. graph.width
        PROVE  graph.out[graph.width - j + 1] =
                 IF graph.tty THEN <<Given(n - j), Given(n - j + 1)>>
                 ELSE <<Given(n - 2 * j + 1), Given(n - 2 * j + 2)>>
    <3>1. graph.out[graph.width - j + 1] = FromRight(FrontSide(graph), j)
      BY <2>2 DEF FromRight
    <3> HIDE DEF n
    <3>2. (n - j + 1) - 1 = n - j /\ (n - 2 * j + 2) - 1 = n - 2 * j + 1
      BY <2>2 DEF n
    <3>3. CASE graph.tty
      <4>1. FromRight(FrontSide(graph), j) = Pairing(plotted, n - j + 1)
        BY <2>1, <3>3 DEF Shows, n
      <4> QED  BY <2>3, <3>1, <3>2, <3>3, <4>1 DEF Pairing
    <3>4. CASE ~ graph.tty
      <4>1. FromRight(FrontSide(graph), j) = Pairing(plotted, n - 2 * j + 2)
        BY <2>1, <3>4 DEF Shows, n
      <4> QED  BY <2>3, <3>1, <3>2, <3>4, <4>1 DEF Pairing
    <3> QED  BY <3>3, <3>4
  <2> QED  BY <2>2, <2>4
<1> QED  BY <1>1, <1>2, <1>3, PTL DEF HistorySpec

---------------------------------------------------------------------------
(* The types of what the collectors keep.                                  *)

\* The rest of NetTypeOK.
ShownTypes ==
  /\ selectedIface \in Ifaces \cup {NoIface}
  /\ errors \in 0 .. 3
  /\ collected \in BOOLEAN

\* An interface that is shown anew is one of the list.
LEMMA SelectTypes ==
  ASSUME NEW listed \in SUBSET Ifaces, NEW st, Select(listed, st),
         selectedIface \in Ifaces \cup {NoIface}
  PROVE  selectedIface' \in Ifaces \cup {NoIface}
<1>1. CASE listed = {}
  BY <1>1 DEF Select
<1>2. CASE listed # {}
  BY <1>2, SelectListed
<1> QED  BY <1>1, <1>2

\* However many interfaces come, go and fail to be read: the counters of
\* failures and bytes, and the name of the interface shown, keep their types.
\* (Net::collect)
THEOREM NetTypesCorrect == NetSpec => []NetTypeOK
<1>1. NetInit => ShownTypes
  <2> SUFFICES ASSUME NetInit PROVE ShownTypes
    OBVIOUS
  <2>1. selectedIface \in Ifaces \cup {NoIface} /\ errors \in 0 .. 3
    BY DEF NetInit
  <2>2. collected \in BOOLEAN
    BY DEF NetInit
  <2> QED  BY <2>1, <2>2 DEF ShownTypes
<1>2. ShownTypes /\ NetInv /\ NetInv' /\ [NetNext]_netVars => ShownTypes'
  <2> SUFFICES ASSUME ShownTypes, NetInv, NetInv', [NetNext]_netVars PROVE ShownTypes'
    OBVIOUS
  <2>1. interfaces \subseteq Ifaces /\ interfaces' \subseteq Ifaces
    BY DEF NetInv, NetTypes
  <2>2. CASE CollectUpdates
    <3>1. Select(interfaces', stat') /\ collected' = TRUE /\ errors' = errors
      BY <2>2 DEF CollectUpdates
    <3>2. selectedIface' \in Ifaces \cup {NoIface}
      BY <2>1, <3>1, SelectTypes DEF ShownTypes
    <3> QED  BY <3>1, <3>2 DEF ShownTypes
  <2>3. CASE CollectSkips
    <3>1. Select(interfaces, stat) /\ UNCHANGED <<errors, collected>>
      BY <2>3 DEF CollectSkips
    <3>2. selectedIface' \in Ifaces \cup {NoIface}
      BY <2>1, <3>1, SelectTypes DEF ShownTypes
    <3> QED  BY <3>1, <3>2 DEF ShownTypes
  <2>4. CASE CollectFails
    BY <2>4 DEF CollectFails, ShownTypes
  <2>5. CASE Cycle
    BY <2>5 DEF Cycle, Listed, Ifaces, ShownTypes
  <2>6. CASE Traffic \/ Restart \/ Vanish \/ Appear \/ ZeroTotals \/ UNCHANGED netVars
    BY <2>6 DEF Traffic, Restart, Vanish, Appear, ZeroTotals, program, netVars, ShownTypes
  <2> QED  BY <2>2, <2>3, <2>4, <2>5, <2>6 DEF NetNext
<1>3. SelectedInv /\ NetInv /\ ShownTypes => NetTypeOK
  BY DEF SelectedInv, NetInv, NetTypes, ShownTypes, NetTypeOK
<1> QED
  BY <1>1, <1>2, <1>3, NetInvInit, NetInvStep, SelectedInvInit, SelectedInvStep, PTL DEF NetSpec

\* The capacity of a ring is one that a box asked for, or none.
RingTypes == ring.capacity \in Rooms \cup {0} /\ redraw \in BOOLEAN

\* However samples, widths and draws come: head_ and size_ stay within the
\* ring's storage, which holds samples only.  (RingBuffer)
THEOREM HistoryTypesCorrect == HistorySpec => []HistoryTypeOK
<1>1. HistoryInit => RingTypes
  BY DEF HistoryInit, RingTypes, EmptyRing, Ring
<1>2. Inv /\ RingTypes /\ [HistoryNext]_historyVars => RingTypes'
  <2> SUFFICES ASSUME Inv, RingTypes, [HistoryNext]_historyVars PROVE RingTypes'
    OBVIOUS
  <2>1. RingOK(ring) /\ want \in Rooms /\ want \in Nat
    BY RoomsAssumption DEF Inv
  <2>2. CASE PushThenResize
    <3>1. PICK v \in Samples : ring' = Resized(PushBack(ring, v), want)
      BY <2>2 DEF PushThenResize
    <3>2. ring'.capacity = want
      BY <2>1, <3>1, PushRecords, ResizeKeepsNewest
    <3> QED  BY <2>1, <2>2, <3>2 DEF PushThenResize, RingTypes
  <2>3. CASE ResizeThenPush
    <3>1. PICK v \in Samples : ring' = PushBack(Resized(ring, want), v)
      BY <2>3 DEF ResizeThenPush
    <3>2. ring'.capacity = want
      BY <2>1, <3>1, PushRecords, ResizeKeepsNewest
    <3> QED  BY <2>1, <2>3, <3>2 DEF ResizeThenPush, RingTypes
  <2>4. CASE Layout \/ DrawAnew \/ DrawMoved \/ UNCHANGED historyVars
    BY <2>4 DEF Layout, DrawAnew, DrawMoved, historyVars, RingTypes
  <2> QED  BY <2>2, <2>3, <2>4 DEF HistoryNext
<1>3. Inv /\ RingTypes => HistoryTypeOK
  BY DEF Inv, RingOK, RingTypes, HistoryTypeOK
<1> QED
  BY <1>1, <1>2, <1>3, InitImplements, StepImplements, PTL DEF HistorySpec

\* Parents are processes, or none.
Parented(list) == \A p \in DOMAIN list : list[p].ppid \in Pids \cup {0}

\* The rest of ProcListTypeOK.
ReadTypes ==
  /\ \A p \in DOMAIN procMap : procMap[p] \in Pids \cup {0}
  /\ alivePids \subseteq Pids /\ deadProcs \subseteq DOMAIN procMap
  /\ Parented(entries)

NotedTypes ==
  /\ procFilter \in Filters \cup {NoFilter}
  /\ procTree \in BOOLEAN /\ paused \in BOOLEAN

LEMMA SettingsTypes ==
  ASSUME NotedTypes, NEW s \in Settings
  PROVE  /\ s.filter \in Filters \cup {NoFilter}
         /\ s.tree \in BOOLEAN
         /\ s.paused \in BOOLEAN
<1>1. CASE s = AsNoted
  BY <1>1 DEF AsNoted, NotedTypes
<1>2. CASE s = [AsNoted EXCEPT !.tree = ~ @]
  BY <1>2 DEF AsNoted, NotedTypes
<1>3. CASE s = [AsNoted EXCEPT !.paused = ~ @]
  BY <1>3 DEF AsNoted, NotedTypes
<1>4. CASE s \in {[AsNoted EXCEPT !.filter = f] : f \in Filters \cup {NoFilter}}
  BY <1>4 DEF AsNoted, NotedTypes
<1> QED  BY <1>1, <1>2, <1>3, <1>4 DEF Settings

LEMMA NoteTypes ==
  ASSUME NotedTypes, NEW s \in Settings, TakeNote(s)
  PROVE  NotedTypes'
<1>1. procFilter' = s.filter /\ procTree' = s.tree /\ paused' = s.paused
  BY DEF TakeNote
<1> QED  BY <1>1, SettingsTypes DEF NotedTypes

\* Filtering, folding, the tree and adoption give no process a parent that
\* is none of the system's.
LEMMA ArrangeParents ==
  ASSUME NEW list, Listing(list), Parented(list), NEW s, NEW alive, NEW update,
         NEW resorted, NEW fold, Arrange(list, s, alive, update, resorted, fold)
  PROVE  Parented(entries')
<1> DEFINE should == update \/ s.filter # procFilter
           passed == FilterPass(list, s, should)
           folded == Folded(passed, fold)
           tree == Adopted(folded, s, alive)
           asks == should \/ s.filter # NoFilter
           grown == TreeGen(tree, Matching(s), asks, update).list
<1>1. entries' = grown \/ entries' = passed
  BY DEF Arrange
<1>2. DOMAIN passed = DOMAIN list /\ Listing(passed)
  <2>1. should \in BOOLEAN
    OBVIOUS
  <2> HIDE DEF should
  <2> QED  BY <2>1, FilterPassList
<1>3. \A p \in DOMAIN list : passed[p].ppid = list[p].ppid
  <2> DEFINE out == [p \in DOMAIN list |-> ~ s.tree /\ p \notin Matching(s)]
  <2>1. \A p \in DOMAIN list :
          passed[p] = IF should THEN [list[p] EXCEPT !.filtered = out[p]] ELSE list[p]
    BY DEF FilterPass
  <2> HIDE DEF out, should, passed
  <2>2. \A p \in DOMAIN list :
          list[p] = [ppid |-> list[p].ppid, collapsed |-> list[p].collapsed,
                     filtered |-> list[p].filtered]
    BY DEF Listing
  <2>3. ASSUME NEW p \in DOMAIN list, should PROVE passed[p].ppid = list[p].ppid
    <3>1. passed[p] = [ppid |-> list[p].ppid, collapsed |-> list[p].collapsed,
                       filtered |-> out[p]]
      BY <2>1, <2>2, <2>3
    <3> QED  BY <3>1
  <2>4. ASSUME NEW p \in DOMAIN list, ~ should PROVE passed[p].ppid = list[p].ppid
    BY <2>1, <2>4
  <2> QED  BY <2>3, <2>4
<1> HIDE DEF passed
<1>4. /\ DOMAIN folded = DOMAIN list /\ Listing(folded)
      /\ \A p \in DOMAIN list : folded[p].ppid = passed[p].ppid
  <2> DEFINE folds == [p \in DOMAIN passed |-> folded[p].collapsed]
  <2>1. DOMAIN folded = DOMAIN list /\ Listing(folded)
    BY <1>2, FoldedList
  <2>2. ASSUME NEW p \in DOMAIN list PROVE folded[p].ppid = passed[p].ppid
    <3>1. PICK c : folded[p] = [passed[p] EXCEPT !.collapsed = c]
      BY <1>2 DEF Folded
    <3>2. passed[p] = [ppid |-> passed[p].ppid, collapsed |-> passed[p].collapsed,
                       filtered |-> passed[p].filtered]
      BY <1>2 DEF Listing
    <3>3. folded[p] = [ppid |-> passed[p].ppid, collapsed |-> c, filtered |-> passed[p].filtered]
      BY <3>1, <3>2
    <3> QED  BY <3>3
  <2> QED  BY <2>1, <2>2
<1> HIDE DEF folded
<1>5. /\ DOMAIN tree = DOMAIN list /\ Listing(tree)
      /\ \A p \in DOMAIN list : tree[p].ppid \in {0, folded[p].ppid}
  <2>1. DOMAIN tree = DOMAIN list /\ Listing(tree)
    BY <1>4, AdoptedList
  <2>2. ASSUME NEW p \in DOMAIN list PROVE tree[p].ppid \in {0, folded[p].ppid}
    <3>1. PICK to \in {0, folded[p].ppid} : tree[p] = [folded[p] EXCEPT !.ppid = to]
      BY <1>4 DEF Adopted
    <3>2. folded[p] = [ppid |-> folded[p].ppid, collapsed |-> folded[p].collapsed,
                       filtered |-> folded[p].filtered]
      BY <1>4 DEF Listing
    <3>3. tree[p] = [ppid |-> to, collapsed |-> folded[p].collapsed,
                     filtered |-> folded[p].filtered]
      BY <3>1, <3>2
    <3> QED  BY <3>3
  <2> QED  BY <2>1, <2>2
<1> HIDE DEF tree, asks, should
<1>6. DOMAIN grown = DOMAIN list /\ \A p \in DOMAIN list : grown[p].ppid = tree[p].ppid
  BY <1>5, TreeGenList
<1> HIDE DEF grown
<1>7. \A p \in DOMAIN list : list[p].ppid \in Pids \cup {0}
  BY DEF Parented
<1>8. CASE entries' = passed
  BY <1>2, <1>3, <1>7, <1>8 DEF Parented
<1>9. CASE entries' = grown
  BY <1>3, <1>4, <1>5, <1>6, <1>7, <1>9 DEF Parented
<1> QED  BY <1>1, <1>8, <1>9

LEMMA CollectAllTypes ==
  ASSUME CountInv, ReadTypes, NotedTypes, CollectAll
  PROVE  ReadTypes' /\ NotedTypes'
<1>1. PICK s \in Settings, system \in Systems : \E fold \in Folds(s) :
        LET alive == DOMAIN system
            known == MapAfterRead(system, s)
            kept == IF s.paused THEN known ELSE [p \in alive |-> known[p]]
        IN  /\ alivePids' = alive /\ procMap' = kept
            /\ deadProcs' = IF s.paused THEN deadProcs \cup (DOMAIN procMap \ alive) ELSE {}
            /\ Arrange([p \in DOMAIN kept |-> Entry(kept[p])], s, alive, TRUE, FALSE, fold)
            /\ TakeNote(s)
  BY DEF CollectAll
<1> DEFINE alive == DOMAIN system
           known == MapAfterRead(system, s)
           kept == IF s.paused THEN known ELSE [p \in alive |-> known[p]]
           list == [p \in DOMAIN kept |-> Entry(kept[p])]
<1>2. PICK fold \in Folds(s) :
        /\ alivePids' = alive /\ procMap' = kept
        /\ deadProcs' = IF s.paused THEN deadProcs \cup (DOMAIN procMap \ alive) ELSE {}
        /\ Arrange(list, s, alive, TRUE, FALSE, fold)
        /\ TakeNote(s)
  BY <1>1
<1>3. alive \subseteq Pids /\ \A p \in alive : system[p] \in Pids \cup {0}
  BY ProcListAssumption
<1>4. \A p \in DOMAIN procMap : procMap[p] \in Pids \cup {0}
  BY DEF ReadTypes
<1>5. deadProcs \subseteq DOMAIN procMap /\ DOMAIN procMap \subseteq Pids
  BY DEF ReadTypes, CountInv
<1>6. /\ DOMAIN known = DOMAIN procMap \cup (IF s.paused THEN {} ELSE alive)
      /\ \A p \in DOMAIN known :
           known[p] = IF p \in alive \ deadProcs THEN system[p] ELSE procMap[p]
  BY DEF MapAfterRead
<1> HIDE DEF known
<1>7. \A p \in DOMAIN known : known[p] \in Pids \cup {0}
  BY <1>3, <1>4, <1>5, <1>6
<1>8. /\ DOMAIN kept \subseteq Pids /\ \A p \in DOMAIN kept : kept[p] \in Pids \cup {0}
      /\ s.paused => DOMAIN kept = DOMAIN procMap
  BY <1>3, <1>5, <1>6, <1>7
<1>9. alivePids' \subseteq Pids /\ deadProcs' \subseteq DOMAIN procMap'
  <2>1. CASE s.paused
    BY <1>2, <1>3, <1>5, <1>8, <2>1
  <2>2. CASE ~ s.paused
    BY <1>2, <1>3, <2>2
  <2> QED  BY <2>1, <2>2
<1> HIDE DEF kept, alive
<1>10. DOMAIN list = DOMAIN kept /\ Listing(list) /\ Parented(list)
  BY <1>8 DEF Listing, Entry, Parented
<1> HIDE DEF list
<1>11. Parented(entries')
  <2> DEFINE update == TRUE
             resorted == FALSE
  <2>1. Arrange(list, s, alive, update, resorted, fold)
    BY <1>2
  <2> HIDE DEF update, resorted
  <2> QED  BY <1>10, <2>1, ArrangeParents
<1>12. NotedTypes'
  BY <1>2, NoteTypes
<1> QED  BY <1>2, <1>8, <1>9, <1>11, <1>12 DEF ReadTypes, Parented

\* Whoever starts, ends or is adopted, and wherever an update is stopped: the
\* list and the map it is made from keep their types, and every parent is a
\* process or none.  (Proc::collect)
THEOREM ProcListTypesCorrect == ProcListSpec => []ProcListTypeOK
<1>1. ProcListInit => ReadTypes /\ NotedTypes
  <2> SUFFICES ASSUME ProcListInit PROVE ReadTypes /\ NotedTypes
    OBVIOUS
  <2>1. DOMAIN entries = {} /\ DOMAIN procMap = {} /\ alivePids = {} /\ deadProcs = {}
    BY DEF ProcListInit
  <2>2. procTree \in BOOLEAN
    BY DEF ProcListInit
  <2>3. paused \in BOOLEAN
    BY DEF ProcListInit
  <2>4. procFilter = NoFilter
    BY DEF ProcListInit
  <2> QED  BY <2>1, <2>2, <2>3, <2>4 DEF ReadTypes, NotedTypes, Parented
<1>2. CountInv /\ ReadTypes /\ NotedTypes /\ [ProcListNext]_procListVars
        => ReadTypes' /\ NotedTypes'
  <2> SUFFICES ASSUME CountInv, ReadTypes, NotedTypes, [ProcListNext]_procListVars
               PROVE  ReadTypes' /\ NotedTypes'
    OBVIOUS
  <2>1. CASE CollectAll
    BY <2>1, CollectAllTypes
  <2>2. CASE CollectAgain
    <3>1. PICK s \in Settings, resorted \in BOOLEAN : \E fold \in Folds(s) :
            Arrange(entries, s, alivePids, FALSE, resorted, fold) /\ TakeNote(s)
      BY <2>2 DEF CollectAgain
    <3>2. PICK fold \in Folds(s) :
            Arrange(entries, s, alivePids, FALSE, resorted, fold) /\ TakeNote(s)
      BY <3>1
    <3>3. Parented(entries')
      <4> DEFINE update == FALSE
      <4>1. Listing(entries) /\ Parented(entries)
            /\ Arrange(entries, s, alivePids, update, resorted, fold)
        BY <3>2 DEF CountInv, ReadTypes
      <4> HIDE DEF update
      <4> QED  BY <4>1, ArrangeParents
    <3>4. UNCHANGED <<procMap, alivePids, deadProcs>>
      BY <2>2 DEF CollectAgain
    <3>5. NotedTypes'
      BY <3>2, NoteTypes
    <3> QED  BY <3>3, <3>4, <3>5 DEF ReadTypes, Parented
  <2>3. CASE CollectStopped
    <3>1. PICK s \in Settings, S \in {{p \in DOMAIN f : p <= upTo} : f \in Systems, upTo \in Pids} :
            /\ alivePids' = S
            /\ procMap' = [p \in DOMAIN procMap \cup (IF s.paused THEN {} ELSE S) |->
                             IF p \in DOMAIN procMap THEN procMap[p] ELSE 0]
            /\ TakeNote(s)
      BY <2>3 DEF CollectStopped
    <3>2. S \subseteq Pids
      BY ProcListAssumption
    <3>3. UNCHANGED <<deadProcs, entries>>
      BY <2>3 DEF CollectStopped
    <3>4. NotedTypes'
      BY <3>1, NoteTypes
    <3> QED  BY <3>1, <3>2, <3>3, <3>4 DEF ReadTypes, Parented
  <2>4. CASE UNCHANGED procListVars
    BY <2>4 DEF procListVars, ReadTypes, NotedTypes, Parented
  <2> QED  BY <2>1, <2>2, <2>3, <2>4 DEF ProcListNext
<1>3. ListInv /\ CountInv /\ ReadTypes /\ NotedTypes => ProcListTypeOK
  <2> SUFFICES ASSUME ListInv, CountInv, ReadTypes, NotedTypes PROVE ProcListTypeOK
    OBVIOUS
  <2>1. filterFound \in Nat /\ numpids = Cardinality(DOMAIN entries) - filterFound
        /\ DOMAIN procMap \subseteq Pids /\ muddled \in BOOLEAN /\ Listing(entries)
    BY DEF CountInv
  <2>2. numpids \in Int
    BY <2>1, HiddenFinite
  <2> QED  BY <2>1, <2>2 DEF ListInv, ReadTypes, NotedTypes, Parented, ProcListTypeOK
<1> QED
  BY <1>1, <1>2, <1>3, CountInvInit, CountInvStep, ListInvInit, ListStep, PTL DEF ProcListSpec
===========================================================================
