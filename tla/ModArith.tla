----------------------------- MODULE ModArith -----------------------------
(***************************************************************************)
(* Facts about % that the ring buffers rest on: unsigned counters wrap     *)
(* modulo 2^w and are reduced modulo the number of slots.  And the least   *)
(* number of a set, for the loops: a loop that does not do what it should  *)
(* has a round in which it first did not.                                  *)
(***************************************************************************)
EXTENDS Integers, FiniteSetTheorems, WellFoundedInduction, TLAPS

\* Division with remainder.
LEMMA DivMod ==
  ASSUME NEW m \in Nat \ {0}, NEW a \in Int
  PROVE  /\ a % m \in 0 .. m - 1
         /\ a \div m \in Int
         /\ a = m * (a \div m) + (a % m)
BY Z3

\* The remainder is determined by any decomposition.
LEMMA ModUnique ==
  ASSUME NEW m \in Nat \ {0}, NEW q \in Int, NEW r \in 0 .. m - 1
  PROVE  (m * q + r) % m = r
BY Z3

\* No multiple of m lies strictly between 0 and m.
LEMMA NoMultipleBetween ==
  ASSUME NEW m \in Nat \ {0}, NEW k \in Int, 0 < m * k, m * k < m
  PROVE  FALSE
<1>1. k >= 1
  BY Z3
<1>2. m * k >= m
  BY <1>1, Z3
<1> QED
  BY <1>2, Z3

\* Numbers less than m apart have different remainders: neighbouring
\* entries of a ring never share a slot.
LEMMA ModDistinct ==
  ASSUME NEW m \in Nat \ {0}, NEW a \in Int, NEW b \in Int, 0 < a - b, a - b < m
  PROVE  a % m # b % m
<1> DEFINE qa == a \div m
           qb == b \div m
           r == a % m
<1> SUFFICES ASSUME a % m = b % m PROVE FALSE
  OBVIOUS
<1>1. a = m * qa + r /\ qa \in Int /\ r \in Int
  BY DivMod, Z3
<1>2. b = m * qb + r /\ qb \in Int
  BY DivMod, Z3
<1> HIDE DEF qa, qb, r
<1>3. a - b = m * (qa - qb)
  BY <1>1, <1>2, Z3
<1>4. qa - qb \in Int
  BY <1>1, <1>2
<1> QED
  BY <1>3, <1>4, NoMultipleBetween

\* Adding a multiple of the modulus changes no remainder: a slot index
\* survives the wrap-around of its counter.
LEMMA ModShift ==
  ASSUME NEW m \in Nat \ {0}, NEW W \in Nat, W % m = 0, NEW n \in Int
  PROVE  (W + n) % m = n % m
<1> DEFINE c == W \div m
           q == n \div m
           r == n % m
<1>1. W = m * c /\ c \in Int
  BY DivMod, Z3
<1>2. n = m * q + r /\ q \in Int /\ r \in 0 .. m - 1
  BY DivMod, Z3
<1> HIDE DEF c, q, r
<1>3. W + n = m * (c + q) + r
  BY <1>1, <1>2, Z3
<1>4. (m * (c + q) + r) % m = r
  BY <1>1, <1>2, Z3
<1> QED
  BY <1>3, <1>4 DEF r
---------------------------------------------------------------------------
(* Loops.                                                                  *)

\* Below a number there are finitely many others.
LEMMA LeastNatural ==
  ASSUME NEW T, T \subseteq Nat, T # {}
  PROVE  \E n \in T : \A m \in T : n <= m
<1> DEFINE Below == {0 .. n : n \in T}
<1>1. Below \subseteq FiniteSubsetsOf(Nat)
  <2> SUFFICES ASSUME NEW n \in T PROVE 0 .. n \in FiniteSubsetsOf(Nat)
    OBVIOUS
  <2>1. IsFiniteSet(0 .. n)
    BY FS_Interval
  <2> QED  BY <2>1 DEF FiniteSubsetsOf
<1>2. Below # {}
  OBVIOUS
<1>3. IsWellFoundedOn(StrictSubsetOrdering(Nat), FiniteSubsetsOf(Nat))
  BY FS_StrictSubsetOrderingWellFounded
<1>4. \E b \in Below : \A c \in Below : <<c, b>> \notin StrictSubsetOrdering(Nat)
  <2> HIDE DEF Below
  <2> QED  BY <1>1, <1>2, <1>3, WFMin
<1>5. PICK n \in T : \A c \in Below : <<c, 0 .. n>> \notin StrictSubsetOrdering(Nat)
  BY <1>4
<1>6. ASSUME NEW m \in T PROVE n <= m
  <2>1. <<0 .. m, 0 .. n>> \notin StrictSubsetOrdering(Nat)
    BY <1>5
  <2>2. ~ (0 .. m \subseteq 0 .. n /\ 0 .. m # 0 .. n)
    BY <2>1 DEF StrictSubsetOrdering
  <2>3. CASE m < n
    <3>1. n \in 0 .. n /\ n \notin 0 .. m /\ 0 .. m \subseteq 0 .. n
      BY <2>3
    <3> QED  BY <3>1, <2>2
  <2> QED  BY <2>3
<1> QED BY <1>6
===========================================================================
