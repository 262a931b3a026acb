------------------------------- MODULE Numbers -------------------------------
(***************************************************************************)
(* Facts about numbers that the other proofs rest on: least and greatest   *)
(* elements, induction over 0 .. n, quotients, and what the timer makes of *)
(* them.  Induction is stated for sets, which a theorem can be about,      *)
(* where the library states it for predicates.                             *)
(***************************************************************************)
EXTENDS Integers, Sequences, Timer, WellFoundedInduction, TLAPS

\* A set of natural numbers has a least element.
LEMMA LeastNumber ==
  ASSUME NEW S, S \subseteq Nat, S # {}
  PROVE  \E m \in S : \A k \in S : m <= k
<1> DEFINE Less == {pair \in Nat \X Nat : pair[1] < pair[2]}
<1>1. IsWellFoundedOn(Less, Nat)
  BY NatLessThanWellFounded DEF OpToRel
<1>2. \A x, y \in Nat : <<x, y>> \in Less <=> x < y
  OBVIOUS
<1> HIDE DEF Less
<1>3. PICK m \in S : \A k \in S : <<k, m>> \notin Less
  BY <1>1, WFMin
<1>4. \A k \in S : k \in Nat
  OBVIOUS
<1>5. \A k \in S : ~(k < m)
  BY <1>2, <1>3, <1>4
<1> QED BY <1>4, <1>5

\* Induction, for a property given as the set of numbers that have it.
LEMMA SetInduction ==
  ASSUME NEW n \in Nat, NEW S, 0 \in S, \A k \in 0 .. n - 1 : k \in S => k + 1 \in S
  PROVE  \A k \in 0 .. n : k \in S
<1>1. SUFFICES ASSUME (0 .. n) \ S # {}
               PROVE  FALSE
  OBVIOUS
<1>2. PICK m \in (0 .. n) \ S : \A k \in (0 .. n) \ S : m <= k
  <2>1. (0 .. n) \ S \subseteq Nat
    OBVIOUS
  <2> QED BY <1>1, <2>1, LeastNumber
<1>3. m # 0 /\ m - 1 \in 0 .. n - 1 /\ m - 1 \in S
  BY <1>2
<1> QED BY <1>2, <1>3

\* A bounded one has a greatest.
LEMMA GreatestNumber ==
  ASSUME NEW n \in Nat, NEW S, S \subseteq 0 .. n, S # {}
  PROVE  \E m \in S : \A k \in S : k <= m
<1> DEFINE Mirrored == {i \in 0 .. n : n - i \in S}
<1>1. PICK s \in S : s \in 0 .. n
  OBVIOUS
<1>2. n - s \in Mirrored
  BY <1>1
<1>3. PICK i \in Mirrored : \A j \in Mirrored : i <= j
  <2>1. Mirrored \subseteq Nat
    OBVIOUS
  <2> QED BY <1>2, <2>1, LeastNumber
<1>4. \A k \in S : n - k \in Mirrored
  OBVIOUS
<1>5. n - i \in S
  OBVIOUS
<1> HIDE DEF Mirrored
<1>6. i \in Int
  BY <1>3 DEF Mirrored
<1>7. \A k \in S : k <= n - i
  BY <1>3, <1>4, <1>6
<1> QED BY <1>5, <1>7

\* A sequence of values, each made from the one before it, can be built.
IsIterated(f, n, V, base, step) ==
  /\ f \in [0 .. n -> V]
  /\ f[0] = base
  /\ \A k \in 1 .. n : f[k] = step[<<k, f[k - 1]>>]

LEMMA Iterated ==
  ASSUME NEW n \in Nat, NEW V, NEW base \in V, NEW step \in [(1 .. n) \X V -> V]
  PROVE  \E f : IsIterated(f, n, V, base, step)
<1> DEFINE Up(m) == {f \in [0 .. m -> V] : f[0] = base /\ \A k \in 1 .. m : f[k] = step[<<k, f[k - 1]>>]}
           S == {m \in 0 .. n : Up(m) # {}}
<1>1. 0 \in S
  <2>1. [k \in 0 .. 0 |-> base] \in Up(0)
    OBVIOUS
  <2> QED BY <2>1
<1>2. ASSUME NEW m \in 0 .. n - 1, m \in S
      PROVE  m + 1 \in S
  <2>1. PICK f : f \in Up(m)
    BY <1>2
  <2>2. f \in [0 .. m -> V] /\ f[0] = base /\ \A k \in 1 .. m : f[k] = step[<<k, f[k - 1]>>]
    BY <2>1
  <2> DEFINE v == step[<<m + 1, f[m]>>]
             g == [k \in 0 .. m + 1 |-> IF k <= m THEN f[k] ELSE v]
  <2>3. v \in V
    BY <2>2
  <2> HIDE DEF v
  <2>4. g \in [0 .. m + 1 -> V] /\ g[0] = base
    BY <2>2, <2>3
  <2>5. ASSUME NEW k \in 1 .. m + 1
        PROVE  g[k] = step[<<k, g[k - 1]>>]
    <3>1. CASE k <= m
      BY <2>2, <3>1
    <3>2. CASE k = m + 1
      <4>1. g[m + 1] = v /\ g[m] = f[m] /\ k - 1 = m
        BY <3>2
      <4> QED BY <3>2, <4>1 DEF v
    <3> QED BY <3>1, <3>2
  <2>6. g \in Up(m + 1)
    BY <2>4, <2>5
  <2> QED BY <2>6
<1> HIDE DEF S
<1>3. n \in S
  BY <1>1, <1>2, SetInduction
<1> QED BY <1>3 DEF S, IsIterated

------------------------------------------------------------------------------
\* The timer.

\* A quotient lies within one of the ratio.
LEMMA Quotient ==
  ASSUME NEW n \in Nat
  PROVE  /\ n \div 1000000 \in Nat
         /\ (n \div 1000000) * 1000000 <= n
         /\ n < (n \div 1000000) * 1000000 + 1000000
BY SMT

\* The timer is exact to the millisecond where the nanoseconds do not decrease
\* (acc_timer_delta, timer.c:33).
THEOREM DeltaWithinSecond ==
  ASSUME NEW start \in Time, NEW stop \in Time, start.nsec <= stop.nsec
  PROVE  /\ acc_timer_delta(start, stop) * 1000000 <= Elapsed(start, stop)
         /\ Elapsed(start, stop) < acc_timer_delta(start, stop) * 1000000 + 1000000
<1> DEFINE n == stop.nsec - start.nsec
           q == n \div 1000000
           s == stop.sec - start.sec
<1>1. n \in Nat /\ s \in Int
  BY SMT DEF Time
<1>2. /\ q \in Nat
      /\ q * 1000000 <= n
      /\ n < q * 1000000 + 1000000
  BY SMT, <1>1, Quotient
<1>3. acc_timer_delta(start, stop) = s * 1000 + q
  <2>1. InMillis(n) = q
    BY SMT, <1>1 DEF InMillis
  <2> HIDE DEF n, q
  <2>2. InMillis(stop.nsec - start.nsec) = q
    BY SMT, <2>1 DEF n
  <2> QED
    BY SMT, <1>1, <1>2, <2>2 DEF acc_timer_delta
<1>4. Elapsed(start, stop) = s * 1000000000 + n
  BY SMT DEF Elapsed
<1> HIDE DEF n, q, s
<1> QED
  BY SMT, <1>1, <1>2, <1>3, <1>4

\* Where they decrease by a millisecond or more, because a second began in
\* between, it is too high by at least two (the sign of delta, timer.c:36).
THEOREM DeltaTooHighAcrossSecond ==
  ASSUME NEW start \in Time, NEW stop \in Time, stop.nsec + 1000000 <= start.nsec
  PROVE  acc_timer_delta(start, stop) * 1000000 >= Elapsed(start, stop) + 2000000
<1> DEFINE n == start.nsec - stop.nsec
           q == n \div 1000000
           s == stop.sec - start.sec
<1>1. n \in Nat /\ n >= 1000000 /\ s \in Int
  BY SMT DEF Time
<1>2. /\ q \in Nat
      /\ q * 1000000 <= n
      /\ n < q * 1000000 + 1000000
  BY SMT, <1>1, Quotient
<1>3. q >= 1
  <2> HIDE DEF n, q
  <2> QED
    BY SMT, <1>1, <1>2
<1>4. acc_timer_delta(start, stop) = s * 1000 + q
  <2>1. /\ stop.nsec - start.nsec < 0
        /\ -(stop.nsec - start.nsec) = n
    BY SMT, <1>1 DEF Time
  <2>2. InMillis(stop.nsec - start.nsec) = -q
    BY SMT, <2>1 DEF InMillis, Time
  <2> HIDE DEF n, q
  <2> QED
    BY SMT, <1>1, <1>2, <1>3, <2>2 DEF acc_timer_delta
<1>5. Elapsed(start, stop) = s * 1000000000 - n
  BY SMT DEF Elapsed, Time
<1> HIDE DEF n, q, s
<1> QED
  BY SMT, <1>1, <1>2, <1>3, <1>4, <1>5
==============================================================================
