----------------------------- MODULE BimapProofs -----------------------------
(***************************************************************************)
(* Proofs about module Bimap, for every set of keys and values and every   *)
(* number of slots.  The inductive invariant IInv adds to TypeOK and Agree *)
(* that the domains of the key maps are finite with count elements, which  *)
(* is what the assertions of bimap_remove test.                            *)
(***************************************************************************)
EXTENDS Bimap, FiniteSetTheorems, TLAPS

Counted ==
  /\ IsFiniteSet(DOMAIN key1Map) /\ Cardinality(DOMAIN key1Map) = count
  /\ IsFiniteSet(DOMAIN key2Map) /\ Cardinality(DOMAIN key2Map) = count

InBounds == overrun => 2 * peak > Size + 1

IInv == TypeOK /\ Agree /\ Counted /\ InBounds

\* A key map numbers its c keys from 0 on.
Numbers(m, c) ==
  /\ m \in [DOMAIN m -> 0 .. c - 1]
  /\ IsFiniteSet(DOMAIN m)
  /\ Cardinality(DOMAIN m) = c
  /\ \A x, y \in DOMAIN m : m[x] = m[y] => x = y

\* What is left of it, and how it is renumbered, without key k of number idx.
Renumbered(m, c, k, idx) ==
  LET w == Without(m, k)
      r == ShiftDown(w, idx)
  IN  /\ DOMAIN w = DOMAIN m \ {k}
      /\ DOMAIN r = DOMAIN m \ {k}
      /\ IsFiniteSet(DOMAIN r)
      /\ Cardinality(DOMAIN w) = c - 1
      /\ Cardinality(DOMAIN r) = c - 1
      /\ \A x \in DOMAIN w : w[x] # idx
      /\ \A x \in DOMAIN m \ {k} : m[x] # idx
      /\ \A x \in DOMAIN r : r[x] = IF m[x] > idx THEN m[x] - 1 ELSE m[x]
      /\ r \in [DOMAIN r -> 0 .. c - 2]

------------------------------------------------------------------------------
\* Both key maps are such numberings.
LEMMA KeyMapsNumber ==
  ASSUME IInv
  PROVE  Numbers(key1Map, count) /\ Numbers(key2Map, count)
BY DEF IInv, TypeOK, Agree, Counted, Numbers, Live

\* Removing a key and renumbering leaves a numbering without a gap, in the same
\* order.
LEMMA ShiftedMap ==
  ASSUME NEW m, NEW c \in Nat, NEW k \in DOMAIN m, NEW idx,
         Numbers(m, c), m[k] = idx
  PROVE  Renumbered(m, c, k, idx)
<1> DEFINE w == Without(m, k)
<1> DEFINE r == ShiftDown(w, idx)
<1>1. DOMAIN w = DOMAIN m \ {k} /\ \A x \in DOMAIN w : w[x] = m[x]
  BY DEF Without
<1>2. DOMAIN r = DOMAIN w
      /\ \A x \in DOMAIN w : r[x] = IF w[x] > idx THEN w[x] - 1 ELSE w[x]
  BY DEF ShiftDown
<1>3. IsFiniteSet(DOMAIN m \ {k}) /\ Cardinality(DOMAIN m \ {k}) = c - 1
  BY FS_RemoveElement DEF Numbers
<1>4. \A x \in DOMAIN w : w[x] # idx
  BY <1>1 DEF Numbers
<1>5. \A x \in DOMAIN r : r[x] \in 0 .. c - 2
  <2> SUFFICES ASSUME NEW x \in DOMAIN r PROVE r[x] \in 0 .. c - 2
    OBVIOUS
  <2>1. m[x] \in 0 .. c - 1 /\ idx \in 0 .. c - 1 /\ m[x] # idx
    BY <1>1, <1>2, <1>4 DEF Numbers
  <2>2. r[x] = IF m[x] > idx THEN m[x] - 1 ELSE m[x]
    BY <1>1, <1>2
  <2> HIDE DEF r
  <2> QED BY <2>1, <2>2
<1>6. r = [x \in DOMAIN r |-> r[x]]
  BY DEF ShiftDown
<1>7. r \in [DOMAIN r -> 0 .. c - 2]
  <2> HIDE DEF r
  <2> QED BY <1>5, <1>6
<1> QED BY <1>1, <1>2, <1>3, <1>4, <1>7 DEF Renumbered

\* bimap_remove, called with the two keys of slot idx: its assertions hold, it
\* keeps the invariant, and the entries behind the slot move down by one.
LEMMA RemoveKeepsInv ==
  ASSUME IInv, SizeAssumption,
         NEW k1 \in DOMAIN key1Map, NEW k2 \in DOMAIN key2Map, NEW idx,
         key1Map[k1] = idx, key2Map[k2] = idx,
         bimap_remove(k1, k2, idx)
  PROVE  /\ IInv'
         /\ status' # "abort"
         /\ count > 0 /\ count' = count - 1 /\ idx \in Live
         /\ \A i \in Live' : datas'[i] = IF i < idx THEN datas[i] ELSE datas[i + 1]
<1> DEFINE w1 == Without(key1Map, k1)
           w2 == Without(key2Map, k2)
           r1 == ShiftDown(w1, idx)
           r2 == ShiftDown(w2, idx)
<1>1. count \in Nat /\ count <= Size /\ idx \in 0 .. count - 1 /\ Size \in Nat
  BY SizeAssumption DEF IInv, TypeOK, Live
<1>2. Renumbered(key1Map, count, k1, idx) /\ Renumbered(key2Map, count, k2, idx)
  BY <1>1, KeyMapsNumber, ShiftedMap
<1>3. /\ DOMAIN r1 = DOMAIN key1Map \ {k1}
      /\ IsFiniteSet(DOMAIN r1)
      /\ Cardinality(DOMAIN r1) = count - 1
      /\ \A x \in DOMAIN key1Map \ {k1} : key1Map[x] # idx
      /\ \A x \in DOMAIN r1 : r1[x] = IF key1Map[x] > idx THEN key1Map[x] - 1 ELSE key1Map[x]
      /\ r1 \in [DOMAIN r1 -> 0 .. count - 2]
      /\ DOMAIN r2 = DOMAIN key2Map \ {k2}
      /\ IsFiniteSet(DOMAIN r2)
      /\ Cardinality(DOMAIN r2) = count - 1
      /\ \A x \in DOMAIN key2Map \ {k2} : key2Map[x] # idx
      /\ \A x \in DOMAIN r2 : r2[x] = IF key2Map[x] > idx THEN key2Map[x] - 1 ELSE key2Map[x]
      /\ r2 \in [DOMAIN r2 -> 0 .. count - 2]
  BY <1>2 DEF Renumbered
<1> HIDE DEF r1, r2
<1>4. MapShrunk(w1, idx) /\ MapShrunk(w2, idx)
  BY <1>2 DEF MapShrunk, Renumbered
<1>5. /\ key1Map' = r1
      /\ key2Map' = r2
      /\ datas' = MoveDown(idx)
      /\ count' = count - 1
      /\ overrun' = (overrun \/ Overruns(idx))
      /\ status' \in IF Overruns(idx) THEN {"running", "crash"} ELSE {"running"}
      /\ peak' = peak
  BY <1>4 DEF bimap_remove, r1, r2
<1>6. \A i \in 0 .. count - 2 :
        datas'[i] = IF i < idx THEN datas[i] ELSE datas[i + 1]
  BY <1>1, <1>5 DEF MoveDown, Slot
<1>7. status' \in {"running", "crash"}
  BY <1>5
<1>8. TypeOK'
  <2>1. count' \in 0 .. Size /\ peak' \in count' .. Size
    BY <1>1, <1>5 DEF IInv, TypeOK
  <2>2. DOMAIN key1Map' \subseteq Key1 /\ DOMAIN key2Map' \subseteq Key2
    BY <1>3, <1>5 DEF IInv, TypeOK
  <2>3. key1Map' \in [DOMAIN key1Map' -> Live'] /\ key2Map' \in [DOMAIN key2Map' -> Live']
    <3>1. Live' = 0 .. count - 2
      BY <1>1, <1>5 DEF Live
    <3> QED BY <3>1, <1>3, <1>5
  <2>4. datas' \in [Slot -> Entry \cup {Garbage}]
    BY <1>5 DEF MoveDown, IInv, TypeOK
  <2>5. overrun' \in BOOLEAN
    BY <1>5 DEF Overruns, IInv, TypeOK
  <2> QED BY <2>1, <2>2, <2>3, <2>4, <2>5, <1>7 DEF TypeOK, Slot, Entry
<1>9. Agree'
  <2>1. ASSUME NEW k \in DOMAIN key1Map'
        PROVE  datas'[key1Map'[k]].k1 = k
    <3>1. k \in DOMAIN key1Map /\ k # k1
      BY <1>3, <1>5
    <3>2. key1Map[k] \in 0 .. count - 1 /\ key1Map[k] # idx /\ datas[key1Map[k]].k1 = k
      BY <3>1, <1>3 DEF IInv, TypeOK, Agree, Live
    <3>3. key1Map'[k] = IF key1Map[k] > idx THEN key1Map[k] - 1 ELSE key1Map[k]
      BY <1>3, <1>5
    <3>4. key1Map'[k] \in 0 .. count - 2
      BY <3>2, <3>3, <1>1
    <3> QED BY <3>2, <3>3, <3>4, <1>1, <1>6
  <2>2. ASSUME NEW k \in DOMAIN key2Map'
        PROVE  datas'[key2Map'[k]].k2 = k
    <3>1. k \in DOMAIN key2Map /\ k # k2
      BY <1>3, <1>5
    <3>2. key2Map[k] \in 0 .. count - 1 /\ key2Map[k] # idx /\ datas[key2Map[k]].k2 = k
      BY <3>1, <1>3 DEF IInv, TypeOK, Agree, Live
    <3>3. key2Map'[k] = IF key2Map[k] > idx THEN key2Map[k] - 1 ELSE key2Map[k]
      BY <1>3, <1>5
    <3>4. key2Map'[k] \in 0 .. count - 2
      BY <3>2, <3>3, <1>1
    <3> QED BY <3>2, <3>3, <3>4, <1>1, <1>6
  <2>3. ASSUME NEW i \in Live'
        PROVE  /\ datas'[i] \in Entry
               /\ datas'[i].k1 \in DOMAIN key1Map' /\ key1Map'[datas'[i].k1] = i
               /\ datas'[i].k2 \in DOMAIN key2Map' /\ key2Map'[datas'[i].k2] = i
    <3> DEFINE j == IF i < idx THEN i ELSE i + 1
    <3>1. i \in 0 .. count - 2
      BY <1>1, <1>5 DEF Live
    <3>2. j \in 0 .. count - 1 /\ j # idx /\ i = IF j > idx THEN j - 1 ELSE j
      BY <3>1, <1>1
    <3>3. datas'[i] = datas[j]
      BY <3>1, <1>6
    <3> HIDE DEF j
    <3>4. /\ datas[j] \in Entry
          /\ datas[j].k1 \in DOMAIN key1Map /\ key1Map[datas[j].k1] = j
          /\ datas[j].k2 \in DOMAIN key2Map /\ key2Map[datas[j].k2] = j
      BY <3>2 DEF IInv, Agree, Live
    <3>5. datas[j].k1 # k1 /\ datas[j].k2 # k2
      BY <3>2, <3>4
    <3> QED BY <3>2, <3>3, <3>4, <3>5, <1>3, <1>5
  <2> QED BY <2>1, <2>2, <2>3 DEF Agree, Entry
<1>10. Counted'
  BY <1>3, <1>5 DEF Counted
<1>11. InBounds'
  <2>1. peak \in Nat /\ count <= peak
    BY <1>1 DEF IInv, TypeOK
  <2>2. Overruns(idx) => 2 * peak > Size + 1
    BY <2>1, <1>1 DEF Overruns
  <2> QED BY <2>2, <1>5 DEF InBounds, IInv
<1> QED BY <1>1, <1>5, <1>6, <1>7, <1>8, <1>9, <1>10, <1>11 DEF IInv, Live

\* An insertion that passes its assertions keeps the invariant.
LEMMA InsertKeepsInv ==
  ASSUME IInv, SizeAssumption,
         NEW k1 \in Key1, NEW k2 \in Key2, NEW v \in Val,
         bimap_insert(k1, k2, v), CanInsert(k1, k2)
  PROVE  /\ IInv'
         /\ status' = status
         /\ count' = count + 1 /\ count \in Slot
         /\ datas'[count] = [v |-> v, k1 |-> k1, k2 |-> k2]
         /\ \A i \in Live : datas'[i] = datas[i]
<1> DEFINE e == [v |-> v, k1 |-> k1, k2 |-> k2]
<1>1. /\ count \in Nat /\ count < Size /\ Size \in Nat /\ Live = 0 .. count - 1
      /\ key1Map \in [DOMAIN key1Map -> 0 .. count - 1]
      /\ key2Map \in [DOMAIN key2Map -> 0 .. count - 1]
      /\ datas \in [0 .. Size - 1 -> Entry \cup {Garbage}]
  BY SizeAssumption DEF IInv, TypeOK, CanInsert, Live, Slot
<1>2. /\ datas' = [datas EXCEPT ![count] = e]
      /\ key1Map' = [x \in DOMAIN key1Map \cup {k1} |-> IF x = k1 THEN count ELSE key1Map[x]]
      /\ key2Map' = [x \in DOMAIN key2Map \cup {k2} |-> IF x = k2 THEN count ELSE key2Map[x]]
      /\ count' = count + 1
      /\ peak' = IF count + 1 > peak THEN count + 1 ELSE peak
      /\ overrun' = overrun /\ status' = status
  BY DEF bimap_insert, Die
<1>3. k1 \notin DOMAIN key1Map /\ k2 \notin DOMAIN key2Map
  BY DEF CanInsert
<1>4. e \in Entry
  BY DEF Entry
<1>5. datas'[count] = e /\ \A i \in Live : datas'[i] = datas[i]
  BY <1>1, <1>2
<1>6. Live' = 0 .. count
  BY <1>1, <1>2 DEF Live
<1> HIDE DEF e
<1>7. TypeOK'
  <2>1. count' \in 0 .. Size /\ peak' \in count' .. Size
    BY <1>1, <1>2 DEF IInv, TypeOK
  <2>2. DOMAIN key1Map' \subseteq Key1 /\ DOMAIN key2Map' \subseteq Key2
    BY <1>2 DEF IInv, TypeOK
  <2>3. key1Map' \in [DOMAIN key1Map' -> Live'] /\ key2Map' \in [DOMAIN key2Map' -> Live']
    BY <1>1, <1>2, <1>6
  <2>4. datas' \in [Slot -> Entry \cup {Garbage}]
    BY <1>1, <1>2, <1>4 DEF Slot
  <2> QED BY <2>1, <2>2, <2>3, <2>4, <1>2 DEF TypeOK, Slot, Entry, IInv
<1>8. Agree'
  <2>1. ASSUME NEW k \in DOMAIN key1Map'
        PROVE  datas'[key1Map'[k]].k1 = k
    <3>1. CASE k = k1
      BY <3>1, <1>2, <1>5 DEF e
    <3>2. CASE k \in DOMAIN key1Map /\ k # k1
      BY <3>2, <1>1, <1>2, <1>5 DEF IInv, Agree
    <3> QED BY <3>1, <3>2, <1>2
  <2>2. ASSUME NEW k \in DOMAIN key2Map'
        PROVE  datas'[key2Map'[k]].k2 = k
    <3>1. CASE k = k2
      BY <3>1, <1>2, <1>5 DEF e
    <3>2. CASE k \in DOMAIN key2Map /\ k # k2
      BY <3>2, <1>1, <1>2, <1>5 DEF IInv, Agree
    <3> QED BY <3>1, <3>2, <1>2
  <2>3. ASSUME NEW i \in Live'
        PROVE  /\ datas'[i] \in Entry
               /\ datas'[i].k1 \in DOMAIN key1Map' /\ key1Map'[datas'[i].k1] = i
               /\ datas'[i].k2 \in DOMAIN key2Map' /\ key2Map'[datas'[i].k2] = i
    <3>1. CASE i = count
      BY <3>1, <1>2, <1>4, <1>5 DEF e
    <3>2. CASE i \in Live
      <4>1. /\ datas[i] \in Entry
            /\ datas[i].k1 \in DOMAIN key1Map /\ key1Map[datas[i].k1] = i
            /\ datas[i].k2 \in DOMAIN key2Map /\ key2Map[datas[i].k2] = i
        BY <3>2 DEF IInv, Agree
      <4> QED BY <4>1, <3>2, <1>2, <1>3, <1>5
    <3> QED BY <3>1, <3>2, <1>1, <1>6
  <2> QED BY <2>1, <2>2, <2>3 DEF Agree, Entry
<1>9. Counted'
  <2>1. /\ IsFiniteSet(DOMAIN key1Map \cup {k1})
        /\ Cardinality(DOMAIN key1Map \cup {k1}) = count + 1
    BY <1>3, FS_AddElement DEF IInv, Counted
  <2>2. /\ IsFiniteSet(DOMAIN key2Map \cup {k2})
        /\ Cardinality(DOMAIN key2Map \cup {k2}) = count + 1
    BY <1>3, FS_AddElement DEF IInv, Counted
  <2> QED BY <2>1, <2>2, <1>2 DEF Counted
<1>10. InBounds'
  <2>1. peak \in Nat
    BY <1>1 DEF IInv, TypeOK
  <2> QED BY <2>1, <1>1, <1>2 DEF InBounds, IInv
<1> QED BY <1>1, <1>2, <1>5, <1>7, <1>8, <1>9, <1>10 DEF IInv, Slot, e

\* The two removals call bimap_remove with the two keys of one slot.
LEMMA RemoveByKey1 ==
  ASSUME IInv, NEW k1 \in DOMAIN key1Map
  PROVE  LET i == key1Map[k1]
         IN  i \in Live /\ datas[i].k1 = k1
             /\ datas[i].k2 \in DOMAIN key2Map /\ key2Map[datas[i].k2] = i
BY DEF IInv, TypeOK, Agree

LEMMA RemoveByKey2 ==
  ASSUME IInv, NEW k2 \in DOMAIN key2Map
  PROVE  LET i == key2Map[k2]
         IN  i \in Live /\ datas[i].k2 = k2
             /\ datas[i].k1 \in DOMAIN key1Map /\ key1Map[datas[i].k1] = i
BY DEF IInv, TypeOK, Agree

LEMMA StutterKeepsInv == ASSUME IInv, UNCHANGED vars PROVE IInv'
BY DEF IInv, TypeOK, Agree, Counted, InBounds, vars, Live, Slot, Entry

LEMMA DeathKeepsInv ==
  ASSUME IInv, UNCHANGED <<key1Map, key2Map, datas, count, overrun, peak>>,
         status' = "abort"
  PROVE  IInv'
BY DEF IInv, TypeOK, Agree, Counted, InBounds, Live, Slot, Entry

LEMMA InitInv == ASSUME SizeAssumption, Init PROVE IInv
<1>1. TypeOK
  <2>1. DOMAIN key1Map = {} /\ DOMAIN key2Map = {}
    BY DEF Init
  <2>2. key1Map \in [{} -> Live] /\ key2Map \in [{} -> Live]
    BY DEF Init
  <2>3. count \in 0 .. Size /\ peak \in count .. Size
    BY DEF SizeAssumption, Init
  <2>4. datas \in [Slot -> Entry \cup {Garbage}]
    BY DEF Init
  <2>5. overrun \in BOOLEAN /\ status \in {"running", "abort", "crash"}
    BY DEF Init
  <2> QED BY <2>1, <2>2, <2>3, <2>4, <2>5 DEF TypeOK
<1>2. Agree
  BY DEF Init, Agree, Live
<1>3. Counted
  BY FS_EmptySet DEF Init, Counted
<1>4. InBounds
  BY DEF Init, InBounds
<1> QED BY <1>1, <1>2, <1>3, <1>4 DEF IInv

LEMMA NextInv == ASSUME SizeAssumption, IInv, [Next]_vars PROVE IInv'
<1>1. ASSUME NEW k1 \in Key1, NEW k2 \in Key2, NEW v \in Val, bimap_insert(k1, k2, v)
      PROVE  IInv'
  <2>1. CASE CanInsert(k1, k2)
    BY <2>1, <1>1, InsertKeepsInv
  <2>2. CASE ~CanInsert(k1, k2)
    BY <2>2, <1>1, DeathKeepsInv DEF bimap_insert, Die
  <2> QED BY <2>1, <2>2
<1>2. ASSUME NEW k1 \in Key1, bimap_remove_by_key_1(k1) PROVE IInv'
  <2>1. CASE k1 \in DOMAIN key1Map
    BY <2>1, <1>2, RemoveByKey1, RemoveKeepsInv DEF bimap_remove_by_key_1
  <2>2. CASE k1 \notin DOMAIN key1Map
    BY <2>2, <1>2, StutterKeepsInv DEF bimap_remove_by_key_1
  <2> QED BY <2>1, <2>2
<1>3. ASSUME NEW k2 \in Key2, bimap_remove_by_key_2(k2) PROVE IInv'
  <2>1. CASE k2 \in DOMAIN key2Map
    BY <2>1, <1>3, RemoveByKey2, RemoveKeepsInv DEF bimap_remove_by_key_2
  <2>2. CASE k2 \notin DOMAIN key2Map
    BY <2>2, <1>3, StutterKeepsInv DEF bimap_remove_by_key_2
  <2> QED BY <2>1, <2>2
<1>4. CASE UNCHANGED vars
  BY <1>4, StutterKeepsInv
<1> QED BY <1>1, <1>2, <1>3, <1>4 DEF Next

------------------------------------------------------------------------------
\* The strengthened invariant: it is established by Init and kept by every step.
THEOREM StrongInvariant == Spec => []IInv
<1>1. Init => IInv
  BY SizeAssumption, InitInv
<1>2. IInv /\ [Next]_vars => IInv'
  BY SizeAssumption, NextInv
<1> QED BY <1>1, <1>2, PTL DEF Spec

\* The state of a two-key map of any size over any keys is well formed.
THEOREM TypeCorrect == Spec => []TypeOK
<1>1. IInv => TypeOK
  BY DEF IInv
<1> QED BY <1>1, StrongInvariant, PTL

\* For every number of slots, the two key maps and the array agree after any
\* sequence of insertions and removals.
THEOREM MapsAgree == Spec => []Agree
<1>1. IInv => Agree
  BY DEF IInv
<1> QED BY <1>1, StrongInvariant, PTL

\* For every number of slots, the memmove of bimap_remove stays inside the array
\* of a map that was never filled beyond half.
THEOREM MoveStaysInside == Spec => []HalfFullStaysInside
<1>1. IInv => HalfFullStaysInside
  <2> SUFFICES ASSUME IInv, 2 * peak <= Size + 1 PROVE ~overrun
    BY DEF HalfFullStaysInside
  <2>1. peak \in Nat /\ Size \in Nat
    BY SizeAssumption DEF IInv, TypeOK
  <2> QED BY <2>1 DEF IInv, InBounds
<1> QED BY <1>1, StrongInvariant, PTL

\* The assertions of bimap_remove hold in every reachable state.
THEOREM AssertionsHold == Spec => RemovalNeverAborts
<1> DEFINE A == (\/ \E k1 \in Key1 : bimap_remove_by_key_1(k1)
                \/ \E k2 \in Key2 : bimap_remove_by_key_2(k2))
               => status' # "abort"
<1>1. ASSUME IInv, NEW k1 \in Key1, bimap_remove_by_key_1(k1)
      PROVE  status' # "abort"
  <2>1. CASE k1 \in DOMAIN key1Map
    BY SizeAssumption, <1>1, <2>1, RemoveByKey1, RemoveKeepsInv DEF bimap_remove_by_key_1
  <2>2. CASE k1 \notin DOMAIN key1Map
    BY <1>1, <2>2 DEF bimap_remove_by_key_1, vars
  <2> QED BY <2>1, <2>2
<1>2. ASSUME IInv, NEW k2 \in Key2, bimap_remove_by_key_2(k2)
      PROVE  status' # "abort"
  <2>1. CASE k2 \in DOMAIN key2Map
    BY SizeAssumption, <1>2, <2>1, RemoveByKey2, RemoveKeepsInv DEF bimap_remove_by_key_2
  <2>2. CASE k2 \notin DOMAIN key2Map
    BY <1>2, <2>2 DEF bimap_remove_by_key_2, vars
  <2> QED BY <2>1, <2>2
<1>3. IInv /\ [Next]_vars => [A]_vars
  BY <1>1, <1>2
<1> QED BY <1>3, StrongInvariant, PTL DEF Spec, RemovalNeverAborts

------------------------------------------------------------------------------
\* The mapping to the plain set of entries.

\* Different slots in use hold different entries, so that counting the slots is
\* counting the entries.
LEMMA StoredCounts ==
  ASSUME IInv
  PROVE  IsFiniteSet(Stored) /\ Cardinality(Stored) = count
<1> DEFINE f == [i \in Live |-> datas[i]]
<1>1. count \in Nat
  BY SizeAssumption DEF IInv, TypeOK
<1>2. IsFiniteSet(Live) /\ Cardinality(Live) = count
  BY <1>1, FS_Interval DEF Live
<1>3. \A i, j \in Live : datas[i] = datas[j] => i = j
  BY DEF IInv, Agree
<1>4. f \in Injection(Live, Stored)
  BY <1>3 DEF Injection, IsInjective, Stored
<1>5. f \in Surjection(Live, Stored)
  BY DEF Surjection, Stored
<1> QED BY <1>2, <1>4, <1>5, FS_Surjection

\* Slot i is the only one with its first key, and the only one with its second.
LEMMA KeysIdentify ==
  ASSUME IInv, NEW i \in Live
  PROVE  /\ Table!Having1(datas[i].k1) = {datas[i]}
         /\ Table!Having2(datas[i].k2) = {datas[i]}
<1>1. \A j \in Live : /\ datas[j].k1 = datas[i].k1 => j = i
                      /\ datas[j].k2 = datas[i].k2 => j = i
  BY DEF IInv, Agree
<1> QED BY <1>1 DEF Table!Having1, Table!Having2, Stored

\* A key that is not in its map occurs in no entry.
LEMMA UnknownKeys ==
  ASSUME IInv
  PROVE  /\ \A k : k \notin DOMAIN key1Map => Table!Having1(k) = {}
         /\ \A k : k \notin DOMAIN key2Map => Table!Having2(k) = {}
BY DEF IInv, Agree, Table!Having1, Table!Having2, Stored

LEMMA StoredAdded ==
  ASSUME IInv, SizeAssumption,
         NEW k1 \in Key1, NEW k2 \in Key2, NEW v \in Val,
         bimap_insert(k1, k2, v), CanInsert(k1, k2)
  PROVE  Table!Add([v |-> v, k1 |-> k1, k2 |-> k2])
<1> DEFINE e == [v |-> v, k1 |-> k1, k2 |-> k2]
<1>1. /\ count' = count + 1 /\ count \in Slot
      /\ datas'[count] = e
      /\ \A i \in Live : datas'[i] = datas[i]
  BY InsertKeepsInv
<1>2. Live' = Live \cup {count}
  BY <1>1, SizeAssumption DEF Live, Slot
<1>3. Stored' = Stored \cup {e}
  <2> HIDE DEF e
  <2>1. Stored' = {datas'[i] : i \in Live'}
    BY DEF Stored
  <2> QED BY <1>1, <1>2, <2>1 DEF Stored
<1>4. Table!Having1(k1) = {} /\ Table!Having2(k2) = {}
  BY UnknownKeys DEF CanInsert
<1>5. Cardinality(Stored) < Size
  BY <1>1, StoredCounts, SizeAssumption DEF Slot
<1>6. Table!Cardinality(Stored) = Cardinality(Stored)
  BY DEF Table!Cardinality, Cardinality
<1> QED BY <1>3, <1>4, <1>5, <1>6 DEF Table!Add

LEMMA StoredRemoved ==
  ASSUME IInv, SizeAssumption,
         NEW k1 \in DOMAIN key1Map, NEW k2 \in DOMAIN key2Map, NEW idx,
         key1Map[k1] = idx, key2Map[k2] = idx,
         bimap_remove(k1, k2, idx)
  PROVE  Table!RemoveBy1(k1) /\ Table!RemoveBy2(k2)
<1>1. /\ count > 0 /\ count' = count - 1 /\ idx \in Live
      /\ \A i \in Live' : datas'[i] = IF i < idx THEN datas[i] ELSE datas[i + 1]
  BY RemoveKeepsInv
<1>2. count \in Nat
  BY SizeAssumption DEF IInv, TypeOK
<1>3. Live' = 0 .. count - 2
  BY <1>1, <1>2 DEF Live
<1>4. Stored' = {datas[i] : i \in Live \ {idx}}
  <2>1. ASSUME NEW i \in Live'
        PROVE  \E j \in Live \ {idx} : datas'[i] = datas[j]
    <3>1. CASE i < idx
      BY <3>1, <1>1, <1>2, <1>3 DEF Live
    <3>2. CASE ~(i < idx)
      <4>1. i + 1 \in Live \ {idx}
        BY <3>2, <1>1, <1>2, <1>3 DEF Live
      <4> QED BY <4>1, <3>2, <1>1
    <3> QED BY <3>1, <3>2
  <2>2. ASSUME NEW j \in Live \ {idx}
        PROVE  \E i \in Live' : datas'[i] = datas[j]
    <3>1. CASE j < idx
      <4>1. j \in Live'
        BY <3>1, <1>1, <1>2, <1>3 DEF Live
      <4> QED BY <4>1, <3>1, <1>1
    <3>2. CASE j > idx
      <4>1. j - 1 \in Live' /\ ~(j - 1 < idx) /\ (j - 1) + 1 = j
        BY <3>2, <1>1, <1>2, <1>3 DEF Live
      <4> QED BY <4>1, <1>1
    <3> QED BY <3>1, <3>2, <1>1, <1>2 DEF Live
  <2> QED BY <2>1, <2>2 DEF Stored
<1>5. \A i \in Live \ {idx} : datas[i] # datas[idx]
  BY <1>1 DEF IInv, Agree
<1>6. Stored' = Stored \ {datas[idx]}
  <2>1. \A e : e \in Stored \ {datas[idx]} <=> \E i \in Live \ {idx} : e = datas[i]
    BY <1>1, <1>5 DEF Stored
  <2>2. \A e : e \in Stored' <=> \E i \in Live \ {idx} : e = datas[i]
    BY <1>4
  <2> QED BY <2>1, <2>2
<1>7. datas[idx].k1 = k1 /\ datas[idx].k2 = k2
  BY DEF IInv, Agree
<1>8. Table!Having1(k1) = {datas[idx]} /\ Table!Having2(k2) = {datas[idx]}
  BY <1>1, <1>7, KeysIdentify
<1> QED BY <1>6, <1>8 DEF Table!RemoveBy1, Table!RemoveBy2

\* The array with its two key maps implements the set of entries, for every
\* number of slots: an insertion adds its entry, a removal takes the entry of its
\* key away, and every other step leaves the set as it is.
THEOREM BimapImplementsTable == Spec => ImplementsPairTable
<1>1. Init => Table!Init
  BY DEF Init, Table!Init, Stored, Live
<1>2. ASSUME SizeAssumption, IInv, [Next]_vars
      PROVE  [Table!Next]_Stored
  <2>1. ASSUME NEW k1 \in Key1, NEW k2 \in Key2, NEW v \in Val, bimap_insert(k1, k2, v)
        PROVE  [Table!Next]_Stored
    <3>1. CASE CanInsert(k1, k2)
      <4>1. [v |-> v, k1 |-> k1, k2 |-> k2] \in Table!Entry
        BY DEF Table!Entry
      <4>2. Table!Add([v |-> v, k1 |-> k1, k2 |-> k2])
        BY <1>2, <2>1, <3>1, StoredAdded
      <4> QED BY <4>1, <4>2 DEF Table!Next
    <3>2. CASE ~CanInsert(k1, k2)
      BY <2>1, <3>2 DEF bimap_insert, Die, Stored, Live
    <3> QED BY <3>1, <3>2
  <2>2. ASSUME NEW k1 \in Key1, bimap_remove_by_key_1(k1)
        PROVE  [Table!Next]_Stored
    <3>1. CASE k1 \in DOMAIN key1Map
      BY <1>2, <2>2, <3>1, RemoveByKey1, StoredRemoved
        DEF bimap_remove_by_key_1, Table!Next
    <3>2. CASE k1 \notin DOMAIN key1Map
      BY <2>2, <3>2 DEF bimap_remove_by_key_1, vars, Stored, Live
    <3> QED BY <3>1, <3>2
  <2>3. ASSUME NEW k2 \in Key2, bimap_remove_by_key_2(k2)
        PROVE  [Table!Next]_Stored
    <3>1. CASE k2 \in DOMAIN key2Map
      BY <1>2, <2>3, <3>1, RemoveByKey2, StoredRemoved
        DEF bimap_remove_by_key_2, Table!Next
    <3>2. CASE k2 \notin DOMAIN key2Map
      BY <2>3, <3>2 DEF bimap_remove_by_key_2, vars, Stored, Live
    <3> QED BY <3>1, <3>2
  <2>4. CASE UNCHANGED vars
    BY <2>4 DEF vars, Stored, Live
  <2> QED BY <1>2, <2>1, <2>2, <2>3, <2>4 DEF Next
<1>3. SizeAssumption
  BY SizeAssumption
<1> QED BY <1>1, <1>2, <1>3, StrongInvariant, PTL
      DEF Spec, ImplementsPairTable, Table!Spec

\* A lookup by either key returns what the set of entries holds for it, whatever
\* the slots have been through.
THEOREM LookupsCorrect == Spec => []LookupsFindStored
<1>1. IInv => LookupsFindStored
  <2> SUFFICES ASSUME IInv PROVE LookupsFindStored
    OBVIOUS
  <2>1. ASSUME NEW k \in Key1
        PROVE  bimap_get_value_by_key_1(k) = Table!Having1(k)
    <3>1. CASE k \in DOMAIN key1Map
      <4>1. key1Map[k] \in Live /\ datas[key1Map[k]].k1 = k
        BY <3>1, RemoveByKey1
      <4> QED BY <3>1, <4>1, KeysIdentify DEF bimap_get_value_by_key_1
    <3>2. CASE k \notin DOMAIN key1Map
      BY <3>2, UnknownKeys DEF bimap_get_value_by_key_1
    <3> QED BY <3>1, <3>2
  <2>2. ASSUME NEW k \in Key2
        PROVE  bimap_get_value_by_key_2(k) = Table!Having2(k)
    <3>1. CASE k \in DOMAIN key2Map
      <4>1. key2Map[k] \in Live /\ datas[key2Map[k]].k2 = k
        BY <3>1, RemoveByKey2
      <4> QED BY <3>1, <4>1, KeysIdentify DEF bimap_get_value_by_key_2
    <3>2. CASE k \notin DOMAIN key2Map
      BY <3>2, UnknownKeys DEF bimap_get_value_by_key_2
    <3> QED BY <3>1, <3>2
  <2> QED BY <2>1, <2>2 DEF LookupsFindStored
<1> QED BY <1>1, StrongInvariant, PTL
==============================================================================
