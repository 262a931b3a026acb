-------------------------- MODULE AssociativeProofs --------------------------
(***************************************************************************)
(* Proofs about module Associative: for every set of keys, and whatever    *)
(* the sizes, the binary search ends on the floor of the key sought, the   *)
(* array stays sorted, and the container is a finite map.  What an array   *)
(* looks like after an insertion or a removal is stated for arrays as      *)
(* values (SortedArray, OfArray), apart from the search.                   *)
(***************************************************************************)
EXTENDS Associative, TLAPS

\* An array of c entries: its keys increase; the partial function it stands for.
KeysOf(ds, c) == {ds[i].key : i \in 0 .. c - 1}
SortedArray(ds, c) == \A i, j \in 0 .. c - 1 : i < j => ds[i].key < ds[j].key

OfArray(ds, c) ==
  [k \in KeysOf(ds, c) |->
     ds[CHOOSE i \in 0 .. c - 1 : ds[i].key = k].data]

\* What the search has found out: entries before its part of the array are not
\* behind the key sought, those after the part are.
SearchOK ==
  pc = "search" =>
    /\ n >= 1 /\ start + n <= count
    /\ \A i \in Index : i < start => datas[i].key <= req.key
    /\ \A i \in Index : start + n <= i => req.key < datas[i].key

AInv == TypeOK /\ Sorted /\ SearchOK /\ FindsFloor

------------------------------------------------------------------------------
\* Arrays, and the arrays after an insertion behind place i and a removal.

Inserted(ds, c, i, e) ==
  [j \in 0 .. c |-> CASE j <= i -> ds[j] [] j = i + 1 -> e [] OTHER -> ds[j - 1]]
Removed(ds, c, i) == [j \in 0 .. c - 2 |-> IF j < i THEN ds[j] ELSE ds[j + 1]]

\* The functions they stand for.
Gains(f, x, d) == [k \in DOMAIN f \cup {x} |-> IF k = x THEN d ELSE f[k]]
Loses(f, x) == [k \in DOMAIN f \ {x} |-> f[k]]

LEMMA ArrayFacts ==
  ASSUME NEW c \in Nat, NEW ds \in [0 .. c - 1 -> Entry], SortedArray(ds, c), AssociativeAssumption
  PROVE  /\ DOMAIN OfArray(ds, c) = KeysOf(ds, c)
         /\ \A i \in 0 .. c - 1 : /\ ds[i].key \in DOMAIN OfArray(ds, c)
                                  /\ OfArray(ds, c)[ds[i].key] = ds[i].data
<1>1. DOMAIN OfArray(ds, c) = KeysOf(ds, c)
  BY DEF OfArray
<1>2. ASSUME NEW i \in 0 .. c - 1 PROVE OfArray(ds, c)[ds[i].key] = ds[i].data
  <2> DEFINE m == CHOOSE x \in 0 .. c - 1 : ds[x].key = ds[i].key
  <2>1. m \in 0 .. c - 1 /\ ds[m].key = ds[i].key
    OBVIOUS
  <2>2. OfArray(ds, c)[ds[i].key] = ds[m].data
    BY DEF OfArray, KeysOf
  <2> HIDE DEF m
  <2>3. m = i
    <3>1. ds[m].key \in Int /\ ds[i].key \in Int
      BY <2>1 DEF Entry, AssociativeAssumption
    <3> QED BY <2>1, <3>1 DEF SortedArray
  <2> QED BY <2>2, <2>3
<1>3. \A i \in 0 .. c - 1 : ds[i].key \in KeysOf(ds, c)
  BY DEF KeysOf
<1> QED BY <1>1, <1>2, <1>3

\* An array stands for a function that has its keys and agrees with its entries.
LEMMA ArrayIs ==
  ASSUME NEW c \in Nat, NEW ds \in [0 .. c - 1 -> Entry], SortedArray(ds, c), AssociativeAssumption,
         NEW f, f = [k \in DOMAIN f |-> f[k]],
         DOMAIN f = KeysOf(ds, c),
         \A i \in 0 .. c - 1 : f[ds[i].key] = ds[i].data
  PROVE  OfArray(ds, c) = f
<1>1. OfArray(ds, c) = [k \in DOMAIN OfArray(ds, c) |-> OfArray(ds, c)[k]]
  BY DEF OfArray
<1>2. DOMAIN OfArray(ds, c) = DOMAIN f
  BY ArrayFacts
<1>3. ASSUME NEW k \in DOMAIN f PROVE OfArray(ds, c)[k] = f[k]
  <2>1. PICK i \in 0 .. c - 1 : k = ds[i].key
    BY DEF KeysOf
  <2>2. OfArray(ds, c)[ds[i].key] = ds[i].data
    BY ArrayFacts
  <2> QED BY <2>1, <2>2
<1> QED BY <1>1, <1>2, <1>3

LEMMA InsertedArray ==
  ASSUME NEW c \in Nat, NEW ds \in [0 .. c - 1 -> Entry], SortedArray(ds, c), AssociativeAssumption,
         NEW e \in Entry, NEW i \in -1 .. c - 1,
         \A j \in 0 .. c - 1 : j <= i => ds[j].key < e.key,
         \A j \in 0 .. c - 1 : i < j => e.key < ds[j].key,
         NEW es, es = Inserted(ds, c, i, e)
  PROVE  /\ es \in [0 .. c -> Entry]
         /\ SortedArray(es, c + 1)
         /\ OfArray(es, c + 1) = Gains(OfArray(ds, c), e.key, e.data)
<1> DEFINE f == Gains(OfArray(ds, c), e.key, e.data)
<1>1. /\ \A j \in 0 .. c - 1 : j <= i => es[j] = ds[j]
      /\ es[i + 1] = e
      /\ \A j \in 0 .. c - 1 : i < j => es[j + 1] = ds[j]
  BY DEF Inserted
<1>2. \A j \in 0 .. c : j <= i \/ j = i + 1 \/ (j - 1 \in 0 .. c - 1 /\ i < j - 1)
  OBVIOUS
<1>3. es \in [0 .. c -> Entry]
  BY DEF Inserted
<1>4. /\ \A j \in 0 .. c - 1 : ds[j].key \in Int
      /\ e.key \in Int
  BY DEF Entry, AssociativeAssumption
<1>5. SortedArray(es, c + 1)
  <2> SUFFICES ASSUME NEW j \in 0 .. c, NEW m \in 0 .. c, j < m
               PROVE  es[j].key < es[m].key
    BY DEF SortedArray
  <2>1. CASE m <= i
    BY <1>1, <2>1 DEF SortedArray
  <2>2. CASE m = i + 1
    BY <1>1, <2>2
  <2>3. CASE m - 1 \in 0 .. c - 1 /\ i < m - 1
    <3>1. es[m] = ds[m - 1]
      BY <1>1, <2>3
    <3>2. CASE j <= i
      BY <1>1, <1>4, <2>3, <3>1, <3>2 DEF SortedArray
    <3>3. CASE j = i + 1
      BY <1>1, <2>3, <3>1, <3>3
    <3>4. CASE j - 1 \in 0 .. c - 1 /\ i < j - 1
      <4>1. es[j] = ds[j - 1]
        BY <1>1, <3>4
      <4> QED BY <2>3, <3>1, <3>4, <4>1 DEF SortedArray
    <3> QED BY <1>2, <3>2, <3>3, <3>4
  <2> QED BY <1>2, <2>1, <2>2, <2>3
<1>6. \A k : k \in KeysOf(es, c + 1) <=> k \in KeysOf(ds, c) \cup {e.key}
  <2>1. ASSUME NEW j \in 0 .. c - 1 PROVE ds[j].key \in KeysOf(es, c + 1)
    <3>1. \E m \in 0 .. c : es[m].key = ds[j].key
      <4>1. CASE j <= i
        BY <1>1, <4>1
      <4>2. CASE i < j
        <5>1. j + 1 \in 0 .. c
          OBVIOUS
        <5> QED BY <1>1, <4>2, <5>1
      <4> QED BY <4>1, <4>2
    <3>2. c = (c + 1) - 1
      OBVIOUS
    <3> QED BY <3>1, <3>2 DEF KeysOf
  <2>2. e.key \in KeysOf(es, c + 1)
    <3>1. i + 1 \in 0 .. (c + 1) - 1
      OBVIOUS
    <3> QED BY <1>1, <3>1 DEF KeysOf
  <2>3. ASSUME NEW j \in 0 .. c PROVE es[j].key \in KeysOf(ds, c) \cup {e.key}
    <3>1. CASE j <= i
      <4>1. j \in 0 .. c - 1
        BY <3>1
      <4> QED BY <1>1, <3>1, <4>1 DEF KeysOf
    <3>2. CASE j - 1 \in 0 .. c - 1 /\ i < j - 1
      <4>1. es[j] = ds[j - 1]
        BY <1>1, <3>2
      <4> QED BY <3>2, <4>1 DEF KeysOf
    <3> QED BY <1>1, <1>2, <3>1, <3>2
  <2>4. (c + 1) - 1 = c
    OBVIOUS
  <2> QED BY <2>1, <2>2, <2>3, <2>4 DEF KeysOf
<1>7. /\ f = [k \in DOMAIN f |-> f[k]]
      /\ DOMAIN f = DOMAIN OfArray(ds, c) \cup {e.key}
      /\ f[e.key] = e.data
      /\ \A k \in DOMAIN OfArray(ds, c) : k # e.key => f[k] = OfArray(ds, c)[k]
  BY DEF Gains
<1> HIDE DEF f
<1>8. \A j \in 0 .. c - 1 : f[ds[j].key] = ds[j].data
  <2> SUFFICES ASSUME NEW j \in 0 .. c - 1 PROVE f[ds[j].key] = ds[j].data
    OBVIOUS
  <2>1. ds[j].key # e.key
    BY <1>4
  <2>2. ds[j].key \in DOMAIN OfArray(ds, c) /\ OfArray(ds, c)[ds[j].key] = ds[j].data
    BY ArrayFacts
  <2> QED BY <1>7, <2>1, <2>2
<1>9. ASSUME NEW j \in 0 .. c PROVE f[es[j].key] = es[j].data
  <2>1. CASE j <= i
    <3>1. j \in 0 .. c - 1
      BY <2>1
    <3> QED BY <1>1, <1>8, <2>1, <3>1
  <2>2. CASE j - 1 \in 0 .. c - 1 /\ i < j - 1
    <3>1. es[j] = ds[j - 1]
      BY <1>1, <2>2
    <3> QED BY <1>8, <2>2, <3>1
  <2> QED BY <1>1, <1>2, <1>7, <2>1, <2>2
<1>10. OfArray(es, c + 1) = f
  <2>1. c + 1 \in Nat /\ (c + 1) - 1 = c
    OBVIOUS
  <2>2. DOMAIN f = KeysOf(es, c + 1)
    BY <1>6, <1>7, ArrayFacts
  <2>3. es \in [0 .. (c + 1) - 1 -> Entry]
    BY <1>3, <2>1
  <2>4. \A j \in 0 .. (c + 1) - 1 : f[es[j].key] = es[j].data
    BY <1>9, <2>1
  <2>5. PICK m \in Nat : m = c + 1
    OBVIOUS
  <2>6. OfArray(es, m) = f
    <3>1. SortedArray(es, m) /\ es \in [0 .. m - 1 -> Entry] /\ DOMAIN f = KeysOf(es, m)
      BY <1>5, <2>2, <2>3, <2>5
    <3>2. \A j \in 0 .. m - 1 : f[es[j].key] = es[j].data
      BY <2>4, <2>5
    <3> QED BY <1>7, <3>1, <3>2, ArrayIs
  <2> QED BY <2>5, <2>6
<1> QED BY <1>3, <1>5, <1>10 DEF f

LEMMA RemovedArray ==
  ASSUME NEW c \in Nat, NEW ds \in [0 .. c - 1 -> Entry], SortedArray(ds, c), AssociativeAssumption,
         NEW i \in 0 .. c - 1,
         NEW es, es = Removed(ds, c, i)
  PROVE  /\ c - 1 \in Nat
         /\ es \in [0 .. c - 2 -> Entry]
         /\ SortedArray(es, c - 1)
         /\ OfArray(es, c - 1) = Loses(OfArray(ds, c), ds[i].key)
<1> DEFINE f == Loses(OfArray(ds, c), ds[i].key)
           at(j) == IF j < i THEN j ELSE j + 1
<1>1. c - 1 \in Nat /\ (c - 1) - 1 = c - 2
  OBVIOUS
<1>2. es \in [0 .. c - 2 -> Entry]
  BY DEF Removed
<1>3. \A j \in 0 .. c - 2 : at(j) \in 0 .. c - 1 /\ at(j) # i /\ es[j] = ds[at(j)]
  BY DEF Removed
<1>4. \A j, m \in 0 .. c - 2 : j < m => at(j) < at(m)
  OBVIOUS
<1>5. SortedArray(es, c - 1)
  BY <1>1, <1>3, <1>4 DEF SortedArray
<1>6. \A j \in 0 .. c - 1 : j # i => \E m \in 0 .. c - 2 : at(m) = j
  <2> SUFFICES ASSUME NEW j \in 0 .. c - 1, j # i PROVE \E m \in 0 .. c - 2 : at(m) = j
    OBVIOUS
  <2>1. CASE j < i
    <3>1. j \in 0 .. c - 2 /\ at(j) = j
      BY <2>1
    <3> QED BY <3>1
  <2>2. CASE i < j
    <3>1. j - 1 \in 0 .. c - 2 /\ at(j - 1) = j
      BY <2>2
    <3> QED BY <3>1
  <2> QED BY <2>1, <2>2
<1>7. \A j \in 0 .. c - 1 : j # i => ds[j].key # ds[i].key
  <2>1. \A j \in 0 .. c - 1 : ds[j].key \in Int
    BY DEF Entry, AssociativeAssumption
  <2> QED BY <2>1 DEF SortedArray
<1> HIDE DEF at
<1>8. \A k : k \in KeysOf(es, c - 1) <=> k \in KeysOf(ds, c) \ {ds[i].key}
  <2>1. \A j \in 0 .. c - 2 : es[j].key \in KeysOf(ds, c) \ {ds[i].key}
    BY <1>3, <1>7 DEF KeysOf
  <2>2. ASSUME NEW j \in 0 .. c - 1, j # i PROVE \E m \in 0 .. c - 2 : es[m].key = ds[j].key
    BY <1>3, <1>6, <2>2
  <2>3. KeysOf(es, c - 1) = {es[m].key : m \in 0 .. c - 2}
    BY <1>1 DEF KeysOf
  <2>4. \A k \in KeysOf(ds, c) \ {ds[i].key} : \E j \in 0 .. c - 1 : j # i /\ k = ds[j].key
    BY DEF KeysOf
  <2>5. ASSUME NEW k \in KeysOf(ds, c) \ {ds[i].key} PROVE k \in KeysOf(es, c - 1)
    <3>1. PICK j \in 0 .. c - 1 : j # i /\ k = ds[j].key
      BY <2>4, <2>5
    <3>2. PICK m \in 0 .. c - 2 : es[m].key = ds[j].key
      BY <2>2, <3>1
    <3> QED BY <2>3, <3>1, <3>2
  <2>6. ASSUME NEW k \in KeysOf(es, c - 1) PROVE k \in KeysOf(ds, c) \ {ds[i].key}
    BY <2>1, <2>3
  <2> QED BY <2>5, <2>6
<1>9. /\ f = [k \in DOMAIN f |-> f[k]]
      /\ DOMAIN f = DOMAIN OfArray(ds, c) \ {ds[i].key}
      /\ \A k \in DOMAIN OfArray(ds, c) : k # ds[i].key => f[k] = OfArray(ds, c)[k]
  BY DEF Loses
<1> HIDE DEF f
<1>10. ASSUME NEW j \in 0 .. c - 2 PROVE f[es[j].key] = es[j].data
  <2>1. PICK m \in 0 .. c - 1 : m # i /\ es[j] = ds[m]
    BY <1>3
  <2>2. ds[m].key \in DOMAIN OfArray(ds, c) /\ OfArray(ds, c)[ds[m].key] = ds[m].data
    BY ArrayFacts
  <2> QED BY <1>7, <1>9, <2>1, <2>2
<1>11. OfArray(es, c - 1) = f
  <2>1. DOMAIN f = KeysOf(es, c - 1)
    BY <1>8, <1>9, ArrayFacts
  <2> QED BY <1>1, <1>2, <1>5, <1>9, <1>10, <2>1, ArrayIs
<1> QED BY <1>1, <1>2, <1>5, <1>11 DEF f
------------------------------------------------------------------------------
\* The search.

LEMMA EmptyArray ==
  ASSUME NEW ds, ds = [i \in {} |-> 0]
  PROVE  /\ ds \in [0 .. -1 -> Entry]
         /\ SortedArray(ds, 0)
         /\ OfArray(ds, 0) = [k \in {} |-> 0]
<1>1. 0 .. -1 = {} /\ 0 - 1 = -1
  OBVIOUS
<1>2. KeysOf(ds, 0) = {}
  BY <1>1 DEF KeysOf
<1> QED BY <1>1, <1>2 DEF SortedArray, OfArray

LEMMA InitInv ==
  ASSUME Init, AssociativeAssumption
  PROVE  AInv
<1>1. count = 0 /\ Index = 0 .. -1 /\ Index = {}
  BY DEF Init, Index
<1>2. datas \in [Index -> Entry]
  BY <1>1, EmptyArray DEF Init
<1> QED BY <1>1, <1>2 DEF Init, AInv, TypeOK, Sorted, SearchOK, FindsFloor, AssociativeAssumption

LEMMA CallKeepsInv ==
  ASSUME AInv, NEW r \in Request, Call(r)
  PROVE  AInv'
<1>1. TypeOK' /\ Sorted' /\ Index' = Index
  BY DEF AInv, TypeOK, Sorted, Call, Index
<1>2. SearchOK'
  BY DEF AInv, TypeOK, SearchOK, Call, Index
<1>3. FindsFloor'
  BY DEF AInv, TypeOK, FindsFloor, Call, Index
<1> QED BY <1>1, <1>2, <1>3 DEF AInv

\* The part of the array that a step of the search looks at.
LEMMA SearchFacts ==
  ASSUME AInv, pc = "search", AssociativeAssumption
  PROVE  /\ CanSearch /\ count \in Nat /\ start \in Nat /\ n \in Nat /\ n >= 1 /\ start + n <= count
         /\ req.key \in Int
         /\ \A i \in Index : datas[i].key \in Int
         /\ \A i, j \in Index : i <= j => datas[i].key <= datas[j].key
<1>1. /\ CanSearch /\ count \in Nat /\ start \in Nat /\ n \in Nat
      /\ n >= 1 /\ start + n <= count
  BY DEF AInv, TypeOK, SearchOK, CanSearch
<1>2. req.key \in Int /\ \A i \in Index : datas[i].key \in Int
  BY DEF AInv, TypeOK, Entry, Request, AssociativeAssumption
<1>3. \A i, j \in Index : i <= j => datas[i].key <= datas[j].key
  <2> SUFFICES ASSUME NEW i \in Index, NEW j \in Index, i <= j
               PROVE  datas[i].key <= datas[j].key
    OBVIOUS
  <2>1. i = j \/ i < j
    BY DEF Index
  <2> QED BY <1>2, <2>1 DEF AInv, Sorted
<1> QED BY <1>1, <1>2, <1>3

\* A result is right if the entry there is not behind the key sought and the
\* next one is.
LEMMA FoundIsFloor ==
  ASSUME AInv, pc = "search", AssociativeAssumption, NEW i \in -1 .. count - 1,
         i \in Index => datas[i].key <= req.key,
         i + 1 \in Index => req.key < datas[i + 1].key
  PROVE  \A j \in Index : j <= i <=> datas[j].key <= req.key
<1> SUFFICES ASSUME NEW j \in Index PROVE j <= i <=> datas[j].key <= req.key
  OBVIOUS
<1>1. CASE j <= i
  <2>1. i \in Index
    BY <1>1, SearchFacts DEF Index
  <2> QED BY <1>1, <2>1, SearchFacts
<1>2. CASE i < j
  <2>1. i + 1 \in Index /\ i + 1 <= j
    BY <1>2, SearchFacts DEF Index
  <2>2. datas[i + 1].key <= datas[j].key
    BY <2>1, SearchFacts
  <2>3. datas[i + 1].key \in Int /\ datas[j].key \in Int /\ req.key \in Int
    BY <2>1, SearchFacts
  <2>4. req.key < datas[i + 1].key
    BY <2>1
  <2>5. ~(datas[j].key <= req.key)
    BY <2>2, <2>3, <2>4
  <2>6. ~(j <= i)
    BY <1>2 DEF Index
  <2> QED BY <2>5, <2>6
<1> QED BY <1>1, <1>2 DEF Index

\* What the search found out about the neighbours of its part.
LEMMA Around ==
  ASSUME AInv, pc = "search", AssociativeAssumption
  PROVE  /\ \A i \in 0 .. start - 1 : i \in Index /\ datas[i].key <= req.key
         /\ \A i \in start + n .. count - 1 : i \in Index /\ req.key < datas[i].key
         /\ \A i \in start .. start + n - 1 : i \in Index
BY SearchFacts DEF AInv, SearchOK, Index

LEMMA SearchKeepsInv ==
  ASSUME AInv, associative_lookup_, AssociativeAssumption
  PROVE  AInv'
<1>1. pc = "search" /\ UNCHANGED <<datas, count, size, req, answer>>
  BY DEF associative_lookup_
<1>2. /\ CanSearch /\ count \in Nat /\ start \in Nat /\ n \in Nat /\ n >= 1 /\ start + n <= count
      /\ Index = 0 .. count - 1 /\ Index' = Index
  BY <1>1, SearchFacts DEF Index
<1>3. ASSUME NEW i \in -1 .. count - 1, Found(i),
             i \in Index => datas[i].key <= req.key,
             i + 1 \in Index => req.key < datas[i + 1].key
      PROVE  AInv'
  <2>1. \A j \in Index : j <= i <=> datas[j].key <= req.key
    BY <1>1, <1>3, FoundIsFloor
  <2>2. FindsFloor'
    BY <1>1, <1>2, <1>3, <2>1 DEF FindsFloor, Found
  <2>3. TypeOK' /\ Sorted'
    BY <1>1, <1>2, <1>3 DEF AInv, TypeOK, Sorted, Found
  <2>4. SearchOK'
    BY <1>3 DEF SearchOK, Found
  <2> QED BY <2>2, <2>3, <2>4 DEF AInv
<1>4. ASSUME NEW s \in Nat, NEW m \in Nat, Recurse(s, m), m >= 1, s + m <= count,
             \A i \in Index : i < s => datas[i].key <= req.key,
             \A i \in Index : s + m <= i => req.key < datas[i].key
      PROVE  AInv'
  <2>1. pc' = "search" /\ start' = s /\ n' = m /\ idx' = idx
    BY <1>1, <1>4 DEF Recurse
  <2>2. TypeOK' /\ Sorted'
    BY <1>1, <1>2, <2>1 DEF AInv, TypeOK, Sorted
  <2>3. SearchOK'
    BY <1>1, <1>2, <1>4, <2>1 DEF SearchOK
  <2>4. FindsFloor'
    BY <2>1 DEF FindsFloor
  <2> QED BY <2>2, <2>3, <2>4 DEF AInv
<1>5. \A i \in Index : datas[i].key \in Int /\ req.key \in Int
  BY <1>1, SearchFacts
<1>6. CASE n = 1
  <2>1. CASE Less(start) /\ Found(start - 1)
    BY <1>1, <1>2, <1>3, <1>6, <2>1, Around DEF Less
  <2>2. CASE ~Less(start) /\ Found(start)
    <3>1. start \in Index /\ datas[start].key <= req.key
      BY <1>2, <1>5, <2>2 DEF Less
    <3> QED BY <1>1, <1>2, <1>3, <1>6, <2>2, <3>1, Around
  <2> QED BY <1>2, <1>6, <2>1, <2>2 DEF associative_lookup_
<1>7. CASE n = 2
  <2>1. CASE Less(start) /\ Found(start - 1)
    BY <1>1, <1>2, <1>3, <1>7, <2>1, Around DEF Less
  <2>2. CASE ~Less(start) /\ Less(start + 1) /\ Found(start)
    <3>1. start \in Index /\ datas[start].key <= req.key
      BY <1>2, <1>5, <2>2 DEF Less
    <3> QED BY <1>1, <1>2, <1>3, <1>7, <2>2, <3>1 DEF Less
  <2>3. CASE ~Less(start) /\ ~Less(start + 1) /\ Found(start + 1)
    <3>1. start + 1 \in Index
      BY <1>2, <1>7
    <3>2. datas[start + 1].key <= req.key
      BY <1>5, <2>3, <3>1 DEF Less
    <3>3. (start + 1) + 1 \in Index => req.key < datas[(start + 1) + 1].key
      BY <1>1, <1>2, <1>7, Around
    <3> QED BY <1>2, <1>3, <2>3, <3>1, <3>2, <3>3
  <2> QED BY <1>2, <1>7, <2>1, <2>2, <2>3 DEF associative_lookup_
<1>8. CASE n > 2
  <2> DEFINE pivot == n \div 2
             at == start + pivot
  <2>1. pivot \in Nat /\ pivot >= 1 /\ n - pivot - 1 >= 1 /\ n - pivot - 1 \in Nat
    BY <1>2, <1>8
  <2>2. at \in Index /\ at \in Nat /\ start + n <= count
    BY <1>2, <2>1
  <2>3. \/ Less(at) /\ SearchLeft(pivot)
        \/ ~Less(at) /\ More(at) /\ SearchRight(pivot)
        \/ ~Less(at) /\ ~More(at) /\ Found(at)
    BY <1>2, <1>8 DEF associative_lookup_
  <2>4. at = start + pivot
    OBVIOUS
  <2> HIDE DEF pivot, at
  <2>5. /\ datas[at].key \in Int /\ req.key \in Int
        /\ \A i \in Index : datas[i].key \in Int
        /\ \A i \in Index : i <= at => datas[i].key <= datas[at].key
        /\ \A i \in Index : at <= i => datas[at].key <= datas[i].key
    BY <1>1, <2>2, SearchFacts
  <2>6. CASE Less(at) /\ SearchLeft(pivot)
    <3>1. \A i \in Index : start + pivot <= i => req.key < datas[i].key
      BY <2>4, <2>5, <2>6 DEF Less
    <3>2. \A i \in Index : i < start => datas[i].key <= req.key
      BY <1>1 DEF AInv, SearchOK
    <3> QED BY <1>2, <1>4, <2>1, <2>6, <3>1, <3>2 DEF SearchLeft
  <2>7. CASE ~Less(at) /\ More(at) /\ SearchRight(pivot)
    <3> DEFINE s == start + pivot + 1
               m == n - pivot - 1
    <3>1. s \in Nat /\ m \in Nat /\ m >= 1 /\ s + m = start + n /\ s = at + 1
      BY <1>2, <2>1, <2>4
    <3>2. Recurse(s, m)
      BY <2>7 DEF SearchRight
    <3> HIDE DEF s, m
    <3>3. \A i \in Index : i < s => datas[i].key <= req.key
      <4> SUFFICES ASSUME NEW i \in Index, i < s PROVE datas[i].key <= req.key
        OBVIOUS
      <4>1. i <= at
        BY <1>2, <2>2, <3>1
      <4> QED BY <2>5, <2>7, <4>1 DEF More
    <3>4. \A i \in Index : s + m <= i => req.key < datas[i].key
      BY <1>1, <3>1 DEF AInv, SearchOK
    <3> QED BY <1>2, <1>4, <3>1, <3>2, <3>3, <3>4
  <2>8. CASE ~Less(at) /\ ~More(at) /\ Found(at)
    <3>1. datas[at].key = req.key
      BY <2>5, <2>8 DEF Less, More
    <3>2. at \in -1 .. count - 1
      BY <1>2, <2>2
    <3>3. at + 1 \in Index => req.key < datas[at + 1].key
      BY <2>2, <3>1 DEF AInv, Sorted
    <3> QED BY <1>3, <2>5, <2>8, <3>1, <3>2, <3>3
  <2> QED BY <2>3, <2>6, <2>7, <2>8
<1> QED BY <1>2, <1>6, <1>7, <1>8
------------------------------------------------------------------------------
\* What the callers do, in the array and in the map it stands for.

LEMMA ContentsIs ==
  /\ Contents = OfArray(datas, count)
  /\ Contents' = OfArray(datas', count')
BY DEF Contents, OfArray, KeysOf, Index

LEMMA HitIsKnown ==
  ASSUME AInv, pc = "act", AssociativeAssumption
  PROVE  /\ count \in Nat /\ datas \in [0 .. count - 1 -> Entry] /\ SortedArray(datas, count)
         /\ idx \in -1 .. count - 1
         /\ \A i \in Index : datas[i].key \in Int
         /\ req.key \in Int
         /\ Hit <=> req.key \in DOMAIN Contents
         /\ Hit => idx \in Index /\ datas[idx].key = req.key /\ Contents[req.key] = datas[idx].data
<1>1. /\ count \in Nat /\ datas \in [0 .. count - 1 -> Entry] /\ SortedArray(datas, count)
      /\ Index = 0 .. count - 1
  BY DEF AInv, TypeOK, Sorted, SortedArray, Index
<1>2. idx \in -1 .. count - 1 /\ \A i \in Index : i <= idx <=> datas[i].key <= req.key
  BY DEF AInv, FindsFloor
<1>3. req.key \in Int /\ \A i \in Index : datas[i].key \in Int
  BY DEF AInv, TypeOK, Entry, Request, AssociativeAssumption
<1>4. /\ DOMAIN Contents = KeysOf(datas, count)
      /\ \A i \in Index : Contents[datas[i].key] = datas[i].data
  BY <1>1, ArrayFacts, ContentsIs
<1>5. Hit => idx \in Index /\ datas[idx].key = req.key
  BY <1>3 DEF Hit, Less, More
<1>6. ASSUME req.key \in KeysOf(datas, count) PROVE Hit
  <2>1. PICK i \in Index : datas[i].key = req.key
    BY <1>1, <1>6 DEF KeysOf
  <2>2. i <= idx /\ idx \in Index
    BY <1>1, <1>2, <1>3, <2>1
  <2>3. datas[idx].key <= req.key
    BY <1>2, <2>2
  <2>4. i < idx => datas[i].key < datas[idx].key
    BY <2>2 DEF AInv, Sorted
  <2>5. datas[idx].key = req.key
    BY <1>1, <1>3, <2>1, <2>2, <2>3, <2>4
  <2> QED BY <1>3, <2>2, <2>5 DEF Hit, Less, More
<1>7. Hit => req.key \in KeysOf(datas, count)
  BY <1>1, <1>5 DEF KeysOf
<1> QED BY <1>1, <1>2, <1>3, <1>4, <1>5, <1>6, <1>7

\* A call that returns without changing the array.
LEMMA Unchanged ==
  ASSUME AInv, pc = "act", UNCHANGED <<datas, count, size>>, NEW found, found \subseteq Data,
         Return(found)
  PROVE  AInv' /\ Contents' = Contents
BY DEF AInv, TypeOK, Sorted, SearchOK, FindsFloor, Index, Return, Contents

LEMMA LookupStep ==
  ASSUME AInv, AssociativeAssumption, pc = "act", req.op = "lookup",
         Return(IF Hit THEN {datas[idx].data} ELSE {}), UNCHANGED <<datas, count, size>>
  PROVE  AInv' /\ Map!Lookup(req.key)
<1> DEFINE found == IF Hit THEN {datas[idx].data} ELSE {}
<1>1. found \subseteq Data
  BY HitIsKnown DEF Entry, Index
<1>2. found = {Contents[x] : x \in DOMAIN Contents \cap {req.key}}
  BY HitIsKnown
<1> HIDE DEF found
<1>3. Return(found)
  BY DEF found
<1>4. AInv' /\ Contents' = Contents
  BY <1>1, <1>3, Unchanged
<1> QED BY <1>2, <1>3, <1>4 DEF Return, Map!Lookup

LEMMA RemoveStep ==
  ASSUME AInv, AssociativeAssumption, pc = "act",
         \/ Hit /\ RemoveAt(idx)
         \/ ~Hit /\ UNCHANGED <<datas, count, size>>,
         Return({})
  PROVE  AInv' /\ Map!Remove(req.key)
<1>1. CASE ~Hit /\ UNCHANGED <<datas, count, size>>
  <2>1. AInv' /\ Contents' = Contents
    BY <1>1, Unchanged
  <2>2. Contents = [x \in DOMAIN Contents \ {req.key} |-> Contents[x]]
    <3>1. DOMAIN Contents \ {req.key} = DOMAIN Contents
      BY <1>1, HitIsKnown
    <3>2. Contents = [x \in DOMAIN Contents |-> Contents[x]]
      BY DEF Contents
    <3> QED BY <3>1, <3>2
  <2> QED BY <2>1, <2>2 DEF Return, Map!Remove
<1>2. CASE Hit /\ RemoveAt(idx)
  <2>1. /\ count \in Nat /\ datas \in [0 .. count - 1 -> Entry] /\ SortedArray(datas, count)
        /\ idx \in 0 .. count - 1 /\ datas[idx].key = req.key
    BY <1>2, HitIsKnown DEF Index
  <2>2. datas' = Removed(datas, count, idx) /\ count' = count - 1 /\ size' = size
    BY <1>2 DEF RemoveAt, Removed
  <2>3. /\ count - 1 \in Nat
        /\ datas' \in [0 .. count - 2 -> Entry]
        /\ SortedArray(datas', count - 1)
        /\ OfArray(datas', count - 1) = Loses(OfArray(datas, count), datas[idx].key)
    <3>1. PICK c, i, ds, es : c = count /\ i = idx /\ ds = datas /\ es = datas'
      BY <2>1
    <3>2. /\ c \in Nat /\ ds \in [0 .. c - 1 -> Entry] /\ SortedArray(ds, c) /\ i \in 0 .. c - 1
          /\ es = Removed(ds, c, i)
      BY <2>1, <2>2, <3>1
    <3>3. /\ c - 1 \in Nat
          /\ es \in [0 .. c - 2 -> Entry]
          /\ SortedArray(es, c - 1)
          /\ OfArray(es, c - 1) = Loses(OfArray(ds, c), ds[i].key)
      BY <3>2, RemovedArray
    <3> QED BY <3>1, <3>3
  <2>4. Index' = 0 .. count - 2 /\ (count - 1) - 1 = count - 2
    BY <2>1, <2>2 DEF Index
  <2>5. Sorted'
    BY <2>2, <2>3, <2>4 DEF Sorted, SortedArray
  <2>6. TypeOK'
    BY <2>1, <2>2, <2>3, <2>4 DEF AInv, TypeOK, Return
  <2>7. SearchOK' /\ FindsFloor'
    BY DEF Return, SearchOK, FindsFloor
  <2>8. Contents' = [k \in DOMAIN Contents \ {req.key} |-> Contents[k]]
    BY <2>1, <2>2, <2>3, ContentsIs DEF Loses
  <2> QED BY <2>5, <2>6, <2>7, <2>8 DEF AInv, Return, Map!Remove
<1> QED BY <1>1, <1>2

LEMMA KnownStep ==
  ASSUME AInv, AssociativeAssumption, pc = "act", Known, Return({}), UNCHANGED <<datas, count, size>>
  PROVE  AInv' /\ Map!Insert(req.key, req.data)
<1>1. AInv' /\ Contents' = Contents
  BY Unchanged
<1>2. req.key \in DOMAIN Contents
  BY HitIsKnown DEF Known
<1> QED BY <1>1, <1>2 DEF Return, Map!Insert

\* The key goes behind the floor; the branch for idx = count is never taken.
LEMMA InsertStep ==
  ASSUME AInv, AssociativeAssumption, pc = "act", ~Known,
         datas' = InsertBehind(idx, [key |-> req.key, data |-> req.data]),
         count' = count + 1, size' = NewSize, Return({})
  PROVE  AInv' /\ Map!Insert(req.key, req.data)
<1> DEFINE e == [key |-> req.key, data |-> req.data]
<1>1. /\ count \in Nat /\ datas \in [0 .. count - 1 -> Entry] /\ SortedArray(datas, count)
      /\ idx \in -1 .. count - 1 /\ Index = 0 .. count - 1
  BY HitIsKnown DEF Index
<1>2. e \in Entry /\ e.key = req.key /\ e.data = req.data
  BY DEF AInv, TypeOK, Request, Entry
<1> HIDE DEF e
<1>3. \A j \in Index : j <= idx => datas[j].key < e.key
  <2> SUFFICES ASSUME NEW j \in Index, j <= idx PROVE datas[j].key < e.key
    OBVIOUS
  <2>1. idx \in Index
    BY <1>1
  <2>2. datas[j].key <= req.key /\ datas[idx].key <= req.key
    BY <1>1, <2>1 DEF AInv, FindsFloor
  <2>3. datas[idx].key < req.key
    BY <2>1, <2>2, HitIsKnown DEF Known, Hit, Less, More
  <2>4. j < idx => datas[j].key < datas[idx].key
    BY <2>1 DEF AInv, Sorted
  <2>5. datas[j].key \in Int /\ datas[idx].key \in Int /\ req.key \in Int
    BY <2>1, HitIsKnown
  <2>6. j < idx \/ j = idx
    BY <1>1
  <2> QED BY <1>2, <2>3, <2>4, <2>5, <2>6
<1>4. \A j \in Index : idx < j => e.key < datas[j].key
  <2> SUFFICES ASSUME NEW j \in Index, idx < j PROVE e.key < datas[j].key
    OBVIOUS
  <2>1. ~(j <= idx)
    BY <1>1
  <2>2. ~(datas[j].key <= req.key)
    BY <2>1 DEF AInv, FindsFloor
  <2> QED BY <1>2, <2>2, HitIsKnown
<1>5. datas' = Inserted(datas, count, idx, e)
  <2>1. datas' = InsertBehind(idx, e)
    BY DEF e
  <2>2. datas' = [j \in 0 .. count |->
           CASE j <= idx /\ j < count -> datas[j]
             [] idx = count /\ j = count -> [e EXCEPT !.key = NoKey]
             [] idx # count /\ j = idx + 1 -> e
             [] OTHER -> datas[j - 1]]
    BY <2>1 DEF InsertBehind
  <2>3. idx # count /\ \A j \in 0 .. count : j <= idx => j < count
    BY <1>1
  <2>4. ASSUME NEW j \in 0 .. count
        PROVE  (CASE j <= idx /\ j < count -> datas[j]
                  [] idx = count /\ j = count -> [e EXCEPT !.key = NoKey]
                  [] idx # count /\ j = idx + 1 -> e
                  [] OTHER -> datas[j - 1])
               = (CASE j <= idx -> datas[j] [] j = idx + 1 -> e [] OTHER -> datas[j - 1])
    <3>1. CASE j <= idx
      BY <1>1, <2>3, <3>1
    <3>2. CASE j = idx + 1
      BY <1>1, <2>3, <3>2
    <3>3. CASE ~(j <= idx) /\ j # idx + 1
      BY <1>1, <2>3, <3>3
    <3> QED BY <3>1, <3>2, <3>3
  <2> QED BY <2>2, <2>4 DEF Inserted
<1>6. /\ datas' \in [0 .. count -> Entry]
      /\ SortedArray(datas', count + 1)
      /\ OfArray(datas', count + 1) = Gains(OfArray(datas, count), e.key, e.data)
  <2>1. PICK c, i, ds, x, es : c = count /\ i = idx /\ ds = datas /\ x = e /\ es = datas'
    BY <1>1
  <2>2. /\ c \in Nat /\ ds \in [0 .. c - 1 -> Entry] /\ SortedArray(ds, c) /\ x \in Entry /\ i \in -1 .. c - 1
        /\ \A j \in 0 .. c - 1 : j <= i => ds[j].key < x.key
        /\ \A j \in 0 .. c - 1 : i < j => x.key < ds[j].key
    BY <1>1, <1>2, <1>3, <1>4, <2>1
  <2>3. es = Inserted(ds, c, i, x)
    BY <1>5, <2>1
  <2>4. /\ es \in [0 .. c -> Entry]
        /\ SortedArray(es, c + 1)
        /\ OfArray(es, c + 1) = Gains(OfArray(ds, c), x.key, x.data)
    BY <2>2, <2>3, InsertedArray
  <2> QED BY <2>1, <2>4
<1>7. Index' = 0 .. count /\ (count + 1) - 1 = count
  BY <1>1 DEF Index
<1>8. Sorted'
  BY <1>6, <1>7 DEF Sorted, SortedArray
<1>9. TypeOK'
  <2>1. count' \in Nat /\ size' \in Nat \ {0} /\ count' <= size'
    BY <1>1 DEF AInv, TypeOK, NewSize
  <2>2. datas' \in [Index' -> Entry]
    BY <1>6, <1>7
  <2> QED BY <2>1, <2>2 DEF AInv, TypeOK, Return
<1>10. SearchOK' /\ FindsFloor'
  BY DEF Return, SearchOK, FindsFloor
<1>11. Contents' = [k \in DOMAIN Contents \cup {req.key} |->
                      IF k = req.key THEN req.data ELSE Contents[k]]
  BY <1>2, <1>6, ContentsIs DEF Gains
<1>12. req.key \notin DOMAIN Contents
  BY HitIsKnown DEF Known
<1> QED BY <1>8, <1>9, <1>10, <1>11, <1>12 DEF AInv, Return, Map!Insert

LEMMA NextStep ==
  ASSUME AInv, AssociativeAssumption, [Next]_vars
  PROVE  AInv' /\ (Map!Next \/ UNCHANGED <<Contents, answer>>)
<1>1. req.key \in Key /\ req.data \in Data
  BY DEF AInv, TypeOK, Request
<1>2. ASSUME NEW r \in Request, Call(r)
      PROVE  AInv' /\ UNCHANGED <<Contents, answer>>
  BY <1>2, CallKeepsInv, ContentsIs DEF Call
<1>3. CASE associative_lookup_
  BY <1>3, SearchKeepsInv, ContentsIs DEF associative_lookup_
<1>4. CASE Act
  <2>1. CASE pc = "act" /\ req.op = "lookup" /\ UNCHANGED <<datas, count, size>>
             /\ Return(IF Hit THEN {datas[idx].data} ELSE {})
    <3>1. AInv' /\ Map!Lookup(req.key)
      BY <2>1, LookupStep
    <3>2. PICK k \in Key : k = req.key
      BY <1>1
    <3>3. Map!Lookup(k)
      BY <3>1, <3>2 DEF Map!Lookup
    <3> QED BY <3>1, <3>3 DEF Map!Next
  <2>2. CASE pc = "act" /\ req.op = "remove" /\ Return({})
             /\ ((Hit /\ RemoveAt(idx)) \/ (~Hit /\ UNCHANGED <<datas, count, size>>))
    <3>1. AInv' /\ Map!Remove(req.key)
      BY <2>2, RemoveStep
    <3>2. PICK k \in Key : k = req.key
      BY <1>1
    <3>3. Map!Remove(k)
      BY <3>1, <3>2 DEF Map!Remove
    <3> QED BY <3>1, <3>3 DEF Map!Next
  <2>3. ASSUME AInv', Map!Insert(req.key, req.data)
        PROVE  AInv' /\ Map!Next
    <3>1. PICK k \in Key, d \in Data : k = req.key /\ d = req.data
      BY <1>1
    <3>2. Map!Insert(k, d)
      BY <2>3, <3>1 DEF Map!Insert
    <3> QED BY <2>3, <3>2 DEF Map!Next
  <2>4. CASE pc = "act" /\ Known /\ Return({}) /\ UNCHANGED <<datas, count, size>>
    BY <2>3, <2>4, KnownStep
  <2>5. CASE /\ pc = "act" /\ ~Known /\ Return({})
             /\ datas' = InsertBehind(idx, [key |-> req.key, data |-> req.data])
             /\ count' = count + 1 /\ size' = NewSize
    BY <2>3, <2>5, InsertStep
  <2>6. CASE pc' = "abort" /\ UNCHANGED <<datas, count, size, req, start, n, idx, answer>>
    <3>1. AInv'
      BY <2>6 DEF AInv, TypeOK, Sorted, SearchOK, FindsFloor, Index
    <3> QED BY <2>6, <3>1, ContentsIs
  <2>7. CASE req.op = "lookup"
    BY <1>4, <2>1, <2>7 DEF Act
  <2>8. CASE req.op = "remove"
    BY <1>4, <2>2, <2>8 DEF Act
  <2>9. CASE req.op = "insert"
    <3>1. CASE Known
      BY <1>4, <2>4, <2>6, <2>9, <3>1 DEF Act
    <3>2. CASE ~Known
      BY <1>4, <2>5, <2>6, <2>9, <3>2 DEF Act
    <3> QED BY <3>1, <3>2
  <2> QED BY <1>4, <2>7, <2>8, <2>9 DEF Act
<1>5. CASE associative_clear
  <2>1. /\ datas' \in [0 .. -1 -> Entry] /\ SortedArray(datas', 0)
        /\ OfArray(datas', 0) = [k \in {} |-> 0]
    BY <1>5, EmptyArray DEF associative_clear
  <2>2. count' = 0 /\ Index' = 0 .. -1 /\ Index' = {}
    BY <1>5 DEF associative_clear, Index
  <2>3. AInv'
    BY <1>5, <2>1, <2>2 DEF AInv, TypeOK, Sorted, SearchOK, FindsFloor, associative_clear
  <2>4. Contents' = [k \in {} |-> 0]
    BY <2>1, <2>2, ContentsIs
  <2> QED BY <1>5, <2>3, <2>4 DEF associative_clear, Map!Next, Map!Clear
<1>6. CASE UNCHANGED vars
  <2>1. AInv'
    BY <1>6 DEF vars, AInv, TypeOK, Sorted, SearchOK, FindsFloor, Index
  <2> QED BY <1>6, <2>1, ContentsIs DEF vars
<1> QED BY <1>2, <1>3, <1>4, <1>5, <1>6 DEF Next

------------------------------------------------------------------------------

\* The array is sorted and the search knows what it has passed.
THEOREM SearchInvariant == Spec => []AInv
<1>1. Init => AInv
  BY AssociativeAssumption, InitInv
<1>2. AInv /\ [Next]_vars => AInv'
  BY AssociativeAssumption, NextStep
<1> QED BY <1>1, <1>2, PTL DEF Spec

\* The fields of the container are well formed.
THEOREM ContainerTypeCorrect == Spec => []TypeOK
<1>1. AInv => TypeOK
  BY DEF AInv
<1> QED BY <1>1, SearchInvariant, PTL

\* No insertion, removal or clear leaves two keys out of order, or a key twice.
THEOREM StaysSorted == Spec => []Sorted
<1>1. AInv => Sorted
  BY DEF AInv
<1> QED BY <1>1, SearchInvariant, PTL

\* Every call of associative_lookup_ ends at the floor of the key sought.
THEOREM SearchFindsFloor == Spec => []FindsFloor
<1>1. AInv => FindsFloor
  BY DEF AInv
<1> QED BY <1>1, SearchInvariant, PTL

\* The assertions at the head of associative_lookup_ never fail.
THEOREM SearchAssertionsHold == Spec => []SearchStaysInside
<1>1. AInv => SearchStaysInside
  BY AssociativeAssumption, SearchFacts DEF SearchStaysInside
<1> QED BY <1>1, SearchInvariant, PTL

\* The safety half of SearchEnds: each recursive call of associative_lookup_ is
\* for half of the entries at most and for one at least, so a search among count
\* entries makes no more calls than count can be halved.
SearchHalves ==
  [][(pc = "search" /\ pc' = "search") => 1 <= n' /\ 2 * n' <= n]_vars

THEOREM SearchTakesHalves == Spec => SearchHalves
<1>1. ASSUME AInv, Next, pc = "search", pc' = "search", AInv' PROVE 1 <= n' /\ 2 * n' <= n
  <2>1. CanSearch /\ n \in Nat /\ n >= 1 /\ n' >= 1
    BY <1>1 DEF AInv, TypeOK, SearchOK, CanSearch
  <2>2. associative_lookup_
    BY <1>1 DEF Next, Call, Act, associative_clear
  <2>3. n > 2 /\ (SearchLeft(n \div 2) \/ SearchRight(n \div 2))
    BY <1>1, <2>1, <2>2 DEF associative_lookup_, Found
  <2>4. n' = n \div 2 \/ n' = n - (n \div 2) - 1
    BY <2>3 DEF SearchLeft, SearchRight, Recurse
  <2>5. 2 * (n \div 2) <= n /\ n <= 2 * (n \div 2) + 1 /\ n \div 2 \in Nat
    BY <2>1
  <2>6. 2 * n' <= n
    BY <2>1, <2>4, <2>5
  <2> QED BY <2>1, <2>6
<1>2. AInv /\ AInv' /\ [Next]_vars
        => [(pc = "search" /\ pc' = "search") => 1 <= n' /\ 2 * n' <= n]_vars
  BY <1>1
<1> QED BY <1>2, SearchInvariant, PTL DEF Spec, SearchHalves

\* The container is a finite map: an insertion of a new key adds it, any other
\* changes nothing, a removal takes one key away, a lookup returns its datum.
THEOREM ContainerImplementsMap == Spec => ImplementsMap
<1>1. Init => Map!Init
  <2> SUFFICES ASSUME Init PROVE Map!Init
    OBVIOUS
  <2>1. OfArray(datas, count) = [k \in {} |-> 0]
    BY EmptyArray DEF Init
  <2> QED BY <2>1, ContentsIs DEF Init, Map!Init
<1>2. AInv /\ [Next]_vars => [Map!Next]_<<Contents, answer>>
  BY AssociativeAssumption, NextStep
<1> QED BY <1>1, <1>2, SearchInvariant, PTL DEF Spec, ImplementsMap, Map!Spec
==============================================================================
