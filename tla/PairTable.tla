------------------------------ MODULE PairTable ------------------------------
(***************************************************************************)
(* What the two-key map of lib/utils/containers/bimap.c promises its only  *)
(* client, the memory manager: a finite set of entries in which no first   *)
(* key and no second key occurs twice, which grows by one entry or loses   *)
(* the entry of a key.  Neither slots nor indices exist at this level.     *)
(***************************************************************************)
EXTENDS Naturals, FiniteSets

CONSTANTS Key1,     \* host pointers
          Key2,     \* device pointers
          Val,      \* payloads
          Size      \* the most entries the table holds

VARIABLE table

Entry == [v : Val, k1 : Key1, k2 : Key2]

Having1(k) == {e \in table : e.k1 = k}
Having2(k) == {e \in table : e.k2 = k}

Init == table = {}

Add(e) ==
  /\ Having1(e.k1) = {}
  /\ Having2(e.k2) = {}
  /\ Cardinality(table) < Size
  /\ table' = table \cup {e}

RemoveBy1(k) == table' = table \ Having1(k)
RemoveBy2(k) == table' = table \ Having2(k)

Next ==
  \/ \E e \in Entry : Add(e)
  \/ \E k \in Key1 : RemoveBy1(k)
  \/ \E k \in Key2 : RemoveBy2(k)

Spec == Init /\ [][Next]_table
==============================================================================
