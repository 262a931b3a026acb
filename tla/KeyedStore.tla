------------------------------ MODULE KeyedStore ------------------------------
(***************************************************************************)
(* What the maps and sets of lib/utils/containers promise: a finite partial *)
(* function, to which the first insertion of a key counts.  How the entries *)
(* are laid out and searched does not exist at this level.                  *)
(***************************************************************************)
CONSTANTS Key, Data

VARIABLES store,   \* key -> data
          answer   \* what the last call returned: a set of at most one datum

Init ==
  /\ store = [k \in {} |-> 0]
  /\ answer = {}

Lookup(k) ==
  /\ answer' = {store[x] : x \in DOMAIN store \cap {k}}
  /\ UNCHANGED store

Insert(k, d) ==
  /\ store' = IF k \in DOMAIN store
                THEN store
                ELSE [x \in DOMAIN store \cup {k} |-> IF x = k THEN d ELSE store[x]]
  /\ answer' = {}

Remove(k) ==
  /\ store' = [x \in DOMAIN store \ {k} |-> store[x]]
  /\ answer' = {}

Clear ==
  /\ store' = [k \in {} |-> 0]
  /\ answer' = {}

Next ==
  \/ \E k \in Key : Lookup(k) \/ Remove(k) \/ \E d \in Data : Insert(k, d)
  \/ Clear

Spec == Init /\ [][Next]_<<store, answer>>
===============================================================================
