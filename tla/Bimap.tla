-------------------------------- MODULE Bimap --------------------------------
(***************************************************************************)
(* The two-key map of lib/utils/containers/bimap.c, one of which the       *)
(* memory manager keeps per device.  Entries sit in an array of Size       *)
(* slots; two maps give the slot of a first and of a second key.  The maps *)
(* are the associative containers of associative.c, seen here as partial   *)
(* functions (module Associative models their arrays).                     *)
(***************************************************************************)
EXTENDS Integers, FiniteSets

CONSTANTS Key1,     \* host pointers
          Key2,     \* device pointers
          Val,      \* payloads
          Size,     \* slots of the array: 42 in init_memory_manager
          Garbage   \* the content of a slot nothing was written to

ASSUME SizeAssumption == Size \in Nat \ {0}

VARIABLES key1Map,  \* first key -> slot
          key2Map,  \* second key -> slot
          datas,    \* the slots
          count,    \* entries stored
          overrun,  \* has a move gone past the end of the array?
          peak,     \* history: the most entries stored so far
          status    \* "running", "abort" (an assertion failed) or "crash"

vars == <<key1Map, key2Map, datas, count, overrun, peak, status>>

Slot == 0 .. Size - 1
Live == 0 .. count - 1
Entry == [v : Val, k1 : Key1, k2 : Key2]

------------------------------------------------------------------------------
\* Helpers on the key maps.

Without(m, k) == [x \in DOMAIN m \ {k} |-> m[x]]

\* Mutant: the second test of the loops is off by one.
ShiftDownLate(m, idx) ==
  [x \in DOMAIN m |-> IF m[x] > idx + 1 THEN m[x] - 1 ELSE m[x]]

\* The loops that renumber the slots behind a removed one.
ShiftDown(m, idx) ==
  [x \in DOMAIN m |-> IF m[x] > idx THEN m[x] - 1 ELSE m[x]]

\* Mutant: the last entry fills the hole, as in an unordered table.
MoveLast(idx) == [datas EXCEPT ![idx] = datas[count - 1]]

\* The memmove of bimap_remove.  It moves count - 1 slots whatever idx is, so
\* that it reads behind the array when idx is too large.
MoveDown(idx) ==
  [i \in Slot |-> IF i \in idx .. idx + count - 2
                    THEN IF i + 1 \in Slot THEN datas[i + 1] ELSE Garbage
                    ELSE datas[i]]

\* Mutant: the count is decremented after the move, which takes count slots.
OverrunsCount(idx) == idx + count >= Size

\* The last slot the move reads is idx + count - 1.
Overruns(idx) == count > 1 /\ idx + count - 1 >= Size

\* The assertions about one key map, after its key has been removed.
MapShrunk(m, idx) ==
  /\ Cardinality(DOMAIN m) = count - 1
  /\ \A x \in DOMAIN m : m[x] # idx

Die(how) ==
  /\ status' = how
  /\ UNCHANGED <<key1Map, key2Map, datas, count, overrun, peak>>

------------------------------------------------------------------------------
Init ==
  /\ key1Map = [k \in {} |-> 0]
  /\ key2Map = [k \in {} |-> 0]
  /\ datas = [i \in Slot |-> Garbage]
  /\ count = 0
  /\ overrun = FALSE
  /\ peak = 0
  /\ status = "running"

\* Mutants: the test for a full array, or for the second key, is missing.
CanInsertFull(k1, k2) == k1 \notin DOMAIN key1Map /\ k2 \notin DOMAIN key2Map
CanInsertKey2Twice(k1, k2) == k1 \notin DOMAIN key1Map /\ count # Size

\* The three assertions of bimap_insert.
CanInsert(k1, k2) ==
  /\ k1 \notin DOMAIN key1Map
  /\ k2 \notin DOMAIN key2Map
  /\ count # Size

bimap_insert(k1, k2, v) ==
  /\ status = "running"
  /\ \/ /\ CanInsert(k1, k2)
        /\ datas' = [datas EXCEPT ![count] = [v |-> v, k1 |-> k1, k2 |-> k2]]
        /\ key1Map' = [x \in DOMAIN key1Map \cup {k1} |->
                         IF x = k1 THEN count ELSE key1Map[x]]
        /\ key2Map' = [x \in DOMAIN key2Map \cup {k2} |->
                         IF x = k2 THEN count ELSE key2Map[x]]
        /\ count' = count + 1
        /\ peak' = IF count + 1 > peak THEN count + 1 ELSE peak
        /\ UNCHANGED <<overrun, status>>
     \/ /\ ~CanInsert(k1, k2)
        /\ Die("abort")

bimap_remove(k1, k2, idx) ==
  LET m1 == Without(key1Map, k1)
      m2 == Without(key2Map, k2)
  IN  \/ /\ MapShrunk(m1, idx)
         /\ MapShrunk(m2, idx)
         /\ key1Map' = ShiftDown(m1, idx)
         /\ key2Map' = ShiftDown(m2, idx)
         /\ datas' = MoveDown(idx)
         /\ count' = count - 1
         /\ overrun' = (overrun \/ Overruns(idx))
            \* Leaving the array may go unnoticed or end the program.
         /\ status' \in IF Overruns(idx) THEN {"running", "crash"} ELSE {"running"}
         /\ UNCHANGED peak
      \/ /\ ~(MapShrunk(m1, idx) /\ MapShrunk(m2, idx))
         /\ Die("abort")

bimap_remove_by_key_1(k1) ==
  /\ status = "running"
  /\ \/ k1 \in DOMAIN key1Map /\ bimap_remove(k1, datas[key1Map[k1]].k2, key1Map[k1])
     \/ k1 \notin DOMAIN key1Map /\ UNCHANGED vars

bimap_remove_by_key_2(k2) ==
  /\ status = "running"
  /\ \/ k2 \in DOMAIN key2Map /\ bimap_remove(datas[key2Map[k2]].k1, k2, key2Map[k2])
     \/ k2 \notin DOMAIN key2Map /\ UNCHANGED vars

Next ==
  \/ \E k1 \in Key1, k2 \in Key2, v \in Val : bimap_insert(k1, k2, v)
  \/ \E k1 \in Key1 : bimap_remove_by_key_1(k1)
  \/ \E k2 \in Key2 : bimap_remove_by_key_2(k2)

Spec == Init /\ [][Next]_vars

\* The lookups: the set of the entries found, empty where the code returns NULL.
bimap_get_value_by_key_1(k1) ==
  {datas[i] : i \in {key1Map[k] : k \in DOMAIN key1Map \cap {k1}}}
bimap_get_value_by_key_2(k2) ==
  {datas[i] : i \in {key2Map[k] : k \in DOMAIN key2Map \cap {k2}}}

------------------------------------------------------------------------------
\* Properties.

TypeOK ==
  /\ count \in 0 .. Size
  /\ peak \in count .. Size
  /\ DOMAIN key1Map \subseteq Key1
  /\ DOMAIN key2Map \subseteq Key2
  /\ key1Map \in [DOMAIN key1Map -> Live]
  /\ key2Map \in [DOMAIN key2Map -> Live]
  /\ datas \in [Slot -> Entry \cup {Garbage}]
  /\ overrun \in BOOLEAN
  /\ status \in {"running", "abort", "crash"}

\* The two maps and the array agree: a key is sent to the slot that stores it,
\* and every slot in use is reached through both of its keys.  bimap_remove
\* renumbers two maps and moves the slots in three separate passes; a key sent
\* to the neighbour's slot would hand out another variable's device buffer.
Agree ==
  /\ \A k \in DOMAIN key1Map : datas[key1Map[k]].k1 = k
  /\ \A k \in DOMAIN key2Map : datas[key2Map[k]].k2 = k
  /\ \A i \in Live :
       /\ datas[i] \in Entry
       /\ datas[i].k1 \in DOMAIN key1Map /\ key1Map[datas[i].k1] = i
       /\ datas[i].k2 \in DOMAIN key2Map /\ key2Map[datas[i].k2] = i

\* The move of bimap_remove stays inside the array as long as the map was never
\* filled beyond half of its slots (21 mappings per device with the 42 slots of
\* init_memory_manager), although it always moves count - 1 slots.
HalfFullStaysInside == 2 * peak <= Size + 1 => ~overrun

\* None of the four assertions of bimap_remove can fail: only an insertion of a
\* known key or into a full map stops the program.
RemovalNeverAborts ==
  [][ \/ \E k1 \in Key1 : bimap_remove_by_key_1(k1)
      \/ \E k2 \in Key2 : bimap_remove_by_key_2(k2)
      => status' # "abort" ]_vars

\* The entries in use.
Stored == {datas[i] : i \in Live}

Table == INSTANCE PairTable WITH table <- Stored

\* Slots, indices and renumbering implement the plain set of entries.
ImplementsPairTable == Table!Spec

\* A lookup by either key finds what the set of entries holds for it.
LookupsFindStored ==
  /\ \A k \in Key1 : bimap_get_value_by_key_1(k) = Table!Having1(k)
  /\ \A k \in Key2 : bimap_get_value_by_key_2(k) = Table!Having2(k)
==============================================================================
