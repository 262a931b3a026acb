----------------------------- MODULE Associative -----------------------------
(***************************************************************************)
(* The sorted array behind every map and set of the library                *)
(* (lib/utils/containers/associative.c).  The recursion of                 *)
(* associative_lookup_ is a tail recursion: each of its calls is a step    *)
(* here, and its arguments start and n are variables.                      *)
(***************************************************************************)
EXTENDS Integers

CONSTANTS Key,       \* the keys, ordered as key_less orders them
          Data,      \* what is stored with a key
          NoKey,     \* the bytes in a place no key was written to
          InitSize,  \* the capacity given to associative_alloc
          MaxCount   \* bound of the model: entries stored

ASSUME AssociativeAssumption ==
  /\ Key \subseteq Int
  /\ NoKey \notin Key
  /\ InitSize \in Nat \ {0}
  /\ MaxCount \in Nat

VARIABLES datas,    \* the array: index -> [key, data]
          count,    \* its entries
          size,     \* its capacity
          req,      \* the call under way: [op, key, data]
          start, n, \* the arguments of associative_lookup_
          idx,      \* its result: -1 is (size_t)-1
          answer,   \* what the last call returned
          pc        \* "idle", "search" (in associative_lookup_), "act" or "abort"

vars == <<datas, count, size, req, start, n, idx, answer, pc>>

Ops == {"lookup", "insert", "remove"}
Request == [op : Ops, key : Key, data : Data]
Entry == [key : Key, data : Data]
Index == 0 .. count - 1

Init ==
  /\ datas = [i \in {} |-> 0]
  /\ count = 0
  /\ size = InitSize
  /\ req \in Request
  /\ start = 0
  /\ n = 0
  /\ idx = -1
  /\ answer = {}
  /\ pc = "idle"

\* associative_lookup, _insert or _remove is called.  An empty container is not
\* searched.
Call(r) ==
  /\ pc = "idle"
  /\ r.op = "insert" => count < MaxCount
  /\ req' = r
  /\ start' = 0
  /\ n' = count
  /\ idx' = -1
  /\ pc' = IF count = 0 THEN "act" ELSE "search"
  /\ UNCHANGED <<datas, count, size, answer>>

------------------------------------------------------------------------------
\* associative_lookup_

Less(i) == req.key < datas[i].key   \* the key sought is before entry i
More(i) == datas[i].key < req.key

Found(i) == idx' = i /\ pc' = "act" /\ UNCHANGED <<start, n>>
Recurse(s, m) == start' = s /\ n' = m /\ UNCHANGED <<idx, pc>>

\* The assertions at the head of the function.
CanSearch == n > 0 /\ start + n <= count

\* Mutants: the entry behind the pivot is skipped; the left part keeps its size.
SearchRightSkips(pivot) == Recurse(start + pivot + 2, n - pivot - 2)
SearchLeftAgain(pivot) == Recurse(start, n)

SearchRight(pivot) == Recurse(start + pivot + 1, n - pivot - 1)
SearchLeft(pivot) == Recurse(start, pivot)

associative_lookup_ ==
  /\ pc = "search"
  /\ \/ ~CanSearch /\ pc' = "abort" /\ UNCHANGED <<start, n, idx>>
     \/ /\ CanSearch
        /\ n = 1
        /\ IF Less(start) THEN Found(start - 1) ELSE Found(start)
     \/ /\ CanSearch
        /\ n = 2
        /\ \/ Less(start) /\ Found(start - 1)
           \/ ~Less(start) /\ Less(start + 1) /\ Found(start)
           \/ ~Less(start) /\ ~Less(start + 1) /\ Found(start + 1)
     \/ /\ CanSearch
        /\ n > 2
        /\ LET pivot == n \div 2
           IN  \/ Less(start + pivot) /\ SearchLeft(pivot)
               \/ ~Less(start + pivot) /\ More(start + pivot) /\ SearchRight(pivot)
               \/ /\ ~Less(start + pivot)
                  /\ ~More(start + pivot)
                  /\ Found(start + pivot)
  /\ UNCHANGED <<datas, count, size, req, answer>>

------------------------------------------------------------------------------
\* What the callers do with the index.

Hit == idx \in Index /\ ~Less(idx) /\ ~More(idx)

\* The call returns; the locals of the search are gone.
Return(found) ==
  /\ answer' = found
  /\ pc' = "idle"
  /\ start' = 0 /\ n' = 0 /\ idx' = -1
  /\ UNCHANGED req

\* associative_remove_: the tail moves down.
RemoveAt(i) ==
  /\ datas' = [j \in 0 .. count - 2 |-> IF j < i THEN datas[j] ELSE datas[j + 1]]
  /\ count' = count - 1
  /\ UNCHANGED size

\* Mutant: the tail is not moved, and the place behind it stays as it was.
InsertUnmoved(i, e) ==
  [j \in 0 .. count |->
     CASE j = i + 1 -> e
       [] j # i + 1 /\ j < count -> datas[j]
       [] OTHER -> [e EXCEPT !.key = NoKey]]

\* The three branches of associative_insert_: before all entries, behind entry
\* i, and the branch for i = count, which writes the key in debug builds only.
InsertBehind(i, e) ==
  [j \in 0 .. count |->
     CASE j <= i /\ j < count -> datas[j]
       [] i = count /\ j = count -> [e EXCEPT !.key = NoKey]
       [] i # count /\ j = i + 1 -> e
       [] OTHER -> datas[j - 1]]

NewSize == IF count = size THEN 2 * size ELSE size

\* "Key already exist"
Known == Hit

Act ==
  /\ pc = "act"
  /\ \/ /\ req.op = "lookup"
        /\ Return(IF Hit THEN {datas[idx].data} ELSE {})
        /\ UNCHANGED <<datas, count, size>>
     \/ /\ req.op = "remove"
        /\ \/ Hit /\ RemoveAt(idx)
           \/ ~Hit /\ UNCHANGED <<datas, count, size>>
        /\ Return({})
     \/ /\ req.op = "insert"
        /\ Known
        /\ Return({})
        /\ UNCHANGED <<datas, count, size>>
     \/ /\ req.op = "insert"
        /\ ~Known
        /\ \/ /\ datas' = InsertBehind(idx, [key |-> req.key, data |-> req.data])
              /\ count' = count + 1
              /\ size' = NewSize
              /\ Return({})
           \/ /\ count = size   \* realloc returns NULL
              /\ pc' = "abort"
              /\ UNCHANGED <<datas, count, size, req, start, n, idx, answer>>

associative_clear ==
  /\ pc = "idle"
  /\ datas' = [i \in {} |-> 0]
  /\ count' = 0
  /\ answer' = {}
  /\ UNCHANGED <<size, req, start, n, idx, pc>>

Next ==
  \/ \E r \in Request : Call(r)
  \/ associative_lookup_
  \/ Act
  \/ associative_clear

\* The recursion runs to its end: nothing else runs in the program meanwhile.
Spec == Init /\ [][Next]_vars /\ WF_vars(associative_lookup_)

------------------------------------------------------------------------------
\* Properties.

TypeOK ==
  /\ count \in Nat
  /\ datas \in [Index -> Entry]
  /\ size \in Nat \ {0} /\ count <= size
  /\ req \in Request
  /\ start \in Nat /\ n \in Nat
  /\ idx \in Int
  /\ answer \subseteq Data
  /\ pc \in {"idle", "search", "act", "abort"}

\* The keys increase strictly, which the search relies on and every insertion
\* and removal has to keep: no key occurs twice.
Sorted == \A i, j \in Index : i < j => datas[i].key < datas[j].key

\* The comment of associative_lookup_: its result is the place of the largest
\* key that is not larger than the one sought, and -1 if there is none.  The
\* branches for one, two and more entries and the result start - 1 of an empty
\* left part all have to agree on it.
FindsFloor ==
  pc = "act" => /\ idx \in -1 .. count - 1
                /\ \A i \in Index : i <= idx <=> datas[i].key <= req.key

\* The assertions of associative_lookup_ hold, whatever way the search takes.
SearchStaysInside == pc = "search" => CanSearch

\* Every search ends.
SearchEnds == pc = "search" ~> pc # "search"

\* The entries, as the partial function they stand for.
Contents ==
  [k \in {datas[i].key : i \in Index} |->
     datas[CHOOSE i \in Index : datas[i].key = k].data]

Map == INSTANCE KeyedStore WITH store <- Contents

\* The sorted array with its search implements a finite map.
ImplementsMap == Map!Spec
==============================================================================
