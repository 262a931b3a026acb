----------------------------- MODULE ScopedStore -----------------------------
(***************************************************************************)
(* What the data environments promise to a program that closes its data    *)
(* regions in the order it opened them: device data live in nested scopes, *)
(* every entry belongs to exactly one scope, is visible while that scope   *)
(* is open, and leaves with it.                                            *)
(***************************************************************************)
EXTENDS Naturals, Sequences

CONSTANTS Device, HostPtr, Buffer, Bytes

VARIABLE scopes   \* innermost last; each: device -> host pointer -> entry

Entry == [ptr : Buffer, n : Bytes]

NoData == [d \in Device |-> [h \in {} |-> 0]]
Top == scopes[Len(scopes)]
IsVisible(d, h) == \E i \in DOMAIN scopes : h \in DOMAIN scopes[i][d]
InUse(d, b) ==
  \E i \in DOMAIN scopes : \E h \in DOMAIN scopes[i][d] : scopes[i][d][h].ptr = b

With(m, k, e) == [x \in DOMAIN m \cup {k} |-> IF x = k THEN e ELSE m[x]]
Without(m, k) == [x \in DOMAIN m \ {k} |-> m[x]]

Init == scopes = <<NoData>>

Open == scopes' = Append(scopes, NoData)

\* The outermost scope is emptied, never removed.
Close == scopes' = IF Len(scopes) > 1
                     THEN SubSeq(scopes, 1, Len(scopes) - 1)
                     ELSE <<NoData>>

\* A new entry goes to the innermost scope, and hides nothing.
Enter(d, h, e) ==
  /\ ~IsVisible(d, h)
  /\ ~InUse(d, e.ptr)
  /\ scopes' = [scopes EXCEPT ![Len(scopes)][d] = With(@, h, e)]

\* Only data of the innermost scope can leave before it is closed.
Leave(d, h) ==
  /\ h \in DOMAIN Top[d]
  /\ scopes' = [scopes EXCEPT ![Len(scopes)][d] = Without(@, h)]

Next ==
  \/ Open
  \/ Close
  \/ \E d \in Device, h \in HostPtr :
       \/ \E e \in Entry : Enter(d, h, e)
       \/ Leave(d, h)

Spec == Init /\ [][Next]_scopes
==============================================================================
