------------------------------- MODULE EventLog ------------------------------
(***************************************************************************)
(* What the profiler promises about events: one that a session registers   *)
(* is written to the log once at most, while the session lives; a session  *)
(* that comes to its proper end has written all of its events, and only    *)
(* one that is interrupted may lose some.                                  *)
(***************************************************************************)
EXTENDS Sequences, SequencesExt

CONSTANTS
  Session,
  Event      \* records with a field "by", their session

VARIABLES pending, log, closed

evars == <<pending, log, closed>>

Of(s) == {e \in pending : e.by = s}

EInit ==
  /\ pending = {}
  /\ log = <<>>
  /\ closed = {}

Register(e) ==
  /\ e \notin pending \cup ToSet(log)
  /\ e.by \notin closed
  /\ pending' = pending \cup {e}
  /\ UNCHANGED <<log, closed>>

Store(e) ==
  /\ e \in pending
  /\ pending' = pending \ {e}
  /\ log' = Append(log, e)
  /\ UNCHANGED closed

\* A session is interrupted.
Lose(s) ==
  /\ pending' = pending \ Of(s)
  /\ UNCHANGED <<log, closed>>

Close(s) ==
  /\ Of(s) = {}
  /\ closed' = closed \cup {s}
  /\ UNCHANGED <<pending, log>>

ENext ==
  \/ \E e \in Event : Register(e) \/ Store(e)
  \/ \E s \in Session : Lose(s) \/ Close(s)

ESpec == EInit /\ [][ENext]_evars
==============================================================================
