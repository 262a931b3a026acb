-------------------------- MODULE ProfilingProofs --------------------------
(***************************************************************************)
(* Proofs about module Profiling: for any number of processes, sessions,   *)
(* events and devices, and wherever processes are interrupted, each event  *)
(* is stored once or lost with its session.  The inductive invariant says  *)
(* of a process where it is in its calls and what its connection and its   *)
(* events are then (Local), and of the file whose events it holds          *)
(* (Recorded).  The actions change the events in few ways, so the proofs   *)
(* about the file go through predicates for these (Works ... Measures).    *)
(* What events refer to is a second invariant (RInv): the initialisation   *)
(* lists every device, under the number that AllDevices gives it, before   *)
(* the flag is set that lets events be made.                               *)
(***************************************************************************)
EXTENDS Profiling, Numbers, SequenceTheorems, TLAPS

Rows(t) == RowsOf(Content(Profile), t)
IsSeq(s) == s \in Seq(ToSet(s))

\* The process has opened the profile, and works on the file itself.
Connected(p) ==
  /\ Profile \in DOMAIN conns[p]
  /\ conns[p][Profile] = [memory |-> FALSE, copy |-> NoTables]
  /\ Profile \in DOMAIN disk

UpTodo(p) ==
  {<<>>, Creates("Runs"), <<Step("create", "Runs", Nothing)>>,
   <<Step("run", "Runs", NewRow(p))>>, Release}

\* Where a process is in its calls.
Down(p) == status[p] = "down" /\ todo[p] = <<>> /\ events[p] = {} /\ region[p] = FALSE

Initialising(p) ==
  /\ status[p] = "init" /\ events[p] = {} /\ region[p] = FALSE
  /\ todo[p] = <<Plain("open")>> \/ Connected(p)

Running(p) ==
  /\ status[p] = "up" /\ Connected(p)
  /\ todo[p] \in UpTodo(p)
  /\ todo[p] = Release => region[p] = FALSE

Exiting(p) ==
  /\ status[p] = "exit"
  /\ \/ /\ todo[p] = <<Plain("release"), Plain("close")>>
        /\ Connected(p)
        /\ region[p] = FALSE \/ Self(p) \in failed
     \/ todo[p] = <<Plain("close")>> /\ Connected(p) /\ events[p] = {}
     \/ todo[p] = <<>> /\ events[p] = {}

Phase(p) == Down(p) \/ Initialising(p) \/ Running(p) \/ Exiting(p)

HasEvent(p, e) ==
  /\ e = [id |-> e.id, run |-> e.run, device |-> e.device, on |-> e.on,
          done |-> e.done, out |-> e.out]
  /\ e.id \in [by : {Self(p)}, n : 1 .. made[p]]
  /\ e.done \in BOOLEAN /\ e.out \in BOOLEAN

\* The events of a process are its own, and outside of regions they have ended.
OwnEvents(p) ==
  /\ \A e \in events[p] : HasEvent(p, e)
  /\ \A e, f \in events[p] : e.id = f.id => e = f
  /\ region[p] = FALSE => \A e \in events[p] : e.done = TRUE

Local(p) ==
  /\ session[p] \in 0 .. MaxSessions
  /\ status[p] # "down" => session[p] >= 1
  /\ made[p] \in 0 .. MaxEvents[p]
  /\ region[p] \in BOOLEAN
  /\ Phase(p)
  /\ OwnEvents(p)

\* A row of Events is from a session there was; if it is still there, the row
\* is one of the events it has made and not one it has yet to store.
Recorded(r) ==
  \E q \in Process : \E k \in 1 .. session[q], n \in 1 .. MaxEvents[q] :
    /\ r.id = [by |-> <<q, k>>, n |-> n]
    /\ k = session[q] /\ status[q] # "down" =>
         n <= made[q] /\ \A e \in events[q] : e.id = r.id => e.out = TRUE
    /\ r.measured = TRUE \/ <<q, k>> \in failed

\* A session that came to its end is over.
IsOver(s) ==
  \E q \in Process : \E k \in 1 .. session[q] :
    s = <<q, k>> /\ (k = session[q] => status[q] = "down")

Functions_ ==
  /\ DOMAIN conns = Process
  /\ status = [p \in Process |-> status[p]]
  /\ session = [p \in Process |-> session[p]]
  /\ run_id = [p \in Process |-> run_id[p]]
  /\ events = [p \in Process |-> events[p]]
  /\ made = [p \in Process |-> made[p]]
  /\ region = [p \in Process |-> region[p]]
  /\ todo = [p \in Process |-> todo[p]]

File_ ==
  /\ DOMAIN disk \subseteq File
  /\ IsSeq(Rows("Runs")) /\ IsSeq(Stored)
  /\ \A p \in Process : run_id[p] = NoRun \/ run_id[p] \in DOMAIN Rows("Runs")

History ==
  /\ failed \subseteq Session
  /\ \A s \in closed : IsOver(s)
  /\ \A i \in DOMAIN Stored : Recorded(Stored[i])

PInv == Functions_ /\ File_ /\ (\A p \in Process : Local(p)) /\ History

------------------------------------------------------------------------------
\* Sequences and calls.

LEMMA SeqOfOwn ==
  ASSUME NEW S, NEW s \in Seq(S)
  PROVE  IsSeq(s)
<1>1. s \in [1 .. Len(s) -> ToSet(s)] /\ Len(s) \in Nat
  BY DEF ToSet
<1> QED BY <1>1 DEF IsSeq

LEMMA AppendFacts ==
  ASSUME NEW s, NEW x, IsSeq(s)
  PROVE  /\ IsSeq(Append(s, x))
         /\ Len(s) \in Nat
         /\ DOMAIN s = 1 .. Len(s)
         /\ DOMAIN Append(s, x) = 1 .. Len(s) + 1
         /\ \A i \in DOMAIN s : Append(s, x)[i] = s[i]
         /\ Append(s, x)[Len(s) + 1] = x
<1>1. s \in Seq(ToSet(s) \cup {x})
  BY DEF IsSeq, ToSet
<1>2. Append(s, x) \in Seq(ToSet(s) \cup {x})
  BY <1>1
<1>3. IsSeq(Append(s, x))
  BY <1>2, SeqOfOwn
<1> QED BY <1>1, <1>3

LEMMA EmptyIsSeq == IsSeq(<<>>) /\ DOMAIN <<>> = {}
BY DEF IsSeq, ToSet

\* The operations of the steps that calls are made of.
LEMMA Ops ==
  /\ \A op : Plain(op).op = op
  /\ \A op, table, row : Step(op, table, row).op = op /\ Step(op, table, row).table = table
                         /\ Step(op, table, row).row = row
BY DEF Plain, Step

LEMMA Shapes ==
  ASSUME NEW a, NEW b
  PROVE  /\ <<a>> # <<>> /\ Head(<<a>>) = a /\ Tail(<<a>>) = <<>>
         /\ <<a, b>> # <<>> /\ Head(<<a, b>>) = a /\ Tail(<<a, b>>) = <<b>>
         /\ <<a, b>> # <<>> /\ <<a, b>> # <<a>> /\ <<a, b>> # <<b>>
         /\ <<a>> = <<b>> => a = b
OBVIOUS


\* The data of an event when a field changes.
LEMMA EventChanges ==
  ASSUME NEW e, NEW v,
         e = [id |-> e.id, run |-> e.run, device |-> e.device, on |-> e.on,
              done |-> e.done, out |-> e.out]
  PROVE  /\ [e EXCEPT !.out = v] =
              [id |-> e.id, run |-> e.run, device |-> e.device, on |-> e.on,
               done |-> e.done, out |-> v]
         /\ [e EXCEPT !.done = v] =
              [id |-> e.id, run |-> e.run, device |-> e.device, on |-> e.on,
               done |-> v, out |-> e.out]
OBVIOUS

------------------------------------------------------------------------------
\* What a statement does to the file.

LEMMA WrittenFacts ==
  ASSUME NEW p \in Process, Functions_, Connected(p), NEW db, Written(p, Profile, db)
  PROVE  /\ conns' = conns
         /\ DOMAIN disk' = DOMAIN disk
         /\ Content(Profile)' = db
BY DEF Written, Connected, Content

LEMMA ViewIsContent ==
  ASSUME NEW p \in Process, Connected(p)
  PROVE  View(p, Profile) = Content(Profile)
BY DEF View, Connected, Content

LEMMA InsertFacts ==
  ASSUME NEW p \in Process, Functions_, Connected(p), NEW table, NEW row,
         Insert(p, Profile, table, row)
  PROVE  /\ conns' = conns
         /\ DOMAIN disk' = DOMAIN disk
         /\ Rows(table)' = Append(Rows(table), row)
         /\ \A t : t # table => Rows(t)' = Rows(t)
<1> DEFINE db == Content(Profile)
           new == [db EXCEPT ![table] = Append(@, row)]
<1>1. table \in DOMAIN db /\ Written(p, Profile, new)
  BY ViewIsContent DEF Insert, acc_sqlite_table_exists
<1>2. conns' = conns /\ DOMAIN disk' = DOMAIN disk /\ Content(Profile)' = new
  BY <1>1, WrittenFacts
<1>3. DOMAIN new = DOMAIN db /\ new[table] = Append(db[table], row)
      /\ \A t \in DOMAIN db : t # table => new[t] = db[t]
  BY <1>1
<1> HIDE DEF new
<1> QED BY <1>1, <1>2, <1>3 DEF Rows, RowsOf

LEMMA CreateFacts ==
  ASSUME NEW p \in Process, Functions_, Connected(p), NEW table,
         CreateTable(p, Profile, table)
  PROVE  /\ conns' = conns
         /\ DOMAIN disk' = DOMAIN disk
         /\ \A t : Rows(t)' = Rows(t)
<1> DEFINE db == Content(Profile)
           new == With(db, table, <<>>)
<1>1. table \notin DOMAIN db /\ Written(p, Profile, new)
  BY ViewIsContent DEF CreateTable, acc_sqlite_table_exists
<1>2. conns' = conns /\ DOMAIN disk' = DOMAIN disk /\ Content(Profile)' = new
  BY <1>1, WrittenFacts
<1>3. DOMAIN new = DOMAIN db \cup {table} /\ new[table] = <<>>
      /\ \A t \in DOMAIN db : t # table => new[t] = db[t]
  BY DEF With
<1> HIDE DEF new
<1> QED BY <1>1, <1>2, <1>3 DEF Rows, RowsOf

------------------------------------------------------------------------------
\* The kinds of steps.

Same(q) ==
  /\ conns'[q] = conns[q]
  /\ status'[q] = status[q] /\ session'[q] = session[q]
  /\ run_id'[q] = run_id[q] /\ events'[q] = events[q]
  /\ made'[q] = made[q] /\ region'[q] = region[q] /\ todo'[q] = todo[q]

FileGrows ==
  /\ DOMAIN disk \subseteq DOMAIN disk' /\ DOMAIN disk' \subseteq File
  /\ IsSeq(Rows("Runs"))'
  /\ DOMAIN Rows("Runs") \subseteq DOMAIN Rows("Runs")'

\* What every step of process p leaves in order.
InOrder(p) ==
  /\ Functions_'
  /\ \A q \in Process \ {p} : Same(q)
  /\ FileGrows
  /\ failed \subseteq failed' /\ failed' \subseteq Session
  /\ run_id'[p] = NoRun \/ run_id'[p] \in DOMAIN Rows("Runs")'
  /\ Local(p)'

\* Neither sessions nor events change.
Works(p) ==
  /\ status[p] = "down" <=> status'[p] = "down"
  /\ session'[p] = session[p] /\ events'[p] = events[p] /\ made'[p] = made[p]
  /\ Stored' = Stored /\ closed' = closed

Begins(p) ==
  /\ status[p] = "down" /\ status'[p] # "down"
  /\ session'[p] = session[p] + 1
  /\ events[p] = {} /\ events'[p] = {}
  /\ Stored' = Stored /\ closed' = closed

\* The session is over; it is closed only if no event was left.
IsGone(p) ==
  /\ status[p] # "down" /\ status'[p] = "down"
  /\ session'[p] = session[p] /\ events'[p] = {}
  /\ Stored' = Stored
  /\ \/ closed' = closed
     \/ closed' = closed \cup {Self(p)} /\ events[p] = {}

Registers(p) ==
  /\ status[p] # "down" /\ status'[p] = status[p] /\ session'[p] = session[p]
  /\ made'[p] = made[p] + 1
  /\ \E e : /\ e.id = [by |-> Self(p), n |-> made[p] + 1] /\ e.out = FALSE
            /\ events'[p] = events[p] \cup {e}
  /\ Stored' = Stored /\ closed' = closed

Stores(p) ==
  /\ status[p] # "down" /\ status'[p] = status[p] /\ session'[p] = session[p]
  /\ made'[p] = made[p]
  /\ \E e \in events[p] :
       /\ e.out = FALSE
       /\ e.done = TRUE \/ Self(p) \in failed
       /\ events'[p] = (events[p] \ {e}) \cup {[e EXCEPT !.out = TRUE]}
       /\ Stored' = Append(Stored, EventRow(e))
  /\ closed' = closed

Clears(p) ==
  /\ status[p] # "down" /\ status'[p] = status[p] /\ session'[p] = session[p]
  /\ made'[p] = made[p]
  /\ (\A e \in events[p] : e.out = TRUE) /\ events'[p] = {}
  /\ Stored' = Stored /\ closed' = closed

Measures(p) ==
  /\ status[p] # "down" /\ status'[p] = status[p] /\ session'[p] = session[p]
  /\ made'[p] = made[p]
  /\ \E e \in events[p] :
       /\ e.out = FALSE
       /\ events'[p] = (events[p] \ {e}) \cup {[e EXCEPT !.done = TRUE]}
  /\ Stored' = Stored /\ closed' = closed

Kinds(p) ==
  Works(p) \/ Begins(p) \/ IsGone(p) \/ Registers(p) \/ Stores(p) \/ Clears(p) \/ Measures(p)

IsStep(p) == InOrder(p) /\ Kinds(p)

------------------------------------------------------------------------------
\* What the steps have in common.

LEMMA FileSame ==
  ASSUME PInv, UNCHANGED disk
  PROVE  FileGrows /\ Stored' = Stored /\ (\A t : Rows(t)' = Rows(t))
<1>1. Content(Profile)' = Content(Profile)
  BY DEF Content
<1>2. \A t : Rows(t)' = Rows(t)
  BY <1>1 DEF Rows
<1>3. Stored' = Stored
  BY <1>1 DEF Stored
<1> QED BY <1>2, <1>3 DEF PInv, File_, FileGrows, IsSeq

LEMMA StoredIsRows == Stored = Rows("Events") /\ Stored' = Rows("Events")'
BY DEF Stored, Rows

\* A process that is not acting keeps its invariant.
LEMMA OthersKeep ==
  ASSUME NEW q \in Process, Local(q), Same(q), FileGrows, failed \subseteq failed'
  PROVE  Local(q)'
<1>1. Self(q)' = Self(q)
  BY DEF Same, Self
<1>2. Connected(q) => Connected(q)'
  BY DEF Connected, Same, FileGrows
<1>3. UpTodo(q)' = UpTodo(q)
  BY <1>1 DEF UpTodo, NewRow
<1>4. Phase(q)'
  <2>1. CASE Down(q)
    BY <2>1 DEF Down, Phase, Same
  <2>2. CASE Initialising(q)
    BY <1>2, <2>2 DEF Initialising, Phase, Same
  <2>3. CASE Running(q)
    BY <1>2, <1>3, <2>3 DEF Running, Phase, Same
  <2>4. CASE Exiting(q)
    <3>1. Self(q) \in failed => Self(q)' \in failed'
      BY <1>1
    <3> QED BY <1>2, <2>4, <3>1 DEF Exiting, Phase, Same
  <2> QED BY <2>1, <2>2, <2>3, <2>4 DEF Local, Phase
<1>5. \A e \in events[q] : HasEvent(q, e)'
  BY <1>1 DEF Local, OwnEvents, HasEvent, Same
<1>6. OwnEvents(q)'
  BY <1>5 DEF Local, OwnEvents, Same
<1> QED BY <1>4, <1>6 DEF Local, Same

\* The invariant of the acting process, when its session and its events stay.
LEMMA WorksKeepLocal ==
  ASSUME NEW p \in Process, Local(p), Works(p), Phase(p)',
         region'[p] \in BOOLEAN,
         region'[p] = FALSE => region[p] = FALSE \/ \A e \in events[p] : e.done = TRUE
  PROVE  Local(p)'
<1>1. Self(p)' = Self(p)
  BY DEF Works, Self
<1>2. \A e \in events[p] : HasEvent(p, e)'
  BY <1>1 DEF Local, OwnEvents, HasEvent, Works
<1>3. OwnEvents(p)'
  BY <1>2 DEF Local, OwnEvents, Works
<1> QED BY <1>3 DEF Local, Works

\* A step of a call whose rest is s, with neither session nor event changed.
LEMMA CallStep ==
  ASSUME PInv, NEW p \in Process, NEW s,
         todo' = [todo EXCEPT ![p] = s],
         DOMAIN conns' = Process, \A q \in Process \ {p} : conns'[q] = conns[q],
         UNCHANGED <<status, session, run_id, events, made, region, history>>,
         FileGrows, Stored' = Stored,
         status[p] # "down",
         Phase(p)'
  PROVE  IsStep(p)
<1>1. Functions_' /\ \A q \in Process \ {p} : Same(q)
  BY DEF PInv, Functions_, Same
<1>2. Works(p)
  BY DEF Works, history
<1>3. Local(p)'
  BY <1>2, WorksKeepLocal DEF PInv, Local
<1>4. run_id'[p] = NoRun \/ run_id'[p] \in DOMAIN Rows("Runs")'
  BY DEF PInv, File_, FileGrows
<1> QED BY <1>1, <1>2, <1>3, <1>4 DEF IsStep, InOrder, Kinds, PInv, History, history

\* The rest of a call that is in no phase but the one it was in.
LEMMA HeadOps ==
  ASSUME PInv, NEW p \in Process, NEW op, At(p, op)
  PROVE  /\ status[p] # "down"
         /\ status[p] = "init" => op = "open" \/ Connected(p)
         /\ status[p] = "up" =>
              \/ op = "need" /\ todo[p] = Creates("Runs")
              \/ op = "create" /\ todo[p] = <<Step("create", "Runs", Nothing)>>
              \/ op = "run" /\ todo[p] = <<Step("run", "Runs", NewRow(p))>>
              \/ op = "release" /\ todo[p] = Release
         /\ status[p] = "exit" =>
              \/ op = "release" /\ todo[p] = <<Plain("release"), Plain("close")>>
              \/ op = "close" /\ todo[p] = <<Plain("close")>>
<1>1. todo[p] # <<>> /\ Head(todo[p]).op = op /\ Phase(p)
  BY DEF At, PInv, Local
<1>2. CASE Down(p)
  BY <1>1, <1>2 DEF Down
<1>3. CASE Initialising(p)
  <2>1. todo[p] = <<Plain("open")>> => op = "open"
    BY <1>1, Ops, Shapes
  <2> QED BY <1>3, <2>1 DEF Initialising
<1>4. CASE Running(p)
  <2>1. todo[p] \in UpTodo(p) \ {<<>>}
    BY <1>1, <1>4 DEF Running
  <2>2. CASE todo[p] = Creates("Runs")
    BY <1>1, <1>4, <2>2, Ops, Shapes DEF Running, Creates
  <2>3. CASE todo[p] = <<Step("create", "Runs", Nothing)>>
    BY <1>1, <1>4, <2>3, Ops, Shapes DEF Running
  <2>4. CASE todo[p] = <<Step("run", "Runs", NewRow(p))>>
    BY <1>1, <1>4, <2>4, Ops, Shapes DEF Running
  <2>5. CASE todo[p] = Release
    BY <1>1, <1>4, <2>5, Ops, Shapes DEF Running, Release
  <2> QED BY <2>1, <2>2, <2>3, <2>4, <2>5 DEF UpTodo
<1>5. CASE Exiting(p)
  <2>1. CASE todo[p] = <<Plain("release"), Plain("close")>>
    BY <1>1, <1>5, <2>1, Ops, Shapes DEF Exiting
  <2>2. CASE todo[p] = <<Plain("close")>>
    BY <1>1, <1>5, <2>2, Ops, Shapes DEF Exiting
  <2> QED BY <1>1, <1>5, <2>1, <2>2 DEF Exiting
<1> QED BY <1>1, <1>2, <1>3, <1>4, <1>5 DEF Phase

\* Wherever a statement is executed, the file is open.
LEMMA StepsConnected ==
  ASSUME PInv, NEW p \in Process, NEW op, At(p, op), op # "open"
  PROVE  Connected(p)
<1>1. Phase(p) /\ todo[p] # <<>>
  BY DEF PInv, Local, At
<1>2. ~Down(p)
  BY HeadOps DEF Down
<1>3. Initialising(p) => Connected(p)
  BY HeadOps DEF Initialising
<1>4. Exiting(p) => Connected(p)
  BY <1>1 DEF Exiting
<1> QED BY <1>1, <1>2, <1>3, <1>4 DEF Phase, Running

------------------------------------------------------------------------------
\* The steps of calls.

LEMMA OpenStep ==
  ASSUME PInv, ProfilingAssumption, NEW p \in Process, OpenProfile(p)
  PROVE  IsStep(p)
<1>1. /\ At(p, "open")
      /\ Profile \notin DOMAIN conns[p]
      /\ disk' = With(disk, Profile, Content(Profile))
      /\ conns' = [conns EXCEPT ![p] = With(@, Profile, [memory |-> FALSE, copy |-> NoTables])]
      /\ todo' = [todo EXCEPT ![p] = acc_profiling_init]
      /\ UNCHANGED <<status, session, run_id, events, made, region, history>>
  BY DEF OpenProfile, acc_sqlite_open, LoadOrSave
<1>2. /\ DOMAIN disk' = DOMAIN disk \cup {Profile}
      /\ disk'[Profile] = Content(Profile)
  BY <1>1 DEF With
<1>3. Content(Profile)' = Content(Profile)
  BY <1>2 DEF Content
<1>4. (\A t : Rows(t)' = Rows(t)) /\ Stored' = Stored
  BY <1>3 DEF Rows, Stored
<1>5. FileGrows
  BY <1>2, <1>4 DEF FileGrows, PInv, File_, IsSeq, ProfilingAssumption
<1>6. DOMAIN conns' = Process /\ \A q \in Process \ {p} : conns'[q] = conns[q]
  BY <1>1 DEF PInv, Functions_
<1>7. Connected(p)'
  BY <1>1, <1>2 DEF With, Connected, PInv, Functions_
<1>8. status[p] = "init"
  <2>1. ~Connected(p)
    BY <1>1 DEF Connected
  <2>2. status[p] # "exit" /\ status[p] # "up" /\ status[p] # "down"
    BY <1>1, HeadOps
  <2> QED BY <2>2 DEF PInv, Local, Phase, Initialising, Running, Exiting, Down
<1>9. Phase(p)'
  BY <1>1, <1>7, <1>8 DEF Phase, Initialising, PInv, Local, Down, Running, Exiting
<1> QED BY <1>1, <1>4, <1>5, <1>6, <1>8, <1>9, CallStep

\* Where a call has come to after one of its statements.
LEMMA PhaseAfter ==
  ASSUME PInv, NEW p \in Process,
         UNCHANGED <<status, session, events, region, failed>>, Connected(p)',
         \/ status[p] = "init"
         \/ status[p] = "up" /\ todo'[p] \in UpTodo(p) \ {Release}
  PROVE  Phase(p)'
<1>1. Self(p)' = Self(p)
  BY DEF Self
<1>2. UpTodo(p)' = UpTodo(p)
  BY <1>1 DEF UpTodo, NewRow
<1>3. CASE status[p] = "init"
  <2>1. events[p] = {} /\ region[p] = FALSE
    BY <1>3 DEF PInv, Local, Phase, Down, Initialising, Running, Exiting
  <2> QED BY <1>3, <2>1 DEF Phase, Initialising
<1>4. CASE status[p] = "up" /\ todo'[p] \in UpTodo(p) \ {Release}
  BY <1>2, <1>4 DEF Phase, Running, Release
<1> QED BY <1>3, <1>4

\* A process ends; OwnEvents holds of none.
LEMMA GoneStep ==
  ASSUME PInv, NEW p \in Process, status[p] # "down",
         Ends(p), Dropped(p), UNCHANGED <<disk, session, failed>>,
         \/ closed' = closed
         \/ closed' = closed \cup {Self(p)} /\ events[p] = {}
  PROVE  IsStep(p)
<1>1. /\ status'[p] = "down" /\ run_id'[p] = NoRun /\ events'[p] = {}
      /\ made'[p] = 0 /\ region'[p] = FALSE /\ todo'[p] = <<>>
  BY DEF Ends, PInv, Functions_
<1>2. Functions_' /\ \A q \in Process \ {p} : Same(q)
  BY DEF Ends, Dropped, PInv, Functions_, Same
<1>3. FileGrows /\ Stored' = Stored
  BY FileSame
<1>4. Down(p)' /\ OwnEvents(p)'
  BY <1>1 DEF Down, OwnEvents
<1>5. MaxEvents[p] \in Nat
  BY ProfilingAssumption DEF ProfilingAssumption
<1>6. Local(p)'
  <2>1. made'[p] \in 0 .. MaxEvents[p]
    BY <1>1, <1>5
  <2>2. session'[p] \in 0 .. MaxSessions /\ (status'[p] # "down" => session'[p] >= 1)
    BY <1>1 DEF PInv, Local
  <2> QED BY <1>1, <1>4, <2>1, <2>2 DEF Local, Phase
<1>7. IsGone(p)
  BY <1>1, <1>3 DEF IsGone
<1> QED BY <1>1, <1>2, <1>3, <1>6, <1>7 DEF IsStep, InOrder, Kinds, PInv, History

LEMMA AbortStep ==
  ASSUME PInv, NEW p \in Process, NEW op, At(p, op), Aborts(p), UNCHANGED <<session, history>>
  PROVE  IsStep(p)
BY HeadOps, GoneStep DEF Aborts, history

LEMMA NeedStep ==
  ASSUME PInv, NEW p \in Process, NeedTable(p)
  PROVE  IsStep(p)
<1> DEFINE s == IF acc_sqlite_table_exists(p, Profile, Now(p).table)
                  THEN Tail(Tail(todo[p])) ELSE Tail(todo[p])
<1>1. /\ At(p, "need")
      /\ UNCHANGED <<disk, conns, status, session, run_id, events, made, region, history>>
      /\ todo' = [todo EXCEPT ![p] = s]
  BY DEF NeedTable
<1>2. Connected(p)' /\ DOMAIN conns' = Process
  BY <1>1, StepsConnected DEF Connected, PInv, Functions_
<1>3. status[p] = "up" => s \in UpTodo(p) \ {Release}
  <2> SUFFICES ASSUME status[p] = "up" PROVE s \in UpTodo(p) \ {Release}
    OBVIOUS
  <2>1. todo[p] = Creates("Runs")
    BY <1>1, HeadOps
  <2>2. Tail(todo[p]) = <<Step("create", "Runs", Nothing)>> /\ Tail(Tail(todo[p])) = <<>>
    BY <2>1, Shapes DEF Creates
  <2>3. s \in {<<>>, <<Step("create", "Runs", Nothing)>>}
    BY <2>2
  <2>4. Release # <<>> /\ Release # <<Step("create", "Runs", Nothing)>>
    BY Shapes, Ops DEF Release
  <2> HIDE DEF s
  <2> QED BY <2>3, <2>4 DEF UpTodo
<1>4. status[p] = "init" \/ status[p] = "up"
  <2>1. status[p] # "down" /\ status[p] # "exit"
    BY <1>1, HeadOps
  <2> QED BY <2>1 DEF PInv, Local, Phase, Down, Initialising, Running, Exiting
<1>5. todo'[p] = s
  BY <1>1 DEF PInv, Functions_
<1> HIDE DEF s
<1>6. Phase(p)'
  BY <1>1, <1>2, <1>3, <1>4, <1>5, PhaseAfter DEF history
<1> QED BY <1>1, <1>2, <1>4, <1>6, FileSame, CallStep

LEMMA CreateStep ==
  ASSUME PInv, NEW p \in Process, acc_sqlite_create_table(p)
  PROVE  IsStep(p)
<1>1. At(p, "create") /\ UNCHANGED <<session, history>>
  BY DEF acc_sqlite_create_table
<1>2. CASE Aborts(p)
  BY <1>1, <1>2, AbortStep
<1>3. CASE /\ CreateTable(p, Profile, Now(p).table)
           /\ GoOn(p)
           /\ UNCHANGED <<status, run_id, events, made, region>>
  <2>1. Connected(p)
    BY <1>1, StepsConnected
  <2>2. conns' = conns /\ DOMAIN disk' = DOMAIN disk /\ \A t : Rows(t)' = Rows(t)
    BY <1>3, <2>1, CreateFacts DEF PInv
  <2>3. FileGrows /\ Stored' = Stored
    BY <2>2, StoredIsRows DEF FileGrows, PInv, File_, IsSeq
  <2>4. Connected(p)' /\ DOMAIN conns' = Process
    BY <2>1, <2>2 DEF Connected, PInv, Functions_
  <2>5. todo' = [todo EXCEPT ![p] = Tail(todo[p])] /\ todo'[p] = Tail(todo[p])
    BY <1>3 DEF GoOn, PInv, Functions_
  <2>6. status[p] = "up" => todo'[p] = <<>>
    <3>1. status[p] = "up" => todo[p] = <<Step("create", "Runs", Nothing)>>
      BY <1>1, HeadOps
    <3> QED BY <2>5, <3>1, Shapes
  <2>7. status[p] = "init" \/ status[p] = "up"
    <3>1. status[p] # "down" /\ status[p] # "exit"
      BY <1>1, HeadOps
    <3> QED BY <3>1 DEF PInv, Local, Phase, Down, Initialising, Running, Exiting
  <2>8. Phase(p)'
    <3>1. <<>> \in UpTodo(p) \ {Release}
      BY Shapes DEF UpTodo, Release
    <3> QED BY <1>1, <1>3, <2>4, <2>6, <2>7, <3>1, PhaseAfter DEF history
  <2> QED BY <1>1, <1>3, <2>2, <2>3, <2>4, <2>5, <2>7, <2>8, CallStep
<1> QED BY <1>2, <1>3 DEF acc_sqlite_create_table

LEMMA InsertStep ==
  ASSUME PInv, NEW p \in Process, InsertRow(p)
  PROVE  IsStep(p)
<1> DEFINE table == Now(p).table
<1>1. /\ At(p, "insert") /\ table \in {"Platforms", "Devices"}
      /\ Insert(p, Profile, table, Now(p).row)
      /\ GoOn(p)
      /\ UNCHANGED <<status, session, run_id, events, made, region, history>>
  BY DEF InsertRow
<1>2. Connected(p) /\ Functions_
  BY <1>1, StepsConnected DEF PInv
<1>3. /\ conns' = conns /\ DOMAIN disk' = DOMAIN disk
      /\ \A t : t # table => Rows(t)' = Rows(t)
  <2> HIDE DEF table
  <2> QED BY <1>1, <1>2, InsertFacts
<1>4. Rows("Runs")' = Rows("Runs") /\ Rows("Events")' = Rows("Events")
  BY <1>1, <1>3
<1> HIDE DEF table
<1>5. FileGrows /\ Stored' = Stored
  BY <1>3, <1>4, StoredIsRows DEF FileGrows, PInv, File_, IsSeq
<1>6. Connected(p)' /\ DOMAIN conns' = Process
  BY <1>2, <1>3 DEF Connected, PInv, Functions_
<1>7. status[p] = "init"
  <2>1. status[p] # "up" /\ status[p] # "exit" /\ status[p] # "down"
    BY <1>1, HeadOps
  <2> QED BY <2>1 DEF PInv, Local, Phase, Down, Initialising, Running, Exiting
<1>8. Phase(p)'
  BY <1>1, <1>6, <1>7, PhaseAfter DEF history
<1> QED BY <1>1, <1>3, <1>5, <1>6, <1>7, <1>8, CallStep DEF GoOn

LEMMA FlagStep ==
  ASSUME PInv, NEW p \in Process, SetFlag(p)
  PROVE  IsStep(p)
<1>1. /\ At(p, "flag")
      /\ status' = [status EXCEPT ![p] = "up"]
      /\ todo' = [todo EXCEPT ![p] = <<>>]
      /\ UNCHANGED <<disk, conns, session, run_id, events, made, region, history>>
  BY DEF SetFlag
<1>2. Functions_' /\ (\A q \in Process \ {p} : Same(q)) /\ status'[p] = "up" /\ todo'[p] = <<>>
  BY <1>1 DEF PInv, Functions_, Same
<1>3. FileGrows /\ Stored' = Stored
  BY <1>1, FileSame
<1>4. Connected(p)' /\ status[p] # "down"
  BY <1>1, HeadOps, StepsConnected DEF Connected
<1>5. <<>> # Release
  BY Shapes DEF Release
<1>6. Phase(p)'
  BY <1>2, <1>4, <1>5 DEF Phase, Running, UpTodo
<1>7. Works(p)
  BY <1>1, <1>2, <1>3, <1>4 DEF Works, history
<1>8. Local(p)'
  BY <1>1, <1>6, <1>7, WorksKeepLocal DEF PInv, Local
<1>9. run_id'[p] = NoRun \/ run_id'[p] \in DOMAIN Rows("Runs")'
  BY <1>1, <1>3 DEF PInv, File_, FileGrows
<1> QED BY <1>1, <1>2, <1>3, <1>7, <1>8, <1>9 DEF IsStep, InOrder, Kinds, PInv, History, history

LEMMA NewRunStep ==
  ASSUME PInv, NEW p \in Process, NewRun(p)
  PROVE  IsStep(p)
<1>1. At(p, "run") /\ UNCHANGED <<session, history>>
  BY DEF NewRun
<1>2. CASE Aborts(p)
  BY <1>1, <1>2, AbortStep
<1>3. CASE /\ Insert(p, Profile, "Runs", Now(p).row)
           /\ run_id' = [run_id EXCEPT ![p] = LastRowid(p)]
           /\ GoOn(p)
           /\ UNCHANGED <<status, events, made, region>>
  <2>1. Connected(p) /\ Functions_
    BY <1>1, StepsConnected DEF PInv
  <2>2. /\ conns' = conns /\ DOMAIN disk' = DOMAIN disk
        /\ Rows("Runs")' = Append(Rows("Runs"), Now(p).row)
        /\ Rows("Events")' = Rows("Events")
    <3>1. "Events" # "Runs"
      OBVIOUS
    <3> QED BY <1>3, <2>1, <3>1, InsertFacts
  <2>3. LastRowid(p) = Len(Rows("Runs")) + 1
    BY <2>1, ViewIsContent DEF LastRowid, Rows
  <2>4. /\ IsSeq(Append(Rows("Runs"), Now(p).row))
        /\ Len(Rows("Runs")) \in Nat
        /\ DOMAIN Rows("Runs") = 1 .. Len(Rows("Runs"))
        /\ DOMAIN Rows("Runs")' = 1 .. Len(Rows("Runs")) + 1
    <3>1. IsSeq(Rows("Runs"))
      BY DEF PInv, File_
    <3> QED BY <2>2, <3>1, AppendFacts
  <2>5. IsSeq(Rows("Runs"))'
    BY <2>2, <2>4 DEF IsSeq
  <2>6. FileGrows /\ Stored' = Stored
    BY <2>2, <2>4, <2>5, StoredIsRows DEF FileGrows, PInv, File_
  <2>7. run_id'[p] \in DOMAIN Rows("Runs")'
    BY <1>3, <2>1, <2>3, <2>4 DEF Functions_
  <2>8. Connected(p)'
    BY <2>1, <2>2 DEF Connected
  <2>9. todo' = [todo EXCEPT ![p] = Tail(todo[p])] /\ todo'[p] = Tail(todo[p])
    BY <1>3, <2>1 DEF GoOn, Functions_
  <2>10. status[p] = "up" => todo'[p] = <<>>
    <3>1. status[p] = "up" => todo[p] = <<Step("run", "Runs", NewRow(p))>>
      BY <1>1, HeadOps
    <3> QED BY <2>9, <3>1, Shapes
  <2>11. status[p] = "init" \/ status[p] = "up"
    <3>1. status[p] # "down" /\ status[p] # "exit"
      BY <1>1, HeadOps
    <3> QED BY <3>1 DEF PInv, Local, Phase, Down, Initialising, Running, Exiting
  <2>12. Phase(p)'
    <3>1. <<>> \in UpTodo(p) \ {Release}
      BY Shapes DEF UpTodo, Release
    <3> QED BY <1>1, <1>3, <2>8, <2>10, <2>11, <3>1, PhaseAfter DEF history
  <2>13. Functions_' /\ \A q \in Process \ {p} : Same(q)
    BY <1>1, <1>3, <2>1, <2>2, <2>9 DEF Functions_, Same
  <2>14. Works(p)
    BY <1>1, <1>3, <2>6, <2>11 DEF Works, history
  <2>15. Local(p)'
    BY <1>3, <2>12, <2>14, WorksKeepLocal DEF PInv, Local
  <2> QED BY <1>1, <2>6, <2>7, <2>13, <2>14, <2>15 DEF IsStep, InOrder, Kinds, PInv, History, history
<1> QED BY <1>2, <1>3 DEF NewRun

\* One event is stored; it goes on to be in the map.
LEMMA StoreStep ==
  ASSUME PInv, NEW p \in Process, acc_profiling_release_event(p)
  PROVE  IsStep(p)
<1>1. At(p, "release") /\ UNCHANGED <<status, session, run_id, made, region, todo, history>>
  BY DEF acc_profiling_release_event
<1>2. PICK e \in events[p] :
        /\ ~e.out
        /\ Insert(p, Profile, "Events", EventRow(e))
        /\ events' = [events EXCEPT ![p] = (@ \ {e}) \cup {[e EXCEPT !.out = TRUE]}]
  BY DEF acc_profiling_release_event
<1> DEFINE f == [e EXCEPT !.out = TRUE]
<1>3. Connected(p) /\ Functions_ /\ Local(p)
  BY <1>1, StepsConnected DEF PInv
<1>4. /\ conns' = conns /\ DOMAIN disk' = DOMAIN disk
      /\ Rows("Events")' = Append(Rows("Events"), EventRow(e))
      /\ Rows("Runs")' = Rows("Runs")
  <2>1. "Events" # "Runs"
    OBVIOUS
  <2> QED BY <1>2, <1>3, <2>1, InsertFacts
<1>5. Stored' = Append(Stored, EventRow(e))
  BY <1>4, StoredIsRows
<1>6. FileGrows
  BY <1>4 DEF FileGrows, PInv, File_, IsSeq
<1>7. Functions_' /\ (\A q \in Process \ {p} : Same(q)) /\ events'[p] = (events[p] \ {e}) \cup {f}
  BY <1>1, <1>2, <1>3, <1>4 DEF Functions_, Same
<1>8. HasEvent(p, e) /\ e.out = FALSE
  BY <1>2, <1>3 DEF Local, OwnEvents, HasEvent
<1>9. f = [id |-> e.id, run |-> e.run, device |-> e.device, on |-> e.on,
           done |-> e.done, out |-> TRUE]
  BY <1>8, EventChanges DEF HasEvent
<1> HIDE DEF f
<1>10. Self(p)' = Self(p)
  BY <1>1 DEF Self
<1>11. \A g \in events[p] : HasEvent(p, g)'
  BY <1>1, <1>3, <1>10 DEF Local, OwnEvents, HasEvent
<1>12. f.id = e.id /\ f.done = e.done /\ f.out = TRUE
  BY <1>9
<1>13. HasEvent(p, f)'
  BY <1>8, <1>9, <1>11, <1>12 DEF HasEvent
<1>14. OwnEvents(p)'
  <2>1. \A g \in events'[p] : HasEvent(p, g)'
    BY <1>7, <1>11, <1>13
  <2>2. \A g, h \in events'[p] : g.id = h.id => g = h
    BY <1>2, <1>3, <1>7, <1>12 DEF Local, OwnEvents
  <2>3. region'[p] = FALSE => \A g \in events'[p] : g.done = TRUE
    BY <1>1, <1>2, <1>3, <1>7, <1>12 DEF Local, OwnEvents
  <2> QED BY <2>1, <2>2, <2>3 DEF OwnEvents
<1>15. status[p] # "down" /\ status[p] # "init"
  <2>1. status[p] # "down"
    BY <1>1, HeadOps
  <2>2. status[p] # "init"
    BY <1>2, <1>3 DEF Local, Phase, Down, Initialising, Running, Exiting
  <2> QED BY <2>1, <2>2
<1>16. \/ todo[p] = Release /\ Running(p)
       \/ todo[p] = <<Plain("release"), Plain("close")>> /\ Exiting(p)
  BY <1>1, <1>3, <1>15, HeadOps DEF Local, Phase, Down, Initialising, Running, Exiting
<1>17. region[p] = FALSE \/ Self(p) \in failed
  <2>1. <<Plain("release"), Plain("close")>> # <<Plain("close")>>
        /\ <<Plain("release"), Plain("close")>> # <<>>
    BY Shapes
  <2> QED BY <1>16, <2>1 DEF Running, Exiting
<1>18. Connected(p)'
  BY <1>3, <1>4 DEF Connected
<1>19. Phase(p)'
  <2>1. CASE todo[p] = Release /\ Running(p)
    <3>1. UpTodo(p)' = UpTodo(p)
      BY <1>10 DEF UpTodo, NewRow
    <3> QED BY <1>1, <1>18, <2>1, <3>1 DEF Phase, Running
  <2>2. CASE todo[p] = <<Plain("release"), Plain("close")>> /\ Exiting(p)
    BY <1>1, <1>10, <1>17, <1>18, <2>2 DEF Phase, Exiting, history
  <2> QED BY <1>16, <2>1, <2>2
<1>20. Local(p)'
  BY <1>1, <1>3, <1>14, <1>19 DEF Local
<1>21. Stores(p)
  <2>1. e.done = TRUE \/ Self(p) \in failed
    BY <1>2, <1>3, <1>17 DEF Local, OwnEvents
  <2> QED BY <1>1, <1>2, <1>5, <1>7, <1>8, <1>15, <2>1 DEF Stores, history, f
<1>22. run_id'[p] = NoRun \/ run_id'[p] \in DOMAIN Rows("Runs")'
  BY <1>1, <1>6 DEF PInv, File_, FileGrows
<1> QED BY <1>1, <1>6, <1>7, <1>20, <1>21, <1>22 DEF IsStep, InOrder, Kinds, PInv, History, history

LEMMA ClearStep ==
  ASSUME PInv, NEW p \in Process, ClearEvents(p)
  PROVE  IsStep(p)
<1>1. /\ At(p, "release")
      /\ \A e \in events[p] : e.out
      /\ events' = [events EXCEPT ![p] = {}]
      /\ todo' = [todo EXCEPT ![p] = Tail(todo[p])]
      /\ UNCHANGED <<disk, conns, status, session, run_id, made, region, history>>
  BY DEF ClearEvents, GoOn
<1>2. Connected(p) /\ Connected(p)' /\ Functions_ /\ Local(p)
  BY <1>1, StepsConnected DEF PInv, Connected
<1>3. Functions_' /\ (\A q \in Process \ {p} : Same(q)) /\ events'[p] = {} /\ todo'[p] = Tail(todo[p])
  BY <1>1, <1>2 DEF Functions_, Same
<1>4. FileGrows /\ Stored' = Stored
  BY <1>1, FileSame
<1>5. OwnEvents(p)'
  BY <1>3 DEF OwnEvents
<1>6. status[p] # "down"
  BY <1>1, HeadOps
<1>7. Phase(p)'
  <2>1. CASE status[p] = "init"
    <3>1. region[p] = FALSE
      BY <1>2, <2>1 DEF Local, Phase, Down, Initialising, Running, Exiting
    <3> QED BY <1>1, <1>2, <1>3, <2>1, <3>1 DEF Phase, Initialising
  <2>2. CASE status[p] = "up"
    <3>1. todo[p] = Release
      BY <1>1, <2>2, HeadOps
    <3>2. todo'[p] = <<>> /\ <<>> # Release
      BY <1>3, <3>1, Shapes DEF Release
    <3> QED BY <1>1, <1>2, <2>2, <3>2 DEF Phase, Running, UpTodo
  <2>3. CASE status[p] = "exit"
    <3>1. todo[p] = <<Plain("release"), Plain("close")>>
      BY <1>1, <2>3, HeadOps
    <3>2. todo'[p] = <<Plain("close")>>
      BY <1>3, <3>1, Shapes
    <3> QED BY <1>1, <1>2, <1>3, <2>3, <3>2 DEF Phase, Exiting
  <2>4. status[p] \in {"init", "up", "exit"}
    BY <1>2, <1>6 DEF Local, Phase, Down, Initialising, Running, Exiting
  <2> QED BY <2>1, <2>2, <2>3, <2>4
<1>8. Local(p)'
  BY <1>1, <1>2, <1>5, <1>7 DEF Local
<1>9. Clears(p)
  <2>1. \A e \in events[p] : e.out = TRUE
    BY <1>1, <1>2 DEF Local, OwnEvents, HasEvent
  <2> QED BY <1>1, <1>3, <1>4, <1>6, <2>1 DEF Clears, history
<1>10. run_id'[p] = NoRun \/ run_id'[p] \in DOMAIN Rows("Runs")'
  BY <1>1, <1>4 DEF PInv, File_, FileGrows
<1> QED BY <1>1, <1>3, <1>4, <1>8, <1>9, <1>10 DEF IsStep, InOrder, Kinds, PInv, History, history

LEMMA CloseStep ==
  ASSUME PInv, NEW p \in Process, CloseProfile(p)
  PROVE  IsStep(p)
<1>1. /\ status[p] = "exit" /\ At(p, "close")
      /\ acc_sqlite_close(p, Profile)
      /\ todo' = [todo EXCEPT ![p] = Tail(todo[p])]
      /\ UNCHANGED <<status, session, run_id, events, made, region, history>>
  BY DEF CloseProfile, GoOn
<1>2. Connected(p) /\ Functions_
  BY <1>1, StepsConnected DEF PInv
<1>3. conns[p][Profile].memory = FALSE
  BY <1>2 DEF Connected
<1>4. UNCHANGED disk /\ conns' = [conns EXCEPT ![p] = Without(@, Profile)]
  BY <1>1, <1>3 DEF acc_sqlite_close
<1>5. DOMAIN conns' = Process /\ \A q \in Process \ {p} : conns'[q] = conns[q]
  BY <1>2, <1>4 DEF Functions_
<1>6. todo[p] = <<Plain("close")>>
  BY <1>1, HeadOps
<1>7. todo'[p] = <<>>
  BY <1>1, <1>2, <1>6, Shapes DEF Functions_
<1>8. events[p] = {}
  <2>1. <<Plain("close")>> # <<Plain("release"), Plain("close")>> /\ <<Plain("close")>> # <<>>
    BY Shapes
  <2> QED BY <1>1, <1>6, <2>1 DEF PInv, Local, Phase, Down, Initialising, Running, Exiting
<1>9. Phase(p)'
  BY <1>1, <1>7, <1>8 DEF Phase, Exiting
<1> QED BY <1>1, <1>4, <1>5, <1>9, FileSame, CallStep

LEMMA ReturnStep ==
  ASSUME PInv, NEW p \in Process, Returned(p)
  PROVE  IsStep(p)
<1>1. /\ status[p] = "exit" /\ todo[p] = <<>>
      /\ Ends(p) /\ Dropped(p)
      /\ closed' = closed \cup {Self(p)}
      /\ UNCHANGED <<disk, session, failed>>
  BY DEF Returned
<1>2. events[p] = {}
  <2>1. <<>> # <<Plain("release"), Plain("close")>> /\ <<>> # <<Plain("close")>>
    BY Shapes
  <2> QED BY <1>1, <2>1 DEF PInv, Local, Phase, Down, Initialising, Running, Exiting
<1> QED BY <1>1, <1>2, GoneStep

------------------------------------------------------------------------------
\* The beginning and the end of processes.

LEMMA StartStep ==
  ASSUME PInv, ProfilingAssumption, NEW p \in Process, Start(p)
  PROVE  IsStep(p)
<1>1. /\ status[p] = "down" /\ session[p] < MaxSessions
      /\ status' = [status EXCEPT ![p] = "init"]
      /\ session' = [session EXCEPT ![p] = @ + 1]
      /\ todo' = [todo EXCEPT ![p] = <<Plain("open")>>]
      /\ UNCHANGED <<disk, conns, run_id, events, made, region, history>>
  BY DEF Start, Starts
<1>2. Functions_ /\ Local(p) /\ Down(p)
  BY <1>1 DEF PInv, Local, Phase, Initialising, Running, Exiting
<1>3. /\ Functions_' /\ \A q \in Process \ {p} : Same(q)
      /\ status'[p] = "init" /\ session'[p] = session[p] + 1 /\ todo'[p] = <<Plain("open")>>
  BY <1>1, <1>2 DEF Functions_, Same
<1>4. FileGrows /\ Stored' = Stored
  BY <1>1, FileSame
<1>5. events'[p] = {} /\ region'[p] = FALSE
  BY <1>1, <1>2 DEF Down
<1>6. Phase(p)' /\ OwnEvents(p)'
  BY <1>3, <1>5 DEF Phase, Initialising, OwnEvents
<1>7. session'[p] \in 0 .. MaxSessions /\ session'[p] >= 1
  BY <1>1, <1>2, <1>3 DEF Local, ProfilingAssumption
<1>8. Local(p)'
  BY <1>1, <1>2, <1>5, <1>6, <1>7 DEF Local
<1>9. Begins(p)
  BY <1>1, <1>2, <1>3, <1>4, <1>5 DEF Begins, history, Down
<1>10. run_id'[p] = NoRun \/ run_id'[p] \in DOMAIN Rows("Runs")'
  BY <1>1, <1>4 DEF PInv, File_, FileGrows
<1> QED BY <1>1, <1>3, <1>4, <1>8, <1>9, <1>10 DEF IsStep, InOrder, Kinds, PInv, History, history

LEMMA DiesStep ==
  ASSUME PInv, NEW p \in Process, Dies(p)
  PROVE  IsStep(p)
BY GoneStep DEF Dies, history

------------------------------------------------------------------------------
\* The program's calls.

\* A call without a write, made of the steps s.
LEMMA BeginsCall ==
  ASSUME PInv, NEW p \in Process, Free(p), NEW s \in UpTodo(p),
         Calls(p, s), OnlyCalls, s = Release => region[p] = FALSE
  PROVE  IsStep(p)
<1>1. status[p] = "up" /\ todo' = [todo EXCEPT ![p] = s] /\ todo'[p] = s
  BY DEF Free, Calls, PInv, Functions_
<1>2. UNCHANGED <<disk, conns, status, session, run_id, events, made, region, history>>
  BY DEF OnlyCalls
<1>3. Connected(p)' /\ DOMAIN conns' = Process
  BY <1>1, <1>2 DEF PInv, Functions_, Local, Phase, Down, Initialising, Running, Exiting, Connected
<1>4. UpTodo(p)' = UpTodo(p)
  BY <1>2 DEF UpTodo, NewRow, Self
<1>5. Phase(p)'
  BY <1>1, <1>2, <1>3, <1>4 DEF Phase, Running
<1> QED BY <1>1, <1>2, <1>3, <1>5, FileSame, CallStep

LEMMA CallsStep ==
  ASSUME PInv, NEW p \in Process,
         \/ acc_profiling_set_experiment(p)
         \/ acc_profiling_new_run(p)
         \/ acc_profiling_release_all_events(p)
  PROVE  IsStep(p)
<1>1. Release # Creates("Runs") /\ Release # <<Step("run", "Runs", NewRow(p))>>
  BY Shapes, Ops DEF Release, Creates
<1>2. CASE acc_profiling_set_experiment(p)
  BY <1>1, <1>2, BeginsCall DEF acc_profiling_set_experiment, UpTodo
<1>3. CASE acc_profiling_new_run(p)
  BY <1>1, <1>3, BeginsCall DEF acc_profiling_new_run, UpTodo
<1>4. CASE acc_profiling_release_all_events(p)
  BY <1>4, BeginsCall DEF acc_profiling_release_all_events, UpTodo, PInv, Local
<1> QED BY <1>2, <1>3, <1>4

\* A region begins, ends, or is left by an exit.
LEMMA RegionStep ==
  ASSUME PInv, NEW p \in Process, acc_region_start(p) \/ acc_region_stop(p)
  PROVE  IsStep(p)
<1>1. /\ Free(p)
      /\ UNCHANGED <<disk, conns, status, session, run_id, events, made, todo, history>>
      /\ \/ region' = [region EXCEPT ![p] = TRUE]
         \/ region' = [region EXCEPT ![p] = FALSE] /\ Finished(p)
  BY DEF acc_region_start, acc_region_stop
<1>2. Functions_ /\ Local(p) /\ Running(p)
  BY <1>1 DEF PInv, Local, Free, Phase, Down, Initialising, Exiting
<1>3. Functions_' /\ \A q \in Process \ {p} : Same(q)
  BY <1>1, <1>2 DEF Functions_, Same
<1>4. FileGrows /\ Stored' = Stored
  BY <1>1, FileSame
<1>5. \/ region'[p] = TRUE
      \/ region'[p] = FALSE /\ \A e \in events[p] : e.done = TRUE
  BY <1>1, <1>2 DEF Functions_, Finished, Local, OwnEvents, HasEvent
<1>6. Running(p)'
  <2>1. <<>> # Release
    BY Shapes DEF Release
  <2>2. todo'[p] = <<>> /\ status'[p] = "up"
    BY <1>1 DEF Free
  <2>3. Connected(p)'
    BY <1>1, <1>2 DEF Running, Connected
  <2> QED BY <2>1, <2>2, <2>3 DEF Running, UpTodo
<1>7. Works(p)
  BY <1>1, <1>4 DEF Works, history
<1>8. Local(p)'
  BY <1>2, <1>5, <1>6, <1>7, WorksKeepLocal DEF Phase
<1>9. run_id'[p] = NoRun \/ run_id'[p] \in DOMAIN Rows("Runs")'
  BY <1>1, <1>4 DEF PInv, File_, FileGrows
<1> QED BY <1>1, <1>3, <1>4, <1>7, <1>8, <1>9 DEF IsStep, InOrder, Kinds, PInv, History, history

LEMMA SelfIsSession ==
  ASSUME NEW p \in Process, Local(p), status[p] # "down", ProfilingAssumption
  PROVE  Self(p) \in Session
BY DEF Local, Self, Session, ProfilingAssumption

LEMMA ExitStep ==
  ASSUME PInv, ProfilingAssumption, NEW p \in Process, acc_exit(p)
  PROVE  IsStep(p)
<1>1. /\ Free(p)
      /\ status' = [status EXCEPT ![p] = "exit"]
      /\ todo' = [todo EXCEPT ![p] = acc_profiling_exit]
      /\ failed' = IF region[p] THEN failed \cup {Self(p)} ELSE failed
      /\ UNCHANGED <<disk, conns, session, run_id, events, made, region, closed>>
  BY DEF acc_exit, Exits, Calls
<1>2. Functions_ /\ Local(p) /\ Running(p) /\ status[p] = "up"
  BY <1>1 DEF PInv, Local, Free, Phase, Down, Initialising, Exiting
<1>3. /\ Functions_' /\ \A q \in Process \ {p} : Same(q)
      /\ status'[p] = "exit" /\ todo'[p] = <<Plain("release"), Plain("close")>>
  BY <1>1, <1>2 DEF Functions_, Same, acc_profiling_exit
<1>4. FileGrows /\ Stored' = Stored
  BY <1>1, FileSame
<1>5. Self(p) \in Session /\ Self(p)' = Self(p)
  BY <1>1, <1>2, SelfIsSession DEF Self
<1>6. failed \subseteq failed' /\ failed' \subseteq Session
  BY <1>1, <1>5 DEF PInv, History
<1>7. region'[p] = FALSE \/ Self(p)' \in failed'
  BY <1>1, <1>2, <1>5 DEF Local
<1>8. Phase(p)'
  BY <1>1, <1>2, <1>3, <1>7 DEF Phase, Exiting, Running, Connected
<1>9. Works(p)
  BY <1>1, <1>2, <1>3, <1>4 DEF Works
<1>10. Local(p)'
  BY <1>1, <1>2, <1>8, <1>9, WorksKeepLocal DEF Local
<1>11. run_id'[p] = NoRun \/ run_id'[p] \in DOMAIN Rows("Runs")'
  BY <1>1, <1>4 DEF PInv, File_, FileGrows
<1> QED BY <1>1, <1>3, <1>4, <1>6, <1>9, <1>10, <1>11 DEF IsStep, InOrder, Kinds

------------------------------------------------------------------------------
\* Events are made, and end.

LEMMA RegisterStep ==
  ASSUME PInv, ProfilingAssumption, NEW p \in Process,
         acc_profiling_register_memcpy(p) \/ acc_profiling_register_kernel_launch(p)
  PROVE  IsStep(p)
<1>1. PICK k \in DOMAIN AllDevices, done \in BOOLEAN :
        Register(p, k, done) /\ (region[p] = FALSE => done = TRUE)
  BY DEF acc_profiling_register_memcpy, acc_profiling_register_kernel_launch, PInv, Local
<1>e. PICK e : e = Registered(p, k, done)
  OBVIOUS
<1>2. /\ Free(p) /\ made[p] < MaxEvents[p]
      /\ events' = [events EXCEPT ![p] = @ \cup {e}]
      /\ made' = [made EXCEPT ![p] = @ + 1]
      /\ UNCHANGED <<disk, conns, status, session, run_id, region, todo, history>>
  BY <1>1, <1>e DEF Register, acc_profiling_register_memcpy, acc_profiling_register_kernel_launch
<1>3. /\ e = [id |-> [by |-> Self(p), n |-> made[p] + 1], run |-> RunOf(p),
              device |-> k - 1, on |-> AllDevices[k], done |-> done, out |-> FALSE]
  BY <1>e DEF Registered
<1>4. /\ e.id = [by |-> Self(p), n |-> made[p] + 1] /\ e.done = done /\ e.out = FALSE
      /\ e = [id |-> e.id, run |-> e.run, device |-> e.device, on |-> e.on,
              done |-> e.done, out |-> e.out]
  BY <1>3
<1>5. Functions_ /\ Local(p) /\ Running(p)
  BY <1>2 DEF PInv, Local, Free, Phase, Down, Initialising, Exiting
<1>6. /\ Functions_' /\ \A q \in Process \ {p} : Same(q)
      /\ events'[p] = events[p] \cup {e} /\ made'[p] = made[p] + 1
  BY <1>2, <1>5 DEF Functions_, Same
<1>7. FileGrows /\ Stored' = Stored
  BY <1>2, FileSame
<1>8. Self(p)' = Self(p)
  BY <1>2 DEF Self
<1>9. made[p] \in Nat /\ MaxEvents[p] \in Nat /\ made[p] + 1 \in 0 .. MaxEvents[p]
  BY <1>2, <1>5 DEF Local, ProfilingAssumption
<1>10. \A g \in events'[p] : HasEvent(p, g)'
  <2>1. \A n : n \in 1 .. made[p] => n \in 1 .. made[p] + 1
    BY <1>9
  <2>2. ASSUME NEW g \in events[p] PROVE HasEvent(p, g)'
    <3>1. HasEvent(p, g)
      BY <1>5 DEF Local, OwnEvents
    <3> QED BY <1>6, <1>8, <2>1, <3>1 DEF HasEvent
  <2>3. HasEvent(p, e)'
    <3>1. e.id \in [by : {Self(p)}, n : 1 .. made[p] + 1]
      BY <1>4, <1>9
    <3>2. e.done \in BOOLEAN /\ e.out \in BOOLEAN
      BY <1>4
    <3> QED BY <1>4, <1>6, <1>8, <3>1, <3>2 DEF HasEvent
  <2> QED BY <1>6, <2>2, <2>3
<1>11. \A g \in events[p] : g.id # e.id
  <2> SUFFICES ASSUME NEW g \in events[p], g.id = e.id PROVE FALSE
    OBVIOUS
  <2>1. g.id \in [by : {Self(p)}, n : 1 .. made[p]]
    BY <1>5 DEF Local, OwnEvents, HasEvent
  <2>2. g.id.n <= made[p] /\ g.id.n = made[p] + 1
    BY <1>4, <1>9, <2>1
  <2> QED BY <1>9, <2>1, <2>2
<1>12. OwnEvents(p)'
  <2>1. \A g, h \in events'[p] : g.id = h.id => g = h
    BY <1>5, <1>6, <1>11 DEF Local, OwnEvents
  <2>2. region'[p] = FALSE => \A g \in events'[p] : g.done = TRUE
    BY <1>1, <1>2, <1>4, <1>5, <1>6 DEF Local, OwnEvents
  <2> QED BY <1>10, <2>1, <2>2 DEF OwnEvents
<1>13. Running(p)'
  <2>1. UpTodo(p)' = UpTodo(p)
    BY <1>8 DEF UpTodo, NewRow
  <2>2. Connected(p)'
    BY <1>2, <1>5 DEF Running, Connected
  <2> QED BY <1>2, <1>5, <2>1, <2>2 DEF Running
<1>14. Local(p)'
  BY <1>2, <1>5, <1>6, <1>9, <1>12, <1>13 DEF Local, Phase
<1>15. Registers(p)
  <2>1. status[p] # "down"
    BY <1>5 DEF Running
  <2> QED BY <1>2, <1>4, <1>6, <1>7, <2>1 DEF Registers, history
<1>16. run_id'[p] = NoRun \/ run_id'[p] \in DOMAIN Rows("Runs")'
  BY <1>2, <1>7 DEF PInv, File_, FileGrows
<1> QED BY <1>2, <1>6, <1>7, <1>14, <1>15, <1>16 DEF IsStep, InOrder, Kinds, PInv, History, history

LEMMA MeasureStep ==
  ASSUME PInv, NEW p \in Process, KernelEnds(p)
  PROVE  IsStep(p)
<1>1. PICK e \in events[p] :
        /\ ~e.done /\ ~e.out
        /\ events' = [events EXCEPT ![p] = (@ \ {e}) \cup {[e EXCEPT !.done = TRUE]}]
        /\ UNCHANGED <<disk, conns, status, session, run_id, made, region, todo, history>>
  BY DEF KernelEnds
<1> DEFINE f == [e EXCEPT !.done = TRUE]
<1>2. Functions_ /\ Local(p) /\ HasEvent(p, e)
  BY DEF PInv, Local, OwnEvents
<1>3. f = [id |-> e.id, run |-> e.run, device |-> e.device, on |-> e.on,
           done |-> TRUE, out |-> e.out]
  BY <1>2, EventChanges DEF HasEvent
<1>4. /\ Functions_' /\ \A q \in Process \ {p} : Same(q)
      /\ events'[p] = (events[p] \ {e}) \cup {f}
  BY <1>1, <1>2 DEF Functions_, Same
<1> HIDE DEF f
<1>5. FileGrows /\ Stored' = Stored
  BY <1>1, FileSame
<1>6. Self(p)' = Self(p)
  BY <1>1 DEF Self
<1>7. f.id = e.id /\ f.done = TRUE /\ f.out = e.out
  BY <1>3
<1>8. \A g \in events'[p] : HasEvent(p, g)'
  <2>1. \A g \in events[p] : HasEvent(p, g)'
    BY <1>1, <1>2, <1>6 DEF Local, OwnEvents, HasEvent
  <2>2. HasEvent(p, f)'
    BY <1>2, <1>3, <1>7, <2>1 DEF HasEvent
  <2> QED BY <1>4, <2>1, <2>2
<1>9. OwnEvents(p)'
  <2>1. \A g, h \in events'[p] : g.id = h.id => g = h
    BY <1>2, <1>4, <1>7 DEF Local, OwnEvents
  <2>2. region'[p] = FALSE => \A g \in events'[p] : g.done = TRUE
    BY <1>1, <1>2, <1>4, <1>7 DEF Local, OwnEvents
  <2> QED BY <1>8, <2>1, <2>2 DEF OwnEvents
<1>10. status[p] # "down" /\ status[p] # "init"
  BY <1>1, <1>2 DEF Local, Phase, Down, Initialising, Running, Exiting
<1>11. Phase(p)'
  <2>1. UpTodo(p)' = UpTodo(p)
    BY <1>6 DEF UpTodo, NewRow
  <2>2. Connected(p) => Connected(p)'
    BY <1>1 DEF Connected
  <2>3. CASE Running(p)
    BY <1>1, <2>1, <2>2, <2>3 DEF Phase, Running
  <2>4. CASE Exiting(p)
    BY <1>1, <1>6, <2>2, <2>4 DEF Phase, Exiting, history
  <2> QED BY <1>2, <1>10, <2>3, <2>4 DEF Local, Phase, Down, Initialising
<1>12. Local(p)'
  BY <1>1, <1>2, <1>9, <1>11 DEF Local
<1>13. Measures(p)
  <2>1. e.out = FALSE
    BY <1>1, <1>2 DEF HasEvent
  <2> QED BY <1>1, <1>4, <1>5, <1>10, <2>1 DEF Measures, history, f
<1>14. run_id'[p] = NoRun \/ run_id'[p] \in DOMAIN Rows("Runs")'
  BY <1>1, <1>5 DEF PInv, File_, FileGrows
<1> QED BY <1>1, <1>4, <1>5, <1>12, <1>13, <1>14 DEF IsStep, InOrder, Kinds, PInv, History, history

\* Every step is of one of the kinds.
LEMMA NextIsStep ==
  ASSUME PInv, ProfilingAssumption, PNext
  PROVE  \E p \in Process : IsStep(p)
<1>1. PICK p \in Process :
        Start(p) \/ Dies(p) \/ KernelEnds(p) \/ Steps(p) \/ Calls_(p)
  BY DEF PNext
<1>2. CASE Start(p)
  BY <1>2, StartStep
<1>3. CASE Dies(p)
  BY <1>3, DiesStep
<1>4. CASE KernelEnds(p)
  BY <1>4, MeasureStep
<1>5. CASE Steps(p)
  BY <1>5, OpenStep, NeedStep, CreateStep, InsertStep, FlagStep, NewRunStep, StoreStep,
     ClearStep, CloseStep, ReturnStep DEF Steps
<1>6. CASE Calls_(p)
  BY <1>6, CallsStep, RegisterStep, RegionStep, ExitStep DEF Calls_
<1> QED BY <1>1, <1>2, <1>3, <1>4, <1>5, <1>6

------------------------------------------------------------------------------
\* The file.

\* What is stored stays right, whatever the process does next.
LEMMA RecordedStays ==
  ASSUME PInv, ProfilingAssumption, NEW p \in Process, IsStep(p), NEW r, Recorded(r)
  PROVE  Recorded(r)'
<1>q. PICK q \in Process :
        \E k \in 1 .. session[q], n \in 1 .. MaxEvents[q] :
          /\ r.id = [by |-> <<q, k>>, n |-> n]
          /\ k = session[q] /\ status[q] # "down" =>
               n <= made[q] /\ \A e \in events[q] : e.id = r.id => e.out = TRUE
          /\ r.measured = TRUE \/ <<q, k>> \in failed
  BY DEF Recorded
<1>1. PICK k \in 1 .. session[q], n \in 1 .. MaxEvents[q] :
        /\ r.id = [by |-> <<q, k>>, n |-> n]
        /\ k = session[q] /\ status[q] # "down" =>
             n <= made[q] /\ \A e \in events[q] : e.id = r.id => e.out = TRUE
        /\ r.measured = TRUE \/ <<q, k>> \in failed
  BY <1>q
<1>2. r.measured = TRUE \/ <<q, k>> \in failed'
  BY <1>1 DEF IsStep, InOrder
<1>3. CASE q # p
  <2>1. Same(q)
    BY <1>3 DEF IsStep, InOrder
  <2> QED BY <1>1, <1>2, <2>1 DEF Recorded, Same
<1>4. CASE q = p
  <2>1. Local(p) /\ session[p] \in Nat /\ made[p] \in Nat /\ k \in Nat /\ n \in Nat
    BY <1>1, <1>4 DEF PInv, Local, ProfilingAssumption
  <2>2. /\ k \in 1 .. session'[p]
        /\ k = session'[p] /\ status'[p] # "down" =>
             n <= made'[p] /\ \A e \in events'[p] : e.id = r.id => e.out = TRUE
    <3>1. CASE Works(p)
      BY <1>1, <1>4, <3>1 DEF Works
    <3>2. CASE Begins(p)
      <4>1. k <= session[p] /\ session'[p] = session[p] + 1
        BY <1>1, <1>4, <2>1, <3>2 DEF Begins
      <4> QED BY <1>1, <1>4, <2>1, <4>1
    <3>3. CASE IsGone(p)
      BY <1>1, <1>4, <3>3 DEF IsGone
    <3>4. CASE Registers(p)
      <4>1. PICK e : /\ e.id = [by |-> Self(p), n |-> made[p] + 1]
                     /\ events'[p] = events[p] \cup {e}
        BY <3>4 DEF Registers
      <4>2. e.id = r.id => n = made[p] + 1
        BY <1>1, <4>1
      <4>3. made'[p] = made[p] + 1 /\ status'[p] = status[p] /\ session'[p] = session[p]
        BY <3>4 DEF Registers
      <4>4. CASE k = session'[p] /\ status'[p] # "down"
        <5>1. n <= made[p] /\ \A g \in events[p] : g.id = r.id => g.out = TRUE
          BY <1>1, <1>4, <4>3, <4>4
        <5>2. n <= made'[p] /\ e.id # r.id
          BY <2>1, <4>2, <4>3, <5>1
        <5> QED BY <1>1, <1>4, <4>1, <4>3, <5>1, <5>2
      <4> QED BY <1>1, <1>4, <4>3, <4>4
    <3>5. CASE Stores(p)
      <4>1. PICK e \in events[p] :
              events'[p] = (events[p] \ {e}) \cup {[e EXCEPT !.out = TRUE]}
        BY <3>5 DEF Stores
      <4>2. [e EXCEPT !.out = TRUE].out = TRUE
        <5>1. HasEvent(p, e)
          BY <2>1 DEF Local, OwnEvents
        <5> QED BY <5>1, EventChanges DEF HasEvent
      <4> QED BY <1>1, <1>4, <3>5, <4>1, <4>2 DEF Stores
    <3>6. CASE Clears(p)
      BY <1>1, <1>4, <3>6 DEF Clears
    <3>7. CASE Measures(p)
      <4>1. PICK e \in events[p] :
              e.out = FALSE /\ events'[p] = (events[p] \ {e}) \cup {[e EXCEPT !.done = TRUE]}
        BY <3>7 DEF Measures
      <4>2. [e EXCEPT !.done = TRUE].id = e.id
        <5>1. HasEvent(p, e)
          BY <2>1 DEF Local, OwnEvents
        <5> QED BY <5>1, EventChanges DEF HasEvent
      <4> QED BY <1>1, <1>4, <3>7, <4>1, <4>2 DEF Measures
    <3> QED BY <3>1, <3>2, <3>3, <3>4, <3>5, <3>6, <3>7 DEF IsStep, Kinds
  <2> QED BY <1>1, <1>2, <1>4, <2>2 DEF Recorded
<1> QED BY <1>3, <1>4

\* The row that is added is that of an event of the session.
LEMMA NewRowRecorded ==
  ASSUME PInv, ProfilingAssumption, NEW p \in Process, IsStep(p), NEW e \in events[p],
         status[p] # "down", status'[p] = status[p], session'[p] = session[p], made'[p] = made[p],
         e.done = TRUE \/ Self(p) \in failed,
         events'[p] = (events[p] \ {e}) \cup {[e EXCEPT !.out = TRUE]}
  PROVE  Recorded(EventRow(e))'
<1> DEFINE r == EventRow(e)
           f == [e EXCEPT !.out = TRUE]
<1>1. Local(p) /\ HasEvent(p, e)
  BY DEF PInv, Local, OwnEvents
<1>2. e.id \in [by : {Self(p)}, n : 1 .. made[p]]
  BY <1>1 DEF HasEvent
<1>3. PICK n \in 1 .. made[p] : e.id = [by |-> Self(p), n |-> n]
  BY <1>2
<1>4. made[p] \in 0 .. MaxEvents[p] /\ MaxEvents[p] \in Nat /\ session[p] \in Nat /\ session[p] >= 1
  BY <1>1 DEF Local, ProfilingAssumption
<1>5. n \in 1 .. MaxEvents[p] /\ n <= made'[p] /\ session[p] \in 1 .. session'[p]
  BY <1>3, <1>4
<1>6. r.id = e.id /\ r.measured = e.done
  BY DEF EventRow
<1>7. f.out = TRUE
  BY <1>1, EventChanges DEF HasEvent
<1> HIDE DEF f, r
<1>8. \A g \in events'[p] : g.id = r.id => g.out = TRUE
  BY <1>1, <1>6, <1>7 DEF Local, OwnEvents, f
<1>9. r.id = [by |-> <<p, session[p]>>, n |-> n]
  BY <1>3, <1>6 DEF Self
<1>10. r.measured = TRUE \/ <<p, session[p]>> \in failed'
  BY <1>6 DEF Self, IsStep, InOrder
<1>11. \E k \in 1 .. session'[p], m \in 1 .. MaxEvents[p] :
         /\ r.id = [by |-> <<p, k>>, n |-> m]
         /\ k = session'[p] /\ status'[p] # "down" =>
              m <= made'[p] /\ \A g \in events'[p] : g.id = r.id => g.out = TRUE
         /\ r.measured = TRUE \/ <<p, k>> \in failed'
  BY <1>5, <1>8, <1>9, <1>10
<1>12. EventRow(e)' = r
  BY DEF r, EventRow
<1> QED BY <1>11, <1>12 DEF Recorded

LEMMA OverStays ==
  ASSUME PInv, NEW p \in Process, IsStep(p), NEW s, IsOver(s)
  PROVE  IsOver(s)'
<1>1. PICK q \in Process : \E k \in 1 .. session[q] :
        s = <<q, k>> /\ (k = session[q] => status[q] = "down")
  BY DEF IsOver
<1>2. PICK k \in 1 .. session[q] : s = <<q, k>> /\ (k = session[q] => status[q] = "down")
  BY <1>1
<1>3. k \in 1 .. session'[q] /\ (k = session'[q] => status'[q] = "down")
  <2>1. CASE q # p
    BY <1>2, <2>1 DEF IsStep, InOrder, Same
  <2>2. CASE q = p /\ Begins(p)
    <3>1. session[p] \in Nat /\ k \in Nat /\ k <= session[p]
      BY <1>2, <2>2 DEF PInv, Local
    <3>2. session'[p] = session[p] + 1
      BY <2>2 DEF Begins
    <3> QED BY <1>2, <2>2, <3>1, <3>2
  <2>3. CASE q = p /\ ~Begins(p)
    BY <1>2, <2>3 DEF IsStep, Kinds, Works, IsGone, Registers, Stores, Clears, Measures
  <2> QED BY <2>1, <2>2, <2>3
<1> QED BY <1>2, <1>3 DEF IsOver

LEMMA StepKeepsInv ==
  ASSUME PInv, ProfilingAssumption, NEW p \in Process, IsStep(p)
  PROVE  PInv'
<1>1. \A q \in Process : Local(q)'
  BY OthersKeep DEF PInv, IsStep, InOrder
<1>2. \A s \in closed' : IsOver(s)'
  <2> SUFFICES ASSUME NEW s \in closed' PROVE IsOver(s)'
    OBVIOUS
  <2>1. CASE s \in closed
    BY <2>1, OverStays DEF PInv, History
  <2>2. CASE s \notin closed
    <3>1. IsGone(p) /\ s = Self(p)
      BY <2>2 DEF IsStep, Kinds, Works, Begins, IsGone, Registers, Stores, Clears, Measures
    <3>2. session[p] >= 1 /\ session[p] \in Nat /\ session'[p] = session[p] /\ status'[p] = "down"
      BY <3>1 DEF PInv, Local, IsGone
    <3>3. session[p] \in 1 .. session'[p]
      BY <3>2
    <3> QED BY <3>1, <3>2, <3>3 DEF IsOver, Self
  <2> QED BY <2>1, <2>2
<1>3. IsSeq(Stored)' /\ \A i \in DOMAIN Stored' : Recorded(Stored[i])'
  <2>1. \A i \in DOMAIN Stored : Recorded(Stored[i])
    BY DEF PInv, History
  <2>2. CASE ~Stores(p)
    <3>1. Stored' = Stored
      BY <2>2 DEF IsStep, Kinds, Works, Begins, IsGone, Registers, Clears, Measures
    <3>2. ASSUME NEW i \in DOMAIN Stored' PROVE Recorded(Stored[i])'
      <4>1. PICK r : r = Stored[i]
        OBVIOUS
      <4>2. Recorded(r)'
        BY <2>1, <3>1, <3>2, <4>1, RecordedStays
      <4>3. r = Stored'[i]
        BY <3>1, <4>1
      <4> QED BY <4>2, <4>3 DEF Recorded
    <3>3. IsSeq(Stored)'
      BY <3>1 DEF PInv, File_, IsSeq
    <3> QED BY <3>2, <3>3
  <2>3. CASE Stores(p)
    <3>1. PICK e \in events[p] :
            /\ e.done = TRUE \/ Self(p) \in failed
            /\ events'[p] = (events[p] \ {e}) \cup {[e EXCEPT !.out = TRUE]}
            /\ Stored' = Append(Stored, EventRow(e))
      BY <2>3 DEF Stores
    <3>2. Recorded(EventRow(e))'
      BY <2>3, <3>1, NewRowRecorded DEF Stores
    <3>3. /\ IsSeq(Append(Stored, EventRow(e)))
          /\ Len(Stored) \in Nat
          /\ DOMAIN Stored = 1 .. Len(Stored)
          /\ DOMAIN Stored' = 1 .. Len(Stored) + 1
          /\ \A i \in DOMAIN Stored : Stored'[i] = Stored[i]
          /\ Stored'[Len(Stored) + 1] = EventRow(e)
      BY <3>1, AppendFacts DEF PInv, File_
    <3>4. ASSUME NEW i \in DOMAIN Stored' PROVE Recorded(Stored[i])'
      <4>1. PICK r : r = Stored'[i]
        OBVIOUS
      <4>2. CASE i \in DOMAIN Stored
        <5>1. Recorded(r)'
          BY <2>1, <3>3, <4>1, <4>2, RecordedStays
        <5> QED BY <4>1, <5>1 DEF Recorded
      <4>3. CASE i \notin DOMAIN Stored
        <5>1. i = Len(Stored) + 1
          BY <3>3, <3>4, <4>3
        <5>2. r = EventRow(e)
          BY <3>3, <4>1, <5>1
        <5>3. Recorded(r)'
          BY <3>2, <5>2 DEF Recorded
        <5> QED BY <4>1, <5>3 DEF Recorded
      <4> QED BY <4>2, <4>3
    <3> QED BY <3>1, <3>3, <3>4 DEF IsSeq
  <2> QED BY <2>2, <2>3
<1>4. File_'
  <2>1. \A q \in Process : run_id'[q] = NoRun \/ run_id'[q] \in DOMAIN Rows("Runs")'
    BY DEF PInv, File_, IsStep, InOrder, Same, FileGrows
  <2> QED BY <1>3, <2>1 DEF File_, IsStep, InOrder, FileGrows
<1>5. History'
  BY <1>2, <1>3 DEF History, IsStep, InOrder
<1> QED BY <1>1, <1>4, <1>5 DEF PInv, IsStep, InOrder
LEMMA StutterKeepsInv ==
  ASSUME PInv, UNCHANGED pvars
  PROVE  PInv'
<1>1. /\ UNCHANGED <<disk, conns, status, session, run_id, events, made, region, todo>>
      /\ UNCHANGED <<closed, failed>>
  BY DEF pvars, own, history
<1>2. Stored' = Stored /\ (\A t : Rows(t)' = Rows(t))
  BY <1>1, FileSame
<1>3. Functions_'
  BY <1>1 DEF PInv, Functions_
<1>4. File_'
  BY <1>1, <1>2 DEF PInv, File_, IsSeq
<1>5. FileGrows /\ \A q \in Process : Same(q)
  BY <1>1, FileSame DEF Same
<1>6. \A q \in Process : Local(q)'
  BY <1>1, <1>5, OthersKeep DEF PInv
<1>7. History'
  <2>1. \A s \in closed' : IsOver(s)'
    BY <1>1 DEF PInv, History, IsOver
  <2>2. \A r : Recorded(r)' <=> Recorded(r)
    BY <1>1 DEF Recorded
  <2>3. ASSUME NEW i \in DOMAIN Stored' PROVE Recorded(Stored[i])'
    <3>1. Recorded(Stored[i])
      BY <1>2, <2>3 DEF PInv, History
    <3> QED BY <1>1, <1>2, <2>2, <3>1 DEF Recorded
  <2> QED BY <1>1, <2>1, <2>3 DEF PInv, History
<1> QED BY <1>3, <1>4, <1>6, <1>7 DEF PInv

LEMMA InitInv ==
  ASSUME PInit, ProfilingAssumption
  PROVE  PInv
<1>1. Functions_
  BY DEF PInit, Functions_, NoConns
<1>2. \A t : Rows(t) = <<>>
  <2>1. Content(Profile) = <<>>
    BY DEF PInit, Content, NoTables
  <2> QED BY <2>1 DEF Rows, RowsOf
<1>3. Stored = <<>>
  BY <1>2, StoredIsRows
<1>4. File_
  BY <1>2, <1>3, EmptyIsSeq DEF PInit, File_
<1>5. ASSUME NEW p \in Process PROVE Local(p)
  <2>1. MaxSessions \in Nat /\ MaxEvents[p] \in Nat
    BY DEF ProfilingAssumption
  <2>2. Down(p) /\ session[p] = 0 /\ made[p] = 0
    BY DEF PInit, Down
  <2>3. OwnEvents(p)
    BY <2>2 DEF Down, OwnEvents
  <2>4. status[p] = "down" /\ region[p] = FALSE /\ Phase(p)
    BY <2>2 DEF Phase, Down
  <2>5. 0 \in 0 .. MaxSessions /\ 0 \in 0 .. MaxEvents[p]
    BY <2>1
  <2> QED BY <2>2, <2>3, <2>4, <2>5 DEF Local
<1>6. History
  BY <1>3, EmptyIsSeq DEF PInit, History
<1> QED BY <1>1, <1>4, <1>5, <1>6 DEF PInv

\* Where each process is in its calls and what is then in the file.
THEOREM InvHolds == PSpec => []PInv
<1>1. PInit => PInv
  BY ProfilingAssumption, InitInv
<1>2. PInv /\ [PNext]_pvars => PInv'
  BY ProfilingAssumption, NextIsStep, StepKeepsInv, StutterKeepsInv
<1> QED BY <1>1, <1>2, PTL DEF PSpec

LEMMA InvTypes ==
  ASSUME PInv, ProfilingAssumption
  PROVE  PTypeOK
<1>1. ASSUME NEW p \in Process
      PROVE  /\ status[p] \in {"down", "init", "up", "exit"}
             /\ session[p] \in 0 .. MaxSessions
             /\ made[p] \in 0 .. MaxEvents[p]
             /\ \A e \in events[p] : e.id \in Event
  <2>1. Local(p)
    BY DEF PInv
  <2>2. status[p] \in {"down", "init", "up", "exit"}
    BY <2>1 DEF Local, Phase, Down, Initialising, Running, Exiting
  <2>3. ASSUME NEW e \in events[p] PROVE e.id \in Event
    <3>1. status[p] # "down"
      BY <2>1 DEF Local, Phase, Down, Initialising, Running, Exiting
    <3>2. Self(p) \in Session
      BY <2>1, <3>1 DEF Local, Self, Session, ProfilingAssumption
    <3>3. Self(p)[1] = p
      BY DEF Self
    <3>4. e.id \in [by : {Self(p)}, n : 1 .. made[p]]
      BY <2>1 DEF Local, OwnEvents, HasEvent
    <3>5. made[p] \in 0 .. MaxEvents[p] /\ MaxEvents[p] \in Nat
      BY <2>1 DEF Local, ProfilingAssumption
    <3>6. e.id \in [by : {Self(p)}, n : 1 .. MaxEvents[Self(p)[1]]]
      BY <3>3, <3>4, <3>5
    <3> QED BY <3>2, <3>6 DEF Event
  <2> QED BY <2>1, <2>2, <2>3 DEF Local
<1>2. status \in [Process -> {"down", "init", "up", "exit"}]
  BY <1>1 DEF PInv, Functions_
<1>3. session \in [Process -> 0 .. MaxSessions]
  BY <1>1 DEF PInv, Functions_
<1>4. closed \subseteq Session
  <2> SUFFICES ASSUME NEW s \in closed PROVE s \in Session
    OBVIOUS
  <2>1. PICK q \in Process : \E k \in 1 .. session[q] : s = <<q, k>>
    BY DEF PInv, History, IsOver
  <2>2. session[q] \in 0 .. MaxSessions /\ MaxSessions \in Nat
    BY <1>1 DEF ProfilingAssumption
  <2> QED BY <2>1, <2>2 DEF Session
<1>5. DOMAIN disk \subseteq File /\ failed \subseteq Session
  BY DEF PInv, File_, History
<1>6. \A p \in Process :
        run_id[p] = NoRun \/ run_id[p] \in DOMAIN RowsOf(Content(Profile), "Runs")
  BY DEF PInv, File_, Rows
<1> QED BY <1>1, <1>2, <1>3, <1>4, <1>5, <1>6 DEF PTypeOK

\* The profiler's state is well formed, and the run a process has begun stays in
\* the file, wherever processes are interrupted.
THEOREM ProfilingTypeCorrect == PSpec => []PTypeOK
<1>1. PInv => PTypeOK
  BY ProfilingAssumption, InvTypes
<1> QED BY <1>1, InvHolds, PTL

\* An event in the file has its times, unless its session called exit inside a
\* region: releases happen outside of regions, after the kernels have ended.
THEOREM UnmeasuredFailed == PSpec => []MeasuredUnlessFailed
<1>1. PInv => MeasuredUnlessFailed
  <2> SUFFICES ASSUME PInv, NEW i \in DOMAIN Stored
               PROVE  Stored[i].measured \/ Stored[i].id.by \in failed
    BY DEF MeasuredUnlessFailed
  <2>1. PICK q \in Process : \E k \in 1 .. session[q], n \in 1 .. MaxEvents[q] :
          /\ Stored[i].id = [by |-> <<q, k>>, n |-> n]
          /\ Stored[i].measured = TRUE \/ <<q, k>> \in failed
    BY DEF PInv, History, Recorded
  <2> QED BY <2>1
<1> QED BY <1>1, InvHolds, PTL
------------------------------------------------------------------------------
\* Every step is one of the event log, or none.

Ids(p) == {e.id : e \in {x \in events[p] : ~x.out}}
OtherIds(p) == UNION {Ids(q) : q \in Process \ {p}}
Pending == UNION {Ids(p) : p \in Process}
Logged == [i \in DOMAIN Stored |-> Stored[i].id]

LEMMA IdsAreOwn ==
  ASSUME PInv, NEW p \in Process, NEW x \in Ids(p)
  PROVE  x \in [by : {Self(p)}, n : 1 .. made[p]] /\ status[p] # "down"
<1>1. PICK e \in events[p] : x = e.id
  BY DEF Ids
<1>2. Local(p)
  BY DEF PInv
<1>3. HasEvent(p, e)
  BY <1>1, <1>2 DEF Local, OwnEvents
<1>4. status[p] # "down"
  BY <1>1, <1>2 DEF Local, Phase, Down, Initialising, Running, Exiting
<1> QED BY <1>1, <1>3, <1>4 DEF HasEvent

LEMMA PendingParts ==
  ASSUME PInv, NEW p \in Process
  PROVE  /\ Pending = Ids(p) \cup OtherIds(p)
         /\ \A x \in OtherIds(p) : x.by # Self(p)
         /\ \A x \in Ids(p) : x.by = Self(p)
<1>1. Pending = Ids(p) \cup OtherIds(p)
  BY DEF Pending, OtherIds
<1>2. ASSUME NEW x \in OtherIds(p) PROVE x.by # Self(p)
  <2>1. PICK q \in Process \ {p} : x \in Ids(q)
    BY DEF OtherIds
  <2>2. x.by = Self(q)
    BY <2>1, IdsAreOwn
  <2> QED BY <2>1, <2>2 DEF Self
<1>3. \A x \in Ids(p) : x.by = Self(p)
  BY IdsAreOwn
<1> QED BY <1>1, <1>2, <1>3

\* What a step does to the events of its process it does to those pending.
LEMMA PendingAfter ==
  ASSUME PInv, NEW p \in Process, InOrder(p)
  PROVE  Pending' = Ids(p)' \cup OtherIds(p)
<1>1. \A q \in Process \ {p} : Ids(q)' = Ids(q)
  BY DEF InOrder, Same, Ids
<1> QED BY <1>1 DEF Pending, OtherIds

LEMMA LoggedSame ==
  ASSUME Stored' = Stored
  PROVE  Logged' = Logged
BY DEF Logged

\* Steps the event log does not see.
LEMMA QuietStep ==
  ASSUME PInv, NEW p \in Process, InOrder(p),
         Works(p) \/ Begins(p) \/ Clears(p) \/ Measures(p)
  PROVE  Pending' = Pending /\ Logged' = Logged /\ closed' = closed
<1>1. Logged' = Logged /\ closed' = closed
  BY LoggedSame DEF Works, Begins, Clears, Measures
<1>2. Ids(p)' = Ids(p)
  <2>1. CASE Works(p) \/ Begins(p)
    BY <2>1 DEF Works, Begins, Ids
  <2>2. CASE Clears(p)
    <3>1. Ids(p) = {} /\ Ids(p)' = {}
      BY <2>2 DEF Clears, Ids
    <3> QED BY <3>1
  <2>3. CASE Measures(p)
    <3>1. PICK e \in events[p] :
            /\ e.out = FALSE
            /\ events'[p] = (events[p] \ {e}) \cup {[e EXCEPT !.done = TRUE]}
      BY <2>3 DEF Measures
    <3>2. HasEvent(p, e)
      BY DEF PInv, Local, OwnEvents
    <3>3. [e EXCEPT !.done = TRUE].id = e.id /\ [e EXCEPT !.done = TRUE].out = FALSE
      BY <3>1, <3>2, EventChanges DEF HasEvent
    <3> QED BY <3>1, <3>3 DEF Ids
  <2> QED BY <2>1, <2>2, <2>3
<1> QED BY <1>1, <1>2, PendingAfter, PendingParts

LEMMA GoneIsLost ==
  ASSUME PInv, ProfilingAssumption, NEW p \in Process, InOrder(p), IsGone(p)
  PROVE  /\ Self(p) \in Session
         /\ Logged' = Logged
         /\ Pending' = Pending \ {x \in Pending : x.by = Self(p)}
         /\ \/ closed' = closed
            \/ /\ closed' = closed \cup {Self(p)}
               /\ {x \in Pending : x.by = Self(p)} = {}
               /\ Pending' = Pending
<1>1. Self(p) \in Session
  BY SelfIsSession DEF IsGone, PInv
<1>2. Ids(p)' = {}
  BY DEF IsGone, Ids
<1>3. Pending' = Pending \ {x \in Pending : x.by = Self(p)}
  BY <1>2, PendingAfter, PendingParts
<1>4. events[p] = {} => {x \in Pending : x.by = Self(p)} = {}
  <2>1. events[p] = {} => Ids(p) = {}
    BY DEF Ids
  <2> QED BY <2>1, PendingParts
<1> QED BY <1>1, <1>3, <1>4, LoggedSame DEF IsGone

LEMMA RegisterIsNew ==
  ASSUME PInv, ProfilingAssumption, NEW p \in Process, InOrder(p), Registers(p)
  PROVE  \E x \in Event :
           /\ x \notin Pending /\ x \notin {Logged[i] : i \in DOMAIN Logged}
           /\ x.by \notin closed
           /\ Pending' = Pending \cup {x} /\ Logged' = Logged /\ closed' = closed
<1>1. PICK e : /\ e.id = [by |-> Self(p), n |-> made[p] + 1] /\ e.out = FALSE
               /\ events'[p] = events[p] \cup {e}
  BY DEF Registers
<1>2. Local(p) /\ status[p] # "down" /\ made[p] \in Nat
  BY DEF PInv, Local, Registers
<1>3. e.id \in Event
  <2>1. Self(p) \in Session /\ Self(p)[1] = p
    BY <1>2, SelfIsSession DEF Self, PInv
  <2>2. made[p] + 1 \in 1 .. MaxEvents[p]
    BY <1>2 DEF InOrder, Local, Registers, ProfilingAssumption
  <2>3. e.id \in [by : {Self(p)}, n : 1 .. MaxEvents[Self(p)[1]]]
    BY <1>1, <2>1, <2>2
  <2> QED BY <2>1, <2>3 DEF Event
<1>4. e.id.by = Self(p) /\ e.id.n = made[p] + 1
  BY <1>1
<1>5. e.id \notin Pending
  <2>1. \A x \in Ids(p) : x.n \in 1 .. made[p]
    BY IdsAreOwn
  <2>2. e.id \notin Ids(p)
    BY <1>2, <1>4, <2>1
  <2> QED BY <1>4, <2>2, PendingParts
<1>6. ASSUME NEW i \in DOMAIN Stored PROVE Stored[i].id # e.id
  <2>1. PICK q \in Process : \E k \in 1 .. session[q], n \in 1 .. MaxEvents[q] :
          /\ Stored[i].id = [by |-> <<q, k>>, n |-> n]
          /\ k = session[q] /\ status[q] # "down" => n <= made[q]
    <3>1. Recorded(Stored[i])
      BY <1>6 DEF PInv, History
    <3> QED BY <3>1 DEF Recorded
  <2>2. PICK k \in 1 .. session[q], n \in 1 .. MaxEvents[q] :
          /\ Stored[i].id = [by |-> <<q, k>>, n |-> n]
          /\ k = session[q] /\ status[q] # "down" => n <= made[q]
    BY <2>1
  <2>3. Stored[i].id.by = <<q, k>> /\ Stored[i].id.n = n
    BY <2>2
  <2>4. SUFFICES ASSUME Stored[i].id = e.id PROVE FALSE
    OBVIOUS
  <2>5. q = p /\ k = session[p] /\ n = made[p] + 1
    BY <1>4, <2>3, <2>4 DEF Self
  <2> QED BY <1>2, <2>2, <2>5
<1>7. e.id \notin {Logged[i] : i \in DOMAIN Logged}
  BY <1>6 DEF Logged
<1>8. e.id.by \notin closed
  <2> SUFFICES ASSUME Self(p) \in closed PROVE FALSE
    BY <1>4
  <2>1. PICK q \in Process : \E k \in 1 .. session[q] :
          Self(p) = <<q, k>> /\ (k = session[q] => status[q] = "down")
    BY DEF PInv, History, IsOver
  <2> QED BY <1>2, <2>1 DEF Self
<1>9. Ids(p)' = Ids(p) \cup {e.id}
  BY <1>1 DEF Ids
<1>10. Pending' = Pending \cup {e.id}
  BY <1>9, PendingAfter, PendingParts
<1> QED BY <1>3, <1>5, <1>7, <1>8, <1>10, LoggedSame DEF Registers

LEMMA StoreIsLogged ==
  ASSUME PInv, NEW p \in Process, InOrder(p), Stores(p)
  PROVE  \E x \in Pending :
           Pending' = Pending \ {x} /\ Logged' = Append(Logged, x) /\ closed' = closed
<1>1. PICK e \in events[p] :
        /\ e.out = FALSE
        /\ events'[p] = (events[p] \ {e}) \cup {[e EXCEPT !.out = TRUE]}
        /\ Stored' = Append(Stored, EventRow(e))
  BY DEF Stores
<1>2. HasEvent(p, e) /\ \A f \in events[p] : f.id = e.id => f = e
  BY DEF PInv, Local, OwnEvents
<1>3. [e EXCEPT !.out = TRUE].out = TRUE
  BY <1>2, EventChanges DEF HasEvent
<1>4. Ids(p)' = Ids(p) \ {e.id} /\ e.id \in Ids(p)
  BY <1>1, <1>2, <1>3 DEF Ids
<1>5. e.id \notin OtherIds(p)
  BY <1>4, PendingParts
<1>6. e.id \in Pending /\ Pending' = Pending \ {e.id}
  BY <1>4, <1>5, PendingAfter, PendingParts
<1>7. Logged' = Append(Logged, e.id)
  <2>1. /\ Len(Stored) \in Nat
        /\ DOMAIN Stored = 1 .. Len(Stored)
        /\ DOMAIN Stored' = 1 .. Len(Stored) + 1
        /\ \A i \in DOMAIN Stored : Stored'[i] = Stored[i]
        /\ Stored'[Len(Stored) + 1] = EventRow(e)
    BY <1>1, AppendFacts DEF PInv, File_
  <2>2. EventRow(e).id = e.id
    BY DEF EventRow
  <2> DEFINE T == {Stored[i].id : i \in DOMAIN Stored}
  <2>3. Logged \in Seq(T) /\ Len(Logged) = Len(Stored)
    BY <2>1 DEF Logged
  <2>4. IsSeq(Logged)
    BY <2>3, SeqOfOwn
  <2>5. /\ DOMAIN Append(Logged, e.id) = 1 .. Len(Stored) + 1
        /\ \A i \in 1 .. Len(Stored) : Append(Logged, e.id)[i] = Stored[i].id
        /\ Append(Logged, e.id)[Len(Stored) + 1] = e.id
    BY <2>1, <2>3, <2>4, AppendFacts DEF Logged
  <2>6. Append(Logged, e.id) = [i \in 1 .. Len(Stored) + 1 |-> Append(Logged, e.id)[i]]
    BY <2>3, <2>5
  <2>7. Logged' = [i \in 1 .. Len(Stored) + 1 |-> Stored'[i].id]
    BY <2>1 DEF Logged
  <2>8. \A i \in 1 .. Len(Stored) + 1 : Append(Logged, e.id)[i] = Stored'[i].id
    BY <2>1, <2>2, <2>5
  <2> QED BY <2>6, <2>7, <2>8
<1> QED BY <1>6, <1>7 DEF Stores

LEMMA EventIsPending ==
  ASSUME PInv, ProfilingAssumption, NEW x \in Pending
  PROVE  x \in Event
<1>1. PICK p \in Process : x \in Ids(p)
  BY DEF Pending
<1>2. PTypeOK
  BY InvTypes
<1> QED BY <1>1, <1>2 DEF PTypeOK, Ids

LEMMA StepIsLogged ==
  ASSUME PInv, ProfilingAssumption, NEW p \in Process, IsStep(p)
  PROVE  Log!ENext \/ UNCHANGED Log!evars
<1>1. InOrder(p)
  BY DEF IsStep
<1>2. CASE Works(p) \/ Begins(p) \/ Clears(p) \/ Measures(p)
  BY <1>1, <1>2, QuietStep DEF Pending, Logged, Ids, Log!evars
<1>3. CASE IsGone(p)
  <2>1. PICK s \in Session : s = Self(p)
    BY <1>1, <1>3, GoneIsLost
  <2>2. Log!Lose(s) \/ Log!Close(s)
    BY <1>1, <1>3, <2>1, GoneIsLost DEF Pending, Logged, Ids, Log!Lose, Log!Close, Log!Of
  <2> QED BY <2>2 DEF Log!ENext
<1>4. CASE Registers(p)
  <2>1. PICK x \in Event :
          /\ x \notin Pending /\ x \notin {Logged[i] : i \in DOMAIN Logged}
          /\ x.by \notin closed
          /\ Pending' = Pending \cup {x} /\ Logged' = Logged /\ closed' = closed
    BY <1>1, <1>4, RegisterIsNew
  <2>2. Log!Register(x)
    BY <2>1 DEF Pending, Logged, Ids, Log!Register, Log!ToSet
  <2> QED BY <2>2 DEF Log!ENext
<1>5. CASE Stores(p)
  <2>1. PICK x \in Pending :
          Pending' = Pending \ {x} /\ Logged' = Append(Logged, x) /\ closed' = closed
    BY <1>1, <1>5, StoreIsLogged
  <2>2. Log!Store(x)
    BY <2>1 DEF Pending, Logged, Ids, Log!Store
  <2>3. x \in Event
    BY EventIsPending
  <2> QED BY <2>2, <2>3 DEF Log!ENext
<1> QED BY <1>2, <1>3, <1>4, <1>5 DEF IsStep, Kinds

LEMMA LogInit ==
  ASSUME PInit
  PROVE  Log!EInit
<1>1. Pending = {}
  BY DEF PInit, Pending, Ids
<1>2. Stored = <<>>
  BY DEF PInit, Stored, RowsOf, Content, NoTables
<1>3. Logged = <<>>
  BY <1>2 DEF Logged
<1> QED BY <1>1, <1>3 DEF PInit, Pending, Logged, Ids, Log!EInit

\* Each event is stored once at most, by the session that made it and before that
\* ends; a session that comes to the end of acc_exit has stored all of them.
THEOREM EventsLogged == PSpec => ImplementsEventLog
<1>1. PInit => Log!EInit
  BY LogInit
<1>2. PInv /\ [PNext]_pvars => [Log!ENext]_Log!evars
  <2> SUFFICES ASSUME PInv, [PNext]_pvars
               PROVE  Log!ENext \/ UNCHANGED Log!evars
    OBVIOUS
  <2>1. CASE PNext
    BY <2>1, ProfilingAssumption, NextIsStep, StepIsLogged
  <2>2. CASE UNCHANGED pvars
    <3>1. events' = events /\ closed' = closed /\ Stored' = Stored
      BY <2>2, FileSame DEF pvars, own, history
    <3> QED BY <3>1 DEF Log!evars
  <2> QED BY <2>1, <2>2
<1> QED BY <1>1, <1>2, InvHolds, PTL DEF PSpec, ImplementsEventLog, Log!ESpec

------------------------------------------------------------------------------
\* Sequences put one behind the other; c counts the elements of the first ones.
Flattened(f, n, ss) ==
  f = [i \in 1 .. n |-> IF i = 1 THEN ss[i] ELSE f[i - 1] \o ss[i]]

Lengths(c, n, ss) ==
  /\ c \in [0 .. n -> Nat] /\ c[0] = 0
  /\ \A i \in 1 .. n : c[i] = c[i - 1] + Len(ss[i])

LEMMA LengthsExist ==
  ASSUME NEW S, NEW n \in Nat, NEW ss \in [1 .. n -> Seq(S)]
  PROVE  \E c : Lengths(c, n, ss)
<1> PICK step : step = [pair \in (1 .. n) \X Nat |-> pair[2] + Len(ss[pair[1]])]
  BY Zenon
<1>1. /\ step \in [(1 .. n) \X Nat -> Nat] /\ 0 \in Nat
      /\ \A k \in 1 .. n : \A v \in Nat : step[<<k, v>>] = v + Len(ss[k])
  <2>1. \A k \in 1 .. n : Len(ss[k]) \in Nat
    OBVIOUS
  <2> QED BY <2>1
<1>2. PICK c : IsIterated(c, n, Nat, 0, step)
  BY <1>1, Iterated
<1>3. \A k \in 1 .. n : c[k] = c[k - 1] + Len(ss[k])
  <2>1. \A k \in 1 .. n : k - 1 \in 0 .. n
    OBVIOUS
  <2> QED BY <1>1, <1>2, <2>1 DEF IsIterated
<1> QED BY <1>2, <1>3 DEF IsIterated, Lengths

LEMMA FlattenedExists ==
  ASSUME NEW S, NEW n \in Nat, NEW ss \in [1 .. n -> Seq(S)]
  PROVE  \E f : Flattened(f, n, ss)
<1> PICK V : V = Seq(S)
  BY Zenon
<1> PICK step : step = [pair \in (1 .. n) \X V |-> pair[2] \o ss[pair[1]]]
  BY Zenon
<1>1. /\ step \in [(1 .. n) \X V -> V] /\ <<>> \in V
      /\ \A k \in 1 .. n : \A v \in V : step[<<k, v>>] = v \o ss[k]
  <2>1. \A a, b \in V : a \o b \in V
    OBVIOUS
  <2>2. <<>> \in V /\ \A k \in 1 .. n : ss[k] \in V
    OBVIOUS
  <2> QED BY <2>1, <2>2
<1>2. PICK g : IsIterated(g, n, V, <<>>, step)
  BY <1>1, Iterated
<1>3. g[0] = <<>> /\ \A k \in 1 .. n : g[k] = g[k - 1] \o ss[k]
  <2>1. \A k \in 1 .. n : k - 1 \in 0 .. n
    OBVIOUS
  <2> QED BY <1>1, <1>2, <2>1 DEF IsIterated
<1> PICK f : f = [i \in 1 .. n |-> g[i]]
  BY Zenon
<1>4. ASSUME NEW i \in 1 .. n
      PROVE  f[i] = IF i = 1 THEN ss[i] ELSE f[i - 1] \o ss[i]
  <2>1. CASE i = 1
    <3>1. 1 \in 1 .. n /\ 1 - 1 = 0
      BY <2>1
    <3>2. g[1] = <<>> \o ss[1]
      BY <1>3, <3>1
    <3>3. \A t \in Seq(S) : <<>> \o t = t
      OBVIOUS
    <3>4. ss[1] \in Seq(S)
      BY <3>1
    <3> QED BY <2>1, <3>2, <3>3, <3>4
  <2>2. CASE i # 1
    <3>1. i - 1 \in 1 .. n
      BY <2>2
    <3> QED BY <1>3, <2>2, <3>1
  <2> QED BY <2>1, <2>2
<1>5. f = [i \in 1 .. n |-> IF i = 1 THEN ss[i] ELSE f[i - 1] \o ss[i]]
  BY <1>4
<1>6. Flattened(f, n, ss)
  BY <1>5, Zenon DEF Flattened
<1> QED BY <1>6, Zenon

\* The first i of them.
FlatTo(s, i, c, ss, S) ==
  /\ s \in Seq(S) /\ Len(s) = c[i]
  /\ \A a \in 1 .. i : \A m \in 1 .. Len(ss[a]) : c[a - 1] + m \in 1 .. c[i] /\ s[c[a - 1] + m] = ss[a][m]
  /\ \A k \in 1 .. c[i] : \E a \in 1 .. i : \E m \in 1 .. Len(ss[a]) : k = c[a - 1] + m

LEMMA Beyond ==
  ASSUME NEW b \in Nat, NEW l \in Nat, NEW m \in 1 .. l, NEW k, k = b + m
  PROVE  k \in 1 .. b + l /\ ~(k <= b) /\ k - b = m
OBVIOUS

LEMMA Behind ==
  ASSUME NEW b \in Nat, NEW l \in Nat, NEW k \in 1 .. b + l, k > b
  PROVE  k - b \in 1 .. l /\ k = b + (k - b)
OBVIOUS

LEMMA FlatGrows ==
  ASSUME NEW S, NEW n \in Nat, NEW ss \in [1 .. n -> Seq(S)], NEW c, Lengths(c, n, ss),
         NEW i \in 0 .. n - 1, NEW s, FlatTo(s, i, c, ss, S)
  PROVE  FlatTo(s \o ss[i + 1], i + 1, c, ss, S)
<1> PICK t : t = ss[i + 1]
  BY Zenon
<1> PICK l, b : l = Len(t) /\ b = c[i]
  BY Zenon
<1>1. /\ i \in Nat /\ i + 1 \in 1 .. n /\ (i + 1) - 1 = i
      /\ t \in Seq(S) /\ l \in Nat /\ b \in Nat
      /\ s \in Seq(S) /\ Len(s) = b
  <2>1. i \in Nat /\ i + 1 \in 1 .. n /\ (i + 1) - 1 = i /\ i \in 0 .. n
    OBVIOUS
  <2>2. t \in Seq(S)
    BY <2>1
  <2>3. l \in Nat
    BY <2>2
  <2>4. b \in Nat
    BY <2>1 DEF Lengths
  <2> QED BY <2>1, <2>2, <2>3, <2>4 DEF FlatTo
<1>2. c[i + 1] = b + l
  BY <1>1 DEF Lengths
<1>b. b \in Nat /\ l \in Nat
  BY <1>1
<1> PICK u : u = s \o t
  BY Zenon
<1>3. u \in Seq(S) /\ Len(u) = b + l
      /\ (\A k \in 1 .. b : u[k] = s[k])
      /\ (\A m \in 1 .. l : u[b + m] = t[m])
  <2>1. /\ u \in Seq(S) /\ Len(u) = b + l
        /\ \A k \in 1 .. b + l : u[k] = IF k <= b THEN s[k] ELSE t[k - b]
    <3>1. /\ s \o t \in Seq(S)
          /\ Len(s \o t) = Len(s) + Len(t)
          /\ \A k \in 1 .. Len(s) + Len(t) : (s \o t)[k] = IF k <= Len(s) THEN s[k] ELSE t[k - Len(s)]
      BY <1>1, ConcatProperties, Zenon
    <3> QED BY <1>1, <3>1, Zenon
  <2>2. ASSUME NEW k \in 1 .. b
        PROVE  u[k] = s[k]
    <3>1. k \in 1 .. b + l /\ k <= b
      BY <1>1
    <3> QED BY <2>1, <3>1
  <2>3. ASSUME NEW m \in 1 .. l
        PROVE  u[b + m] = t[m]
    <3>1. PICK k : k = b + m
      BY Zenon
    <3>2. k \in 1 .. b + l /\ ~(k <= b) /\ k - b = m
      BY <1>b, <3>1, Beyond
    <3>3. u[k] = t[k - b]
      BY <2>1, <3>2
    <3> QED BY <3>1, <3>2, <3>3
  <2> QED BY <2>1, <2>2, <2>3
<1>4. ASSUME NEW a \in 1 .. i + 1, NEW m \in 1 .. Len(ss[a])
      PROVE  c[a - 1] + m \in 1 .. b + l /\ u[c[a - 1] + m] = ss[a][m]
  <2>1. CASE a = i + 1
    <3>1. m \in 1 .. l /\ c[a - 1] = b /\ ss[a] = t
      BY <1>1, <2>1
    <3>2. b + m \in 1 .. b + l
      BY <1>b, <3>1
    <3>3. u[b + m] = t[m]
      BY <1>3, <3>1
    <3> QED BY <3>1, <3>2, <3>3
  <2>2. CASE a # i + 1
    <3>1. a \in 1 .. i
      BY <1>1, <2>2
    <3>2. c[a - 1] + m \in 1 .. b /\ s[c[a - 1] + m] = ss[a][m]
      BY <3>1 DEF FlatTo
    <3>3. \A k \in 1 .. b : k \in 1 .. b + l
      BY <1>1
    <3> QED BY <1>3, <3>2, <3>3
  <2> QED BY <2>1, <2>2
<1>5. ASSUME NEW k \in 1 .. b + l
      PROVE  \E a \in 1 .. i + 1 : \E m \in 1 .. Len(ss[a]) : k = c[a - 1] + m
  <2>1. CASE k <= b
    <3>1. k \in 1 .. b
      BY <1>1, <2>1
    <3>2. PICK a \in 1 .. i : \E m \in 1 .. Len(ss[a]) : k = c[a - 1] + m
      BY <3>1 DEF FlatTo
    <3>3. a \in 1 .. i + 1
      BY <1>1
    <3> QED BY <3>2, <3>3
  <2>2. CASE k > b
    <3>1. k - b \in 1 .. l /\ k = b + (k - b)
      BY <1>b, <2>2, Behind
    <3>2. i + 1 \in 1 .. i + 1 /\ k - b \in 1 .. Len(ss[i + 1]) /\ k = c[(i + 1) - 1] + (k - b)
      BY <1>1, <3>1
    <3> QED BY <3>2
  <2> QED BY <1>1, <2>1, <2>2
<1>6. /\ u \in Seq(S) /\ Len(u) = c[i + 1]
      /\ \A a \in 1 .. i + 1 : \A m \in 1 .. Len(ss[a]) :
           c[a - 1] + m \in 1 .. c[i + 1] /\ u[c[a - 1] + m] = ss[a][m]
      /\ \A k \in 1 .. c[i + 1] : \E a \in 1 .. i + 1 : \E m \in 1 .. Len(ss[a]) : k = c[a - 1] + m
  <2>1. u \in Seq(S) /\ Len(u) = c[i + 1]
    BY <1>2, <1>3, Zenon
  <2>2. \A a \in 1 .. i + 1 : \A m \in 1 .. Len(ss[a]) :
          c[a - 1] + m \in 1 .. c[i + 1] /\ u[c[a - 1] + m] = ss[a][m]
    BY <1>2, <1>4, Zenon
  <2>3. \A k \in 1 .. c[i + 1] : \E a \in 1 .. i + 1 : \E m \in 1 .. Len(ss[a]) : k = c[a - 1] + m
    <3>1. ASSUME NEW k \in 1 .. c[i + 1]
          PROVE  \E a \in 1 .. i + 1 : \E m \in 1 .. Len(ss[a]) : k = c[a - 1] + m
      <4>1. k \in 1 .. b + l
        BY <1>2, Zenon
      <4> QED BY <1>5, <4>1, Zenon
    <3> QED BY <3>1, Zenon
  <2> QED BY <2>1, <2>2, <2>3, Zenon
<1>7. FlatTo(u, i + 1, c, ss, S)
  BY <1>6, Zenon DEF FlatTo
<1> QED BY <1>7, Zenon

LEMMA FlattenFacts ==
  ASSUME NEW S, NEW n \in Nat, NEW ss \in [1 .. n -> Seq(S)], NEW c, Lengths(c, n, ss)
  PROVE  FlatTo(FlattenSeq(ss), n, c, ss, S)
<1>1. Len(ss) = n
  OBVIOUS
<1>2. FlatTo(<<>>, 0, c, ss, S)
  BY DEF FlatTo, Lengths
<1>3. CASE n = 0
  <2>1. ss = <<>>
    BY <1>3
  <2> QED BY <1>1, <1>2, <1>3, <2>1 DEF FlattenSeq
<1>4. CASE n # 0
  <2>1. PICK f : f = CHOOSE x : Flattened(x, n, ss)
    BY Zenon
  <2>2. Flattened(f, n, ss)
    BY <2>1, FlattenedExists
  <2>3. FlattenSeq(ss) = f[n]
    BY <1>1, <1>4, <2>1 DEF FlattenSeq, Flattened
  <2>4. \A i \in 1 .. n : f[i] = IF i = 1 THEN ss[i] ELSE f[i - 1] \o ss[i]
    BY <2>2 DEF Flattened
  <2> DEFINE Good == {i \in 0 .. n : i # 0 => FlatTo(f[i], i, c, ss, S)}
  <2>5. 0 \in Good
    OBVIOUS
  <2>6. ASSUME NEW i \in 0 .. n - 1, i \in Good
        PROVE  i + 1 \in Good
    <3>1. i + 1 \in 1 .. n /\ (i + 1) - 1 = i /\ ss[i + 1] \in Seq(S)
      OBVIOUS
    <3>2. CASE i = 0
      <4>1. <<>> \o ss[i + 1] = ss[i + 1]
        BY <3>1
      <4>2. FlatTo(<<>> \o ss[i + 1], i + 1, c, ss, S)
        BY <1>2, <3>2, FlatGrows
      <4>3. f[i + 1] = ss[i + 1]
        BY <2>4, <3>1, <3>2
      <4> QED BY <3>1, <4>1, <4>2, <4>3
    <3>3. CASE i # 0
      <4>1. FlatTo(f[i], i, c, ss, S)
        BY <2>6, <3>3
      <4>2. FlatTo(f[i] \o ss[i + 1], i + 1, c, ss, S)
        BY <4>1, FlatGrows
      <4>3. f[i + 1] = f[i] \o ss[i + 1]
        <5>1. i + 1 # 1
          BY <3>3
        <5> QED BY <2>4, <3>1, <5>1
      <4>4. FlatTo(f[i + 1], i + 1, c, ss, S)
        BY <4>2, <4>3, Zenon
      <4> QED BY <3>1, <4>4
    <3> QED BY <3>2, <3>3
  <2> HIDE DEF Good
  <2>7. \A i \in 0 .. n : i \in Good
    BY <2>5, <2>6, SetInduction
  <2>8. n \in Good
    BY <2>7
  <2> QED BY <1>4, <2>3, <2>8 DEF Good
<1> QED BY <1>3, <1>4

------------------------------------------------------------------------------
\* The machine.

DeviceRow(k) == [id |-> k - 1, on |-> AllDevices[k]]

\* The k-th device has the number k - 1.
LEMMA DevicesNumbered ==
  ASSUME ProfilingAssumption
  PROVE  /\ AllDevices \in Seq(Device)
         /\ \A i \in DOMAIN NumDevices : \A m \in 1 .. NumDevices[i] :
              \E k \in DOMAIN AllDevices : DevicesOf(i)[m] = AllDevices[k]
         /\ \A k \in DOMAIN AllDevices :
              \E i \in DOMAIN NumDevices : \E m \in 1 .. NumDevices[i] : AllDevices[k] = DevicesOf(i)[m]
         /\ \A k \in DOMAIN AllDevices : GlobalDeviceId(AllDevices[k]) = k - 1
<1> PICK n : n = Len(NumDevices)
  BY Zenon
<1>1. /\ n \in Nat /\ DOMAIN NumDevices = 1 .. n
      /\ \A i \in 1 .. n : NumDevices[i] \in Nat \ {0}
  BY DEF ProfilingAssumption
<1> PICK ss : ss = [i \in 1 .. n |-> DevicesOf(i)]
  BY Zenon
<1>2. ASSUME NEW i \in 1 .. n
      PROVE  /\ ss[i] \in Seq(Device) /\ Len(ss[i]) = NumDevices[i]
             /\ \A m \in 1 .. NumDevices[i] : ss[i][m] = [platform |-> i, n |-> m - 1]
  <2>1. ss[i] = [m \in 1 .. NumDevices[i] |-> [platform |-> i, n |-> m - 1]]
    BY DEF DevicesOf
  <2>2. \A m \in 1 .. NumDevices[i] : [platform |-> i, n |-> m - 1] \in Device
    BY <1>1 DEF Device
  <2> QED BY <1>1, <2>1, <2>2
<1>3. ss \in [1 .. n -> Seq(Device)]
  BY <1>2
<1> PICK step : step = [pair \in (1 .. n) \X Nat |-> pair[2] + NumDevices[pair[1]]]
  BY Zenon
<1>4. /\ Counted \in [0 .. n -> Nat] /\ Counted[0] = 0
      /\ \A i \in 1 .. n : Counted[i] = Counted[i - 1] + NumDevices[i]
  <2> DEFINE Is(c) == c = [i \in 0 .. n |-> IF i = 0 THEN 0 ELSE c[i - 1] + NumDevices[i]]
  <2>1. PICK c : Lengths(c, n, ss)
    BY <1>1, <1>3, LengthsExist
  <2>2. Is(c)
    <3>1. c \in [0 .. n -> Nat] /\ c[0] = 0 /\ \A i \in 1 .. n : c[i] = c[i - 1] + NumDevices[i]
      BY <1>2, <2>1 DEF Lengths
    <3> QED BY <1>1, <3>1
  <2>3. Counted = CHOOSE x : Is(x)
    BY DEF Counted
  <2>4. Is(Counted)
    BY <2>2, <2>3, Zenon
  <2>5. Counted[0] = 0 /\ \A i \in 1 .. n : Counted[i] = Counted[i - 1] + NumDevices[i]
    <3>1. PICK d : d = Counted
      BY Zenon
    <3>2. d = [i \in 0 .. n |-> IF i = 0 THEN 0 ELSE d[i - 1] + NumDevices[i]]
      BY <2>4, <3>1, Zenon
    <3>3. 0 \in 0 .. n /\ \A i \in 1 .. n : i \in 0 .. n /\ i # 0
      BY <1>1
    <3>4. d[0] = 0 /\ \A i \in 1 .. n : d[i] = d[i - 1] + NumDevices[i]
      BY <3>2, <3>3
    <3> QED BY <3>1, <3>4, Zenon
  <2> DEFINE Numeric == {i \in 0 .. n : Counted[i] \in Nat}
  <2>6. 0 \in Numeric
    BY <1>1, <2>5
  <2>7. ASSUME NEW i \in 0 .. n - 1, i \in Numeric
        PROVE  i + 1 \in Numeric
    <3>1. i + 1 \in 1 .. n /\ (i + 1) - 1 = i /\ i + 1 \in 0 .. n
      BY <1>1
    <3> QED BY <1>1, <2>5, <2>7, <3>1
  <2>8. \A i \in 0 .. n : Counted[i] \in Nat
    <3> HIDE DEF Numeric
    <3>1. \A i \in 0 .. n : i \in Numeric
      BY <1>1, <2>6, <2>7, SetInduction
    <3> QED BY <3>1 DEF Numeric
  <2>9. Counted = [i \in 0 .. n |-> Counted[i]]
    BY <2>4
  <2> QED BY <2>5, <2>8, <2>9
<1>5. Lengths(Counted, n, ss)
  BY <1>2, <1>4 DEF Lengths
<1>6. FlatTo(AllDevices, n, Counted, ss, Device)
  <2>1. AllDevices = FlattenSeq(ss)
    BY <1>1 DEF AllDevices
  <2> QED BY <1>1, <1>3, <1>5, <2>1, FlattenFacts
<1>7. AllDevices \in Seq(Device) /\ DOMAIN AllDevices = 1 .. Counted[n]
  <2>1. AllDevices \in Seq(Device) /\ Len(AllDevices) = Counted[n]
    BY <1>6 DEF FlatTo
  <2> QED BY <2>1
<1>8. ASSUME NEW i \in 1 .. n, NEW m \in 1 .. NumDevices[i]
      PROVE  /\ Counted[i - 1] + m \in DOMAIN AllDevices
             /\ AllDevices[Counted[i - 1] + m] = [platform |-> i, n |-> m - 1]
  <2>1. \A a \in 1 .. n : \A b \in 1 .. Len(ss[a]) :
          Counted[a - 1] + b \in 1 .. Counted[n] /\ AllDevices[Counted[a - 1] + b] = ss[a][b]
    BY <1>6, Zenon DEF FlatTo
  <2>2. m \in 1 .. Len(ss[i]) /\ ss[i][m] = [platform |-> i, n |-> m - 1]
    BY <1>2
  <2> QED BY <1>7, <2>1, <2>2, Zenon
<1>9. ASSUME NEW i \in 1 .. n, NEW m \in 1 .. NumDevices[i]
      PROVE  \E k \in DOMAIN AllDevices : DevicesOf(i)[m] = AllDevices[k]
  BY <1>8 DEF DevicesOf
<1>10. ASSUME NEW k \in DOMAIN AllDevices
       PROVE  /\ \E i \in 1 .. n : \E m \in 1 .. NumDevices[i] : AllDevices[k] = DevicesOf(i)[m]
              /\ GlobalDeviceId(AllDevices[k]) = k - 1
  <2>1. PICK i \in 1 .. n : \E m \in 1 .. Len(ss[i]) : k = Counted[i - 1] + m
    <3>1. \A x \in 1 .. Counted[n] : \E a \in 1 .. n : \E m \in 1 .. Len(ss[a]) : x = Counted[a - 1] + m
      BY <1>6, Zenon DEF FlatTo
    <3>2. k \in 1 .. Counted[n]
      BY <1>7
    <3> QED BY <3>1, <3>2, Zenon
  <2>2. PICK m \in 1 .. NumDevices[i] : k = Counted[i - 1] + m
    BY <1>2, <2>1
  <2>3. AllDevices[k] = [platform |-> i, n |-> m - 1]
    BY <1>8, <2>2
  <2>4. Counted[i - 1] \in Nat /\ m \in Nat
    <3>1. i - 1 \in 0 .. n
      BY <1>1
    <3>2. Counted[i - 1] \in Nat
      BY <1>4, <3>1, Zenon
    <3> QED BY <1>1, <3>2
  <2>5. AllDevices[k] = DevicesOf(i)[m]
    BY <2>3 DEF DevicesOf
  <2>6. GlobalDeviceId(AllDevices[k]) = k - 1
    BY <2>2, <2>3, <2>4 DEF GlobalDeviceId
  <2> QED BY <2>5, <2>6
<1>11. \A i \in DOMAIN NumDevices : \A m \in 1 .. NumDevices[i] :
         \E k \in DOMAIN AllDevices : DevicesOf(i)[m] = AllDevices[k]
  <2> PICK D : D = DOMAIN NumDevices
    BY Zenon
  <2>1. D = 1 .. n
    BY <1>1
  <2>2. \A i \in D : \A m \in 1 .. NumDevices[i] :
          \E k \in DOMAIN AllDevices : DevicesOf(i)[m] = AllDevices[k]
    BY <1>9, <2>1, Zenon
  <2> QED BY <2>2, Zenon
<1>12. \A k \in DOMAIN AllDevices :
         \E i \in DOMAIN NumDevices : \E m \in 1 .. NumDevices[i] : AllDevices[k] = DevicesOf(i)[m]
  <2>1. ASSUME NEW i \in 1 .. n
        PROVE  i \in DOMAIN NumDevices
    BY <1>1
  <2> QED BY <1>10, <2>1, Zenon
<1>13. \A k \in DOMAIN AllDevices : GlobalDeviceId(AllDevices[k]) = k - 1
  BY <1>10, Zenon
<1> QED BY <1>7, <1>11, <1>12, <1>13, Zenon

DeviceStep(k) == Step("insert", "Devices", DeviceRow(k))

\* What the steps left of the initialisation are: a question for a table is
\* followed by its creation, the flag comes last, and devices are what is listed.
Ordered(t) ==
  /\ IsSeq(t)
  /\ \A j \in DOMAIN t :
       /\ t[j].op \in {"need", "create", "insert", "flag"}
       /\ t[j].op = "need" => j + 1 \in DOMAIN t /\ t[j + 1].op = "create"
       /\ t[j].op = "flag" => j = Len(t)
       /\ t[j].op = "insert" /\ t[j].table = "Devices" => \E k \in DOMAIN AllDevices : t[j] = DeviceStep(k)

PlatformStep(i) == Step("insert", "Platforms", [id |-> i - 1])
ListingStep ==
  {PlatformStep(i) : i \in DOMAIN NumDevices} \cup {DeviceStep(k) : k \in DOMAIN AllDevices}

LEMMA PlatformListed ==
  ASSUME ProfilingAssumption, NEW i \in DOMAIN NumDevices
  PROVE  /\ PlatformSteps(i) \in Seq(ListingStep)
         /\ \A m \in 1 .. NumDevices[i] :
              m + 1 \in 1 .. Len(PlatformSteps(i))
              /\ PlatformSteps(i)[m + 1] = acc_profiling_device_init(DevicesOf(i)[m])
<1> PICK l : l = NumDevices[i]
  BY Zenon
<1>1. l \in Nat
  BY DEF ProfilingAssumption
<1> PICK first, rest : /\ first = <<PlatformStep(i)>>
                       /\ rest = [m \in 1 .. l |-> acc_profiling_device_init(DevicesOf(i)[m])]
  BY Zenon
<1>2. ASSUME NEW m \in 1 .. l
      PROVE  rest[m] \in ListingStep /\ rest[m] = acc_profiling_device_init(DevicesOf(i)[m])
  <2>1. PICK k \in DOMAIN AllDevices : DevicesOf(i)[m] = AllDevices[k]
    BY DevicesNumbered
  <2>2. GlobalDeviceId(AllDevices[k]) = k - 1
    BY DevicesNumbered
  <2>3. acc_profiling_device_init(DevicesOf(i)[m]) = DeviceStep(k)
    BY <2>1, <2>2 DEF acc_profiling_device_init, DeviceStep, DeviceRow
  <2> QED BY <2>3 DEF ListingStep
<1>3. rest \in Seq(ListingStep) /\ Len(rest) = l
  BY <1>1, <1>2
<1>4. first \in Seq(ListingStep) /\ Len(first) = 1
  <2>1. PlatformStep(i) \in ListingStep
    BY DEF ListingStep
  <2> QED BY <2>1
<1> PICK s : s = first \o rest
  BY Zenon
<1>5. /\ s \in Seq(ListingStep) /\ Len(s) = 1 + l
      /\ \A x \in 1 .. 1 + l : s[x] = IF x <= 1 THEN first[x] ELSE rest[x - 1]
  <2>1. /\ first \o rest \in Seq(ListingStep)
        /\ Len(first \o rest) = Len(first) + Len(rest)
        /\ \A x \in 1 .. Len(first) + Len(rest) :
             (first \o rest)[x] = IF x <= Len(first) THEN first[x] ELSE rest[x - Len(first)]
    <3>1. first \in Seq(ListingStep) /\ rest \in Seq(ListingStep)
      BY <1>3, <1>4
    <3> QED BY <3>1, ConcatProperties
  <2> QED BY <1>3, <1>4, <2>1, Zenon
<1>6. ASSUME NEW m \in 1 .. l
      PROVE  m + 1 \in 1 .. Len(s) /\ s[m + 1] = rest[m]
  <2>1. PICK x : x = m + 1
    BY Zenon
  <2>2. x \in 1 .. 1 + l /\ ~(x <= 1) /\ x - 1 = m
    BY <1>1, <2>1
  <2> QED BY <1>5, <2>1, <2>2
<1>7. s = PlatformSteps(i)
  BY DEF PlatformSteps, PlatformStep
<1> QED BY <1>2, <1>5, <1>6, <1>7, Zenon

LEMMA Joins ==
  ASSUME NEW S, NEW s \in Seq(S), NEW t \in Seq(S), NEW a, NEW b, Len(s) = a, Len(t) = b
  PROVE  /\ s \o t \in Seq(S) /\ Len(s \o t) = a + b
         /\ \A k \in 1 .. a + b : (s \o t)[k] = IF k <= a THEN s[k] ELSE t[k - a]
BY ConcatProperties, Zenon

LEMMA SixSteps ==
  ASSUME NEW v, NEW w, NEW x, NEW y, NEW z, NEW a
  PROVE  (<<v, w>> \o <<x, y>>) \o <<z, a>> = <<v, w, x, y, z, a>>
<1> PICK S : S = {v, w, x, y, z, a}
  BY Zenon
<1> PICK one, two, three, six : /\ one = <<v, w>> /\ two = <<x, y>> /\ three = <<z, a>>
                                /\ six = <<v, w, x, y, z, a>>
  BY Zenon
<1>1. /\ one \in Seq(S) /\ Len(one) = 2 /\ one[1] = v /\ one[2] = w
      /\ two \in Seq(S) /\ Len(two) = 2 /\ two[1] = x /\ two[2] = y
      /\ three \in Seq(S) /\ Len(three) = 2 /\ three[1] = z /\ three[2] = a
  OBVIOUS
<1>2. /\ six \in Seq(S) /\ Len(six) = 6 /\ six[1] = v /\ six[2] = w /\ six[3] = x
      /\ six[4] = y /\ six[5] = z /\ six[6] = a
  OBVIOUS
<1> PICK four : four = one \o two
  BY Zenon
<1>3. /\ four \in Seq(S) /\ Len(four) = 4
      /\ \A j \in 1 .. 4 : four[j] = IF j <= 2 THEN one[j] ELSE two[j - 2]
  <2>1. /\ one \o two \in Seq(S) /\ Len(one \o two) = Len(one) + Len(two)
        /\ \A j \in 1 .. Len(one) + Len(two) :
             (one \o two)[j] = IF j <= Len(one) THEN one[j] ELSE two[j - Len(one)]
    BY <1>1, ConcatProperties
  <2> QED BY <1>1, <2>1
<1> PICK all : all = four \o three
  BY Zenon
<1>4. /\ all \in Seq(S) /\ Len(all) = 6
      /\ \A j \in 1 .. 6 : all[j] = IF j <= 4 THEN four[j] ELSE three[j - 4]
  <2>1. /\ four \o three \in Seq(S) /\ Len(four \o three) = Len(four) + Len(three)
        /\ \A j \in 1 .. Len(four) + Len(three) :
             (four \o three)[j] = IF j <= Len(four) THEN four[j] ELSE three[j - Len(four)]
    BY <1>1, <1>3, ConcatProperties
  <2> QED BY <1>1, <1>3, <2>1
<1>5. four[1] = v /\ four[2] = w /\ four[3] = x /\ four[4] = y
  BY <1>1, <1>3
<1>6. all[1] = v /\ all[2] = w /\ all[3] = x /\ all[4] = y /\ all[5] = z /\ all[6] = a
  BY <1>1, <1>4, <1>5
<1>7. \A j \in 1 .. 6 : all[j] = six[j]
  <2>1. \A j \in 1 .. 6 : j \in {1, 2, 3, 4, 5, 6}
    OBVIOUS
  <2> QED BY <1>2, <1>6, <2>1
<1>8. all = six
  BY <1>2, <1>4, <1>7, SeqEqual
<1> QED BY <1>8, Zenon

LEMMA InitSteps ==
  ASSUME ProfilingAssumption
  PROVE  /\ Ordered(acc_profiling_init)
         /\ \A k \in DOMAIN AllDevices :
              \E j \in DOMAIN acc_profiling_init : acc_profiling_init[j] = DeviceStep(k)
<1> PICK n : n = Len(NumDevices)
  BY Zenon
<1>1. n \in Nat /\ DOMAIN NumDevices = 1 .. n
  BY DEF ProfilingAssumption
<1> PICK ss : ss = [i \in 1 .. n |-> PlatformSteps(i)]
  BY Zenon
<1>2. ss \in [1 .. n -> Seq(ListingStep)]
  <2>1. \A i \in 1 .. n : PlatformSteps(i) \in Seq(ListingStep)
    BY <1>1, PlatformListed
  <2> QED BY <2>1
<1>3. PICK c : Lengths(c, n, ss)
  BY <1>1, <1>2, LengthsExist
<1> PICK b, m : b = acc_profiling_platform_init /\ m = Len(b)
  BY Zenon
<1>4. FlatTo(b, n, c, ss, ListingStep)
  <2>1. b = FlattenSeq(ss)
    BY <1>1 DEF acc_profiling_platform_init
  <2> QED BY <1>1, <1>2, <1>3, <2>1, FlattenFacts
<1>5. b \in Seq(ListingStep) /\ m \in Nat
  BY <1>4 DEF FlatTo
<1>6. ASSUME NEW k \in DOMAIN AllDevices
      PROVE  \E j \in 1 .. m : b[j] = DeviceStep(k)
  <2>1. PICK i \in DOMAIN NumDevices : \E x \in 1 .. NumDevices[i] : AllDevices[k] = DevicesOf(i)[x]
    BY DevicesNumbered
  <2>2. PICK x \in 1 .. NumDevices[i] : AllDevices[k] = DevicesOf(i)[x]
    BY <2>1
  <2>3. acc_profiling_device_init(DevicesOf(i)[x]) = DeviceStep(k)
    <3>1. GlobalDeviceId(AllDevices[k]) = k - 1
      BY DevicesNumbered
    <3> QED BY <2>2, <3>1 DEF acc_profiling_device_init, DeviceStep, DeviceRow
  <2>4. x + 1 \in 1 .. Len(ss[i]) /\ ss[i][x + 1] = DeviceStep(k)
    BY <1>1, <2>3, PlatformListed
  <2>5. \A a \in 1 .. n : \A y \in 1 .. Len(ss[a]) : c[a - 1] + y \in 1 .. c[n] /\ b[c[a - 1] + y] = ss[a][y]
    BY <1>4, Zenon DEF FlatTo
  <2>6. c[n] = m
    BY <1>4 DEF FlatTo
  <2>7. i \in 1 .. n
    BY <1>1
  <2>8. c[i - 1] + (x + 1) \in 1 .. c[n] /\ b[c[i - 1] + (x + 1)] = ss[i][x + 1]
    BY <2>4, <2>5, <2>7, Zenon
  <2> QED BY <2>4, <2>6, <2>8, Zenon
<1> PICK t : t = acc_profiling_init
  BY Zenon
<1> DEFINE need(table) == Step("need", table, Nothing)
           create(table) == Step("create", table, Nothing)
           head == <<need("Platforms"), create("Platforms"), need("Devices"), create("Devices"),
                     need("Events"), create("Events")>>
           H == {need(x) : x \in {"Platforms", "Devices", "Events"}}
                  \cup {create(x) : x \in {"Platforms", "Devices", "Events"}}
           All == H \cup ListingStep \cup {Plain("flag")}
<1>7. /\ t \in Seq(All) /\ Len(t) = m + 7
      /\ \A j \in 1 .. 6 : t[j] = head[j]
      /\ \A j \in 1 .. m : t[j + 6] = b[j]
      /\ t[m + 7] = Plain("flag")
  <2>1. head \in Seq(H) /\ Len(head) = 6
    OBVIOUS
  <2>2. acc_profiling_init = (head \o b) \o <<Plain("flag")>>
    <3>1. Creates("Platforms") \o Creates("Devices") \o Creates("Events") = head
      BY SixSteps DEF Creates
    <3> HIDE DEF head
    <3> QED BY <3>1, Zenon DEF acc_profiling_init, acc_profiling_init_db
  <2> HIDE DEF head, H
  <2>3. head \in Seq(All) /\ b \in Seq(All) /\ <<Plain("flag")>> \in Seq(All) /\ Len(<<Plain("flag")>>) = 1
    BY <1>5, <2>1
  <2> HIDE DEF All
  <2> PICK u : u = head \o b
    BY Zenon
  <2>4. /\ u \in Seq(All) /\ Len(u) = 6 + m
        /\ \A j \in 1 .. 6 + m : u[j] = IF j <= 6 THEN head[j] ELSE b[j - 6]
    <3>1. /\ head \o b \in Seq(All) /\ Len(head \o b) = Len(head) + Len(b)
          /\ \A j \in 1 .. Len(head) + Len(b) :
               (head \o b)[j] = IF j <= Len(head) THEN head[j] ELSE b[j - Len(head)]
      BY <2>3, ConcatProperties, Zenon
    <3> QED BY <2>1, <3>1, Zenon
  <2> PICK f : f = <<Plain("flag")>>
    BY Zenon
  <2>5. /\ t \in Seq(All) /\ Len(t) = (6 + m) + 1
        /\ \A j \in 1 .. (6 + m) + 1 : t[j] = IF j <= 6 + m THEN u[j] ELSE f[j - (6 + m)]
    <3>1. u \in Seq(All) /\ f \in Seq(All) /\ Len(u) = 6 + m /\ Len(f) = 1
      BY <2>3, <2>4, Zenon
    <3>2. /\ u \o f \in Seq(All) /\ Len(u \o f) = (6 + m) + 1
          /\ \A j \in 1 .. (6 + m) + 1 : (u \o f)[j] = IF j <= 6 + m THEN u[j] ELSE f[j - (6 + m)]
      BY <3>1, Joins
    <3>3. t = u \o f
      BY <2>2, Zenon
    <3> QED BY <3>2, <3>3, Zenon
  <2>6. f[1] = Plain("flag")
    OBVIOUS
  <2>7. ASSUME NEW j \in 1 .. 6
        PROVE  t[j] = head[j]
    <3>1. j \in 1 .. (6 + m) + 1 /\ j <= 6 + m /\ j \in 1 .. 6 + m /\ j <= 6
      BY <1>5
    <3> QED BY <2>4, <2>5, <3>1, Zenon
  <2>8. ASSUME NEW j \in 1 .. m
        PROVE  t[j + 6] = b[j]
    <3> PICK x : x = j + 6
      BY Zenon
    <3>1. x \in 1 .. (6 + m) + 1 /\ x <= 6 + m /\ x \in 1 .. 6 + m /\ ~(x <= 6) /\ x - 6 = j
      BY <1>5
    <3> QED BY <2>4, <2>5, <3>1, Zenon
  <2>9. t[m + 7] = Plain("flag")
    <3> PICK x : x = m + 7
      BY Zenon
    <3>1. x \in 1 .. (6 + m) + 1 /\ ~(x <= 6 + m) /\ x - (6 + m) = 1
      BY <1>5
    <3> QED BY <2>5, <2>6, <3>1, Zenon
  <2>10. Len(t) = m + 7
    BY <1>5, <2>5
  <2> QED BY <2>5, <2>7, <2>8, <2>9, <2>10
<1>8. DOMAIN t = 1 .. m + 7
  BY <1>5, <1>7
<1>9. \A j \in 1 .. m : b[j] \in ListingStep
  BY <1>5
<1>10. \A x \in ListingStep : /\ x.op = "insert"
                              /\ x.table = "Devices" => \E k \in DOMAIN AllDevices : x = DeviceStep(k)
  <2>1. \A i : PlatformStep(i).op = "insert" /\ PlatformStep(i).table = "Platforms"
    BY DEF PlatformStep, Step
  <2>2. \A k : DeviceStep(k).op = "insert"
    BY DEF DeviceStep, Step
  <2> QED BY <2>1, <2>2 DEF ListingStep
<1>11. ASSUME NEW j \in DOMAIN t
       PROVE  /\ t[j].op \in {"need", "create", "insert", "flag"}
              /\ t[j].op = "need" => j + 1 \in DOMAIN t /\ t[j + 1].op = "create"
              /\ t[j].op = "flag" => j = Len(t)
              /\ t[j].op = "insert" /\ t[j].table = "Devices" =>
                   \E k \in DOMAIN AllDevices : t[j] = DeviceStep(k)
  <2>1. CASE j \in 1 .. 6
    <3>1. t[j] = head[j] /\ \A x \in 1 .. 6 : t[x] = head[x]
      BY <1>7, <2>1
    <3>2. /\ head[1].op = "need" /\ head[2].op = "create" /\ head[3].op = "need"
          /\ head[4].op = "create" /\ head[5].op = "need" /\ head[6].op = "create"
      BY DEF Step
    <3> HIDE DEF head
    <3>3. j \in {1, 2, 3, 4, 5, 6}
      BY <2>1
    <3>4. CASE j \in {1, 3, 5}
      <4>1. j + 1 \in 1 .. 6 /\ j + 1 \in DOMAIN t /\ head[j + 1].op = "create" /\ head[j].op = "need"
        BY <1>5, <1>8, <3>2, <3>4
      <4>2. t[j + 1] = head[j + 1]
        BY <3>1, <4>1
      <4> QED BY <3>1, <4>1, <4>2
    <3>5. CASE j \in {2, 4, 6}
      <4>1. head[j].op = "create"
        BY <3>2, <3>5
      <4> QED BY <3>1, <4>1
    <3> QED BY <3>3, <3>4, <3>5
  <2>2. CASE j \in 7 .. m + 6
    <3>1. j - 6 \in 1 .. m /\ (j - 6) + 6 = j
      BY <1>5, <2>2
    <3>2. t[j] = b[j - 6]
      BY <1>7, <3>1
    <3>3. t[j] \in ListingStep
      BY <1>9, <3>1, <3>2
    <3> QED BY <1>10, <3>3
  <2>3. CASE j = m + 7
    <3>1. t[j].op = "flag"
      BY <1>7, <2>3 DEF Plain, Step
    <3> QED BY <1>7, <2>3, <3>1
  <2>4. j \in 1 .. 6 \/ j \in 7 .. m + 6 \/ j = m + 7
    BY <1>5, <1>8
  <2> QED BY <2>1, <2>2, <2>3, <2>4, Zenon
<1>12. IsSeq(t)
  <2>1. t \in [1 .. Len(t) -> ToSet(t)] /\ Len(t) \in Nat
    BY <1>5, <1>7 DEF ToSet
  <2> QED BY <2>1 DEF IsSeq
<1>13. ASSUME NEW k \in DOMAIN AllDevices
       PROVE  \E j \in DOMAIN t : t[j] = DeviceStep(k)
  <2>1. PICK j \in 1 .. m : b[j] = DeviceStep(k)
    BY <1>6
  <2>2. j + 6 \in DOMAIN t /\ t[j + 6] = b[j]
    BY <1>5, <1>7, <1>8
  <2> QED BY <2>1, <2>2
<1> QED BY <1>11, <1>12, <1>13 DEF Ordered

------------------------------------------------------------------------------
\* What events refer to.

\* Run r of the file was begun by session s.
RunOK(r, s) == r = NoRun \/ (r \in DOMAIN Rows("Runs") /\ Rows("Runs")[r].by = s)

Refs(e) ==
  /\ RunOK(e.run, e.id.by)
  /\ \E k \in DOMAIN AllDevices : e.device = k - 1 /\ e.on = AllDevices[k]

Listed(k) == \E j \in DOMAIN Rows("Devices") : Rows("Devices")[j] = DeviceRow(k)
AllListed == \A k \in DOMAIN AllDevices : Listed(k)

\* A device is listed, or the process has yet to list it.
WillList(t) ==
  Ordered(t) /\ \A k \in DOMAIN AllDevices : Listed(k) \/ \E j \in DOMAIN t : t[j] = DeviceStep(k)

Lists(p) ==
  /\ status[p] = "init" => todo[p] = <<Plain("open")>> \/ WillList(todo[p])
  /\ status[p] \in {"up", "exit"} => AllListed

\* What the process goes by is in the file.
Resolves(p) ==
  /\ RunOK(run_id[p], Self(p))
  /\ status[p] = "down" => run_id[p] = NoRun
  /\ Lists(p)
  /\ \A e \in events[p] : Refs(e)

DevicesRight ==
  /\ IsSeq(Rows("Devices"))
  /\ \A j \in DOMAIN Rows("Devices") :
       \E k \in DOMAIN AllDevices : Rows("Devices")[j] = DeviceRow(k)

FileResolves ==
  /\ DevicesRight
  /\ \A i \in DOMAIN Stored : Refs(Stored[i])
  /\ DOMAIN Stored # {} => AllListed

RInv == FileResolves /\ \A p \in Process : Resolves(p)

\* No row is changed or removed.
Grows ==
  \A t \in {"Runs", "Devices"} :
    /\ DOMAIN Rows(t) \subseteq DOMAIN Rows(t)'
    /\ \A j \in DOMAIN Rows(t) : Rows(t)'[j] = Rows(t)[j]

LEMMA RefsStay ==
  ASSUME Grows
  PROVE  /\ \A e : Refs(e) => Refs(e)'
         /\ \A r, s : RunOK(r, s) => RunOK(r, s)'
         /\ \A k : Listed(k) => Listed(k)'
         /\ AllListed => AllListed'
<1>1. ASSUME NEW r, NEW s, RunOK(r, s)
      PROVE  RunOK(r, s)'
  BY <1>1 DEF RunOK, Grows
<1>2. ASSUME NEW k, Listed(k)
      PROVE  Listed(k)'
  BY <1>2 DEF Listed, Grows
<1>3. ASSUME NEW e, Refs(e)
      PROVE  Refs(e)'
  <2>1. RunOK(e.run, e.id.by)'
    BY <1>1, <1>3 DEF Refs
  <2> QED BY <1>3, <2>1 DEF Refs
<1>4. AllListed => AllListed'
  BY <1>2 DEF AllListed
<1> QED BY <1>1, <1>2, <1>3, <1>4

LEMMA SameGrows ==
  ASSUME \A t : Rows(t)' = Rows(t)
  PROVE  Grows
BY DEF Grows

\* What an event refers to are four of its fields.
LEMMA RefsByFields ==
  ASSUME NEW e, NEW f, Refs(e),
         f.id = e.id, f.run = e.run, f.device = e.device, f.on = e.on
  PROVE  Refs(f)
BY DEF Refs

\* A process that is not acting.
LEMMA OthersResolve ==
  ASSUME NEW q \in Process, Resolves(q), Same(q), Grows
  PROVE  Resolves(q)'
<1>1. Self(q)' = Self(q)
  BY DEF Same, Self
<1>2. RunOK(run_id[q], Self(q))'
  <2>1. RunOK(run_id[q], Self(q))
    BY DEF Resolves
  <2> PICK r, s : r = run_id[q] /\ s = Self(q)
    BY Zenon
  <2>2. RunOK(r, s)'
    BY <2>1, RefsStay
  <2>3. run_id'[q] = r /\ Self(q)' = s
    BY <1>1 DEF Same
  <2> QED BY <2>2, <2>3 DEF RunOK
<1>3. Lists(q)'
  <2>1. ASSUME NEW t, WillList(t)
        PROVE  WillList(t)'
    BY <2>1, RefsStay DEF WillList
  <2>2. status'[q] = status[q] /\ todo'[q] = todo[q]
    BY DEF Same
  <2>3. AllListed => AllListed'
    BY RefsStay
  <2>4. WillList(todo[q]) => WillList(todo[q])'
    <3> PICK t : t = todo[q]
      BY Zenon
    <3>1. WillList(t) => WillList(t)'
      BY <2>1
    <3>2. todo'[q] = t
      BY <2>2
    <3> QED BY <3>1, <3>2 DEF WillList
  <2> QED BY <2>2, <2>3, <2>4 DEF Resolves, Lists
<1>4. \A e \in events'[q] : Refs(e)'
  BY RefsStay DEF Resolves, Same
<1> QED BY <1>2, <1>3, <1>4 DEF Resolves, Same

\* The file, when no device is listed and no event stored.
LEMMA FileStays ==
  ASSUME FileResolves, Grows, Stored' = Stored, Rows("Devices")' = Rows("Devices")
  PROVE  FileResolves'
<1>1. DevicesRight'
  BY DEF FileResolves, DevicesRight, IsSeq
<1>2. (\A i \in DOMAIN Stored : Refs(Stored[i]))'
  <2>1. \A e : Refs(e) => Refs(e)'
    BY RefsStay
  <2>2. ASSUME NEW i \in DOMAIN Stored
        PROVE  Refs(Stored[i])'
    <3> PICK e : e = Stored[i]
      BY Zenon
    <3>1. Refs(e)'
      BY <2>1 DEF FileResolves
    <3> QED BY <3>1 DEF Refs
  <2> QED BY <2>2 DEF Refs
<1>3. (DOMAIN Stored # {} => AllListed)'
  BY RefsStay DEF FileResolves
<1> QED BY <1>1, <1>2, <1>3 DEF FileResolves

\* The acting process, when its events stay or are fewer.
SameEvents(p) ==
  \A f \in events'[p] : \E e \in events[p] :
    f.id = e.id /\ f.run = e.run /\ f.device = e.device /\ f.on = e.on

LEMMA ActorResolves ==
  ASSUME NEW p \in Process, Resolves(p), Grows,
         status'[p] # "down", session'[p] = session[p], run_id'[p] = run_id[p],
         SameEvents(p), Lists(p)'
  PROVE  Resolves(p)'
<1>1. RunOK(run_id[p], Self(p))'
  <2> PICK r, s : r = run_id[p] /\ s = Self(p)
    BY Zenon
  <2>1. RunOK(r, s)'
    BY RefsStay DEF Resolves
  <2>2. run_id'[p] = r /\ Self(p)' = s
    BY DEF Self
  <2> QED BY <2>1, <2>2 DEF RunOK
<1>2. ASSUME NEW f \in events'[p]
      PROVE  Refs(f)'
  <2>1. PICK e \in events[p] : f.id = e.id /\ f.run = e.run /\ f.device = e.device /\ f.on = e.on
    BY DEF SameEvents
  <2>2. Refs(f)
    BY <2>1, RefsByFields DEF Resolves
  <2> QED BY <2>2, RefsStay
<1>3. (\A e \in events[p] : Refs(e))'
  BY <1>2
<1> QED BY <1>1, <1>3 DEF Resolves

LEMMA GoneResolves ==
  ASSUME NEW p \in Process, status'[p] = "down", run_id'[p] = NoRun, events'[p] = {}
  PROVE  Resolves(p)'
BY DEF Resolves, RunOK, Lists

\* What an action of p does for the invariant.
Keeps(p) == Grows /\ FileResolves' /\ Resolves(p)'

\* A step in which neither devices, runs nor events come or change.
LEMMA QuietKeeps ==
  ASSUME FileResolves, NEW p \in Process, Resolves(p),
         status'[p] # "down", session'[p] = session[p], run_id'[p] = run_id[p],
         SameEvents(p), Lists(p)', Stored' = Stored, Grows, Rows("Devices")' = Rows("Devices")
  PROVE  Keeps(p)
BY ActorResolves, FileStays DEF Keeps

LEMMA SameSetSameEvents ==
  ASSUME NEW p \in Process, events'[p] \subseteq events[p]
  PROVE  SameEvents(p)
BY DEF SameEvents

\* What is left of the initialisation, when its first step has been done.
LEMMA TailFacts ==
  ASSUME NEW t, IsSeq(t), t # <<>>
  PROVE  /\ Len(t) \in Nat /\ Len(t) >= 1 /\ DOMAIN t = 1 .. Len(t)
         /\ Head(t) = t[1]
         /\ IsSeq(Tail(t)) /\ Len(Tail(t)) = Len(t) - 1
         /\ DOMAIN Tail(t) = 1 .. Len(t) - 1
         /\ \A j \in DOMAIN Tail(t) : j + 1 \in DOMAIN t /\ Tail(t)[j] = t[j + 1]
<1> PICK S : S = ToSet(t)
  BY Zenon
<1>1. t \in Seq(S)
  BY DEF IsSeq
<1>2. Tail(t) \in Seq(S)
  BY <1>1
<1>3. IsSeq(Tail(t))
  BY <1>2, SeqOfOwn
<1> QED BY <1>1, <1>2, <1>3

LEMMA TailOrdered ==
  ASSUME NEW t, Ordered(t), t # <<>>
  PROVE  /\ Ordered(Tail(t))
         /\ \A j \in DOMAIN t : j = 1 \/ \E i \in DOMAIN Tail(t) : Tail(t)[i] = t[j]
<1>1. IsSeq(t)
  BY DEF Ordered
<1> PICK s, n : s = Tail(t) /\ n = Len(t)
  BY Zenon
<1>2. /\ n \in Nat /\ n >= 1 /\ DOMAIN t = 1 .. n
      /\ IsSeq(s) /\ Len(s) = n - 1 /\ DOMAIN s = 1 .. n - 1
      /\ \A j \in DOMAIN s : j + 1 \in DOMAIN t /\ s[j] = t[j + 1]
  BY <1>1, TailFacts
<1>3. ASSUME NEW j \in DOMAIN s
      PROVE  /\ s[j].op \in {"need", "create", "insert", "flag"}
             /\ s[j].op = "need" => j + 1 \in DOMAIN s /\ s[j + 1].op = "create"
             /\ s[j].op = "flag" => j = Len(s)
             /\ s[j].op = "insert" /\ s[j].table = "Devices" =>
                  \E k \in DOMAIN AllDevices : s[j] = DeviceStep(k)
  <2> PICK i : i = j + 1
    BY Zenon
  <2>1. i \in DOMAIN t /\ s[j] = t[i] /\ j \in Nat
    BY <1>2
  <2>2. /\ t[i].op \in {"need", "create", "insert", "flag"}
        /\ t[i].op = "need" => i + 1 \in DOMAIN t /\ t[i + 1].op = "create"
        /\ t[i].op = "flag" => i = n
        /\ t[i].op = "insert" /\ t[i].table = "Devices" =>
             \E k \in DOMAIN AllDevices : t[i] = DeviceStep(k)
    BY <2>1 DEF Ordered
  <2>3. i + 1 \in DOMAIN t => j + 1 \in DOMAIN s /\ s[j + 1] = t[i + 1]
    <3>1. i + 1 \in 1 .. n => j + 1 \in 1 .. n - 1
      BY <1>2, <2>1
    <3> PICK h : h = j + 1
      BY Zenon
    <3>2. h \in DOMAIN s => s[h] = t[h + 1]
      BY <1>2
    <3> QED BY <1>2, <3>1, <3>2
  <2>4. i = n => j = Len(s)
    BY <1>2, <2>1
  <2> QED BY <2>1, <2>2, <2>3, <2>4
<1>4. ASSUME NEW j \in DOMAIN t, j # 1
      PROVE  \E i \in DOMAIN s : s[i] = t[j]
  <2> PICK i : i = j - 1
    BY Zenon
  <2>1. i \in 1 .. n - 1 /\ i + 1 = j
    BY <1>2, <1>4
  <2> QED BY <1>2, <2>1
<1> QED BY <1>2, <1>3, <1>4 DEF Ordered

\* A step of the initialisation is one of four.
LEMMA InitCall ==
  ASSUME PInv, NEW p \in Process, Resolves(p), status[p] = "init", NEW op, At(p, op), op # "open"
  PROVE  /\ WillList(todo[p]) /\ todo[p] # <<>>
         /\ op \in {"need", "create", "insert", "flag"}
         /\ Head(todo[p]) = todo[p][1] /\ 1 \in DOMAIN todo[p]
<1>1. todo[p] # <<Plain("open")>>
  BY Ops, Shapes DEF At
<1>2. WillList(todo[p])
  BY <1>1 DEF Resolves, Lists
<1>3. Ordered(todo[p]) /\ todo[p] # <<>>
  BY <1>2 DEF WillList, At
<1> PICK t : t = todo[p]
  BY Zenon
<1>4. Head(t) = t[1] /\ 1 \in DOMAIN t
  BY <1>3, TailFacts DEF Ordered
<1>5. t[1].op \in {"need", "create", "insert", "flag"}
  BY <1>3, <1>4 DEF Ordered
<1> QED BY <1>2, <1>3, <1>4, <1>5 DEF At

\* The initialisation goes on when its next step has listed what it lists.
LEMMA WillListOn ==
  ASSUME NEW t, WillList(t), t # <<>>, Grows,
         \A k \in DOMAIN AllDevices : t[1] = DeviceStep(k) => Listed(k)'
  PROVE  WillList(Tail(t))'
<1>1. Ordered(Tail(t)) /\ \A j \in DOMAIN t : j = 1 \/ \E i \in DOMAIN Tail(t) : Tail(t)[i] = t[j]
  BY TailOrdered DEF WillList
<1>2. ASSUME NEW k \in DOMAIN AllDevices
      PROVE  Listed(k)' \/ \E i \in DOMAIN Tail(t) : Tail(t)[i] = DeviceStep(k)
  <2>1. CASE Listed(k)
    BY <2>1, RefsStay
  <2>2. CASE \E j \in DOMAIN t : t[j] = DeviceStep(k)
    BY <1>1, <2>2
  <2> QED BY <2>1, <2>2 DEF WillList
<1>3. Ordered(Tail(t))'
  BY <1>1
<1> QED BY <1>2, <1>3 DEF WillList

\* A process whose devices are all listed.
LEMMA ListsUp ==
  ASSUME NEW p \in Process, Lists(p), Grows,
         status[p] \in {"up", "exit"}, status'[p] # "init"
  PROVE  Lists(p)'
BY RefsStay DEF Lists

------------------------------------------------------------------------------
\* The actions.

LEMMA StartKeeps ==
  ASSUME PInv, ProfilingAssumption, FileResolves, NEW p \in Process, Resolves(p), Start(p)
  PROVE  Keeps(p)
<1>1. /\ status[p] = "down"
      /\ status' = [status EXCEPT ![p] = "init"]
      /\ todo' = [todo EXCEPT ![p] = <<Plain("open")>>]
      /\ UNCHANGED <<disk, run_id, events>>
  BY DEF Start, Starts
<1>2. status'[p] = "init" /\ todo'[p] = <<Plain("open")>>
  BY <1>1 DEF PInv, Functions_
<1>3. Grows /\ Stored' = Stored /\ Rows("Devices")' = Rows("Devices")
  BY <1>1, FileSame, SameGrows
<1>4. run_id'[p] = NoRun /\ events'[p] = {}
  BY <1>1 DEF Resolves, PInv, Local, Phase, Down, Initialising, Running, Exiting
<1>5. Resolves(p)'
  BY <1>2, <1>4 DEF Resolves, RunOK, Lists
<1> QED BY <1>3, <1>5, FileStays DEF Keeps

LEMMA GoneKeeps ==
  ASSUME PInv, FileResolves, NEW p \in Process, Ends(p), UNCHANGED disk
  PROVE  Keeps(p)
<1>1. status'[p] = "down" /\ run_id'[p] = NoRun /\ events'[p] = {}
  BY DEF Ends, PInv, Functions_
<1>2. Grows /\ Stored' = Stored /\ Rows("Devices")' = Rows("Devices")
  BY FileSame, SameGrows
<1> QED BY <1>1, <1>2, FileStays, GoneResolves DEF Keeps

LEMMA OpenKeeps ==
  ASSUME PInv, ProfilingAssumption, FileResolves, NEW p \in Process, Resolves(p), OpenProfile(p)
  PROVE  Keeps(p)
<1>1. /\ At(p, "open") /\ Profile \notin DOMAIN conns[p]
      /\ disk' = With(disk, Profile, Content(Profile))
      /\ todo' = [todo EXCEPT ![p] = acc_profiling_init]
      /\ UNCHANGED <<status, session, run_id, events>>
  BY DEF OpenProfile, acc_sqlite_open, LoadOrSave
<1>2. Content(Profile)' = Content(Profile)
  <2>1. DOMAIN disk' = DOMAIN disk \cup {Profile} /\ disk'[Profile] = Content(Profile)
    BY <1>1 DEF With
  <2> QED BY <2>1 DEF Content
<1>3. (\A t : Rows(t)' = Rows(t)) /\ Stored' = Stored
  BY <1>2 DEF Rows, Stored
<1>4. status[p] = "init"
  <2>1. ~Connected(p)
    BY <1>1 DEF Connected
  <2>2. status[p] # "exit" /\ status[p] # "up" /\ status[p] # "down"
    BY <1>1, HeadOps
  <2> QED BY <2>2 DEF PInv, Local, Phase, Initialising, Running, Exiting, Down
<1>5. WillList(acc_profiling_init)'
  <2> PICK t : t = acc_profiling_init
    BY Zenon
  <2>1. Ordered(t) /\ \A k \in DOMAIN AllDevices : \E j \in DOMAIN t : t[j] = DeviceStep(k)
    BY InitSteps
  <2>2. WillList(t)'
    BY <2>1 DEF WillList
  <2> QED BY <2>2 DEF WillList
<1>6. Lists(p)'
  <2>1. todo'[p] = acc_profiling_init /\ status'[p] = "init"
    BY <1>1, <1>4 DEF PInv, Functions_
  <2> QED BY <1>5, <2>1 DEF Lists, WillList
<1>7. events'[p] \subseteq events[p]
  BY <1>1
<1> QED BY <1>1, <1>3, <1>4, <1>6, <1>7, SameGrows, SameSetSameEvents, QuietKeeps

\* A step of the initialisation or of a later call that lists no device.
LEMMA OnKeeps ==
  ASSUME PInv, FileResolves, NEW p \in Process, Resolves(p),
         UNCHANGED <<status, session, run_id, events>>,
         Grows, Stored' = Stored, Rows("Devices")' = Rows("Devices"),
         status[p] # "down",
         status[p] = "init" => WillList(todo[p])'
  PROVE  Keeps(p)
<1>1. Lists(p)'
  <2>1. status[p] = "init" \/ status[p] \in {"up", "exit"}
    BY DEF PInv, Local, Phase, Down, Initialising, Running, Exiting
  <2> QED BY <2>1, ListsUp DEF Resolves, Lists
<1>2. events'[p] \subseteq events[p]
  OBVIOUS
<1> QED BY <1>1, <1>2, SameSetSameEvents, QuietKeeps

LEMMA NeedKeeps ==
  ASSUME PInv, FileResolves, NEW p \in Process, Resolves(p), NeedTable(p)
  PROVE  Keeps(p)
<1> PICK s : s = IF acc_sqlite_table_exists(p, Profile, Now(p).table)
                   THEN Tail(Tail(todo[p])) ELSE Tail(todo[p])
  BY Zenon
<1>1. /\ At(p, "need")
      /\ UNCHANGED <<disk, status, session, run_id, events>>
      /\ todo' = [todo EXCEPT ![p] = s]
  BY DEF NeedTable
<1>2. (\A t : Rows(t)' = Rows(t)) /\ Grows /\ Stored' = Stored
  BY <1>1, FileSame, SameGrows
<1>3. todo'[p] = s /\ status[p] # "down"
  BY <1>1, HeadOps DEF PInv, Functions_
<1>4. ASSUME status[p] = "init"
      PROVE  WillList(s)'
  <2> PICK t : t = todo[p]
    BY Zenon
  <2>1. WillList(t) /\ t # <<>> /\ Head(t) = t[1] /\ 1 \in DOMAIN t /\ t[1].op = "need"
    BY <1>1, <1>4, InitCall DEF At
  <2>2. \A k : DeviceStep(k).op = "insert"
    BY DEF DeviceStep, Step
  <2>3. WillList(Tail(t))'
    BY <1>2, <2>1, <2>2, WillListOn
  <2> PICK u : u = Tail(t)
    BY Zenon
  <2>4. u # <<>> /\ u[1] = t[2] /\ t[2].op = "create" /\ WillList(u)
    <3>1. Ordered(t)
      BY <2>1 DEF WillList
    <3>2. 2 \in DOMAIN t /\ t[2].op = "create"
      <4>1. 1 + 1 \in DOMAIN t /\ t[1 + 1].op = "create"
        BY <2>1, <3>1 DEF Ordered
      <4>2. 1 + 1 = 2
        OBVIOUS
      <4> QED BY <4>1, <4>2
    <3>3. /\ DOMAIN t = 1 .. Len(t) /\ Len(t) \in Nat /\ DOMAIN u = 1 .. Len(t) - 1
          /\ \A j \in DOMAIN u : u[j] = t[j + 1]
      BY <2>1, <3>1, TailFacts DEF Ordered
    <3>4. 1 \in DOMAIN u
      BY <3>2, <3>3
    <3>5. u[1] = t[2]
      <4>1. u[1] = t[1 + 1]
        BY <3>3, <3>4
      <4>2. 1 + 1 = 2
        OBVIOUS
      <4> QED BY <4>1, <4>2
    <3>6. WillList(u)
      <4>1. Ordered(u) /\ \A j \in DOMAIN t : j = 1 \/ \E i \in DOMAIN u : u[i] = t[j]
        BY <2>1, <3>1, TailOrdered
      <4>2. \A k : t[1] # DeviceStep(k)
        BY <2>1, <2>2
      <4> QED BY <2>1, <4>1, <4>2 DEF WillList
    <3> QED BY <3>2, <3>4, <3>5, <3>6
  <2>5. WillList(Tail(u))'
    BY <1>2, <2>2, <2>4, WillListOn
  <2> QED BY <2>3, <2>5
<1>5. status[p] = "init" => WillList(todo[p])'
  BY <1>3, <1>4 DEF WillList
<1> QED BY <1>1, <1>2, <1>3, <1>5, OnKeeps

\* A step that lists no device and after which the call goes on.
LEMMA GoOnKeeps ==
  ASSUME PInv, FileResolves, NEW p \in Process, Resolves(p), NEW op, At(p, op), op # "open",
         UNCHANGED <<status, session, run_id, events>>, GoOn(p),
         Grows, Stored' = Stored, Rows("Devices")' = Rows("Devices"),
         \A k : Now(p) # DeviceStep(k)
  PROVE  Keeps(p)
<1>1. todo'[p] = Tail(todo[p]) /\ status[p] # "down"
  BY HeadOps DEF GoOn, PInv, Functions_
<1>2. ASSUME status[p] = "init"
      PROVE  WillList(todo[p])'
  <2> PICK t : t = todo[p]
    BY Zenon
  <2>1. WillList(t) /\ t # <<>> /\ t[1] = Now(p)
    BY <1>2, InitCall DEF Now
  <2>2. WillList(Tail(t))'
    BY <2>1, WillListOn
  <2> QED BY <1>1, <2>2 DEF WillList
<1> QED BY <1>1, <1>2, OnKeeps

LEMMA CreateKeeps ==
  ASSUME PInv, FileResolves, NEW p \in Process, Resolves(p), acc_sqlite_create_table(p)
  PROVE  Keeps(p)
<1>1. At(p, "create") /\ UNCHANGED session
  BY DEF acc_sqlite_create_table
<1>2. CASE Aborts(p)
  BY <1>2, GoneKeeps DEF Aborts
<1>3. CASE /\ CreateTable(p, Profile, Now(p).table)
           /\ GoOn(p)
           /\ UNCHANGED <<status, run_id, events, made, region>>
  <2>1. Connected(p)
    BY <1>1, StepsConnected
  <2>2. \A t : Rows(t)' = Rows(t)
    BY <1>3, <2>1, CreateFacts DEF PInv
  <2>3. Grows /\ Stored' = Stored /\ Rows("Devices")' = Rows("Devices")
    BY <2>2, SameGrows, StoredIsRows
  <2>4. \A k : Now(p) # DeviceStep(k)
    BY <1>1 DEF At, Now, DeviceStep, Step
  <2> QED BY <1>1, <1>3, <2>3, <2>4, GoOnKeeps
<1> QED BY <1>2, <1>3 DEF acc_sqlite_create_table

LEMMA InsertKeeps ==
  ASSUME PInv, FileResolves, NEW p \in Process, Resolves(p), InsertRow(p)
  PROVE  Keeps(p)
<1> PICK table, row : table = Now(p).table /\ row = Now(p).row
  BY Zenon
<1>1. /\ At(p, "insert") /\ table \in {"Platforms", "Devices"}
      /\ Insert(p, Profile, table, row)
      /\ GoOn(p)
      /\ UNCHANGED <<status, session, run_id, events>>
  BY DEF InsertRow
<1>2. Connected(p) /\ Functions_
  BY <1>1, StepsConnected DEF PInv
<1>3. Rows(table)' = Append(Rows(table), row) /\ \A t : t # table => Rows(t)' = Rows(t)
  BY <1>1, <1>2, InsertFacts
<1>4. Rows("Runs")' = Rows("Runs") /\ Stored' = Stored
  BY <1>1, <1>3, StoredIsRows
<1>5. CASE table = "Platforms"
  <2>1. Rows("Devices")' = Rows("Devices")
    BY <1>3, <1>5
  <2>2. Grows
    BY <1>4, <2>1 DEF Grows
  <2>3. \A k : Now(p) # DeviceStep(k)
    <3>1. \A k : DeviceStep(k).table = "Devices"
      BY DEF DeviceStep, Step
    <3> QED BY <1>5, <3>1
  <2> QED BY <1>1, <1>4, <2>1, <2>2, <2>3, GoOnKeeps
<1>6. CASE table = "Devices"
  <2>1. status[p] = "init"
    <3>1. status[p] # "up" /\ status[p] # "exit" /\ status[p] # "down"
      BY <1>1, HeadOps
    <3> QED BY <3>1 DEF PInv, Local, Phase, Down, Initialising, Running, Exiting
  <2> PICK t : t = todo[p]
    BY Zenon
  <2>2. WillList(t) /\ t # <<>> /\ t[1] = Now(p) /\ 1 \in DOMAIN t
    BY <1>1, <2>1, InitCall DEF Now
  <2>3. PICK k \in DOMAIN AllDevices : Now(p) = DeviceStep(k)
    <3>1. t[1].op = "insert" /\ t[1].table = "Devices"
      BY <1>1, <1>6, <2>2 DEF At, Now
    <3> QED BY <2>2, <3>1 DEF WillList, Ordered
  <2>4. row = DeviceRow(k)
    BY <2>3 DEF DeviceStep, Step
  <2> PICK s : s = Rows("Devices")
    BY Zenon
  <2>5. /\ IsSeq(Append(s, row)) /\ DOMAIN s = 1 .. Len(s) /\ Len(s) \in Nat
        /\ DOMAIN Append(s, row) = 1 .. Len(s) + 1
        /\ \A i \in DOMAIN s : Append(s, row)[i] = s[i]
        /\ Append(s, row)[Len(s) + 1] = row
    BY AppendFacts DEF FileResolves, DevicesRight
  <2>6. Rows("Devices")' = Append(s, row)
    BY <1>3, <1>6
  <2>7. Grows
    BY <1>4, <2>5, <2>6 DEF Grows
  <2>8. Listed(k)'
    BY <2>4, <2>5, <2>6 DEF Listed
  <2>9. DevicesRight'
    <3>1. \A j \in DOMAIN Append(s, row) : \E i \in DOMAIN AllDevices : Append(s, row)[j] = DeviceRow(i)
      <4>1. \A j \in DOMAIN s : \E i \in DOMAIN AllDevices : s[j] = DeviceRow(i)
        BY DEF FileResolves, DevicesRight
      <4>2. \A j \in 1 .. Len(s) + 1 : j \in 1 .. Len(s) \/ j = Len(s) + 1
        BY <2>5
      <4> QED BY <2>4, <2>5, <4>1, <4>2
    <3> QED BY <2>5, <2>6, <3>1 DEF DevicesRight, IsSeq
  <2>10. FileResolves'
    <3>1. (\A i \in DOMAIN Stored : Refs(Stored[i]))'
      <4>1. ASSUME NEW i \in DOMAIN Stored
            PROVE  Refs(Stored[i])'
        <5> PICK e : e = Stored[i]
          BY Zenon
        <5>1. Refs(e)'
          BY <2>7, RefsStay DEF FileResolves
        <5> QED BY <1>4, <5>1 DEF Refs
      <4> QED BY <1>4, <4>1 DEF Refs
    <3>2. (DOMAIN Stored # {} => AllListed)'
      BY <1>4, <2>7, RefsStay DEF FileResolves
    <3> QED BY <2>9, <3>1, <3>2 DEF FileResolves
  <2>11. Lists(p)'
    <3>1. \A i \in DOMAIN AllDevices : t[1] = DeviceStep(i) => Listed(i)'
      <4>1. \A i : DeviceStep(i).row = DeviceRow(i)
        BY DEF DeviceStep, Step
      <4>2. ASSUME NEW i \in DOMAIN AllDevices, t[1] = DeviceStep(i)
            PROVE  Listed(i)'
        <5>1. DeviceRow(i) = row
          BY <2>2, <4>1, <4>2
        <5> QED BY <2>5, <2>6, <5>1 DEF Listed
      <4> QED BY <4>2
    <3>2. WillList(Tail(t))'
      BY <2>2, <2>7, <3>1, WillListOn
    <3>3. todo'[p] = Tail(t) /\ status'[p] = "init"
      BY <1>1, <1>2, <2>1 DEF GoOn, Functions_
    <3> QED BY <3>2, <3>3 DEF Lists, WillList
  <2>12. Resolves(p)'
    <3>1. events'[p] \subseteq events[p] /\ status'[p] # "down"
      BY <1>1, <2>1
    <3> QED BY <1>1, <2>7, <2>11, <3>1, SameSetSameEvents, ActorResolves
  <2> QED BY <2>7, <2>10, <2>12 DEF Keeps
<1> QED BY <1>1, <1>5, <1>6

\* The flag is the last step: by then all devices are listed.
LEMMA FlagKeeps ==
  ASSUME PInv, FileResolves, NEW p \in Process, Resolves(p), SetFlag(p)
  PROVE  Keeps(p)
<1>1. /\ At(p, "flag") /\ status' = [status EXCEPT ![p] = "up"]
      /\ UNCHANGED <<disk, session, run_id, events>>
  BY DEF SetFlag
<1>2. (\A t : Rows(t)' = Rows(t)) /\ Grows /\ Stored' = Stored
  BY <1>1, FileSame, SameGrows
<1>3. status[p] # "down" /\ status'[p] = "up"
  BY <1>1, HeadOps DEF PInv, Functions_
<1>4. AllListed
  <2>1. CASE status[p] = "init"
    <3> PICK t : t = todo[p]
      BY Zenon
    <3>1. WillList(t) /\ t # <<>> /\ 1 \in DOMAIN t /\ t[1].op = "flag"
      BY <1>1, <2>1, InitCall DEF At
    <3>2. IsSeq(t) /\ Len(t) = 1
      BY <3>1 DEF WillList, Ordered
    <3>3. \A j \in DOMAIN t : j = 1
      BY <3>1, <3>2, TailFacts
    <3>4. \A k : t[1] # DeviceStep(k)
      BY <3>1 DEF DeviceStep, Step
    <3> QED BY <3>1, <3>3, <3>4 DEF WillList, AllListed
  <2>2. CASE status[p] \in {"up", "exit"}
    BY <2>2 DEF Resolves, Lists
  <2> QED BY <1>3, <2>1, <2>2 DEF PInv, Local, Phase, Down, Initialising, Running, Exiting
<1>5. Lists(p)'
  BY <1>2, <1>3, <1>4, RefsStay DEF Lists
<1>6. events'[p] \subseteq events[p] /\ status'[p] # "down"
  BY <1>1, <1>3
<1> QED BY <1>1, <1>2, <1>5, <1>6, SameSetSameEvents, QuietKeeps

\* Only an initialised process has more to do than to initialise.
LEMMA LaterCall ==
  ASSUME PInv, NEW p \in Process, Resolves(p), NEW op, At(p, op),
         op \notin {"open", "need", "create", "insert", "flag"}
  PROVE  status[p] \in {"up", "exit"} /\ AllListed
<1>1. status[p] # "init"
  BY InitCall
<1>2. status[p] # "down"
  BY HeadOps
<1>3. status[p] \in {"up", "exit"}
  BY <1>1, <1>2 DEF PInv, Local, Phase, Down, Initialising, Running, Exiting
<1> QED BY <1>3 DEF Resolves, Lists

LEMMA NewRunKeeps ==
  ASSUME PInv, FileResolves, NEW p \in Process, Resolves(p), NewRun(p)
  PROVE  Keeps(p)
<1>1. At(p, "run") /\ UNCHANGED session
  BY DEF NewRun
<1>2. CASE Aborts(p)
  BY <1>2, GoneKeeps DEF Aborts
<1>3. CASE /\ Insert(p, Profile, "Runs", Now(p).row)
           /\ run_id' = [run_id EXCEPT ![p] = LastRowid(p)]
           /\ GoOn(p)
           /\ UNCHANGED <<status, events, made, region>>
  <2>1. Connected(p) /\ Functions_ /\ status[p] \in {"up", "exit"} /\ AllListed
    BY <1>1, StepsConnected, LaterCall DEF PInv
  <2> PICK row : row = Now(p).row
    BY Zenon
  <2> PICK s : s = Rows("Runs")
    BY Zenon
  <2>2. /\ Rows("Runs")' = Append(s, row)
        /\ Rows("Devices")' = Rows("Devices") /\ Stored' = Stored
    <3>1. Insert(p, Profile, "Runs", row)
      BY <1>3
    <3>2. Rows("Runs")' = Append(Rows("Runs"), row) /\ \A t : t # "Runs" => Rows(t)' = Rows(t)
      BY <2>1, <3>1, InsertFacts
    <3> QED BY <3>2, StoredIsRows
  <2>3. /\ DOMAIN s = 1 .. Len(s) /\ Len(s) \in Nat
        /\ DOMAIN Append(s, row) = 1 .. Len(s) + 1
        /\ \A i \in DOMAIN s : Append(s, row)[i] = s[i]
        /\ Append(s, row)[Len(s) + 1] = row
    BY AppendFacts DEF PInv, File_
  <2>4. Grows
    BY <2>2, <2>3 DEF Grows
  <2>5. row.by = Self(p)
    <3>1. todo[p] = <<Step("run", "Runs", NewRow(p))>>
      BY <1>1, <2>1, HeadOps
    <3>2. Now(p) = Step("run", "Runs", NewRow(p))
      BY <3>1, Shapes DEF Now
    <3>3. row = NewRow(p)
      BY <3>2 DEF Step
    <3> QED BY <3>3 DEF NewRow
  <2>6. run_id'[p] = Len(s) + 1 /\ Self(p)' = Self(p)
    BY <1>1, <1>3, <2>1, ViewIsContent DEF LastRowid, Rows, Functions_, Self
  <2>7. RunOK(run_id[p], Self(p))'
    <3>1. Len(s) + 1 \in DOMAIN Append(s, row)
      BY <2>3
    <3> QED BY <2>2, <2>3, <2>5, <2>6, <3>1 DEF RunOK
  <2>8. Lists(p)'
    BY <1>3, <2>1, <2>4, ListsUp DEF Resolves
  <2>9. (\A e \in events[p] : Refs(e))'
    BY <1>3, <2>4, RefsStay DEF Resolves
  <2>10. status'[p] # "down"
    BY <1>3, <2>1
  <2>11. Resolves(p)'
    BY <2>7, <2>8, <2>9, <2>10 DEF Resolves
  <2> QED BY <2>2, <2>4, <2>11, FileStays DEF Keeps
<1> QED BY <1>2, <1>3 DEF NewRun

LEMMA StoreKeeps ==
  ASSUME PInv, FileResolves, NEW p \in Process, Resolves(p), acc_profiling_release_event(p)
  PROVE  Keeps(p)
<1>1. At(p, "release") /\ UNCHANGED <<status, session, run_id>>
  BY DEF acc_profiling_release_event
<1>2. PICK e \in events[p] :
        /\ Insert(p, Profile, "Events", EventRow(e))
        /\ events' = [events EXCEPT ![p] = (@ \ {e}) \cup {[e EXCEPT !.out = TRUE]}]
  BY DEF acc_profiling_release_event
<1> PICK f, row : f = [e EXCEPT !.out = TRUE] /\ row = EventRow(e)
  BY Zenon
<1>3. Connected(p) /\ Functions_ /\ status[p] \in {"up", "exit"} /\ AllListed
  BY <1>1, StepsConnected, LaterCall DEF PInv
<1>4. Rows("Events")' = Append(Rows("Events"), row) /\ \A t : t # "Events" => Rows(t)' = Rows(t)
  <2>1. Insert(p, Profile, "Events", row)
    BY <1>2
  <2> QED BY <1>3, <2>1, InsertFacts
<1>5. Rows("Devices")' = Rows("Devices") /\ Rows("Runs")' = Rows("Runs")
  BY <1>4
<1>6. Grows
  BY <1>5 DEF Grows
<1>7. Refs(e) /\ Refs(row)'
  <2>1. Refs(e)
    BY <1>2 DEF Resolves
  <2>2. row.id = e.id /\ row.run = e.run /\ row.device = e.device /\ row.on = e.on
    BY DEF EventRow
  <2>3. Refs(row)
    BY <2>1, <2>2, RefsByFields
  <2> QED BY <1>6, <2>1, <2>3, RefsStay
<1>8. f.id = e.id /\ f.run = e.run /\ f.device = e.device /\ f.on = e.on
  <2>1. HasEvent(p, e)
    BY <1>2 DEF PInv, Local, OwnEvents
  <2>2. f = [id |-> e.id, run |-> e.run, device |-> e.device, on |-> e.on,
             done |-> e.done, out |-> TRUE]
    BY <2>1, EventChanges DEF HasEvent
  <2> QED BY <2>2
<1>9. events'[p] = (events[p] \ {e}) \cup {f}
  BY <1>2, <1>3 DEF Functions_
<1>10. SameEvents(p)
  BY <1>2, <1>8, <1>9 DEF SameEvents
<1>11. Lists(p)' /\ status'[p] # "down"
  BY <1>1, <1>3, <1>6, ListsUp DEF Resolves
<1>12. FileResolves'
  <2> PICK s : s = Stored
    BY Zenon
  <2>1. /\ DOMAIN s = 1 .. Len(s) /\ Len(s) \in Nat
        /\ DOMAIN Append(s, row) = 1 .. Len(s) + 1
        /\ \A i \in DOMAIN s : Append(s, row)[i] = s[i]
        /\ Append(s, row)[Len(s) + 1] = row
    BY AppendFacts DEF PInv, File_
  <2>2. Stored' = Append(s, row)
    BY <1>4, StoredIsRows
  <2>3. \A i \in DOMAIN Append(s, row) : Refs(Append(s, row)[i])'
    <3>1. ASSUME NEW i \in DOMAIN s
          PROVE  Refs(Append(s, row)[i])'
      <4> PICK x : x = s[i]
        BY Zenon
      <4>1. Refs(x)
        BY DEF FileResolves
      <4>2. Refs(x)'
        BY <1>6, <4>1, RefsStay
      <4> QED BY <2>1, <4>2 DEF Refs
    <3>2. Refs(Append(s, row)[Len(s) + 1])'
      BY <1>7, <2>1 DEF Refs
    <3>3. \A i \in DOMAIN Append(s, row) : i \in DOMAIN s \/ i = Len(s) + 1
      BY <2>1
    <3> QED BY <3>1, <3>2, <3>3
  <2>4. (\A i \in DOMAIN Stored : Refs(Stored[i]))'
    BY <2>2, <2>3 DEF Refs
  <2>5. AllListed'
    BY <1>3, <1>6, RefsStay
  <2>6. DevicesRight'
    BY <1>5 DEF FileResolves, DevicesRight, IsSeq
  <2> QED BY <2>4, <2>5, <2>6 DEF FileResolves
<1>13. Resolves(p)'
  BY <1>1, <1>6, <1>10, <1>11, ActorResolves
<1> QED BY <1>6, <1>12, <1>13 DEF Keeps

\* The events are fewer or none, and the file is not written to.
LEMMA ReleasedKeeps ==
  ASSUME PInv, FileResolves, NEW p \in Process, Resolves(p), ClearEvents(p) \/ CloseProfile(p)
  PROVE  Keeps(p)
<1>1. /\ At(p, "release") \/ At(p, "close")
      /\ UNCHANGED <<status, session, run_id>>
      /\ events'[p] \subseteq events[p]
  BY DEF ClearEvents, CloseProfile, PInv, Functions_
<1>2. status[p] \in {"up", "exit"}
  BY <1>1, LaterCall
<1>3. UNCHANGED disk
  <2>1. CASE ClearEvents(p)
    BY <2>1 DEF ClearEvents
  <2>2. CASE CloseProfile(p)
    <3>1. Connected(p)
      BY <2>2, StepsConnected DEF CloseProfile
    <3> QED BY <2>2, <3>1 DEF CloseProfile, acc_sqlite_close, Connected
  <2> QED BY <2>1, <2>2
<1>4. Grows /\ Stored' = Stored /\ Rows("Devices")' = Rows("Devices")
  BY <1>3, FileSame, SameGrows
<1>5. Lists(p)' /\ status'[p] # "down"
  BY <1>1, <1>2, <1>4, ListsUp DEF Resolves
<1> QED BY <1>1, <1>4, <1>5, SameSetSameEvents, QuietKeeps

LEMMA StepsKeep ==
  ASSUME PInv, ProfilingAssumption, FileResolves, NEW p \in Process, Resolves(p), Steps(p)
  PROVE  Keeps(p)
<1>1. CASE Returned(p)
  BY <1>1, GoneKeeps DEF Returned
<1> QED BY <1>1, OpenKeeps, NeedKeeps, CreateKeeps, InsertKeeps, FlagKeeps, NewRunKeeps,
           StoreKeeps, ReleasedKeeps DEF Steps

\* An event refers to the run and the device it was made with.
LEMMA RegisterKeeps ==
  ASSUME PInv, FileResolves, NEW p \in Process, Resolves(p),
         acc_profiling_register_memcpy(p) \/ acc_profiling_register_kernel_launch(p)
  PROVE  Keeps(p)
<1>1. PICK k \in DOMAIN AllDevices, done \in BOOLEAN : Register(p, k, done)
  BY DEF acc_profiling_register_memcpy, acc_profiling_register_kernel_launch
<1> PICK e : e = Registered(p, k, done)
  BY Zenon
<1>2. /\ Free(p) /\ UNCHANGED <<disk, status, session, run_id>>
      /\ events' = [events EXCEPT ![p] = @ \cup {e}]
  BY <1>1 DEF Register, acc_profiling_register_memcpy, acc_profiling_register_kernel_launch
<1>3. Grows /\ Stored' = Stored /\ Rows("Devices")' = Rows("Devices")
  BY <1>2, FileSame, SameGrows
<1>4. Refs(e)
  <2>1. e.id.by = Self(p) /\ e.run = run_id[p] /\ e.device = k - 1 /\ e.on = AllDevices[k]
    BY DEF Registered, RunOf
  <2> QED BY <2>1 DEF Refs, Resolves
<1>5. events'[p] = events[p] \cup {e}
  BY <1>2 DEF PInv, Functions_
<1>6. (\A x \in events[p] : Refs(x))'
  <2>1. \A x \in events[p] \cup {e} : Refs(x)'
    BY <1>3, <1>4, RefsStay DEF Resolves
  <2> QED BY <1>5, <2>1
<1>7. RunOK(run_id[p], Self(p))'
  <2> PICK r, s : r = run_id[p] /\ s = Self(p)
    BY Zenon
  <2>1. RunOK(r, s)'
    BY <1>3, RefsStay DEF Resolves
  <2>2. run_id'[p] = r /\ Self(p)' = s
    BY <1>2 DEF Self
  <2> QED BY <2>1, <2>2 DEF RunOK
<1>8. Lists(p)' /\ status'[p] = "up"
  BY <1>2, <1>3, ListsUp DEF Free, Resolves
<1>9. Resolves(p)'
  BY <1>6, <1>7, <1>8 DEF Resolves
<1> QED BY <1>3, <1>9, FileStays DEF Keeps

\* Other calls, and the end of a kernel, change neither the file nor what events refer to.
LEMMA CallsKeep ==
  ASSUME PInv, FileResolves, NEW p \in Process, Resolves(p), KernelEnds(p) \/ Calls_(p)
  PROVE  Keeps(p)
<1>1. CASE acc_profiling_register_memcpy(p) \/ acc_profiling_register_kernel_launch(p)
  BY <1>1, RegisterKeeps
<1>2. CASE KernelEnds(p)
  <2>1. PICK e \in events[p] :
          /\ events' = [events EXCEPT ![p] = (@ \ {e}) \cup {[e EXCEPT !.done = TRUE]}]
          /\ UNCHANGED <<disk, status, session, run_id, todo>>
    BY <1>2 DEF KernelEnds
  <2> PICK f : f = [e EXCEPT !.done = TRUE]
    BY Zenon
  <2>2. f.id = e.id /\ f.run = e.run /\ f.device = e.device /\ f.on = e.on
    <3>1. HasEvent(p, e)
      BY DEF PInv, Local, OwnEvents
    <3>2. f = [id |-> e.id, run |-> e.run, device |-> e.device, on |-> e.on,
               done |-> TRUE, out |-> e.out]
      BY <3>1, EventChanges DEF HasEvent
    <3> QED BY <3>2
  <2>3. events'[p] = (events[p] \ {e}) \cup {f}
    BY <2>1 DEF PInv, Functions_
  <2>4. SameEvents(p)
    BY <2>2, <2>3 DEF SameEvents
  <2>5. Grows /\ Stored' = Stored /\ Rows("Devices")' = Rows("Devices")
    BY <2>1, FileSame, SameGrows
  <2>6. status[p] \in {"up", "exit"}
    BY DEF PInv, Local, Phase, Down, Initialising, Running, Exiting
  <2>7. Lists(p)' /\ status'[p] # "down"
    BY <2>1, <2>5, <2>6, ListsUp DEF Resolves
  <2> QED BY <2>1, <2>4, <2>5, <2>7, QuietKeeps
<1>3. CASE \/ acc_profiling_set_experiment(p) \/ acc_profiling_new_run(p)
           \/ acc_profiling_release_all_events(p) \/ acc_region_start(p)
           \/ acc_region_stop(p) \/ acc_exit(p)
  <2>1. /\ status[p] = "up" /\ UNCHANGED <<disk, session, run_id, events>>
        /\ status'[p] \in {"up", "exit"}
    BY <1>3 DEF acc_profiling_set_experiment, acc_profiling_new_run, OnlyCalls, Free,
       acc_profiling_release_all_events, acc_region_start, acc_region_stop, acc_exit, Exits,
       PInv, Functions_
  <2>2. Grows /\ Stored' = Stored /\ Rows("Devices")' = Rows("Devices")
    BY <2>1, FileSame, SameGrows
  <2>3. Lists(p)' /\ status'[p] # "down"
    BY <2>1, <2>2, ListsUp DEF Resolves
  <2>4. events'[p] \subseteq events[p]
    BY <2>1
  <2> QED BY <2>1, <2>2, <2>3, <2>4, SameSetSameEvents, QuietKeeps
<1> QED BY <1>1, <1>2, <1>3 DEF Calls_

------------------------------------------------------------------------------

LEMMA InitResolves ==
  ASSUME PInit
  PROVE  RInv
<1>1. Content(Profile) = <<>>
  BY DEF PInit, Content, NoTables
<1>2. \A t : Rows(t) = <<>>
  BY <1>1 DEF Rows, RowsOf
<1>3. DOMAIN Stored = {} /\ DOMAIN Rows("Devices") = {} /\ IsSeq(Rows("Devices"))
  BY <1>2, EmptyIsSeq, StoredIsRows
<1>4. FileResolves
  BY <1>3 DEF FileResolves, DevicesRight
<1>5. \A p \in Process : Resolves(p)
  BY DEF PInit, Resolves, RunOK, Lists
<1> QED BY <1>4, <1>5 DEF RInv

LEMMA NextResolves ==
  ASSUME PInv, RInv, ProfilingAssumption, [PNext]_pvars
  PROVE  RInv'
<1>1. CASE PNext
  <2>1. PICK p \in Process :
          Start(p) \/ Dies(p) \/ KernelEnds(p) \/ Steps(p) \/ Calls_(p)
    BY <1>1 DEF PNext
  <2>2. FileResolves /\ Resolves(p)
    BY DEF RInv
  <2>3. Keeps(p)
    <3>1. CASE Dies(p)
      BY <2>2, <3>1, GoneKeeps DEF Dies
    <3> QED BY <2>1, <2>2, <3>1, StartKeeps, StepsKeep, CallsKeep
  <2>4. IsStep(p)
    <3>1. CASE Steps(p)
      BY <3>1, OpenStep, NeedStep, CreateStep, InsertStep, FlagStep, NewRunStep, StoreStep,
         ClearStep, CloseStep, ReturnStep DEF Steps
    <3>2. CASE Calls_(p)
      BY <3>2, CallsStep, RegisterStep, RegionStep, ExitStep DEF Calls_
    <3> QED BY <2>1, <3>1, <3>2, StartStep, DiesStep, MeasureStep
  <2>5. \A q \in Process \ {p} : Resolves(q)'
    BY <2>3, <2>4, OthersResolve DEF Keeps, IsStep, InOrder, RInv
  <2> QED BY <2>3, <2>5 DEF Keeps, RInv
<1>2. CASE UNCHANGED pvars
  <2>1. UNCHANGED <<disk, conns, status, session, run_id, events, made, region, todo>>
    BY <1>2 DEF pvars, own
  <2>2. Grows /\ Stored' = Stored /\ Rows("Devices")' = Rows("Devices")
    BY <2>1, FileSame, SameGrows
  <2>3. \A q \in Process : Resolves(q)'
    BY <2>1, <2>2, OthersResolve DEF Same, RInv
  <2> QED BY <2>2, <2>3, FileStays DEF RInv
<1> QED BY <1>1, <1>2

LEMMA ResolvesAll ==
  ASSUME RInv
  PROVE  EventsResolve
<1>1. ASSUME NEW i \in DOMAIN Stored
      PROVE  /\ Stored[i].run # NoRun => /\ Stored[i].run \in DOMAIN Rows("Runs")
                                         /\ Rows("Runs")[Stored[i].run].by = Stored[i].id.by
             /\ {r.on : r \in {x \in ToSet(Rows("Devices")) : x.id = Stored[i].device}} = {Stored[i].on}
  <2> PICK e : e = Stored[i]
    BY Zenon
  <2>1. Refs(e)
    BY DEF RInv, FileResolves
  <2>2. PICK k \in DOMAIN AllDevices : e.device = k - 1 /\ e.on = AllDevices[k]
    BY <2>1 DEF Refs
  <2>3. DeviceRow(k) \in ToSet(Rows("Devices"))
    BY DEF RInv, FileResolves, AllListed, Listed, ToSet
  <2>4. DeviceRow(k).id = e.device /\ DeviceRow(k).on = e.on
    BY <2>2 DEF DeviceRow
  <2>5. ASSUME NEW x \in ToSet(Rows("Devices")), x.id = e.device
        PROVE  x.on = e.on
    <3>1. PICK j \in DOMAIN AllDevices : x = DeviceRow(j)
      BY DEF RInv, FileResolves, DevicesRight, ToSet
    <3>2. x.id = j - 1 /\ x.on = AllDevices[j]
      BY <3>1 DEF DeviceRow
    <3>3. j \in Int /\ k \in Int
      <4>1. AllDevices \in Seq(Device)
        BY DevicesNumbered, ProfilingAssumption
      <4> QED BY <4>1
    <3>4. j = k
      BY <2>2, <2>5, <3>2, <3>3
    <3> QED BY <2>2, <3>2, <3>4
  <2>6. {r.on : r \in {x \in ToSet(Rows("Devices")) : x.id = e.device}} = {e.on}
    BY <2>3, <2>4, <2>5
  <2> QED BY <2>1, <2>6 DEF Refs, RunOK
<1> QED BY <1>1 DEF EventsResolve, Rows

\* An event in the file refers to a run of its own session and to its device:
\* the row of Runs and the number of the device it was made with are there,
\* whoever wrote them, from the moment the event is stored.
THEOREM EventsAlwaysResolve == PSpec => []EventsResolve
<1>1. PInit => RInv
  BY InitResolves
<1>2. PInv /\ RInv /\ [PNext]_pvars => RInv'
  BY NextResolves, ProfilingAssumption
<1>3. RInv => EventsResolve
  BY ResolvesAll
<1> QED BY <1>1, <1>2, <1>3, InvHolds, PTL DEF PSpec

=============================================================================
