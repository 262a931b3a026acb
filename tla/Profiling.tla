------------------------------ MODULE Profiling ------------------------------
(***************************************************************************)
(* The profiler (utils/profiling.c) of several processes that share one    *)
(* profile file.                                                           *)
(*                                                                         *)
(* Each transfer and each kernel leaves an event in a map of the process.  *)
(* The events go to the file when they are released, which the library     *)
(* does when the program exits (acc_exit is a destructor) and a program    *)
(* may do earlier.  A call of the profiler is a sequence of steps, most of *)
(* which are one SQL statement each: "todo" holds those that are left, and *)
(* other processes act between them.  A statement that fails (the file is  *)
(* locked, the disk is full) ends the process by an assertion.             *)
(***************************************************************************)
EXTENDS Registry, SequencesExt

CONSTANTS
  NumDevices,   \* per platform of the machine its number of devices
  MaxSessions,  \* bound: how often a process is started
  MaxEvents,    \* bound: per process the events of a session
  MaxRuns       \* bound: rows of Runs

Profile == "profile"

ASSUME ProfilingAssumption ==
  /\ NumDevices \in Seq(Nat \ {0})
  /\ MaxSessions \in Nat /\ MaxRuns \in Nat
  /\ MaxEvents \in [Process -> Nat]
  /\ Profile \in File

VARIABLES
  status,    \* "down", "init" (acc_init_once), "up", "exit" (acc_exit)
  session,   \* how often the process was started
  run_id,    \* acc_profiler->run_id
  events,    \* acc_profiler->events
  made,      \* history: events of this session
  region,    \* between acc_region_start and acc_region_stop
  todo,      \* steps left of the call under way
  closed,    \* history: sessions that came to the end of acc_exit
  failed     \* history: sessions that called exit inside a region

own == <<run_id, events, made, region, todo>>
history == <<closed, failed>>
pvars == <<disk, conns, status, session, own, history>>

NoRun == -1
Self(p) == <<p, session[p]>>
Session == Process \X (1 .. MaxSessions)
Event == UNION {[by : {s}, n : 1 .. MaxEvents[s[1]]] : s \in Session}

\* A step of a call: a statement on a table, or one without.
Step(op, table, row) == [op |-> op, table |-> table, row |-> row]
Nothing == [id |-> 0]
Plain(op) == Step(op, "none", Nothing)
Creates(table) == <<Step("need", table, Nothing), Step("create", table, Nothing)>>

------------------------------------------------------------------------------
\* The machine.  Devices are numbered over all platforms, here by the profiler's
\* own queries and in AllDevices by acc_collect_ocl_devices, which passes over a
\* platform whose query fails: that both find the same devices is assumed.

Device == [platform : DOMAIN NumDevices, n : Nat]

\* The counter after the devices of each platform.
Counted ==
  LET count[i \in 0 .. Len(NumDevices)] == IF i = 0 THEN 0 ELSE count[i - 1] + NumDevices[i]
  IN  count

GlobalDeviceId(d) == Counted[d.platform - 1] + d.n

DevicesOf(i) == [n \in 1 .. NumDevices[i] |-> [platform |-> i, n |-> n - 1]]
AllDevices == FlattenSeq([i \in DOMAIN NumDevices |-> DevicesOf(i)])

acc_profiling_device_init(d) ==
  Step("insert", "Devices", [id |-> GlobalDeviceId(d), on |-> d])

PlatformSteps(i) ==
  <<Step("insert", "Platforms", [id |-> i - 1])>>
    \o [n \in 1 .. NumDevices[i] |-> acc_profiling_device_init(DevicesOf(i)[n])]

acc_profiling_platform_init == FlattenSeq([i \in DOMAIN NumDevices |-> PlatformSteps(i)])

\* What follows the opening of the file.
acc_profiling_init_db ==
  Creates("Platforms") \o Creates("Devices") \o Creates("Events")
    \o acc_profiling_platform_init

\* acc_init_once sets the flag of the profiler last.
acc_profiling_init == acc_profiling_init_db \o <<Plain("flag")>>

------------------------------------------------------------------------------

PInit ==
  /\ disk = <<>>
  /\ conns = NoConns
  /\ status = [p \in Process |-> "down"]
  /\ session = [p \in Process |-> 0]
  /\ run_id = [p \in Process |-> NoRun]
  /\ events = [p \in Process |-> {}]
  /\ made = [p \in Process |-> 0]
  /\ region = [p \in Process |-> FALSE]
  /\ todo = [p \in Process |-> <<>>]
  /\ closed = {}
  /\ failed = {}

\* The process is gone and with it all it held.
Ends(p) ==
  /\ status' = [status EXCEPT ![p] = "down"]
  /\ run_id' = [run_id EXCEPT ![p] = NoRun]
  /\ events' = [events EXCEPT ![p] = {}]
  /\ made' = [made EXCEPT ![p] = 0]
  /\ region' = [region EXCEPT ![p] = FALSE]
  /\ todo' = [todo EXCEPT ![p] = <<>>]

\* The program begins and calls acc_init_once.
Starts(p, steps) ==
  /\ status[p] = "down" /\ session[p] < MaxSessions
  /\ status' = [status EXCEPT ![p] = "init"]
  /\ session' = [session EXCEPT ![p] = @ + 1]
  /\ todo' = [todo EXCEPT ![p] = steps]
  /\ UNCHANGED <<disk, conns, run_id, events, made, region, history>>

Start(p) == Starts(p, <<Plain("open")>>)

\* A kill, an assertion (on the status of a statement, on the number of
\* devices of a platform, on a launch), or an exit before the flag is set.
Dies(p) ==
  /\ status[p] # "down"
  /\ Ends(p)
  /\ Dropped(p)
  /\ UNCHANGED <<disk, session, history>>

------------------------------------------------------------------------------
\* The steps of calls.

At(p, op) == todo[p] # <<>> /\ Head(todo[p]).op = op
Now(p) == Head(todo[p])
GoOn(p) == todo' = [todo EXCEPT ![p] = Tail(@)]
Aborts(p) == Ends(p) /\ Dropped(p) /\ UNCHANGED disk

OpenProfile(p) ==
  /\ At(p, "open")
  /\ acc_sqlite_open(p, Profile, FALSE, FALSE)
  /\ todo' = [todo EXCEPT ![p] = acc_profiling_init]
  /\ UNCHANGED <<status, session, run_id, events, made, region, history>>

\* acc_sqlite_create_table asks for the table and then creates it.
NeedTable(p) ==
  /\ At(p, "need")
  /\ todo' = [todo EXCEPT ![p] =
       IF acc_sqlite_table_exists(p, Profile, Now(p).table) THEN Tail(Tail(@)) ELSE Tail(@)]
  /\ UNCHANGED <<disk, conns, status, session, run_id, events, made, region, history>>

\* Another process may have created it in between.
acc_sqlite_create_table(p) ==
  /\ At(p, "create")
  /\ \/ /\ CreateTable(p, Profile, Now(p).table)
        /\ GoOn(p)
        /\ UNCHANGED <<status, run_id, events, made, region>>
     \/ acc_sqlite_table_exists(p, Profile, Now(p).table) /\ Aborts(p)
  /\ UNCHANGED <<session, history>>

InsertRow(p) ==
  /\ At(p, "insert") /\ Now(p).table \in {"Platforms", "Devices"}
  /\ Insert(p, Profile, Now(p).table, Now(p).row)
  /\ GoOn(p)
  /\ UNCHANGED <<status, session, run_id, events, made, region, history>>

SetFlag(p) ==
  /\ At(p, "flag")
  /\ status' = [status EXCEPT ![p] = "up"]
  /\ todo' = [todo EXCEPT ![p] = <<>>]
  /\ UNCHANGED <<disk, conns, session, run_id, events, made, region, history>>

\* Mutant: one row too far.
NextRowid(p) == Len(RowsOf(View(p, Profile), "Runs")) + 2

\* sqlite3_last_insert_rowid, of the row that is being inserted.
LastRowid(p) == Len(RowsOf(View(p, Profile), "Runs")) + 1

\* The run's row; without the table Runs the assertion on the status fails.
NewRun(p) ==
  /\ At(p, "run")
  /\ \/ /\ Insert(p, Profile, "Runs", Now(p).row)
        /\ run_id' = [run_id EXCEPT ![p] = LastRowid(p)]
        /\ GoOn(p)
        /\ UNCHANGED <<status, events, made, region>>
     \/ ~acc_sqlite_table_exists(p, Profile, "Runs") /\ Aborts(p)
  /\ UNCHANGED <<session, history>>

EventRow(e) ==
  [id |-> e.id, run |-> e.run, device |-> e.device, on |-> e.on, measured |-> e.done]

\* One turn of acc_profiling_release_all_events, in the order of the handles,
\* which is any.  The times of an event that has not ended are not available,
\* and zeros are stored.  (acc_sqlite_save is for databases in memory.)
acc_profiling_release_event(p) ==
  /\ At(p, "release")
  /\ \E e \in events[p] :
       /\ ~e.out
       /\ Insert(p, Profile, "Events", EventRow(e))
       /\ events' = [events EXCEPT ![p] = (@ \ {e}) \cup {[e EXCEPT !.out = TRUE]}]
  /\ UNCHANGED <<status, session, run_id, made, region, todo, history>>

\* Mutant: the loop ends without map_clear.
Released(p) ==
  /\ At(p, "release")
  /\ \A e \in events[p] : e.out
  /\ events' = [events EXCEPT ![p] = {[e EXCEPT !.out = FALSE] : e \in @}]
  /\ GoOn(p)
  /\ UNCHANGED <<disk, conns, status, session, run_id, made, region, history>>

\* The end of the loop: map_clear.
ClearEvents(p) ==
  /\ At(p, "release")
  /\ \A e \in events[p] : e.out
  /\ events' = [events EXCEPT ![p] = {}]
  /\ GoOn(p)
  /\ UNCHANGED <<disk, conns, status, session, run_id, made, region, history>>

CloseProfile(p) ==
  /\ status[p] = "exit" /\ At(p, "close")
  /\ acc_sqlite_close(p, Profile)
  /\ GoOn(p)
  /\ UNCHANGED <<status, session, run_id, events, made, region, history>>

\* acc_exit returns, and the process is gone.
Returned(p) ==
  /\ status[p] = "exit" /\ todo[p] = <<>>
  /\ Ends(p)
  /\ Dropped(p)
  /\ closed' = closed \cup {Self(p)}
  /\ UNCHANGED <<disk, session, failed>>

Steps(p) ==
  \/ OpenProfile(p) \/ NeedTable(p) \/ acc_sqlite_create_table(p) \/ InsertRow(p)
  \/ SetFlag(p) \/ NewRun(p)
  \/ acc_profiling_release_event(p) \/ ClearEvents(p) \/ CloseProfile(p)
  \/ Returned(p)

------------------------------------------------------------------------------
\* What the program calls, and the other parts of the library for it.

Free(p) == status[p] = "up" /\ todo[p] = <<>>
Calls(p, steps) == todo' = [todo EXCEPT ![p] = steps]
OnlyCalls == UNCHANGED <<disk, conns, status, session, run_id, events, made, region, history>>

acc_profiling_set_experiment(p) ==
  /\ Free(p)
  /\ Calls(p, Creates("Runs"))
  /\ OnlyCalls

NewRow(p) == [by |-> Self(p)]

acc_profiling_new_run(p) ==
  /\ Free(p)
  /\ Len(RowsOf(View(p, Profile), "Runs")) < MaxRuns
  /\ Calls(p, <<Step("run", "Runs", NewRow(p))>>)
  /\ OnlyCalls

Release == <<Plain("release")>>

acc_profiling_release_all_events(p) ==
  /\ Free(p) /\ ~region[p]
  /\ Calls(p, Release)
  /\ OnlyCalls

\* Mutant: the run is the last one of the table.
LatestRun(p) == Len(RowsOf(View(p, Profile), "Runs"))

RunOf(p) == run_id[p]

\* The k-th device is device_idx k - 1.
Registered(p, k, done) ==
  [id |-> [by |-> Self(p), n |-> made[p] + 1], run |-> RunOf(p),
   device |-> k - 1, on |-> AllDevices[k], done |-> done, out |-> FALSE]

Register(p, k, done) ==
  /\ made[p] < MaxEvents[p]
  /\ events' = [events EXCEPT ![p] = @ \cup {Registered(p, k, done)}]
  /\ made' = [made EXCEPT ![p] = @ + 1]

\* acc_memcpy_to_device_ and acc_memcpy_from_device_ block until the end.
acc_profiling_register_memcpy(p) ==
  /\ Free(p) /\ ~region[p]
  /\ \E k \in DOMAIN AllDevices : Register(p, k, TRUE)
  /\ UNCHANGED <<disk, conns, status, session, run_id, region, todo, history>>

acc_region_start(p) ==
  /\ Free(p) /\ ~region[p]
  /\ region' = [region EXCEPT ![p] = TRUE]
  /\ UNCHANGED <<disk, conns, status, session, run_id, events, made, todo, history>>

acc_profiling_register_kernel_launch(p) ==
  /\ Free(p) /\ region[p]
  /\ \E k \in DOMAIN AllDevices : Register(p, k, FALSE)
  /\ UNCHANGED <<disk, conns, status, session, run_id, region, todo, history>>

KernelEnds(p) ==
  /\ \E e \in events[p] :
       /\ ~e.done /\ ~e.out
       /\ events' = [events EXCEPT ![p] = (@ \ {e}) \cup {[e EXCEPT !.done = TRUE]}]
  /\ UNCHANGED <<disk, conns, status, session, run_id, made, region, todo, history>>

\* Mutant: it does not wait.
StopsAtOnce(p) == TRUE

\* clFinish returns when the kernels have ended.
Finished(p) == \A e \in events[p] : e.done

acc_region_stop(p) ==
  /\ Free(p) /\ region[p]
  /\ Finished(p)
  /\ region' = [region EXCEPT ![p] = FALSE]
  /\ UNCHANGED <<disk, conns, status, session, run_id, events, made, todo, history>>

acc_profiling_exit == <<Plain("release"), Plain("close")>>

\* acc_exit, a destructor.
Exits(p) ==
  /\ status' = [status EXCEPT ![p] = "exit"]
  /\ Calls(p, acc_profiling_exit)
  /\ failed' = IF region[p] THEN failed \cup {Self(p)} ELSE failed
  /\ UNCHANGED <<disk, conns, session, run_id, events, made, region, closed>>

\* The program returns, or a call of the library exits; in a region it does so
\* where an argument cannot be set.
acc_exit(p) == Free(p) /\ Exits(p)

Calls_(p) ==
  \/ acc_profiling_set_experiment(p) \/ acc_profiling_new_run(p)
  \/ acc_profiling_release_all_events(p) \/ acc_profiling_register_memcpy(p)
  \/ acc_region_start(p) \/ acc_profiling_register_kernel_launch(p)
  \/ acc_region_stop(p) \/ acc_exit(p)

PNext ==
  \E p \in Process :
    Start(p) \/ Dies(p) \/ KernelEnds(p) \/ Steps(p) \/ Calls_(p)

PSpec == PInit /\ [][PNext]_pvars

------------------------------------------------------------------------------
\* Properties.

Stored == RowsOf(Content(Profile), "Events")

\* The types of the variables; the run a process has set is in the file.
PTypeOK ==
  /\ DOMAIN disk \subseteq File
  /\ status \in [Process -> {"down", "init", "up", "exit"}]
  /\ session \in [Process -> 0 .. MaxSessions]
  /\ \A p \in Process :
       /\ run_id[p] = NoRun \/ run_id[p] \in DOMAIN RowsOf(Content(Profile), "Runs")
       /\ {e.id : e \in events[p]} \subseteq Event
       /\ made[p] \in 0 .. MaxEvents[p]
  /\ closed \subseteq Session /\ failed \subseteq Session

\* Each event is stored once, in the session that made it, and a session that
\* ends by acc_exit has stored all of them, whatever other processes do with
\* the file and wherever they are interrupted.
Log ==
  INSTANCE EventLog WITH
    pending <- UNION {{e.id : e \in {x \in events[p] : ~x.out}} : p \in Process},
    log <- [i \in DOMAIN Stored |-> Stored[i].id],
    closed <- closed

ImplementsEventLog == Log!ESpec

\* What a row of Events refers to is there: its run was begun by the session
\* that made the event, and its device is listed under its number.
EventsResolve ==
  \A i \in DOMAIN Stored :
    LET e == Stored[i]
        runs == RowsOf(Content(Profile), "Runs")
        listed == ToSet(RowsOf(Content(Profile), "Devices"))
    IN  /\ e.run # NoRun => e.run \in DOMAIN runs /\ runs[e.run].by = e.id.by
        /\ {r.on : r \in {x \in listed : x.id = e.device}} = {e.on}

\* An event without times was made by a session that exited in a region.
MeasuredUnlessFailed ==
  \A i \in DOMAIN Stored : Stored[i].measured \/ Stored[i].id.by \in failed

==============================================================================
