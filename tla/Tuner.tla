-------------------------------- MODULE Tuner --------------------------------
(***************************************************************************)
(* The tuner (second half of utils/tuning.c) on top of the profiler, for   *)
(* one device: several processes share the profile file, where each run    *)
(* that is generated is a row of Runs, and read the database of versions   *)
(* that the compiler writes.                                               *)
(*                                                                         *)
(* A run is created with executed = 0.  Somebody outside of the library    *)
(* chooses runs (1); an execution marks the ones it finds chosen as begun  *)
(* (2) and, when their profile is stored, as executed (3).                 *)
(***************************************************************************)
EXTENDS Profiling, TuningSpace

CONSTANTS
  GenData,    \* the generation data the program passes
  Compiled,   \* bound: what the compiler writes to Loops, one time after the other
              \* (with the length that loop_length_func of the program gives)
  NumData,    \* per process the data that an execution copies to the device and back
  Spaces      \* bound: generation data that GenerationComplete is about

ASSUME TunerAssumption ==
  /\ Len(GenData.devices) = 1
  /\ NumData \in [Process -> Nat]

ASSUME SpacesAssumption == GenDataOK(GenData) /\ \A s \in Spaces : GenDataOK(s.gen)

VARIABLES
  compiled,   \* history: how often the compiler wrote
  crossed,    \* history: the last time while the library had loaded the file
  cut         \* history: runs whose execution did not come to its end

thistory == <<compiled, crossed, cut>>
tvars == <<pvars, thistory>>

Versions == "versions"
Runs == RowsOf(Content(Profile), "Runs")
LoopsOf(db) ==
  [v \in ToSet(GenData.devices[1].versions) |->
     LET ids == acc_sqlite_select(db, "Loops", [version |-> v])
     IN  [k \in DOMAIN ids |-> RowsOf(db, "Loops")[ids[k]]]]

Mark(op, r) == Step(op, "Runs", [id |-> r])
Executing(p, r) == \E i \in DOMAIN todo[p] : todo[p][i] = Mark("done", r)

TInit ==
  /\ PInit
  /\ compiled = 0
  /\ crossed = FALSE
  /\ cut = {}

------------------------------------------------------------------------------
\* Others: the compiler writes its database, and a run is chosen.

Compilation(k) == With(NoTables, "Loops", Compiled[k])

Compile ==
  /\ compiled < Len(Compiled)
  /\ compiled' = compiled + 1
  /\ disk' = With(disk, Versions, Compilation(compiled + 1))
  /\ crossed' = \E p \in Process : At(p, "save")
  /\ UNCHANGED <<conns, status, session, own, history>>

Executed(db, r, x) == [db EXCEPT !["Runs"][r].executed = x]

Choose(r) ==
  /\ Runs[r].executed = 0
  /\ disk' = [disk EXCEPT ![Profile] = Executed(@, r, 1)]
  /\ UNCHANGED <<conns, status, session, own, history>>

------------------------------------------------------------------------------
\* acc_init_once loads the sources, and the database of versions with them,
\* before it initialises the profiler.

acc_load_ocl_sources == <<Plain("load"), Plain("save")>>
acc_init_once == acc_load_ocl_sources \o <<Plain("open")>>

StartTuner(p) == Starts(p, acc_init_once)

\* A file that is missing is an assertion.
LoadVersions(p) ==
  /\ At(p, "load")
  /\ \/ /\ acc_sqlite_open(p, Versions, TRUE, TRUE)
        /\ GoOn(p)
        /\ UNCHANGED <<status, run_id, events, made, region>>
     \/ Versions \notin DOMAIN disk /\ Aborts(p)
  /\ UNCHANGED <<session, history>>

SaveVersions(p) ==
  /\ At(p, "save")
  /\ acc_sqlite_close(p, Versions)
  /\ GoOn(p)
  /\ UNCHANGED <<status, session, run_id, events, made, region, history>>

\* The program hands over its own connection.
acc_tuning_init(p) ==
  /\ Free(p)
  /\ acc_sqlite_open(p, Versions, TRUE, TRUE)
  /\ UNCHANGED <<status, session, run_id, events, made, region, todo, history>>

Tuning(p) == Free(p) /\ Versions \in DOMAIN conns[p]

acc_tuning_create_experiment(p) == Tuning(p) /\ acc_profiling_set_experiment(p)

\* Not executed yet; acc_profiling_new_run inserts the row.
acc_tuning_add_run(p, params) ==
  Step("run", "Runs", [by |-> Self(p), version |-> params[1].version, gwv |-> params[1].gwv,
                       executed |-> 0])

Adding ==
  {a \in Process \X (1 .. MaxRuns) : a[2] \in DOMAIN todo[a[1]] /\ todo[a[1]][a[2]].op = "run"}

Generate(p) ==
  /\ Tuning(p)
  /\ LET runs == acc_tuning_generate(GenData, LoopsOf(View(p, Versions)))
     IN  /\ Len(runs) \in 0 .. MaxRuns - Len(Runs) - Cardinality(Adding)
         /\ Calls(p, [k \in 1 .. Len(runs) |-> acc_tuning_add_run(p, runs[k])])
  /\ OnlyCalls

------------------------------------------------------------------------------
\* Execution of the chosen runs of a version.

Candidates(v) ==
  acc_sqlite_select(Content(Profile), "Runs", [executed |-> 1, version |-> v])

acc_tuning_execute(p, v) ==
  /\ Tuning(p)
  /\ made[p] + MaxRuns + 2 * NumData[p] <= MaxEvents[p]
  /\ Calls(p, <<Step("count", "Runs", [version |-> v])>>)
  /\ OnlyCalls

\* acc_sqlite_read_table counts the entries, and reads them with a second
\* statement; without a table Runs an assertion fails.
CountRuns(p) ==
  /\ At(p, "count")
  /\ LET v == Now(p).row.version
     IN  \/ /\ acc_sqlite_table_exists(p, Profile, "Runs")
            /\ todo' = [todo EXCEPT ![p] =
                 <<Step("read", "Runs", [version |-> v, count |-> Len(Candidates(v))])>>]
            /\ UNCHANGED <<disk, conns, status, run_id, events, made, region>>
         \/ ~acc_sqlite_table_exists(p, Profile, "Runs") /\ Aborts(p)
  /\ UNCHANGED <<session, history>>

\* Mutant: the events are kept for the end.
ExecKernelOnly == <<Plain("start"), Plain("launch"), Plain("stop")>>

acc_tuner_exec_kernel ==
  <<Plain("start"), Plain("launch"), Plain("stop"), Plain("release")>>

\* Mutant: the mark is set in the wrong order.
BeginsAtTheEnd(r) == acc_tuner_exec_kernel \o <<Mark("done", r), Mark("begin", r)>>

ExecuteRun(r) == <<Mark("begin", r)>> \o acc_tuner_exec_kernel \o <<Mark("done", r)>>

Transfers(p) == [i \in 1 .. NumData[p] |-> Plain("transfer")]

\* The memory for as many entries as were counted is what is executed.  Where
\* fewer are read the others have any content; where more are read they are
\* written behind it, and the program may go on.
ReadRuns(p) ==
  /\ At(p, "read")
  /\ LET found == Candidates(Now(p).row.version)
         n == Now(p).row.count
     IN  \E garbage \in [Len(found) + 1 .. n -> 0 .. MaxRuns] :
           LET entry(i) == IF i <= Len(found) THEN RunIdRead(1, found[i], <<>>) ELSE garbage[i]
           IN  todo' = [todo EXCEPT ![p] =
                 Transfers(p) \o FlattenSeq([i \in 1 .. n |-> ExecuteRun(entry(i))]) \o Transfers(p)]
  /\ UNCHANGED <<disk, conns, status, session, run_id, events, made, region, history>>

\* UPDATE Runs SET executed = x WHERE rowid = r
Update(p, r, x) ==
  IF r \in DOMAIN Runs
    THEN Written(p, Profile, Executed(View(p, Profile), r, x))
    ELSE UNCHANGED <<disk, conns>>

BeginRun(p) ==
  /\ At(p, "begin")
  /\ run_id' = [run_id EXCEPT ![p] = Now(p).row.id]
  /\ Update(p, Now(p).row.id, 2)
  /\ GoOn(p)
  /\ UNCHANGED <<status, session, events, made, region, history>>

StartRegion(p) ==
  /\ At(p, "start")
  /\ region' = [region EXCEPT ![p] = TRUE]
  /\ GoOn(p)
  /\ UNCHANGED <<disk, conns, status, session, run_id, events, made, history>>

Launch(p) ==
  /\ At(p, "launch")
  /\ Register(p, 1, FALSE)
  /\ GoOn(p)
  /\ UNCHANGED <<disk, conns, status, session, run_id, region, history>>

StopRegion(p) ==
  /\ At(p, "stop")
  /\ Finished(p)
  /\ region' = [region EXCEPT ![p] = FALSE]
  /\ GoOn(p)
  /\ UNCHANGED <<disk, conns, status, session, run_id, events, made, history>>

EndRun(p) ==
  /\ At(p, "done")
  /\ Update(p, Now(p).row.id, 3)
  /\ GoOn(p)
  /\ UNCHANGED <<status, session, run_id, events, made, region, history>>

\* Data that is present already is not copied.
Transfer(p) ==
  /\ At(p, "transfer")
  /\ Register(p, 1, TRUE) \/ UNCHANGED <<events, made>>
  /\ GoOn(p)
  /\ UNCHANGED <<disk, conns, status, session, run_id, region, history>>

\* A transfer or the setting of an argument fails, and calls exit.
ExitsWithin(p) ==
  /\ At(p, "transfer") \/ At(p, "launch")
  /\ Exits(p)

TunerSteps(p) ==
  \/ LoadVersions(p) \/ SaveVersions(p) \/ CountRuns(p) \/ ReadRuns(p) \/ BeginRun(p)
  \/ StartRegion(p) \/ Launch(p) \/ StopRegion(p) \/ EndRun(p) \/ Transfer(p)

TunerCalls(p) ==
  \/ acc_tuning_init(p) \/ acc_tuning_create_experiment(p) \/ Generate(p)
  \/ \E v \in ToSet(GenData.devices[1].versions) : acc_tuning_execute(p, v)
  \/ acc_profiling_release_all_events(p) \/ acc_exit(p)

OfProcess(p) ==
  \/ StartTuner(p) \/ Dies(p) \/ ExitsWithin(p) \/ KernelEnds(p)
  \/ Steps(p) \/ TunerSteps(p) \/ TunerCalls(p)

\* Runs whose execution ends with the process.
CutBy(p) ==
  IF status'[p] = status[p] THEN {}
  ELSE {todo[p][i].row.id : i \in {j \in DOMAIN todo[p] : todo[p][j].op = "done"}}

TNext ==
  \/ /\ \E p \in Process : OfProcess(p) /\ cut' = cut \cup CutBy(p)
     /\ UNCHANGED <<compiled, crossed>>
  \/ Compile /\ UNCHANGED cut
  \/ (\E r \in DOMAIN Runs : Choose(r)) /\ UNCHANGED thistory

TSpec == TInit /\ [][TNext]_tvars

------------------------------------------------------------------------------
\* Properties.

\* A run that is marked as executed has its kernel's event in the file, with
\* times, whoever executed it and whatever was interrupted (acc_tuning_execute).
DoneIsProfiled ==
  \A r \in DOMAIN Runs :
    Runs[r].executed = 3 => \E i \in DOMAIN Stored : Stored[i].run = r /\ Stored[i].measured

\* A run that was begun is being executed, or its execution was interrupted.
StuckOnlyByCrash ==
  \A r \in DOMAIN Runs :
    Runs[r].executed = 2 => r \in cut \/ \E p \in Process : Executing(p, r)

\* The choices of versions and of portions are each listed once, in memory of
\* the size computed for them, and so are the valid runs of one device; with
\* more of them acc_tuning_generate mixes up the triples of the devices.
EachOnce(list, S) == ToSet(list) = S /\ Len(list) = Cardinality(S)

VersionChoices(g) ==
  {c \in [Devices(g) -> UNION {ToSet(g.devices[d].versions) : d \in Devices(g)}] :
     \A d \in Devices(g) : c[d] \in ToSet(g.devices[d].versions)}

Total(c) ==
  LET sum[k \in 0 .. Len(c)] == IF k = 0 THEN 0 ELSE sum[k - 1] + c[k]
  IN  sum[Len(c)]

PortionChoices(g) == {c \in [Devices(g) -> 0 .. g.portions] : Total(c) = g.portions}

ValidRuns(g, loops) ==
  LET dev == g.devices[1]
      all == [version : ToSet(dev.versions), portion : {g.portions},
              gwv : {<<x, y, z>> : x \in ToSet(dev.gang), y \in ToSet(dev.worker), z \in ToSet(dev.vector)}]
  IN  {<<r>> : r \in {x \in all : acc_tuner_is_valid_gwv_combinaison(loops[x.version], x.gwv)}}

ChoicesListed(g) ==
  /\ CountsAgree(g)
  /\ EachOnce(acc_tuning_gen_all_version_combinaisons(g), VersionChoices(g))
  /\ EachOnce(acc_tuning_gen_all_portion_combinaisons(g.portions, Num(g)), PortionChoices(g))

RunsListed(g, loops) == EachOnce(acc_tuning_generate(g, loops), ValidRuns(g, loops))

SpacesListed ==
  \A s \in Spaces : ChoicesListed(s.gen) /\ (Num(s.gen) = 1 => RunsListed(s.gen, s.loops))

GenerationComplete == SpacesListed /\ RunsListed(GenData, LoopsOf(Content(Versions)))

\* Every process copies the database of versions back when it closes it.  It
\* stays the last compilation, unless the compiler wrote that one while a
\* process had an earlier one loaded; the save of such a process loses it, but
\* leaves a whole compilation, and the next one is kept again.
VersionsKept ==
  compiled > 0 =>
    \E k \in 1 .. compiled :
      /\ disk[Versions] = Compilation(k)
      /\ ~crossed => k = compiled
==============================================================================
