# TLA+ models of libOpenACC

libOpenACC is the runtime library of the RoseACC translator: a C library that
translated OpenACC programs call, and that runs them on OpenCL devices.  This
directory models the parts of it whose correctness depends on long sequences of
calls, checks them with TLC on small instances, and proves the main results with
TLAPS for instances of any size.

Run a model with `tlc -workers 2 -config Bimap.cfg MCBimap` and check proofs with
`tlapm BimapProofs.tla`.  `PROJECT.json` maps each definition to its source lines.

## 1. The system

The library is single threaded and keeps no lock: a call runs to its end before
the next one of its process starts.  Concurrency exists on the devices (queues are
created out of order); between the owners of data, as nested data environments,
several devices of one region, and the program itself hold pieces of the same tables,
and calls of one of them find what the others left; and between processes that open
the same SQLite files.  Only these files persist: the profile, to which the
profiler writes devices, runs and events, and the database of versions, which the
compiler writes and the library loads.

| component | source (`src/lib`) | state | operations |
|---|---|---|---|
| two-key map | `utils/containers/bimap.c` | array of entries, a map per key to slots | insert, remove by either key, look up |
| associative container | `utils/containers/associative.c`, `map.c`, `set.c` | sorted array, count, capacity | insert, remove, look up, clear |
| present table, data environments | `internal/mem-manager.c`, `internal/data-env.c`, `private/data-env.c`, `private/memory.c`, `public/memory.c` | a two-key map per device; a stack of sets of host pointers per device; OpenCL buffers | malloc, free, map, unmap, copyin, create, present, copyout, delete, push, pop, and the same over the devices of a region |
| device contexts | `public/runtime.c`, `public/device.c`, `private/runtime.c` | context and queue per device, current device | init, shutdown, set device |
| initialisation flags | `private/init.c`, `internal/init.c` | flags, defaults from the environment | acc_init_once and its parts |
| platforms and device map | `internal/opencl-init.c`, `public/arch.c` | platform and device arrays, ranges per device type | collection, lookup by type |
| regions | `private/region.c`, `internal/region.c` | region contexts, built programs per device | build, start, stop |
| kernels | `private/kernel.c` | argument vectors | set arguments, launch per device |
| versions and tiling | `internal/kernel.c` | versions, loops, tiles of a kernel | choose a version, compute tiles |
| distributed data | `private/memory.c` (first part) | portions of a region's devices | start and size of a share |
| profiling | `utils/profiling.c` | connection, current run, map of events | initialise, begin a run, register and release events, exit |
| SQLite registry | `utils/sqlite/*.c` | map of open connections, tables of the files | open (on the file or a copy in memory), close, create, insert, count, read |
| auto-tuning | `utils/tuning.c` | connections, generated runs, the mark of each run | generate runs, execute the chosen ones |
| timer | `utils/timer.c` | two times | difference |
| io, debug, async, device code, tool | `utils/io.c`, `private/debug.c`, `public/async.c`, `opencl/libopenacc.cl`, `src/openacc.c` | | |

**Interactions.**  A data clause of a translated region becomes a call on the region
(`acc_copyin_regions_` and its relatives in `private/memory.c`).  It initialises the
region's devices, splits the data with `acc_distributed_data`, and for each device
allocates an OpenCL buffer, transfers, and calls `acc_map_data_`, which enters the
mapping into the present table of the device *and* the host pointer into the set of
the innermost environment.  `acc_pop_data_environment` walks these sets and frees
every buffer they name.  Host pointer to device pointer goes through the two-key
map, whose key maps and whose neighbours (sets, versions, events) are all
associative containers.  Transfers and launches register an OpenCL event with the
profiler, which writes it to the profile when it is released: at exit, or when the
program or the tuner asks for it.  The tuner generates runs from the versions of a
kernel, stores them as rows of the profile, and executes those that somebody marks.

**What is hard.**  (1) One removal from the two-key map renumbers two maps and
moves an array, in three passes.  (2) The binary search has three branches, wraps
`start - 1` to `(size_t)-1`, and its answer is used as an insertion point.  (3) The
present tables are shared by all environments while ownership is recorded in the
sets beside them; `acc_unmap_data_` updates only the innermost set.  (4) A buffer
handle that was released can be handed out again by the driver; contexts go and
their buffers stay mapped.  (5) The devices of a region are visited one after the
other and any of them can stop the call.  (6) Out-of-order queues rely on
`clFinish` at a few places.  (7) Integer arithmetic of shares, tiles and times.
(8) A call of the profiler or tuner is a sequence of SQL statements without a
transaction: processes interleave between them, what was read may be stale, and a
kill or a failed assertion leaves the files in the middle.

**What makes each component correct.**  The two-key map is a set of entries with
unique keys in which each key finds its own entry.  The associative container is a
finite map.  The data environments are nested scopes: an entry belongs to one
environment, is usable while it is open, and goes with it; nothing leaks.  A share
of every device together with the others covers the data exactly; tiles cover the
iterations exactly once; a program is built once for each context before a launch.
An event is in the profile once, with its times, its run and its device, unless its
session was interrupted; the mark of a run says whether its profile is there.

The hazards, each at its line and with the property that covers it, are listed in
`PROJECT.json`.

## 2. Modules

```
PairTable  <---refines---  Bimap        <- MCBimap          <- BimapProofs
KeyedStore <---refines---  Associative  <- MCAssociative, AssociativeProofs
ScopedStore<---refines---  DataEnv      <- MCDataEnv        <- DataEnvProofs
Offload    <---refines---  RegionExec (extends DataEnv) <- MCRegionExec   <- DataEnvProofs
                           KernelVersion (extends DistData) <- MCKernelVersion <- KernelVersionProofs
                           RuntimeInit  <- MCRuntimeInit    <- RuntimeInitProofs
EventLog   <---refines---  Profiling (extends Registry) <- MCProfiling    <- ProfilingProofs
                           Tuner (extends Profiling, TuningSpace) <- MCTuner <- TunerProofs
                           Timer        <- Numbers (theorems about Timer, lemmas on numbers)
```

The layers meet at their abstract specifications: `Bimap` uses its key maps as the
partial functions that `Associative` is shown to implement, and `DataEnv` uses the
present table of a device as the function that `Bimap` is shown to implement
(an insertion asserts that both keys are new and that there is room).

### Bimap, PairTable (`utils/containers/bimap.c`)

`key1Map`, `key2Map`, `datas`, `count` are the fields of `acc_bimap_t_`; `Size` is the
size given to `bimap_alloc`, and slots that were never written hold `Garbage`.
`bimap_insert`, `bimap_remove_by_key_1` and `bimap_remove_by_key_2` are actions, with
the asserts as guards whose failure sets `status` to `"abort"`.  `bimap_remove` is a
single action made of its passes: `Without`, `ShiftDown` on each key map, and
`MoveDown`, the `memmove` of line 141.  That move takes `count` entries (`count` has
been decremented) from `idx + 1` on, whatever `idx` is: when `idx + count` passes the
end, it reads and writes behind the array.  `overrun` records that this happened and
the program may then continue or crash.  `peak` is a history variable.
`PairTable` is a set of entries to which one with new keys can be added, and from
which the entry of a key can be removed.

### Associative, KeyedStore (`utils/containers/associative.c`)

`associative_lookup_` is a tail recursion; each call of it is a step
(`associative_lookup_`: `Found`, `SearchLeft` or `SearchRight`) on the variables `start`
and `n`.  `Call` is the beginning of `associative_lookup`, `_insert` or `_remove`, and
`Act` what they do with the index.  `idx = -1` is `(size_t)-1`.  `InsertBehind` has the
three branches of `associative_insert_`, among them the one for `idx == count`, which
writes no key in release builds; `FindsFloor` shows that the branch is never taken.
`map.c` and `set.c` forward to these functions.  `KeyedStore` is a finite map.

### DataEnv, ScopedStore (the memory calls)

One module, since the calls of these files change one state.  `present[d]` is the
table of device `d`; `envs` is the stack of data environments as a sequence, root
first, each a function from devices to sets of host pointers; `buffers` are the live
OpenCL buffers with the device of their context, and `old` once this context was
released; `devices_data[d]` is the entry of the device array: `"null"`, `"ready"`, or
`"freed"`, the dangling pointer that `acc_init__` leaves when `clCreateContext` fails;
`call` is a call on a region under way, visited device by device (`NextDevice`); `held`
is a history variable: the buffers the program itself got from `acc_malloc`.
Each function of `private/memory.c` is an operator of the same name, and the public
functions are actions.  A step can end the program (`status`): by an assertion, by
`exit` (an OpenCL call answers with an error) or by a crash (a pointer to freed
memory is used).  Whether `clCreateBuffer`, `clCreateContext` and the transfers
succeed is a choice of the model; the handle of a new buffer is any one that is not
in use, also one that was released.

With `Scoped = TRUE` the module describes the programs that follow the rules under
"Scoped programs" (`MayDelete`, `MayUnmap`, `MayMap`, `MayFree`, `MayPop`,
`MayShutdown`): data are removed in the environment that brought them or by closing
it, buffers of `acc_malloc` are unmapped before the environment is closed, a device is
shut down without data.  The translator's structured `data` constructs obey these rules;
the API does not enforce them, so `Scoped = FALSE` leaves them out and what still
holds then is checked too.  `ScopedStore` is a stack of scopes that own their entries.

Left out here: the bytes in the buffers, device types and ranges of indices, and how
`acc_distributed_data` divides the data (the constant `Layouts` gives the shares).

### RegionExec, Offload (`private/region.c`, `internal/region.c`, launch of `private/kernel.c`)

It composes the execution of regions with all the calls of `DataEnv` (`DataCalls`).
`acc_region_execute` begins a call that goes through the four loops over the region's
devices: `acc_region_init` (build the program), `acc_region_start` (wait), `acc_enqueue_kernel`
(launch), `acc_region_stop` (wait).  `exec` holds the region, the loop and the devices it
has yet to visit; `Advance` goes to the next device or the next loop.  The host takes
one step per device, and `Complete(k)`, the end of a kernel, can happen between any two
steps: the queues are out of order, and only `clFinish` (`Finished`) waits.  `programs` are the
programs built for a device's context, which go with it (`ProgramsFollow`); `running` the
kernels on the queues; `ran` a history variable.  A region's devices, and the one data
argument each gets, come from `Layouts`; `Gangs` says whether it asks for gangs or leaves
them to `acc_get_region_defaults`.  OpenCL's answers, and whether a version of the
kernel exists, are choices; which version is taken is the subject of `KernelVersion`.
`Offload` is what a program sees of all this: an execution begins, each device of the region
runs the kernel in any order, it ends when all have, and meanwhile the devices' memory is
left alone.

### KernelVersion, DistData (`internal/kernel.c`, `private/memory.c`, `libopenacc.cl`)

The selection of a version for each device and the tiles of its loops, one loop a step
(`EvalLoop`), in the source's `size_t` arithmetic modulo `Word`.  A version that cannot be
cut is left in the middle of its loops (`GivesUp`), its tiles half computed; an assertion that
fails is `EvalAborts`.  `KeepBest` records the first version that gets to its end, and
`acc_build_ocl_kernel` makes the context that the device receives.  `Started` and `NumStarted`
are the device side: which iterations the gangs, workers and generated loops run, and
how often, given this context.  `DistData` holds the formulas of `acc_distributed_data` and
of the kernel's `offset`, two computations of the same split in bytes and in rows, in
integers without a bound.  `LaunchAssumption` says which launches there are: sizes are
positive and strides not 0, as `acc_enqueue_kernel` asserts; loops go upwards, their bounds
fit into a `long`, and some device has a portion of them; no product wraps in `size_t`,
which the code tests nowhere (`LoopsFit`); and the compiler gives each tile of a version an
identifier of its own (`TilesApart`).

### RuntimeInit (`private/init.c`, `internal/opencl-init.c`, `internal/init.c`, `internal/runtime.c`)

`acc_init_once` runs its parts behind flags in a fixed order (`Turn`).  Two of them have a
state of their own: the collection of OpenCL's devices in two loops over the platforms
(`CountDevices`, `ListDevices`, each query of which can fail and then counts as no devices),
and the mapping of device types to ranges of indices (`MapPlatform`).  `world` is the machine,
`first` says where in the flat device array the devices of a platform are, `ranges` is
`acc_runtime.devices`.  A machine without platforms leaves `num_devices` unset; what
`acc_init_ocl_devices` reads there is a choice between garbage and a crash.
`acc_get_device_type_by_device_idx` is the lookup back from an index.

### Registry, Profiling, EventLog (`utils/sqlite/sqlite.c`, `utils/profiling.c`)

`disk` holds the files, each a function from tables to rows in the order of `rowid`;
`conns[p]` is `db_files_map` of process `p`.  A connection with `memory` works on a
copy, which `LoadOrSave` fills when it is opened and which replaces the file when it is
closed (the code ignores the status of that, so it may fail).  One SQL statement is one
step.  A call that takes several is unfolded into `todo[p]`, the steps that are left; other
processes act between them, and `Dies` ends the process before any of them.  An assertion
on the status of a statement is `Aborts`.  `acc_sqlite_create_table` asks for the table
(`NeedTable`) and creates it in a second statement, which fails if another process was faster.

`Start` is `acc_init_once` as far as the profiler is concerned; `SetFlag` ends it.  `events[p]`
is the map of events: `done` says that the event ended and `out` that its row was written in
the loop of `acc_profiling_release_all_events`, which `ClearEvents` ends with `map_clear`.
Transfers block, so their events are registered with `done`; kernels end at any time
(`KernelEnds`), and `acc_region_stop` waits for them.  `acc_exit` is a destructor: it also runs
when a call inside a region exits, and its release then finds events that have not ended.
`closed` and `failed` are history: sessions that came to the end of `acc_exit`, and those
that exited inside a region.  `EventLog` is the promise: each event of a session is stored
once at most and before the session is over; a session that closes has stored all of
its events, and only one that is interrupted loses some.

### TuningSpace, Tuner (`utils/tuning.c`)

`TuningSpace` has the generation of runs: versions per device, portions shared by the
devices, and the triples of gang, worker and vector that fit the loops, each a recursion of
the code as a recursive function, and the offsets at which `acc_sqlite_read_run_table` puts
the fields of a run.  `Tuner` composes the profiler with the tuner, for one device.  The program
opens the database of versions in memory (`acc_tuning_init`), `Generate` adds the runs one
statement each, and `acc_tuning_execute` counts the chosen runs (`CountRuns`), reads them with a
second statement (`ReadRuns`), and executes each between two marks: 2 before its kernel,
3 after its events were released.  `Choose` (mark 1) is whoever selects runs, and `Compile` the
compiler that writes the database of versions; neither is in the library.  Where fewer
entries are read than were counted, the rest is uninitialised: `ReadRuns` chooses what they
are; where more are read they are written behind the memory, and the model goes on with the
ones that were counted.  `cut` is history: runs whose execution ended with the process.

`tuning.c` is not in the list of sources of `lib/Makefile.am`, and it would not compile
as it is (`acc_sqlite_loop_entry_t` has no member `tiles`): the modules say what it does
where it is used with the rest of the library.

### Timer (`utils/timer.c`)

`acc_timer_delta` on two times of seconds and nanoseconds, with C's division.  It has no state;
its theorems are in `Numbers`.

## 3. What is checked

| run | instance | properties |
|---|---|---|
| `bimap` | 3 slots, 4 keys on either side | `TypeOK`, `Agree`, `HalfFullStaysInside`, `RemovalNeverAborts`, `ImplementsPairTable` |
| `associative` | keys 1..6, at most 5 entries, capacity from 2 | `FindsFloor`, `SearchStaysInside`, `SearchEnds`, `ImplementsMap` |
| `dataenv_scoped` | 2 devices, 2 host pointers, 2 buffers, 2 sizes, tables of 2, 3 environments | `TypeOK`, `ScopesOwnData`, `NothingLeaks`, `PopSucceeds`, `ImplementsScopedStore` |
| `dataenv_any` | 1 device, 3 host pointers, 2 buffers, tables of 2, 2 environments | `Tracked`, `NoAliases`, `StablePointers` |
| `region_exec` | 2 devices, 1 host pointer, 2 buffers, one environment, any program; regions on both devices and on the second | `RegionTypeOK`, `QuietBetweenCalls`, `KernelsUseLiveBuffers`, `ReadyToLaunch`, `ImplementsOffload`, `ExecutionsEnd` |
| `region_defaults` | the same, scoped programs, 2 environments, a region that names no gangs | `WorkDimPositive`, violated |
| `kernel_version` | 1800 launches: 2 loops, 2 devices, 5 ways to split, 4 lists of versions | `EachIterationOnce`, `SharesPartition`, `DataFollowsLoop`, `FirstSuitable`, `LaunchesSucceed` |
| `tiling_stride` | loops with a stride of two | `TileAssertHolds`, violated |
| `runtime_init` | 57 machines of up to three platforms | `RangesSound`, `RangesComplete`, `TypeOfDevice`, `InitEnds` |
| `runtime_init_empty` | the same | `EmptyPlatformsTolerated`, violated |
| `profiling` | 2 processes of one session each, 2 platforms of one device, 2 events for one process, runs begun by either | `PTypeOK`, `EventsResolve`, `MeasuredUnlessFailed`, `ImplementsEventLog` |
| `tuner` | 2 processes of one session each, 1 device, 1 generated run, 3 and 1 events, a compiler that writes twice; generation for up to 3 devices and 4 portions | `DoneIsProfiled`, `StuckOnlyByCrash`, `GenerationComplete`, `VersionsKept` |

**Bounds.**  Three slots let the two-key map fill, refuse, and lose its first, middle
and last entry; four keys leave one unknown when it is full.  Five entries make the
search recurse three deep to either side and the array grow twice (2, 4, 8).  In
`dataenv_scoped` three environments give a root, an inner and an innermost one, so that
data can be in the right, a wrong, or two environments; two devices and two buffers
are enough for every confusion of owner or device, and to run out of handles and
reuse one.  `dataenv_any` has more pointers than the table has entries, so that it is
also full.  `region_exec` needs no second host pointer nor environment, as a region has one
argument here and what environments own is the subject of `DataEnv`; a buffer that is
released and given again, a device shut down and initialised again, and regions that
follow one another on different devices all occur.  The launches of `kernel_version` have
loops of 0 to 12 iterations, units of 1 to 3, portions of which one is 0 and pairs whose sum does
not divide the loop, versions that match by device, by size or by name, tiles in and
out of the order of their identifiers, and versions that are given up in their first or
second loop, before and behind one that fits.  `Word = 64` is large enough that none of their
products wraps: a wrapped product needs a loop of 2^64 iterations divided by a portion.
The machines of `runtime_init` have an unknown vendor before known ones, models mixed
and repeated, unknown models between known ones, and two platforms of one vendor.
In `profiling` one process makes the events and the other works on the same tables, so
that both can initialise the file at once, find or miss a table the other creates, and begin runs
between the other's steps (`MaxRuns` bounds the calls: two of them under way give two rows);
events in the two places, transfers and kernels, can be released together, one by one, at an
exit in or outside of a region, or be lost with the process at any step.  The events of several
processes are what the proof covers.  In `tuner` two processes are enough to execute a run twice,
to count a run the other has begun before it is read, and to save the database of versions over
what the compiler wrote; the loop's only valid triple differs between the two compilations.
(A third compilation, which is kept again after a second one was lost, triples the states; the
run was made once with it, and the proof covers any number.)
`MaxDepth`, `MaxCount`, `MaxSessions`, `MaxEvents` and `MaxRuns` are bounds of the models only.  Where
`CHECK_DEADLOCK FALSE` is given, the program may have ended, by an assertion or an
exit, and does nothing more.

**Results.**  The two-key map is right as a table whatever its history.  Its move
stays inside the array only if no more than half of the slots (rounded up) were ever
in use: `HalfFullStaysInside` states this bound, and without its premise TLC finds an
overrun at once (removing the last of three entries).  What the move reads there
never becomes a live entry, which is why `Agree` holds all the same.
Closing an environment succeeds in scoped programs.  In others it does not: data
deleted in an inner environment leave their pointer in the outer one's set, and closing
the outer one frees a NULL buffer and exits.
The comment at `private/memory.c:318` expects `acc_present_or_copyout_` to return NULL once
it has copied out; nothing there removes the mapping, and the pointer returned is the
device pointer.

Waiting at the start and at the end of a region is enough: no kernel is on a queue when
the program has control (`QuietBetweenCalls`), which is why a copyout, a shutdown, or
`acc_pop_data_environment`, which waits for the queue of the current device only, never
meets one.  A region that leaves its sizes to the runtime aborts (`region_defaults`): all
default sizes are 1, and `work_dim` counts only sizes above 1.
The tiling is right for loops of stride 1: each iteration runs once, on the device that
has its rows.  (It stays so if the strides are accumulated from the other end, which is the
other way to number the iterations.)  For other strides the assertion at
`internal/kernel.c:141` compares a length in units of the index with a number of iterations
and stops the program (`tiling_stride`).  A device whose share of a loop is empty
receives tiles that nobody wrote (`internal/kernel.c:88`); the model keeps them as they were.
The indices of devices and the ranges of types agree whatever queries fail
(`RangesSound`), except that a known platform without devices, which earlier code only warns
of, makes the mapping read through NULL (`runtime_init_empty`).  Types name *all* of
their devices only on machines that list the devices of a model together.

The profile keeps its promise without transactions: what processes share are
inserts, which are atomic, and the race to create a table ends one of the processes
before it has made an event.  Events without times come only from exits inside a region.
The marks of runs mean what they say: an executed run has a measured event, and one that
stays begun was interrupted, because the events are released before the second mark.  That
two tuners execute the same run is possible, and so is, by the two statements of
`acc_sqlite_read_table`, an execution of entries that were never read; neither breaks the marks.
The database of versions is copied back on every close, also by processes that only read
it, so a compilation that is written between the load and the save of some process can be lost.
`VersionsKept` says how far the damage goes: the file holds a whole compilation at any time,
an earlier one only if the last was written while a process had the database loaded (`crossed`),
and the next compilation that no process crosses is kept again.
With two or more devices the tuner goes wrong in two places that the properties leave out:
the array of triples has an entry per device and combination and is addressed by the
combination alone (`tuning.c:410`), and the offsets of the fields of a run begin at 0 instead
of behind the `rowid` (`sqlite.c:634`), so that the mark goes to another run.
`acc_timer_delta` adds the nanoseconds' difference where it has to subtract it when a second
began in between (`timer.c:36`; the lines commented out below it have the right sign).

**Limits.**  What the properties take for granted, and so do not show:

- `ScopesOwnData`, `NothingLeaks`, `PopSucceeds` and `ImplementsScopedStore` are about scoped
  programs.  Their rules leave out data deleted below the environment that brought them
  (`internal/data-env.c:63`, a stale pointer remains) and a shutdown with data
  (`public/runtime.c:131`, mappings of a released context remain).
- `MayPop` requires a current device that is ready, so `PopSucceeds` says nothing of a pop after
  `clCreateContext` failed (`public/runtime.c:62`).
- `ReadyToLaunch` is about the order of the loops.  A program that cannot be created or built
  ends the process, so no later launch meets one.  The proof assumes that no region names a device twice.
- `EventsResolve` takes it that `acc_collect_ocl_devices`, which numbers the devices of events, and
  `acc_profiling_platform_init`, which numbers those of the profile, find the same devices.
  A query that fails in the former only is warned of (`internal/opencl-init.c:116`) and shifts the
  numbers of the devices behind it; `RuntimeInit` has such failures, `Profiling` has not.
- `RangesSound` is about the range a type has in the end.  A model whose devices are not adjacent
  loses its earlier range (`internal/opencl-init.c:288`), which `RangesComplete` and
  `TypeOfDevice` leave out with their premise.
- `EachIterationOnce` leaves out devices with an empty share (see Results).  That the tiles of a
  version that was given up are freed is not modelled.
- `GenerationComplete` applies the code's own test of a triple on both sides: it shows that the
  valid triples are listed once each and counted right, not that the test is the right one.
- `VersionsKept` allows the lost update of the database of versions; it does not exclude it.

**Fairness.**  In `Associative`, `WF_vars(associative_lookup_)`, since the
recursion is sequential code that nothing interrupts.  `SearchEnds` says it ends.
`KernelVersion` and `RuntimeInit` are one call each, with `WF_vars(Next)` for the same reason.
In `RegionExec` the host goes on with a call it is in (`WF_rvars(Host)`), and devices end
their kernels (weak fairness of `Complete`): `clFinish` promises to return only under
this assumption, so the library relies on it.  Nothing is assumed of the program between calls.
`DataEnv`, `Bimap`, `Profiling` and `Tuner` promise only safety: the program decides what it
calls next, and any process may be killed before it stores anything.

## 4. What is proved

All proofs hold for every value of the constants that satisfies the modules' named
assumptions (`SizeAssumption`, `AssociativeAssumption`, `DataEnvAssumption`, `RegionAssumption`,
`ProfilingAssumption`, `TunerAssumption`, `SpacesAssumption`, `InitAssumption`, `LaunchAssumption`).
`SpacesAssumption` says that generation data lists no value twice, which the code does not
check: one that is listed twice is tried twice.  Only the proof about the generation uses it.

`Numbers`.  Sums and products over a sequence are recursive functions on `0 .. n`.  `Iterated` shows
that such a function exists, so that its equations may be used, and `SetInduction` proves
a fact about all numbers up to `n` by way of the set of those that have it; both rest
on `LeastNumber`, the well-foundedness of the numbers.  In this way the proofs below reason
about loops that add or multiply up something, for any number of turns.

`BimapProofs`.  `IInv` is inductive: `TypeOK`, `Agree`, that both key maps have exactly
`count` keys (`Counted`, so that the assertions of the next removal hold), and that an
overrun needs a map once more than half full (`InBounds`).  `Agree` alone is not
inductive: without the injectivity it gives together with `TypeOK` a renumbering could
merge two slots.  `ShiftedMap` describes one key map after a removal,
`RemoveKeepsInv` puts the passes together.  From `IInv`: `TypeCorrect`, `MapsAgree`,
`MoveStaysInside`, `AssertionsHold`, `LookupsCorrect`; and `BimapImplementsTable`, where
`StoredAdded` and `StoredRemoved` show that the set of live slots gains and loses
exactly one entry.

`AssociativeProofs`.  For every finite or infinite set of integer keys.  A sorted array and the
floor found at the end are not inductive without what the search knows: `SearchOK` says
that no entry before the part it looks at is behind the key sought, that every entry
after the part is, and that the part is not empty and inside the array.  With it (`AInv`) the
branches of `associative_lookup_` keep the invariant, and its first branch (`idx == count`) is
shown never to be taken.  What an insertion or a removal does is shown of arrays as values
(`Inserted`, `Removed`, and the function an array stands for, `OfArray`), and the
refinement `ContainerImplementsMap` follows: an insertion or a removal is a step of `KeyedStore`, the
steps of the search are stutters.  `SearchTakesHalves` says that each recursive call is for half
of the entries at most, and for one at least, which is what the end of the search rests on.

`DataEnvProofs`.  Fourteen actions change the data in few ways, so the proof goes
through predicates for them: a mapping is `Gained` or `Lost`, an environment `Opened` or
`Closed`.  `NextIsStep` shows that every action, with its failures, is one of ten kinds
of `Step`, and all invariants are proved for the kinds.  `AnyInv` (`TypeOK`, `Tracked`,
`NoAliases`) is inductive for all programs: `DataTypeCorrect`, `MappingsTracked`,
`NoTwoShare`, `PointersStable`.

For `Scoped`, `ScopesOwnData` and `NothingLeaks` are inductive
only together with `AnyInv`: a release of one entry must not touch the buffer of another,
which needs that entries of one device do not alias (`NoAliases`) and that a buffer is
usable on one device only (`EntriesApart`), for which every entry has to be in some
environment (`Tracked`).  From there: `EnvironmentsOwnData`, `NoBufferLeaks`,
`ClosingSucceeds`, and the refinement `EnvironmentsAreScopes`: a gained mapping is
`Enter`, a lost one `Leave`, and the share of every other environment is unchanged.

`DataEnvProofs`, regions.  That no kernel outlives its call is a fact about the end of the last loop,
which each earlier loop owes something to.  `PhaseInv` says what: before the launches
nothing runs; the devices passed in the first loop have the program, and all have it
after; during the launches kernels are on devices of the region only; and in the last loop
only on devices it has yet to wait for.  With the types and `KernelsUseLiveBuffers` it is
inductive (`ExecInv`): `Advances` gives what a loop step does to the devices ahead,
`CallsRunBetween` that the calls of `DataEnv` come only while nothing runs, and `HostStops` and
`HostGoesOn` sum up the four handlers.  From it: `RegionTypeCorrect`, `NoKernelOutlivesCall`,
`BuffersOutliveKernels`, and, where no region names a device twice (its second launch
would find the first one's kernel), `LaunchesFindReady`.  The refinement
`RegionsAreOffloaded` needs what the kernels have achieved as well: `ReachInv` follows the devices
whose kernel is on its queue or has run, which are those that the launch loop has passed
(`LaunchReaches`).  The call begins (`Begin`); a kernel that ends is `Run`; and the last wait is
`End`, since nothing is left on a queue then and all devices of the region have run
(`ReturnsWhenRun`).  All other steps of the host are stutters, and a call of `DataEnv` is `Change`,
which only comes between executions.

`ProfilingProofs`.  For any number of processes, sessions, devices and events.  The inductive
invariant `PInv` says of each process where it is in its calls, which connection it has and
what its events are (`Local`), and of the file whose rows it holds (`Recorded`): a row of
`Events` belongs to a session there was, and if this session is still there, the event is one it
has made and not one it has yet to store, which is why no event is stored twice.  The 20
actions are summed up by seven kinds of steps (`Works` to `Measures`; `NextIsStep`), each of which
leaves other processes alone (`OthersKeep`), and the facts about the file are shown for the
kinds.  From `PInv`: `ProfilingTypeCorrect`, `UnmeasuredFailed`, which needs that outside of regions
all events have ended, and the refinement `EventsLogged`, where a registration and a stored row are
steps of `EventLog`, the end of a process is `Lose` or `Close`, and all else is a stutter.
`EventsAlwaysResolve` needs a second invariant, `RInv`.  Events can only be made when the flag
is set, and by then every device is in the table, under the number that events use for it:
the steps left of an initialisation end with the flag and contain each device that is
not listed yet (`WillList`), whatever other processes have listed.  That the counter of
`acc_profiling_platform_init` and the flat numbering of `acc_profiling_register_*` agree is `DevicesNumbered`.

`RuntimeInitProofs`.  The collection of devices counts in one loop, stores in a second one,
and the mapping numbers them in a third; a query may fail in any of them.  `IInv` compares what
the three have added up with the devices of the platforms passed so far (`base`), and says of the
map that the ranges of the platforms passed are theirs.  It is inductive
(`DeviceCountsAgree`), and from it follow `DeviceMapSound`: a range names devices of its type only;
`DeviceMapComplete`: on machines that list the devices of a model together, all of them;
`DeviceTypesFound`, the way back from an index to its type; and `InitTypeCorrect`.

`KernelVersionProofs`.  `KInv` follows the call through its stages: while versions are left, all of
those passed do not suit the device (`TodoOK`, `BestOK`); during the loops of a version, those
before `loop_idx` have tiles that divide them (`EvalOK`); and each context that was
built holds what its own device needs (`ContextOK`), whatever was computed for devices since.
It is inductive (`ContextsBuilt`).  `FirstVersionChosen` and the split of loops and data
(`SharesMakeUpLoop`, `DataInStep`) follow from sums of portions.  `IterationsRunOnce` is an argument about
numbers in a mixed base: a tile of a loop is a digit, its stride the product of the tiles
inside (`Inner`, `InnerFacts`), and each iteration of a share has exactly one list of
digits (`Digits`, `ProductOfParts`).  `TilesFit` gives that the tiles of a version that is not given up multiply to the
share, and `StartedIs` that what the gangs, workers and vectors start are these digits,
whichever of the tiles the hardware runs in parallel.

`TunerProofs`.  What the file says of a run is true because of how far its execution has come, so
`TInv` follows the executions: what is left of any call is one of a few shapes (`Calling`), an
execution under way is the rest of `ExecuteRun(r)` followed by whole ones (`Rest`, `Blocks`), and
`Reached` says what it has achieved before each step: from `launch` on the process holds an event of
the run, from `stop` on one with times, from the end of `release` on the file has it
(`Profiled`).  Rows of `Events` are never taken away (`StoredGrows`), so what one process has reached
survives what others do, a second execution of the same run included; and an execution is not
forgotten before its mark is set, unless `cut` records its end (`Carries`).  Each of the 30
actions of a process is shown to be such a step (`IsTStep`, in one lemma each), and
`StepKeepsTInv` does the rest once; the compiler and the choice of runs are `CompileKeeps` and
`ChooseKeeps`.  What `ReadRuns` makes of any number of entries is put together by
`WholeJoin` and `WholeFlat`.  From `TInv`: `DoneAlwaysProfiled`, `StuckOnlyByInterruption`, and
`VersionsAlwaysKept`, which needs that a loaded copy is some compilation, and is what is in the
file as long as the compiler does not write (`Loaded`).

The second half of `TunerProofs` is about the generation, which needs no induction over the
steps.  `Enumerates(l, S)` says that a list has each element of a set once; lists of disjoint sets
one behind the other enumerate the union (`JoinedLists`), and so do lists with one
element more in front (`Prefixed`) and one to one images (`MappedList`).  Each recursion of the code
is a recursive function, so that its equations can be had by induction over the devices as
a set of numbers (`GenFacts`, `CountFacts`, `FromFacts`, `NumFacts`).  `PortionLists` goes by the
number of devices: the ways to share k portions among n devices that begin with i
are the ways to share k - i among n - 1 (`SharesSplit`), and their numbers add up as
`acc_tuning_count_portion_combinaisons` does (`NextLengths`); `VersionLists` is the same for
products, and `EveryRunListed` for the triples and the runs of one device.  It follows
`GenerationAlwaysComplete`, for any number of devices, portions, values and loops.

`Timer`.  `DeltaWithinSecond`: where the nanoseconds do not decrease, the difference is
exact to the millisecond.  `DeltaTooHighAcrossSecond`: where they decrease by a millisecond
or more, it is too high by two milliseconds at least.  Both for all times.

Every safety property that a passing run checks is proved.  Only model-checked is liveness
under fairness, which TLAPS does not prove here: `SearchEnds` (but see `SearchTakesHalves`), `InitEnds`,
`LaunchesSucceed`, `ExecutionsEnd`.

## 5. Plan

In this order; each with an MC module, mutants and, where marked, proofs.

1. `RuntimeInit`: the context of a device is made for the entry `devices[0][device_idx]`
   (`public/runtime.c:49`), which relies on how the array was allocated; `ACC_DEVICE_NUM`.
2. `Tuner`: runs of several devices.

## 6. Not modelled

The components with no module in `PROJECT.json`: reading of source files (pure I/O),
debug output (changes no state), the asynchronous API (every function is
`assert(!"NIY")`), the `openacc` tool (prints flags).  The device-side accessors and the
compiler's tables (the body of `acc_sqlite_load_compiler_data`, which would read them, is
commented out) are left out of components that are modelled
otherwise, as are the answers of OpenCL's queries that the profiler stores.  The contents of buffers and kernels, SQL text and message formats are data
that no property is about.  OpenCL itself is external: handles, contexts and failures
are modelled from how the library uses them.
