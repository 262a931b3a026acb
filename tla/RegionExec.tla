----------------------------- MODULE RegionExec ------------------------------
(***************************************************************************)
(* The execution of regions (private/region.c, internal/region.c,          *)
(* private/kernel.c) on top of the device data of module DataEnv.          *)
(*                                                                         *)
(* acc_region_execute builds the region's program for its devices, waits   *)
(* for their queues, launches the kernel on each of them, and waits again. *)
(* The host takes one step per device; the kernels run beside it and end   *)
(* at any time.  A region is given by the shares of its data (an element   *)
(* of Layouts).                                                            *)
(***************************************************************************)
EXTENDS DataEnv

CONSTANTS
  Gangs,          \* per region: the gangs (times workers) asked for, 0 if none
  DefaultGangs    \* acc_device_defaults: one gang of one worker

ASSUME RegionAssumption ==
  /\ <<>> \notin Layouts
  /\ Gangs \in [Layouts -> Nat]
  /\ DefaultGangs \in Nat \ {0}

VARIABLES
  programs,  \* per device: the regions whose program is built
  running,   \* the kernels on the devices' queues: device and argument
  exec,      \* acc_region_execute under way: region, phase, devices to visit
  ran        \* history: devices whose kernel of this region has ended

rvars == <<vars, programs, running, exec, ran>>

Phases == {"init", "start", "launch", "stop"}
NoExec == [region |-> <<>>, phase |-> "none", todo |-> <<>>]
Outside == exec.phase = "none"
DevicesOf(r) == {r[i].dev : i \in DOMAIN r}
Target == Head(exec.todo)

RegionTypeOK ==
  /\ programs \in [Device -> SUBSET Layouts]
  /\ running \subseteq [dev : Device, buf : Buffer]
  /\ \/ exec = NoExec
     \/ /\ exec \in [region : Layouts, phase : Phases, todo : Seq(Transfer)]
        /\ exec.todo # <<>>
  /\ ran \subseteq Device

RInit ==
  /\ Init
  /\ programs = [d \in Device |-> {}]
  /\ running = {}
  /\ exec = NoExec
  /\ ran = {}

------------------------------------------------------------------------------
\* The calls of DataEnv.  The programs belong to the device's structure: an
\* initialisation finds none, a shutdown releases them.

ProgramsFollow ==
  programs' = [d \in Device |->
                 IF devices_data'[d] = devices_data[d] THEN programs[d] ELSE {}]

DataCalls ==
  /\ Outside
  /\ Next
  /\ ProgramsFollow
  /\ UNCHANGED <<running, exec, ran>>

------------------------------------------------------------------------------
\* acc_region_execute.

acc_region_execute(r) ==
  /\ Idle /\ Outside
  /\ exec' = [region |-> r, phase |-> "init", todo |-> r]
  /\ ran' = {}
  /\ UNCHANGED <<vars, programs, running>>

\* Mutant: the index of the loop is not set back for the next phase.
AdvanceOnly(next) ==
  exec' = CASE Len(exec.todo) > 1 -> [exec EXCEPT !.todo = Tail(@)]
            [] next = "none" -> NoExec
            [] OTHER -> [exec EXCEPT !.phase = next, !.todo = <<>>]

\* Mutant: the wait at the end goes round.
AdvanceAgain(next) ==
  exec' = CASE Len(exec.todo) > 1 -> [exec EXCEPT !.todo = Tail(@)]
            [] next = "none" -> [exec EXCEPT !.todo = exec.region]
            [] OTHER -> [exec EXCEPT !.phase = next, !.todo = exec.region]

\* The phase is over: the loop of the next one starts at the first device.
NextPhase(next) ==
  IF next = "none" THEN NoExec
                   ELSE [exec EXCEPT !.phase = next, !.todo = exec.region]

\* The device is done with in this phase.
Advance(next) ==
  exec' = IF Len(exec.todo) > 1 THEN [exec EXCEPT !.todo = Tail(@)] ELSE NextPhase(next)

OnHost == UNCHANGED <<devices_data, curr, held, call>>
InPhase(phase) == status = "running" /\ exec.phase = phase
Stay == UNCHANGED <<programs, running, exec, ran>>

\* A use of devices_data behind the assertion that it is not NULL.
CheckedDevice(d) ==
  \/ devices_data[d] = "null" /\ Stop({"abort"})
  \/ devices_data[d] = "freed" /\ Stop({"crash", "abort", "exit"})

\* Mutant: the program is built for the first device only.
BuildFirst ==
  /\ InPhase("init")
  /\ OnHost
  /\ \/ /\ devices_data[Target.dev] = "ready"
        /\ programs' = IF exec.todo = exec.region
                         THEN [programs EXCEPT ![Target.dev] = @ \cup {exec.region}]
                         ELSE programs
        /\ Advance("start")
        /\ UNCHANGED <<data, status, running, ran>>
     \/ CheckedDevice(Target.dev) /\ Stay

\* acc_region_init for one device: the program is made once for its context.
acc_region_init ==
  /\ InPhase("init")
  /\ OnHost
  /\ \/ /\ devices_data[Target.dev] = "ready"
        /\ programs' = [programs EXCEPT ![Target.dev] = @ \cup {exec.region}]
        /\ Advance("start")
        /\ UNCHANGED <<data, status, running, ran>>
     \/ /\ devices_data[Target.dev] = "ready"
        /\ exec.region \notin programs[Target.dev]
        /\ Stop({"exit"})
        /\ Stay
     \/ CheckedDevice(Target.dev) /\ Stay

\* clFinish returns when the queue is empty.
Finished(d) == \A k \in running : k.dev # d

acc_region_start ==
  /\ InPhase("start")
  /\ Finished(Target.dev)
  /\ Advance("launch")
  /\ UNCHANGED <<vars, programs, running, ran>>

\* Mutant: it waits for the current device, as acc_pop_data_environment.
StopCurrent ==
  /\ InPhase("stop")
  /\ Finished(curr)
  /\ Advance("none")
  /\ UNCHANGED <<vars, programs, running, ran>>

acc_region_stop ==
  /\ InPhase("stop")
  /\ Finished(Target.dev)
  /\ Advance("none")
  /\ UNCHANGED <<vars, programs, running, ran>>

\* acc_get_region_defaults, and work_dim in acc_enqueue_kernel.
GangsOf(r) == IF Gangs[r] = 0 THEN DefaultGangs ELSE Gangs[r]
WorkDimHolds(r) == GangsOf(r) > 1

\* acc_deviceptr_ of the device's share; nothing if it is not present there.
Argument(t) ==
  {present[t.dev][t.host].ptr : h \in DOMAIN present[t.dev] \cap {t.host}}

\* clSetKernelArg takes a live buffer of the kernel's context.
Accepted(d, b) == Usable(d, b)

\* Mutant: the loop over the devices ends after the first launch.
LaunchFirst ==
  /\ InPhase("launch")
  /\ OnHost
  /\ \E b \in Argument(Target) :
       /\ Accepted(Target.dev, b)
       /\ WorkDimHolds(exec.region)
       /\ exec.region \in programs[Target.dev]
       /\ running' = running \cup {[dev |-> Target.dev, buf |-> b]}
  /\ exec' = [exec EXCEPT !.phase = "stop", !.todo = exec.region]
  /\ UNCHANGED <<data, status, programs, ran>>

\* acc_enqueue_kernel for one device.  Without an argument it exits, with a
\* work_dim of 0 it aborts; that no version matches (abort), or that OpenCL
\* refuses (exit), is a choice.
acc_enqueue_kernel ==
  /\ InPhase("launch")
  /\ OnHost
  /\ \/ \E b \in Argument(Target) :
          /\ Accepted(Target.dev, b)
          /\ WorkDimHolds(exec.region)
          /\ exec.region \in programs[Target.dev]
          /\ running' = running \cup {[dev |-> Target.dev, buf |-> b]}
          /\ Advance("stop")
          /\ UNCHANGED <<data, status, programs, ran>>
     \/ /\ \E b \in Argument(Target) : ~Accepted(Target.dev, b)
        /\ BadHandle
        /\ Stay
     \/ Stop({"abort", "exit"}) /\ Stay

\* A device ends a kernel.
Complete(k) ==
  /\ status = "running"
  /\ k \in running
  /\ running' = running \ {k}
  /\ ran' = ran \cup {k.dev}
  /\ UNCHANGED <<vars, programs, exec>>

Host ==
  \/ acc_region_init
  \/ acc_region_start
  \/ acc_enqueue_kernel
  \/ acc_region_stop

RNext ==
  \/ DataCalls
  \/ \E r \in Layouts : acc_region_execute(r)
  \/ Host
  \/ \E k \in running : Complete(k)

\* The host goes on with a call it is in, and devices end their kernels.
Fairness ==
  /\ WF_rvars(Host)
  /\ WF_rvars(\E k \in running : Complete(k))

RSpec == RInit /\ [][RNext]_rvars /\ Fairness

------------------------------------------------------------------------------
\* Properties.

\* The program never gets control back while a kernel runs: nothing it does
\* next, a copyout, the end of a data environment (which waits for one device
\* and releases the data of all), or a shutdown, meets a kernel.
QuietBetweenCalls == (Outside /\ status = "running") => running = {}

\* A running kernel works on a live buffer of its device's current context.
KernelsUseLiveBuffers ==
  status = "running" => \A k \in running : Usable(k.dev, k.buf)

\* A kernel is launched on devices that have its program, and after the work
\* of earlier kernels there: the assertion program != NULL holds, although the
\* programs were checked in an earlier phase.
ReadyToLaunch ==
  (exec.phase = "launch" /\ status = "running") =>
    /\ \A i \in DOMAIN exec.region :
         /\ devices_data[exec.region[i].dev] = "ready"
         /\ exec.region \in programs[exec.region[i].dev]
    /\ \A i \in DOMAIN exec.todo : Finished(exec.todo[i].dev)

\* acc_region_execute returns when the kernel has run on each device of the
\* region, and only there; until then the program has no part in what happens.
Offloaded ==
  INSTANCE Offload WITH
    Region <- Layouts, On <- [r \in Layouts |-> DevicesOf(r)], None <- <<>>,
    region <- exec.region, done <- ran, memory <- <<devices_data, curr, data, held, call>>

ImplementsOffload == Offloaded!OSpec

\* Each execution of a region ends, with its results or with the program.
ExecutionsEnd == (~Outside) ~> (Outside \/ status # "running")

\* The assertion work_dim > 0 of acc_enqueue_kernel, for what
\* acc_get_region_defaults makes of sizes that were not provided.
WorkDimPositive ==
  (exec.phase = "launch" /\ status = "running") => WorkDimHolds(exec.region)
==============================================================================
