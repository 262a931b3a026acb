------------------------------- MODULE DataEnv -------------------------------
(***************************************************************************)
(* Device data of one program: the present table of every device           *)
(* (internal/mem-manager.c), the stack of data environments                *)
(* (internal/data-env.c, private/data-env.c), the memory calls             *)
(* (private/memory.c, public/memory.c) and the part of the device state    *)
(* they rely on (acc_init__ and acc_shutdown_ of public/runtime.c).        *)
(*                                                                         *)
(* The library is single threaded: a call runs to its end before the next  *)
(* one starts.  The calls on a region visit its devices one after the      *)
(* other, one step per device.  What the bytes of a buffer are is left     *)
(* out; whether a transfer reaches a usable buffer is not.                 *)
(***************************************************************************)
EXTENDS Integers, Sequences, FiniteSets

CONSTANTS
  Device,      \* device indices
  HostPtr,     \* host addresses
  Bytes,       \* sizes of data, 0 excluded
  Buffer,      \* OpenCL buffer handles; a released handle can be given again
  Capacity,    \* entries of a present table: 42 in init_memory_manager
  Layouts,     \* what acc_distributed_data makes of the data of a region: one
               \* transfer per device of the region, in the region's order
  MaxDepth,    \* bound of the model: open data environments
  Scoped       \* does the program follow the rules of "Scoped programs" below?

Transfer == [dev : Device, host : HostPtr, n : Bytes \cup {0}]

ASSUME DataEnvAssumption ==
  /\ Device # {}
  /\ Capacity \in Nat
  /\ MaxDepth \in Nat \ {0}
  /\ Layouts \subseteq Seq(Transfer)
  /\ Scoped \in BOOLEAN

VARIABLES
  devices_data,  \* per device: "null", "ready", or "freed" (a dangling pointer)
  curr,          \* the current device
  envs,          \* data_environment, root first: device -> tracked host pointers
  present,       \* data_ptrs_bimap: device -> host pointer -> [ptr, n]
  buffers,       \* live buffers -> [dev, old], old once their context is gone
  held,          \* history: buffers the program got from acc_malloc and keeps
  call,          \* the call on a region under way: its name and what is left
  status         \* "running", "abort" (assertion), "exit" or "crash"

data == <<envs, present, buffers>>
vars == <<devices_data, curr, envs, present, buffers, held, call, status>>

RegionOps == {"copyin", "pcopyin", "create", "pcreate", "present", "copyout", "pcopyout"}
NoCall == [op |-> "none", todo |-> <<>>]
Idle == status = "running" /\ call.todo = <<>>

Top == envs[Len(envs)]
NoEntries == [d \in Device |-> {}]
Mapped(d) == {present[d][h].ptr : h \in DOMAIN present[d]}
AllMapped == UNION {Mapped(d) : d \in Device}

TypeOK ==
  /\ devices_data \in [Device -> {"null", "ready", "freed"}]
  /\ curr \in Device
  /\ envs \in Seq([Device -> SUBSET HostPtr]) /\ Len(envs) > 0
  /\ DOMAIN present = Device
  /\ \A d \in Device :
       /\ DOMAIN present[d] \subseteq HostPtr
       /\ present[d] \in [DOMAIN present[d] -> [ptr : Buffer, n : Bytes]]
  /\ DOMAIN buffers \subseteq Buffer
  /\ buffers \in [DOMAIN buffers -> [dev : Device, old : BOOLEAN]]
  /\ held \subseteq Buffer
  /\ call.op \in RegionOps \cup {"none"} /\ call.todo \in Seq(Transfer)
  /\ status \in {"running", "abort", "exit", "crash"}

Init ==
  /\ devices_data = [d \in Device |-> "null"]
  /\ curr \in Device
  /\ envs = <<NoEntries>>
  /\ present = [d \in Device |-> [h \in {} |-> 0]]
  /\ buffers = [b \in {} |-> 0]
  /\ held = {}
  /\ call = NoCall
  /\ status = "running"

------------------------------------------------------------------------------
\* How a step ends the program.

Stop(how) == status' \in how /\ UNCHANGED data

\* The program reads through devices_data[d], which is NULL or was freed.
BadDevice(d) ==
  \/ devices_data[d] = "null" /\ Stop({"crash"})
  \/ devices_data[d] = "freed" /\ Stop({"crash", "abort", "exit"})

\* OpenCL gets a handle it does not know: it answers with an error, which the
\* library turns into exit(-1), or breaks.
BadHandle == Stop({"exit", "crash"})

------------------------------------------------------------------------------
\* internal/mem-manager.c and internal/data-env.c

\* A partial function with an entry more, or less.
With(m, k, e) == [x \in DOMAIN m \cup {k} |-> IF x = k THEN e ELSE m[x]]
Without(m, k) == [x \in DOMAIN m \ {k} |-> m[x]]

acc_check_present(d, h, n) == h \in DOMAIN present[d] /\ present[d][h].n = n

\* Mutants: one of the assertions about the two keys is missing.
CanRegisterAgain(d, h, b) ==
  b \notin Mapped(d) /\ Cardinality(DOMAIN present[d]) # Capacity
CanRegisterAlias(d, h, b) ==
  h \notin DOMAIN present[d] /\ Cardinality(DOMAIN present[d]) # Capacity

\* The assertions of bimap_insert.
CanRegister(d, h, b) ==
  /\ h \notin DOMAIN present[d]
  /\ b \notin Mapped(d)
  /\ Cardinality(DOMAIN present[d]) # Capacity

\* Mutant: the variable is tracked by the root environment.
MapInRoot(d, h, b, n) ==
  /\ CanRegister(d, h, b)
  /\ present' = [present EXCEPT ![d] = With(@, h, [ptr |-> b, n |-> n])]
  /\ envs' = [envs EXCEPT ![1][d] = @ \cup {h}]

acc_map_data_(d, h, b, n) ==
  /\ CanRegister(d, h, b)
  /\ present' = [present EXCEPT ![d] = With(@, h, [ptr |-> b, n |-> n])]
  /\ envs' = [envs EXCEPT ![Len(envs)][d] = @ \cup {h}]

\* Mutants: acc_unmap_data_ without set_remove, or without
\* remove_data_allocation.
UnmapKeepsTracking(d, h) ==
  /\ present' = [present EXCEPT ![d] = Without(@, h)]
  /\ UNCHANGED envs
UnmapKeepsEntry(d, h) ==
  /\ envs' = [envs EXCEPT ![Len(envs)][d] = @ \ {h}]
  /\ UNCHANGED present

\* The entry leaves the table of the device, but only the set of the innermost
\* environment.
acc_unmap_data_(d, h) ==
  /\ present' = [present EXCEPT ![d] = Without(@, h)]
  /\ envs' = [envs EXCEPT ![Len(envs)][d] = @ \ {h}]

Release(bs) == buffers' = [b \in DOMAIN buffers \ bs |-> buffers[b]]

\* Mutant: only the data of the current device, as acc_pop_data_environment
\* only waits for that device.
TopEntriesOfCurrent == {<<curr, h>> : h \in Top[curr]}

\* What acc_clear_data_environment hands to acc_free_, entry by entry.
TopEntries == {e \in Device \X HostPtr : e[2] \in Top[e[1]]}
TopBuffers == {present[e[1]][e[2]].ptr : e \in TopEntries}

\* Every one of these releases finds a live buffer.
CanClear ==
  /\ \A e \in TopEntries : e[2] \in DOMAIN present[e[1]]
  /\ TopBuffers \subseteq DOMAIN buffers
  /\ \A e, f \in TopEntries :
       present[e[1]][e[2]].ptr = present[f[1]][f[2]].ptr => e = f

acc_clear_data_environment ==
  /\ CanClear
  /\ Release(TopBuffers)
  /\ present' = [d \in Device |->
                   [h \in DOMAIN present[d] \ Top[d] |-> present[d][h]]]

------------------------------------------------------------------------------
\* private/memory.c, one operator per function.  They leave devices_data, curr,
\* held and call to the caller.

\* acc_memcpy_to_device_ and acc_memcpy_from_device_: blocking transfers.  Each
\* device has a context of its own, and the queue only takes its buffers.
Usable(d, b) ==
  /\ b \in DOMAIN buffers
  /\ buffers[b].dev = d
  /\ ~buffers[b].old

acc_memcpy_(d, b) ==
  \/ BadDevice(d)
  \/ devices_data[d] = "ready" /\ Usable(d, b) /\ UNCHANGED <<data, status>>
  \/ devices_data[d] = "ready" /\ ~Usable(d, b) /\ BadHandle
  \/ devices_data[d] = "ready" /\ Stop({"exit"})

\* clCreateBuffer returns a handle that is not in use, and may fail.
acc_malloc_(d, b) ==
  /\ devices_data[d] = "ready"
  /\ b \notin DOMAIN buffers
  /\ buffers' = With(buffers, b, [dev |-> d, old |-> FALSE])

MallocFails(d) ==
  \/ BadDevice(d)
  \/ devices_data[d] = "ready" /\ Stop({"exit"})

acc_create_(d, h, n) ==
  \/ acc_check_present(d, h, n) /\ Stop({"abort"})
  \/ /\ ~acc_check_present(d, h, n)
     /\ \/ MallocFails(d)
        \/ \E b \in Buffer : acc_malloc_(d, b) /\ acc_map_data_(d, h, b, n) /\ UNCHANGED status
        \/ /\ devices_data[d] = "ready"
           /\ \E b \in Buffer \ DOMAIN buffers : ~CanRegister(d, h, b)
           /\ Stop({"abort"})

\* The transfer that follows the mapping succeeds or exits, as the allocation.
acc_copyin_(d, h, n) == acc_create_(d, h, n)

acc_present_or_create_(d, h, n) ==
  \/ acc_check_present(d, h, n) /\ UNCHANGED <<data, status>>
  \/ ~acc_check_present(d, h, n) /\ acc_create_(d, h, n)

acc_present_or_copyin_(d, h, n) ==
  \/ acc_check_present(d, h, n) /\ UNCHANGED <<data, status>>
  \/ ~acc_check_present(d, h, n) /\ acc_copyin_(d, h, n)

acc_present_(d, h, n) ==
  \/ acc_check_present(d, h, n) /\ UNCHANGED <<data, status>>
  \/ ~acc_check_present(d, h, n) /\ Stop({"abort"})

\* Also acc_update_device_ and acc_update_self_, which differ in the direction
\* of the transfer only.
acc_copyout_(d, h, n) ==
  \/ acc_check_present(d, h, n) /\ acc_memcpy_(d, present[d][h].ptr)
  \/ ~acc_check_present(d, h, n) /\ Stop({"abort"})

acc_present_or_copyout_(d, h, n) ==
  \/ acc_check_present(d, h, n) /\ acc_copyout_(d, h, n)
  \/ ~acc_check_present(d, h, n) /\ UNCHANGED <<data, status>>

acc_delete_(d, h, n) ==
  \/ ~acc_check_present(d, h, n) /\ Stop({"abort"})
  \/ /\ acc_check_present(d, h, n)
     /\ LET b == present[d][h].ptr
        IN  \/ b \in DOMAIN buffers /\ acc_unmap_data_(d, h) /\ Release({b}) /\ UNCHANGED status
            \/ b \notin DOMAIN buffers /\ BadHandle

------------------------------------------------------------------------------
\* Scoped programs.  OpenACC directives nest, and the program that uses the
\* calls directly can do the same: what a data environment brought to a device
\* is removed there or by closing it; buffers of acc_malloc are mapped on their
\* device, unmapped before the environment is closed and freed unmapped; a device is shut
\* down without data on it, and is initialised when an environment is closed.

MayDelete(d, h) ==
  Scoped /\ h \in DOMAIN present[d] => h \in Top[d] /\ present[d][h].ptr \notin held

MayUnmap(d, h) ==
  Scoped /\ h \in DOMAIN present[d] => h \in Top[d] /\ present[d][h].ptr \in held

MayMap(d, b) == Scoped => b \in held /\ Usable(d, b) /\ b \notin AllMapped

MayFree(b) == Scoped => b \in held /\ b \notin AllMapped

MayPop ==
  Scoped => /\ devices_data[curr] = "ready"
            /\ \A d \in Device : \A h \in Top[d] :
                 h \in DOMAIN present[d] => present[d][h].ptr \notin held

MayShutdown(d) == Scoped => \A b \in DOMAIN buffers : buffers[b].dev # d

------------------------------------------------------------------------------
\* The calls on the current device (public/memory.c, public/device.c).

acc_set_device_num(d) ==
  /\ Idle
  /\ curr' = d
  /\ UNCHANGED <<devices_data, envs, present, buffers, held, call, status>>

OnCurrent == Idle /\ UNCHANGED <<devices_data, curr, call>>

acc_malloc ==
  /\ OnCurrent
  /\ \/ \E b \in Buffer :
          /\ acc_malloc_(curr, b)
          /\ held' = held \cup {b}
          /\ UNCHANGED <<envs, present, status>>
     \/ MallocFails(curr) /\ UNCHANGED held

acc_free(b) ==
  /\ OnCurrent
  /\ MayFree(b)
  /\ \/ /\ b \in DOMAIN buffers
        /\ Release({b})
        /\ held' = held \ {b}
        /\ UNCHANGED <<envs, present, status>>
     \/ b \notin DOMAIN buffers /\ BadHandle /\ UNCHANGED held

acc_map_data(h, b, n) ==
  /\ OnCurrent
  /\ MayMap(curr, b)
  /\ \/ acc_map_data_(curr, h, b, n) /\ UNCHANGED <<buffers, status>>
     \/ ~CanRegister(curr, h, b) /\ Stop({"abort"})
  /\ UNCHANGED held

acc_unmap_data(h) ==
  /\ OnCurrent
  /\ MayUnmap(curr, h)
  /\ acc_unmap_data_(curr, h)
  /\ UNCHANGED <<buffers, held, status>>

acc_delete(h, n) ==
  /\ OnCurrent
  /\ MayDelete(curr, h)
  /\ acc_delete_(curr, h, n)
  /\ UNCHANGED held

\* acc_memcpy_to_device and acc_memcpy_from_device with a device pointer.
acc_memcpy(b) ==
  /\ OnCurrent
  /\ acc_memcpy_(curr, b)
  /\ UNCHANGED held

RegionOp(op, d, h, n) ==
  \/ op = "copyin" /\ acc_copyin_(d, h, n)
  \/ op = "pcopyin" /\ acc_present_or_copyin_(d, h, n)
  \/ op = "create" /\ acc_create_(d, h, n)
  \/ op = "pcreate" /\ acc_present_or_create_(d, h, n)
  \/ op = "present" /\ acc_present_(d, h, n)
  \/ op = "copyout" /\ acc_copyout_(d, h, n)
  \/ op = "pcopyout" /\ acc_present_or_copyout_(d, h, n)

\* acc_copyin, acc_create, ...: the functions above for the current device.
acc_data_call(op, h, n) ==
  /\ OnCurrent
  /\ RegionOp(op, curr, h, n)
  /\ UNCHANGED held

------------------------------------------------------------------------------
\* Devices (public/runtime.c).

\* acc_init__ for every device of ds: where clCreateContext fails the structure
\* is freed but stays in devices_data.
acc_init__(ds) ==
  devices_data' \in {f \in [Device -> {"null", "ready", "freed"}] :
    \A d \in Device : IF d \in ds /\ devices_data[d] = "null"
                        THEN f[d] # "null"
                        ELSE f[d] = devices_data[d]}

\* malloc or clCreateCommandQueue fails.
InitExits(ds) ==
  /\ \E d \in ds : devices_data[d] = "null"
  /\ Stop({"exit"})
  /\ UNCHANGED devices_data

\* acc_init and acc_shutdown do the same for all devices of a type in turn.
acc_init_(d) ==
  /\ Idle
  /\ \/ acc_init__({d}) /\ UNCHANGED <<data, status>>
     \/ InitExits({d})
  /\ UNCHANGED <<curr, held, call>>

acc_shutdown_(d) ==
  /\ Idle
  /\ MayShutdown(d)
  /\ \/ /\ devices_data[d] = "ready"
        /\ devices_data' = [devices_data EXCEPT ![d] = "null"]
        /\ buffers' = [b \in DOMAIN buffers |->
                         [dev |-> buffers[b].dev,
                          old |-> buffers[b].old \/ buffers[b].dev = d]]
        /\ UNCHANGED <<envs, present, status>>
     \/ /\ devices_data[d] = "freed"
        /\ Stop({"crash", "abort"})
        /\ UNCHANGED devices_data
  /\ UNCHANGED <<curr, held, call>>

------------------------------------------------------------------------------
\* Data environments (private/data-env.c).

acc_push_data_environment ==
  /\ Idle
  /\ Len(envs) < MaxDepth
  /\ \/ /\ acc_init__({curr})
        /\ envs' = Append(envs, NoEntries)
        /\ UNCHANGED <<present, buffers, status>>
     \/ InitExits({curr})
  /\ UNCHANGED <<curr, held, call>>

\* Mutant: the root environment goes as well.
PopRoot == SubSeq(envs, 1, Len(envs) - 1)

\* The root environment is emptied and stays.
Parents == IF Len(envs) > 1 THEN SubSeq(envs, 1, Len(envs) - 1) ELSE <<NoEntries>>

\* clFinish reaches the queue of the current device only; the data of every
\* device are released.
acc_pop_data_environment ==
  /\ OnCurrent
  /\ MayPop
  /\ \/ BadDevice(curr)
     \/ /\ devices_data[curr] = "ready"
        /\ \/ /\ acc_clear_data_environment
              /\ envs' = Parents
              /\ UNCHANGED status
           \/ ~CanClear /\ BadHandle
  /\ UNCHANGED held

------------------------------------------------------------------------------
\* The calls on a region (acc_copyin_regions_ and its six relatives).

acc_regions_(op, layout) ==
  /\ Idle
  /\ LET ds == {layout[i].dev : i \in DOMAIN layout}
     IN  \/ /\ acc_init__(ds)
            /\ call' = [op |-> op, todo |-> layout]
            /\ UNCHANGED <<data, status>>
         \/ InitExits(ds) /\ UNCHANGED call
  /\ UNCHANGED <<curr, held>>

\* One iteration of their loop.  Devices without a share are passed over.
NextDevice ==
  /\ status = "running"
  /\ call.todo # <<>>
  /\ LET t == Head(call.todo)
     IN  \/ t.n > 0 /\ RegionOp(call.op, t.dev, t.host, t.n)
         \/ t.n = 0 /\ UNCHANGED <<data, status>>
  /\ call' = IF Len(call.todo) = 1
               THEN NoCall
               ELSE [op |-> call.op, todo |-> Tail(call.todo)]
  /\ UNCHANGED <<devices_data, curr, held>>

------------------------------------------------------------------------------
Next ==
  \/ \E d \in Device : acc_set_device_num(d)
  \/ \E d \in Device : acc_init_(d)
  \/ \E d \in Device : acc_shutdown_(d)
  \/ acc_malloc
  \/ \E b \in Buffer : acc_free(b)
  \/ \E b \in Buffer : acc_memcpy(b)
  \/ \E h \in HostPtr, b \in Buffer, n \in Bytes : acc_map_data(h, b, n)
  \/ \E h \in HostPtr : acc_unmap_data(h)
  \/ \E h \in HostPtr, n \in Bytes : acc_delete(h, n)
  \/ \E op \in RegionOps, h \in HostPtr, n \in Bytes : acc_data_call(op, h, n)
  \/ acc_push_data_environment
  \/ acc_pop_data_environment
  \/ \E op \in RegionOps, layout \in Layouts : acc_regions_(op, layout)
  \/ NextDevice

Spec == Init /\ [][Next]_vars

------------------------------------------------------------------------------
\* Properties of every program.

\* No mapping is lost to the environments: what is present on a device is in
\* the set of an open environment, which will release it.
Tracked ==
  \A d \in Device : \A h \in DOMAIN present[d] :
    \E i \in DOMAIN envs : h \in envs[i][d]

\* Two variables never share a buffer of a device, although the driver may give
\* a released handle again and a mapping may outlive its buffer.
NoAliases ==
  \A d \in Device : \A h, k \in DOMAIN present[d] :
    present[d][h].ptr = present[d][k].ptr => h = k

\* The device pointer of a variable does not change while it stays present: a
\* pointer the program got from acc_copyin or acc_deviceptr remains the one the
\* runtime uses, whatever sizes later calls ask for.
StablePointers ==
  [][\A d \in Device : \A h \in DOMAIN present[d] \cap DOMAIN present'[d] :
       present'[d][h] = present[d][h]]_vars

\* Properties of scoped programs.

\* Every entry of an environment is present, on a live buffer of the device's
\* current context, and belongs to no other environment.
ScopesOwnData ==
  \A i \in DOMAIN envs : \A d \in Device : \A h \in envs[i][d] :
    /\ h \in DOMAIN present[d]
    /\ Usable(d, present[d][h].ptr)
    /\ \A j \in DOMAIN envs : h \in envs[j][d] => i = j

\* Nothing leaks and nothing is freed behind the program's back: the live
\* buffers are exactly those that are mapped and those the program holds.
NothingLeaks == DOMAIN buffers = AllMapped \cup held

\* Closing a data environment never stops the program.
PopSucceeds == [][acc_pop_data_environment => status' = "running"]_vars

\* The contents of the scopes: each environment's share of the present tables.
ScopesOf == [i \in DOMAIN envs |->
              [d \in Device |-> [h \in envs[i][d] |-> present[d][h]]]]

Store == INSTANCE ScopedStore WITH scopes <- ScopesOf

\* The shared present tables and the sets of pointers beside them implement
\* nested scopes that own their data.
ImplementsScopedStore == Store!Spec
==============================================================================
