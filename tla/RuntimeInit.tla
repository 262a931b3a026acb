----------------------------- MODULE RuntimeInit -----------------------------
(***************************************************************************)
(* The initialisation of the runtime: acc_init_once (private/init.c), the  *)
(* collection of OpenCL's platforms and devices and their mapping to       *)
(* device types (internal/opencl-init.c), the defaults from the            *)
(* environment (internal/init.c), and the lookups in the result            *)
(* (internal/runtime.c).                                                   *)
(***************************************************************************)
EXTENDS Integers, Sequences, FiniteSets, SequencesExt

CONSTANTS
  Types,      \* acc_device_t without any and last, in the order of the enumeration
  Vendor,     \* model -> the type of its platform (platforms_desc)
  Worlds,     \* what OpenCL may report: per platform its vendor and models
  Unknown,    \* a platform or model that is in no table
  Null        \* the NULL pointer

acc_device_any == "any"
acc_device_last == "last"
Models == DOMAIN Vendor
Vendors == ToSet(Types) \ Models

\* In the enumeration the models of a vendor come after it.
ASSUME InitAssumption ==
  /\ Types \in Seq(ToSet(Types)) /\ IsInjective(Types)
  /\ \A m \in Models : Vendor[m] \in Vendors
  /\ \A m \in Models : \E a, b \in DOMAIN Types : a < b /\ Types[a] = Vendor[m] /\ Types[b] = m
  /\ acc_device_any \notin ToSet(Types) /\ Unknown \notin ToSet(Types)
  /\ Null \notin Nat
  /\ \A w \in Worlds : /\ w \in Seq(ToSet(w))
                       /\ \A p \in DOMAIN w : w[p].models \in Seq(ToSet(w[p].models))

VARIABLES
  world,       \* the platforms of this machine
  flags,       \* acc_runtime.check_list
  pc,          \* the loop that runs: "none", "count", "list" or "map"
  i,           \* its platform
  num_devices, \* devices per platform
  total,       \* num_devices[num_platforms]
  first,       \* devices: per platform the place of its first device, or Null
  filled,      \* devices stored so far
  ranges,      \* acc_runtime.devices: type -> [first, num]
  idx,         \* index of the platform's first device in the mapping
  curr_type,   \* acc_runtime.curr_device_type
  status       \* "running", "abort", "crash"

vars == <<world, flags, pc, i, num_devices, total, first, filled, ranges, idx, curr_type, status>>

Flags == {"f_alloc", "f_acc_sqlite", "f_ocl_devices", "f_acc_devices", "f_ocl_sources",
          "f_acc_defaults", "f_mem_manager", "f_data_env", "f_acc_profiling"}
Platforms == DOMAIN world
Found == [t \in ToSet(Types) \cup {acc_device_any} |-> [first |-> 0, num |-> 0]]

TypeOK ==
  /\ flags \subseteq Flags
  /\ pc \in {"none", "count", "list", "map"}
  /\ i \in 1 .. Len(world) + 1
  /\ num_devices \in [Platforms -> Nat]
  /\ \A p \in Platforms : first[p] = Null \/ first[p] + num_devices[p] <= filled
  /\ filled <= total
  /\ curr_type \in ToSet(Types) \cup {acc_device_any}
  /\ status \in {"running", "abort", "crash"}

Init ==
  /\ world \in Worlds
  /\ flags = {}
  /\ pc = "none"
  /\ i = 1
  /\ num_devices = [p \in Platforms |-> 0]
  /\ total = 0
  /\ first = [p \in Platforms |-> Null]
  /\ filled = 0
  /\ ranges = Found
  /\ idx = 0
  /\ curr_type = acc_device_any
  /\ status = "running"

collected == <<num_devices, total, first, filled>>
mapped == <<ranges, idx>>

\* acc_init_once does its parts in this order, each behind its flag.
Order == <<"f_alloc", "f_acc_sqlite", "f_ocl_devices", "f_acc_devices", "f_ocl_sources",
           "f_acc_defaults", "f_mem_manager", "f_data_env", "f_acc_profiling">>

Turn(f) ==
  /\ status = "running" /\ pc = "none"
  /\ f \notin flags
  /\ \A k \in DOMAIN Order : Order[k] \notin flags => \E n \in 1 .. k : Order[n] = f

------------------------------------------------------------------------------
\* acc_collect_ocl_devices.

\* The platforms: an error leaves the flag unset, which acc_init_once asserts.
\* Without platforms the flag is set and num_devices stays uninitialised.
ListPlatforms ==
  /\ Turn("f_ocl_devices")
  /\ \/ status' = "abort" /\ UNCHANGED <<flags, pc>>
     \/ world = <<>> /\ flags' = flags \cup {"f_ocl_devices"} /\ UNCHANGED <<pc, status>>
     \/ world # <<>> /\ pc' = "count" /\ UNCHANGED <<flags, status>>
  /\ i' = 1
  /\ UNCHANGED <<world, collected, mapped, curr_type>>

\* The number of devices of a platform; a failure is a warning and counts as 0.
CountDevices ==
  /\ status = "running" /\ pc = "count" /\ i \in Platforms
  /\ \E n \in {0, Len(world[i].models)} :
       /\ num_devices' = [num_devices EXCEPT ![i] = n]
       /\ total' = total + n
  /\ i' = i + 1
  /\ UNCHANGED <<world, flags, pc, first, filled, mapped, curr_type, status>>

Counted ==
  /\ status = "running" /\ pc = "count" /\ i \notin Platforms
  /\ pc' = "list"
  /\ i' = 1
  /\ UNCHANGED <<world, flags, collected, mapped, curr_type, status>>

\* The devices of a platform, stored behind those of the platforms before.
ListDevices ==
  /\ status = "running" /\ pc = "list" /\ i \in Platforms
  /\ \/ /\ num_devices[i] # 0
        /\ first' = [first EXCEPT ![i] = filled]
        /\ filled' = filled + num_devices[i]
        /\ UNCHANGED num_devices
     \/ /\ num_devices' = [num_devices EXCEPT ![i] = 0]
        /\ UNCHANGED <<first, filled>>
  /\ i' = i + 1
  /\ UNCHANGED <<world, flags, pc, total, mapped, curr_type, status>>

Listed ==
  /\ status = "running" /\ pc = "list" /\ i \notin Platforms
  /\ flags' = flags \cup {"f_ocl_devices"}
  /\ pc' = "none"
  /\ UNCHANGED <<world, i, collected, mapped, curr_type, status>>

------------------------------------------------------------------------------
\* acc_init_devices, that is acc_init_ocl_devices.

\* Without platforms total is read through the pointer that was not set.
StartMapping ==
  /\ Turn("f_acc_devices")
  /\ i' = 1
  /\ idx' = 0
  /\ \/ /\ world = <<>>
        /\ status' = "crash"
        /\ UNCHANGED <<pc, ranges>>
     \/ /\ \E n \in (IF world = <<>> THEN {0, 1} ELSE {total}) :
             ranges' = [Found EXCEPT ![acc_device_any] = [first |-> 0, num |-> n]]
        /\ pc' = "map"
        /\ UNCHANGED status
  /\ UNCHANGED <<world, flags, collected, curr_type>>

acc_get_platform_desc(p) == IF world[p].vendor \in Vendors THEN world[p].vendor ELSE Unknown

\* Only the models of the platform's own table are looked at.
acc_get_device_desc(p, j) ==
  LET m == world[p].models[j]
  IN  IF m \in Models /\ Vendor[m] = world[p].vendor THEN m ELSE Unknown

\* The devices of a platform fall into runs of equal models; the end of a run
\* registers it, the last one of a model wins.
Runs(p) ==
  LET n == num_devices[p]
      desc(j) == acc_get_device_desc(p, j)
  IN  {r \in [from : 1 .. n, to : 1 .. n] :
         /\ r.from <= r.to
         /\ \A j \in r.from .. r.to : desc(j) = desc(r.from)
         /\ r.from > 1 => desc(r.from - 1) # desc(r.from)
         /\ r.to < n => desc(r.to + 1) # desc(r.to)}

RunsOf(p, m) == {r \in Runs(p) : acc_get_device_desc(p, r.from) = m}
LastRun(p, m) == CHOOSE r \in RunsOf(p, m) : \A q \in RunsOf(p, m) : q.from <= r.from

\* Mutant: base_t stays at the platform's first device.
RegisteredAtPlatform(p) ==
  [t \in DOMAIN ranges |->
     CASE t = acc_get_platform_desc(p) -> [first |-> idx, num |-> num_devices[p]]
       [] t \in Models /\ RunsOf(p, t) # {} ->
            [first |-> idx, num |-> LastRun(p, t).to - LastRun(p, t).from + 1]
       [] OTHER -> ranges[t]]

\* acc_register_platform_desc and acc_register_device_desc.
Registered(p) ==
  [t \in DOMAIN ranges |->
     CASE t = acc_get_platform_desc(p) -> [first |-> idx, num |-> num_devices[p]]
       [] t \in Models /\ RunsOf(p, t) # {} ->
            [first |-> idx + LastRun(p, t).from - 1,
             num |-> LastRun(p, t).to - LastRun(p, t).from + 1]
       [] OTHER -> ranges[t]]

\* Mutant: the index moves on behind the platforms that are known only.
MapKnownOnly ==
  /\ status = "running" /\ pc = "map" /\ i \in Platforms
  /\ \/ /\ acc_get_platform_desc(i) = Unknown
        /\ UNCHANGED <<ranges, status, idx>>
     \/ /\ acc_get_platform_desc(i) # Unknown /\ first[i] # Null
        /\ ranges' = Registered(i)
        /\ idx' = idx + num_devices[i]
        /\ UNCHANGED status
     \/ /\ acc_get_platform_desc(i) # Unknown /\ first[i] = Null
        /\ status' = "crash"
        /\ UNCHANGED <<ranges, idx>>
  /\ i' = i + 1
  /\ UNCHANGED <<world, flags, pc, collected, curr_type>>

\* One platform of the mapping.  The first device of a known one is read
\* through devices[i], whether it has one or not.
MapPlatform ==
  /\ status = "running" /\ pc = "map" /\ i \in Platforms
  /\ \/ /\ acc_get_platform_desc(i) = Unknown
        /\ UNCHANGED <<ranges, status>>
     \/ /\ acc_get_platform_desc(i) # Unknown /\ first[i] # Null
        /\ ranges' = Registered(i)
        /\ UNCHANGED status
     \/ /\ acc_get_platform_desc(i) # Unknown /\ first[i] = Null
        /\ status' = "crash"
        /\ UNCHANGED ranges
  /\ idx' = idx + num_devices[i]
  /\ i' = i + 1
  /\ UNCHANGED <<world, flags, pc, collected, curr_type>>

\* Mutant: the flag is not set.
MappedUnflagged ==
  /\ status = "running" /\ pc = "map" /\ i \notin Platforms
  /\ pc' = "none"
  /\ UNCHANGED <<world, flags, i, collected, mapped, curr_type, status>>

Mapped ==
  /\ status = "running" /\ pc = "map" /\ i \notin Platforms
  /\ flags' = flags \cup {"f_acc_devices"}
  /\ pc' = "none"
  /\ UNCHANGED <<world, i, collected, mapped, curr_type, status>>

------------------------------------------------------------------------------
\* The other parts.

\* ACC_DEVICE_TYPE: the loop ends before the last type of the enumeration.
Named == {acc_device_any} \cup {Types[k] : k \in 1 .. Len(Types) - 1}

acc_init_defaults ==
  /\ Turn("f_acc_defaults")
  /\ curr_type' \in {curr_type} \cup Named
  /\ flags' = flags \cup {"f_acc_defaults"}
  /\ UNCHANGED <<world, pc, i, collected, mapped, status>>

\* Parts whose own state is modelled elsewhere or not at all.
OtherPart(f) ==
  /\ Turn(f)
  /\ flags' = flags \cup {f}
  /\ UNCHANGED <<world, pc, i, collected, mapped, curr_type, status>>

Next ==
  \/ ListPlatforms \/ CountDevices \/ Counted \/ ListDevices \/ Listed
  \/ StartMapping \/ MapPlatform \/ Mapped
  \/ acc_init_defaults
  \/ \E f \in {"f_alloc", "f_acc_sqlite", "f_ocl_sources", "f_mem_manager",
               "f_data_env", "f_acc_profiling"} : OtherPart(f)

Spec == Init /\ [][Next]_vars /\ WF_vars(Next)

------------------------------------------------------------------------------
\* The lookups.

In(k, t) == ranges[t].first <= k /\ k < ranges[t].first + ranges[t].num

acc_device_idx_check_type(k, t) == In(k, t)

\* Mutant: the type that the first loop has found is not passed over.
FirstMatch(k) ==
  LET hits == {n \in DOMAIN Types : In(k, Types[n])}
  IN  IF hits = {} THEN acc_device_last ELSE Types[CHOOSE n \in hits : \A m \in hits : n <= m]

\* The first type with the device is its platform, the next one its model.
acc_get_device_type_by_device_idx(k) ==
  LET hits == {n \in DOMAIN Types : In(k, Types[n])}
      platform == CHOOSE n \in hits : \A m \in hits : n <= m
      rest == hits \ {platform}
  IN  IF hits = {} \/ rest = {} THEN acc_device_last ELSE Types[CHOOSE n \in rest : \A m \in rest : n <= m]

------------------------------------------------------------------------------
\* Properties.

\* The device that is stored as the k-th one, as its platform and its place.
Stored(k) ==
  CHOOSE d \in [p : Platforms, j : 1 .. filled] :
    /\ first[d.p] # Null
    /\ d.j <= num_devices[d.p]
    /\ first[d.p] + d.j - 1 = k
VendorAt(k) == acc_get_platform_desc(Stored(k).p)
ModelAt(k) == acc_get_device_desc(Stored(k).p, Stored(k).j)
TypesAt(k) == {VendorAt(k), ModelAt(k)} \ {Unknown}

Complete == "f_acc_devices" \in flags /\ status = "running" /\ world # <<>>

\* What the comments assume of OpenCL: one platform of a vendor, and in it the
\* devices of a model next to each other.
Sorted ==
  /\ \A p, q \in Platforms : world[p].vendor = world[q].vendor => p = q
  /\ \A p \in Platforms : \A a, b, c \in DOMAIN world[p].models :
       (a < b /\ b < c /\ world[p].models[a] = world[p].models[c])
         => world[p].models[b] = world[p].models[a]

\* A type names devices of this type only, whatever OpenCL's order and whichever
\* queries failed: the indices counted in three loops agree.
RangesSound ==
  Complete => \A t \in ToSet(Types) : \A k \in 0 .. filled :
    In(k, t) => k < filled /\ t \in TypesAt(k)

\* On machines in the assumed order a type names all of its devices.
RangesComplete ==
  (Complete /\ Sorted) => \A k \in 0 .. filled - 1 : \A t \in TypesAt(k) : In(k, t)

\* There the type of a device, which selects its defaults, is its model.
TypeOfDevice ==
  (Complete /\ Sorted) => \A k \in 0 .. filled - 1 :
    acc_get_device_type_by_device_idx(k) = (IF ModelAt(k) = Unknown THEN acc_device_last ELSE ModelAt(k))

\* Initialisation ends with all parts done or with the program, in whatever
\* way OpenCL's queries fail.
InitEnds == <>(flags = Flags \/ status # "running")

\* A platform that has no devices, or does not list them, is worth a warning,
\* and acc_init_once goes on.
EmptyPlatformsTolerated == world # <<>> => status # "crash"
==============================================================================
