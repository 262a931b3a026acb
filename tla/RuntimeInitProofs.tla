------------------------- MODULE RuntimeInitProofs -------------------------
(***************************************************************************)
(* Proofs about module RuntimeInit: on every machine, and whichever of     *)
(* OpenCL's queries fail, the ranges of the device map name devices of     *)
(* their type only, and in the assumed order all of them.                  *)
(*                                                                         *)
(* Three loops count devices on their own: total, the place in devices     *)
(* where a platform's devices begin, and the index that the map gives      *)
(* them.  They are compared through what each of them adds up: base, with  *)
(* the number of devices of the platforms before each.                     *)
(***************************************************************************)
EXTENDS RuntimeInit, Numbers

End == Len(world) + 1

\* The devices of the platforms before each one; the last place has them all.
AddsUp(base, num) ==
  /\ base \in [1 .. End -> Nat]
  /\ base[1] = 0
  /\ \A p \in Platforms : base[p + 1] = base[p] + num[p]
  /\ \A p, q \in 1 .. End : p <= q => base[p] <= base[q]

\* The device array, before, in and after the loops of acc_collect_ocl_devices.
IsListed(base) ==
  /\ filled = base[End] /\ filled <= total
  /\ \A p \in Platforms : first[p] = Null => num_devices[p] = 0

BeingListed(base) ==
  /\ filled = base[i] /\ base[End] <= total
  /\ \A p \in Platforms : p < i /\ first[p] = Null => num_devices[p] = 0
  /\ \A p \in Platforms : i <= p => first[p] = Null

ToBeListed(base) ==
  /\ filled = 0 /\ total = base[End]
  /\ \A p \in Platforms : first[p] = Null
  /\ \A p \in Platforms : pc = "none" \/ (pc = "count" /\ i <= p) => num_devices[p] = 0

Listing(base) ==
  /\ \A p \in Platforms : first[p] # Null => first[p] = base[p]
  /\ "f_ocl_devices" \in flags => IsListed(base)
  /\ "f_ocl_devices" \notin flags /\ pc = "list" => BeingListed(base)
  /\ "f_ocl_devices" \notin flags /\ pc # "list" => ToBeListed(base)

\* Ranges of a platform and of a run of equal models in it.
OfPlatform(base, p) == [first |-> base[p], num |-> num_devices[p]]
OfRun(base, p, r) == [first |-> base[p] + r.from - 1, num |-> r.to - r.from + 1]

\* After the first n - 1 platforms, each range is one of theirs ...
NamesOwn(base, n) ==
  \A t \in ToSet(Types) :
    \/ ranges[t] = [first |-> 0, num |-> 0]
    \/ \E p \in Platforms :
         /\ p < n /\ first[p] # Null
         /\ \/ t = acc_get_platform_desc(p) /\ ranges[t] = OfPlatform(base, p)
            \/ t \in Models /\ \E r \in RunsOf(p, t) : ranges[t] = OfRun(base, p, r)

\* ... and in the assumed order none of them has got lost.
NamesAll(base, n) ==
  Sorted => \A p \in Platforms :
    p < n /\ acc_get_platform_desc(p) # Unknown =>
      /\ ranges[acc_get_platform_desc(p)] = OfPlatform(base, p)
      /\ \A m \in Models : \A r \in RunsOf(p, m) : ranges[m] = OfRun(base, p, r)

Mapping(base) ==
  /\ DOMAIN ranges = ToSet(Types) \cup {acc_device_any}
  /\ pc = "map" => idx = base[i]
  /\ status = "running" =>
       /\ pc = "map" => NamesOwn(base, i) /\ NamesAll(base, i)
       /\ "f_acc_devices" \in flags => NamesOwn(base, End) /\ NamesAll(base, End)

\* The order of the phases.
Phases ==
  /\ pc \in {"count", "list"} => "f_ocl_devices" \notin flags
  /\ pc = "map" => "f_ocl_devices" \in flags /\ "f_acc_devices" \notin flags
  /\ "f_acc_devices" \in flags => "f_ocl_devices" \in flags

Types_ ==
  /\ world \in Worlds
  /\ flags \subseteq Flags
  /\ pc \in {"none", "count", "list", "map"}
  /\ i \in 1 .. End
  /\ num_devices \in [Platforms -> Nat]
  /\ \A p \in Platforms : num_devices[p] \in {0, Len(world[p].models)}
  /\ DOMAIN first = Platforms
  /\ filled \in Nat /\ total \in Nat
  /\ curr_type \in ToSet(Types) \cup {acc_device_any}
  /\ status \in {"running", "abort", "crash"}

InvWith(base) == AddsUp(base, num_devices) /\ Listing(base) /\ Mapping(base)

IInv == Types_ /\ Phases /\ \E base : InvWith(base)

------------------------------------------------------------------------------
\* The machine.

LEMMA WorldFacts ==
  ASSUME world \in Worlds, InitAssumption
  PROVE  /\ Len(world) \in Nat /\ Platforms = 1 .. Len(world) /\ End \in Nat \ {0}
         /\ \A p \in Platforms : /\ Len(world[p].models) \in Nat
                                 /\ DOMAIN world[p].models = 1 .. Len(world[p].models)
                                 /\ p \in 1 .. End /\ p + 1 \in 1 .. End
<1>1. world \in Seq(ToSet(world))
  BY DEF InitAssumption
<1>2. \A p \in Platforms : world[p].models \in Seq(ToSet(world[p].models))
  BY DEF InitAssumption, Platforms
<1> QED BY <1>1, <1>2 DEF Platforms, End

LEMMA VendorFacts ==
  ASSUME InitAssumption, NEW p \in Platforms
  PROVE  /\ acc_get_platform_desc(p) # Unknown =>
              /\ acc_get_platform_desc(p) = world[p].vendor
              /\ acc_get_platform_desc(p) \in Vendors
         /\ Vendors \subseteq ToSet(Types) /\ Models \subseteq ToSet(Types)
         /\ Unknown \notin Models /\ Unknown \notin Vendors /\ Models \cap Vendors = {}
<1>1. \A b \in DOMAIN Types : Types[b] \in ToSet(Types)
  BY DEF ToSet
<1>2. Models \subseteq ToSet(Types)
  BY <1>1 DEF InitAssumption
<1> QED BY <1>2 DEF InitAssumption, acc_get_platform_desc, Vendors

\* The model of a device, where it is known.
LEMMA ModelFacts ==
  ASSUME InitAssumption, NEW p \in Platforms, NEW j, NEW m, m # Unknown,
         acc_get_device_desc(p, j) = m
  PROVE  /\ m \in Models /\ Vendor[m] = world[p].vendor /\ world[p].models[j] = m
         /\ acc_get_platform_desc(p) # Unknown
<1>1. m \in Models /\ Vendor[m] = world[p].vendor /\ world[p].models[j] = m
  BY DEF acc_get_device_desc
<1>2. Vendor[m] \in Vendors
  BY <1>1 DEF InitAssumption
<1> QED BY <1>1, <1>2, VendorFacts DEF acc_get_platform_desc

LEMMA RunFacts ==
  ASSUME Types_, InitAssumption, NEW p \in Platforms, NEW m \in Models, NEW r \in RunsOf(p, m)
  PROVE  /\ r = [from |-> r.from, to |-> r.to]
         /\ r.from \in 1 .. num_devices[p] /\ r.to \in 1 .. num_devices[p] /\ r.from <= r.to
         /\ num_devices[p] = Len(world[p].models)
         /\ \A j \in r.from .. r.to : acc_get_device_desc(p, j) = m
         /\ r.from > 1 => acc_get_device_desc(p, r.from - 1) # m
         /\ r.to < num_devices[p] => acc_get_device_desc(p, r.to + 1) # m
<1>1. r \in Runs(p) /\ acc_get_device_desc(p, r.from) = m
  BY DEF RunsOf
<1>2. /\ r \in [from : 1 .. num_devices[p], to : 1 .. num_devices[p]]
      /\ r.from <= r.to
      /\ \A j \in r.from .. r.to : acc_get_device_desc(p, j) = acc_get_device_desc(p, r.from)
      /\ r.from > 1 => acc_get_device_desc(p, r.from - 1) # acc_get_device_desc(p, r.from)
      /\ r.to < num_devices[p] => acc_get_device_desc(p, r.to + 1) # acc_get_device_desc(p, r.from)
  BY <1>1 DEF Runs
<1>3. num_devices[p] \in {0, Len(world[p].models)}
  BY DEF Types_
<1>4. num_devices[p] \in Nat
  BY DEF Types_
<1> QED BY <1>1, <1>2, <1>3, <1>4

\* The last run of a model is one of its runs.
LEMMA LastRunFacts ==
  ASSUME Types_, InitAssumption, NEW p \in Platforms, NEW m \in Models, RunsOf(p, m) # {}
  PROVE  LastRun(p, m) \in RunsOf(p, m)
<1> DEFINE Froms == {r.from : r \in RunsOf(p, m)}
<1>1. num_devices[p] \in Nat
  BY DEF Types_
<1>2. Froms \subseteq 0 .. num_devices[p]
  BY RunFacts, <1>1
<1>3. Froms # {}
  <2>1. PICK r : r \in RunsOf(p, m)
    OBVIOUS
  <2>2. r.from \in Froms
    BY <2>1
  <2> QED BY <2>2
<1> HIDE DEF Froms
<1>4. PICK f \in Froms : \A g \in Froms : g <= f
  BY <1>1, <1>2, <1>3, GreatestNumber
<1>5. PICK r \in RunsOf(p, m) : r.from = f
  BY <1>4 DEF Froms
<1>6. \A q \in RunsOf(p, m) : q.from <= r.from
  BY <1>4, <1>5 DEF Froms
<1> QED BY <1>5, <1>6 DEF LastRun

\* In the assumed order the devices of a model are one run.
LEMMA OneRun ==
  ASSUME Types_, InitAssumption, Sorted, NEW p \in Platforms, NEW m \in Models,
         NEW r \in RunsOf(p, m), NEW q \in RunsOf(p, m)
  PROVE  r = q
<1> DEFINE n == num_devices[p]
           Is(j) == acc_get_device_desc(p, j) = m
<1>1. \A s \in RunsOf(p, m) :
        /\ s = [from |-> s.from, to |-> s.to]
        /\ s.from \in 1 .. n /\ s.to \in 1 .. n /\ s.from <= s.to
        /\ \A j \in s.from .. s.to : Is(j)
        /\ s.from > 1 => ~Is(s.from - 1)
        /\ s.to < n => ~Is(s.to + 1)
  BY RunFacts
<1>2. n \in Nat /\ DOMAIN world[p].models = 1 .. n
  BY RunFacts, WorldFacts DEF Types_
<1>3. ASSUME NEW a \in 1 .. n, NEW b \in 1 .. n, NEW c \in 1 .. n, a < b, b < c, Is(a), Is(c)
      PROVE  Is(b)
  <2>1. m # Unknown
    BY VendorFacts
  <2>2. world[p].models[a] = m /\ world[p].models[c] = m /\ Vendor[m] = world[p].vendor
    BY <1>3, <2>1, ModelFacts
  <2>3. world[p].models[b] = m
    <3>1. /\ a \in DOMAIN world[p].models /\ b \in DOMAIN world[p].models
          /\ c \in DOMAIN world[p].models
      BY <1>2
    <3> QED BY <1>3, <2>2, <3>1 DEF Sorted
  <2> QED BY <2>2, <2>3 DEF acc_get_device_desc
<1> HIDE DEF n, Is
<1>4. ASSUME NEW s \in RunsOf(p, m), NEW u \in RunsOf(p, m)
      PROVE  u.from <= s.to
  <2>1. SUFFICES ASSUME s.to < u.from
                 PROVE  FALSE
    BY <1>1, <1>2
  <2>2. s.to \in s.from .. s.to /\ u.from \in u.from .. u.to
    BY <1>1, <1>2
  <2>3. Is(s.to) /\ Is(u.from)
    BY <1>1, <2>2
  <2>4. s.to + 1 \in 1 .. n /\ s.to < n
    BY <1>1, <1>2, <2>1
  <2>5. Is(s.to + 1)
    <3>1. CASE s.to + 1 = u.from
      BY <2>3, <3>1
    <3>2. CASE s.to + 1 < u.from
      BY <1>1, <1>2, <1>3, <2>3, <2>4, <3>2
    <3> QED BY <1>1, <1>2, <2>1, <3>1, <3>2
  <2> QED BY <1>1, <2>4, <2>5
<1>5. ASSUME NEW s \in RunsOf(p, m), NEW u \in RunsOf(p, m)
      PROVE  u.from <= s.from /\ s.to <= u.to
  <2>1. u.from <= s.to /\ s.from <= u.to
    BY <1>4
  <2>2. u.from <= s.from
    <3>1. SUFFICES ASSUME s.from < u.from
                   PROVE  FALSE
      BY <1>1, <1>2
    <3>2. u.from - 1 \in s.from .. s.to /\ u.from > 1
      BY <1>1, <1>2, <2>1, <3>1
    <3> QED BY <1>1, <3>2
  <2>3. s.to <= u.to
    <3>1. SUFFICES ASSUME u.to < s.to
                   PROVE  FALSE
      BY <1>1, <1>2
    <3>2. u.to + 1 \in s.from .. s.to /\ u.to < n
      BY <1>1, <1>2, <2>1, <3>1
    <3> QED BY <1>1, <3>2
  <2> QED BY <2>2, <2>3
<1>6. r.from = q.from /\ r.to = q.to
  BY <1>1, <1>2, <1>5
<1> QED BY <1>1, <1>6

\* Every device of a known model is in a run of it.
LEMMA RunExists ==
  ASSUME Types_, InitAssumption, NEW p \in Platforms, NEW j \in 1 .. num_devices[p],
         NEW m \in Models, acc_get_device_desc(p, j) = m
  PROVE  \E r \in RunsOf(p, m) : r.from <= j /\ j <= r.to
<1> DEFINE n == num_devices[p]
           Is(x) == acc_get_device_desc(p, x) = m
           Before == {a \in 1 .. j : \A x \in a .. j : Is(x)}
           Behind == {b \in j .. n : \A x \in j .. b : Is(x)}
<1>1. n \in Nat
  BY DEF Types_
<1>2. j \in Before /\ j \in Behind
  BY <1>1
<1>3. PICK a \in Before : \A y \in Before : a <= y
  <2>1. Before \subseteq Nat
    OBVIOUS
  <2> HIDE DEF Before
  <2> QED BY <1>2, <2>1, LeastNumber
<1>4. PICK b \in Behind : \A y \in Behind : y <= b
  <2>1. Behind \subseteq 0 .. n
    BY <1>1
  <2> HIDE DEF Behind
  <2> QED BY <1>1, <1>2, <2>1, GreatestNumber
<1>5. a \in 1 .. j /\ b \in j .. n /\ \A x \in a .. b : Is(x)
  BY <1>1, <1>3, <1>4
<1> HIDE DEF Is, n
<1>6. a > 1 => ~Is(a - 1)
  <2>1. a > 1 /\ Is(a - 1) => a - 1 \in 1 .. j /\ \A x \in a - 1 .. j : Is(x)
    BY <1>5
  <2>2. a > 1 /\ Is(a - 1) => a - 1 \in Before
    BY <2>1
  <2>3. \A y \in Before : y \in Int /\ a <= y
    BY <1>3
  <2> HIDE DEF Before, Behind
  <2> QED BY <1>5, <2>2, <2>3
<1>7. b < n => ~Is(b + 1)
  <2>1. b < n /\ Is(b + 1) => b + 1 \in j .. n /\ \A x \in j .. b + 1 : Is(x)
    BY <1>1, <1>5
  <2>2. b < n /\ Is(b + 1) => b + 1 \in Behind
    BY <2>1
  <2>3. \A y \in Behind : y <= b
    BY <1>4
  <2> HIDE DEF Before, Behind
  <2> QED BY <1>1, <1>5, <2>2, <2>3
<1> USE DEF Is, n
<1> DEFINE r == [from |-> a, to |-> b]
<1>8. r \in Runs(p)
  BY <1>1, <1>5, <1>6, <1>7 DEF Runs
<1>9. r \in RunsOf(p, m)
  BY <1>5, <1>8 DEF RunsOf
<1> QED BY <1>5, <1>9

------------------------------------------------------------------------------
\* The steps.  The world does not change, and most steps leave what was added up.

LEMMA Orders ==
  ASSUME NEW f, Turn(f)
  PROVE  /\ f = "f_acc_devices" => "f_ocl_devices" \in flags
         /\ f \notin flags /\ status = "running" /\ pc = "none"
<1>1. DOMAIN Order = 1 .. 9 /\ Order[3] = "f_ocl_devices"
      /\ Order[1] # "f_acc_devices" /\ Order[2] # "f_acc_devices" /\ Order[3] # "f_acc_devices"
  BY DEF Order
<1>2. Order[3] \notin flags => \E n \in 1 .. 3 : Order[n] = f
  BY <1>1 DEF Turn
<1>3. f = "f_acc_devices" => "f_ocl_devices" \in flags
  BY <1>1, <1>2
<1> QED BY <1>3 DEF Turn

\* The descriptions depend on what does not change in the mapping.
LEMMA SameDescs ==
  ASSUME world' = world, num_devices' = num_devices
  PROVE  /\ \A p : acc_get_platform_desc(p)' = acc_get_platform_desc(p)
         /\ \A p, m : RunsOf(p, m)' = RunsOf(p, m)
         /\ \A base, p : OfPlatform(base, p)' = OfPlatform(base, p)
         /\ Platforms' = Platforms /\ End' = End /\ Sorted' = Sorted
BY DEF acc_get_platform_desc, RunsOf, Runs, acc_get_device_desc, OfPlatform, Platforms, End, Sorted

LEMMA SameNames ==
  ASSUME world' = world, num_devices' = num_devices, first' = first, ranges' = ranges,
         NEW base, NEW n
  PROVE  /\ NamesOwn(base, n) => NamesOwn(base, n)'
         /\ NamesAll(base, n) => NamesAll(base, n)'
<1>1. Platforms' = Platforms /\ (Sorted' <=> Sorted)
  BY SameDescs
<1>2. \A p : acc_get_platform_desc(p)' = acc_get_platform_desc(p)
  BY SameDescs
<1>3. \A p, m : RunsOf(p, m)' = RunsOf(p, m)
  BY SameDescs
<1>4. \A p : OfPlatform(base, p)' = OfPlatform(base, p)
  BY SameDescs
<1>5. NamesOwn(base, n) => NamesOwn(base, n)'
  BY <1>1, <1>2, <1>3, <1>4 DEF NamesOwn, OfRun
<1>6. NamesAll(base, n) => NamesAll(base, n)'
  BY <1>1, <1>2, <1>3, <1>4 DEF NamesAll, OfRun
<1> QED BY <1>5, <1>6

\* A step outside of the loops.
LEMMA OutsideStep ==
  ASSUME IInv, InitAssumption, UNCHANGED <<world, pc, i, collected, mapped, status>>,
         flags \subseteq flags', flags' \subseteq Flags, pc = "none",
         curr_type' \in ToSet(Types) \cup {acc_device_any},
         "f_ocl_devices" \in flags' => "f_ocl_devices" \in flags,
         "f_acc_devices" \in flags' => "f_acc_devices" \in flags
  PROVE  IInv'
<1>1. PICK base : InvWith(base)
  BY DEF IInv
<1>2. /\ num_devices' = num_devices /\ total' = total /\ first' = first /\ filled' = filled
      /\ ranges' = ranges /\ idx' = idx /\ world' = world /\ End' = End /\ Platforms' = Platforms
  BY DEF collected, mapped, End, Platforms
<1>3. AddsUp(base, num_devices)'
  BY <1>1, <1>2 DEF InvWith, AddsUp
<1>4. Listing(base)'
  BY <1>1, <1>2 DEF InvWith, Listing, IsListed, ToBeListed, BeingListed
<1>5. Mapping(base)'
  <2>1. NamesOwn(base, End) => NamesOwn(base, End)'
    BY <1>2, SameNames
  <2>2. NamesAll(base, End) => NamesAll(base, End)'
    BY <1>2, SameNames
  <2>3. Mapping(base)
    BY <1>1 DEF InvWith
  <2> QED BY <1>2, <2>1, <2>2, <2>3 DEF Mapping
<1>6. Types_' /\ Phases'
  BY <1>2 DEF IInv, Types_, Phases
<1> QED BY <1>3, <1>4, <1>5, <1>6 DEF IInv, InvWith

LEMMA ListPlatformsStep ==
  ASSUME IInv, InitAssumption, ListPlatforms
  PROVE  IInv'
<1>1. PICK base : InvWith(base)
  BY DEF IInv
<1>2. /\ num_devices' = num_devices /\ total' = total /\ first' = first /\ filled' = filled
      /\ ranges' = ranges /\ idx' = idx /\ world' = world /\ End' = End /\ Platforms' = Platforms
      /\ i' = 1 /\ curr_type' = curr_type
  BY DEF collected, mapped, End, Platforms, ListPlatforms
<1>3. "f_ocl_devices" \notin flags /\ "f_acc_devices" \notin flags /\ pc = "none" /\ status = "running"
  BY Orders DEF ListPlatforms, IInv, Phases
<1>4. /\ Platforms = 1 .. Len(world) /\ End \in Nat \ {0} /\ End = Len(world) + 1
      /\ world = <<>> => Platforms = {} /\ End = 1
  BY WorldFacts DEF IInv, Types_, End
<1>5. AddsUp(base, num_devices)'
  BY <1>1, <1>2 DEF InvWith, AddsUp
<1>6. ToBeListed(base) /\ base[1] = 0 /\ pc' \in {"none", "count"}
  BY <1>1, <1>3 DEF InvWith, Listing, AddsUp, ListPlatforms
<1>7. Listing(base)'
  <2>1. CASE "f_ocl_devices" \in flags'
    <3>1. world = <<>>
      BY <1>3, <2>1 DEF ListPlatforms
    <3> QED BY <1>2, <1>3, <1>4, <1>6, <2>1, <3>1 DEF Listing, IsListed, ToBeListed
  <2>2. CASE "f_ocl_devices" \notin flags'
    BY <1>2, <1>3, <1>6, <2>2 DEF Listing, ToBeListed
  <2> QED BY <2>1, <2>2
<1>8. "f_acc_devices" \notin flags' /\ flags' \subseteq Flags /\ status' \in {"running", "abort"}
      /\ (pc' = "count" => "f_ocl_devices" \notin flags')
  BY <1>3 DEF ListPlatforms, IInv, Types_, Flags
<1>9. Mapping(base)'
  BY <1>1, <1>2, <1>6, <1>8 DEF InvWith, Mapping
<1>10. Types_' /\ Phases'
  BY <1>2, <1>4, <1>6, <1>8 DEF IInv, Types_, Phases
<1> QED BY <1>5, <1>7, <1>9, <1>10 DEF IInv, InvWith

\* The platforms from i on have no devices yet: those after it are moved by n.
LEMMA CountDevicesStep ==
  ASSUME IInv, InitAssumption, CountDevices
  PROVE  IInv'
<1>1. PICK base : InvWith(base)
  BY DEF IInv
<1>2. PICK n \in {0, Len(world[i].models)} :
        num_devices' = [num_devices EXCEPT ![i] = n] /\ total' = total + n
  BY DEF CountDevices
<1>3. /\ first' = first /\ filled' = filled /\ i' = i + 1 /\ flags' = flags /\ pc' = pc
      /\ ranges' = ranges /\ idx' = idx /\ world' = world /\ End' = End /\ Platforms' = Platforms
      /\ curr_type' = curr_type /\ status' = status
      /\ i \in Platforms /\ pc = "count"
  BY DEF mapped, End, Platforms, CountDevices
<1>4. "f_ocl_devices" \notin flags /\ "f_acc_devices" \notin flags
  BY <1>3 DEF IInv, Phases
<1>5. /\ Platforms = 1 .. Len(world) /\ End \in Nat \ {0} /\ End = Len(world) + 1
      /\ n \in Nat
  BY <1>2, <1>3, WorldFacts DEF IInv, Types_, End
<1>6. ToBeListed(base) /\ AddsUp(base, num_devices) /\ num_devices \in [Platforms -> Nat]
  BY <1>1, <1>3, <1>4 DEF InvWith, Listing, IInv, Types_
<1>12. i \in 1 .. End /\ base \in [1 .. End -> Nat]
  BY <1>6 DEF AddsUp, IInv, Types_
<1> PICK moved : moved = [k \in 1 .. End |-> IF k <= i THEN base[k] ELSE base[k] + n]
  OBVIOUS
<1>7. AddsUp(moved, num_devices)'
  <2>1. moved \in [1 .. End -> Nat] /\ moved[1] = 0
    BY <1>3, <1>5, <1>6 DEF AddsUp
  <2>2. ASSUME NEW p \in Platforms
        PROVE  moved[p + 1] = moved[p] + num_devices'[p]
    <3>1. base[p + 1] = base[p] + num_devices[p] /\ p \in 1 .. End /\ p + 1 \in 1 .. End
      BY <1>5, <1>6 DEF AddsUp
    <3>2. base[p] \in Nat /\ base[p + 1] \in Nat /\ num_devices[p] \in Nat /\ i \in Nat /\ p \in Nat
      <4>1. base[p] \in Nat /\ base[p + 1] \in Nat
        BY ONLY <1>12, <3>1
      <4>2. num_devices[p] \in Nat
        BY ONLY <1>6, p \in Platforms
      <4>3. i \in Nat /\ p \in Nat
        BY ONLY <1>12, <3>1
      <4> QED BY <4>1, <4>2, <4>3
    <3>3. i = p => num_devices[p] = 0
      BY <1>3, <1>5, <1>6, <3>2 DEF ToBeListed
    <3>4. num_devices'[p] = IF p = i THEN n ELSE num_devices[p]
      BY <1>2, <1>3, <1>6
    <3>5. /\ moved[p] = IF p <= i THEN base[p] ELSE base[p] + n
          /\ moved[p + 1] = IF p + 1 <= i THEN base[p + 1] ELSE base[p + 1] + n
      BY <3>1
    <3>6. ~(p <= i) => num_devices[p] = num_devices'[p]
      BY <3>2, <3>4
    <3> QED BY <1>5, <3>1, <3>2, <3>3, <3>4, <3>5
  <2>3. \A p, q \in 1 .. End : p <= q => base[p] <= base[q]
    BY <1>6 DEF AddsUp
  <2>4. ASSUME NEW p \in 1 .. End, NEW q \in 1 .. End, p <= q
        PROVE  moved[p] <= moved[q]
    <3>1. base[p] \in Nat /\ base[q] \in Nat /\ base[p] <= base[q] /\ i \in Int /\ p \in Int /\ q \in Int
      BY <1>5, <1>12, <2>3, <2>4
    <3> QED BY <1>5, <2>4, <3>1
  <2> QED BY <1>3, <2>1, <2>2, <2>4 DEF AddsUp
<1>8. moved[End] = base[End] + n
  BY <1>3, <1>5
<1>9. Listing(moved)'
  <2>1. \A p \in Platforms : i + 1 <= p => num_devices'[p] = 0
    BY <1>2, <1>3, <1>5, <1>6 DEF ToBeListed
  <2>2. total' = moved[End]
    BY <1>2, <1>6, <1>8 DEF ToBeListed
  <2> QED BY <1>3, <1>4, <1>6, <2>1, <2>2 DEF Listing, ToBeListed
<1>10. Mapping(moved)'
  BY <1>1, <1>3, <1>4 DEF InvWith, Mapping
<1>11. Types_' /\ Phases'
  BY <1>2, <1>3, <1>4, <1>5 DEF IInv, Types_, Phases
<1> QED BY <1>7, <1>9, <1>10, <1>11 DEF IInv, InvWith

LEMMA CountedStep ==
  ASSUME IInv, InitAssumption, Counted
  PROVE  IInv'
<1>1. PICK base : InvWith(base)
  BY DEF IInv
<1>2. /\ num_devices' = num_devices /\ total' = total /\ first' = first /\ filled' = filled
      /\ ranges' = ranges /\ idx' = idx /\ world' = world /\ End' = End /\ Platforms' = Platforms
      /\ i' = 1 /\ curr_type' = curr_type /\ flags' = flags /\ status' = status
      /\ pc = "count" /\ pc' = "list"
  BY DEF collected, mapped, End, Platforms, Counted
<1>3. "f_ocl_devices" \notin flags /\ "f_acc_devices" \notin flags
  BY <1>2 DEF IInv, Phases
<1>4. Platforms = 1 .. Len(world) /\ End \in Nat \ {0}
  BY WorldFacts DEF IInv, Types_
<1>5. ToBeListed(base) /\ AddsUp(base, num_devices)
  BY <1>1, <1>2, <1>3 DEF InvWith, Listing
<1>6. AddsUp(base, num_devices)'
  BY <1>2, <1>5 DEF AddsUp
<1>7. Listing(base)'
  <2>1. base[1] = 0 /\ base[End] \in Nat /\ \A p \in Platforms : ~(p < 1)
    BY <1>4, <1>5 DEF AddsUp
  <2> QED BY <1>2, <1>3, <1>5, <2>1 DEF Listing, ToBeListed, BeingListed
<1>8. Mapping(base)'
  BY <1>1, <1>2, <1>3 DEF InvWith, Mapping
<1>9. Types_' /\ Phases'
  BY <1>2, <1>3, <1>4 DEF IInv, Types_, Phases
<1> QED BY <1>6, <1>7, <1>8, <1>9 DEF IInv, InvWith

\* A platform's devices go behind those listed before; where they cannot be
\* listed the platforms after it move down.
LEMMA ListDevicesStep ==
  ASSUME IInv, InitAssumption, ListDevices
  PROVE  IInv'
<1>1. PICK base : InvWith(base)
  BY DEF IInv
<1>2. /\ total' = total /\ i' = i + 1 /\ flags' = flags /\ pc' = pc
      /\ ranges' = ranges /\ idx' = idx /\ world' = world /\ End' = End /\ Platforms' = Platforms
      /\ curr_type' = curr_type /\ status' = status
      /\ i \in Platforms /\ pc = "list"
  BY DEF mapped, End, Platforms, ListDevices
<1>3. "f_ocl_devices" \notin flags /\ "f_acc_devices" \notin flags
  BY <1>2 DEF IInv, Phases
<1>4. /\ Platforms = 1 .. Len(world) /\ End \in Nat \ {0} /\ End = Len(world) + 1
      /\ Null \notin Nat
  BY WorldFacts DEF IInv, Types_, End, InitAssumption
<1>5. /\ BeingListed(base) /\ AddsUp(base, num_devices) /\ num_devices \in [Platforms -> Nat]
      /\ DOMAIN first = Platforms /\ filled \in Nat /\ total \in Nat
      /\ \A p \in Platforms : first[p] # Null => first[p] = base[p]
  BY <1>1, <1>2, <1>3 DEF InvWith, Listing, IInv, Types_
<1>6. /\ i \in 1 .. End /\ i + 1 \in 1 .. End /\ base \in [1 .. End -> Nat]
      /\ base[i + 1] = base[i] + num_devices[i]
  BY <1>2, <1>4, <1>5 DEF AddsUp
<1>7. CASE /\ first' = [first EXCEPT ![i] = filled]
           /\ filled' = filled + num_devices[i] /\ num_devices' = num_devices
  <2>1. AddsUp(base, num_devices)'
    BY <1>2, <1>5, <1>7 DEF AddsUp
  <2>2. filled' = base[i + 1] /\ filled = base[i] /\ base[End] <= total
    BY <1>5, <1>6, <1>7 DEF BeingListed
  <2>3. first'[i] = base[i] /\ first'[i] # Null /\ \A p \in Platforms : p # i => first'[p] = first[p]
    BY <1>2, <1>4, <1>5, <1>6, <1>7, <2>2
  <2>4. \A p \in Platforms : p < i + 1 /\ first'[p] = Null => num_devices'[p] = 0
    BY <1>2, <1>4, <1>5, <1>7, <2>3 DEF BeingListed
  <2>5. \A p \in Platforms : i + 1 <= p => first'[p] = Null
    BY <1>2, <1>4, <1>5, <2>3 DEF BeingListed
  <2>6. Listing(base)'
    BY <1>2, <1>3, <1>5, <2>2, <2>3, <2>4, <2>5 DEF Listing, BeingListed
  <2>7. Mapping(base)'
    BY <1>1, <1>2, <1>3 DEF InvWith, Mapping
  <2>8. Types_' /\ Phases'
    BY <1>2, <1>3, <1>5, <1>6, <1>7 DEF IInv, Types_, Phases
  <2> QED BY <2>1, <2>6, <2>7, <2>8 DEF IInv, InvWith
<1>8. CASE num_devices' = [num_devices EXCEPT ![i] = 0] /\ first' = first /\ filled' = filled
  <2> DEFINE n == num_devices[i]
  <2> PICK moved : moved = [k \in 1 .. End |-> IF k <= i THEN base[k] ELSE base[k] - n]
    OBVIOUS
  <2>1. \A k \in 1 .. End : i + 1 <= k => base[k] >= base[i] + n
    BY <1>5, <1>6 DEF AddsUp
  <2>2. n \in Nat
    BY <1>2, <1>5
  <2>3. \A p, q \in 1 .. End : p <= q => base[p] <= base[q]
    BY <1>5 DEF AddsUp
  <2> HIDE DEF n
  <2>4. moved \in [1 .. End -> Nat] /\ moved[1] = 0
    <3>1. base[1] = 0
      BY <1>5 DEF AddsUp
    <3>2. ASSUME NEW k \in 1 .. End
          PROVE  IF k <= i THEN moved[k] = base[k] ELSE moved[k] = base[k] - n
      OBVIOUS
    <3>3. ASSUME NEW k \in 1 .. End
          PROVE  moved[k] \in Nat
      <4>1. base[k] \in Nat /\ base[i] \in Nat /\ k \in Int /\ i \in Int
        BY <1>4, <1>6
      <4> QED BY <2>1, <2>2, <3>2, <4>1
    <3> QED BY <1>4, <1>6, <3>1, <3>2, <3>3
  <2>5. ASSUME NEW p \in Platforms
        PROVE  moved[p + 1] = moved[p] + num_devices'[p]
    <3>1. base[p + 1] = base[p] + num_devices[p] /\ p \in 1 .. End /\ p + 1 \in 1 .. End
      BY <1>4, <1>5 DEF AddsUp
    <3>2. base[p] \in Nat /\ base[p + 1] \in Nat /\ num_devices[p] \in Nat
      BY <1>5, <1>6, <3>1
    <3>3. num_devices'[p] = IF p = i THEN 0 ELSE num_devices[p]
      BY <1>2, <1>5, <1>8
    <3> QED BY <1>4, <1>6, <2>2, <3>1, <3>2, <3>3 DEF n
  <2>6. \A p, q \in 1 .. End : p <= q => moved[p] <= moved[q]
    <3>1. SUFFICES ASSUME NEW p \in 1 .. End, NEW q \in 1 .. End, p <= q
                   PROVE  moved[p] <= moved[q]
      OBVIOUS
    <3>2. moved[p] = IF p <= i THEN base[p] ELSE base[p] - n
      OBVIOUS
    <3>3. moved[q] = IF q <= i THEN base[q] ELSE base[q] - n
      OBVIOUS
    <3>4. p \in Int /\ q \in Int /\ i \in Int
      BY <1>4, <1>6
    <3>5. base[p] \in Nat /\ base[q] \in Nat /\ base[i] \in Nat
      BY <1>6
    <3>6. base[p] <= base[q] /\ (p <= i => base[p] <= base[i])
      BY <1>6, <2>3, <3>1
    <3>7. i + 1 <= q => base[q] >= base[i] + n
      BY <2>1
    <3> QED BY ONLY <2>2, <3>1, <3>2, <3>3, <3>4, <3>5, <3>6, <3>7
  <2>7. AddsUp(moved, num_devices)'
    BY <1>2, <2>4, <2>5, <2>6 DEF AddsUp
  <2>8. filled' = moved[i + 1] /\ moved[End] <= total
    <3>1. moved[i + 1] = base[i + 1] - n /\ base[i + 1] = base[i] + n
      BY <1>4, <1>6 DEF n
    <3>2. moved[End] = base[End] - n /\ base[End] \in Nat /\ End \in 1 .. End
      <4>1. End \in 1 .. End /\ ~(End <= i)
        BY ONLY <1>4, <1>6
      <4>2. moved[End] = IF End <= i THEN base[End] ELSE base[End] - n
        BY <4>1
      <4> QED BY <1>6, <4>1, <4>2
    <3> QED BY <1>5, <1>6, <1>8, <2>2, <3>1, <3>2 DEF BeingListed
  <2>9. \A p \in Platforms : first[p] # Null => p < i /\ first[p] = moved[p]
    BY <1>2, <1>4, <1>5 DEF BeingListed
  <2>10. \A p \in Platforms : p < i + 1 /\ first'[p] = Null => num_devices'[p] = 0
    BY <1>2, <1>4, <1>5, <1>8 DEF BeingListed
  <2>11. \A p \in Platforms : i + 1 <= p => first'[p] = Null
    BY <1>2, <1>4, <1>5, <1>8 DEF BeingListed
  <2>12. Listing(moved)'
    BY <1>2, <1>3, <1>8, <2>8, <2>9, <2>10, <2>11 DEF Listing, BeingListed
  <2>13. Mapping(moved)'
    BY <1>1, <1>2, <1>3 DEF InvWith, Mapping
  <2>14. Types_' /\ Phases'
    BY <1>2, <1>3, <1>5, <1>6, <1>8 DEF IInv, Types_, Phases
  <2> QED BY <2>7, <2>12, <2>13, <2>14 DEF IInv, InvWith
<1> QED BY <1>7, <1>8 DEF ListDevices

LEMMA ListedStep ==
  ASSUME IInv, InitAssumption, Listed
  PROVE  IInv'
<1>1. PICK base : InvWith(base)
  BY DEF IInv
<1>2. /\ num_devices' = num_devices /\ total' = total /\ first' = first /\ filled' = filled
      /\ ranges' = ranges /\ idx' = idx /\ world' = world /\ End' = End /\ Platforms' = Platforms
      /\ i' = i /\ curr_type' = curr_type /\ flags' = flags \cup {"f_ocl_devices"} /\ status' = status
      /\ pc = "list" /\ pc' = "none" /\ i \notin Platforms
  BY DEF collected, mapped, End, Platforms, Listed
<1>3. "f_ocl_devices" \notin flags /\ "f_acc_devices" \notin flags
  BY <1>2 DEF IInv, Phases
<1>4. i = End /\ \A p \in Platforms : p < i
  BY <1>2, WorldFacts DEF IInv, Types_, End
<1>5. BeingListed(base) /\ AddsUp(base, num_devices)
  BY <1>1, <1>2, <1>3 DEF InvWith, Listing
<1>6. AddsUp(base, num_devices)'
  BY <1>2, <1>5 DEF AddsUp
<1>7. Listing(base)'
  BY <1>1, <1>2, <1>4, <1>5 DEF InvWith, Listing, IsListed, BeingListed
<1>8. Mapping(base)'
  BY <1>1, <1>2, <1>3 DEF InvWith, Mapping
<1>9. Types_' /\ Phases'
  BY <1>2, <1>3 DEF IInv, Types_, Phases, Flags
<1> QED BY <1>6, <1>7, <1>8, <1>9 DEF IInv, InvWith

------------------------------------------------------------------------------
\* The mapping.

LEMMA StartMappingStep ==
  ASSUME IInv, InitAssumption, StartMapping
  PROVE  IInv'
<1>1. PICK base : InvWith(base)
  BY DEF IInv
<1>2. /\ num_devices' = num_devices /\ total' = total /\ first' = first /\ filled' = filled
      /\ world' = world /\ End' = End /\ Platforms' = Platforms
      /\ i' = 1 /\ idx' = 0 /\ curr_type' = curr_type /\ flags' = flags
  BY DEF collected, End, Platforms, StartMapping
<1>3. "f_ocl_devices" \in flags /\ "f_acc_devices" \notin flags /\ pc = "none" /\ status = "running"
  BY Orders DEF StartMapping
<1>4. Platforms = 1 .. Len(world) /\ End \in Nat \ {0}
  BY WorldFacts DEF IInv, Types_
<1>5. AddsUp(base, num_devices)' /\ base[1] = 0
  BY <1>1, <1>2 DEF InvWith, AddsUp
<1>6. Listing(base)'
  BY <1>1, <1>2, <1>3 DEF InvWith, Listing, IsListed
<1>7. CASE status' = "crash" /\ UNCHANGED <<pc, ranges>>
  <2>1. Mapping(base)'
    BY <1>1, <1>2, <1>3, <1>7 DEF InvWith, Mapping
  <2>2. Types_' /\ Phases'
    BY <1>2, <1>3, <1>4, <1>7 DEF IInv, Types_, Phases
  <2> QED BY <1>5, <1>6, <2>1, <2>2 DEF IInv, InvWith
<1>8. CASE /\ \E n \in (IF world = <<>> THEN {0, 1} ELSE {total}) :
                ranges' = [Found EXCEPT ![acc_device_any] = [first |-> 0, num |-> n]]
           /\ pc' = "map" /\ status' = status
  <2>1. DOMAIN ranges' = ToSet(Types) \cup {acc_device_any}
    BY <1>8 DEF Found
  <2>2. \A t \in ToSet(Types) : ranges'[t] = [first |-> 0, num |-> 0]
    BY <1>8 DEF Found, InitAssumption
  <2>3. NamesOwn(base, i)'
    BY <2>2 DEF NamesOwn
  <2>4. \A p \in Platforms : ~(p < 1)
    BY <1>4
  <2>5. NamesAll(base, i)'
    BY <1>2, <2>4 DEF NamesAll
  <2>6. Mapping(base)'
    BY <1>2, <1>3, <1>5, <1>8, <2>1, <2>3, <2>5 DEF Mapping
  <2>7. Types_' /\ Phases'
    BY <1>2, <1>3, <1>4, <1>8 DEF IInv, Types_, Phases
  <2> QED BY <1>5, <1>6, <2>6, <2>7 DEF IInv, InvWith
<1> QED BY <1>7, <1>8 DEF StartMapping

\* What the registration of a platform does to the ranges.
LEMMA RegisteredFacts ==
  ASSUME IInv, InitAssumption, NEW base, InvWith(base), pc = "map", i \in Platforms,
         acc_get_platform_desc(i) # Unknown
  PROVE  /\ DOMAIN Registered(i) = DOMAIN ranges
         /\ Registered(i)[acc_get_platform_desc(i)] = OfPlatform(base, i)
         /\ \A t \in Models : RunsOf(i, t) # {} =>
              /\ LastRun(i, t) \in RunsOf(i, t)
              /\ Registered(i)[t] = OfRun(base, i, LastRun(i, t))
         /\ \A t \in ToSet(Types) :
              t # acc_get_platform_desc(i) /\ ~(t \in Models /\ RunsOf(i, t) # {})
                => Registered(i)[t] = ranges[t]
<1>1. DOMAIN ranges = ToSet(Types) \cup {acc_device_any} /\ idx = base[i] /\ Types_
  BY DEF InvWith, Mapping, IInv
<1>2. /\ acc_get_platform_desc(i) \in ToSet(Types) /\ Models \subseteq ToSet(Types)
      /\ acc_get_platform_desc(i) \notin Models
  BY VendorFacts
<1>3. \A t \in Models : RunsOf(i, t) # {} => LastRun(i, t) \in RunsOf(i, t)
  BY <1>1, LastRunFacts
<1> QED BY <1>1, <1>2, <1>3 DEF Registered, OfPlatform, OfRun

LEMMA RegisterNamesOwn ==
  ASSUME IInv, InitAssumption, NEW base, InvWith(base), pc = "map", i \in Platforms,
         status = "running", acc_get_platform_desc(i) # Unknown, first[i] # Null,
         NEW t \in ToSet(Types)
  PROVE  \/ Registered(i)[t] = [first |-> 0, num |-> 0]
         \/ \E p \in Platforms :
              /\ p < i + 1 /\ first[p] # Null
              /\ \/ t = acc_get_platform_desc(p) /\ Registered(i)[t] = OfPlatform(base, p)
                 \/ t \in Models /\ \E r \in RunsOf(p, t) : Registered(i)[t] = OfRun(base, p, r)
<1>1. NamesOwn(base, i)
  BY DEF InvWith, Mapping
<1>2. i \in Nat /\ \A p \in Platforms : p \in Nat
  BY WorldFacts DEF IInv, Types_
<1>3. CASE t = acc_get_platform_desc(i)
  BY <1>2, <1>3, RegisteredFacts
<1>4. CASE t # acc_get_platform_desc(i) /\ t \in Models /\ RunsOf(i, t) # {}
  BY <1>2, <1>4, RegisteredFacts
<1>5. CASE t # acc_get_platform_desc(i) /\ ~(t \in Models /\ RunsOf(i, t) # {})
  <2>1. Registered(i)[t] = ranges[t]
    BY <1>5, RegisteredFacts
  <2>2. \A p \in Platforms : p < i => p < i + 1
    BY <1>2
  <2> QED BY <1>1, <2>1, <2>2 DEF NamesOwn
<1> QED BY <1>3, <1>4, <1>5

LEMMA RegisterNamesAll ==
  ASSUME IInv, InitAssumption, NEW base, InvWith(base), pc = "map", i \in Platforms,
         status = "running", acc_get_platform_desc(i) # Unknown, Sorted,
         NEW p \in Platforms, p < i + 1, acc_get_platform_desc(p) # Unknown
  PROVE  /\ Registered(i)[acc_get_platform_desc(p)] = OfPlatform(base, p)
         /\ \A m \in Models : \A r \in RunsOf(p, m) : Registered(i)[m] = OfRun(base, p, r)
<1>1. NamesAll(base, i) /\ Types_
  BY DEF InvWith, Mapping, IInv
<1>2. i \in Nat /\ p \in Nat
  BY WorldFacts DEF IInv, Types_
<1>3. /\ acc_get_platform_desc(p) \in ToSet(Types) /\ Models \subseteq ToSet(Types)
      /\ acc_get_platform_desc(p) \notin Models /\ acc_get_platform_desc(i) \notin Models
      /\ acc_get_platform_desc(p) = world[p].vendor /\ acc_get_platform_desc(i) = world[i].vendor
  BY VendorFacts
<1>4. CASE p = i
  <2>1. \A m \in Models : \A r \in RunsOf(i, m) : r = LastRun(i, m)
    BY <1>1, OneRun, LastRunFacts
  <2> QED BY <1>4, <2>1, RegisteredFacts
<1>5. CASE p # i
  <2>1. world[p].vendor # world[i].vendor
    BY <1>5 DEF Sorted
  <2>2. /\ ranges[acc_get_platform_desc(p)] = OfPlatform(base, p)
        /\ \A m \in Models : \A r \in RunsOf(p, m) : ranges[m] = OfRun(base, p, r)
    BY <1>1, <1>2, <1>5 DEF NamesAll
  <2>3. ASSUME NEW m \in Models, NEW r \in RunsOf(p, m)
        PROVE  RunsOf(i, m) = {}
    <3>1. SUFFICES ASSUME NEW s \in RunsOf(i, m)
                   PROVE  FALSE
      OBVIOUS
    <3>2. acc_get_device_desc(i, s.from) = m /\ acc_get_device_desc(p, r.from) = m
      BY DEF RunsOf
    <3>3. m # Unknown
      BY VendorFacts
    <3> QED BY <2>1, <3>2, <3>3, ModelFacts
  <2> QED BY <1>3, <2>1, <2>2, <2>3, RegisteredFacts
<1> QED BY <1>4, <1>5

LEMMA MapPlatformStep ==
  ASSUME IInv, InitAssumption, MapPlatform
  PROVE  IInv'
<1>1. PICK base : InvWith(base)
  BY DEF IInv
<1>2. /\ num_devices' = num_devices /\ total' = total /\ first' = first /\ filled' = filled
      /\ world' = world /\ End' = End /\ Platforms' = Platforms
      /\ i' = i + 1 /\ idx' = idx + num_devices[i]
      /\ curr_type' = curr_type /\ flags' = flags /\ pc' = pc
      /\ i \in Platforms /\ pc = "map" /\ status = "running"
  BY DEF collected, End, Platforms, MapPlatform
<1>3. "f_ocl_devices" \in flags /\ "f_acc_devices" \notin flags
  BY <1>2 DEF IInv, Phases
<1>4. /\ i \in Nat /\ i + 1 \in 1 .. End /\ \A p \in Platforms : p \in Nat
  BY <1>2, WorldFacts DEF IInv, Types_
<1>5. AddsUp(base, num_devices)' /\ idx' = base[i + 1]
  BY <1>1, <1>2 DEF InvWith, AddsUp, Mapping
<1>6. Listing(base)'
  BY <1>1, <1>2, <1>3 DEF InvWith, Listing, IsListed
<1>7. status' \in {"running", "crash"}
  BY <1>2 DEF MapPlatform
<1>. PICK n : n = i + 1
  OBVIOUS
<1>8. /\ DOMAIN ranges' = DOMAIN ranges
      /\ status' = "running" => NamesOwn(base, n)' /\ NamesAll(base, n)'
  <2>1. NamesOwn(base, i) /\ NamesAll(base, i)
    BY <1>1, <1>2 DEF InvWith, Mapping
  <2>2. /\ \A p : acc_get_platform_desc(p)' = acc_get_platform_desc(p)
        /\ \A p, m : RunsOf(p, m)' = RunsOf(p, m)
        /\ \A p : OfPlatform(base, p)' = OfPlatform(base, p)
        /\ Sorted' = Sorted
    BY <1>2, SameDescs
  <2>3. \A p \in Platforms : p < i => p < i + 1
    BY <1>4
  <2>4. CASE acc_get_platform_desc(i) = Unknown /\ UNCHANGED ranges
    <3>1. \A p \in Platforms : p < i + 1 /\ acc_get_platform_desc(p) # Unknown => p < i
      BY <1>4, <2>4
    <3>2. NamesOwn(base, n)'
      <4>1. \A p \in Platforms : p < i => p < n
        BY <1>4
      <4>2. NamesOwn(base, n)
        BY <2>1, <4>1 DEF NamesOwn
      <4> QED BY <1>2, <2>4, <4>2, SameNames
    <3>3. NamesAll(base, n)'
      BY <1>2, <2>1, <2>2, <2>4, <3>1 DEF NamesAll, OfRun
    <3> QED BY <2>4, <3>2, <3>3
  <2>5. CASE acc_get_platform_desc(i) # Unknown /\ first[i] # Null /\ ranges' = Registered(i)
    <3>1. NamesOwn(base, n)'
      BY <1>1, <1>2, <2>2, <2>5, RegisterNamesOwn DEF NamesOwn, OfRun
    <3>2. NamesAll(base, n)'
      BY <1>1, <1>2, <2>2, <2>5, RegisterNamesAll DEF NamesAll, OfRun
    <3> QED BY <1>1, <1>2, <2>5, <3>1, <3>2, RegisteredFacts
  <2>6. CASE status' = "crash" /\ UNCHANGED ranges
    BY <2>6
  <2> QED BY <2>4, <2>5, <2>6 DEF MapPlatform
<1>9. Mapping(base)'
  <2>1. DOMAIN ranges = ToSet(Types) \cup {acc_device_any}
    BY <1>1 DEF InvWith, Mapping
  <2>2. status' = "running" => NamesOwn(base, i)' /\ NamesAll(base, i)'
    BY <1>2, <1>8 DEF NamesOwn, NamesAll
  <2> QED BY <1>2, <1>3, <1>5, <1>8, <2>1, <2>2 DEF Mapping
<1>10. Types_' /\ Phases'
  BY <1>2, <1>3, <1>4, <1>7 DEF IInv, Types_, Phases
<1> QED BY <1>5, <1>6, <1>9, <1>10 DEF IInv, InvWith

LEMMA MappedStep ==
  ASSUME IInv, InitAssumption, Mapped
  PROVE  IInv'
<1>1. PICK base : InvWith(base)
  BY DEF IInv
<1>2. /\ num_devices' = num_devices /\ total' = total /\ first' = first /\ filled' = filled
      /\ ranges' = ranges /\ idx' = idx /\ world' = world /\ End' = End /\ Platforms' = Platforms
      /\ i' = i /\ curr_type' = curr_type /\ flags' = flags \cup {"f_acc_devices"} /\ status' = status
      /\ pc = "map" /\ pc' = "none" /\ i \notin Platforms /\ status = "running"
  BY DEF collected, mapped, End, Platforms, Mapped
<1>3. "f_ocl_devices" \in flags
  BY <1>2 DEF IInv, Phases
<1>4. i = End
  BY <1>2, WorldFacts DEF IInv, Types_, End
<1>5. AddsUp(base, num_devices)'
  BY <1>1, <1>2 DEF InvWith, AddsUp
<1>6. Listing(base)'
  BY <1>1, <1>2, <1>3 DEF InvWith, Listing, IsListed
<1>7. NamesOwn(base, End)' /\ NamesAll(base, End)'
  <2>1. NamesOwn(base, i) /\ NamesAll(base, i)
    BY <1>1, <1>2 DEF InvWith, Mapping
  <2> QED BY <1>2, <1>4, <2>1, SameNames
<1>8. Mapping(base)'
  BY <1>1, <1>2, <1>7 DEF InvWith, Mapping
<1>9. Types_' /\ Phases'
  BY <1>2, <1>3 DEF IInv, Types_, Phases, Flags
<1> QED BY <1>5, <1>6, <1>8, <1>9 DEF IInv, InvWith

LEMMA DefaultsStep ==
  ASSUME IInv, InitAssumption, acc_init_defaults
  PROVE  IInv'
<1>1. Named \subseteq ToSet(Types) \cup {acc_device_any}
  <2>1. \A k \in DOMAIN Types : Types[k] \in ToSet(Types)
    BY DEF ToSet
  <2>2. DOMAIN Types = 1 .. Len(Types) /\ Len(Types) \in Nat
    BY DEF InitAssumption
  <2> QED BY <2>1, <2>2 DEF Named
<1>2. curr_type' \in ToSet(Types) \cup {acc_device_any} /\ flags' = flags \cup {"f_acc_defaults"}
  BY <1>1 DEF acc_init_defaults, IInv, Types_
<1> QED BY <1>2, OutsideStep, Orders DEF acc_init_defaults, IInv, Types_, Flags

LEMMA OtherStep ==
  ASSUME IInv, InitAssumption,
         NEW f \in {"f_alloc", "f_acc_sqlite", "f_ocl_sources", "f_mem_manager",
                    "f_data_env", "f_acc_profiling"}, OtherPart(f)
  PROVE  IInv'
BY OutsideStep, Orders DEF OtherPart, IInv, Types_, Flags

LEMMA InitInv ==
  ASSUME InitAssumption, Init
  PROVE  IInv
<1> PICK base : base = [k \in 1 .. End |-> 0]
  OBVIOUS
<1>1. /\ Platforms = 1 .. Len(world) /\ End \in Nat \ {0} /\ DOMAIN first = Platforms
      /\ \A p \in Platforms : p \in 1 .. End /\ p + 1 \in 1 .. End
  BY WorldFacts DEF Init
<1>2. AddsUp(base, num_devices)
  BY <1>1 DEF AddsUp, Init
<1>3. Listing(base)
  BY <1>1 DEF Listing, ToBeListed, Init
<1>4. Mapping(base)
  BY DEF Mapping, Init, Found
<1>5. Types_ /\ Phases
  BY <1>1 DEF Types_, Phases, Init, Flags
<1> QED BY <1>2, <1>3, <1>4, <1>5 DEF IInv, InvWith

LEMMA NextInv ==
  ASSUME IInv, InitAssumption, [Next]_vars
  PROVE  IInv'
<1>1. CASE UNCHANGED vars
  <2>1. PICK base : InvWith(base)
    BY DEF IInv
  <2>2. /\ world' = world /\ flags' = flags /\ pc' = pc /\ i' = i /\ num_devices' = num_devices
        /\ total' = total /\ first' = first /\ filled' = filled /\ ranges' = ranges /\ idx' = idx
        /\ curr_type' = curr_type /\ status' = status /\ End' = End /\ Platforms' = Platforms
    BY <1>1 DEF vars, End, Platforms
  <2>3. AddsUp(base, num_devices)'
    BY <2>1, <2>2 DEF InvWith, AddsUp
  <2>4. Listing(base)'
    BY <2>1, <2>2 DEF InvWith, Listing, IsListed, BeingListed, ToBeListed
  <2>5. /\ NamesOwn(base, i) => NamesOwn(base, i)'
        /\ NamesAll(base, i) => NamesAll(base, i)'
        /\ NamesOwn(base, End) => NamesOwn(base, End)'
        /\ NamesAll(base, End) => NamesAll(base, End)'
    <3>1. \A n : NamesOwn(base, n) => NamesOwn(base, n)'
      BY <2>2, SameNames
    <3>2. \A n : NamesAll(base, n) => NamesAll(base, n)'
      BY <2>2, SameNames
    <3>3. PICK a, b : a = i /\ b = End
      OBVIOUS
    <3>4. i' = a /\ End' = b
      BY <2>2, <3>3
    <3>5. /\ NamesOwn(base, a)' = NamesOwn(base, i)' /\ NamesAll(base, a)' = NamesAll(base, i)'
          /\ NamesOwn(base, b)' = NamesOwn(base, End)' /\ NamesAll(base, b)' = NamesAll(base, End)'
      BY <3>4 DEF NamesOwn, NamesAll
    <3> QED BY <3>1, <3>2, <3>3, <3>5
  <2>6. Mapping(base)'
    BY <2>1, <2>2, <2>5 DEF InvWith, Mapping
  <2>7. Types_' /\ Phases'
    BY <2>2 DEF IInv, Types_, Phases
  <2> QED BY <2>3, <2>4, <2>6, <2>7 DEF IInv, InvWith
<1>2. CASE Next
  BY <1>2, ListPlatformsStep, CountDevicesStep, CountedStep, ListDevicesStep, ListedStep,
     StartMappingStep, MapPlatformStep, MappedStep, DefaultsStep, OtherStep DEF Next
<1> QED BY <1>1, <1>2

\* The three counts agree in every state.
THEOREM DeviceCountsAgree == Spec => []IInv
<1>1. Init => IInv
  BY InitAssumption, InitInv
<1>2. IInv /\ [Next]_vars => IInv'
  BY InitAssumption, NextInv
<1> QED BY <1>1, <1>2, PTL DEF Spec

------------------------------------------------------------------------------
\* What the counts say of the device array and of the map.

\* The devices are those of the platforms, one platform after the other.
LEMMA Apart ==
  ASSUME NEW a \in Int, NEW n \in Int, NEW b \in Int, NEW c \in Int, NEW j \in Int,
         a + n <= b, c <= n, j >= 1, a + c = b + j
  PROVE  FALSE
OBVIOUS

LEMMA StoredFacts ==
  ASSUME IInv, InitAssumption, NEW base, InvWith(base), "f_ocl_devices" \in flags,
         NEW p \in Platforms, NEW j \in 1 .. num_devices[p]
  PROVE  /\ base[p] + j - 1 \in 0 .. filled - 1
         /\ Stored(base[p] + j - 1) = [p |-> p, j |-> j]
<1>1. AddsUp(base, num_devices) /\ IsListed(base) /\ Types_
      /\ \A q \in Platforms : first[q] # Null => first[q] = base[q]
  BY DEF InvWith, Listing, IInv
<1>2. /\ Platforms = 1 .. Len(world) /\ Len(world) \in Nat /\ End = Len(world) + 1
      /\ num_devices[p] \in Nat
  BY <1>1, WorldFacts DEF Types_, End
<1>3. /\ base \in [1 .. End -> Nat]
      /\ \A q \in Platforms : /\ base[q + 1] = base[q] + num_devices[q]
                              /\ base[q] \in Nat /\ base[q + 1] \in Nat
      /\ \A a, b \in 1 .. End : a <= b => base[a] <= base[b]
  BY <1>1, <1>2 DEF AddsUp
<1>4. /\ base[p + 1] <= base[End] /\ base[End] = filled /\ filled \in Nat
      /\ \A q \in Platforms : q \in 1 .. End /\ q + 1 \in 1 .. End
  <2>1. p + 1 \in 1 .. End /\ End \in 1 .. End /\ p + 1 <= End
    BY <1>2
  <2>2. base[p + 1] <= base[End]
    BY <1>3, <2>1
  <2>3. base[End] = filled /\ filled \in Nat
    BY <1>1 DEF IsListed, Types_
  <2> QED BY <1>2, <2>2, <2>3
<1>5. base[p] + j - 1 \in 0 .. filled - 1 /\ j \in 1 .. filled
  <2>1. base[p] \in Nat /\ base[p + 1] = base[p] + num_devices[p]
    BY <1>3
  <2>2. base[p + 1] <= filled /\ filled \in Nat
    BY <1>4
  <2> QED BY ONLY <1>2, <2>1, <2>2, j \in 1 .. num_devices[p]
<1>6. first[p] # Null /\ first[p] = base[p]
  BY <1>1, <1>2 DEF IsListed
<1> DEFINE Is(d) == /\ first[d.p] # Null
                    /\ d.j <= num_devices[d.p]
                    /\ first[d.p] + d.j - 1 = base[p] + j - 1
           D == [p : Platforms, j : 1 .. filled]
<1>7. [p |-> p, j |-> j] \in D /\ Is([p |-> p, j |-> j])
  BY <1>2, <1>5, <1>6
<1>8. ASSUME NEW d \in D, Is(d)
      PROVE  d = [p |-> p, j |-> j]
  <2>1. /\ d = [p |-> d.p, j |-> d.j] /\ d.p \in Platforms /\ d.j \in 1 .. filled
        /\ d.j <= num_devices[d.p] /\ base[d.p] + d.j - 1 = base[p] + j - 1
    BY <1>1, <1>8
  <2>2. PICK q, c : q = d.p /\ c = d.j
    OBVIOUS
  <2>3. num_devices[q] \in Nat /\ q \in Platforms /\ c \in Nat /\ c >= 1 /\ c <= num_devices[q]
        /\ base[q] + c = base[p] + j
    <3>1. q \in Platforms /\ c \in 1 .. filled /\ c <= num_devices[q]
          /\ base[q] + c - 1 = base[p] + j - 1
      BY <2>1, <2>2
    <3>2. num_devices[q] \in Nat /\ base[q] \in Nat /\ base[p] \in Nat /\ c \in Nat /\ c >= 1
          /\ j \in Nat
      <4>1. num_devices[q] \in Nat
        BY <1>1, <3>1 DEF Types_
      <4>2. base[q] \in Nat /\ base[p] \in Nat
        BY <1>3, <3>1
      <4>3. c \in Nat /\ c >= 1 /\ j \in Nat
        BY <1>2, <1>4, <3>1
      <4> QED BY <4>1, <4>2, <4>3
    <3> HIDE DEF D, Is
    <3>3. base[q] + c = base[p] + j
      <4>1. \A a, b, y, z \in Nat : a + y - 1 = b + z - 1 => a + y = b + z
        OBVIOUS
      <4>2. PICK a, b : a = base[q] /\ b = base[p]
        OBVIOUS
      <4>3. a + c - 1 = b + j - 1 /\ a \in Nat /\ b \in Nat /\ c \in Nat /\ j \in Nat
        BY <3>1, <3>2, <4>2
      <4>4. a + c = b + j
        BY <4>1, <4>3
      <4> QED BY <4>2, <4>4
    <3> QED BY <3>1, <3>2, <3>3
  <2>4. q = p
    <3>1. CASE q < p
      <4>1. q + 1 \in 1 .. End /\ p \in 1 .. End /\ q + 1 <= p
        BY <1>2, <2>3, <3>1
      <4>2. base[q + 1] <= base[p]
        BY <1>3, <4>1
      <4>3. /\ base[q + 1] = base[q] + num_devices[q] /\ base[p] \in Nat /\ base[q] \in Nat
            /\ base[q + 1] \in Nat
        BY <1>3, <2>3
      <4>4. c \in Int /\ j \in Int /\ j >= 1 /\ c >= 1 /\ num_devices[p] \in Int /\ j <= num_devices[p]
        BY <1>2, <2>3
      <4> QED BY <2>3, <4>2, <4>3, <4>4, Apart
    <3>2. CASE p < q
      <4>1. p + 1 \in 1 .. End /\ q \in 1 .. End /\ p + 1 <= q
        BY <1>2, <2>3, <3>2
      <4>2. base[p + 1] <= base[q]
        BY <1>3, <4>1
      <4>3. /\ base[p + 1] = base[p] + num_devices[p] /\ base[p] \in Nat /\ base[q] \in Nat
            /\ base[p + 1] \in Nat
        BY <1>3, <2>3
      <4>4. c \in Int /\ j \in Int /\ j >= 1 /\ c >= 1 /\ num_devices[p] \in Int /\ j <= num_devices[p]
        BY <1>2, <2>3
      <4> QED BY <2>3, <4>2, <4>3, <4>4, Apart
    <3> QED BY <1>2, <2>3, <3>1, <3>2
  <2>5. c = j
    BY <1>2, <1>3, <2>3, <2>4
  <2> QED BY <2>1, <2>2, <2>4, <2>5
<1> HIDE DEF D
<1>9. Stored(base[p] + j - 1) = CHOOSE d \in D : Is(d)
  BY DEF Stored, D
<1> HIDE DEF Is
<1> QED BY <1>5, <1>7, <1>8, <1>9

LEMMA AllStored ==
  ASSUME IInv, InitAssumption, NEW base, InvWith(base), "f_ocl_devices" \in flags,
         NEW k \in 0 .. filled - 1
  PROVE  \E p \in Platforms : \E j \in 1 .. num_devices[p] : k = base[p] + j - 1
<1>1. AddsUp(base, num_devices) /\ IsListed(base) /\ Types_
  BY DEF InvWith, Listing, IInv
<1>2. Platforms = 1 .. Len(world) /\ Len(world) \in Nat /\ End = Len(world) + 1
  BY <1>1, WorldFacts DEF Types_, End
<1>3. /\ base \in [1 .. End -> Nat] /\ base[1] = 0
      /\ \A q \in Platforms : base[q + 1] = base[q] + num_devices[q]
      /\ filled = base[End] /\ filled \in Nat
  BY <1>1 DEF AddsUp, IsListed, Types_
<1> DEFINE Before == {q \in 1 .. End : base[q] <= k}
<1>4. PICK p \in Before : \A q \in Before : q <= p
  <2>1. Before \subseteq 0 .. End /\ 1 \in Before /\ End \in Nat
    BY <1>2, <1>3
  <2> HIDE DEF Before
  <2> QED BY <2>1, GreatestNumber
<1>5. p \in 1 .. End /\ base[p] <= k /\ p # End
  BY <1>2, <1>3
<1>6. p \in Platforms /\ p + 1 \in 1 .. End /\ p + 1 \notin Before
  BY <1>2, <1>4, <1>5
<1>7. k < base[p + 1]
  BY <1>3, <1>6
<1>8. k - base[p] + 1 \in 1 .. num_devices[p] /\ k = base[p] + (k - base[p] + 1) - 1
  <2>1. base[p] \in Nat /\ base[p + 1] = base[p] + num_devices[p] /\ num_devices[p] \in Nat
    BY <1>1, <1>3, <1>5, <1>6 DEF Types_
  <2> QED BY <1>5, <1>7, <2>1
<1> QED BY <1>6, <1>8

LEMMA MapIsSound ==
  ASSUME IInv, InitAssumption
  PROVE  RangesSound
<1>1. SUFFICES ASSUME Complete, NEW t \in ToSet(Types), NEW k \in 0 .. filled, In(k, t)
               PROVE  k < filled /\ t \in TypesAt(k)
  BY DEF RangesSound
<1>2. "f_acc_devices" \in flags /\ "f_ocl_devices" \in flags /\ status = "running" /\ Types_
  BY <1>1 DEF Complete, IInv, Phases
<1>3. PICK base : InvWith(base)
  BY DEF IInv
<1>4. NamesOwn(base, End)
  BY <1>2, <1>3 DEF InvWith, Mapping
<1>5. t # Unknown /\ k \in Nat /\ filled \in Nat
  BY <1>2 DEF InitAssumption, Types_
<1>6. ASSUME NEW p \in Platforms, NEW j \in 1 .. num_devices[p], k = base[p] + j - 1,
             t = acc_get_platform_desc(p) \/ t = acc_get_device_desc(p, j)
      PROVE  k < filled /\ t \in TypesAt(k)
  <2>1. k \in 0 .. filled - 1 /\ Stored(k) = [p |-> p, j |-> j]
    BY <1>2, <1>3, <1>6, StoredFacts
  <2> QED BY <1>5, <1>6, <2>1 DEF TypesAt, VendorAt, ModelAt
<1>7. \A p \in Platforms : base[p] \in Nat /\ num_devices[p] \in Nat
  BY <1>2, <1>3, WorldFacts DEF InvWith, AddsUp, Types_
<1>8. CASE ranges[t] = [first |-> 0, num |-> 0]
  BY <1>1, <1>5, <1>8 DEF In
<1>9. ASSUME NEW p \in Platforms, t = acc_get_platform_desc(p), ranges[t] = OfPlatform(base, p)
      PROVE  k < filled /\ t \in TypesAt(k)
  <2>1. base[p] <= k /\ k < base[p] + num_devices[p]
    BY <1>1, <1>9 DEF In, OfPlatform
  <2>2. k - base[p] + 1 \in 1 .. num_devices[p] /\ k = base[p] + (k - base[p] + 1) - 1
    BY <1>5, <1>7, <2>1
  <2> QED BY <1>6, <1>9, <2>2
<1>10. ASSUME NEW p \in Platforms, t \in Models, NEW r \in RunsOf(p, t), ranges[t] = OfRun(base, p, r)
       PROVE  k < filled /\ t \in TypesAt(k)
  <2>1. /\ r.from \in 1 .. num_devices[p] /\ r.to \in 1 .. num_devices[p]
        /\ \A j \in r.from .. r.to : acc_get_device_desc(p, j) = t
    BY <1>2, <1>10, RunFacts
  <2>2. base[p] + r.from - 1 <= k /\ k < base[p] + r.from - 1 + (r.to - r.from + 1)
    BY <1>1, <1>10 DEF In, OfRun
  <2>3. /\ k - base[p] + 1 \in r.from .. r.to /\ k - base[p] + 1 \in 1 .. num_devices[p]
        /\ k = base[p] + (k - base[p] + 1) - 1
    <3>1. PICK a, x, y, n : a = base[p] /\ x = r.from /\ y = r.to /\ n = num_devices[p]
      OBVIOUS
    <3>2. a \in Nat /\ n \in Nat /\ x \in 1 .. n /\ y \in 1 .. n
          /\ a + x - 1 <= k /\ k < a + x - 1 + (y - x + 1)
      BY <1>7, <2>1, <2>2, <3>1
    <3>3. k - a + 1 \in x .. y /\ k - a + 1 \in 1 .. n /\ k = a + (k - a + 1) - 1
      BY <1>5, <3>2
    <3> QED BY <3>1, <3>3
  <2> QED BY <1>6, <2>1, <2>3
<1> QED BY <1>4, <1>8, <1>9, <1>10 DEF NamesOwn

LEMMA MapIsComplete ==
  ASSUME IInv, InitAssumption
  PROVE  RangesComplete
<1>1. SUFFICES ASSUME Complete, Sorted, NEW k \in 0 .. filled - 1, NEW t \in TypesAt(k)
               PROVE  In(k, t)
  BY DEF RangesComplete
<1>2. "f_acc_devices" \in flags /\ "f_ocl_devices" \in flags /\ status = "running" /\ Types_
  BY <1>1 DEF Complete, IInv, Phases
<1>3. PICK base : InvWith(base)
  BY DEF IInv
<1>4. NamesAll(base, End)
  BY <1>2, <1>3 DEF InvWith, Mapping
<1>5. PICK p \in Platforms : \E j \in 1 .. num_devices[p] : k = base[p] + j - 1
  BY <1>2, <1>3, AllStored
<1>6. PICK j \in 1 .. num_devices[p] : k = base[p] + j - 1
  BY <1>5
<1>7. Stored(k) = [p |-> p, j |-> j]
  BY <1>2, <1>3, <1>6, StoredFacts
<1>8. t # Unknown /\ (t = acc_get_platform_desc(p) \/ t = acc_get_device_desc(p, j))
  BY <1>7 DEF TypesAt, VendorAt, ModelAt
<1>9. p < End /\ base[p] \in Nat /\ num_devices[p] \in Nat /\ Types_
  BY <1>2, <1>3, WorldFacts DEF InvWith, AddsUp, Types_, End
<1>10. CASE t = acc_get_platform_desc(p)
  <2>1. ranges[t] = OfPlatform(base, p)
    BY <1>1, <1>4, <1>8, <1>9, <1>10 DEF NamesAll
  <2> QED BY <1>6, <1>9, <2>1 DEF In, OfPlatform
<1>11. CASE t = acc_get_device_desc(p, j)
  <2>1. t \in Models /\ acc_get_platform_desc(p) # Unknown
    BY <1>8, <1>11, ModelFacts
  <2>2. PICK r \in RunsOf(p, t) : r.from <= j /\ j <= r.to
    BY <1>9, <1>11, <2>1, RunExists
  <2>3. r.from \in Nat /\ r.to \in Nat
    BY <1>9, <2>1, <2>2, RunFacts
  <2>4. ranges[t] = OfRun(base, p, r)
    BY <1>1, <1>4, <1>9, <2>1 DEF NamesAll
  <2> QED BY <1>6, <1>9, <2>2, <2>3, <2>4 DEF In, OfRun
<1> QED BY <1>8, <1>10, <1>11

LEMMA ModelIsFound ==
  ASSUME IInv, InitAssumption
  PROVE  TypeOfDevice
<1>1. SUFFICES ASSUME Complete, Sorted, NEW k \in 0 .. filled - 1
               PROVE  acc_get_device_type_by_device_idx(k) =
                        (IF ModelAt(k) = Unknown THEN acc_device_last ELSE ModelAt(k))
  BY DEF TypeOfDevice
<1>2. "f_acc_devices" \in flags /\ "f_ocl_devices" \in flags /\ status = "running" /\ Types_
  BY <1>1 DEF Complete, IInv, Phases
<1>3. PICK base : InvWith(base)
  BY DEF IInv
<1>4. PICK p \in Platforms : \E j \in 1 .. num_devices[p] : k = base[p] + j - 1
  BY <1>2, <1>3, AllStored
<1>5. PICK j \in 1 .. num_devices[p] : k = base[p] + j - 1
  BY <1>4
<1>6. PICK v, m : v = acc_get_platform_desc(p) /\ m = acc_get_device_desc(p, j)
  OBVIOUS
<1>7. VendorAt(k) = v /\ ModelAt(k) = m
  <2>1. Stored(k) = [p |-> p, j |-> j]
    BY <1>2, <1>3, <1>5, StoredFacts
  <2> QED BY <1>6, <2>1 DEF VendorAt, ModelAt
<1> DEFINE hits == {n \in DOMAIN Types : In(k, Types[n])}
           platform == CHOOSE n \in hits : \A l \in hits : n <= l
           rest == hits \ {platform}
<1>8. hits = {n \in DOMAIN Types : Types[n] \in {v, m} \ {Unknown}}
  <2>1. \A n \in DOMAIN Types : Types[n] \in ToSet(Types)
    BY DEF ToSet
  <2>2. TypesAt(k) = {v, m} \ {Unknown}
    BY <1>7 DEF TypesAt
  <2>3. k \in 0 .. filled
    BY <1>2 DEF Types_
  <2>4. \A n \in DOMAIN Types : In(k, Types[n]) <=> Types[n] \in TypesAt(k)
    BY <1>1, <2>1, <2>3, MapIsSound, MapIsComplete DEF RangesSound, RangesComplete
  <2> QED BY <2>2, <2>4
<1>9. DOMAIN Types \subseteq Nat /\ \A a, b \in DOMAIN Types : Types[a] = Types[b] => a = b
  BY DEF InitAssumption, IsInjective
<1>10. m # Unknown => /\ v # Unknown
                      /\ \E a, b \in DOMAIN Types : a < b /\ Types[a] = v /\ Types[b] = m
  <2>1. m # Unknown => m \in Models /\ Vendor[m] = world[p].vendor /\ v # Unknown
    BY <1>6, ModelFacts
  <2>2. v # Unknown => v = world[p].vendor
    BY <1>6, VendorFacts
  <2> QED BY <2>1, <2>2 DEF InitAssumption
<1> DEFINE found == IF hits = {} \/ rest = {} THEN acc_device_last
                    ELSE Types[CHOOSE n \in rest : \A l \in rest : n <= l]
<1>11. acc_get_device_type_by_device_idx(k) = found
  BY DEF acc_get_device_type_by_device_idx
<1> HIDE DEF hits
<1>12. CASE m = Unknown
  <2>1. \A a, b \in hits : a = b
    BY <1>8, <1>9, <1>12
  <2>2. hits # {} => platform \in hits
    <3>1. ASSUME NEW a \in hits
          PROVE  platform = a
      BY <1>8, <1>9, <2>1
    <3> QED BY <3>1
  <2>3. found = acc_device_last
    BY <2>1, <2>2
  <2> QED BY <1>7, <1>11, <1>12, <2>3
<1>13. CASE m # Unknown
  <2>1. PICK a, b \in DOMAIN Types : a < b /\ Types[a] = v /\ Types[b] = m /\ v # Unknown
    BY <1>10, <1>13
  <2>2. hits = {a, b} /\ a \in Nat /\ b \in Nat
    BY <1>8, <1>9, <1>13, <2>1
  <2>3. platform = a
    BY <2>1, <2>2
  <2> HIDE DEF platform
  <2>4. rest = {b}
    BY <2>1, <2>2, <2>3
  <2> HIDE DEF rest
  <2>5. rest # {} /\ hits # {} /\ (CHOOSE n \in rest : \A l \in rest : n <= l) = b
    BY <2>2, <2>4
  <2>6. found = Types[b]
    BY <2>5
  <2> QED BY <1>7, <1>11, <1>13, <2>1, <2>6
<1> QED BY <1>12, <1>13

\* A type of the device map names devices of this type only, on every machine
\* and whichever queries fail.
THEOREM DeviceMapSound == Spec => []RangesSound
<1>1. IInv => RangesSound
  BY InitAssumption, MapIsSound
<1> QED BY <1>1, DeviceCountsAgree, PTL

\* In the order that the comments assume, a type names all of its devices.
THEOREM DeviceMapComplete == Spec => []RangesComplete
<1>1. IInv => RangesComplete
  BY InitAssumption, MapIsComplete
<1> QED BY <1>1, DeviceCountsAgree, PTL

\* There the lookup by the device's index returns its model.
THEOREM DeviceTypesFound == Spec => []TypeOfDevice
<1>1. IInv => TypeOfDevice
  BY InitAssumption, ModelIsFound
<1> QED BY <1>1, DeviceCountsAgree, PTL

\* The variables have their types, and the places are within the array.
THEOREM InitTypeCorrect == Spec => []TypeOK
<1>1. IInv => TypeOK
  <2>1. SUFFICES ASSUME IInv
                 PROVE  TypeOK
    OBVIOUS
  <2>2. PICK base : InvWith(base)
    BY <2>1 DEF IInv
  <2>3. Types_ /\ Phases /\ AddsUp(base, num_devices) /\ Listing(base)
    BY <2>1, <2>2 DEF IInv, InvWith
  <2>4. Platforms = 1 .. Len(world) /\ Len(world) \in Nat /\ End = Len(world) + 1
    BY <2>3, InitAssumption, WorldFacts DEF Types_, End
  <2>5. /\ base \in [1 .. End -> Nat]
        /\ \A p \in Platforms : /\ base[p + 1] = base[p] + num_devices[p]
                                /\ p \in 1 .. End /\ p + 1 \in 1 .. End
                                /\ base[p] \in Nat /\ base[p + 1] \in Nat
        /\ \A p, q \in 1 .. End : p <= q => base[p] <= base[q]
    BY <2>3, <2>4 DEF AddsUp
  <2>6. filled \in Nat /\ total \in Nat /\ i \in 1 .. End
    BY <2>3 DEF Types_
  <2>7. filled <= total
    <3>1. ToBeListed(base) => filled = 0
      BY DEF ToBeListed
    <3>2. BeingListed(base) => filled = base[i] /\ base[i] <= base[End] /\ base[End] <= total
          /\ base[i] \in Nat /\ base[End] \in Nat
      BY <2>4, <2>5, <2>6 DEF BeingListed
    <3>3. IsListed(base) => filled <= total
      BY DEF IsListed
    <3> QED BY <2>3, <2>6, <3>1, <3>2, <3>3 DEF Listing
  <2>8. ASSUME NEW p \in Platforms, first[p] # Null
        PROVE  first[p] + num_devices[p] <= filled
    <3>1. first[p] = base[p]
      BY <2>3, <2>8 DEF Listing
    <3>2. num_devices[p] \in Nat /\ base[p + 1] \in Nat /\ base[p] + num_devices[p] = base[p + 1]
      BY <2>3, <2>5 DEF Types_
    <3>3. IsListed(base) => base[p + 1] <= filled
      BY <2>4, <2>5 DEF IsListed
    <3>4. BeingListed(base) => p < i /\ base[p + 1] <= filled
      <4>1. BeingListed(base) => p < i
        BY <2>4, <2>6, <2>8 DEF BeingListed
      <4>2. p < i => p + 1 <= i /\ p + 1 \in 1 .. End
        BY <2>4, <2>5, <2>6
      <4> QED BY <2>5, <2>6, <4>1, <4>2 DEF BeingListed
    <3>5. ~ToBeListed(base)
      BY <2>8 DEF ToBeListed
    <3> QED BY <2>3, <3>1, <3>2, <3>3, <3>4, <3>5 DEF Listing
  <2> QED BY <2>3, <2>4, <2>7, <2>8 DEF TypeOK, Types_, End
<1> QED BY <1>1, DeviceCountsAgree, PTL
=============================================================================
