---------------------------- MODULE KernelVersion ----------------------------
(***************************************************************************)
(* The selection of a version of a kernel and the tiling of its loops for  *)
(* every device of a region (lib/internal/kernel.c), and the way in which  *)
(* the device code turns tiles into iterations (lib/opencl/libopenacc.cl). *)
(*                                                                         *)
(* A version divides some loops into tiles.  A tile is executed by the     *)
(* gangs of a level, by its workers or by the vector lanes (its unit), or  *)
(* as a loop of a fixed (static) or of the remaining (dynamic) number of   *)
(* iterations.                                                             *)
(***************************************************************************)
EXTENDS Integers, Sequences, FiniteSets, SequencesExt, DistData

CONSTANTS RowBytes,   \* sizes of a row of distributed data
          Unit,       \* gang and worker levels and the vector
          Launches,   \* the kernels with their regions that may be launched
          Word,       \* 2^64: size_t counts modulo Word
          Garbage     \* what malloc leaves in memory

\* Sizes are positive and strides not 0, as acc_enqueue_kernel asserts before it
\* builds; loops go upwards and have portions for all devices.  Bounds are of
\* type long.  Products of size_t do not overflow, which is checked nowhere.
LoopsFit(k) ==
  /\ k.devices \in Seq([Unit -> Nat \ {0}]) /\ Len(k.devices) > 0
  /\ k.loops \in Seq([lower : Int, upper : Int, stride : Nat \ {0}])
  /\ \A l \in DOMAIN k.loops :
       LET loop == k.loops[l]
           length == loop.upper - loop.lower + 1
           total == IF k.split[l] = <<>> THEN 1 ELSE SumOf(k.split[l])
       IN  /\ k.split[l] = <<>> \/ k.split[l] \in [1 .. Len(k.devices) -> Nat]
           /\ total > 0
           /\ -(Word \div 2) <= loop.lower /\ loop.upper + 1 < Word \div 2
           /\ length >= 0
           /\ total * length < Word /\ length * loop.stride < Word

\* The compiler gives each tile of a version an id of its own.
VersionApart(version, loops) ==
  /\ version.num_tiles \in Nat
  /\ \A l \in loops : version.tiles[l] \in Seq(ToSet(version.tiles[l]))
  /\ \A l \in loops : \A p \in DOMAIN version.tiles[l] :
       LET tile == version.tiles[l][p]
       IN  /\ tile.id \in 1 .. version.num_tiles
           /\ tile.kind = "unit" => tile.unit \in Unit
           /\ tile.kind = "static" => tile.nbr_it \in Nat \ {0}
           /\ tile.kind \in {"unit", "static", "dynamic"}
           /\ \A m \in loops : \A q \in DOMAIN version.tiles[m] :
                tile.id = version.tiles[m][q].id => l = m /\ p = q

TilesApart(k) ==
  /\ k.versions \in Seq(ToSet(k.versions))
  /\ \A v \in DOMAIN k.versions : VersionApart(k.versions[v], DOMAIN k.loops)

ASSUME LaunchAssumption ==
  /\ Word \in Nat \ {0} /\ RowBytes \subseteq Nat
  /\ \A k \in Launches : LoopsFit(k) /\ TilesApart(k)

VARIABLES kernel,     \* the launch
          dev,        \* the device of the region it has come to
          pc,         \* "select", "eval" or "done"
          todo,       \* versions that are still to be evaluated
          loop_idx,   \* the loop of the version under evaluation
          tiles,      \* its tiles, by id
          best,       \* best_matching_version, or None
          best_tiles, \* best_matching_tiles
          contexts,   \* what was built for the devices so far
          status      \* "running" or "abort"

vars == <<kernel, dev, pc, todo, loop_idx, tiles, best, best_tiles, contexts, status>>

None == 0
Devices == DOMAIN kernel.devices
Loops == DOMAIN kernel.loops
Versions == kernel.versions
Version == Versions[Head(todo)]

Product(s) ==
  LET product[k \in 0 .. Len(s)] == IF k = 0 THEN 1 ELSE product[k - 1] * s[k]
  IN  product[Len(s)]

\* size_t arithmetic, and its conversion to long.
W(x) == x % Word
Signed(x) == IF W(x) >= Word \div 2 THEN W(x) - Word ELSE W(x)

TypeOK ==
  /\ dev \in 1 .. Len(kernel.devices) + 1
  /\ pc \in {"select", "eval", "done"}
  /\ todo \in Seq(DOMAIN Versions)
  /\ loop_idx \in 1 .. Len(kernel.loops) + 1
  /\ best \in {None} \cup DOMAIN Versions
  /\ Len(contexts) = dev - 1
  /\ status \in {"running", "abort"}

------------------------------------------------------------------------------
\* The part of a loop that a device executes.

IsSplit(l) == kernel.split[l] # <<>>

LoopLength(l) == W(kernel.loops[l].upper - kernel.loops[l].lower + 1)

\* Without a splitter: before = 0, portion = total = 1.
Portion(l, d) == IF IsSplit(l) THEN kernel.split[l][d] ELSE 1
Before(l, d) == IF IsSplit(l) THEN Previous(kernel.split[l], d) ELSE 0
Total(l) == IF IsSplit(l) THEN SumOf(kernel.split[l]) ELSE 1

Divisible(l, portions) == W(portions * LoopLength(l)) % Total(l) = 0
PartOf(l, portions) == W(portions * LoopLength(l)) \div Total(l)

\* loop_length in acc_eval_kernel_version.
Length(l) == PartOf(l, Portion(l, dev))

------------------------------------------------------------------------------
\* acc_select_kernel_version.

version_match(v) ==
  /\ dev \in v.affinity
  /\ \A u \in Unit : v.assumed[u] \in {0, kernel.devices[dev][u]}

\* The first version with the id that version_by_devices names, if there is one.
NamedVersion(d) == {i \in DOMAIN Versions :
               /\ Versions[i].id = kernel.by_device[d]
               /\ \A n \in 1 .. i - 1 : Versions[n].id # kernel.by_device[d]}

\* That version, or else all of them in turn.
Candidates(d) ==
  CASE kernel.by_device = <<>> -> [i \in DOMAIN Versions |-> i]
    [] kernel.by_device # <<>> /\ NamedVersion(d) # {} -> <<CHOOSE i \in NamedVersion(d) : TRUE>>
    [] OTHER -> <<>>

Init ==
  /\ kernel \in Launches
  /\ dev = 1
  /\ pc = "select"
  /\ todo = Candidates(1)
  /\ loop_idx = 1
  /\ tiles = <<>>
  /\ best = None
  /\ best_tiles = <<>>
  /\ contexts = <<>>
  /\ status = "running"

Abort ==
  /\ status' = "abort"
  /\ UNCHANGED <<kernel, dev, pc, todo, loop_idx, tiles, best, best_tiles, contexts>>

\* acc_eval_kernel_version is left; the loop goes on with the next version.
NextVersion ==
  /\ pc' = "select"
  /\ todo' = Tail(todo)
  /\ loop_idx' = 1
  /\ tiles' = <<>>

StartVersion ==
  /\ status = "running" /\ pc = "select" /\ todo # <<>>
  /\ \/ /\ version_match(Version)
        /\ pc' = "eval"
        /\ tiles' = [i \in 1 .. Version.num_tiles |-> [length |-> Garbage, stride |-> Garbage]]
        /\ UNCHANGED <<todo, loop_idx>>
     \/ ~version_match(Version) /\ NextVersion
  /\ UNCHANGED <<kernel, dev, best, best_tiles, contexts, status>>

------------------------------------------------------------------------------
\* acc_eval_kernel_version: one loop in each step.

\* Iterations of a tile; the dynamic one takes what the others leave.
Fixed(t) == IF t.kind = "unit" THEN kernel.devices[dev][t.unit] ELSE t.nbr_it

Static(desc) == Product([p \in DOMAIN desc |-> IF desc[p].kind = "dynamic" THEN 1 ELSE Fixed(desc[p])])

Dynamic(desc) == {p \in DOMAIN desc : desc[p].kind = "dynamic"}

Iterations(desc, l) ==
  [p \in DOMAIN desc |->
     IF p \in Dynamic(desc) THEN Length(l) \div Static(desc) ELSE Fixed(desc[p])]

\* The loop that sets the strides, from the last tile to the first, in units of
\* the loop's stride: stride after each of its turns.
Strides(its) ==
  LET stride[k \in 0 .. Len(its)] == IF k = 0 THEN 1 ELSE stride[k - 1] * its[Len(its) - k + 1]
  IN  stride

\* Mutant: the stride is multiplied before it is stored.
WithOwn(its, p) == Strides(its)[Len(its) - p + 1]

\* The stride of a tile: the iterations of the tiles behind it.
Inner(its, p) == Strides(its)[Len(its) - p]

Tiled(desc, its, stride) ==
  [i \in DOMAIN tiles |->
     IF \E p \in DOMAIN desc : desc[p].id = i
       THEN LET p == CHOOSE q \in DOMAIN desc : desc[q].id = i
            IN  [length |-> W(its[p] * Inner(its, p) * stride),
                 stride |-> W(Inner(its, p) * stride)]
       ELSE tiles[i]]

\* Mutant: the version is not given up.
Never(desc, l) == FALSE

\* "Cannot set num iteration of dynamic tile".
GivesUp(desc, l) == Dynamic(desc) # {} /\ Length(l) % Static(desc) # 0

\* The assertions on the way, in their order; the last one compares the length
\* of the outermost tile after its multiplication by the stride.
SplitHolds(l) == IsSplit(l) => Divisible(l, Portion(l, dev))
TilesHold(desc, l) ==
  /\ Cardinality(Dynamic(desc)) <= 1
  /\ Dynamic(desc) = {} => Static(desc) = Length(l)

TileAssert(desc, l) ==
  W(Product(Iterations(desc, l)) * kernel.loops[l].stride) = Length(l)

EvalLoop ==
  /\ status = "running" /\ pc = "eval" /\ loop_idx \in Loops
  /\ LET l == loop_idx
         desc == Version.tiles[l]
         skip == /\ loop_idx' = loop_idx + 1
                 /\ UNCHANGED <<pc, todo, tiles, status>>
     IN  \/ desc = <<>> /\ skip
         \/ desc # <<>> /\ SplitHolds(l) /\ Length(l) = 0 /\ skip
         \/ /\ desc # <<>> /\ SplitHolds(l) /\ Length(l) # 0 /\ TilesHold(desc, l)
            /\ \/ GivesUp(desc, l) /\ NextVersion /\ UNCHANGED status
               \/ /\ ~GivesUp(desc, l) /\ TileAssert(desc, l)
                  /\ tiles' = Tiled(desc, Iterations(desc, l), kernel.loops[l].stride)
                  /\ loop_idx' = loop_idx + 1
                  /\ UNCHANGED <<pc, todo, status>>
  /\ UNCHANGED <<kernel, dev, best, best_tiles, contexts>>

EvalAborts ==
  /\ status = "running" /\ pc = "eval" /\ loop_idx \in Loops
  /\ LET l == loop_idx
         desc == Version.tiles[l]
     IN  /\ desc # <<>>
         /\ \/ ~SplitHolds(l)
            \/ Length(l) # 0 /\ ~TilesHold(desc, l)
            \/ Length(l) # 0 /\ ~GivesUp(desc, l) /\ ~TileAssert(desc, l)
  /\ Abort

\* Mutant: a score as good as the best one replaces it.
KeepLast ==
  /\ best' = Head(todo)
  /\ best_tiles' = tiles

\* Every version has the score 1e-6 and has to beat the best so far, 0 at first.
KeepBest ==
  /\ best' = IF best = None THEN Head(todo) ELSE best
  /\ best_tiles' = IF best = None THEN tiles ELSE best_tiles

EndVersion ==
  /\ status = "running" /\ pc = "eval" /\ loop_idx \notin Loops
  /\ KeepBest
  /\ NextVersion
  /\ UNCHANGED <<kernel, dev, contexts, status>>

------------------------------------------------------------------------------
\* acc_build_ocl_kernel, after the selection.

\* Mutant: inclusive bounds, as those of acc_loop_t_.
InclusiveBounds(l) ==
  LET lower == kernel.loops[l].lower
  IN  [lower |-> Signed(lower + PartOf(l, Before(l, dev))),
       upper |-> Signed(lower + PartOf(l, Before(l, dev) + Portion(l, dev)) - 1)]

\* The upper bound is the first iteration that is not executed.
Bounds(l) ==
  LET lower == kernel.loops[l].lower
  IN  [lower |-> Signed(lower + PartOf(l, Before(l, dev))),
       upper |-> Signed(lower + PartOf(l, Before(l, dev) + Portion(l, dev)))]

BoundsHold(l) ==
  \A portions \in {Portion(l, dev), Before(l, dev), Before(l, dev) + Portion(l, dev)} :
    Divisible(l, portions)

CanBuild == best # None /\ \A l \in Loops : BoundsHold(l)

acc_build_ocl_kernel ==
  /\ status = "running" /\ pc = "select" /\ todo = <<>>
  /\ \/ /\ CanBuild
        /\ contexts' = Append(contexts, [version |-> best,
                                         bounds |-> [l \in Loops |-> Bounds(l)],
                                         tiles |-> best_tiles])
        /\ dev' = dev + 1
        /\ best' = None
        /\ best_tiles' = <<>>
        /\ IF dev + 1 \in Devices
             THEN todo' = Candidates(dev + 1) /\ pc' = "select"
             ELSE todo' = <<>> /\ pc' = "done"
        /\ UNCHANGED <<kernel, loop_idx, tiles, status>>
     \/ ~CanBuild /\ Abort

Done == pc = "done" \/ status = "abort"

Next ==
  \/ StartVersion
  \/ EvalLoop
  \/ EvalAborts
  \/ EndVersion
  \/ acc_build_ocl_kernel

Spec == Init /\ [][Next]_vars /\ WF_vars(Next)

------------------------------------------------------------------------------
\* The device side.

\* acc_gang_iteration and acc_worker_iteration for all ids of the level.
UnitIterations(it, t, size) == {it + id * t.stride : id \in 0 .. size - 1}

\* The loop that the translator generates for a static or dynamic tile.
LoopIterations(it, t) == {it + i : i \in {j \in 0 .. t.length - 1 : j % t.stride = 0}}

\* How often the body of a tile runs for each iteration of the tile around it.
Runs(d, desc, t) ==
  IF desc.kind = "unit" THEN kernel.devices[d][desc.unit] ELSE t.length \div t.stride

Descs(d, l) == Versions[contexts[d].version].tiles[l]
Tile(d, desc) == contexts[d].tiles[desc.id]
Share(d, l) == contexts[d].bounds[l]

\* The iterations that a device starts, from the outermost tile to the body.
Into(d, desc, its) ==
  UNION {IF desc.kind = "unit"
           THEN UnitIterations(it, Tile(d, desc), kernel.devices[d][desc.unit])
           ELSE LoopIterations(it, Tile(d, desc)) : it \in its}

Started(d, l) ==
  LET started[k \in 0 .. Len(Descs(d, l))] ==
        IF k = 0 THEN {Share(d, l).lower} ELSE Into(d, Descs(d, l)[k], started[k - 1])
  IN  started[Len(Descs(d, l))]

NumStarted(d, l) ==
  Product([p \in DOMAIN Descs(d, l) |-> Runs(d, Descs(d, l)[p], Tile(d, Descs(d, l)[p]))])

------------------------------------------------------------------------------
\* Properties.

\* A device runs every iteration of its share of a tiled loop exactly once,
\* in whatever order the version nests gangs, workers and loops: tiles,
\* context bounds and the formulas of the device code fit together.
EachIterationOnce ==
  \A d \in DOMAIN contexts : \A l \in Loops :
    (Descs(d, l) # <<>> /\ Share(d, l).lower < Share(d, l).upper) =>
      /\ Started(d, l) = Share(d, l).lower .. Share(d, l).upper - 1
      /\ NumStarted(d, l) = Cardinality(Started(d, l))

\* Once all devices have their contexts, their shares of a split loop follow
\* each other without gap or overlap, from the first to the last iteration;
\* the other loops are whole on every device.
SharesPartition ==
  pc = "done" => \A l \in Loops :
    LET first == kernel.loops[l].lower
        last == kernel.loops[l].upper + 1
    IN  /\ \A d \in Devices : Share(d, l).lower <= Share(d, l).upper
        /\ IsSplit(l) => /\ Share(1, l).lower = first
                         /\ Share(Len(contexts), l).upper = last
                         /\ \A d \in Devices \ {1} : Share(d - 1, l).upper = Share(d, l).lower
        /\ ~IsSplit(l) => \A d \in Devices : Share(d, l) = [lower |-> first, upper |-> last]

\* Data with a row per iteration of a split loop, distributed in the loop's
\* portions: the bytes transferred to a device are the rows of its iterations,
\* from the row on that its kernel is told, although bytes, rows and iterations
\* are each divided and rounded by code of their own.
DataFollowsLoop ==
  \A d \in DOMAIN contexts : \A l \in Loops : IsSplit(l) =>
    \A bytes \in RowBytes :
      LET rows == LoopLength(l)
          n == rows * bytes
          row == Share(d, l).lower - kernel.loops[l].lower
      IN  /\ Offset(rows, kernel.split[l], d) = row
          /\ Start(n, kernel.split[l], d) = row * bytes
          /\ Size(n, kernel.split[l], d) = (Share(d, l).upper - Share(d, l).lower) * bytes

\* A version suits a device: it was made for it and for the sizes of the launch,
\* and the loops can be cut into its tiles.
Cut(i, d, l) ==
  LET desc == Versions[i].tiles[l]
      len == PartOf(l, Portion(l, d))
      fixed == {p \in DOMAIN desc : desc[p].kind # "dynamic"}
      size(p) == IF desc[p].kind = "unit" THEN kernel.devices[d][desc[p].unit] ELSE desc[p].nbr_it
      static == Product([p \in DOMAIN desc |-> IF p \in fixed THEN size(p) ELSE 1])
      fits == \/ desc = <<>> \/ len = 0
              \/ fixed = DOMAIN desc /\ static = len
              \/ fixed # DOMAIN desc /\ \E n \in 1 .. len : n * static = len
  IN  IF fits THEN "fits" ELSE IF fixed = DOMAIN desc THEN "abort" ELSE "not"

Made(i, d) ==
  /\ d \in Versions[i].affinity
  /\ \A u \in Unit : Versions[i].assumed[u] # 0 => Versions[i].assumed[u] = kernel.devices[d][u]

Suits(i, d) == Made(i, d) /\ \A l \in Loops : Cut(i, d, l) = "fits"

Offered(d) == IF kernel.by_device = <<>> THEN DOMAIN Versions ELSE NamedVersion(d)

\* Each device gets the first version that suits it, never one that was given
\* up in the middle of its loops nor the one of an earlier device.
FirstSuitable ==
  \A d \in DOMAIN contexts :
    /\ contexts[d].version \in Offered(d)
    /\ Suits(contexts[d].version, d)
    /\ \A i \in Offered(d) : i < contexts[d].version => ~Suits(i, d)

\* A launch for which each device has a suitable version, in which split loops
\* divide, and in which no version without a dynamic tile has the wrong size,
\* gets its contexts: neither mismatching versions nor versions given up, before
\* or behind the right one, keep a device from it.
Launchable ==
  \A d \in Devices :
    /\ \E i \in Offered(d) : Suits(i, d)
    /\ \A l \in Loops : \A portions \in {Before(l, d), Portion(l, d)} : Divisible(l, portions)
    /\ \A i \in Offered(d) : Made(i, d) => \A l \in Loops : Cut(i, d, l) # "abort"

LaunchesSucceed == Launchable => <>(pc = "done")

\* The assertion at the end of the loops of acc_eval_kernel_version: the
\* outermost tile is as long as the loop.
TileAssertHolds ==
  (pc = "eval" /\ loop_idx \in Loops) =>
    LET desc == Version.tiles[loop_idx]
    IN  (desc # <<>> /\ SplitHolds(loop_idx) /\ Length(loop_idx) # 0
         /\ TilesHold(desc, loop_idx) /\ ~GivesUp(desc, loop_idx))
          => TileAssert(desc, loop_idx)
==============================================================================
