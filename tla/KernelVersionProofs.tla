------------------------- MODULE KernelVersionProofs -------------------------
(***************************************************************************)
(* Proofs about modules KernelVersion and DistData: for every launch, any  *)
(* number of devices, loops, versions and tiles, each device gets the      *)
(* first version that suits it, the shares of the devices make up the      *)
(* loop, the data follow them, and a device runs every iteration of its    *)
(* share once.                                                             *)
(*                                                                         *)
(* The invariant says of each context that it was built from the           *)
(* quantities of its own device, and of the selection which versions were  *)
(* passed over and why.                                                    *)
(***************************************************************************)
EXTENDS KernelVersion, Numbers, FiniteSetTheorems, SequenceTheorems

End == Len(kernel.loops) + 1

\* The quantities of a device; Length, Fixed, Static, Iterations and Bounds are
\* those of the device dev.
LengthFor(l, d) == PartOf(l, Portion(l, d))
FixedFor(t, d) == IF t.kind = "unit" THEN kernel.devices[d][t.unit] ELSE t.nbr_it
StaticFor(desc, d) ==
  Product([p \in DOMAIN desc |-> IF desc[p].kind = "dynamic" THEN 1 ELSE FixedFor(desc[p], d)])
IterationsFor(desc, l, d) ==
  [p \in DOMAIN desc |->
     IF desc[p].kind = "dynamic" THEN LengthFor(l, d) \div StaticFor(desc, d) ELSE FixedFor(desc[p], d)]
BoundsFor(l, d) ==
  LET lower == kernel.loops[l].lower
  IN  [lower |-> Signed(lower + PartOf(l, Before(l, d))),
       upper |-> Signed(lower + PartOf(l, Before(l, d) + Portion(l, d)))]
DividesFor(l, d) ==
  \A portions \in {Portion(l, d), Before(l, d), Before(l, d) + Portion(l, d)} : Divisible(l, portions)

\* The tiles of the first n - 1 loops, as they are sent to a device.
TilesSet(t, desc, its) ==
  \A p \in DOMAIN desc :
    t[desc[p].id] = [length |-> its[p] * Inner(its, p), stride |-> Inner(its, p)]
LoopTiled(t, desc, l, d) ==
  desc # <<>> /\ LengthFor(l, d) # 0 =>
    /\ IterationsFor(desc, l, d) \in [1 .. Len(desc) -> Nat \ {0}]
    /\ Product(IterationsFor(desc, l, d)) = LengthFor(l, d)
    /\ TilesSet(t, desc, IterationsFor(desc, l, d))
VersionTiled(t, v, d, n) ==
  \A l \in Loops : l < n =>
    /\ Cut(v, d, l) = "fits"
    /\ \E desc : desc = Versions[v].tiles[l] /\ LoopTiled(t, desc, l, d)

FirstFor(v, d) ==
  /\ v \in Offered(d) /\ Suits(v, d)
  /\ \A i \in Offered(d) : i < v => ~Suits(i, d)

\* The versions that are still to be evaluated (q) are the last ones of those
\* offered to the device d.
TodoOK(d, q) ==
  /\ q \in Seq(DOMAIN Versions)
  /\ \A x, y \in 1 .. Len(q) : x < y => q[x] < q[y]
  /\ \A x \in 1 .. Len(q) : q[x] \in Offered(d)
  /\ \A i \in Offered(d) : \/ \E x \in 1 .. Len(q) : q[x] = i
                           \/ \A x \in 1 .. Len(q) : i < q[x]

\* The version b, with the tiles t, is the first one before them that suits.
BestOK(d, q, b, t) ==
  /\ b = None => \A i \in Offered(d) : (\A x \in 1 .. Len(q) : i < q[x]) => ~Suits(i, d)
  /\ b # None => FirstFor(b, d) /\ VersionTiled(t, b, d, End)

\* The version v is under evaluation, its first n - 1 loops have their tiles.
EvalOK(d, v, t, n) ==
  /\ Made(v, d)
  /\ DOMAIN t = 1 .. Versions[v].num_tiles
  /\ VersionTiled(t, v, d, n)

ContextOK(d, c) ==
  /\ FirstFor(c.version, d)
  /\ VersionTiled(c.tiles, c.version, d, End)
  /\ c.bounds = [l \in Loops |-> BoundsFor(l, d)]
  /\ \A l \in Loops : DividesFor(l, d)

KTypes ==
  /\ kernel \in Launches
  /\ dev \in 1 .. Len(kernel.devices) + 1
  /\ pc \in {"select", "eval", "done"}
  /\ loop_idx \in 1 .. End
  /\ best \in {None} \cup DOMAIN Versions
  /\ contexts \in Seq(ToSet(contexts)) /\ Len(contexts) = dev - 1
  /\ status \in {"running", "abort"}

\* The quantities that the predicates are about are named by constants, which
\* keep their values in a step.
Selecting ==
  pc # "done" => \E d \in Devices : \E q, b, t :
    /\ dev = d /\ todo = q /\ best = b /\ best_tiles = t
    /\ TodoOK(d, q) /\ BestOK(d, q, b, t)

Evaluating ==
  /\ pc = "eval" => \E d, v, t, n :
       /\ dev = d /\ todo # <<>> /\ Head(todo) = v /\ tiles = t /\ loop_idx = n
       /\ EvalOK(d, v, t, n)
  /\ pc # "eval" => loop_idx = 1

Built == \A d \in DOMAIN contexts : \E c : contexts[d] = c /\ ContextOK(d, c)

KInv ==
  /\ KTypes /\ Selecting /\ Evaluating /\ Built
  /\ pc = "done" => dev = Len(kernel.devices) + 1 /\ todo = <<>>
------------------------------------------------------------------------------
\* Sums and products.

LEMMA SumsFacts ==
  ASSUME NEW n \in Nat, NEW portions \in [1 .. n -> Nat]
  PROVE  /\ Len(portions) = n
         /\ Sums(portions) \in [0 .. n -> Nat]
         /\ Sums(portions)[0] = 0
         /\ \A k \in 1 .. n : Sums(portions)[k] = Sums(portions)[k - 1] + portions[k]
         /\ \A a, b \in 0 .. n : a <= b => Sums(portions)[a] <= Sums(portions)[b]
<1>1. Len(portions) = n
  OBVIOUS
<1> PICK step : step = [pair \in (1 .. n) \X Nat |-> pair[2] + portions[pair[1]]]
  OBVIOUS
<1>2. /\ step \in [(1 .. n) \X Nat -> Nat]
      /\ \A k \in 1 .. n : \A v \in Nat : step[<<k, v>>] = v + portions[k]
  OBVIOUS
<1>3. PICK f : IsIterated(f, n, Nat, 0, step)
  BY <1>2, Iterated
<1> DEFINE Is(s) == s = [k \in 0 .. n |-> IF k = 0 THEN 0 ELSE s[k - 1] + portions[k]]
<1>4. Is(f)
  <2>1. \A k \in 1 .. n : f[k] = f[k - 1] + portions[k]
    <3>1. \A k \in 1 .. n : k - 1 \in 0 .. n
      OBVIOUS
    <3> QED BY <1>2, <1>3, <3>1 DEF IsIterated
  <2> QED BY <1>3, <2>1 DEF IsIterated
<1>5. Sums(portions) = CHOOSE s : Is(s)
  BY <1>1 DEF Sums
<1>6. Is(Sums(portions))
  BY <1>4, <1>5
<1> PICK s : s = Sums(portions)
  OBVIOUS
<1>7. s[0] = 0 /\ \A k \in 1 .. n : s[k] = s[k - 1] + portions[k]
  BY <1>6
<1> DEFINE Numeric == {k \in 0 .. n : s[k] \in Nat}
<1>8. \A k \in 0 .. n : k \in Numeric
  <2>1. 0 \in Numeric /\ \A k \in 0 .. n - 1 : k \in Numeric => k + 1 \in Numeric
    BY <1>7
  <2> HIDE DEF Numeric
  <2> QED BY <2>1, SetInduction
<1>9. s \in [0 .. n -> Nat]
  BY <1>6, <1>8
<1>10. ASSUME NEW a \in 0 .. n
       PROVE  \A b \in 0 .. n : a <= b => s[a] <= s[b]
  <2> DEFINE Above == {b \in 0 .. n : a <= b => s[a] <= s[b]}
  <2>1. 0 \in Above
    BY <1>9
  <2>2. ASSUME NEW b \in 0 .. n - 1, b \in Above
        PROVE  b + 1 \in Above
    <3>1. s[b + 1] = s[b] + portions[b + 1] /\ s[b] \in Nat /\ s[b + 1] \in Nat /\ s[a] \in Nat
      BY <1>7, <1>9
    <3> QED BY <2>2, <3>1
  <2> HIDE DEF Above
  <2>3. \A b \in 0 .. n : b \in Above
    BY <2>1, <2>2, SetInduction
  <2> QED BY <2>3 DEF Above
<1> QED BY <1>1, <1>7, <1>9, <1>10

\* The same for products.
Products(g, n, s) == g = [k \in 0 .. n |-> IF k = 0 THEN 1 ELSE g[k - 1] * s[k]]

LEMMA Positive ==
  ASSUME NEW a \in Nat \ {0}, NEW b \in Nat \ {0}
  PROVE  a * b \in Nat \ {0}
OBVIOUS

LEMMA ProductsExist ==
  ASSUME NEW n \in Nat, NEW s \in [1 .. n -> Nat \ {0}]
  PROVE  \E g : Products(g, n, s)
<1> PICK V : V = Nat \ {0}
  OBVIOUS
<1> PICK step : step = [pair \in (1 .. n) \X V |-> pair[2] * s[pair[1]]]
  OBVIOUS
<1>1. /\ step \in [(1 .. n) \X V -> V] /\ 1 \in V
      /\ \A k \in 1 .. n : \A v \in V : step[<<k, v>>] = v * s[k]
  <2>1. \A pair \in (1 .. n) \X V : pair[2] \in V /\ s[pair[1]] \in V
    OBVIOUS
  <2>2. \A a, b \in V : a * b \in V
    OBVIOUS
  <2>3. step \in [(1 .. n) \X V -> V]
    BY <2>1, <2>2
  <2>4. \A k \in 1 .. n : \A v \in V : step[<<k, v>>] = v * s[k]
    OBVIOUS
  <2> QED BY <2>3, <2>4
<1>2. PICK f : IsIterated(f, n, V, 1, step)
  BY <1>1, Iterated
<1>3. \A k \in 1 .. n : f[k] = f[k - 1] * s[k]
  <2>1. \A k \in 1 .. n : k - 1 \in 0 .. n
    OBVIOUS
  <2> QED BY <1>1, <1>2, <2>1 DEF IsIterated
<1>4. Products(f, n, s)
  BY <1>2, <1>3 DEF IsIterated, Products
<1> QED BY <1>4

LEMMA ProductsAre ==
  ASSUME NEW n \in Nat, NEW s \in [1 .. n -> Nat \ {0}], NEW g, Products(g, n, s)
  PROVE  /\ g \in [0 .. n -> Nat \ {0}] /\ g[0] = 1
         /\ \A k \in 1 .. n : g[k] = g[k - 1] * s[k]
<1>1. g[0] = 1 /\ \A k \in 1 .. n : g[k] = g[k - 1] * s[k]
  BY DEF Products
<1> DEFINE Numeric == {k \in 0 .. n : g[k] \in Nat \ {0}}
<1>2. ASSUME NEW k \in 0 .. n - 1, k \in Numeric
      PROVE  k + 1 \in Numeric
  <2>1. g[k + 1] = g[k] * s[k + 1] /\ g[k] \in Nat \ {0} /\ s[k + 1] \in Nat \ {0}
    BY <1>1, <1>2
  <2>2. g[k + 1] \in Nat \ {0} /\ k + 1 \in 0 .. n
    BY <2>1, Positive
  <2> QED BY <2>2
<1>3. \A k \in 0 .. n : k \in Numeric
  <2>1. 0 \in Numeric
    BY <1>1
  <2> HIDE DEF Numeric
  <2> QED BY <1>2, <2>1, SetInduction
<1>4. g \in [0 .. n -> Nat \ {0}]
  BY <1>3 DEF Products
<1> QED BY <1>1, <1>4

\* The products of the numbers up to a place; Inner has those behind it.
LEMMA ProductFacts ==
  ASSUME NEW n \in Nat, NEW s \in [1 .. n -> Nat \ {0}]
  PROVE  \E f \in [0 .. n -> Nat \ {0}] :
           /\ f[0] = 1 /\ f[n] = Product(s)
           /\ \A k \in 1 .. n : f[k] = f[k - 1] * s[k]
<1>1. Len(s) = n
  OBVIOUS
<1>2. PICK g : g = CHOOSE x : Products(x, n, s)
  OBVIOUS
<1>3. Products(g, n, s) /\ Product(s) = g[n]
  <2>1. Products(g, n, s)
    BY <1>2, ProductsExist
  <2> QED BY <1>1, <1>2, <2>1 DEF Product, Products
<1>4. /\ g \in [0 .. n -> Nat \ {0}] /\ g[0] = 1
      /\ \A k \in 1 .. n : g[k] = g[k - 1] * s[k]
  BY <1>3, ProductsAre
<1> QED BY <1>3, <1>4

LEMMA InnerFacts ==
  ASSUME NEW n \in Nat, NEW its \in [1 .. n -> Nat \ {0}]
  PROVE  /\ Inner(its, n) = 1
         /\ \A p \in 0 .. n : Inner(its, p) \in Nat \ {0}
         /\ \A p \in 1 .. n : Inner(its, p - 1) = Inner(its, p) * its[p]
<1>1. Len(its) = n
  OBVIOUS
<1> PICK s : s = [k \in 1 .. n |-> its[n - k + 1]]
  OBVIOUS
<1>2. s \in [1 .. n -> Nat \ {0}] /\ \A k \in 1 .. n : s[k] = its[n - k + 1]
  OBVIOUS
<1> DEFINE Is(g) == g = [k \in 0 .. n |-> IF k = 0 THEN 1 ELSE g[k - 1] * its[n - k + 1]]
<1>3. \A g : Is(g) <=> Products(g, n, s)
  <2>1. \A g : [k \in 0 .. n |-> IF k = 0 THEN 1 ELSE g[k - 1] * its[n - k + 1]]
                = [k \in 0 .. n |-> IF k = 0 THEN 1 ELSE g[k - 1] * s[k]]
    BY <1>2
  <2> QED BY <2>1 DEF Products
<1>4. PICK g : g = CHOOSE x : Is(x)
  OBVIOUS
<1>5. Is(g) /\ Strides(its) = g
  <2>1. \E x : Products(x, n, s)
    BY <1>2, ProductsExist
  <2>2. \E x : Is(x)
    BY <1>3, <2>1
  <2> QED BY <1>1, <1>4, <2>2 DEF Strides
<1>6. Products(g, n, s)
  BY <1>3, <1>5
<1> HIDE DEF Is
<1>7. /\ g \in [0 .. n -> Nat \ {0}] /\ g[0] = 1
      /\ \A k \in 1 .. n : g[k] = g[k - 1] * s[k]
  <2>1. s \in [1 .. n -> Nat \ {0}]
    BY <1>2
  <2> QED BY <1>6, <2>1, ProductsAre
<1>8. \A p \in 0 .. n : Inner(its, p) = g[n - p]
  BY <1>1, <1>5 DEF Inner
<1>9. ASSUME NEW p \in 1 .. n
      PROVE  Inner(its, p - 1) = Inner(its, p) * its[p]
  <2>1. n - p + 1 \in 1 .. n /\ n - (p - 1) = n - p + 1 /\ n - (n - p + 1) + 1 = p
        /\ n - p + 1 - 1 = n - p /\ p - 1 \in 0 .. n
    OBVIOUS
  <2>2. g[n - p + 1] = g[n - p] * its[p]
    BY <1>2, <1>7, <2>1
  <2> QED BY <1>8, <2>1, <2>2
<1> QED BY <1>7, <1>8, <1>9

\* Each place divides the product in two.
LEMMA ProductOfParts ==
  ASSUME NEW n \in Nat, NEW its \in [1 .. n -> Nat \ {0}]
  PROVE  \E f \in [0 .. n -> Nat \ {0}] :
           /\ f[0] = 1 /\ f[n] = Product(its)
           /\ \A k \in 1 .. n : f[k] = f[k - 1] * its[k]
           /\ \A k \in 0 .. n : f[k] * Inner(its, k) = Product(its)
<1>1. PICK f \in [0 .. n -> Nat \ {0}] :
        f[0] = 1 /\ f[n] = Product(its) /\ \A k \in 1 .. n : f[k] = f[k - 1] * its[k]
  BY ProductFacts
<1> DEFINE Same == {k \in 0 .. n : f[k] * Inner(its, k) = Inner(its, 0)}
<1>2. 0 \in Same
  <2>1. \A j \in Nat : 1 * j = j
    OBVIOUS
  <2>2. 0 \in 0 .. n
    OBVIOUS
  <2>3. Inner(its, 0) \in Nat
    <3>1. \A p \in 0 .. n : Inner(its, p) \in Nat \ {0}
      BY InnerFacts
    <3> QED BY <2>2, <3>1
  <2> QED BY <1>1, <2>1, <2>2, <2>3
<1>3. ASSUME NEW k \in 0 .. n - 1, k \in Same
      PROVE  k + 1 \in Same
  <2>1. /\ k + 1 \in 1 .. n /\ k + 1 \in 0 .. n /\ (k + 1) - 1 = k
    OBVIOUS
  <2>2. PICK a, b, i, j : a = f[k] /\ b = Inner(its, k + 1) /\ i = its[k + 1] /\ j = Inner(its, 0)
    OBVIOUS
  <2>3. /\ a \in Nat /\ b \in Nat /\ i \in Nat
        /\ f[k + 1] = a * i /\ Inner(its, k) = b * i
    <3>1. a \in Nat /\ i \in Nat /\ f[k + 1] = f[(k + 1) - 1] * its[k + 1]
      BY <1>1, <2>1, <2>2
    <3>2. b \in Nat /\ Inner(its, (k + 1) - 1) = Inner(its, k + 1) * its[k + 1]
      BY <2>1, <2>2, InnerFacts
    <3> QED BY <2>1, <2>2, <3>1, <3>2
  <2>4. a * (b * i) = j
    BY <1>3, <2>2, <2>3
  <2>5. (a * i) * b = j
    BY <2>3, <2>4
  <2> QED BY <2>1, <2>2, <2>3, <2>5
<1>4. \A k \in 0 .. n : k \in Same
  <2> HIDE DEF Same
  <2> QED BY <1>2, <1>3, SetInduction
<1>5. f[n] * Inner(its, n) = Inner(its, 0)
  BY <1>4
<1>6. Product(its) = Inner(its, 0)
  <2>1. Inner(its, n) = 1 /\ f[n] \in Nat
    BY InnerFacts
  <2> QED BY <1>1, <1>5, <2>1
<1> QED BY <1>1, <1>4, <1>6

\* A factor of one is replaced.
LEMMA ProductWithFactor ==
  ASSUME NEW n \in Nat, NEW s \in [1 .. n -> Nat \ {0}], NEW p \in 1 .. n, NEW x \in Nat \ {0},
         s[p] = 1
  PROVE  Product([s EXCEPT ![p] = x]) = Product(s) * x
<1> PICK t : t = [s EXCEPT ![p] = x]
  OBVIOUS
<1>1. t \in [1 .. n -> Nat \ {0}] /\ t[p] = x /\ \A k \in 1 .. n : k # p => t[k] = s[k]
  OBVIOUS
<1>2. PICK f \in [0 .. n -> Nat \ {0}] :
        f[0] = 1 /\ f[n] = Product(s) /\ \A k \in 1 .. n : f[k] = f[k - 1] * s[k]
  BY ProductFacts
<1>3. PICK g \in [0 .. n -> Nat \ {0}] :
        g[0] = 1 /\ g[n] = Product(t) /\ \A k \in 1 .. n : g[k] = g[k - 1] * t[k]
  BY <1>1, ProductFacts
<1> DEFINE Agree == {k \in 0 .. n : g[k] = IF k < p THEN f[k] ELSE f[k] * x}
<1>4. 0 \in Agree
  BY <1>2, <1>3
<1>5. ASSUME NEW k \in 0 .. n - 1, k \in Agree
      PROVE  k + 1 \in Agree
  <2>1. k + 1 \in 1 .. n /\ k + 1 \in 0 .. n /\ (k + 1) - 1 = k
    OBVIOUS
  <2>2. PICK a, b : a = f[k] /\ b = s[k + 1]
    OBVIOUS
  <2>3. /\ a \in Nat /\ b \in Nat /\ f[k + 1] = a * b /\ g[k + 1] = g[k] * t[k + 1]
    <3>1. a \in Nat /\ b \in Nat
      BY <2>1, <2>2
    <3>2. f[k + 1] = f[(k + 1) - 1] * s[k + 1] /\ g[k + 1] = g[(k + 1) - 1] * t[k + 1]
      BY <1>2, <1>3, <2>1
    <3> QED BY <2>1, <2>2, <3>1, <3>2
  <2>4. CASE k + 1 < p
    <3>1. g[k] = a /\ t[k + 1] = b
      BY <1>1, <1>5, <2>1, <2>2, <2>4
    <3> QED BY <2>1, <2>3, <2>4, <3>1
  <2>5. CASE k + 1 = p
    <3>1. t[k + 1] = x /\ b = 1
      BY <1>1, <2>2, <2>5
    <3>3. g[k] = a
      BY <1>5, <2>2, <2>5
    <3> QED BY <2>1, <2>3, <2>5, <3>1, <3>3
  <2>6. CASE p < k + 1
    <3>1. g[k] = a * x /\ t[k + 1] = b
      BY <1>1, <1>5, <2>1, <2>2, <2>6
    <3>2. (a * x) * b = (a * b) * x
      BY <2>3
    <3> QED BY <2>1, <2>3, <2>6, <3>1, <3>2
  <2> QED BY <2>4, <2>5, <2>6
<1>6. \A k \in 0 .. n : k \in Agree
  <2> HIDE DEF Agree
  <2> QED BY <1>4, <1>5, SetInduction
<1>7. g[n] = f[n] * x
  BY <1>6
<1> QED BY <1>2, <1>3, <1>7

\* Numbers of two digits, the lower one with n values.
LEMMA Digits ==
  ASSUME NEW m \in Nat, NEW n \in Nat \ {0}
  PROVE  \A x : x \in 0 .. m * n - 1 <=> \E a \in 0 .. m - 1 : \E b \in 0 .. n - 1 : x = a * n + b
<1>1. ASSUME NEW a \in 0 .. m - 1, NEW b \in 0 .. n - 1
      PROVE  a * n + b \in 0 .. m * n - 1
  <2>1. (a + 1) * n <= m * n /\ a * n \in Nat
    OBVIOUS
  <2>2. (a + 1) * n = a * n + n /\ m * n \in Nat
    OBVIOUS
  <2> QED BY <2>1, <2>2
<1>2. ASSUME NEW x \in 0 .. m * n - 1
      PROVE  \E a \in 0 .. m - 1 : \E b \in 0 .. n - 1 : x = a * n + b
  <2>1. x \in Nat /\ x < m * n
    OBVIOUS
  <2>2. PICK a, b : a = x \div n /\ b = x % n
    OBVIOUS
  <2>3. a \in Nat /\ b \in 0 .. n - 1 /\ x = a * n + b
    BY <2>1, <2>2
  <2>4. a < m
    <3>1. SUFFICES ASSUME m <= a
                   PROVE  FALSE
      BY <2>3
    <3>2. m * n <= a * n
      BY <2>3, <3>1
    <3> QED BY <2>1, <2>3, <3>2
  <2>5. a \in 0 .. m - 1
    BY <2>3, <2>4
  <2> QED BY <2>3, <2>5
<1> QED BY <1>1, <1>2

------------------------------------------------------------------------------
\* The launch, and the part of a loop that a device gets.

LEMMA LaunchFacts ==
  ASSUME kernel \in Launches
  PROVE  /\ Devices = 1 .. Len(kernel.devices) /\ Len(kernel.devices) \in Nat \ {0}
         /\ Loops = 1 .. Len(kernel.loops) /\ Len(kernel.loops) \in Nat /\ End \in Nat \ {0}
         /\ Word \in Nat \ {0} /\ RowBytes \subseteq Nat
         /\ \A d \in Devices : \A u \in Unit : kernel.devices[d][u] \in Nat \ {0}
         /\ DOMAIN Versions = 1 .. Len(Versions) /\ Len(Versions) \in Nat
<1>1. LoopsFit(kernel) /\ TilesApart(kernel) /\ Word \in Nat \ {0} /\ RowBytes \subseteq Nat
  BY LaunchAssumption
<1>2. /\ kernel.devices \in Seq([Unit -> Nat \ {0}]) /\ Len(kernel.devices) > 0
      /\ kernel.loops \in Seq([lower : Int, upper : Int, stride : Nat \ {0}])
  BY <1>1 DEF LoopsFit
<1>3. kernel.versions \in Seq(ToSet(kernel.versions))
  BY <1>1 DEF TilesApart
<1> QED BY <1>1, <1>2, <1>3 DEF Devices, Loops, End, Versions

\* The arithmetic is exact in size_t and long.
LEMMA Exact ==
  ASSUME Word \in Nat \ {0}
  PROVE  /\ \A x \in Nat : x < Word => W(x) = x
         /\ \A x \in Int : -(Word \div 2) <= x /\ x < Word \div 2 => Signed(x) = x
<1>1. \A x \in Nat : x < Word => W(x) = x
  BY DEF W
<1>2. ASSUME NEW x \in Int, -(Word \div 2) <= x, x < Word \div 2
      PROVE  Signed(x) = x
  <2>1. Word \div 2 \in Nat /\ 2 * (Word \div 2) <= Word /\ Word < 2 * (Word \div 2) + 2
    OBVIOUS
  <2>2. CASE x >= 0
    <3>1. x \in Nat /\ x < Word
      BY <1>2, <2>1, <2>2
    <3> QED BY <1>1, <1>2, <2>1, <3>1 DEF Signed
  <2>3. CASE x < 0
    <3>1. x % Word = x + Word
      BY <1>2, <2>1, <2>3
    <3> QED BY <1>2, <2>1, <2>3, <3>1 DEF Signed, W
  <2> QED BY <2>2, <2>3
<1> QED BY <1>1, <1>2

LEMMA LoopFacts ==
  ASSUME kernel \in Launches, NEW l \in Loops
  PROVE  /\ kernel.loops[l].lower \in Int /\ kernel.loops[l].upper \in Int
         /\ kernel.loops[l].stride \in Nat \ {0}
         /\ LoopLength(l) = kernel.loops[l].upper - kernel.loops[l].lower + 1
         /\ LoopLength(l) \in Nat /\ Total(l) \in Nat \ {0}
         /\ Total(l) * LoopLength(l) < Word /\ LoopLength(l) * kernel.loops[l].stride < Word
         /\ -(Word \div 2) <= kernel.loops[l].lower /\ kernel.loops[l].upper + 1 < Word \div 2
<1>1. PICK loop, length, total :
        /\ loop = kernel.loops[l] /\ length = loop.upper - loop.lower + 1
        /\ total = IF kernel.split[l] = <<>> THEN 1 ELSE SumOf(kernel.split[l])
  OBVIOUS
<1>2. LoopsFit(kernel) /\ Word \in Nat \ {0}
  BY LaunchAssumption
<1>3. /\ loop \in [lower : Int, upper : Int, stride : Nat \ {0}]
      /\ kernel.split[l] = <<>> \/ kernel.split[l] \in [1 .. Len(kernel.devices) -> Nat]
      /\ total > 0 /\ length >= 0 /\ total * length < Word /\ length * loop.stride < Word
      /\ -(Word \div 2) <= loop.lower /\ loop.upper + 1 < Word \div 2
  <2>1. loop \in [lower : Int, upper : Int, stride : Nat \ {0}]
    <3>1. kernel.loops \in Seq([lower : Int, upper : Int, stride : Nat \ {0}])
      BY <1>2 DEF LoopsFit
    <3>2. l \in DOMAIN kernel.loops
      BY DEF Loops
    <3>3. \A R : \A s \in Seq(R) : \A k \in DOMAIN s : s[k] \in R
      OBVIOUS
    <3> QED BY <1>1, <3>1, <3>2, <3>3
  <2>2. /\ kernel.split[l] = <<>> \/ kernel.split[l] \in [1 .. Len(kernel.devices) -> Nat]
        /\ total > 0
    BY <1>1, <1>2 DEF LoopsFit, Loops
  <2>3. length >= 0 /\ total * length < Word /\ length * loop.stride < Word
    BY <1>1, <1>2 DEF LoopsFit, Loops
  <2>4. -(Word \div 2) <= loop.lower /\ loop.upper + 1 < Word \div 2
    BY <1>1, <1>2 DEF LoopsFit, Loops
  <2> QED BY <2>1, <2>2, <2>3, <2>4
<1>4. total \in Nat \ {0} /\ total = Total(l)
  <2>1. CASE kernel.split[l] = <<>>
    BY <1>1, <2>1 DEF Total, IsSplit
  <2>2. CASE kernel.split[l] # <<>>
    <3>1. SumOf(kernel.split[l]) \in Nat
      <4>1. Len(kernel.devices) \in Nat /\ kernel.split[l] \in [1 .. Len(kernel.devices) -> Nat]
        BY <1>3, <2>2, LaunchFacts
      <4>2. ASSUME NEW n \in Nat, NEW s \in [1 .. n -> Nat] PROVE SumOf(s) \in Nat
        <5>1. Len(s) = n /\ Sums(s) \in [0 .. n -> Nat] /\ n \in 0 .. n
          BY SumsFacts
        <5> QED BY <5>1 DEF SumOf
      <4> QED BY <4>1, <4>2
    <3> QED BY <1>1, <1>3, <2>2, <3>1 DEF Total, IsSplit
  <2> QED BY <2>1, <2>2
<1>5. length \in Nat /\ length < Word
  <2>1. length \in Nat
    BY <1>1, <1>3
  <2>2. length <= total * length
    BY <1>4, <2>1
  <2> QED BY <1>2, <1>3, <1>4, <2>1, <2>2
<1>6. LoopLength(l) = length
  BY <1>1, <1>2, <1>5, Exact DEF LoopLength
<1> QED BY <1>1, <1>3, <1>4, <1>5, <1>6

\* Portions of a loop: they are its parts of the total.
LEMMA PortionFacts ==
  ASSUME kernel \in Launches, NEW l \in Loops, NEW d \in Devices
  PROVE  /\ Before(l, d) \in Nat /\ Portion(l, d) \in Nat
         /\ Before(l, d) + Portion(l, d) <= Total(l)
         /\ ~IsSplit(l) => Before(l, d) = 0 /\ Portion(l, d) = 1 /\ Total(l) = 1
         /\ IsSplit(l) =>
              /\ d = 1 => Before(l, d) = 0
              /\ d = Len(kernel.devices) => Before(l, d) + Portion(l, d) = Total(l)
              /\ d + 1 \in Devices => Before(l, d + 1) = Before(l, d) + Portion(l, d)
<1>1. CASE ~IsSplit(l)
  BY <1>1 DEF Before, Portion, Total
<1>2. CASE IsSplit(l)
  <2>1. PICK n, s : n = Len(kernel.devices) /\ s = kernel.split[l]
    OBVIOUS
  <2>2. n \in Nat \ {0} /\ d \in 1 .. n /\ Devices = 1 .. n
    BY <2>1, LaunchFacts
  <2>3. s \in [1 .. n -> Nat]
    BY <1>2, <2>1, LaunchAssumption DEF LoopsFit, IsSplit, Loops
  <2>4. PICK sums : sums = Sums(s)
    OBVIOUS
  <2>5. /\ Len(s) = n /\ sums \in [0 .. n -> Nat] /\ sums[0] = 0
        /\ \A k \in 1 .. n : sums[k] = sums[k - 1] + s[k]
        /\ \A a, b \in 0 .. n : a <= b => sums[a] <= sums[b]
    BY <2>2, <2>3, <2>4, SumsFacts
  <2>6. /\ Portion(l, d) = s[d] /\ Total(l) = sums[n]
        /\ \A k \in Devices : Before(l, k) = sums[k - 1]
    BY <1>2, <2>1, <2>4, <2>5 DEF Before, Portion, Total, Previous, SumOf
  <2>7. sums[d] = sums[d - 1] + s[d] /\ d - 1 \in 0 .. n /\ d \in 0 .. n /\ n \in 0 .. n /\ d <= n
    BY <2>2, <2>5
  <2>8. sums[d] <= sums[n]
    BY <2>5, <2>7
  <2>9. d + 1 \in Devices => Before(l, d + 1) = sums[d]
    BY <2>2, <2>6
  <2>10. Before(l, d) = sums[d - 1] /\ Before(l, d) + Portion(l, d) = sums[d]
    BY <2>2, <2>6, <2>7
  <2>11. Before(l, d) \in Nat /\ Portion(l, d) \in Nat
    BY <2>2, <2>3, <2>5, <2>6, <2>7, <2>10
  <2>12. /\ d = 1 => Before(l, d) = 0
         /\ d = n => Before(l, d) + Portion(l, d) = Total(l)
    BY <2>5, <2>6, <2>10
  <2>13. d + 1 \in Devices => Before(l, d + 1) = Before(l, d) + Portion(l, d)
    BY <2>9, <2>10
  <2>14. Before(l, d) + Portion(l, d) <= Total(l)
    BY <2>6, <2>8, <2>10
  <2> QED BY <1>2, <2>1, <2>11, <2>12, <2>13, <2>14
<1> QED BY <1>1, <1>2

LEMMA PartFacts ==
  ASSUME kernel \in Launches, NEW l \in Loops, NEW portions \in Nat, portions <= Total(l)
  PROVE  /\ W(portions * LoopLength(l)) = portions * LoopLength(l)
         /\ PartOf(l, portions) \in Nat
         /\ Divisible(l, portions) =>
              /\ Total(l) * PartOf(l, portions) = portions * LoopLength(l)
              /\ PartOf(l, portions) <= LoopLength(l)
<1>1. PICK n, t : n = LoopLength(l) /\ t = Total(l)
  OBVIOUS
<1>2. n \in Nat /\ t \in Nat \ {0} /\ t * n < Word /\ portions <= t
  BY <1>1, LoopFacts
<1>3. portions * n \in Nat /\ portions * n <= t * n /\ Word \in Nat \ {0} /\ t * n \in Nat
  BY <1>2, LaunchAssumption
<1>4. W(portions * n) = portions * n
  BY <1>2, <1>3, Exact
<1>5. PICK q : q = (portions * n) \div t
  OBVIOUS
<1>6. PartOf(l, portions) = q /\ q \in Nat
  BY <1>1, <1>2, <1>3, <1>4, <1>5 DEF PartOf
<1>7. ASSUME Divisible(l, portions)
      PROVE  t * q = portions * n /\ q <= n
  <2>1. (portions * n) % t = 0
    BY <1>1, <1>4, <1>7 DEF Divisible
  <2>2. t * q = portions * n
    BY <1>2, <1>3, <1>5, <2>1
  <2>3. t * q <= t * n
    BY <1>3, <2>2
  <2> QED BY <1>2, <1>6, <2>2, <2>3
<1> QED BY <1>1, <1>4, <1>6, <1>7

\* The share of a device, where its portions divide the loop.
LEMMA ShareFacts ==
  ASSUME kernel \in Launches, NEW l \in Loops, NEW d \in Devices, DividesFor(l, d)
  PROVE  /\ BoundsFor(l, d) = [lower |-> kernel.loops[l].lower + PartOf(l, Before(l, d)),
                               upper |-> kernel.loops[l].lower + PartOf(l, Before(l, d))
                                           + LengthFor(l, d)]
         /\ PartOf(l, Before(l, d) + Portion(l, d)) = PartOf(l, Before(l, d)) + LengthFor(l, d)
         /\ PartOf(l, Before(l, d)) \in Nat /\ LengthFor(l, d) \in Nat
         /\ PartOf(l, Before(l, d)) + LengthFor(l, d) <= LoopLength(l)
<1>1. PICK n, t, b, p, x, y, z, lower :
        /\ n = LoopLength(l) /\ t = Total(l) /\ b = Before(l, d) /\ p = Portion(l, d)
        /\ x = PartOf(l, b) /\ y = PartOf(l, p) /\ z = PartOf(l, b + p)
        /\ lower = kernel.loops[l].lower
  OBVIOUS
<1>2. /\ n \in Nat /\ t \in Nat \ {0} /\ lower \in Int
      /\ -(Word \div 2) <= lower /\ lower + n < Word \div 2
  BY <1>1, LoopFacts
<1>3. b \in Nat /\ p \in Nat /\ b + p <= t
  BY <1>1, PortionFacts
<1>4. Divisible(l, p) /\ Divisible(l, b) /\ Divisible(l, b + p)
  BY <1>1 DEF DividesFor
<1>5. b <= t /\ p <= t /\ b + p \in Nat
  BY <1>2, <1>3
<1>6. /\ x \in Nat /\ t * x = b * n /\ x <= n
      /\ y \in Nat /\ t * y = p * n
      /\ z \in Nat /\ t * z = (b + p) * n /\ z <= n
  BY <1>1, <1>3, <1>4, <1>5, PartFacts
<1>7. z = x + y
  <2>1. (b + p) * n = b * n + p * n /\ t * (x + y) = t * x + t * y
    BY <1>2, <1>3, <1>6
  <2>2. t * z = t * (x + y)
    BY <1>6, <2>1
  <2> QED BY <1>2, <1>6, <2>2
<1>8. Signed(lower + x) = lower + x /\ Signed(lower + z) = lower + z
  <2>1. Word \in Nat \ {0} /\ Word \div 2 \in Int
    BY LaunchAssumption
  <2>2. /\ lower + x \in Int /\ -(Word \div 2) <= lower + x /\ lower + x < Word \div 2
        /\ lower + z \in Int /\ -(Word \div 2) <= lower + z /\ lower + z < Word \div 2
    BY <1>2, <1>6, <2>1
  <2> QED BY <2>1, <2>2, Exact
<1>9. BoundsFor(l, d) = [lower |-> lower + x, upper |-> lower + z]
  BY <1>1, <1>8 DEF BoundsFor
<1> QED BY <1>1, <1>2, <1>6, <1>7, <1>9 DEF LengthFor

------------------------------------------------------------------------------
\* The tiles of a loop on a device.

LEMMA DescFacts ==
  ASSUME kernel \in Launches, NEW v \in DOMAIN Versions, NEW l \in Loops, NEW d \in Devices
  PROVE  /\ DOMAIN Versions[v].tiles[l] = 1 .. Len(Versions[v].tiles[l])
         /\ Len(Versions[v].tiles[l]) \in Nat
         /\ Versions[v].num_tiles \in Nat
         /\ \A p \in DOMAIN Versions[v].tiles[l] :
              /\ Versions[v].tiles[l][p].kind \in {"unit", "static", "dynamic"}
              /\ Versions[v].tiles[l][p].kind # "dynamic"
                   => FixedFor(Versions[v].tiles[l][p], d) \in Nat \ {0}
              /\ Versions[v].tiles[l][p].id \in 1 .. Versions[v].num_tiles
              /\ \A m \in Loops : \A q \in DOMAIN Versions[v].tiles[m] :
                   Versions[v].tiles[l][p].id = Versions[v].tiles[m][q].id => l = m /\ p = q
<1>1. PICK version, loops : version = Versions[v] /\ loops = Loops
  BY Zenon
<1>2. VersionApart(version, loops)
  <2>1. TilesApart(kernel) /\ v \in DOMAIN kernel.versions
    BY LaunchAssumption DEF Versions
  <2>2. VersionApart(kernel.versions[v], DOMAIN kernel.loops)
    BY <2>1 DEF TilesApart
  <2> QED BY <1>1, <2>2 DEF Versions, Loops
<1>3. l \in loops
  BY <1>1
<1>4. /\ version.num_tiles \in Nat
      /\ version.tiles[l] \in Seq(ToSet(version.tiles[l]))
      /\ \A p \in DOMAIN version.tiles[l] :
           /\ version.tiles[l][p].id \in 1 .. version.num_tiles
           /\ version.tiles[l][p].kind = "unit" => version.tiles[l][p].unit \in Unit
           /\ version.tiles[l][p].kind = "static" => version.tiles[l][p].nbr_it \in Nat \ {0}
           /\ version.tiles[l][p].kind \in {"unit", "static", "dynamic"}
           /\ \A m \in loops : \A q \in DOMAIN version.tiles[m] :
                version.tiles[l][p].id = version.tiles[m][q].id => l = m /\ p = q
  BY <1>2, <1>3 DEF VersionApart
<1>5. /\ DOMAIN version.tiles[l] = 1 .. Len(version.tiles[l])
      /\ Len(version.tiles[l]) \in Nat
  <2>1. \A R : \A s \in Seq(R) : DOMAIN s = 1 .. Len(s) /\ Len(s) \in Nat
    OBVIOUS
  <2> QED BY <1>4, <2>1
<1>6. \A p \in DOMAIN version.tiles[l] :
        version.tiles[l][p].kind # "dynamic" => FixedFor(version.tiles[l][p], d) \in Nat \ {0}
  <2>1. \A u \in Unit : kernel.devices[d][u] \in Nat \ {0}
    BY LaunchFacts
  <2> SUFFICES ASSUME NEW p \in DOMAIN version.tiles[l], version.tiles[l][p].kind # "dynamic"
               PROVE  FixedFor(version.tiles[l][p], d) \in Nat \ {0}
    OBVIOUS
  <2>2. CASE version.tiles[l][p].kind = "unit"
    BY <1>4, <2>1, <2>2 DEF FixedFor
  <2>3. CASE version.tiles[l][p].kind = "static"
    BY <1>4, <2>3 DEF FixedFor
  <2> QED BY <1>4, <2>2, <2>3
<1> QED BY <1>1, <1>4, <1>5, <1>6

LEMMA StaticFacts ==
  ASSUME kernel \in Launches, NEW v \in DOMAIN Versions, NEW l \in Loops, NEW d \in Devices,
         NEW desc, desc = Versions[v].tiles[l], NEW n, n = Len(desc), NEW s,
         s = [p \in DOMAIN desc |-> IF desc[p].kind = "dynamic" THEN 1 ELSE FixedFor(desc[p], d)]
  PROVE  /\ n \in Nat /\ DOMAIN desc = 1 .. n
         /\ s \in [1 .. n -> Nat \ {0}]
         /\ StaticFor(desc, d) = Product(s) /\ StaticFor(desc, d) \in Nat \ {0}
<1>1. /\ n \in Nat /\ DOMAIN desc = 1 .. n
      /\ \A p \in DOMAIN desc : desc[p].kind # "dynamic" => FixedFor(desc[p], d) \in Nat \ {0}
  BY DescFacts
<1>2. s \in [1 .. n -> Nat \ {0}]
  BY <1>1
<1>3. StaticFor(desc, d) = Product(s)
  BY DEF StaticFor
<1>4. Product(s) \in Nat \ {0}
  <2>1. PICK f \in [0 .. n -> Nat \ {0}] : f[n] = Product(s)
    <3>1. PICK f \in [0 .. n -> Nat \ {0}] :
            f[0] = 1 /\ f[n] = Product(s) /\ \A k \in 1 .. n : f[k] = f[k - 1] * s[k]
      <4>1. n \in Nat
        BY <1>1
      <4> QED BY <1>2, <4>1, ProductFacts
    <3> QED BY <3>1
  <2> QED BY <1>1, <2>1
<1> QED BY <1>1, <1>2, <1>3, <1>4

\* Whether the loop can be cut into the tiles.
LEMMA CutFacts ==
  ASSUME kernel \in Launches, NEW v \in DOMAIN Versions, NEW l \in Loops, NEW d \in Devices,
         NEW desc, desc = Versions[v].tiles[l], LengthFor(l, d) \in Nat
  PROVE  /\ desc = <<>> \/ LengthFor(l, d) = 0 => Cut(v, d, l) = "fits"
         /\ desc # <<>> /\ LengthFor(l, d) # 0 =>
              Cut(v, d, l) = "fits" <=>
                IF \E p \in DOMAIN desc : desc[p].kind = "dynamic"
                  THEN LengthFor(l, d) % StaticFor(desc, d) = 0
                  ELSE StaticFor(desc, d) = LengthFor(l, d)
<1> DEFINE fixed == {p \in DOMAIN desc : desc[p].kind # "dynamic"}
           size(p) == IF desc[p].kind = "unit" THEN kernel.devices[d][desc[p].unit] ELSE desc[p].nbr_it
           static == Product([p \in DOMAIN desc |-> IF p \in fixed THEN size(p) ELSE 1])
           len == LengthFor(l, d)
<1>1. static = StaticFor(desc, d)
  <2>1. [p \in DOMAIN desc |-> IF p \in fixed THEN size(p) ELSE 1]
          = [p \in DOMAIN desc |-> IF desc[p].kind = "dynamic" THEN 1 ELSE FixedFor(desc[p], d)]
    BY DEF FixedFor
  <2> QED BY <2>1 DEF StaticFor
<1> DEFINE fits == \/ desc = <<>> \/ len = 0
                   \/ fixed = DOMAIN desc /\ static = len
                   \/ fixed # DOMAIN desc /\ \E n \in 1 .. len : n * static = len
<1>2. Cut(v, d, l) = "fits" <=> fits
  <2>1. Cut(v, d, l) = IF fits THEN "fits" ELSE IF fixed = DOMAIN desc THEN "abort" ELSE "not"
    BY DEF Cut, LengthFor
  <2> HIDE DEF fits
  <2> QED BY <2>1
<1>3. fixed # DOMAIN desc <=> \E p \in DOMAIN desc : desc[p].kind = "dynamic"
  OBVIOUS
<1>4. ASSUME len # 0
      PROVE  (\E n \in 1 .. len : n * static = len) <=> len % static = 0
  <2>1. PICK a, b : a = len /\ b = static
    OBVIOUS
  <2>2. a \in Nat \ {0} /\ b \in Nat \ {0}
    <3>1. StaticFor(desc, d) \in Nat \ {0}
      BY StaticFacts
    <3> QED BY <1>1, <1>4, <2>1, <3>1
  <2>3. ASSUME NEW n \in 1 .. a, n * b = a
        PROVE  a % b = 0
    <3>1. \A x, y \in Nat : y # 0 => (x * y) % y = 0
      OBVIOUS
    <3> QED BY <2>2, <2>3, <3>1
  <2>4. ASSUME a % b = 0
        PROVE  \E n \in 1 .. a : n * b = a
    <3>1. PICK q : q = a \div b
      OBVIOUS
    <3>2. q \in Nat /\ q * b = a
      BY <2>2, <2>4, <3>1
    <3>3. q # 0 /\ q <= a
      BY <2>2, <3>2
    <3> QED BY <2>2, <3>2, <3>3
  <2> QED BY <2>1, <2>3, <2>4
<1> HIDE DEF fixed, static, len
<1> QED BY <1>1, <1>2, <1>3, <1>4 DEF len

\* A loop that fits is as long as its tiles together.
LEMMA TilesFit ==
  ASSUME kernel \in Launches, NEW v \in DOMAIN Versions, NEW l \in Loops, NEW d \in Devices,
         NEW desc, desc = Versions[v].tiles[l], LengthFor(l, d) \in Nat \ {0},
         desc # <<>>, Cut(v, d, l) = "fits",
         \A p, q \in DOMAIN desc : desc[p].kind = "dynamic" /\ desc[q].kind = "dynamic" => p = q
  PROVE  /\ IterationsFor(desc, l, d) \in [1 .. Len(desc) -> Nat \ {0}]
         /\ Product(IterationsFor(desc, l, d)) = LengthFor(l, d)
<1>1. PICK n, s, its, len, static :
        /\ n = Len(desc) /\ len = LengthFor(l, d) /\ static = StaticFor(desc, d)
        /\ s = [p \in DOMAIN desc |-> IF desc[p].kind = "dynamic" THEN 1 ELSE FixedFor(desc[p], d)]
        /\ its = IterationsFor(desc, l, d)
  OBVIOUS
<1>2. /\ n \in Nat /\ DOMAIN desc = 1 .. n /\ s \in [1 .. n -> Nat \ {0}]
      /\ static = Product(s) /\ static \in Nat \ {0} /\ len \in Nat \ {0}
  BY <1>1, StaticFacts
<1>3. its = [p \in 1 .. n |-> IF desc[p].kind = "dynamic" THEN len \div static ELSE FixedFor(desc[p], d)]
  BY <1>1, <1>2 DEF IterationsFor
<1>4. CASE \E p \in DOMAIN desc : desc[p].kind = "dynamic"
  <2>1. PICK p \in 1 .. n : desc[p].kind = "dynamic"
    BY <1>2, <1>4
  <2>2. len % static = 0
    <3>1. LengthFor(l, d) \in Nat /\ LengthFor(l, d) # 0
      OBVIOUS
    <3>2. Cut(v, d, l) = "fits" <=> IF \E k \in DOMAIN desc : desc[k].kind = "dynamic"
                                     THEN LengthFor(l, d) % StaticFor(desc, d) = 0
                                     ELSE StaticFor(desc, d) = LengthFor(l, d)
      BY <3>1, CutFacts
    <3> QED BY <1>1, <1>4, <3>2
  <2>3. PICK x : x = len \div static
    OBVIOUS
  <2>4. x \in Nat /\ static * x = len
    <3>1. \A a, b \in Nat \ {0} : a % b = 0 => a \div b \in Nat /\ b * (a \div b) = a
      OBVIOUS
    <3> QED BY <1>2, <2>2, <2>3, <3>1
  <2>5. x \in Nat \ {0}
    BY <1>2, <2>4
  <2>6. its = [s EXCEPT ![p] = x] /\ s[p] = 1
    BY <1>1, <1>2, <1>3, <2>1, <2>3
  <2>7. Product(its) = static * x
    <3>1. Product([s EXCEPT ![p] = x]) = Product(s) * x
      <4>1. s \in [1 .. n -> Nat \ {0}] /\ n \in Nat /\ s[p] = 1
        BY <1>2, <2>6
      <4> QED BY <2>5, <4>1, ProductWithFactor
    <3> QED BY <1>2, <2>6, <3>1
  <2>8. its \in [1 .. n -> Nat \ {0}]
    BY <1>2, <2>5, <2>6
  <2> QED BY <1>1, <2>4, <2>7, <2>8
<1>5. CASE ~ \E p \in DOMAIN desc : desc[p].kind = "dynamic"
  <2>1. static = len
    <3>1. LengthFor(l, d) \in Nat /\ LengthFor(l, d) # 0
      OBVIOUS
    <3>2. Cut(v, d, l) = "fits" <=> IF \E k \in DOMAIN desc : desc[k].kind = "dynamic"
                                     THEN LengthFor(l, d) % StaticFor(desc, d) = 0
                                     ELSE StaticFor(desc, d) = LengthFor(l, d)
      BY <3>1, CutFacts
    <3> QED BY <1>1, <1>5, <3>2
  <2>2. its = s
    BY <1>1, <1>2, <1>3, <1>5
  <2> QED BY <1>1, <1>2, <2>1, <2>2
<1> QED BY <1>4, <1>5

\* At most one tile is dynamic.
LEMMA OneDynamic ==
  ASSUME NEW v \in DOMAIN Versions, NEW l \in Loops, kernel \in Launches, NEW d \in Devices,
         NEW desc, desc = Versions[v].tiles[l], Cardinality(Dynamic(desc)) <= 1
  PROVE  \A p, q \in DOMAIN desc : desc[p].kind = "dynamic" /\ desc[q].kind = "dynamic" => p = q
<1>1. SUFFICES ASSUME NEW p \in Dynamic(desc), NEW q \in Dynamic(desc), p # q
               PROVE  FALSE
  BY DEF Dynamic
<1>2. IsFiniteSet(Dynamic(desc))
  <2>1. DOMAIN desc = 1 .. Len(desc) /\ Len(desc) \in Nat
    BY DescFacts
  <2>2. IsFiniteSet(1 .. Len(desc))
    BY <2>1, FS_Interval
  <2> QED BY <2>1, <2>2, FS_Subset DEF Dynamic
<1>3. Cardinality({p, q}) <= Cardinality(Dynamic(desc))
  BY <1>2, FS_Subset
<1>4. Cardinality({p, q}) = 2
  <2>1. IsFiniteSet({p}) /\ Cardinality({p}) = 1
    BY FS_Singleton
  <2>2. Cardinality({p} \cup {q}) = Cardinality({p}) + 1
    BY <1>1, <2>1, FS_AddElement
  <2>3. {p} \cup {q} = {p, q}
    OBVIOUS
  <2> QED BY <2>1, <2>2, <2>3
<1>5. Cardinality(Dynamic(desc)) \in Nat
  BY <1>2, FS_CardinalityType
<1> QED BY <1>3, <1>4, <1>5

------------------------------------------------------------------------------
\* The steps.  The launch does not change, nor what is only said of it.

LEMMA SameLaunch ==
  ASSUME kernel' = kernel
  PROVE  /\ Devices' = Devices /\ Loops' = Loops /\ Versions' = Versions /\ End' = End
         /\ \A l, d : LengthFor(l, d)' = LengthFor(l, d)
         /\ \A l, d : BoundsFor(l, d)' = BoundsFor(l, d)
         /\ \A l, d : DividesFor(l, d)' = DividesFor(l, d)
         /\ \A v, d : Made(v, d)' = Made(v, d) /\ Suits(v, d)' = Suits(v, d)
         /\ \A d : Offered(d)' = Offered(d)
         /\ \A d : Candidates(d)' = Candidates(d)
         /\ \A v, d : FirstFor(v, d)' = FirstFor(v, d)
         /\ \A t, v, d, n : VersionTiled(t, v, d, n)' = VersionTiled(t, v, d, n)
<1>1. Devices' = Devices /\ Loops' = Loops /\ Versions' = Versions /\ End' = End
  BY DEF Devices, Loops, Versions, End
<1>2. \A l, d : LengthFor(l, d)' = LengthFor(l, d)
  BY DEF LengthFor, PartOf, Portion, IsSplit, Total, LoopLength
<1>3. \A l, d : BoundsFor(l, d)' = BoundsFor(l, d)
  BY DEF BoundsFor, PartOf, Portion, Before, IsSplit, Total, LoopLength
<1>4. \A l, d : DividesFor(l, d)' = DividesFor(l, d)
  BY DEF DividesFor, Divisible, Portion, Before, IsSplit, Total, LoopLength
<1>5. \A v, d : Made(v, d)' = Made(v, d)
  BY DEF Made, Versions
<1>6. \A v, d, l : Cut(v, d, l)' = Cut(v, d, l)
  BY DEF Cut, Versions, PartOf, Portion, IsSplit, Total, LoopLength
<1>7. \A v, d : Suits(v, d)' = Suits(v, d)
  BY <1>1, <1>5, <1>6 DEF Suits
<1>8. \A d : Offered(d)' = Offered(d) /\ Candidates(d)' = Candidates(d)
  BY DEF Offered, Candidates, NamedVersion, Versions
<1>9. \A v, d : FirstFor(v, d)' = FirstFor(v, d)
  BY <1>7, <1>8 DEF FirstFor
<1>10. \A t, v, d, n : VersionTiled(t, v, d, n)' = VersionTiled(t, v, d, n)
  <2>1. \A desc, l, d : IterationsFor(desc, l, d)' = IterationsFor(desc, l, d)
    BY <1>2 DEF IterationsFor, StaticFor, FixedFor
  <2>2. \A t, desc, l, d : LoopTiled(t, desc, l, d)' = LoopTiled(t, desc, l, d)
    BY <1>2, <2>1 DEF LoopTiled, TilesSet
  <2> QED BY <1>1, <1>6, <2>2 DEF VersionTiled
<1> QED BY <1>1, <1>2, <1>3, <1>4, <1>5, <1>7, <1>8, <1>9, <1>10

LEMMA SameOK ==
  ASSUME kernel' = kernel
  PROVE  /\ \A d, q : TodoOK(d, q)' = TodoOK(d, q)
         /\ \A d, q, b, t : BestOK(d, q, b, t)' = BestOK(d, q, b, t)
         /\ \A d, v, t, n : EvalOK(d, v, t, n)' = EvalOK(d, v, t, n)
         /\ \A d, c : ContextOK(d, c)' = ContextOK(d, c)
<1>1. \A d, q : TodoOK(d, q)' = TodoOK(d, q)
  BY SameLaunch DEF TodoOK
<1>2. \A d, q, b, t : BestOK(d, q, b, t)' = BestOK(d, q, b, t)
  <2>1. PICK n : n = End
    OBVIOUS
  <2>2. End' = n
    BY <2>1, SameLaunch
  <2>3. \A t, b, d : VersionTiled(t, b, d, End) = VersionTiled(t, b, d, n)
    BY <2>1
  <2>4. \A t, b, d : VersionTiled(t, b, d, End)' = VersionTiled(t, b, d, n)'
    BY <2>2 DEF VersionTiled
  <2> QED BY <2>3, <2>4, SameLaunch DEF BestOK
<1>3. \A d, v, t, n : EvalOK(d, v, t, n)' = EvalOK(d, v, t, n)
  BY SameLaunch DEF EvalOK
<1>4. \A d, c : ContextOK(d, c)' = ContextOK(d, c)
  <2>1. PICK n : n = End
    OBVIOUS
  <2>2. End' = n
    BY <2>1, SameLaunch
  <2>3. \A t, b, d : VersionTiled(t, b, d, End) = VersionTiled(t, b, d, n)
    BY <2>1
  <2>4. \A t, b, d : VersionTiled(t, b, d, End)' = VersionTiled(t, b, d, n)'
    BY <2>2 DEF VersionTiled
  <2> QED BY <2>3, <2>4, SameLaunch DEF ContextOK
<1> QED BY <1>1, <1>2, <1>3, <1>4

------------------------------------------------------------------------------
\* The versions that are still to be evaluated.

LEMMA CandidatesOK ==
  ASSUME kernel \in Launches, NEW d
  PROVE  TodoOK(d, Candidates(d)) /\ \A t : BestOK(d, Candidates(d), None, t)
<1>1. PICK q, V, O : q = Candidates(d) /\ V = DOMAIN Versions /\ O = Offered(d)
  OBVIOUS
<1>2. /\ q \in Seq(V)
      /\ \A x, y \in 1 .. Len(q) : x < y => q[x] < q[y]
      /\ \A x \in 1 .. Len(q) : q[x] \in O
      /\ \A i \in O : \E x \in 1 .. Len(q) : q[x] = i
  <2>1. \E k \in Nat : V = 1 .. k
    BY <1>1, LaunchFacts
  <2>2. CASE kernel.by_device = <<>>
    <3>1. q = [i \in V |-> i] /\ O = V
      BY <1>1, <2>2 DEF Candidates, Offered
    <3> QED BY <2>1, <3>1
  <2>3. CASE kernel.by_device # <<>> /\ NamedVersion(d) # {}
    <3>1. PICK i : i = CHOOSE j \in NamedVersion(d) : TRUE
      OBVIOUS
    <3>2. i \in NamedVersion(d) /\ q = <<i>> /\ O = NamedVersion(d)
      BY <1>1, <2>3, <3>1 DEF Candidates, Offered
    <3>3. ASSUME NEW j \in NamedVersion(d)
          PROVE  j = i
      <4>1. i \in V /\ j \in V
        BY <1>1, <3>2 DEF NamedVersion
      <4>2. i \in Nat /\ j \in Nat /\ i >= 1 /\ j >= 1
        BY <2>1, <4>1
      <4>3. ~(i < j)
        <5>1. SUFFICES ASSUME i \in 1 .. j - 1
                       PROVE  FALSE
          BY <4>2
        <5> QED BY <3>2, <5>1 DEF NamedVersion
      <4>4. ~(j < i)
        <5>1. SUFFICES ASSUME j \in 1 .. i - 1
                       PROVE  FALSE
          BY <4>2
        <5> QED BY <3>2, <5>1 DEF NamedVersion
      <4> QED BY <4>2, <4>3, <4>4
    <3>4. i \in V
      BY <1>1, <3>2 DEF NamedVersion
    <3> QED BY <3>2, <3>3, <3>4
  <2>4. CASE kernel.by_device # <<>> /\ NamedVersion(d) = {}
    <3>1. q = <<>> /\ O = {}
      BY <1>1, <2>4 DEF Candidates, Offered
    <3> QED BY <3>1
  <2> QED BY <2>2, <2>3, <2>4
<1>3. TodoOK(d, q)
  BY <1>1, <1>2 DEF TodoOK
<1>4. ASSUME NEW i \in O, \A x \in 1 .. Len(q) : i < q[x]
      PROVE  FALSE
  <2>1. PICK x \in 1 .. Len(q) : q[x] = i
    BY <1>2
  <2>2. q[x] < q[x] /\ q[x] \in V
    BY <1>2, <1>4, <2>1
  <2> QED BY <1>1, <2>2, LaunchFacts
<1>5. \A t : BestOK(d, q, None, t)
  BY <1>1, <1>4 DEF BestOK
<1> QED BY <1>1, <1>3, <1>5

\* The first of them is dealt with.
LEMMA NextTodo ==
  ASSUME kernel \in Launches, NEW d, NEW q, TodoOK(d, q), q # <<>>
  PROVE  /\ Head(q) \in Offered(d) /\ Head(q) \in DOMAIN Versions
         /\ TodoOK(d, Tail(q))
         /\ \A b, t : BestOK(d, q, b, t) /\ (b # None \/ ~Suits(Head(q), d))
                        => BestOK(d, Tail(q), b, t)
         /\ \A b, t, u : /\ BestOK(d, q, b, t) /\ b = None
                         /\ Suits(Head(q), d) /\ VersionTiled(u, Head(q), d, End)
                         => BestOK(d, Tail(q), Head(q), u)
<1>1. PICK V, O, v, r : V = DOMAIN Versions /\ O = Offered(d) /\ v = Head(q) /\ r = Tail(q)
  OBVIOUS
<1>2. /\ q \in Seq(V) /\ V \subseteq Nat \ {0}
      /\ \A x, y \in 1 .. Len(q) : x < y => q[x] < q[y]
      /\ \A x \in 1 .. Len(q) : q[x] \in O
      /\ \A i \in O : \/ \E x \in 1 .. Len(q) : q[x] = i
                      \/ \A x \in 1 .. Len(q) : i < q[x]
  <2>1. V \subseteq Nat \ {0}
    BY <1>1, LaunchFacts
  <2> QED BY <1>1, <2>1 DEF TodoOK
<1>3. PICK n : n = Len(q)
  OBVIOUS
<1>4. /\ n \in Nat \ {0} /\ v = q[1] /\ r \in Seq(V) /\ Len(r) = n - 1
      /\ \A x \in 1 .. n - 1 : r[x] = q[x + 1]
      /\ \A x \in 1 .. n : q[x] \in V
  BY <1>1, <1>2, <1>3
<1>5. /\ \A x, y \in 1 .. n : x < y => q[x] < q[y]
      /\ \A x \in 1 .. n : q[x] \in O
      /\ \A i \in O : \/ \E x \in 1 .. n : q[x] = i
                      \/ \A x \in 1 .. n : i < q[x]
  BY <1>2, <1>3
<1>6. \A x \in 1 .. n - 1 : v < r[x]
  BY <1>4, <1>5
<1>7. ASSUME NEW i \in O
      PROVE  \/ i = v
             \/ \E x \in 1 .. n - 1 : r[x] = i
             \/ \A x \in 1 .. n : i < q[x]
  <2>1. SUFFICES ASSUME NEW x \in 1 .. n, q[x] = i, x # 1
                 PROVE  \E y \in 1 .. n - 1 : r[y] = i
    BY <1>4, <1>5
  <2>2. x - 1 \in 1 .. n - 1 /\ r[x - 1] = q[x]
    BY <1>4, <2>1
  <2> QED BY <2>1, <2>2
<1>8. TodoOK(d, r)
  <2>1. \A x, y \in 1 .. n - 1 : x < y => r[x] < r[y]
    BY <1>4, <1>5
  <2>2. \A x \in 1 .. n - 1 : r[x] \in O
    BY <1>4, <1>5
  <2>3. ASSUME NEW i \in O
        PROVE  \/ \E x \in 1 .. n - 1 : r[x] = i
               \/ \A x \in 1 .. n - 1 : i < r[x]
    BY <1>4, <1>6, <1>7
  <2> QED BY <1>1, <1>4, <2>1, <2>2, <2>3 DEF TodoOK
<1>9. ASSUME NEW i \in O, \A x \in 1 .. n - 1 : i < r[x]
      PROVE  i = v \/ \A x \in 1 .. Len(q) : i < q[x]
  <2>1. SUFFICES ASSUME NEW x \in 1 .. n - 1, r[x] = i
                 PROVE  FALSE
    BY <1>3, <1>7
  <2>2. x + 1 \in 1 .. n /\ r[x] = q[x + 1]
    BY <1>4
  <2>3. r[x] \in V
    BY <1>4, <2>2
  <2>4. r[x] < r[x] /\ r[x] \in Nat
    BY <1>2, <1>9, <2>1, <2>3
  <2> QED BY <2>4
<1>10. ASSUME NEW b, NEW t, BestOK(d, q, b, t), b # None \/ ~Suits(v, d)
       PROVE  BestOK(d, r, b, t)
  <2>1. ASSUME b = None, NEW i \in O, \A x \in 1 .. Len(r) : i < r[x]
        PROVE  ~Suits(i, d)
    <3>1. i = v \/ \A x \in 1 .. Len(q) : i < q[x]
      BY <1>4, <1>9, <2>1
    <3> QED BY <1>1, <1>10, <2>1, <3>1 DEF BestOK
  <2> QED BY <1>1, <1>10, <2>1 DEF BestOK
<1>11. ASSUME NEW b, NEW t, NEW u, BestOK(d, q, b, t), b = None,
              Suits(v, d), VersionTiled(u, v, d, End)
       PROVE  BestOK(d, r, v, u)
  <2>1. v \in O /\ v # None
    BY <1>2, <1>4, <1>5 DEF None
  <2>2. ASSUME NEW i \in O, i < v
        PROVE  ~Suits(i, d)
    <3>1. V = 1 .. Len(Versions) /\ Len(Versions) \in Nat /\ O \subseteq V
      BY <1>1, LaunchFacts DEF Offered, NamedVersion
    <3>2. i \in Nat
      BY <3>1
    <3>3. \A x \in 1 .. n : i < q[x]
      <4>1. TAKE x \in 1 .. n
      <4>2. q[1] \in Nat /\ q[x] \in Nat /\ (x = 1 \/ q[1] < q[x])
        <5>1. 1 \in 1 .. n /\ (x = 1 \/ 1 < x)
          BY <1>4
        <5>2. q[1] \in V /\ q[x] \in V
          BY <1>4, <5>1
        <5>3. x = 1 \/ q[1] < q[x]
          BY <1>5, <5>1
        <5> QED BY <1>2, <5>2, <5>3
      <4> QED BY <1>4, <2>2, <3>2, <4>2
    <3> QED BY <1>1, <1>3, <1>11, <3>3 DEF BestOK
  <2>3. FirstFor(v, d)
    BY <1>1, <1>11, <2>1, <2>2 DEF FirstFor
  <2> QED BY <1>11, <2>1, <2>3 DEF BestOK
<1>12. v \in O /\ v \in V
  BY <1>4, <1>5
<1> QED BY <1>1, <1>8, <1>10, <1>11, <1>12

------------------------------------------------------------------------------
\* acc_eval_kernel_version: the tiles of one loop more.

LEMMA LengthFacts ==
  ASSUME kernel \in Launches, NEW l \in Loops, NEW d \in Devices
  PROVE  /\ LengthFor(l, d) \in Nat
         /\ Divisible(l, Portion(l, d)) \/ ~IsSplit(l) => LengthFor(l, d) <= LoopLength(l)
<1>1. /\ Portion(l, d) \in Nat /\ Portion(l, d) <= Total(l)
      /\ ~IsSplit(l) => Portion(l, d) = 1 /\ Total(l) = 1
  <2>1. /\ Before(l, d) \in Nat /\ Portion(l, d) \in Nat
        /\ Before(l, d) + Portion(l, d) <= Total(l)
        /\ ~IsSplit(l) => Portion(l, d) = 1 /\ Total(l) = 1
    BY PortionFacts
  <2>2. Total(l) \in Nat
    BY LoopFacts
  <2> QED BY <2>1, <2>2
<1>2. PartOf(l, Portion(l, d)) \in Nat
  BY <1>1, PartFacts
<1>3. Divisible(l, Portion(l, d)) => PartOf(l, Portion(l, d)) <= LoopLength(l)
  BY <1>1, PartFacts
<1>4. ASSUME ~IsSplit(l)
      PROVE  PartOf(l, Portion(l, d)) <= LoopLength(l)
  <2>1. LoopLength(l) \in Nat /\ W(1 * LoopLength(l)) = 1 * LoopLength(l)
    BY <1>1, <1>4, LoopFacts, PartFacts
  <2> QED BY <1>1, <1>4, <2>1 DEF PartOf
<1> QED BY <1>2, <1>3, <1>4 DEF LengthFor

LEMMA SkipLoop ==
  ASSUME kernel \in Launches, NEW d \in Devices, NEW v \in DOMAIN Versions, NEW t,
         NEW n \in Loops, EvalOK(d, v, t, n),
         Versions[v].tiles[n] = <<>> \/ LengthFor(n, d) = 0
  PROVE  EvalOK(d, v, t, n + 1)
<1>1. Cut(v, d, n) = "fits"
  BY LengthFacts, CutFacts
<1>2. PICK desc : desc = Versions[v].tiles[n]
  OBVIOUS
<1>3. LoopTiled(t, desc, n, d)
  BY <1>2 DEF LoopTiled
<1>4. \A l \in Loops : l < n + 1 => l < n \/ l = n
  BY LaunchFacts
<1> QED BY <1>1, <1>2, <1>3, <1>4 DEF EvalOK, VersionTiled

LEMMA TileLoop ==
  ASSUME kernel \in Launches, NEW d \in Devices, dev = d, NEW v \in DOMAIN Versions, NEW t,
         NEW n \in Loops, EvalOK(d, v, t, n), tiles = t,
         NEW desc, desc = Versions[v].tiles[n], desc # <<>>,
         SplitHolds(n), Length(n) # 0, TilesHold(desc, n), ~GivesUp(desc, n), TileAssert(desc, n)
  PROVE  EvalOK(d, v, Tiled(desc, Iterations(desc, n), kernel.loops[n].stride), n + 1)
<1>1. PICK its, len, k, num, stride, u :
        /\ its = Iterations(desc, n) /\ len = LengthFor(n, d) /\ k = Len(desc)
        /\ num = Versions[v].num_tiles /\ stride = kernel.loops[n].stride
        /\ u = Tiled(desc, its, stride)
  OBVIOUS
<1>2. Length(n) = len /\ len \in Nat \ {0} /\ len <= LoopLength(n)
  <2>1. Length(n) = len
    BY <1>1 DEF Length, LengthFor
  <2>2. Divisible(n, Portion(n, d)) \/ ~IsSplit(n)
    BY DEF SplitHolds
  <2> QED BY <1>1, <2>1, <2>2, LengthFacts
<1>3. \A x : Fixed(x) = FixedFor(x, d)
  BY DEF Fixed, FixedFor
<1>4. Static(desc) = StaticFor(desc, d)
  <2>1. [p \in DOMAIN desc |-> IF desc[p].kind = "dynamic" THEN 1 ELSE Fixed(desc[p])]
          = [p \in DOMAIN desc |-> IF desc[p].kind = "dynamic" THEN 1 ELSE FixedFor(desc[p], d)]
    BY <1>3
  <2> QED BY <2>1 DEF Static, StaticFor
<1>5. its = IterationsFor(desc, n, d)
  BY <1>1, <1>2, <1>3, <1>4 DEF IterationsFor, Iterations, Dynamic
<1>6. Cut(v, d, n) = "fits"
  <2>1. IF \E p \in DOMAIN desc : desc[p].kind = "dynamic"
          THEN len % StaticFor(desc, d) = 0
          ELSE StaticFor(desc, d) = len
    BY <1>2, <1>4 DEF TilesHold, GivesUp, Dynamic
  <2>2. LengthFor(n, d) \in Nat /\ LengthFor(n, d) # 0
    BY <1>1, <1>2
  <2>3. Cut(v, d, n) = "fits" <=> IF \E p \in DOMAIN desc : desc[p].kind = "dynamic"
                                   THEN LengthFor(n, d) % StaticFor(desc, d) = 0
                                   ELSE StaticFor(desc, d) = LengthFor(n, d)
    BY <2>2, CutFacts
  <2> QED BY <1>1, <2>1, <2>3
<1>7. its \in [1 .. k -> Nat \ {0}] /\ Product(its) = len
  <2>1. \A p, q \in DOMAIN desc : desc[p].kind = "dynamic" /\ desc[q].kind = "dynamic" => p = q
    BY OneDynamic DEF TilesHold
  <2> QED BY <1>1, <1>2, <1>5, <1>6, <2>1, TilesFit
<1>8. /\ k \in Nat /\ DOMAIN desc = 1 .. k
      /\ \A p \in 1 .. k : desc[p].id \in 1 .. num
      /\ \A p \in 1 .. k : \A m \in Loops : \A q \in DOMAIN Versions[v].tiles[m] :
           desc[p].id = Versions[v].tiles[m][q].id => n = m /\ p = q
  BY <1>1, DescFacts
<1>9. Word \in Nat \ {0} /\ len < Word /\ stride = 1
  <2>1. /\ Word \in Nat \ {0} /\ stride \in Nat \ {0} /\ LoopLength(n) \in Nat
        /\ LoopLength(n) * stride < Word
    BY <1>1, LaunchFacts, LoopFacts
  <2>2. len * stride <= LoopLength(n) * stride /\ len * stride \in Nat /\ LoopLength(n) * stride \in Nat
    BY <1>2, <2>1
  <2>3. W(len * stride) = len * stride
    <3>1. len * stride < Word
      BY <2>1, <2>2
    <3> QED BY <2>1, <2>2, <3>1, Exact
  <2>4. W(len * stride) = len
    BY <1>1, <1>2, <1>7 DEF TileAssert
  <2>5. stride = 1
    BY <1>2, <2>1, <2>3, <2>4
  <2> QED BY <1>2, <2>1, <2>2, <2>5
<1>10. ASSUME NEW p \in 1 .. k
       PROVE  /\ W(its[p] * Inner(its, p) * stride) = its[p] * Inner(its, p)
              /\ W(Inner(its, p) * stride) = Inner(its, p)
  <2>1. PICK f \in [0 .. k -> Nat \ {0}] : \A i \in 0 .. k : f[i] * Inner(its, i) = Product(its)
    <3>1. PICK f \in [0 .. k -> Nat \ {0}] :
            /\ f[0] = 1 /\ f[k] = Product(its)
            /\ \A i \in 1 .. k : f[i] = f[i - 1] * its[i]
            /\ \A i \in 0 .. k : f[i] * Inner(its, i) = Product(its)
      BY <1>7, <1>8, ProductOfParts
    <3> QED BY <3>1
  <2>2. PICK a, b, i, j, x :
          a = f[p - 1] /\ b = f[p] /\ i = Inner(its, p - 1) /\ j = Inner(its, p) /\ x = its[p]
    OBVIOUS
  <2>3. p - 1 \in 0 .. k /\ p \in 0 .. k
    BY <1>8
  <2>4. /\ a \in Nat \ {0} /\ b \in Nat \ {0} /\ a * i = len /\ b * j = len
    BY <1>7, <2>1, <2>2, <2>3
  <2>5. /\ i \in Nat \ {0} /\ j \in Nat \ {0} /\ i = j * x /\ x \in Nat \ {0}
    <3>1. x \in Nat \ {0}
      BY <1>7, <2>2
    <3>2. /\ \A e \in 0 .. k : Inner(its, e) \in Nat \ {0}
          /\ \A e \in 1 .. k : Inner(its, e - 1) = Inner(its, e) * its[e]
      <4>1. k \in Nat /\ its \in [1 .. k -> Nat \ {0}]
        BY <1>7, <1>8
      <4> QED BY <4>1, InnerFacts
    <3>3. Inner(its, p - 1) \in Nat \ {0} /\ Inner(its, p) \in Nat \ {0}
      BY <2>3, <3>2
    <3>4. Inner(its, p - 1) = Inner(its, p) * its[p]
      BY <3>2
    <3> QED BY <2>2, <3>1, <3>3, <3>4
  <2>6. i <= len /\ j <= len
    BY <2>4, <2>5
  <2>7. W(i) = i /\ W(j) = j
    <3>1. i \in Nat /\ j \in Nat /\ i < Word /\ j < Word
      BY <1>2, <1>9, <2>5, <2>6
    <3> QED BY <1>9, <3>1, Exact
  <2>8. x * j * stride = i /\ j * stride = j /\ x * j = i
    BY <1>9, <2>5
  <2> QED BY <2>2, <2>7, <2>8
<1>11. DOMAIN t = 1 .. num
  BY <1>1 DEF EvalOK
<1>12. TilesSet(u, desc, its)
  <2>1. SUFFICES ASSUME NEW p \in 1 .. k
                 PROVE  u[desc[p].id] = [length |-> its[p] * Inner(its, p), stride |-> Inner(its, p)]
    BY <1>8 DEF TilesSet
  <2>2. PICK q : q = CHOOSE x \in DOMAIN desc : desc[x].id = desc[p].id
    OBVIOUS
  <2>3. q = p
    <3>1. q \in 1 .. k /\ desc[q].id = desc[p].id
      BY <1>8, <2>2
    <3> QED BY <1>8, <3>1
  <2>4. u[desc[p].id] = [length |-> W(its[q] * Inner(its, q) * stride),
                         stride |-> W(Inner(its, q) * stride)]
    BY <1>1, <1>8, <1>11, <2>2 DEF Tiled
  <2> QED BY <1>10, <2>3, <2>4
<1>13. LoopTiled(u, desc, n, d)
  BY <1>1, <1>5, <1>7, <1>12 DEF LoopTiled
<1>14. ASSUME NEW l \in Loops, l < n, NEW other, other = Versions[v].tiles[l],
              LoopTiled(t, other, l, d)
       PROVE  LoopTiled(u, other, l, d)
  <2>1. l # n
    BY <1>14, LaunchFacts
  <2>2. ASSUME NEW q \in DOMAIN other
        PROVE  u[other[q].id] = t[other[q].id]
    <3>1. other[q].id \in 1 .. num
      BY <1>1, <1>14, DescFacts
    <3>2. \A p \in 1 .. k : desc[p].id # other[q].id
      BY <1>8, <1>14, <2>1
    <3> QED BY <1>1, <1>8, <1>11, <3>1, <3>2 DEF Tiled
  <2> QED BY <1>14, <2>2 DEF LoopTiled, TilesSet
<1>15. VersionTiled(u, v, d, n + 1)
  <2>1. \A l \in Loops : l < n + 1 => l < n \/ l = n
    BY LaunchFacts
  <2>2. VersionTiled(t, v, d, n)
    BY DEF EvalOK
  <2>3. \A l \in Loops : l < n => \E other : other = Versions[v].tiles[l] /\ LoopTiled(u, other, l, d)
    BY <1>14, <2>2 DEF VersionTiled
  <2>4. \A l \in Loops : l < n => Cut(v, d, l) = "fits"
    BY <2>2 DEF VersionTiled
  <2> QED BY <1>6, <1>13, <2>1, <2>3, <2>4 DEF VersionTiled
<1>16. DOMAIN u = 1 .. num
  BY <1>1, <1>11 DEF Tiled
<1> QED BY <1>1, <1>15, <1>16 DEF EvalOK

LEMMA GivenUp ==
  ASSUME kernel \in Launches, NEW d \in Devices, dev = d, NEW v \in DOMAIN Versions,
         NEW n \in Loops, NEW desc, desc = Versions[v].tiles[n], desc # <<>>,
         Length(n) # 0, GivesUp(desc, n)
  PROVE  ~Suits(v, d)
<1>1. Length(n) = LengthFor(n, d)
  BY DEF Length, LengthFor
<1>2. Static(desc) = StaticFor(desc, d)
  <2>1. [p \in DOMAIN desc |-> IF desc[p].kind = "dynamic" THEN 1 ELSE Fixed(desc[p])]
          = [p \in DOMAIN desc |-> IF desc[p].kind = "dynamic" THEN 1 ELSE FixedFor(desc[p], d)]
    BY DEF Fixed, FixedFor
  <2> QED BY <2>1 DEF Static, StaticFor
<1>3. LengthFor(n, d) \in Nat
  BY LengthFacts
<1>4. Cut(v, d, n) = "fits" <=> IF \E p \in DOMAIN desc : desc[p].kind = "dynamic"
                                 THEN LengthFor(n, d) % StaticFor(desc, d) = 0
                                 ELSE StaticFor(desc, d) = LengthFor(n, d)
  BY <1>1, <1>3, CutFacts
<1>5. Cut(v, d, n) # "fits"
  BY <1>1, <1>2, <1>4 DEF GivesUp, Dynamic
<1> QED BY <1>5 DEF Suits

------------------------------------------------------------------------------
\* The invariant.

LEMMA InitHolds ==
  ASSUME Init
  PROVE  KInv
<1>1. kernel \in Launches
  BY DEF Init
<1>2. KTypes
  <2>1. Len(kernel.devices) \in Nat \ {0} /\ End \in Nat \ {0}
    BY <1>1, LaunchFacts
  <2> QED BY <2>1 DEF Init, KTypes
<1>3. 1 \in Devices
  BY <1>1, LaunchFacts
<1>4. Selecting
  BY <1>1, <1>3, CandidatesOK DEF Init, Selecting
<1>5. Evaluating /\ Built
  BY DEF Init, Evaluating, Built
<1> QED BY <1>2, <1>4, <1>5 DEF Init, KInv

\* The contexts do not change.
LEMMA BuiltStays ==
  ASSUME Built, kernel' = kernel, contexts' = contexts
  PROVE  Built'
BY SameOK DEF Built

LEMMA StartVersionStep ==
  ASSUME KInv, StartVersion
  PROVE  KInv'
<1>1. kernel \in Launches /\ kernel' = kernel /\ Built'
  BY BuiltStays DEF KInv, KTypes, StartVersion
<1>2. PICK d \in Devices : \E q, b, t :
        /\ dev = d /\ todo = q /\ best = b /\ best_tiles = t
        /\ TodoOK(d, q) /\ BestOK(d, q, b, t)
  BY DEF KInv, Selecting, StartVersion
<1>3. PICK q, b, t, v :
        /\ dev = d /\ todo = q /\ best = b /\ best_tiles = t
        /\ TodoOK(d, q) /\ BestOK(d, q, b, t)
        /\ q # <<>> /\ v = Head(q)
  BY <1>2 DEF StartVersion
<1>4. v \in DOMAIN Versions /\ Version = Versions[v] /\ loop_idx = 1
  BY <1>1, <1>3, NextTodo DEF Version, KInv, Evaluating, StartVersion
<1>5. version_match(Version) <=> Made(v, d)
  <2>1. version_match(Version) <=>
          d \in Versions[v].affinity /\ \A u \in Unit : Versions[v].assumed[u] \in {0, kernel.devices[d][u]}
    BY <1>3, <1>4 DEF version_match
  <2> QED BY <2>1 DEF Made
<1>6. CASE version_match(Version) /\ pc' = "eval"
            /\ tiles' = [i \in 1 .. Version.num_tiles |-> [length |-> Garbage, stride |-> Garbage]]
            /\ UNCHANGED <<todo, loop_idx>>
  <2>1. PICK u : u = [i \in 1 .. Versions[v].num_tiles |-> [length |-> Garbage, stride |-> Garbage]]
    OBVIOUS
  <2>2. VersionTiled(u, v, d, 1)
    <3>1. \A l \in Loops : ~(l < 1)
      BY <1>1, LaunchFacts
    <3> QED BY <3>1 DEF VersionTiled
  <2>3. EvalOK(d, v, u, 1)
    BY <1>5, <1>6, <2>1, <2>2 DEF EvalOK
  <2>4. EvalOK(d, v, u, 1)' /\ tiles' = u
    BY <1>1, <1>4, <1>6, <2>1, <2>3, SameOK
  <2>5. Evaluating'
    BY <1>3, <1>4, <1>6, <2>4 DEF Evaluating, StartVersion
  <2>6. Selecting'
    <3>1. TodoOK(d, q)' /\ BestOK(d, q, b, t)' /\ d \in Devices'
      BY <1>1, <1>3, SameOK, SameLaunch
    <3> QED BY <1>3, <1>6, <3>1 DEF Selecting, StartVersion
  <2>7. KTypes'
    BY <1>1, <1>6, SameLaunch DEF KInv, KTypes, StartVersion
  <2> QED BY <1>1, <1>6, <2>5, <2>6, <2>7 DEF KInv
<1>7. CASE ~version_match(Version) /\ NextVersion
  <2>1. ~Suits(v, d)
    BY <1>5, <1>7 DEF Suits
  <2>2. TodoOK(d, Tail(q)) /\ BestOK(d, Tail(q), b, t)
    BY <1>1, <1>3, <2>1, NextTodo
  <2>3. Selecting'
    <3>1. PICK r : r = Tail(q)
      OBVIOUS
    <3>2. TodoOK(d, r)' /\ BestOK(d, r, b, t)' /\ d \in Devices'
      BY <1>1, <2>2, <3>1, SameOK, SameLaunch
    <3> QED BY <1>3, <1>7, <3>1, <3>2 DEF Selecting, StartVersion, NextVersion
  <2>4. Evaluating' /\ pc' # "done"
    BY <1>7 DEF Evaluating, NextVersion
  <2>5. KTypes'
    <3>1. End \in Nat \ {0}
      BY <1>1, LaunchFacts
    <3> QED BY <1>1, <1>7, <3>1, SameLaunch DEF KInv, KTypes, StartVersion, NextVersion
  <2> QED BY <1>1, <2>3, <2>4, <2>5 DEF KInv
<1> QED BY <1>6, <1>7 DEF StartVersion

LEMMA EvalLoopStep ==
  ASSUME KInv, EvalLoop
  PROVE  KInv'
<1>1. kernel \in Launches /\ kernel' = kernel /\ Built'
  BY BuiltStays DEF KInv, KTypes, EvalLoop
<1>2. PICK d \in Devices : \E q, b, t :
        /\ dev = d /\ todo = q /\ best = b /\ best_tiles = t
        /\ TodoOK(d, q) /\ BestOK(d, q, b, t)
  BY DEF KInv, Selecting, EvalLoop
<1>3. PICK q, b, bt :
        /\ dev = d /\ todo = q /\ best = b /\ best_tiles = bt
        /\ TodoOK(d, q) /\ BestOK(d, q, b, bt)
  BY <1>2
<1>4. PICK v, t, n :
        /\ q # <<>> /\ v = Head(q) /\ tiles = t /\ loop_idx = n
        /\ EvalOK(d, v, t, n) /\ n \in Loops
  BY <1>3 DEF KInv, Evaluating, EvalLoop
<1>5. v \in DOMAIN Versions /\ Version = Versions[v]
  BY <1>1, <1>3, <1>4, NextTodo DEF Version
<1>6. PICK desc : desc = Versions[v].tiles[n]
  OBVIOUS
<1>7. n \in Nat /\ n + 1 \in 1 .. End /\ End \in Nat \ {0}
  <2>1. Loops = 1 .. Len(kernel.loops) /\ Len(kernel.loops) \in Nat
    BY <1>1, LaunchFacts
  <2> QED BY <1>4, <2>1 DEF End
<1>8. ASSUME NEW u, EvalOK(d, v, u, n + 1), tiles' = u, loop_idx' = n + 1,
             UNCHANGED <<pc, todo, status>>
      PROVE  KInv'
  <2>1. PICK m : m = n + 1
    OBVIOUS
  <2>2. EvalOK(d, v, u, m)' /\ TodoOK(d, q)' /\ BestOK(d, q, b, bt)' /\ d \in Devices'
    BY <1>1, <1>3, <1>8, <2>1, SameOK, SameLaunch
  <2>3. Evaluating'
    BY <1>3, <1>4, <1>8, <2>1, <2>2 DEF Evaluating, EvalLoop
  <2>4. Selecting'
    BY <1>3, <1>8, <2>2 DEF Selecting, EvalLoop
  <2>5. KTypes'
    BY <1>1, <1>7, <1>8, SameLaunch DEF KInv, KTypes, EvalLoop
  <2> QED BY <1>1, <1>8, <2>3, <2>4, <2>5 DEF KInv, EvalLoop
<1>9. CASE /\ desc = <<>> \/ LengthFor(n, d) = 0
           /\ loop_idx' = loop_idx + 1
           /\ UNCHANGED <<pc, todo, tiles, status>>
  <2>1. EvalOK(d, v, t, n + 1)
    BY <1>1, <1>4, <1>5, <1>6, <1>9, SkipLoop
  <2> QED BY <1>4, <1>8, <1>9, <2>1
<1>10. CASE /\ desc # <<>> /\ SplitHolds(n) /\ Length(n) # 0 /\ TilesHold(desc, n)
            /\ ~GivesUp(desc, n) /\ TileAssert(desc, n)
            /\ tiles' = Tiled(desc, Iterations(desc, n), kernel.loops[n].stride)
            /\ loop_idx' = loop_idx + 1
            /\ UNCHANGED <<pc, todo, status>>
  <2>1. PICK u : u = Tiled(desc, Iterations(desc, n), kernel.loops[n].stride)
    OBVIOUS
  <2>2. EvalOK(d, v, u, n + 1)
    BY <1>1, <1>3, <1>4, <1>5, <1>6, <1>10, <2>1, TileLoop
  <2> QED BY <1>4, <1>8, <1>10, <2>1, <2>2
<1>11. CASE /\ desc # <<>> /\ Length(n) # 0 /\ GivesUp(desc, n) /\ NextVersion
            /\ UNCHANGED status
  <2>1. ~Suits(v, d)
    BY <1>1, <1>3, <1>4, <1>5, <1>6, <1>11, GivenUp
  <2>2. TodoOK(d, Tail(q)) /\ BestOK(d, Tail(q), b, bt)
    BY <1>1, <1>3, <1>4, <2>1, NextTodo
  <2>3. Selecting'
    <3>1. PICK r : r = Tail(q)
      OBVIOUS
    <3>2. TodoOK(d, r)' /\ BestOK(d, r, b, bt)' /\ d \in Devices'
      BY <1>1, <2>2, <3>1, SameOK, SameLaunch
    <3> QED BY <1>3, <1>11, <3>1, <3>2 DEF Selecting, EvalLoop, NextVersion
  <2>4. Evaluating' /\ pc' # "done"
    BY <1>11 DEF Evaluating, NextVersion
  <2>5. KTypes'
    BY <1>1, <1>7, <1>11, SameLaunch DEF KInv, KTypes, EvalLoop, NextVersion
  <2> QED BY <1>1, <2>3, <2>4, <2>5 DEF KInv
<1>12. Length(n) = LengthFor(n, d)
  BY <1>3 DEF Length, LengthFor
<1> QED BY <1>4, <1>5, <1>6, <1>9, <1>10, <1>11, <1>12 DEF EvalLoop

LEMMA EndVersionStep ==
  ASSUME KInv, EndVersion
  PROVE  KInv'
<1>1. kernel \in Launches /\ kernel' = kernel /\ Built'
  BY BuiltStays DEF KInv, KTypes, EndVersion
<1>2. PICK d \in Devices : \E q, b, t :
        /\ dev = d /\ todo = q /\ best = b /\ best_tiles = t
        /\ TodoOK(d, q) /\ BestOK(d, q, b, t)
  BY DEF KInv, Selecting, EndVersion
<1>3. PICK q, b, bt :
        /\ dev = d /\ todo = q /\ best = b /\ best_tiles = bt
        /\ TodoOK(d, q) /\ BestOK(d, q, b, bt)
  BY <1>2
<1>4. PICK v, t, n :
        /\ q # <<>> /\ v = Head(q) /\ tiles = t /\ loop_idx = n
        /\ EvalOK(d, v, t, n) /\ n \notin Loops
  BY <1>3 DEF KInv, Evaluating, EndVersion
<1>5. v \in DOMAIN Versions /\ End \in Nat \ {0}
  BY <1>1, <1>3, <1>4, NextTodo, LaunchFacts
<1>6. n = End
  <2>1. Loops = 1 .. Len(kernel.loops) /\ Len(kernel.loops) \in Nat /\ n \in 1 .. End
    BY <1>1, <1>4, LaunchFacts DEF KInv, KTypes
  <2> QED BY <1>4, <2>1 DEF End
<1>7. Suits(v, d) /\ VersionTiled(t, v, d, End)
  <2>1. VersionTiled(t, v, d, End) /\ Made(v, d)
    BY <1>4, <1>6 DEF EvalOK
  <2>2. \A l \in Loops : l < End
    BY <1>1, LaunchFacts DEF End
  <2> QED BY <2>1, <2>2 DEF VersionTiled, Suits
<1>8. PICK nb, nt, r :
        /\ nb = (IF b = None THEN v ELSE b) /\ nt = (IF b = None THEN t ELSE bt)
        /\ r = Tail(q)
  OBVIOUS
<1>9. TodoOK(d, r) /\ BestOK(d, r, nb, nt)
  <2>1. TodoOK(d, r)
    BY <1>1, <1>3, <1>4, <1>8, NextTodo
  <2>2. CASE b = None
    BY <1>1, <1>3, <1>4, <1>7, <1>8, <2>2, NextTodo
  <2>3. CASE b # None
    BY <1>1, <1>3, <1>4, <1>8, <2>3, NextTodo
  <2> QED BY <2>1, <2>2, <2>3
<1>10. best' = nb /\ best_tiles' = nt /\ todo' = r /\ dev' = d
  BY <1>3, <1>4, <1>8 DEF EndVersion, KeepBest, NextVersion
<1>11. Selecting'
  <2>1. TodoOK(d, r)' /\ BestOK(d, r, nb, nt)' /\ d \in Devices'
    BY <1>1, <1>9, SameOK, SameLaunch
  <2> QED BY <1>10, <2>1 DEF Selecting
<1>12. Evaluating' /\ pc' # "done"
  BY DEF Evaluating, EndVersion, NextVersion
<1>13. KTypes'
  <2>1. best' \in {None} \cup DOMAIN Versions
    BY <1>3, <1>5, <1>8, <1>10 DEF KInv, KTypes
  <2> QED BY <1>1, <1>5, <2>1, SameLaunch DEF KInv, KTypes, EndVersion, NextVersion
<1> QED BY <1>1, <1>11, <1>12, <1>13 DEF KInv

\* Nothing changes but the status.
LEMMA AbortStep ==
  ASSUME KInv, UNCHANGED <<kernel, dev, pc, todo, loop_idx, tiles, best, best_tiles, contexts>>,
         status' \in {"running", "abort"}
  PROVE  KInv'
<1>1. Built'
  BY BuiltStays DEF KInv
<1>2. KTypes'
  BY SameLaunch DEF KInv, KTypes
<1>3. Selecting'
  <2>1. SUFFICES ASSUME pc # "done"
                 PROVE  Selecting'
    BY DEF Selecting
  <2>2. PICK d \in Devices : \E q, b, t :
          /\ dev = d /\ todo = q /\ best = b /\ best_tiles = t
          /\ TodoOK(d, q) /\ BestOK(d, q, b, t)
    BY <2>1 DEF KInv, Selecting
  <2>3. PICK q, b, t :
          /\ dev = d /\ todo = q /\ best = b /\ best_tiles = t
          /\ TodoOK(d, q) /\ BestOK(d, q, b, t)
    BY <2>2
  <2>4. TodoOK(d, q)' /\ BestOK(d, q, b, t)' /\ d \in Devices'
    BY <2>3, SameOK, SameLaunch
  <2> QED BY <2>3, <2>4 DEF Selecting
<1>4. Evaluating'
  <2>1. CASE pc = "eval"
    <3>1. PICK d, v, t, n :
            /\ dev = d /\ todo # <<>> /\ Head(todo) = v /\ tiles = t /\ loop_idx = n
            /\ EvalOK(d, v, t, n)
      BY <2>1 DEF KInv, Evaluating
    <3>2. EvalOK(d, v, t, n)'
      BY <3>1, SameOK
    <3> QED BY <2>1, <3>1, <3>2 DEF Evaluating
  <2>2. CASE pc # "eval"
    BY <2>2 DEF KInv, Evaluating
  <2> QED BY <2>1, <2>2
<1> QED BY <1>1, <1>2, <1>3, <1>4 DEF KInv

LEMMA BuildStep ==
  ASSUME KInv, acc_build_ocl_kernel, CanBuild,
         contexts' = Append(contexts, [version |-> best,
                                       bounds |-> [l \in Loops |-> Bounds(l)],
                                       tiles |-> best_tiles]),
         dev' = dev + 1, best' = None, best_tiles' = <<>>,
         IF dev + 1 \in Devices
           THEN todo' = Candidates(dev + 1) /\ pc' = "select"
           ELSE todo' = <<>> /\ pc' = "done",
         UNCHANGED <<kernel, loop_idx, tiles, status>>
  PROVE  KInv'
<1>1. kernel \in Launches /\ kernel' = kernel /\ pc = "select" /\ todo = <<>>
  BY DEF KInv, KTypes, acc_build_ocl_kernel
<1>2. PICK d \in Devices : \E q, b, t :
        /\ dev = d /\ todo = q /\ best = b /\ best_tiles = t
        /\ TodoOK(d, q) /\ BestOK(d, q, b, t)
  BY <1>1 DEF KInv, Selecting
<1>3. PICK b, t, bounds :
        /\ dev = d /\ best = b /\ best_tiles = t /\ b # None /\ bounds = [l \in Loops |-> Bounds(l)]
        /\ FirstFor(b, d) /\ VersionTiled(t, b, d, End)
  <2>1. PICK q, b, t :
          /\ dev = d /\ todo = q /\ best = b /\ best_tiles = t
          /\ TodoOK(d, q) /\ BestOK(d, q, b, t)
    BY <1>2
  <2> QED BY <2>1 DEF BestOK, CanBuild
<1>4. PICK c : c = [version |-> b, bounds |-> bounds, tiles |-> t]
  OBVIOUS
<1>5. ContextOK(d, c)
  <2>1. \A l \in Loops : Bounds(l) = BoundsFor(l, d)
    BY <1>3 DEF Bounds, BoundsFor
  <2>2. \A l \in Loops : DividesFor(l, d)
    BY <1>3 DEF CanBuild, BoundsHold, DividesFor
  <2>3. bounds = [l \in Loops |-> BoundsFor(l, d)]
    BY <1>3, <2>1
  <2> QED BY <1>3, <1>4, <2>2, <2>3 DEF ContextOK
<1>6. PICK cs, m : cs = contexts /\ m = Len(contexts)
  OBVIOUS
<1>7. /\ cs \in Seq(ToSet(cs)) /\ m = d - 1 /\ m \in Nat /\ contexts' = Append(cs, c)
      /\ d \in Nat \ {0} /\ Devices = 1 .. Len(kernel.devices) /\ Len(kernel.devices) \in Nat
  BY <1>1, <1>3, <1>4, <1>6, LaunchFacts DEF KInv, KTypes
<1>8. /\ DOMAIN Append(cs, c) = 1 .. d /\ Len(Append(cs, c)) = d
      /\ Append(cs, c)[d] = c /\ \A i \in 1 .. m : Append(cs, c)[i] = cs[i]
      /\ DOMAIN contexts = 1 .. m
  <2>1. PICK S : S = ToSet(cs)
    OBVIOUS
  <2>2. cs \in Seq(S) /\ Len(cs) = m /\ d = m + 1
    BY <1>6, <1>7, <2>1
  <2>3. /\ DOMAIN Append(cs, c) = 1 .. m + 1 /\ Len(Append(cs, c)) = m + 1
        /\ Append(cs, c)[m + 1] = c /\ \A i \in 1 .. m : Append(cs, c)[i] = cs[i]
        /\ DOMAIN cs = 1 .. m
    <3>1. \A s \in Seq(S) :
            /\ DOMAIN Append(s, c) = 1 .. Len(s) + 1 /\ Len(Append(s, c)) = Len(s) + 1
            /\ Append(s, c)[Len(s) + 1] = c /\ \A i \in 1 .. Len(s) : Append(s, c)[i] = s[i]
            /\ DOMAIN s = 1 .. Len(s)
      OBVIOUS
    <3> QED BY <2>2, <3>1
  <2> QED BY <1>6, <2>2, <2>3
<1>9. Built'
  <2>1. SUFFICES ASSUME NEW e \in 1 .. d
                 PROVE  \E x : Append(cs, c)[e] = x /\ ContextOK(e, x)'
    BY <1>7, <1>8 DEF Built
  <2>2. CASE e = d
    BY <1>1, <1>5, <1>8, <2>2, SameOK
  <2>3. CASE e # d
    <3>1. e \in 1 .. m /\ e \in DOMAIN contexts
      BY <1>7, <1>8, <2>3
    <3>2. PICK x : contexts[e] = x /\ ContextOK(e, x)
      BY <3>1 DEF KInv, Built
    <3>3. Append(cs, c)[e] = x
      BY <1>6, <1>8, <3>1, <3>2
    <3> QED BY <1>1, <3>2, <3>3, SameOK
  <2> QED BY <2>2, <2>3
<1>10. Selecting'
  <2>1. SUFFICES ASSUME dev + 1 \in Devices
                 PROVE  Selecting'
    BY DEF Selecting
  <2>2. PICK e, q : e = d + 1 /\ q = Candidates(e)
    OBVIOUS
  <2>3. TodoOK(e, q) /\ BestOK(e, q, None, <<>>) /\ e \in Devices
    BY <1>1, <1>3, <2>1, <2>2, CandidatesOK
  <2>4. TodoOK(e, q)' /\ BestOK(e, q, None, <<>>)' /\ e \in Devices'
    BY <1>1, <2>3, SameOK, SameLaunch
  <2>5. dev' = e /\ todo' = q
    BY <1>3, <2>1, <2>2
  <2> QED BY <2>4, <2>5 DEF Selecting, None
<1>11. Evaluating'
  BY <1>1 DEF KInv, Evaluating
<1>12. KTypes'
  <2>1. /\ kernel' \in Launches /\ dev' \in 1 .. Len(kernel.devices) + 1
        /\ pc' \in {"select", "eval", "done"}
        /\ loop_idx' \in 1 .. End /\ best' = None /\ status' \in {"running", "abort"}
    BY <1>1, <1>3, <1>7 DEF KInv, KTypes
  <2>2. contexts' \in Seq(ToSet(contexts')) /\ Len(contexts') = dev' - 1
    <3>1. \A s : s \in Seq(ToSet(cs) \cup {c}) => s \in Seq(ToSet(s))
      <4>1. TAKE s
      <4>2. HAVE s \in Seq(ToSet(cs) \cup {c})
      <4>3. s = [i \in 1 .. Len(s) |-> s[i]] /\ Len(s) \in Nat
        BY <4>2
      <4>4. \A i \in 1 .. Len(s) : s[i] \in ToSet(s)
        BY <4>2 DEF ToSet
      <4> QED BY <4>3, <4>4
    <3>2. Append(cs, c) \in Seq(ToSet(cs) \cup {c})
      <4>1. cs \in Seq(ToSet(cs) \cup {c})
        BY <1>7
      <4> QED BY <4>1
    <3>3. PICK s : s = Append(cs, c)
      OBVIOUS
    <3>4. s \in Seq(ToSet(s))
      BY <3>1, <3>2, <3>3
    <3>5. contexts' \in Seq(ToSet(contexts'))
      BY <1>7, <3>3, <3>4 DEF ToSet
    <3> QED BY <1>3, <1>7, <1>8, <3>5
  <2> QED BY <1>1, <2>1, <2>2, SameLaunch DEF KTypes
<1>13. pc' = "done" => dev' = Len(kernel'.devices) + 1 /\ todo' = <<>>
  BY <1>1, <1>3, <1>7
<1> QED BY <1>9, <1>10, <1>11, <1>12, <1>13 DEF KInv

LEMMA StepHolds ==
  ASSUME KInv, [Next]_vars
  PROVE  KInv'
<1>1. CASE StartVersion
  BY <1>1, StartVersionStep
<1>2. CASE EvalLoop
  BY <1>2, EvalLoopStep
<1>3. CASE EvalAborts
  BY <1>3, AbortStep DEF EvalAborts, Abort
<1>4. CASE EndVersion
  BY <1>4, EndVersionStep
<1>5. CASE acc_build_ocl_kernel
  <2>1. CASE ~CanBuild /\ Abort
    BY <2>1, AbortStep DEF Abort
  <2>2. CASE ~(~CanBuild /\ Abort)
    BY <1>5, <2>2, BuildStep DEF acc_build_ocl_kernel
  <2> QED BY <2>1, <2>2
<1>6. CASE UNCHANGED vars
  BY <1>6, AbortStep DEF vars, KInv, KTypes
<1> QED BY <1>1, <1>2, <1>3, <1>4, <1>5, <1>6 DEF Next

\* The invariant holds of every launch.
THEOREM ContextsBuilt == Spec => []KInv
<1>1. Init => KInv
  BY InitHolds
<1>2. KInv /\ [Next]_vars => KInv'
  BY StepHolds
<1> QED BY <1>1, <1>2, PTL DEF Spec

------------------------------------------------------------------------------
\* What the devices get.

LEMMA ContextFacts ==
  ASSUME KInv, NEW d \in DOMAIN contexts
  PROVE  /\ kernel \in Launches /\ d \in Devices
         /\ ContextOK(d, contexts[d])
<1>1. kernel \in Launches /\ dev \in 1 .. Len(kernel.devices) + 1
      /\ contexts \in Seq(ToSet(contexts)) /\ Len(contexts) = dev - 1
  BY DEF KInv, KTypes
<1>2. d \in 1 .. dev - 1
  BY <1>1
<1>3. d \in Devices
  BY <1>1, <1>2, LaunchFacts
<1> QED BY <1>1, <1>3 DEF KInv, Built

\* The share of a device in the loop, and what precedes it.
LEMMA ShareIs ==
  ASSUME KInv, NEW d \in DOMAIN contexts, NEW l \in Loops
  PROVE  /\ DividesFor(l, d)
         /\ Share(d, l) = [lower |-> kernel.loops[l].lower + PartOf(l, Before(l, d)),
                           upper |-> kernel.loops[l].lower + PartOf(l, Before(l, d)) + LengthFor(l, d)]
<1>1. DividesFor(l, d) /\ Share(d, l) = BoundsFor(l, d)
  BY ContextFacts DEF ContextOK, Share
<1> QED BY <1>1, ContextFacts, ShareFacts

\* Each device gets the first version that suits it: those before it that
\* were offered to the device (kernel.c:165-208) do not.
THEOREM FirstVersionChosen == Spec => []FirstSuitable
<1>1. KInv => FirstSuitable
  <2>1. SUFFICES ASSUME KInv, NEW d \in DOMAIN contexts
                 PROVE  FirstFor(contexts[d].version, d)
    BY DEF FirstSuitable, FirstFor
  <2> QED BY <2>1, ContextFacts DEF ContextOK
<1> QED BY <1>1, ContextsBuilt, PTL

\* The shares of the devices follow each other from the first to the last
\* iteration of a split loop, and are the whole of the others
\* (acc_build_ocl_kernel, the bounds of the context).
THEOREM SharesMakeUpLoop == Spec => []SharesPartition
<1>1. ASSUME KInv, pc = "done", NEW l \in Loops
      PROVE  LET first == kernel.loops[l].lower
                 last == kernel.loops[l].upper + 1
             IN  /\ \A d \in Devices : Share(d, l).lower <= Share(d, l).upper
                 /\ IsSplit(l) => /\ Share(1, l).lower = first
                                  /\ Share(Len(contexts), l).upper = last
                                  /\ \A d \in Devices \ {1} : Share(d - 1, l).upper = Share(d, l).lower
                 /\ ~IsSplit(l) => \A d \in Devices : Share(d, l) = [lower |-> first, upper |-> last]
  <2>1. PICK first, n, m, total : first = kernel.loops[l].lower /\ n = LoopLength(l)
                                  /\ m = Len(kernel.devices) /\ total = Total(l)
    OBVIOUS
  <2>2. /\ kernel \in Launches /\ Len(contexts) = m /\ DOMAIN contexts = 1 .. m
        /\ Devices = 1 .. m /\ m \in Nat \ {0}
    BY <1>1, <2>1, LaunchFacts DEF KInv, KTypes
  <2>3. /\ first \in Int /\ n \in Nat /\ kernel.loops[l].upper + 1 = first + n
        /\ total \in Nat \ {0}
    <3>1. /\ kernel.loops[l].lower \in Int /\ kernel.loops[l].upper \in Int
          /\ LoopLength(l) = kernel.loops[l].upper - kernel.loops[l].lower + 1
          /\ LoopLength(l) \in Nat /\ Total(l) \in Nat \ {0}
      BY <2>2, LoopFacts
    <3>2. kernel.loops[l].upper + 1 = first + n
      <4>1. \A a, b \in Int : b + 1 = a + (b - a + 1)
        OBVIOUS
      <4> QED BY <2>1, <3>1, <4>1
    <3> QED BY <2>1, <3>1, <3>2
  <2>4. ASSUME NEW d \in 1 .. m
        PROVE  \E x, y, b, p :
                 /\ x = PartOf(l, Before(l, d)) /\ y = LengthFor(l, d)
                 /\ b = Before(l, d) /\ p = Portion(l, d)
                 /\ x \in Nat /\ y \in Nat /\ b \in Nat /\ p \in Nat /\ b + p <= total
                 /\ total * x = b * n /\ total * (x + y) = (b + p) * n
                 /\ Share(d, l) = [lower |-> first + x, upper |-> first + x + y]
                 /\ PartOf(l, b + p) = x + y
    <3>1. PICK x, y, b, p : /\ x = PartOf(l, Before(l, d)) /\ y = LengthFor(l, d)
                            /\ b = Before(l, d) /\ p = Portion(l, d)
      OBVIOUS
    <3>2. DividesFor(l, d) /\ Share(d, l) = [lower |-> first + x, upper |-> first + x + y]
      BY <1>1, <2>1, <2>2, <3>1, ShareIs
    <3>3. x \in Nat /\ y \in Nat /\ PartOf(l, b + p) = x + y
      BY <2>1, <2>2, <3>1, <3>2, ShareFacts
    <3>4. b \in Nat /\ p \in Nat /\ b + p <= total
      BY <2>1, <2>2, <3>1, PortionFacts
    <3>5. Divisible(l, b) /\ Divisible(l, b + p)
      BY <3>1, <3>2 DEF DividesFor
    <3>6. b <= total /\ b + p \in Nat
      BY <2>3, <3>4
    <3>7. total * PartOf(l, b) = b * n /\ total * PartOf(l, b + p) = (b + p) * n
      BY <2>1, <2>2, <3>4, <3>5, <3>6, PartFacts
    <3> QED BY <3>1, <3>2, <3>3, <3>4, <3>7
  <2>5. \A d \in Devices : Share(d, l).lower <= Share(d, l).upper
    <3>1. TAKE d \in Devices
    <3>2. PICK x, y : x \in Nat /\ y \in Nat
                      /\ Share(d, l) = [lower |-> first + x, upper |-> first + x + y]
      BY <2>2, <2>4
    <3> QED BY <2>3, <3>2
  <2>6. ASSUME IsSplit(l)
        PROVE  /\ Share(1, l).lower = first
               /\ Share(m, l).upper = first + n
               /\ \A d \in Devices \ {1} : Share(d - 1, l).upper = Share(d, l).lower
    <3>1. Share(1, l).lower = first
      <4>1. 1 \in 1 .. m /\ Before(l, 1) = 0
        BY <2>2, <2>6, PortionFacts
      <4>2. PICK x, y : x \in Nat /\ total * x = 0 * n
                        /\ Share(1, l) = [lower |-> first + x, upper |-> first + x + y]
        BY <2>4, <4>1
      <4>3. x = 0
        BY <2>3, <4>2
      <4> QED BY <2>3, <4>2, <4>3
    <3>2. Share(m, l).upper = first + n
      <4>1. m \in 1 .. m /\ Before(l, m) + Portion(l, m) = total
        BY <2>1, <2>2, <2>6, PortionFacts
      <4>2. PICK x, y : x \in Nat /\ y \in Nat /\ total * (x + y) = total * n
                        /\ Share(m, l) = [lower |-> first + x, upper |-> first + x + y]
        BY <2>4, <4>1
      <4>3. x + y = n
        BY <2>3, <4>2
      <4> QED BY <2>3, <4>2, <4>3
    <3>3. ASSUME NEW d \in Devices \ {1}
          PROVE  Share(d - 1, l).upper = Share(d, l).lower
      <4>1. PICK e : e = d - 1
        OBVIOUS
      <4>2. e \in 1 .. m /\ d \in 1 .. m /\ d = e + 1
        BY <2>2, <3>3, <4>1
      <4>3. Before(l, d) = Before(l, e) + Portion(l, e)
        BY <2>2, <2>6, <4>2, PortionFacts
      <4>4. PICK x, y : /\ Share(e, l) = [lower |-> first + x, upper |-> first + x + y]
                        /\ PartOf(l, Before(l, e) + Portion(l, e)) = x + y /\ x \in Nat /\ y \in Nat
        BY <2>4, <4>2
      <4>5. PICK z, w : /\ Share(d, l) = [lower |-> first + z, upper |-> first + z + w]
                        /\ z = PartOf(l, Before(l, d))
        BY <2>4, <4>2
      <4>6. z = x + y
        BY <4>3, <4>4, <4>5
      <4> QED BY <2>3, <4>1, <4>4, <4>5, <4>6
    <3> QED BY <3>1, <3>2, <3>3
  <2>7. ASSUME ~IsSplit(l)
        PROVE  \A d \in Devices : Share(d, l) = [lower |-> first, upper |-> first + n]
    <3>1. TAKE d \in Devices
    <3>2. Before(l, d) = 0 /\ Portion(l, d) = 1 /\ total = 1
      BY <2>1, <2>2, <2>7, PortionFacts
    <3>3. PICK x, y : x \in Nat /\ y \in Nat /\ 1 * x = 0 * n /\ 1 * (x + y) = (0 + 1) * n
                      /\ Share(d, l) = [lower |-> first + x, upper |-> first + x + y]
      BY <2>2, <2>4, <3>2
    <3>4. x = 0 /\ y = n
      BY <2>3, <3>3
    <3> QED BY <2>3, <3>3, <3>4
  <2> QED BY <2>1, <2>2, <2>3, <2>5, <2>6, <2>7
<1>2. KInv => SharesPartition
  BY <1>1 DEF SharesPartition
<1> QED BY <1>2, ContextsBuilt, PTL

\* The data of a split loop go where its iterations go: rows and bytes are
\* those of the share, and the kernel is told the first of them
\* (acc_distributed_data, acc_enqueue_kernel).
THEOREM DataInStep == Spec => []DataFollowsLoop
<1>1. ASSUME KInv, NEW d \in DOMAIN contexts, NEW l \in Loops, IsSplit(l), NEW bytes \in RowBytes
      PROVE  LET rows == LoopLength(l)
                 n == rows * bytes
                 row == Share(d, l).lower - kernel.loops[l].lower
             IN  /\ Offset(rows, kernel.split[l], d) = row
                 /\ Start(n, kernel.split[l], d) = row * bytes
                 /\ Size(n, kernel.split[l], d) = (Share(d, l).upper - Share(d, l).lower) * bytes
  <2>1. PICK first, n, t, b, p, x, y, s :
          /\ first = kernel.loops[l].lower /\ n = LoopLength(l) /\ t = Total(l)
          /\ b = Before(l, d) /\ p = Portion(l, d) /\ x = PartOf(l, b) /\ y = PartOf(l, p)
          /\ s = kernel.split[l]
    OBVIOUS
  <2>2. kernel \in Launches /\ d \in Devices /\ bytes \in Nat
    BY <1>1, ContextFacts, LaunchFacts
  <2>3. /\ DividesFor(l, d)
        /\ Share(d, l) = [lower |-> first + x, upper |-> first + x + y]
    BY <1>1, <2>1, ShareIs DEF LengthFor
  <2>4. b \in Nat /\ p \in Nat /\ b <= t /\ p <= t /\ t \in Nat \ {0} /\ n \in Nat /\ first \in Int
    <3>1. /\ Before(l, d) \in Nat /\ Portion(l, d) \in Nat
          /\ Before(l, d) + Portion(l, d) <= Total(l)
      BY <2>2, PortionFacts
    <3>2. t \in Nat \ {0} /\ n \in Nat /\ first \in Int
      BY <2>1, <2>2, LoopFacts
    <3> QED BY <2>1, <3>1, <3>2
  <2>5. Divisible(l, b) /\ Divisible(l, p)
    BY <2>1, <2>3 DEF DividesFor
  <2>6. x \in Nat /\ y \in Nat /\ t * x = b * n /\ t * y = p * n
    BY <2>1, <2>2, <2>4, <2>5, PartFacts
  <2>7. SumOf(s) = t /\ Previous(s, d) = b /\ s[d] = p
    BY <1>1, <2>1 DEF Total, Before, Portion
  <2>8. \A q \in Nat : (t * q) \div t = q
    BY <2>4
  <2>9. Offset(n, s, d) = x
    <3>1. n * b = t * x
      BY <2>4, <2>6
    <3> QED BY <2>6, <2>7, <2>8, <3>1 DEF Offset
  <2>10. Start(n * bytes, s, d) = x * bytes
    <3>1. n * bytes * b = (b * n) * bytes /\ (t * x) * bytes = t * (x * bytes) /\ x * bytes \in Nat
      BY <2>2, <2>4, <2>6
    <3>2. n * bytes * b = t * (x * bytes)
      BY <2>6, <3>1
    <3> QED BY <2>7, <2>8, <3>1, <3>2 DEF Start
  <2>11. Size(n * bytes, s, d) = y * bytes
    <3>1. n * bytes * p = (p * n) * bytes /\ (t * y) * bytes = t * (y * bytes) /\ y * bytes \in Nat
      BY <2>2, <2>4, <2>6
    <3>2. n * bytes * p = t * (y * bytes)
      BY <2>6, <3>1
    <3> QED BY <2>7, <2>8, <3>1, <3>2 DEF Size
  <2>12. Share(d, l).lower - first = x /\ Share(d, l).upper - Share(d, l).lower = y
    BY <2>3, <2>4, <2>6
  <2> QED BY <2>1, <2>9, <2>10, <2>11, <2>12
<1>2. KInv => DataFollowsLoop
  BY <1>1 DEF DataFollowsLoop
<1> QED BY <1>2, ContextsBuilt, PTL

------------------------------------------------------------------------------
\* The iterations of a device.

\* A tile starts m iterations for each one of the tile around it, j apart.
Spread(it, m, j) == {it + i * j : i \in 0 .. m - 1}
Spreads(A, m, j) == UNION {Spread(it, m, j) : it \in A}

LEMMA TileSpreads ==
  ASSUME NEW it \in Int, NEW m \in Nat \ {0}, NEW j \in Nat \ {0},
         NEW t, t = [length |-> m * j, stride |-> j]
  PROVE  /\ UnitIterations(it, t, m) = Spread(it, m, j)
         /\ LoopIterations(it, t) = Spread(it, m, j)
         /\ t.length \div t.stride = m
<1>1. UnitIterations(it, t, m) = Spread(it, m, j)
  BY DEF UnitIterations, Spread
<1>2. ASSUME NEW y \in 0 .. m * j - 1, y % j = 0
      PROVE  \E i \in 0 .. m - 1 : y = i * j
  <2>1. PICK i \in 0 .. m - 1 : \E b \in 0 .. j - 1 : y = i * j + b
    <3>1. \A x : x \in 0 .. m * j - 1 <=> \E a \in 0 .. m - 1 : \E b \in 0 .. j - 1 : x = a * j + b
      BY Digits
    <3> QED BY <3>1
  <2>2. PICK b \in 0 .. j - 1 : y = i * j + b
    BY <2>1
  <2>3. b = 0
    <3>1. \A a \in Nat : \A c \in 0 .. j - 1 : (a * j + c) % j = c
      OBVIOUS
    <3> QED BY <1>2, <2>2, <3>1
  <2> QED BY <2>2, <2>3
<1>3. ASSUME NEW i \in 0 .. m - 1
      PROVE  i * j \in 0 .. m * j - 1 /\ (i * j) % j = 0
  <2>1. 0 \in 0 .. j - 1 /\ i * j + 0 = i * j
    OBVIOUS
  <2>2. i * j \in 0 .. m * j - 1
    BY <2>1, Digits
  <2>3. \A a \in Nat : (a * j) % j = 0
    OBVIOUS
  <2> QED BY <2>2, <2>3
<1>4. {y \in 0 .. m * j - 1 : y % j = 0} = {i * j : i \in 0 .. m - 1}
  BY <1>2, <1>3
<1>5. LoopIterations(it, t) = Spread(it, m, j)
  <2>1. LoopIterations(it, t) = {it + y : y \in {k \in 0 .. m * j - 1 : k % j = 0}}
    BY DEF LoopIterations
  <2> QED BY <1>4, <2>1 DEF Spread
<1>6. t.length \div t.stride = m
  <2>1. (m * j) \div j = m
    OBVIOUS
  <2> QED BY <2>1
<1> QED BY <1>1, <1>5, <1>6

LEMMA SpreadsNest ==
  ASSUME NEW it \in Int, NEW a \in Nat \ {0}, NEW m \in Nat \ {0}, NEW j \in Nat \ {0}
  PROVE  UNION {Spread(x, m, j) : x \in Spread(it, a, j * m)} = Spread(it, a * m, j)
<1>1. ASSUME NEW x \in 0 .. a - 1, NEW i \in 0 .. m - 1
      PROVE  it + x * (j * m) + i * j \in Spread(it, a * m, j)
  <2>1. x * m + i \in 0 .. a * m - 1
    BY Digits
  <2>2. it + x * (j * m) + i * j = it + (x * m + i) * j
    OBVIOUS
  <2> QED BY <2>1, <2>2 DEF Spread
<1>2. ASSUME NEW k \in 0 .. a * m - 1
      PROVE  \E x \in 0 .. a - 1 : \E i \in 0 .. m - 1 : it + k * j = it + x * (j * m) + i * j
  <2>1. PICK x \in 0 .. a - 1 : \E i \in 0 .. m - 1 : k = x * m + i
    <3>1. \A y : y \in 0 .. a * m - 1 <=> \E b \in 0 .. a - 1 : \E i \in 0 .. m - 1 : y = b * m + i
      BY Digits
    <3> QED BY <3>1
  <2>2. PICK i \in 0 .. m - 1 : k = x * m + i
    BY <2>1
  <2>3. it + (x * m + i) * j = it + x * (j * m) + i * j
    OBVIOUS
  <2> QED BY <2>2, <2>3
<1>3. \A y \in UNION {Spread(x, m, j) : x \in Spread(it, a, j * m)} : y \in Spread(it, a * m, j)
  <2>1. TAKE y \in UNION {Spread(x, m, j) : x \in Spread(it, a, j * m)}
  <2>2. PICK s \in Spread(it, a, j * m) : y \in Spread(s, m, j)
    OBVIOUS
  <2>3. PICK x \in 0 .. a - 1 : s = it + x * (j * m)
    BY DEF Spread
  <2>4. PICK i \in 0 .. m - 1 : y = s + i * j
    BY <2>2 DEF Spread
  <2> QED BY <1>1, <2>3, <2>4
<1>4. \A y \in Spread(it, a * m, j) : y \in UNION {Spread(x, m, j) : x \in Spread(it, a, j * m)}
  <2>1. TAKE y \in Spread(it, a * m, j)
  <2>2. PICK k \in 0 .. a * m - 1 : y = it + k * j
    BY DEF Spread
  <2>3. PICK x \in 0 .. a - 1, i \in 0 .. m - 1 : it + k * j = it + x * (j * m) + i * j
    BY <1>2
  <2>4. PICK s : s = it + x * (j * m)
    OBVIOUS
  <2>5. s \in Spread(it, a, j * m) /\ y \in Spread(s, m, j)
    BY <2>2, <2>3, <2>4 DEF Spread
  <2> QED BY <2>5
<1> QED BY <1>3, <1>4

\* With the tiles set from the lengths its, level by level.
Nested(g, n, its, it) ==
  /\ g[0] = {it}
  /\ \A k \in 1 .. n : g[k] = Spreads(g[k - 1], its[k], Inner(its, k))

LEMMA StartedIs ==
  ASSUME NEW n \in Nat, NEW its \in [1 .. n -> Nat \ {0}], NEW it \in Int, NEW g, Nested(g, n, its, it)
  PROVE  g[n] = it .. it + Product(its) - 1
<1>0. /\ g[0] = {it}
      /\ \A k \in 1 .. n : g[k] = Spreads(g[k - 1], its[k], Inner(its, k))
  BY DEF Nested
<1>1. PICK f \in [0 .. n -> Nat \ {0}] :
        /\ f[0] = 1 /\ f[n] = Product(its)
        /\ \A k \in 1 .. n : f[k] = f[k - 1] * its[k]
        /\ \A k \in 0 .. n : f[k] * Inner(its, k) = Product(its)
  BY ProductOfParts
<1>2. /\ Inner(its, n) = 1
      /\ \A k \in 0 .. n : Inner(its, k) \in Nat \ {0}
      /\ \A k \in 1 .. n : Inner(its, k - 1) = Inner(its, k) * its[k]
  BY InnerFacts
<1> PICK S : \A k : k \in S <=> k \in 0 .. n /\ g[k] = Spread(it, f[k], Inner(its, k))
  <2>1. \A k : k \in {i \in 0 .. n : g[i] = Spread(it, f[i], Inner(its, i))}
                 <=> k \in 0 .. n /\ g[k] = Spread(it, f[k], Inner(its, k))
    OBVIOUS
  <2> QED BY <2>1
<1>3. 0 \in S
  <2>1. 0 \in 0 .. n
    OBVIOUS
  <2>2. Inner(its, 0) \in Nat
    BY <1>2, <2>1
  <2>3. \A j \in Nat : Spread(it, 1, j) = {it}
    BY DEF Spread
  <2> QED BY <1>0, <1>1, <2>1, <2>2, <2>3
<1>4. ASSUME NEW k \in 0 .. n - 1, k \in S
      PROVE  k + 1 \in S
  <2>1. PICK h, a, m, j : h = k + 1 /\ a = f[k] /\ m = its[h] /\ j = Inner(its, h)
    OBVIOUS
  <2>2. k \in 0 .. n /\ h \in 1 .. n /\ h \in 0 .. n /\ h - 1 = k
    BY <2>1
  <2>3. a \in Nat \ {0} /\ m \in Nat \ {0} /\ j \in Nat \ {0}
    BY <1>2, <2>1, <2>2
  <2>4. Inner(its, k) = j * m /\ f[h] = a * m
    BY <1>1, <1>2, <2>1, <2>2
  <2>5. g[k] = Spread(it, a, j * m)
    BY <1>4, <2>1, <2>4
  <2>6. g[h] = Spreads(g[h - 1], its[h], Inner(its, h))
    BY <1>0, <2>2
  <2>7. g[h] = Spreads(g[k], m, j)
    BY <2>1, <2>2, <2>6
  <2>8. g[h] = Spreads(Spread(it, a, j * m), m, j)
    BY <2>5, <2>7
  <2>9. g[h] = Spread(it, a * m, j)
    BY <2>3, <2>8, SpreadsNest DEF Spreads
  <2> QED BY <2>1, <2>2, <2>4, <2>9
<1>5. n \in S
  <2>1. \A k \in 0 .. n : k \in S
    BY <1>3, <1>4, SetInduction
  <2> QED BY <2>1
<1>6. g[n] = Spread(it, f[n], 1) /\ f[n] \in Nat
  BY <1>1, <1>2, <1>5
<1>7. \A m \in Nat : Spread(it, m, 1) = it .. it + m - 1
  <2>1. TAKE m \in Nat
  <2>2. \A y \in it .. it + m - 1 : y - it \in 0 .. m - 1 /\ y = it + (y - it) * 1
    OBVIOUS
  <2>3. \A i \in 0 .. m - 1 : it + i * 1 \in it .. it + m - 1
    OBVIOUS
  <2>4. \A y : y \in Spread(it, m, 1) <=> \E i \in 0 .. m - 1 : y = it + i * 1
    BY DEF Spread
  <2>5. \A y : y \in Spread(it, m, 1) <=> y \in it .. it + m - 1
    <3>1. TAKE y
    <3>2. ASSUME y \in Spread(it, m, 1)
          PROVE  y \in it .. it + m - 1
      <4>1. PICK i \in 0 .. m - 1 : y = it + i * 1
        BY <2>4, <3>2
      <4> QED BY <2>3, <4>1
    <3>3. ASSUME y \in it .. it + m - 1
          PROVE  y \in Spread(it, m, 1)
      <4>1. y - it \in 0 .. m - 1 /\ y = it + (y - it) * 1
        BY <2>2, <3>3
      <4> QED BY <2>4, <4>1
    <3> QED BY <3>2, <3>3
  <2> QED BY <2>5
<1> QED BY <1>1, <1>6, <1>7

\* A device runs each iteration of its share of a tiled loop, and runs it once
\* (the tiles of acc_eval_kernel_version, the context bounds, and the ids and
\* loops that libopenacc.cl makes of them).
THEOREM IterationsRunOnce == Spec => []EachIterationOnce
<1>1. ASSUME KInv, NEW d \in DOMAIN contexts, NEW l \in Loops,
             Descs(d, l) # <<>>, Share(d, l).lower < Share(d, l).upper
      PROVE  /\ Started(d, l) = Share(d, l).lower .. Share(d, l).upper - 1
             /\ NumStarted(d, l) = Cardinality(Started(d, l))
  <2>1. PICK c, v, desc, its, n, len, lo :
          /\ c = contexts[d] /\ v = c.version /\ desc = Descs(d, l)
          /\ its = IterationsFor(desc, l, d) /\ n = Len(desc) /\ len = LengthFor(l, d)
          /\ lo = Share(d, l).lower
    OBVIOUS
  <2>2. /\ kernel \in Launches /\ d \in Devices
        /\ FirstFor(v, d) /\ VersionTiled(c.tiles, v, d, End)
    BY <1>1, <2>1, ContextFacts DEF ContextOK
  <2>3. desc = Versions[v].tiles[l] /\ v \in DOMAIN Versions
    BY <2>1, <2>2 DEF Descs, FirstFor, Offered, NamedVersion
  <2>4. lo \in Int /\ len \in Nat \ {0} /\ Share(d, l).upper = lo + len
    <3>1. /\ DividesFor(l, d)
          /\ Share(d, l) = [lower |-> kernel.loops[l].lower + PartOf(l, Before(l, d)),
                            upper |-> kernel.loops[l].lower + PartOf(l, Before(l, d)) + len]
      BY <1>1, <2>1, ShareIs
    <3>2. /\ kernel.loops[l].lower \in Int /\ PartOf(l, Before(l, d)) \in Nat /\ len \in Nat
      BY <2>1, <2>2, <3>1, LoopFacts, ShareFacts
    <3> QED BY <1>1, <2>1, <3>1, <3>2
  <2>5. /\ its \in [1 .. n -> Nat \ {0}] /\ Product(its) = len
        /\ \A p \in DOMAIN desc :
             c.tiles[desc[p].id] = [length |-> its[p] * Inner(its, p), stride |-> Inner(its, p)]
    <3>1. l < End
      BY <2>2, LaunchFacts DEF End
    <3>2. LoopTiled(c.tiles, desc, l, d)
      BY <2>2, <2>3, <3>1 DEF VersionTiled
    <3> QED BY <1>1, <2>1, <2>4, <3>2 DEF LoopTiled, TilesSet
  <2>6. /\ n \in Nat /\ DOMAIN desc = 1 .. n
        /\ \A p \in 1 .. n : desc[p].kind = "unit" => its[p] = kernel.devices[d][desc[p].unit]
    <3>1. n \in Nat /\ DOMAIN desc = 1 .. n
      BY <2>1, <2>2, <2>3, DescFacts
    <3> QED BY <2>1, <3>1 DEF IterationsFor, FixedFor
  <2>7. ASSUME NEW k \in 1 .. n
        PROVE  /\ \A A \in SUBSET Int :
                    Into(d, desc[k], A) = Spreads(A, its[k], Inner(its, k))
               /\ Runs(d, desc[k], Tile(d, desc[k])) = its[k]
    <3>1. PICK m, j, t, unit :
            m = its[k] /\ j = Inner(its, k) /\ t = Tile(d, desc[k]) /\ unit = (desc[k].kind = "unit")
      OBVIOUS
    <3>2. m \in Nat \ {0} /\ j \in Nat \ {0} /\ t = [length |-> m * j, stride |-> j]
      <4>1. Inner(its, k) \in Nat \ {0}
        BY <2>5, <2>6, InnerFacts
      <4>2. t = c.tiles[desc[k].id]
        BY <2>1, <3>1 DEF Tile
      <4> QED BY <2>5, <2>6, <3>1, <4>1, <4>2
    <3>3. desc[k].kind = "unit" => kernel.devices[d][desc[k].unit] = m
      BY <2>6, <3>1
    <3>4. \A x \in Int : UnitIterations(x, t, m) = Spread(x, m, j) /\ LoopIterations(x, t) = Spread(x, m, j)
      BY <3>2, TileSpreads
    <3>5. ASSUME NEW A \in SUBSET Int
          PROVE  Into(d, desc[k], A) = Spreads(A, m, j)
      <4>1. CASE desc[k].kind = "unit"
        <5>1. Into(d, desc[k], A) = UNION {UnitIterations(x, t, m) : x \in A}
          BY <3>1, <3>3, <4>1 DEF Into
        <5>2. {UnitIterations(x, t, m) : x \in A} = {Spread(x, m, j) : x \in A}
          BY <3>4
        <5> QED BY <5>1, <5>2 DEF Spreads
      <4>2. CASE desc[k].kind # "unit"
        <5>1. Into(d, desc[k], A) = UNION {LoopIterations(x, t) : x \in A}
          BY <3>1, <4>2 DEF Into
        <5>2. {LoopIterations(x, t) : x \in A} = {Spread(x, m, j) : x \in A}
          BY <3>4
        <5> QED BY <5>1, <5>2 DEF Spreads
      <4> QED BY <4>1, <4>2
    <3>6. Runs(d, desc[k], t) = m
      <4>1. t.length \div t.stride = m
        <5>1. 0 \in Int
          OBVIOUS
        <5> QED BY <3>2, <5>1, TileSpreads
      <4> QED BY <3>3, <4>1 DEF Runs
    <3> QED BY <3>1, <3>5, <3>6
  <2> DEFINE Level(g, k) == IF k = 0 THEN {lo} ELSE Into(d, desc[k], g[k - 1])
             IsStarted(g) == g = [k \in 0 .. n |-> Level(g, k)]
             By(g, k) == IF k = 0 THEN {lo}
                         ELSE Spreads(g[k - 1], its[k], Inner(its, k))
  <2>8. PICK f : f \in [0 .. n -> SUBSET Int] /\ f = [k \in 0 .. n |-> By(f, k)]
    <3>1. PICK V : V = SUBSET Int
      OBVIOUS
    <3>2. PICK step : step = [pair \in (1 .. n) \X V |->
                                Spreads(pair[2], its[pair[1]], Inner(its, pair[1]))]
      OBVIOUS
    <3>3. ASSUME NEW k \in 1 .. n, NEW A \in V
          PROVE  step[<<k, A>>] = Spreads(A, its[k], Inner(its, k))
                 /\ step[<<k, A>>] \in V
      <4>1. step[<<k, A>>] = Spreads(A, its[k], Inner(its, k))
        BY <3>2
      <4>2. its[k] \in Nat /\ Inner(its, k) \in Nat
        BY <2>5, <2>6, InnerFacts
      <4>3. \A x \in Int : Spread(x, its[k], Inner(its, k)) \subseteq Int
        BY <4>2 DEF Spread
      <4> QED BY <3>1, <4>1, <4>3 DEF Spreads
    <3>4. step \in [(1 .. n) \X V -> V] /\ {lo} \in V
      <4>1. \A pair \in (1 .. n) \X V : step[pair] \in V
        BY <3>3
      <4> QED BY <2>4, <3>1, <3>2, <4>1
    <3>5. PICK g : IsIterated(g, n, V, {lo}, step)
      BY <2>6, <3>4, Iterated
    <3>6. g \in [0 .. n -> V] /\ g[0] = {lo} /\ \A k \in 1 .. n : g[k] = step[<<k, g[k - 1]>>]
      BY <3>5 DEF IsIterated
    <3>7. \A k \in 0 .. n : g[k] = By(g, k)
      <4>1. ASSUME NEW k \in 1 .. n
            PROVE  g[k] = Spreads(g[k - 1], its[k], Inner(its, k))
        <5>1. g[k - 1] \in V
          BY <2>6, <3>6
        <5> QED BY <3>3, <3>6, <5>1
      <4> QED BY <2>6, <3>6, <4>1
    <3>8. g = [k \in 0 .. n |-> By(g, k)]
      BY <3>6, <3>7
    <3> QED BY <3>1, <3>6, <3>8
  <2>9. IsStarted(f)
    <3>1. ASSUME NEW k \in 0 .. n
          PROVE  By(f, k) = Level(f, k)
      <4>1. CASE k = 0
        BY <4>1
      <4>2. CASE k # 0
        <5>1. k \in 1 .. n /\ k - 1 \in 0 .. n
          BY <2>6, <4>2
        <5>2. f[k - 1] \in SUBSET Int
          BY <2>8, <5>1
        <5>3. Into(d, desc[k], f[k - 1]) = Spreads(f[k - 1], its[k], Inner(its, k))
          BY <2>7, <5>1, <5>2
        <5> QED BY <4>2, <5>3
      <4> QED BY <4>1, <4>2
    <3> HIDE DEF By, Level
    <3> QED BY <2>8, <3>1
  <2>10. ASSUME NEW g, IsStarted(g)
         PROVE  g[n] = lo .. lo + len - 1
    <3> PICK S : \A k : k \in S <=> k \in 0 .. n /\ g[k] = f[k]
      <4>1. \A k : k \in {i \in 0 .. n : g[i] = f[i]} <=> k \in 0 .. n /\ g[k] = f[k]
        OBVIOUS
      <4> QED BY <4>1
    <3>1. \A k \in 0 .. n : g[k] = Level(g, k) /\ f[k] = Level(f, k)
      <4> HIDE DEF Level
      <4> QED BY <2>9, <2>10
    <3>2. 0 \in S
      <4>1. 0 \in 0 .. n
        BY <2>6
      <4> QED BY <3>1, <4>1
    <3>3. ASSUME NEW k \in 0 .. n - 1, k \in S
          PROVE  k + 1 \in S
      <4>1. PICK h : h = k + 1
        OBVIOUS
      <4>2. h \in 0 .. n /\ h # 0 /\ h - 1 = k
        BY <2>6, <4>1
      <4>3. g[h] = Into(d, desc[h], g[h - 1]) /\ f[h] = Into(d, desc[h], f[h - 1])
        BY <3>1, <4>2
      <4>4. g[h - 1] = f[h - 1]
        BY <3>3, <4>2
      <4> QED BY <4>1, <4>2, <4>3, <4>4
    <3>4. n \in S
      <4>1. \A k \in 0 .. n : k \in S
        BY <2>6, <3>2, <3>3, SetInduction
      <4> QED BY <2>6, <4>1
    <3>5. f[n] = lo .. lo + Product(its) - 1
      <4>1. f[0] = {lo}
        <5>1. 0 \in 0 .. n
          BY <2>6
        <5> QED BY <3>1, <5>1
      <4>2. ASSUME NEW k \in 1 .. n
            PROVE  f[k] = Spreads(f[k - 1], its[k], Inner(its, k))
        <5>1. k \in 0 .. n /\ k # 0
          BY <2>6
        <5>2. f[k] = By(f, k)
          <6> HIDE DEF By
          <6> QED BY <2>8, <5>1
        <5> QED BY <5>1, <5>2
      <4>3. \A k \in 1 .. n : f[k] = Spreads(f[k - 1], its[k], Inner(its, k))
        BY <4>2
      <4>4. n \in Nat /\ lo \in Int /\ its \in [1 .. n -> Nat \ {0}]
        BY <2>4, <2>5, <2>6
      <4>5. Nested(f, n, its, lo)
        BY <4>1, <4>3 DEF Nested
      <4> QED BY <4>4, <4>5, StartedIs
    <3> QED BY <2>5, <3>4, <3>5
  <2>11. Started(d, l) = lo .. lo + len - 1
    <3>1. PICK g : g = CHOOSE x : IsStarted(x)
      OBVIOUS
    <3>2. IsStarted(g) /\ Started(d, l) = g[n]
      <4>1. \E x : IsStarted(x)
        <5> HIDE DEF IsStarted
        <5> QED BY <2>9
      <4>2. IsStarted(g)
        <5> HIDE DEF IsStarted
        <5> QED BY <3>1, <4>1
      <4>3. Started(d, l) = g[n]
        BY <2>1, <3>1 DEF Started
      <4> QED BY <4>2, <4>3
    <3> QED BY <2>10, <3>2
  <2>12. NumStarted(d, l) = len
    <3>1. [p \in DOMAIN desc |-> Runs(d, desc[p], Tile(d, desc[p]))] = its
      BY <2>5, <2>6, <2>7
    <3> QED BY <2>1, <2>5, <3>1 DEF NumStarted
  <2>13. Cardinality(lo .. lo + len - 1) = len
    <3>1. Cardinality(lo .. lo + len - 1) =
            IF lo > lo + len - 1 THEN 0 ELSE (lo + len - 1) - lo + 1
      BY <2>4, FS_Interval
    <3> QED BY <2>4, <3>1
  <2> QED BY <2>1, <2>4, <2>11, <2>12, <2>13
<1>2. KInv => EachIterationOnce
  BY <1>1 DEF EachIterationOnce
<1> QED BY <1>2, ContextsBuilt, PTL
==============================================================================
