--------------------------- MODULE MCKernelVersion ---------------------------
EXTENDS KernelVersion

CONSTANTS gang, worker

MCUnit == {gang, worker}

U(id, unit) == [id |-> id, kind |-> "unit", unit |-> unit]
S(id, n) == [id |-> id, kind |-> "static", nbr_it |-> n]
D(id) == [id |-> id, kind |-> "dynamic"]

Sizes(g, w) == [u \in MCUnit |-> IF u = gang THEN g ELSE w]

V(id, assumed, affinity, loops, n) ==
  [id |-> id, assumed |-> assumed, affinity |-> affinity, tiles |-> loops, num_tiles |-> n]

Both == {1, 2}

\* Versions of a kernel with two loops, the second of which may stay sequential.
Generic == V(7, Sizes(0, 0), Both, << <<D(3), U(1, gang)>>, <<U(2, worker)>> >>, 3)
TwoGangs == V(8, Sizes(2, 0), Both, << <<U(1, gang), D(2)>>, <<>> >>, 2)
Unrolled == V(9, Sizes(0, 0), Both, << <<U(1, gang), D(2), S(3, 2)>>, <<D(4), U(5, worker)>> >>, 5)
SecondOnly == V(10, Sizes(0, 1), {2}, << <<D(1)>>, <<D(2)>> >>, 2)
Fallback == V(11, Sizes(0, 0), Both, << <<D(2)>>, <<D(1)>> >>, 2)

VersionLists == {<<TwoGangs, Generic>>, <<SecondOnly, Unrolled, Fallback>>,
                 <<Unrolled, TwoGangs, Fallback>>, <<Fallback, SecondOnly>>}

Loop(lower, n, stride) == [lower |-> lower, upper |-> lower + n - 1, stride |-> stride]

Launch(l1, l2, split, devs, versions, by_device) ==
  [loops |-> <<l1, l2>>, split |-> <<split, <<>> >>, devices |-> devs,
   versions |-> versions, by_device |-> by_device]

Splits == {<<>>, <<1, 1>>, <<2, 1>>, <<0, 1>>, <<2, 2>>}
DeviceSizes == {<<Sizes(1, 1), Sizes(2, 2)>>, <<Sizes(2, 2), Sizes(3, 1)>>}
Named == {<<>>, <<11, 11>>, <<9, 10>>}

\* Loops of stride one, also empty ones.
MCLaunches ==
  {Launch(Loop(3, n, 1), Loop(0, m, 1), split, devs, vs, by) :
     n \in {0, 2, 4, 6, 12}, m \in {1, 2, 4},
     split \in Splits, devs \in DeviceSizes, vs \in VersionLists, by \in Named}

\* Loops that step by two.
MCStrided ==
  {Launch(Loop(0, n, 2), Loop(0, 2, 1), split, devs, vs, <<>>) :
     n \in {2, 4}, split \in Splits, devs \in DeviceSizes, vs \in VersionLists}
==============================================================================
