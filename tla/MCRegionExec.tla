---------------------------- MODULE MCRegionExec -----------------------------
EXTENDS RegionExec, TLC

CONSTANTS d1, d2, b1, b2, h1, h2

MCDevice == {d1, d2}
MCHostPtr == {h1}
MCBuffer == {b1, b2}
MCBytes == {1}

On(d) == [dev |-> d, host |-> h1, n |-> 1]

\* A region on both devices and one on the second device only.
Wide == <<On(d1), On(d2)>>
Narrow == <<On(d2)>>
MCLayouts == {Wide, Narrow}

MCGangs == [r \in MCLayouts |-> 2]
\* The narrow region leaves the number of gangs to the runtime.
MCDefaulted == [r \in MCLayouts |-> IF r = Narrow THEN 0 ELSE 2]

Symmetry == Permutations(Buffer)
==============================================================================
