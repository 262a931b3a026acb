------------------------------ MODULE MCDataEnv ------------------------------
EXTENDS DataEnv, TLC

CONSTANTS d1, d2, b1, b2, b3, h1, h2, h3

MCDevice == {d1, d2}
MCDevice1 == {d1}
MCHostPtr == {h1, h2}
MCHostPtr3 == {h1, h2, h3}
MCBuffer == {b1, b2, b3}
MCBuffer2 == {b1, b2}
MCBytes == {1, 2}

Whole(d) == [dev |-> d, host |-> h1, n |-> 2]
\* The same data on both devices, and data split between them.
MCLayouts == { <<Whole(d1), Whole(d2)>>,
               <<[Whole(d1) EXCEPT !.n = 1], [dev |-> d2, host |-> h2, n |-> 1]>> }

\* A region on one device, and one whose share of the data is empty.
MCLayouts1 == {<<Whole(d1)>>, <<[Whole(d1) EXCEPT !.n = 0]>>}

Symmetry == Permutations(Buffer)
==============================================================================
