------------------------------- MODULE MCBimap -------------------------------
\* A table of three slots under four host and three device pointers: it fills,
\* refuses, and is emptied from the front, the middle and the back.
EXTENDS Bimap, TLC

CONSTANTS h1, h2, h3, h4, d1, d2, d3, d4, v1

MCKey1 == {h1, h2, h3, h4}
MCKey2 == {d1, d2, d3, d4}
MCVal == {v1}

Symmetry == Permutations(MCKey1) \cup Permutations(MCKey2)
==============================================================================
