---------------------------- MODULE MCAssociative ----------------------------
\* Up to five entries under six keys: searches of one, two and three calls, and
\* a container that grows from two to eight places.
EXTENDS Associative

MCKey == 1 .. 6
==============================================================================
