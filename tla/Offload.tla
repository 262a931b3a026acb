------------------------------- MODULE Offload -------------------------------
(***************************************************************************)
(* What acc_region_execute promises a program: regions are executed one at *)
(* a time, each on the devices it was given to and on no others, on all of *)
(* them before the call returns, and while one is executed the memory of   *)
(* the devices is not touched by anybody else.                             *)
(***************************************************************************)
CONSTANTS
  Region,
  On,         \* region -> its devices
  None        \* no region is executed

VARIABLES
  region,     \* the one that is executed
  done,       \* the devices that have executed it
  memory      \* whatever a program knows of the devices' memory

ovars == <<region, done, memory>>

OInit == region = None /\ done = {}

\* The program works on the devices' memory.
Change ==
  /\ region = None
  /\ UNCHANGED <<region, done>>

Begin(r) ==
  /\ region = None
  /\ region' = r
  /\ done' = {}
  /\ UNCHANGED memory

Run ==
  /\ region # None
  /\ \E d \in On[region] : done' = done \cup {d}
  /\ UNCHANGED <<region, memory>>

End ==
  /\ region # None
  /\ done = On[region]
  /\ region' = None
  /\ UNCHANGED <<done, memory>>

ONext ==
  \/ Change
  \/ \E r \in Region : Begin(r)
  \/ Run
  \/ End

OSpec == OInit /\ [][ONext]_ovars
==============================================================================
