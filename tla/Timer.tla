-------------------------------- MODULE Timer --------------------------------
(***************************************************************************)
(* The difference of two times in milliseconds (utils/timer.c).  A time is *)
(* a record of seconds and nanoseconds, as clock_gettime gives it.         *)
(***************************************************************************)
EXTENDS Integers

\* (That nsec is below 10^9 matters to nothing here.)
Time == [sec : Nat, nsec : Nat]

\* C divides towards zero.
InMillis(nsec) == IF nsec >= 0 THEN nsec \div 1000000 ELSE -((-nsec) \div 1000000)

acc_timer_delta(start, stop) ==
  LET delta == InMillis(stop.nsec - start.nsec)
      seconds == (stop.sec - start.sec) * 1000
  IN  IF delta > 0 THEN delta + seconds ELSE seconds - delta

\* What passed, in nanoseconds.
Elapsed(start, stop) == (stop.sec - start.sec) * 1000000000 + (stop.nsec - start.nsec)
==============================================================================
