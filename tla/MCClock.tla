-------------------------------- MODULE MCClock --------------------------------
(***************************************************************************)
(* Sleeps of 10 and 20 milliseconds with the divisor the kernel sets.      *)
(***************************************************************************)
EXTENDS Clock
===============================================================================
