------------------------------ MODULE MCSched ------------------------------
(***************************************************************************)
(* Model-checking instance of Sched: two scheduled harts, a pool of four   *)
(* slots (two taken by the idle processes), a clock with values 0..2.       *)
(***************************************************************************)
EXTENDS Sched

MCNHarts    == 2
MCMaxProcs  == 4
MCMaxClock  == 2
MCSleepArgs == {2}
MCRingCap   == 1
MCElfOutcomes == BOOLEAN
MCElfValid    == {TRUE}
=============================================================================
