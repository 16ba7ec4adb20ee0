---------------------------- MODULE MCTickTimer ----------------------------
(***************************************************************************)
(* Model-checking instance of TickTimer: two scheduled harts (so that hart *)
(* 0's wake loop visits a hart after one it woke), a tick of three clock   *)
(* steps and one process per hart: the console places it, and it can      *)
(* wait for input, be woken and be run.                                    *)
(***************************************************************************)
EXTENDS TickTimer

MCHarts    == 1..2
MCTick     == 3
MCMaxProcs == 1
=============================================================================
