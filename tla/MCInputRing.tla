----------------------------- MODULE MCInputRing -----------------------------
(***************************************************************************)
(* A ring of three slots, one process popping events and three events     *)
(* from the device: enough for a push and a pop to overlap on a ring that  *)
(* is neither empty nor full.                                              *)
(***************************************************************************)
EXTENDS InputRing

MCSize == 3
MCConsumers == {"p1"}
MCMaxEvents == 3
=============================================================================
