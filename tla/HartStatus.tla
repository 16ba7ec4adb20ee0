----------------------------- MODULE HartStatus -----------------------------
(***************************************************************************)
(* What the hart lifecycle controller promises (spec section 4.1), as a    *)
(* state machine on each hart's status alone:                              *)
(*   INVALID -> STOPPED -> STARTING -> STARTED -> STOPPED                  *)
(* A start request is accepted only from STOPPED or STARTING, only the     *)
(* hart's own acknowledgement turns STARTING into STARTED, and only a      *)
(* STARTED hart stops.                                                     *)
(***************************************************************************)
CONSTANT Harts

VARIABLE status

Status == {"INVALID", "STARTING", "STARTED", "STOPPED"}

Init == status = [h \in Harts |-> "INVALID"]

\* the boot hart brings itself up without a request
Boot(h)    == /\ status[h] = "INVALID"
              /\ status' = [status EXCEPT ![h] = "STARTED"]

Park(h)    == /\ status[h] = "INVALID"
              /\ status' = [status EXCEPT ![h] = "STOPPED"]

Request(h) == /\ status[h] \in {"STOPPED", "STARTING"}
              /\ status' = [status EXCEPT ![h] = "STARTING"]

Ack(h)     == /\ status[h] = "STARTING"
              /\ status' = [status EXCEPT ![h] = "STARTED"]

Stop(h)    == /\ status[h] = "STARTED"
              /\ status' = [status EXCEPT ![h] = "STOPPED"]

Next == \E h \in Harts : Boot(h) \/ Park(h) \/ Request(h) \/ Ack(h) \/ Stop(h)

Spec == Init /\ [][Next]_status
=============================================================================
