---------------------------- MODULE HartLifecycle ----------------------------
(***************************************************************************)
(* The firmware's hart lifecycle controller (src/sbi/src/hart_mng.c), the  *)
(* boot path that parks the secondary harts (src/sbi/src/main.c), the      *)
(* machine software interrupt that acknowledges a start (irq.c,            *)
(* handle_IRQ_MSWI) and the SBI calls that request a start or a stop       *)
(* (sbicall.c).                                                            *)
(*                                                                         *)
(* Each critical section of hart_mng.c runs under harts[h].lock, so each   *)
(* is one action.  The start descriptor (target_addr, scratch) is one      *)
(* value of Entries.                                                       *)
(***************************************************************************)
EXTENDS Naturals

CONSTANTS
    NHarts,   \* MAX_HARTS
    Entries   \* start descriptors a caller may pass to SBI_START_HART

Harts == 0..(NHarts - 1)

NoEntry == "none"

VARIABLES
    status,   \* harts[h].status
    target,   \* harts[h].start
    msip,     \* the CLINT msip word of hart h
    mode,     \* where hart h executes: "boot", "parked", "S" (supervisor), or
              \* "halted" in the machine trap handler's WFI loop
    entered,  \* the start descriptor hart h last entered supervisor mode with
    ready     \* hart_0_is_ready

vars == <<status, target, msip, mode, entered, ready>>

Init ==
    /\ status  = [h \in Harts |-> "INVALID"]
    /\ target  = [h \in Harts |-> NoEntry]
    /\ msip    = [h \in Harts |-> FALSE]
    /\ mode    = [h \in Harts |-> "boot"]
    /\ entered = [h \in Harts |-> NoEntry]
    /\ ready   = FALSE

(***************************************************************************)
(* main() on hart 0: after its own set-up it marks itself STARTED, raises  *)
(* hart_0_is_ready and MRETs into the kernel.                              *)
(***************************************************************************)
BootHart0 ==
    /\ mode[0] = "boot"
    /\ status'  = [status EXCEPT ![0] = "STARTED"]
    /\ mode'    = [mode EXCEPT ![0] = "S"]
    /\ entered' = [entered EXCEPT ![0] = "kernel"]
    /\ ready'   = TRUE
    /\ UNCHANGED <<target, msip>>

(***************************************************************************)
(* main() on a secondary hart: it spins until hart_0_is_ready, writes      *)
(* STOPPED without taking the lock, and MRETs into park_hart with only the *)
(* software interrupt enabled.                                             *)
(***************************************************************************)
BootSecondary(h) ==
    /\ h # 0
    /\ mode[h] = "boot"
    /\ ready
    /\ status' = [status EXCEPT ![h] = "STOPPED"]
    /\ mode'   = [mode EXCEPT ![h] = "parked"]
    /\ UNCHANGED <<target, msip, entered, ready>>

\* Fault-injected variant: the HART_STARTED test dropped from the guard
StartHartAcceptsStarted(c, t, e) ==
    /\ mode[c] = "S"
    /\ status[t] # "INVALID"
    /\ status' = [status EXCEPT ![t] = "STARTING"]
    /\ target' = [target EXCEPT ![t] = e]
    /\ msip'   = [msip EXCEPT ![t] = TRUE]
    /\ UNCHANGED <<mode, entered, ready>>

\* Fault-injected variant: clint_awaken_hart() not called
StartHartNoSignal(c, t, e) ==
    /\ mode[c] = "S"
    /\ status[t] \notin {"INVALID", "STARTED"}
    /\ status' = [status EXCEPT ![t] = "STARTING"]
    /\ target' = [target EXCEPT ![t] = e]
    /\ UNCHANGED <<msip, mode, entered, ready>>

(***************************************************************************)
(* SBI_START_HART from a hart c running the kernel -> start_hart(t, e):    *)
(* under t's lock, a hart that is INVALID or STARTED is refused (-1, no    *)
(* state change); otherwise the descriptor is recorded, the status becomes *)
(* STARTING and t's msip is raised.  The call returns without waiting.     *)
(***************************************************************************)
StartHart(c, t, e) ==
    /\ mode[c] = "S"
    /\ status[t] \notin {"INVALID", "STARTED"}
    /\ status' = [status EXCEPT ![t] = "STARTING"]
    /\ target' = [target EXCEPT ![t] = e]
    /\ msip'   = [msip EXCEPT ![t] = TRUE]
    /\ UNCHANGED <<mode, entered, ready>>

(***************************************************************************)
(* The same call against a hart that is INVALID or STARTED: start_hart()   *)
(* returns -1, handle_IRQ_SSYS passes it on, and the machine trap_handler  *)
(* treats any negative result as fatal and spins in WFI with interrupts    *)
(* off: the calling hart never returns to the kernel.                      *)
(***************************************************************************)
StartHartRefused(c, t, e) ==
    /\ mode[c] = "S"
    /\ status[t] \in {"INVALID", "STARTED"}
    /\ mode' = [mode EXCEPT ![c] = "halted"]
    /\ UNCHANGED <<status, target, msip, entered, ready>>

(***************************************************************************)
(* A parked hart takes its pending software interrupt: hart_handle_msip()  *)
(* clears msip under the lock and, if the hart is STARTING, programs mepc, *)
(* mstatus, delegation and sscratch from the descriptor, sets STARTED and  *)
(* MRETs into supervisor mode.  Otherwise it MRETs back into the park loop.*)
(***************************************************************************)
HandleMsip(h) ==
    /\ mode[h] = "parked"
    /\ msip[h]
    /\ msip' = [msip EXCEPT ![h] = FALSE]
    /\ IF status[h] = "STARTING"
       THEN /\ status'  = [status EXCEPT ![h] = "STARTED"]
            /\ mode'    = [mode EXCEPT ![h] = "S"]
            /\ entered' = [entered EXCEPT ![h] = target[h]]
       ELSE UNCHANGED <<status, mode, entered>>
    /\ UNCHANGED <<target, ready>>

\* Fault-injected variant: the status written is HART_STOPPING
StopHartStopping(h) ==
    /\ mode[h] = "S"
    /\ status[h] = "STARTED"
    /\ status' = [status EXCEPT ![h] = "STOPPING"]
    /\ mode'   = [mode EXCEPT ![h] = "parked"]
    /\ UNCHANGED <<target, msip, entered, ready>>

(***************************************************************************)
(* SBI_STOP_HART -> stop_hart(self): under the lock a STARTED hart becomes *)
(* STOPPED, its CSRs are reset to the parked form and it MRETs into        *)
(* park_hart; the call does not return.                                    *)
(***************************************************************************)
StopHart(h) ==
    /\ mode[h] = "S"
    /\ status[h] = "STARTED"
    /\ status' = [status EXCEPT ![h] = "STOPPED"]
    /\ mode'   = [mode EXCEPT ![h] = "parked"]
    /\ UNCHANGED <<target, msip, entered, ready>>

Next ==
    \/ BootHart0
    \/ \E h \in Harts : BootSecondary(h) \/ HandleMsip(h) \/ StopHart(h)
    \/ \E c, t \in Harts, e \in Entries : StartHart(c, t, e) \/ StartHartRefused(c, t, e)

Spec == Init /\ [][Next]_vars

(***************************************************************************)
(* Hart 0 finishes booting, a secondary leaves its spin loop once the flag *)
(* is up, and a parked hart in WFI takes a pending enabled interrupt: all  *)
(* three are the hardware running the code, not choices of a caller.       *)
(***************************************************************************)
Fairness ==
    /\ WF_vars(BootHart0)
    /\ \A h \in Harts : WF_vars(BootSecondary(h)) /\ WF_vars(HandleMsip(h))

FairSpec == Spec /\ Fairness

-----------------------------------------------------------------------------
TypeOK ==
    /\ status \in [Harts -> {"INVALID", "STARTING", "STARTED", "STOPPED"}]
    /\ target \in [Harts -> Entries \cup {NoEntry}]
    /\ msip \in [Harts -> BOOLEAN]
    /\ mode \in [Harts -> {"boot", "parked", "S", "halted"}]
    /\ entered \in [Harts -> Entries \cup {NoEntry, "kernel"}]
    /\ ready \in BOOLEAN

(***************************************************************************)
(* The status other harts read agrees with where the hart really is: a     *)
(* booting hart is INVALID, a parked one STOPPED or STARTING, one that     *)
(* entered the kernel STARTED (even once halted: nothing resets it); a     *)
(* STARTING hart always has its msip raised, so the acknowledgement       *)
(* cannot be missed; and a hart that entered supervisor mode from a        *)
(* request entered with the descriptor now recorded.                       *)
(***************************************************************************)
StatusMatchesMode ==
    \A h \in Harts :
        /\ mode[h] = "boot"   => status[h] = "INVALID"
        /\ mode[h] = "parked" => status[h] \in {"STOPPED", "STARTING"}
        /\ mode[h] \in {"S", "halted"} => status[h] = "STARTED"
        /\ status[h] = "STARTING" => msip[h]
        /\ (mode[h] \in {"S", "halted"} /\ h # 0) => entered[h] = target[h]

(***************************************************************************)
(* Every accepted start is acknowledged: a STARTING hart is eventually     *)
(* STARTED (start_hart returns without waiting for it).                    *)
(***************************************************************************)
StartingLeadsToStarted ==
    \A h \in Harts : status[h] = "STARTING" ~> status[h] = "STARTED"

(***************************************************************************)
(* Refinement: the controller implements the section 4.1 status machine.  *)
(***************************************************************************)
Abstract == INSTANCE HartStatus WITH Harts <- Harts, status <- status
AbstractSpec == Abstract!Spec
=============================================================================
