----------------------------- MODULE KernelBoot -----------------------------
(***************************************************************************)
(* The boot of the whole machine: the firmware lifecycle controller        *)
(* (HartLifecycle) driven by the only caller the kernel has, init_sched()  *)
(* on hart 0 (src/src/sched.c), which starts each scheduled hart's idle    *)
(* process with start_proc() -> start_process() -> SBI_START_HART, one     *)
(* hart after the other.  No kernel code calls SBI_STOP_HART, and the      *)
(* harts started here never call SBI_START_HART again (every later         *)
(* start_proc() targets the hart it runs on), so these are all the         *)
(* lifecycle calls the system makes.                                       *)
(***************************************************************************)
EXTENDS HartLifecycle

VARIABLE
    next_hart   \* the loop variable `hart` of init_sched()'s second loop

boot_vars == <<vars, next_hart>>

BootInit == Init /\ next_hart = 1

(***************************************************************************)
(* One iteration of `for (hart = 1; hart < MAX_HARTS; hart += 1)           *)
(* start_proc(&scheds[hart], scheds[hart].idle)`: hart 0 traps into the    *)
(* firmware with SBI_START_HART.  An accepted request returns and the loop *)
(* moves on; a refused one never returns (StartHartRefused).               *)
(***************************************************************************)
InitSchedStart ==
    /\ next_hart < NHarts
    /\ \E e \in Entries :
        \/ StartHart(0, next_hart, e) /\ next_hart' = next_hart + 1
        \/ StartHartRefused(0, next_hart, e) /\ UNCHANGED next_hart

BootNext ==
    \/ BootHart0 /\ UNCHANGED next_hart
    \/ \E h \in Harts : (BootSecondary(h) \/ HandleMsip(h)) /\ UNCHANGED next_hart
    \/ InitSchedStart

BootSpec == BootInit /\ [][BootNext]_boot_vars

-----------------------------------------------------------------------------
(***************************************************************************)
(* Spec sections 4.1 and 7: a refused start request is an ordinary error   *)
(* returned to its caller, never fatal, so hart 0 (the console) never      *)
(* halts during boot.  The firmware gateway returns start_hart()'s -1 as   *)
(* the handler result, which the machine trap handler treats as fatal.     *)
(***************************************************************************)
ConsoleHartSurvivesBoot == mode[0] # "halted"
=============================================================================
