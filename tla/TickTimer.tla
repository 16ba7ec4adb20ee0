------------------------------ MODULE TickTimer ------------------------------
(***************************************************************************)
(* The timer chain that drives scheduling on the harts with a scheduler    *)
(* (hart 0 runs the console and has none):                                 *)
(*   CLINT mtimecmp[h] reached -> firmware handle_IRQ_MTIM (sbi/irq.c)     *)
(*   turns the timer off and raises STIP -> kernel trap_handler dispatches *)
(*   handle_IRQ_STIM (irq.c): SBI_TIMER_CLEAR, then do_tick() (tick.c),    *)
(*   which re-arms the timer with SBI_TIMER_REL(h, DEFAULT_TICK) and calls *)
(*   sched_tick().                                                         *)
(* Hart 0's sched_try_wake() (sched.c), run by input_push, wakes input     *)
(* waiters on idle harts and calls force_tick(h) = SBI_TIMER_REL(h, 0).    *)
(*                                                                         *)
(* Time is kept relative: dl[h] is mtimecmp[h] - time, Off stands for      *)
(* CLINT_MTIMECMP_INFINITE.  Handlers run in far less than DEFAULT_TICK,   *)
(* so the clock does not move while a handler is running or an interrupt   *)
(* is pending (Advance is guarded by Quiet).  An SBI call is one step,     *)
(* except SBI_TIMER_REL on the hart itself, whose rdtime and store to      *)
(* mtimecmp are apart while hart 0 may write the same register.            *)
(* Processes are counted per hart: RUNNABLE and WAITING entries of the     *)
(* tree, and whether the current process is the idle one.                  *)
(* Each scheds[h].lock is its lock word; spin_lock is a loop of            *)
(* spin_trylock, one amoswap per step.  Hart 0's console, between traps,   *)
(* takes the same locks for "run" (sched_add_on_hart) and "procs".         *)
(***************************************************************************)
EXTENDS Integers, Sequences, FiniteSets

CONSTANTS
    Harts,      \* scheduled harts 1..MAX_HARTS-1
    Tick,       \* DEFAULT_TICK in clock steps
    MaxProcs,   \* user processes per hart
    EventsDuringConsoleLocks  \* may a device event reach hart 0 while its console holds a lock?

Off == -1       \* CLINT_MTIMECMP_INFINITE

VARIABLES
    dl,         \* mtimecmp[h] - time, or Off
    stip,       \* mip.STIP of each hart
    pc,         \* where each hart is: "user", or a step of handle_IRQ_STIM
    idle,       \* scheds[h].current == scheds[h].idle
    nrun,       \* RUNNABLE entries of scheds[h].procs
    nwait,      \* WAITING (on input) entries of scheds[h].procs
    wpc, wh,    \* hart 0 in sched_try_wake: step and loop variable
    owed,       \* history: a wake was made on h and no do_schedule of h ran since
    pushed,     \* an input event arrived since the clock last moved
    lk,         \* scheds[h].lock.s
    cpc, ccmd, ci  \* hart 0's console: step, command, hart it works on

vars == <<dl, stip, pc, idle, nrun, nwait, wpc, wh, owed, pushed, lk, cpc, ccmd, ci>>

SPIN_LOCKED == 1
SPIN_UNLOCKED == 0

\* Program points of handle_IRQ_STIM after SBI_TIMER_CLEAR returns
KernelPoints == {"user", "clear", "arm", "arm_store",
                 "sched", "tick_cs", "sched_lock", "sched_cs", "wait_cs"}

\* Fault-injected variant: spin_trylock's success test inverted
AcquiredInverted(old) == old = SPIN_LOCKED

\* spin_trylock: amoswap.w.aq stores SPIN_LOCKED, success iff the old word was not
Acquired(old) == old # SPIN_LOCKED

\* The store of one spin_trylock on l, and the store of spin_unlock
TryLock(l) == lk' = [lk EXCEPT ![l] = SPIN_LOCKED]
Unlock(l) == lk' = [lk EXCEPT ![l] = SPIN_UNLOCKED]

\* Where spin_lock(l) goes after one try: into the section, or round the loop
AfterTry(l, here, there) == IF Acquired(lk[l]) THEN there ELSE here

\* Processes that belong to hart h
Procs(h) == nrun[h] + nwait[h] + (IF idle[h] THEN 0 ELSE 1)

(***************************************************************************)
(* init_sched() leaves every hart on its idle process with an empty tree   *)
(* and an unlocked lock; init_tick() then arms each hart DEFAULT_TICK      *)
(* ahead.  The console waits for a command.                                *)
(***************************************************************************)
Init ==
    /\ dl = [h \in Harts |-> Tick]
    /\ stip = [h \in Harts |-> FALSE]
    /\ pc = [h \in Harts |-> "user"]
    /\ idle = [h \in Harts |-> TRUE]
    /\ nrun = [h \in Harts |-> 0]
    /\ nwait = [h \in Harts |-> 0]
    /\ wpc = "none" /\ wh = 1
    /\ owed = [h \in Harts |-> FALSE]
    /\ pushed = FALSE
    /\ lk = [h \in Harts |-> SPIN_UNLOCKED]
    /\ cpc = "none" /\ ccmd = "run" /\ ci = 1

\* No handler is running and no timer interrupt is pending anywhere
Quiet ==
    /\ wpc = "none"
    /\ \A h \in Harts : pc[h] = "user" /\ ~stip[h] /\ dl[h] # 0

\* The CLINT's time advances by one step.
Advance ==
    /\ Quiet
    /\ dl' = [h \in Harts |-> IF dl[h] = Off THEN Off ELSE dl[h] - 1]
    /\ pushed' = FALSE
    /\ UNCHANGED <<stip, pc, idle, nrun, nwait, wpc, wh, owed, lk, cpc, ccmd, ci>>

\* Hart h is in M-mode inside its own SBI_TIMER_REL, interrupts masked
InMachineMode(h) == pc[h] = "arm_store"

\* Fault-injected variant: handle_IRQ_MTIM raises STIP without timer_off()
HandleMTIMNoTimerOff(h) ==
    /\ dl[h] = 0 /\ ~InMachineMode(h)
    /\ stip' = [stip EXCEPT ![h] = TRUE]
    /\ UNCHANGED <<dl, pc, idle, nrun, nwait, wpc, wh, owed, pushed, lk, cpc, ccmd, ci>>

(***************************************************************************)
(* MTIP taken on h: the machine trap_handler runs handle_IRQ_MTIM, which   *)
(* calls timer_off() (mtimecmp[h] = INFINITE) and sets STIP.               *)
(***************************************************************************)
HandleMTIM(h) ==
    /\ dl[h] = 0 /\ ~InMachineMode(h)
    /\ dl' = [dl EXCEPT ![h] = Off]
    /\ stip' = [stip EXCEPT ![h] = TRUE]
    /\ UNCHANGED <<pc, idle, nrun, nwait, wpc, wh, owed, pushed, lk, cpc, ccmd, ci>>

\* Supervisor code of h runs only while no machine interrupt is pending
Runs(h) == dl[h] # 0

\* STIP taken: trap_handler dispatches handle_IRQ_STIM
TrapSTIM(h) ==
    /\ Runs(h) /\ pc[h] = "user" /\ stip[h]
    /\ pc' = [pc EXCEPT ![h] = "clear"]
    /\ UNCHANGED <<dl, stip, idle, nrun, nwait, wpc, wh, owed, pushed, lk, cpc, ccmd, ci>>

\* Fault-injected variant: sched_tick() before set_next_tick()
DoTickStepsSwapped == <<"sched", "arm">>

\* The calls of do_tick() in the order it makes them
DoTickSteps == <<"arm", "sched">>

\* The program point after step s of do_tick
AfterStep(s) ==
    IF s = DoTickSteps[1] THEN DoTickSteps[2] ELSE "user"

\* sbicall(SBI_TIMER_CLEAR): do_sbicall -> handle_SBI_TIMER_CLEAR clears STIP
TimerClear(h) ==
    /\ Runs(h) /\ pc[h] = "clear"
    /\ stip' = [stip EXCEPT ![h] = FALSE]
    /\ pc' = [pc EXCEPT ![h] = DoTickSteps[1]]
    /\ UNCHANGED <<dl, idle, nrun, nwait, wpc, wh, owed, pushed, lk, cpc, ccmd, ci>>

\* set_next_tick(h): the ecall enters timer_rel, which reads the time
SetNextTick(h) ==
    /\ Runs(h) /\ pc[h] = "arm"
    /\ pc' = [pc EXCEPT ![h] = "arm_store"]
    /\ UNCHANGED <<dl, stip, idle, nrun, nwait, wpc, wh, owed, pushed, lk, cpc, ccmd, ci>>

\* clint_set_mtimecmp(h, time + DEFAULT_TICK), then back to supervisor mode
StoreNextTick(h) ==
    /\ pc[h] = "arm_store"
    /\ dl' = [dl EXCEPT ![h] = Tick]
    /\ pc' = [pc EXCEPT ![h] = AfterStep("arm")]
    /\ UNCHANGED <<stip, idle, nrun, nwait, wpc, wh, owed, pushed, lk, cpc, ccmd, ci>>

(***************************************************************************)
(* The scheduling decision of a tick: do_schedule().  With a non-empty     *)
(* tree the current process (unless idle) re-enters it as RUNNABLE and the *)
(* first RUNNABLE entry, or the idle process, is started.                  *)
(***************************************************************************)
Reschedule(h, candidates) ==
    /\ idle' = [idle EXCEPT ![h] = candidates = 0]
    /\ nrun' = [nrun EXCEPT ![h] = IF candidates = 0 THEN 0 ELSE candidates - 1]

\* do_sched_tick: spin_lock(&sched->lock) before the sleeper scan
TickLock(h) ==
    /\ Runs(h) /\ pc[h] = "sched"
    /\ TryLock(h)
    /\ pc' = [pc EXCEPT ![h] = AfterTry(h, "sched", "tick_cs")]
    /\ UNCHANGED <<dl, stip, idle, nrun, nwait, wpc, wh, owed, pushed, cpc, ccmd, ci>>

\* The scan finds no SLEEPING entry here (sleep is modelled in Sched); unlock
TickScan(h) ==
    /\ Runs(h) /\ pc[h] = "tick_cs"
    /\ Unlock(h)
    /\ pc' = [pc EXCEPT ![h] = "sched_lock"]
    /\ UNCHANGED <<dl, stip, idle, nrun, nwait, wpc, wh, owed, pushed, cpc, ccmd, ci>>

\* do_schedule: spin_lock(&sched->lock)
ScheduleLock(h) ==
    /\ Runs(h) /\ pc[h] = "sched_lock"
    /\ TryLock(h)
    /\ pc' = [pc EXCEPT ![h] = AfterTry(h, "sched_lock", "sched_cs")]
    /\ UNCHANGED <<dl, stip, idle, nrun, nwait, wpc, wh, owed, pushed, cpc, ccmd, ci>>

\* Fault-injected variant: tree_len(sched->procs) > 1
TreeNonEmptyOffByOne(h) == nrun[h] + nwait[h] > 1

\* tree_len(sched->procs) > 0
TreeNonEmpty(h) == nrun[h] + nwait[h] > 0

\* Fault-injected variant: deschedule_current without its PROC_IDLE branch
DescheduledIdleToo(h) == 1

\* deschedule_current: the current process enters the tree unless it is idle
Descheduled(h) == IF idle[h] THEN 0 ELSE 1

\* The rest of do_schedule: decide, spin_unlock, start_proc
DoSchedule(h) ==
    /\ Runs(h) /\ pc[h] = "sched_cs"
    /\ IF TreeNonEmpty(h)
       THEN Reschedule(h, nrun[h] + Descheduled(h))
       ELSE UNCHANGED <<idle, nrun>>
    /\ Unlock(h)
    /\ owed' = [owed EXCEPT ![h] = FALSE]
    /\ pc' = [pc EXCEPT ![h] = AfterStep("sched")]
    /\ UNCHANGED <<dl, stip, nwait, wpc, wh, pushed, cpc, ccmd, ci>>

(***************************************************************************)
(* SYS_INPUT_POLL with no event: sched_wait_current(PROC_WAIT_INPUT)       *)
(* takes the lock, puts the running process in the tree as WAITING,        *)
(* reschedules and unlocks.  Only a user process polls (the idle process   *)
(* only waits for interrupts), hence ~idle[h].                             *)
(***************************************************************************)
WaitLock(h) ==
    /\ Runs(h) /\ pc[h] = "user" /\ ~idle[h]
    /\ TryLock(h)
    /\ pc' = [pc EXCEPT ![h] = AfterTry(h, "user", "wait_cs")]
    /\ UNCHANGED <<dl, stip, idle, nrun, nwait, wpc, wh, owed, pushed, cpc, ccmd, ci>>

WaitInput(h) ==
    /\ Runs(h) /\ pc[h] = "wait_cs"
    /\ nwait' = [nwait EXCEPT ![h] = nwait[h] + 1]
    /\ Reschedule(h, nrun[h])
    /\ Unlock(h)
    /\ pc' = [pc EXCEPT ![h] = "user"]
    /\ UNCHANGED <<dl, stip, wpc, wh, owed, pushed, cpc, ccmd, ci>>

(***************************************************************************)
(* input_push() on hart 0 ends with sched_try_wake(PROC_WAIT_INPUT).  The  *)
(* device delivers at most one event per clock step (the handlers take no *)
(* time here, so an unbounded burst would stop the clock).  The trap can   *)
(* interrupt hart 0's console anywhere, unless EventsDuringConsoleLocks is *)
(* FALSE, which keeps events out of the console's locked sections.         *)
(***************************************************************************)
InputPush ==
    /\ wpc = "none" /\ ~pushed
    /\ EventsDuringConsoleLocks \/ cpc # "cs"
    /\ wpc' = "check" /\ wh' = 1 /\ pushed' = TRUE
    /\ UNCHANGED <<dl, stip, pc, idle, nrun, nwait, owed, lk, cpc, ccmd, ci>>

\* The loop moves to the next hart, or sched_try_wake returns
NextWakeHart ==
    IF wh + 1 \in Harts THEN wpc' = "check" /\ wh' = wh + 1
                        ELSE wpc' = "none"  /\ wh' = wh

\* if (sched->current == sched->idle), read without the lock
WakeCheck ==
    /\ wpc = "check"
    /\ IF idle[wh] THEN wpc' = "lock" /\ wh' = wh ELSE NextWakeHart
    /\ UNCHANGED <<dl, stip, pc, idle, nrun, nwait, owed, pushed, lk, cpc, ccmd, ci>>

\* spin_lock(&sched->lock) inside the trap on hart 0
WakeLock ==
    /\ wpc = "lock"
    /\ TryLock(wh)
    /\ wpc' = AfterTry(wh, "lock", "scan")
    /\ UNCHANGED <<dl, stip, pc, idle, nrun, nwait, wh, owed, pushed, cpc, ccmd, ci>>

\* Under the lock every WAITING entry becomes RUNNABLE; unlock
WakeScan ==
    /\ wpc = "scan"
    /\ nrun' = [nrun EXCEPT ![wh] = nrun[wh] + nwait[wh]]
    /\ nwait' = [nwait EXCEPT ![wh] = 0]
    /\ Unlock(wh)
    /\ IF nwait[wh] > 0
       THEN wpc' = "force" /\ wh' = wh /\ owed' = [owed EXCEPT ![wh] = TRUE]
       ELSE NextWakeHart /\ UNCHANGED owed
    /\ UNCHANGED <<dl, stip, pc, idle, pushed, cpc, ccmd, ci>>

\* force_tick(h): SBI_TIMER_REL(h, 0) stores the current time in mtimecmp[h]
ForceTick ==
    /\ wpc = "force"
    /\ dl' = [dl EXCEPT ![wh] = 0]
    /\ NextWakeHart
    /\ UNCHANGED <<stip, pc, idle, nrun, nwait, owed, pushed, lk, cpc, ccmd, ci>>

(***************************************************************************)
(* Hart 0's console (kconsole.c) runs only while no trap runs on hart 0.   *)
(* "run": get_idle_hart() reads each current without the lock; the        *)
(* process goes to the first idle hart, or to hart 1 if none is idle.      *)
(* MaxProcs bounds the processes of a hart.                                *)
(***************************************************************************)
Hart0Free == wpc = "none"

IdleHart ==
    IF \E h \in Harts : idle[h]
    THEN CHOOSE h \in Harts : idle[h] /\ \A g \in Harts : g < h => ~idle[g]
    ELSE 1

ConsoleRun ==
    /\ Hart0Free /\ cpc = "none"
    /\ Procs(IdleHart) < MaxProcs
    /\ cpc' = "lock" /\ ccmd' = "run" /\ ci' = IdleHart
    /\ UNCHANGED <<dl, stip, pc, idle, nrun, nwait, wpc, wh, owed, pushed, lk>>

\* "procs": one pass of the table, locking scheds[i] for i = 1 .. MAX_HARTS-1
ConsoleProcs ==
    /\ Hart0Free /\ cpc = "none"
    /\ cpc' = "lock" /\ ccmd' = "procs" /\ ci' = 1
    /\ UNCHANGED <<dl, stip, pc, idle, nrun, nwait, wpc, wh, owed, pushed, lk>>

\* spin_lock(&scheds[ci].lock) in sched_add_on_hart or the "procs" loop
ConsoleLock ==
    /\ Hart0Free /\ cpc = "lock"
    /\ TryLock(ci)
    /\ cpc' = AfterTry(ci, "lock", "cs")
    /\ UNCHANGED <<dl, stip, pc, idle, nrun, nwait, wpc, wh, owed, pushed, ccmd, ci>>

\* sched_add_on_hart: insert the process as RUNNABLE, spin_unlock
ConsoleAdd ==
    /\ Hart0Free /\ cpc = "cs" /\ ccmd = "run"
    /\ nrun' = [nrun EXCEPT ![ci] = nrun[ci] + 1]
    /\ Unlock(ci)
    /\ cpc' = "none"
    /\ UNCHANGED <<dl, stip, pc, idle, nwait, wpc, wh, owed, pushed, ccmd, ci>>

\* "procs": print hart ci's processes, spin_unlock, go on to the next hart
ConsolePrint ==
    /\ Hart0Free /\ cpc = "cs" /\ ccmd = "procs"
    /\ Unlock(ci)
    /\ IF ci + 1 \in Harts THEN cpc' = "lock" /\ ci' = ci + 1
                          ELSE cpc' = "none" /\ ci' = ci
    /\ UNCHANGED <<dl, stip, pc, idle, nrun, nwait, wpc, wh, owed, pushed, ccmd>>

Next ==
    \/ Advance
    \/ \E h \in Harts :
        \/ HandleMTIM(h) \/ TrapSTIM(h) \/ TimerClear(h)
        \/ SetNextTick(h) \/ StoreNextTick(h)
        \/ TickLock(h) \/ TickScan(h) \/ ScheduleLock(h) \/ DoSchedule(h)
        \/ WaitLock(h) \/ WaitInput(h)
    \/ InputPush \/ WakeCheck \/ WakeLock \/ WakeScan \/ ForceTick
    \/ ConsoleRun \/ ConsoleProcs \/ ConsoleLock \/ ConsoleAdd \/ ConsolePrint

Spec == Init /\ [][Next]_vars

(***************************************************************************)
(* The hardware takes a pending interrupt, a handler runs to its end, hart *)
(* 0's wake loop finishes.  Real time never stops: Advance is disabled     *)
(* only while handlers run, which take no time here, so it is strongly     *)
(* fair (input events cannot hold the clock forever).  Neither a device    *)
(* event, a process's poll nor a console command is ever forced.  Each     *)
(* context (a hart's kernel, hart 0's wake loop, the console) is a         *)
(* strongly fair process: a lock is held for a few instructions and free   *)
(* in between, so a spinning context gets it, and hart 0's console gets    *)
(* the CPU back after each trap.                                           *)
(***************************************************************************)
\* The steps of hart h's kernel once a trap is taken, and of hart 0's contexts
KernelStep(h) ==
    \/ TimerClear(h) \/ SetNextTick(h) \/ StoreNextTick(h)
    \/ TickLock(h) \/ TickScan(h) \/ ScheduleLock(h) \/ DoSchedule(h) \/ WaitInput(h)

WakeStep == WakeCheck \/ WakeLock \/ WakeScan \/ ForceTick

ConsoleStep == ConsoleLock \/ ConsoleAdd \/ ConsolePrint

Fairness ==
    /\ SF_vars(Advance)
    /\ \A h \in Harts :
        WF_vars(HandleMTIM(h)) /\ WF_vars(TrapSTIM(h)) /\ SF_vars(KernelStep(h))
    /\ SF_vars(WakeStep) /\ SF_vars(ConsoleStep)

FairSpec == Spec /\ Fairness

-----------------------------------------------------------------------------
TypeOK ==
    /\ dl \in [Harts -> {Off} \cup 0..Tick]
    /\ stip \in [Harts -> BOOLEAN]
    /\ pc \in [Harts -> KernelPoints]
    /\ idle \in [Harts -> BOOLEAN]
    /\ nrun \in [Harts -> 0..MaxProcs] /\ nwait \in [Harts -> 0..MaxProcs]
    /\ wpc \in {"none", "check", "lock", "scan", "force"} /\ wh \in Harts
    /\ owed \in [Harts -> BOOLEAN] /\ pushed \in BOOLEAN
    /\ lk \in [Harts -> {SPIN_UNLOCKED, SPIN_LOCKED}]
    /\ cpc \in {"none", "lock", "cs"} /\ ccmd \in {"run", "procs"} /\ ci \in Harts

(***************************************************************************)
(* force_tick() makes a wake prompt: once sched_try_wake has made a        *)
(* process RUNNABLE on a hart it found idle, that hart takes a scheduling  *)
(* decision before the clock moves on, i.e. within handler latency rather  *)
(* than at its next periodic tick.  Hart 0's store of mtimecmp can land    *)
(* while the hart is inside its own SBI_TIMER_REL and be overwritten.      *)
(***************************************************************************)
WakeSeenBeforeClockMoves ==
    [][Advance => \A h \in Harts : ~owed[h]]_vars

(***************************************************************************)
(* The timer chain never dies: every scheduled hart takes a scheduling     *)
(* decision again and again, whatever force_tick stores in its mtimecmp.   *)
(***************************************************************************)
HartsKeepTicking ==
    \A h \in Harts : []<>(pc[h] = "sched")

(***************************************************************************)
(* An idle hart with a RUNNABLE entry eventually runs it, whether the      *)
(* entry came from the console's "run" (placed by a stale get_idle_hart    *)
(* read) or from a wake on hart 0: do_schedule's tree test must see it.    *)
(***************************************************************************)
IdleHartRunsWork ==
    \A h \in Harts : (idle[h] /\ nrun[h] > 0) ~> ~idle[h]

\* The contexts inside a section of scheds[l].lock
Holders(l) ==
    {c \in {"hart", "wake", "console"} :
        \/ c = "hart"    /\ pc[l] \in {"tick_cs", "sched_cs", "wait_cs"}
        \/ c = "wake"    /\ wpc = "scan" /\ wh = l
        \/ c = "console" /\ cpc = "cs" /\ ci = l}

(***************************************************************************)
(* spin_lock excludes: hart l's tick and poll, hart 0's wake loop and the  *)
(* console are never inside sections of scheds[l].lock at the same time.   *)
(***************************************************************************)
LockExclusive ==
    \A l \in Harts : Cardinality(Holders(l)) <= 1

(***************************************************************************)
(* Hart 0 never spins on a lock it holds itself: the wake loop of an       *)
(* input trap does not wait for a scheduler lock held by the console code  *)
(* that the trap interrupted (which cannot run until the trap returns).    *)
(***************************************************************************)
Hart0NeverSpinsOnItself ==
    ~(wpc = "lock" /\ cpc = "cs" /\ ci = wh)
=============================================================================
