------------------------------- MODULE Sched -------------------------------
(***************************************************************************)
(* The kernel's per-hart scheduler (src/src/sched.c), the process pool it  *)
(* draws from (src/src/process.c), and the three callers that drive it     *)
(* from outside a hart's own trap handler:                                 *)
(*   - the periodic supervisor timer interrupt (irq.c, tick.c),            *)
(*   - the user system calls SLEEP, EXIT, INPUT_POLL, INPUT_POP            *)
(*     (syscall.c, input.c),                                               *)
(*   - hart 0, which runs the console's "run" command (kconsole.c) and     *)
(*     the input interrupt that calls sched_try_wake (input.c).            *)
(*                                                                         *)
(* The state starts right after init_sched()/init_tick(): every scheduled  *)
(* hart runs its idle process.  Time is the global clock read by           *)
(* SBI_CLOCK, advanced by its own action up to MaxClock.                   *)
(***************************************************************************)
EXTENDS Integers, FiniteSets, FiniteSetsExt, Functions

CONSTANTS
    NHarts,     \* harts 1..NHarts are scheduled; hart 0 is the console
    MaxProcs,   \* MAX_PROCS: size of the procs[] pool
    MaxClock,   \* bound on the SBI clock
    SleepArgs,  \* cycle counts a process may pass to SYS_SLEEP
    RingCap,    \* RING_BUFFER_SIZE of the input ring
    ElfOutcomes \* whether elf_process_image() accepts the files "run" is given

ASSUME NHarts \in Nat \ {0} /\ MaxProcs \in Nat /\ NHarts < MaxProcs
ASSUME MaxClock \in Nat /\ SleepArgs \subseteq Nat /\ RingCap \in Nat \ {0}
ASSUME ElfOutcomes \subseteq BOOLEAN /\ ElfOutcomes # {}

Harts == 1..NHarts
Procs == 0..(MaxProcs - 1)

\* init_sched() takes one slot per hart, in hart order, for its idle process
idle(h)   == h - 1
IdleProcs == {idle(h) : h \in Harts}

NULL == -1

VARIABLES
    pstate,        \* procs[p].state
    vruntime,      \* procs[p].vruntime
    sched_time,    \* procs[p].sched_time
    sleep_cycles,  \* procs[p].sleep_cycles
    waiting_on,    \* procs[p].waiting_on = PROC_WAIT_INPUT
    tree,          \* scheds[h].procs: vruntime key -> process
    current,       \* scheds[h].current
    hpc,           \* where hart h is: "run", or inside a tick or a poll call
    now,           \* the SBI clock
    ring_len,      \* ring.len of the input ring buffer
    waker_pc,      \* sched_try_wake() loop on hart 0: "none", "check", "scan"
    waker_hart,    \* the hart that loop is at
    console_pc,    \* kconsole "run": "run", "place", or "halted"
    console_proc,  \* the process it created
    console_hart,  \* the hart get_idle_hart() returned
    tracked,       \* history: processes sched_add_on_hart() accepted, not exited
    wake_at        \* history: earliest clock at which a sleeper may wake

vars == <<pstate, vruntime, sched_time, sleep_cycles, waiting_on, tree,
          current, hpc, now, ring_len, waker_pc, waker_hart, console_pc,
          console_proc, console_hart, tracked, wake_at>>

States == {"INVALID", "SLEEPING", "WAITING", "RUNNABLE", "RUNNING"}

(***************************************************************************)
(* scheds[h].last_tick_time is zero in .bss and its only assignment,       *)
(* sched.c:139, follows do_schedule(), which ends in start_proc() and does *)
(* not return.  It therefore stays 0.                                      *)
(***************************************************************************)
last_tick_time == [h \in Harts |-> 0]

(***************************************************************************)
(* The ordered tree scheds[h].procs, as a function from keys to processes. *)
(***************************************************************************)
InsertKey(t, k, p) == [x \in DOMAIN t \cup {k} |-> IF x = k THEN p ELSE t[x]]
RemoveKey(t, k)    == Restrict(t, DOMAIN t \ {k})

\* Fault-injected variant: the collision loop dropped
FreeKeyNoProbe(t, k) == k

\* while (tree_it_good(tree_lookup(sched->procs, vrt))) { vrt += 1; }
RECURSIVE FreeKey(_, _)
FreeKey(t, k) == IF k \in DOMAIN t THEN FreeKey(t, k + 1) ELSE k

RunnableKeys(t, ps) == {k \in DOMAIN t : ps[t[k]] = "RUNNABLE"}

\* Fault-injected variant: the traversal takes the last runnable entry
PullNextRunnableMax(t, ps) == Max(RunnableKeys(t, ps))

\* pull_next_runnable(): the first RUNNABLE entry in key order
PullNextRunnable(t, ps) == Min(RunnableKeys(t, ps))

(***************************************************************************)
(* reschedule() followed by start_proc(): with tree t and states ps left   *)
(* by the caller, take the least runnable key (or the idle process), make  *)
(* it current and RUNNING and stamp its sched_time.                        *)
(***************************************************************************)
RescheduleAndStart(h, t, ps) ==
    LET none == RunnableKeys(t, ps) = {}
        k    == PullNextRunnable(t, ps)
        next == IF none THEN idle(h) ELSE t[k]
    IN  /\ tree'       = [tree EXCEPT ![h] = IF none THEN t ELSE RemoveKey(t, k)]
        /\ current'    = [current EXCEPT ![h] = next]
        /\ pstate'     = [ps EXCEPT ![next] = "RUNNING"]
        /\ sched_time' = [sched_time EXCEPT ![next] = now]

\* Fault-injected variant: the accrued runtime replaces the old vruntime
ElapsedVrtLost(h) == now - sched_time[current[h]]

\* vrt = proc->vruntime + (sbicall(SBI_CLOCK) - proc->sched_time)
ElapsedVrt(h) == vruntime[current[h]] + (now - sched_time[current[h]])

(***************************************************************************)
(* deschedule_current(sched, ns) then reschedule() and start_proc(): the   *)
(* idle process only records its runtime; any other process is keyed at    *)
(* the first free key from its new vruntime and re-enters the tree.        *)
(***************************************************************************)
DescheduleAndSwitch(h, ns) ==
    LET p   == current[h]
        key == IF p \in IdleProcs THEN ElapsedVrt(h)
                                  ELSE FreeKey(tree[h], ElapsedVrt(h))
        t   == IF p \in IdleProcs THEN tree[h] ELSE InsertKey(tree[h], key, p)
    IN  /\ vruntime' = [vruntime EXCEPT ![p] = key]
        /\ RescheduleAndStart(h, t, [pstate EXCEPT ![p] = ns])

-----------------------------------------------------------------------------
Init ==
    /\ pstate       = [p \in Procs |-> IF p \in IdleProcs THEN "RUNNING" ELSE "INVALID"]
    /\ vruntime     = [p \in Procs |-> 0]
    /\ sched_time   = [p \in Procs |-> 0]
    /\ sleep_cycles = [p \in Procs |-> 0]
    /\ waiting_on   = [p \in Procs |-> FALSE]
    /\ tree         = [h \in Harts |-> <<>>]
    /\ current      = [h \in Harts |-> idle(h)]
    /\ hpc          = [h \in Harts |-> "run"]
    /\ now          = 0
    /\ ring_len     = 0
    /\ waker_pc     = "none"
    /\ waker_hart   = 1
    /\ console_pc   = "run"
    /\ console_proc = NULL
    /\ console_hart = 1
    /\ tracked      = {}
    /\ wake_at      = [p \in Procs |-> 0]

\* The machine timer keeps counting.
ClockAdvance ==
    /\ now < MaxClock
    /\ now' = now + 1
    /\ UNCHANGED <<pstate, vruntime, sched_time, sleep_cycles, waiting_on, tree,
                   current, hpc, ring_len, waker_pc, waker_hart, console_pc,
                   console_proc, console_hart, tracked, wake_at>>

(***************************************************************************)
(* Supervisor timer interrupt, first half: handle_IRQ_STIM clears the      *)
(* timer, do_tick() re-arms it, and do_sched_tick() walks the tree under   *)
(* the lock, waking or counting down each SLEEPING process by the time     *)
(* since last_tick_time.  The lock is then released before do_schedule().  *)
(***************************************************************************)
TickScan(h) ==
    LET elapsed   == now - last_tick_time[h]
        asleep(p) == p \in Range(tree[h]) /\ pstate[p] = "SLEEPING"
    IN  /\ hpc[h] = "run"
        /\ hpc' = [hpc EXCEPT ![h] = "tick"]
        /\ pstate' = [p \in Procs |->
                        IF asleep(p) /\ elapsed >= sleep_cycles[p]
                        THEN "RUNNABLE" ELSE pstate[p]]
        /\ sleep_cycles' = [p \in Procs |->
                        IF asleep(p) /\ elapsed < sleep_cycles[p]
                        THEN sleep_cycles[p] - elapsed ELSE sleep_cycles[p]]
        /\ UNCHANGED <<vruntime, sched_time, waiting_on, tree, current, now,
                       ring_len, waker_pc, waker_hart, console_pc,
                       console_proc, console_hart, tracked, wake_at>>

\* tree_len(sched->procs) > 0
TreeBusy(t) == DOMAIN t # {}

(***************************************************************************)
(* Second half, do_schedule(): with a non-empty tree the current process   *)
(* re-enters it as RUNNABLE and the least runnable entry is started; with  *)
(* an empty tree the current process only accrues its runtime and is       *)
(* restarted.                                                              *)
(***************************************************************************)
TickSchedule(h) ==
    /\ hpc[h] = "tick"
    /\ hpc' = [hpc EXCEPT ![h] = "run"]
    /\ IF TreeBusy(tree[h])
       THEN DescheduleAndSwitch(h, "RUNNABLE")
       ELSE LET p == current[h] IN
            /\ vruntime'   = [vruntime EXCEPT ![p] = ElapsedVrt(h)]
            /\ sched_time' = [sched_time EXCEPT ![p] = now]
            /\ pstate'     = [pstate EXCEPT ![p] = "RUNNING"]
            /\ UNCHANGED <<tree, current>>
    /\ UNCHANGED <<sleep_cycles, waiting_on, now, ring_len, waker_pc,
                   waker_hart, console_pc, console_proc, console_hart,
                   tracked, wake_at>>

(***************************************************************************)
(* SYS_SLEEP -> sched_sleep_current(n): the caller records its countdown,  *)
(* re-enters the tree as SLEEPING and the next process is started.         *)
(***************************************************************************)
SysSleep(h, n) ==
    LET p == current[h] IN
    /\ hpc[h] = "run"
    /\ p \notin IdleProcs
    /\ sleep_cycles' = [sleep_cycles EXCEPT ![p] = n]
    /\ wake_at' = [wake_at EXCEPT ![p] = now + n]
    /\ DescheduleAndSwitch(h, "SLEEPING")
    /\ UNCHANGED <<waiting_on, hpc, now, ring_len, waker_pc, waker_hart,
                   console_pc, console_proc, console_hart, tracked>>

(***************************************************************************)
(* SYS_EXIT -> sched_exit_current(): free_process() releases the pages and *)
(* the stack but leaves procs[p].state as it was; current becomes NULL and *)
(* the next process is started.                                            *)
(***************************************************************************)
SysExit(h) ==
    LET p == current[h] IN
    /\ hpc[h] = "run"
    /\ p \notin IdleProcs
    /\ tracked' = tracked \ {p}
    /\ RescheduleAndStart(h, tree[h], pstate)
    /\ UNCHANGED <<vruntime, sleep_cycles, waiting_on, hpc, now, ring_len,
                   waker_pc, waker_hart, console_pc, console_proc,
                   console_hart, wake_at>>

(***************************************************************************)
(* SYS_INPUT_POLL, first half: input_ready() is read.  With events queued  *)
(* the call returns at once and changes nothing; with none the handler     *)
(* goes on to sched_wait_current(), which takes the lock separately.       *)
(***************************************************************************)
SysPollCheck(h) ==
    /\ hpc[h] = "run"
    /\ current[h] \notin IdleProcs
    /\ ring_len = 0
    /\ hpc' = [hpc EXCEPT ![h] = "poll"]
    /\ UNCHANGED <<pstate, vruntime, sched_time, sleep_cycles, waiting_on,
                   tree, current, now, ring_len, waker_pc, waker_hart,
                   console_pc, console_proc, console_hart, tracked, wake_at>>

\* SYS_INPUT_POLL, second half: sched_wait_current(PROC_WAIT_INPUT)
SysPollWait(h) ==
    LET p == current[h] IN
    /\ hpc[h] = "poll"
    /\ hpc' = [hpc EXCEPT ![h] = "run"]
    /\ waiting_on' = [waiting_on EXCEPT ![p] = TRUE]
    /\ DescheduleAndSwitch(h, "WAITING")
    /\ UNCHANGED <<sleep_cycles, now, ring_len, waker_pc, waker_hart,
                   console_pc, console_proc, console_hart, tracked, wake_at>>

\* Fault-injected variant: the ring.len == 0 early return dropped
SysPopUnguarded(h) ==
    /\ hpc[h] = "run"
    /\ current[h] \notin IdleProcs
    /\ ring_len' = ring_len - 1   \* a u32 wrap; -1 stands for 2^32 - 1
    /\ UNCHANGED <<pstate, vruntime, sched_time, sleep_cycles, waiting_on,
                   tree, current, hpc, now, waker_pc, waker_hart, console_pc,
                   console_proc, console_hart, tracked, wake_at>>

\* SYS_INPUT_POP -> input_pull(): one event leaves the ring; on an empty
\* ring the call returns 0 and changes nothing (a stutter, left out)
SysPop(h) ==
    /\ hpc[h] = "run"
    /\ current[h] \notin IdleProcs
    /\ ring_len > 0
    /\ ring_len' = ring_len - 1
    /\ UNCHANGED <<pstate, vruntime, sched_time, sleep_cycles, waiting_on,
                   tree, current, hpc, now, waker_pc, waker_hart, console_pc,
                   console_proc, console_hart, tracked, wake_at>>

(***************************************************************************)
(* Hart 0, console "run" command, first half: new_process(PROC_USER) takes *)
(* the lowest INVALID slot (or returns NULL), elf_process_image() loads    *)
(* the file into it, and get_idle_hart() reads every scheduler's current   *)
(* without its lock.  A bad image leaves the slot claimed and unused.  A   *)
(* NULL process with a good image is written through (proc->frame.sepc):   *)
(* a supervisor page fault, whose handler fails and halts hart 0.          *)
(***************************************************************************)
GetIdleHart ==
    IF \E h \in Harts : current[h] = idle(h)
    THEN Min({h \in Harts : current[h] = idle(h)})
    ELSE 1

\* new_process(): under procs_lock, the first INVALID slot of procs[], or NULL
new_process ==
    LET free == {p \in Procs : pstate[p] = "INVALID"}
    IN  IF free = {} THEN NULL ELSE Min(free)

ConsoleRun ==
    LET p == new_process IN
    /\ console_pc = "run"
    /\ waker_pc = "none"
    /\ \E elf_ok \in ElfOutcomes :
        IF p = NULL
        THEN /\ elf_ok
             /\ console_pc' = "halted"
             /\ UNCHANGED <<pstate, vruntime, sched_time, sleep_cycles,
                            waiting_on, console_proc, console_hart>>
        ELSE /\ pstate'       = [pstate EXCEPT ![p] = "RUNNABLE"]
             /\ vruntime'     = [vruntime EXCEPT ![p] = 0]
             /\ sched_time'   = [sched_time EXCEPT ![p] = 0]
             /\ sleep_cycles' = [sleep_cycles EXCEPT ![p] = 0]
             /\ waiting_on'   = [waiting_on EXCEPT ![p] = FALSE]
             /\ IF elf_ok
                THEN /\ console_pc'   = "place"
                     /\ console_proc' = p
                     /\ console_hart' = GetIdleHart
                ELSE UNCHANGED <<console_pc, console_proc, console_hart>>
    /\ UNCHANGED <<tree, current, hpc, now, ring_len, waker_pc, waker_hart,
                   tracked, wake_at>>

(***************************************************************************)
(* Second half, sched_add_on_hart(proc, hart): under that hart's lock the  *)
(* process gets the first free key from 0 and enters the tree RUNNABLE.    *)
(***************************************************************************)
ConsolePlace ==
    LET p == console_proc
        h == console_hart
        k == FreeKey(tree[h], 0)
    IN
    /\ console_pc = "place"
    /\ waker_pc = "none"
    /\ vruntime' = [vruntime EXCEPT ![p] = k]
    /\ pstate'   = [pstate EXCEPT ![p] = "RUNNABLE"]
    /\ tree'     = [tree EXCEPT ![h] = InsertKey(tree[h], k, p)]
    /\ tracked'  = tracked \cup {p}
    /\ console_pc' = "run"
    /\ UNCHANGED <<sched_time, sleep_cycles, waiting_on, current, hpc, now,
                   ring_len, waker_pc, waker_hart, console_proc,
                   console_hart, wake_at>>

(***************************************************************************)
(* Hart 0, input interrupt: input_push() appends an event (overwriting the *)
(* oldest when the ring is full) and starts sched_try_wake(), which visits *)
(* harts 1..NHarts in order.  The handler runs to completion on hart 0, so *)
(* the console does not move until the loop ends.                          *)
(***************************************************************************)
InputPush ==
    /\ waker_pc = "none"
    /\ console_pc # "halted"
    /\ ring_len' = IF ring_len = RingCap THEN ring_len ELSE ring_len + 1
    /\ waker_pc' = "check"
    /\ waker_hart' = 1
    /\ UNCHANGED <<pstate, vruntime, sched_time, sleep_cycles, waiting_on,
                   tree, current, hpc, now, console_pc, console_proc,
                   console_hart, tracked, wake_at>>

NextWakeHart(h) ==
    IF h = NHarts THEN /\ waker_pc' = "none"  /\ waker_hart' = waker_hart
                  ELSE /\ waker_pc' = "check" /\ waker_hart' = h + 1

\* if (sched->current == sched->idle): read without the lock
WakeCheck ==
    LET h == waker_hart IN
    /\ waker_pc = "check"
    /\ IF current[h] = idle(h)
       THEN /\ waker_pc' = "scan" /\ waker_hart' = h
       ELSE NextWakeHart(h)
    /\ UNCHANGED <<pstate, vruntime, sched_time, sleep_cycles, waiting_on,
                   tree, current, hpc, now, ring_len, console_pc,
                   console_proc, console_hart, tracked, wake_at>>

(***************************************************************************)
(* Under the hart's lock every WAITING entry waiting on input becomes      *)
(* RUNNABLE; force_tick() then brings that hart's next tick forward, which *)
(* only shortens a delay this model does not measure.                      *)
(***************************************************************************)
WakeScan ==
    LET h == waker_hart
        woken(p) == p \in Range(tree[h]) /\ pstate[p] = "WAITING" /\ waiting_on[p]
    IN
    /\ waker_pc = "scan"
    /\ pstate' = [p \in Procs |-> IF woken(p) THEN "RUNNABLE" ELSE pstate[p]]
    /\ waiting_on' = [p \in Procs |-> IF woken(p) THEN FALSE ELSE waiting_on[p]]
    /\ NextWakeHart(h)
    /\ UNCHANGED <<vruntime, sched_time, sleep_cycles, tree, current, hpc, now,
                   ring_len, console_pc, console_proc, console_hart, tracked,
                   wake_at>>

-----------------------------------------------------------------------------
Next ==
    \/ ClockAdvance
    \/ \E h \in Harts :
        \/ TickScan(h)
        \/ TickSchedule(h)
        \/ \E n \in SleepArgs : SysSleep(h, n)
        \/ SysExit(h)
        \/ SysPollCheck(h)
        \/ SysPollWait(h)
        \/ SysPop(h)
    \/ ConsoleRun
    \/ ConsolePlace
    \/ InputPush
    \/ WakeCheck
    \/ WakeScan

Spec == Init /\ [][Next]_vars

-----------------------------------------------------------------------------
(***************************************************************************)
(* Properties                                                              *)
(***************************************************************************)
Keys == 0..(MaxClock * MaxProcs + MaxProcs)

TypeOK ==
    /\ pstate \in [Procs -> States]
    /\ vruntime \in [Procs -> Nat]
    /\ sched_time \in [Procs -> 0..MaxClock]
    /\ sleep_cycles \in [Procs -> Nat]
    /\ waiting_on \in [Procs -> BOOLEAN]
    /\ \A h \in Harts : DOMAIN tree[h] \subseteq Nat /\ Range(tree[h]) \subseteq Procs
    /\ current \in [Harts -> Procs]
    /\ hpc \in [Harts -> {"run", "tick", "poll"}]
    /\ now \in 0..MaxClock
    /\ ring_len \in 0..RingCap
    /\ waker_pc \in {"none", "check", "scan"} /\ waker_hart \in Harts
    /\ console_pc \in {"run", "place", "halted"}
    /\ console_proc \in Procs \cup {NULL} /\ console_hart \in Harts
    /\ tracked \subseteq Procs \ IdleProcs

\* Where the schedulers hold p: <<h, key>> for an entry, <<h, NULL>> for current.
Places(p) ==
    UNION {{<<h, k>> : k \in {j \in DOMAIN tree[h] : tree[h][j] = p}} : h \in Harts}
    \cup {<<h, NULL>> : h \in {g \in Harts : current[g] = p}}

(***************************************************************************)
(* Single owner (spec section 3): a process that sched_add_on_hart() has   *)
(* accepted and that has not exited is held in exactly one place, as one   *)
(* tree entry of one hart or as one hart's current process, and it is      *)
(* RUNNING exactly when it is current.  The idle processes are never tree  *)
(* entries.  Breaks if deschedule_current or sched_add_on_hart ever        *)
(* overwrites an occupied key.                                             *)
(***************************************************************************)
NoLostProcess ==
    /\ \A p \in tracked :
        /\ Cardinality(Places(p)) = 1
        /\ (pstate[p] = "RUNNING") <=> (\E h \in Harts : current[h] = p)
    /\ \A h \in Harts : Range(tree[h]) \cap IdleProcs = {}

(***************************************************************************)
(* Dispatch order: whenever a step takes an entry out of a hart's tree     *)
(* (pull_next_runnable), no RUNNABLE entry left behind has a smaller key.  *)
(***************************************************************************)
DispatchesLeastKey ==
    [][\A h \in Harts :
         \A k \in DOMAIN tree[h] \ DOMAIN tree'[h] :
           \A j \in RunnableKeys(tree'[h], pstate') : k < j]_vars

(***************************************************************************)
(* The virtual runtime of a scheduled process never decreases: every       *)
(* deschedule_current and every idle tick adds the runtime since           *)
(* start_proc stamped sched_time, and a collision only moves the key up.   *)
(***************************************************************************)
VruntimeNeverDecreases ==
    [][\A p \in tracked \cap tracked' : vruntime'[p] >= vruntime[p]]_vars

(***************************************************************************)
(* Sleep round trip (spec section 8): a process that called sleep(n) at    *)
(* clock c becomes RUNNABLE only at a tick with clock >= c + n.            *)
(***************************************************************************)
SleepNotEarly ==
    [][\A p \in Procs :
         (pstate[p] = "SLEEPING" /\ pstate'[p] = "RUNNABLE") => now >= wake_at[p]]_vars

(***************************************************************************)
(* No lost input wakeup (spec 4.5, wake_all): when hart 0 is not inside    *)
(* sched_try_wake, no process waits for input while events are buffered.  *)
(***************************************************************************)
NoMissedInputWake ==
    waker_pc = "none" =>
        ~\E p \in Procs : pstate[p] = "WAITING" /\ waiting_on[p] /\ ring_len > 0

(***************************************************************************)
(* Spec section 8: a process that is in no tree and current on no hart is  *)
(* INVALID, i.e. its pool slot is free (the console's process between     *)
(* creation and placement excepted).                                       *)
(***************************************************************************)
UntrackedIsInvalid ==
    \A p \in Procs \ IdleProcs :
        (Places(p) = {} /\ ~(console_pc = "place" /\ console_proc = p))
            => pstate[p] = "INVALID"

(***************************************************************************)
(* The console's "run" command never faults: it never hands a NULL         *)
(* process to elf_process_image (spec 4.4: a full pool is a resource error *)
(* returned to the caller).                                                *)
(***************************************************************************)
ConsoleNeverFaults == console_pc # "halted"
=============================================================================
