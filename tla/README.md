# TLA+ models of the riscv-os execution core

These modules model the part of riscv-os that brings harts online, moves between
firmware and kernel, and schedules processes across harts. That part lives in
`src/sbi/src/` (firmware: hart lifecycle, SBI calls, machine trap dispatch) and in
`src/src/` (kernel: scheduler, process pool, input ring, syscalls, console). Each
module says, definition by definition, which source lines it translates;
`PROJECT.json` holds the same map in machine-readable form.

## The system: parts, state and how they interact

| Part | Source | State | Operations |
|---|---|---|---|
| Hart lifecycle controller (firmware) | `sbi/src/hart_mng.c`, `sbi/src/main.c`, `sbi/src/irq.c` | `harts[h].status`, `.start` (target, scratch), CLINT `msip[h]`, lock | `start_hart`, `stop_hart`, `hart_handle_msip`, boot of hart 0, parking of secondaries |
| SBI call gateway + machine trap dispatch | `sbi/src/sbicall.c`, `sbi/src/trap.c`, `sbi/src/irq.c` | handler tables | `do_sbicall`, `handle_IRQ_SSYS`; a negative result halts the hart |
| Per-hart scheduler | `src/sched.c` | per hart: ordered tree `vruntime -> proc`, `current`, `idle`, lock, `last_tick_time` | tick (`do_sched_tick`, `do_schedule`), `sched_sleep_current`, `sched_wait_current`, `sched_exit_current`, `sched_add_on_hart`, `sched_try_wake`, `get_idle_hart` |
| Process pool | `src/process.c` | `procs[32]`: state, vruntime, sched_time, sleep_cycles, waiting_on | `new_process`, `free_process`, `start_process` |
| Input ring | `src/input.c` | `ring.len`, `ring.head`, buffer | `input_push` (interrupt on hart 0, then `sched_try_wake`), `input_pull` |
| Syscall gateway | `src/syscall.c`, `src/irq.c` | — | `SYS_EXIT`, `SYS_SLEEP`, `SYS_INPUT_POLL`, `SYS_INPUT_POP`, among others |
| Timer tick | `src/tick.c`, `src/irq.c`, `sbi/src/timer.c`, `sbi/src/irq.c` | per-hart `mtimecmp`, `mip.STIP` | `init_tick`, `handle_IRQ_MTIM`, `handle_IRQ_STIM`, `do_tick`, `force_tick`, `SBI_TIMER_REL`, `SBI_TIMER_CLEAR` |
| Console `run` and `procs` commands | `src/kconsole.c`, `src/elf.c` | — | `new_process`, `elf_process_image`, `get_idle_hart`, `sched_add_on_hart`; `procs` locks each `scheds[i].lock` to print the table |
| Spinlock | `src/lock.c` | the lock word `s` | `spin_trylock` (one `amoswap.w.aq`), `spin_lock` (retry loop), `spin_unlock` |
| Page allocator | `src/page.c` | `Page_Status` (`n_free`, `last_place`, `n_reserved`), taken and last bitmaps, lock | `init_page_allocator`, `alloc_pages`/`alloc_aligned_pages`, `free_pages` |
| Kernel trap dispatch + PLIC | `src/trap.c`, `src/plic.c` | PLIC claim/complete | `trap_handler` |

How the parts interact:

- Boot: hart 0 runs the firmware's `main`, marks itself STARTED, raises
  `hart_0_is_ready` and enters the kernel.
- The secondaries spin on that flag. Each then writes STOPPED (without the lock)
  and parks with only the software interrupt enabled.
- The kernel's `init_sched` on hart 0 calls `SBI_START_HART` once for each hart
  1..7, to run that hart's idle process.
- `start_hart` marks the hart STARTING and raises its `msip`. The parked hart takes
  the interrupt, becomes STARTED and enters supervisor mode.
- After boot, hart 0 is the console and never schedules. Harts 1..7 are switched
  by their timer ticks and by the syscalls of the processes they run.
- Hart 0 crosses into the other harts' schedulers in two ways:
  - the console's `run` command places a new process on an idle hart;
  - the input interrupt wakes, on idle harts, processes that wait for input, and
    forces a tick there;
  - the console's `procs` command locks each scheduler to print its processes.
- Hart 0 takes supervisor interrupts while its console runs (the block driver
  waits for its interrupt with `WAIT_FOR_INTERRUPT` while `run` reads a file), so
  the input interrupt can arrive inside a console lock section.
- The timer chain: when a hart's `mtimecmp` is reached, the firmware's
  `handle_IRQ_MTIM` turns the timer off and raises STIP. The kernel's
  `handle_IRQ_STIM` clears STIP with `SBI_TIMER_CLEAR`, then `do_tick` re-arms the
  timer with `SBI_TIMER_REL(h, DEFAULT_TICK)` and calls `sched_tick`, which does
  not return. `force_tick(h)` is `SBI_TIMER_REL(h, 0)` from hart 0.

The hard behaviours, which the runs below are aimed at:

- the unlocked reads of another hart's `current` in `sched_try_wake` and
  `get_idle_hart`;
- the check-then-wait gap in `SYS_INPUT_POLL`;
- key collisions in the vruntime tree;
- pool exhaustion, and the partial failure of `run` when the ELF image is bad;
- the process state left behind by exit;
- the boot race between hart 0's start requests and the secondaries' STOPPED write;
- a second start request while one is pending;
- the wrap-around search of the page allocator and its u64 arithmetic;
- the unlocked ring shared by the input interrupt and `SYS_INPUT_POP`;
- the fatal end of any negative handler result;
- hart 0's `force_tick` store racing the target hart's own re-arm of `mtimecmp`;
- the scheduler locks taken both by hart 0's console and by the interrupt that
  preempts it.

## Modules

| Module | Models | Variables | Actions |
|---|---|---|---|
| `Sched` | scheduler, pool, input ring, the four syscalls, console `run`, input wakeup | `pstate`, `vruntime`, `sched_time`, `sleep_cycles`, `waiting_on` (per process); `tree`, `current`, `hpc` (per hart); `now`, `ring_len`; `waker_pc`/`waker_hart` (hart 0's `sched_try_wake` loop); `console_pc`/`console_proc`/`console_hart`; history `tracked`, `wake_at` | `ClockAdvance`, `TickScan`, `TickSchedule`, `SysSleep`, `SysExit`, `SysPollCheck`, `SysPollWait`, `SysPop`, `ConsoleRun`, `ConsolePlace`, `InputPush`, `WakeCheck`, `WakeScan` |
| `HartStatus` | the abstract status machine of spec 4.1 | `status` | `Boot`, `Park`, `Request`, `Ack`, `Stop` |
| `HartLifecycle` | the firmware controller for any supervisor caller; refines `HartStatus` | `status`, `target`, `msip`, `mode` (`boot`/`parked`/`S`/`halted`), `entered`, `ready` | `BootHart0`, `BootSecondary`, `StartHart`, `StartHartRefused`, `HandleMsip`, `StopHart` |
| `KernelBoot` | `HartLifecycle` driven by its one real caller, `init_sched`'s start loop | adds `next_hart` | adds `InitSchedStart` |
| `PageAlloc` | the page allocator; callers hold what it returns | `taken`, `last`, `n_free`, `last_place`; history `held` (a bag of returned regions) | `AllocPages`, `FreePages` |
| `InputRing` | `input_push` against `input_pull`, split at every load and store | `buff`, `head`, `len`, `next_ev`; `push_pc`/`push_len`; per consumer `pull_pc`/`pull_len`; history `delivered` | `PushCopy`, `PushCheck`, `PushAdvance`, `PushStore`, `PullCheck`, `PullCopy`, `PullLoad`, `PullStore` |
| `TickTimer` | the timer chain of each scheduled hart, the scheduler locks, hart 0's wake loop with `force_tick` and the console's lock sections | `dl` (`mtimecmp` minus the time), `stip`, `pc` (steps of `handle_IRQ_STIM` and of the poll), `idle`, `nrun`, `nwait`, `lk` (lock word) per hart; `wpc`, `wh` (hart 0's trap); `cpc`, `ccmd`, `ci` (hart 0's console); history `owed`, `pushed` | `Advance`, `HandleMTIM`, `TrapSTIM`, `TimerClear`, `SetNextTick`, `StoreNextTick`, `TickLock`, `TickScan`, `ScheduleLock`, `DoSchedule`, `WaitLock`, `WaitInput`, `InputPush`, `WakeCheck`, `WakeLock`, `WakeScan`, `ForceTick`, `ConsoleRun`, `ConsoleProcs`, `ConsoleLock`, `ConsoleAdd`, `ConsolePrint` |
| `MC*` | constants for TLC | | |

### Correspondence with the code

- In `HartLifecycle` and `Sched` every critical section under a spinlock is one
  atomic action. This holds for `start_hart`, `hart_handle_msip`, `stop_hart`,
  `sched_add_on_hart`, one `sched_try_wake` hart scan, and the tick scan.
  `TickTimer` models the scheduler locks themselves: `lk[h]` is
  `scheds[h].lock.s`, and every `spin_lock` is a step that swaps in
  `SPIN_LOCKED` and enters the section only if the old word was not locked
  (`TryLock`, `Acquired`, `AfterTry`); a failed try swaps 1 for 1 and retries.
- Two handlers are split at the points where the code itself lets go:
  - a tick is `TickScan` (the scan under the lock) and then `TickSchedule`
    (`do_schedule`, which retakes the lock);
  - `SYS_INPUT_POLL` is `SysPollCheck` (the unlocked `input_ready()`) and then
    `SysPollWait` (`sched_wait_current`).
- `sched_try_wake` on hart 0 is a loop over the harts. `WakeCheck` is its unlocked
  test `current == idle`. `WakeScan` is the locked scan that follows.
- `RescheduleAndStart` joins `reschedule()` and the `start_proc()` that always
  follows it, because `start_proc()` does not return. The same holds for
  `DescheduleAndSwitch`, which is `deschedule_current`, `reschedule` and
  `start_proc` together.
- The tree `scheds[h].procs` is a function from keys to processes. `FreeKey` is
  the `while (tree_lookup(vrt)) vrt++` probe.
- `last_tick_time` is a constant 0. Its only assignment (`sched.c:139`) comes after
  `do_schedule()`, which never returns.
- The console's `run` command is `ConsoleRun` then `ConsolePlace`. The first runs
  `new_process`, `elf_process_image` (a success or failure chosen from
  `ElfOutcomes`) and `get_idle_hart`. The second is `sched_add_on_hart`.
- With a full pool and a good image, `elf_process_image` writes through NULL and
  hart 0 ends `halted`.
- In the firmware, `mode[h]` records where hart `h` executes. A refused SBI call
  returns -1 from `handle_IRQ_SSYS`, and the machine `trap_handler` halts on it;
  this is `StartHartRefused`.
- `alloc_pages` and `free_pages` run under `page_lock`, so each is one action.
  `Search` is one of the two search loops, as a RECURSIVE operator that returns the
  hit or the final `n_found`. `SecondSearch` starts that loop at `n_reserved` with
  the first loop's `n_found`, as the code does. `TakeRun` is the marking loop: its
  bound `cursor - n` is a u64, so for `cursor < n` it marks nothing. A wrapped start
  index (`cursor - n + 1 < 0`) stands for the address `get_page` computes past the
  heap, which `free_pages` refuses.
- `n_free` is a u64 kept as an integer; a negative value stands for its wrap. Only
  `n_free == 0` is ever tested, and that test means the same either way.
- `InputRing` gives `input_push` three steps and `input_pull` four. `push_len` and
  `pull_len` are the values of `ring.len` that one step loads and a later step
  stores back (plus or minus one). `sched_try_wake`, which follows the push, is in
  `Sched`; `InputRing` checks only the ring.
- `TickTimer` keeps time relative: `dl[h]` is `mtimecmp[h]` minus the time, and
  `Off` is `CLINT_MTIMECMP_INFINITE`. `Advance` is one step of the CLINT's time.
  Handlers take far less than `DEFAULT_TICK`, so the clock moves only when no
  handler runs and no timer interrupt is pending (`Quiet`).
- An enabled machine timer interrupt preempts supervisor code (`mie.MTIE` is set
  by `hart_handle_msip`), so a hart's kernel steps require `dl[h] # 0` (`Runs`).
  The machine interrupt cannot be taken inside the hart's own ecall.
- Each SBI call is one step, except the hart's own `SBI_TIMER_REL` in `do_tick`.
  `SetNextTick` is the ecall entry with its `rdtime`, and `StoreNextTick` is the
  store to `mtimecmp`. Hart 0's `ForceTick` can land between them.
- `DoTickSteps` is the order of `do_tick`'s two calls. `sched_tick` is four steps:
  `TickLock` and `TickScan` (the sleeper scan finds no SLEEPING entry here, since
  sleep is modelled in `Sched`), then `ScheduleLock` and `DoSchedule`. The last is
  the scheduling decision (`do_schedule`) on per-hart counts of RUNNABLE and
  WAITING entries, the same rule as `Sched`'s `TickSchedule`, with the unlock.
- The poll is `WaitLock` (the `PROC_IDLE` early return, then `spin_lock`) and
  `WaitInput` (the section). Hart 0's wake loop is `WakeCheck` (unlocked test),
  `WakeLock`, `WakeScan` (section and unlock) and `ForceTick`.
- The console on hart 0 runs only while no trap runs there (`Hart0Free`). `run` is
  `ConsoleRun` (`get_idle_hart`), `ConsoleLock` and `ConsoleAdd`
  (`sched_add_on_hart`). `procs` is `ConsoleProcs`, then `ConsoleLock` and
  `ConsolePrint` for each hart in turn. The file read, `new_process` and the ELF
  load of `run` are in `Sched`.

## Runs

| Run | Module / cfg | Expect | Checks | Bounds |
|---|---|---|---|---|
| `sched_safety` | MCSched / MCSched.cfg | pass | TypeOK, NoLostProcess, DispatchesLeastKey, VruntimeNeverDecreases | 2 scheduled harts, 4 pool slots (2 user), clock 0..2, sleep 2, ring capacity 1, ELF good or bad |
| `sched_sleep_early` | MCSched / MCSchedSleepEarly.cfg | violation | SleepNotEarly | as `sched_safety` |
| `sched_lost_wake` | MCSched / MCSchedLostWake.cfg | violation | NoMissedInputWake | as `sched_safety` |
| `sched_slot_leak` | MCSched / MCSchedSlotLeak.cfg | violation | UntrackedIsInvalid | ELF always good, so the trace is the exit leak |
| `sched_console_null` | MCSched / MCSchedConsoleNull.cfg | violation | ConsoleNeverFaults | ELF always good |
| `hart_lifecycle` | MCHartLifecycle / MCHartLifecycle.cfg | pass | TypeOK, StatusMatchesMode, StartingLeadsToStarted, AbstractSpec (refinement of `HartStatus`) | 3 harts, 2 start descriptors (symmetric) |
| `kernel_boot_race` | MCKernelBoot / MCKernelBootRace.cfg | violation | ConsoleHartSurvivesBoot | 8 harts |
| `page_alloc` | MCPageAlloc / MCPageAlloc.cfg | pass | TypeOK, AllocFindsWindow | 8 pages (1 reserved), requests of 1 and 4 pages, at most 4 held, `n_free` within ±16 |
| `page_alloc_overlap` | MCPageAlloc / MCPageAllocOverlap.cfg | violation | NoPageHandedOutTwice | as `page_alloc` |
| `tick_timer` | MCTickTimer / MCTickTimer.cfg | pass | TypeOK, LockExclusive, WakeSeenBeforeClockMoves, HartsKeepTicking, IdleHartRunsWork (under `FairSpec`) | 2 scheduled harts, `DEFAULT_TICK` = 3 clock steps, 1 process per hart (placed by the console), one input event per clock step, no event while the console holds a lock |
| `hart0_lock_hang` | MCTickTimer / MCTickTimerHang.cfg | violation | Hart0NeverSpinsOnItself | as `tick_timer`, but events may arrive at any time |
| `input_ring_race` | MCInputRing / MCInputRingRace.cfg | violation | EventsPoppedOnceInOrder | 3 slots, 1 popping process, 3 events |

What the passing runs show:

- **NoLostProcess** (spec 3, single owner). Every process that `sched_add_on_hart`
  accepted and that has not exited is held in exactly one place. That place is one
  tree entry of one hart, or one hart's current slot. The process is RUNNING
  exactly when it is current.
- **DispatchesLeastKey**: whenever an entry leaves a tree, no RUNNABLE entry with a
  smaller key stays behind.
- **VruntimeNeverDecreases**: a scheduled process's vruntime never goes down.
- **StatusMatchesMode**: the status other harts can read (SBI_HART_STATUS) agrees
  with where the hart runs. Every STARTING hart has its msip raised, and a started
  hart entered with the recorded descriptor.
- **StartingLeadsToStarted**: every accepted start is answered.
- **AbstractSpec**: the controller implements the spec 4.1 status machine.
- **WakeSeenBeforeClockMoves** (spec 8, `force_tick`). A hart found idle by
  `sched_try_wake`, on which a process was woken, takes a scheduling decision
  before the clock moves. So the wake costs handler latency, not a tick interval.
  Hart 0's store of `mtimecmp` can land inside the hart's own `set_next_tick`
  and be overwritten. It holds because `do_tick` re-arms before it calls
  `sched_tick`, so a decision still follows the lost store.
- **HartsKeepTicking**: every scheduled hart takes a scheduling decision again
  and again, whatever `force_tick` writes into its `mtimecmp`, and whoever else
  takes its lock.
- **IdleHartRunsWork**: an idle hart with a RUNNABLE entry eventually runs it.
  The entry may come from the console's `run`, placed on a hart that
  `get_idle_hart` read as idle without the lock, or from a wake on hart 0.
- **LockExclusive**: hart l's tick and poll, hart 0's wake loop and the console
  are never inside sections of `scheds[l].lock` at the same time.
- **AllocFindsWindow**: in every reachable bitmap, if neither search pass of
  `alloc_pages(n)` finds n pages, the heap holds no n consecutive free pages. This
  checks the recursive search against a direct definition of a free window. It
  holds even with the carried `n_found`, which only makes the search too eager.

Each of these properties is broken by a mutant of the code it is about, listed in
`PROJECT.json`:

- a dropped collision probe;
- dispatching the largest key;
- a lost vruntime;
- an off-by-one in `do_schedule`'s tree-length test (IdleHartRunsWork);
- a start accepted against STARTED;
- a missing `clint_awaken_hart`;
- `sched_tick` called before `set_next_tick` in `do_tick` (the store of the
  re-arm then overwrites a forced tick);
- `handle_IRQ_MTIM` without `timer_off` (an M-mode interrupt storm);
- `deschedule_current` without its `PROC_IDLE` branch, so the idle process enters
  the tree (TypeOK);
- `spin_trylock` with its success test inverted (LockExclusive);
- `last_place` set one page too far (TypeOK);
- a second search pass that resumes at `last_place` instead of `n_reserved`.

What the violation runs show (each is a finding in `PROJECT.json`):

1. **Sleepers wake early** (`sched.c:139`). `last_tick_time` never leaves 0, so a
   tick subtracts the whole uptime from each countdown.
2. **Lost input wakeup** (`sched.c:282`, `syscall.c:68`).
   - A poller sees an empty ring.
   - An event arrives. `sched_try_wake` skips the poller's hart because it is not
     idle.
   - The poller then waits, with the event buffered.
   - Spec 4.5 says the wakeup scans every hart.
3. **Exited slots leak** (`process.c:134`). `free_process` leaves the state
   RUNNING, so the slot is never reused.
4. **Console NULL dereference** (`kconsole.c:338`). With the pool full (which
   finding 3 makes inevitable), `run` passes NULL to `elf_process_image` and hart 0
   halts.
5. **Boot race halts hart 0** (`sbi/src/irq.c:68`, `sbi/src/main.c:35`). Nothing
   orders `init_sched`'s start requests after the secondaries' unlocked STOPPED
   write. A refused start is fatal to the caller, though spec 7 calls it an
   ordinary error.
6. **Page allocator hands out its own status page** (`page.c:128`, `page.c:135`).
   - The second search pass resets `cursor` but not `n_found`.
   - So free pages at the heap's end count towards a run at its start, and the
     region `cursor - n + 1 .. cursor` begins below `n_reserved`.
   - With `cursor < n`, the u64 loop bound wraps and no page is marked taken.
   - TLC's trace is ordinary process traffic: allocate 4, 1 and 1 pages, free the
     4, then allocate 4. The last call returns page 0 (the `Page_Status`) as a
     stack, and pages 1-3 stay free for the next caller.
7. **Input ring race** (`input.c:19`). A pop on another hart advances `head`
   (`input.c:45`) before it decrements `len` (`input.c:49`). A push in between
   computes its slot from the new `head` and the old `len`, and writes one slot
   too far. Both `len` stores then land in order, so no update is lost. The slot
   just behind `head` was never written, and the next pop returns it as an
   event.
8. **Hart 0 hangs on its own scheduler lock** (`sched.c:283`, `kconsole.c:207`,
   `sched.c:168`).
   - The console's `run` takes `scheds[1].lock` in `sched_add_on_hart` (and
     `procs` takes each lock in turn).
   - An input event traps hart 0 inside that section. `sched_try_wake` finds
     hart 1 idle and spins on the lock.
   - The holder is the console code under the trap, which cannot run until the
     trap returns. Hart 0 spins forever with the PLIC claim open.
   - Spec 5 says a handler always runs to completion.

Spec 8 says a second start against a STARTING hart is rejected, while spec 4.1
lists STARTING among the states that accept one. The code follows 4.1
(`hart_mng.c:18`). `StatusMatchesMode` and the refinement `AbstractSpec` check
that an overwritten pending start is still answered consistently.

## Bounds, fairness, deadlock

**Sched bounds**

- Two scheduled harts and two user slots are enough for every cross-hart case:
  - a process on each hart;
  - the console placing on one hart while the other is busy;
  - the wake loop skipping one hart and scanning the other.
- Clock 0..2 and sleep 2 let a sleeper be counted down once and woken once.
- A ring of capacity 1 covers the full-ring overwrite.
- Larger bounds only multiply the states: `sched_safety` already has 5.4 million
  distinct states.

**Lifecycle bounds**

- Three harts give a caller, a target, and a third hart that can race for the
  same target.
- Two descriptors are needed to see an overwrite.
- `KernelBoot` uses the real `MAX_HARTS`.

**Timer bounds**

- Two scheduled harts let hart 0's wake loop force one hart and move on to the
  other.
- A tick of 3 clock steps leaves time for a wake between two periodic ticks.
- One process per hart, placed by the console's `run`, can run, poll and wait,
  be woken by hart 0 and be run again. Two per hart (858 thousand states instead
  of 108 thousand) makes the liveness check run longer than five minutes.
- `tick_timer` keeps input events out of the console's lock sections
  (`EventsDuringConsoleLocks = FALSE`). With events allowed there, hart 0 hangs
  (`hart0_lock_hang`), and the pass run could check nothing else.
- At most one input event arrives per clock step. Handlers take no time in the
  model, so an unbounded burst of events would stop the clock.

**Page allocator and input ring bounds**

- Requests of 1 and 4 pages are the sizes `new_process` makes (page table, trap
  stack, a user stack of `stack_pages = 4`).
- Eight pages with one reserved hold one 4-page region with room around it. That
  is the smallest heap where a run of free pages at the end can be carried into
  one at the start.
- At most 4 regions are held at once. The `MCFreeCountBound` constraint keeps the
  drifting `n_free` within two heaps' worth, because each wrapped region freed
  adds to it without limit.
- A ring of 3 slots with 3 events is neither empty nor full when the push and pop
  overlap. The full-ring overwrite is covered by `Sched`.

**Fairness**

- `Sched` runs check safety only and assume no fairness.
- In the firmware, hart 0's boot, a secondary leaving its spin loop, and a parked
  hart taking a pending enabled software interrupt are hardware progress, so they
  are weakly fair.
- `init_sched`'s loop is weakly fair.
- In `TickTimer`, taking a pending interrupt is weakly fair. `Advance` is
  strongly fair: real time never stops, and the clock is disabled only while
  handlers, which take no time here, are running. Each context is a strongly
  fair process: a hart's kernel steps, hart 0's wake loop, and the console once
  a command has begun. A spinning context finds the lock free again and again,
  because a lock is held for a few instructions. The console gets hart 0 back
  after every trap.
- No fairness is assumed for user syscalls, the console or input events.

**Deadlock**

- `Sched` runs check deadlock.
- `hart_lifecycle` does not. `stop_hart` lets every hart, hart 0 included, park
  itself, and then no hart is left to issue a start.
- `kernel_boot_race` does not. Boot is finite: after the last start is answered,
  or after hart 0 halts, no lifecycle step remains.
- `tick_timer` checks deadlock: the clock can always move once the handlers end.
- `hart0_lock_hang` checks one invariant, and TLC stops at the first state where
  hart 0's trap spins on the lock its own console holds.
- `page_alloc` does not. A call with `n_free == 0` changes nothing. When the held
  bound is reached, or `n_free` has drifted to 0 with nothing held, no call
  changes the state, and the system may legitimately sit there.
- `input_ring_race` does not. The device's events are bounded, so the ring stops.

## Not modelled (yet)

- **Out of scope per spec 1:** drivers, filesystems, the MMU, `kmalloc`/`hmalloc`,
  printing and user programs are not modelled. The page allocator is modelled
  because the process code depends on it.
- **Page allocator inputs:** alignments above `PAGE_SIZE` (from `hmalloc`) are not
  enumerated. `SYS_MAP_MEM(0)`'s zero-page request is listed as a hazard; it has
  no run of its own.
- **Data of the process image:** the address space, stack and frame set up by
  `new_process` are abstracted, because no property tells them apart.
- **Boot liveness:** the pass run of `KernelBoot` (boot completes unless hart 0
  halts) was retired to free a run for `TickTimer`. `KernelBoot` is now checked
  by `kernel_boot_race` alone. Accepted starts are still checked to be answered by
  `StartingLeadsToStarted` in `hart_lifecycle`.
- **PLIC path:** hart 0's PLIC claim, `pci_irq_dispatch` and the driver `irq()`
  functions are not modelled. A shared-line interrupt no driver accepts (such as
  a virtio configuration change) halts hart 0. Spec 4.2 makes a negative handler
  result fatal, so checking this needs a violation run of its own.
- **Bad syscall number:** `do_syscall` returns -1 for an out-of-range call number
  (`syscall.c:242`). `handle_IRQ_USYS` passes it on as the handler result, so the
  kernel `trap_handler` halts the hart. Spec 7 calls this a rejected request. It
  is listed as a hazard; a one-step path needs no model search, and it has no run.
- **Scheduler liveness in `Sched`:** the fair run of `Sched` (one hart) was
  retired to free a run for `hart0_lock_hang`. `TickTimer`'s `IdleHartRunsWork`
  checks the same property with the real timer chain and two harts, on
  per-hart counts rather than the tree.
- **Other locks:** `kprint_lock`, `page_lock`, `procs_lock` and
  `kernel_pt_lock` guard sections that are one action each in their modules.
  `sem_trydown` and `sem_up` have no caller.
- **Still open:** all 12 runs are used, so each of these would have to share or
  replace an existing run:
  1. A `SyscallGateway` module for `do_syscall` and `do_sbicall` (range check,
     return slot, `sepc + 4`). It would be composed with `Sched`'s syscalls.
  2. A reference check of `FreeKey` against the least free key at or above a
     start.
