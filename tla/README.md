# TarnOS: a TLA+ development

TLA+ models of the TarnOS microkernel, the TLC runs that check them on small
instances, and TLAPS proofs for every size. The models are translated from the
Rust sources; `PROJECT.json` gives, for each definition, the lines it models.

## The system

TarnOS is a symmetric multiprocessing microkernel for x86_64. All cores share
one process table and one ready queue behind the `SCHEDULER` spinlock. Processes
talk through rendezvous endpoints and hold capabilities for them; kernel tasks
are futures polled by a small executor. System calls and interrupt handlers run
with interrupts masked, on the kernel stack of the process that entered, so a
core is interrupted only in ring 3, during boot or in its idle loop.

| Part (under `kernel/src` unless named) | State | Talks to |
|---|---|---|
| Scheduler (`task/scheduler.rs`) | table slots with generations, ready queue, `current` per core, `STACK_BUSY`, per-core `idle` and `evict_request` | endpoints (wakes), executor (drained on ticks and when idle), LAPIC (IPIs) |
| Endpoint (`libs/tarnos-kcore/src/endpoint.rs`, `ipc/endpoint.rs`) | one slot: empty, queued senders, or one receiver | scheduler, executor |
| Ring buffer (`libs/tarnos-kcore/src/ring.rs`) | array, head, length | ready queue, executor, sender queue |
| Executor (`task/executor.rs`) | tasks, ready ring, overflow flag | endpoints, UART |
| Process, ELF loader (`task/process.rs`, `elf.rs`) | address space, heap break, capabilities | scheduler, memory |
| System calls (`arch/x86_64/syscall.rs`) | none of its own | all |
| Frame allocator, address spaces (`libs/tarnos-kcore/src/bitmap.rs`, `memory/`) | bitmap, page tables | processes, sbrk |
| virtio-blk, FAT12 (`driver/virtio_blk.rs`, `fs/fat.rs`) | virtqueue, mounted geometry | system calls |
| UART and console (`driver/uart.rs`, `earlycon.rs`) | receive ring, waker, transmit lock | executor, endpoints |
| Boot, SMP, interrupts, spinlock (`main.rs`, `smp.rs`, `arch/x86_64/`, `sync.rs`) | per-core slots, LAPIC state, locks | all |
| Panic path (`lang_items.rs`) | the reporting core | all cores |
| User programs and test runner (`userland/`, `libs/tarnos-rt`, `xtask`) | each program's place | system calls |

`PROJECT.json` lists, line by line, what is hard to test in each (`hazards`) and
the property that watches it.

## Modules

| Module | Models |
|---|---|
| `Scheduler` | scheduler, per-core state, the interrupts and system calls that drive it |
| `Endpoint` | one endpoint with processes, kernel tasks and deaths |
| `BoundedFifo`, `RingBuffer` | what a bounded queue promises, and the array that implements it |
| `Executor`, `Console` | the executor over its ring; the UART's interrupt, its two tasks, the printing cores |
| `FrameAllocator`, `Memory` (`MCMemory`) | the bitmap; page tables, spawn, sbrk, grant, start, kill, exit, frame by frame |
| `Storage` (`MCStorage`) | PCI scan, virtio-blk, FAT12, the block and file system calls, with an external device |
| `Machine` | boot of all cores, interrupts and their acknowledgement, spinlocks, idle loop |
| `Panic` | panics and faults on several cores |
| `Userland`, `Scenarios` | the user programs over the system calls as one step each; each boot the test runner makes and what it expects |
| `SchedulerSteps`, `SchedulerTable`, `SchedulerProofs`, `SchedulerSafety` | proofs about `Scheduler` |
| `MemoryProofs`, `RingBufferProofs`, `PanicProofs` | proofs about `Memory`, `RingBuffer` and `Panic` |

**Scheduler.** A step is one critical section of `SCHEDULER`, or one store to a
per-core atomic that others read without the lock. The table's slots are `slot`,
`gen`, `state`, `parent`, `wait_waiter`, `pending_wake`; a pid is an index and a
generation, as in `task/mod.rs`. `pc[c]` is the point between two critical
sections core `c` has reached: `user` is ring 3, `hlt` is asleep, `block` lies
between an endpoint's lock and the scheduler's, `scan`, `evict`, `spin` and
`giveup` are the loop of `terminate_process`, `orphans` the wake-up of orphaned
receivers, `drop`, `drain` and `return` the tail of `finish_switch`
(`run_ready_tasks` included) up to `iretq`, `abandon` the idle trampoline.
`stack[c]` is the kernel stack the core is on, `cr3[c]` its active address space,
`drops[c]` the processes it extracted but has not dropped. Boot is part of the
model: the other cores idle already while the boot core reserves, builds, spawns
and announces `Boot` processes one after the other (`boot`, `create`, `publish`)
and then joins them. `unacked[c]` remembers that an eviction on core `c` found
nothing ready and so never reached its EOI; from then on the core takes neither
the reschedule IPI nor, unless it is the boot core, whose timer is the PIT, its
timer (`Ticks`). `Ops` selects the system calls the processes of an instance make:
any of them, in any order, on any pid. Early returns that change nothing are not
steps. Endpoints appear only as the set `registered` of pids they record.
`TakeWaiter` lets any core take one out at any time, for a message or for none;
`wake_receiver_fails` is `Endpoint::wake_receiver` when another receiver was
faster: the pid is recorded again or dropped, and what was dropped is kept in
`forgotten`. With the set a sender's pid may take part in that failure, too, which
no endpoint does. The re-parenting of three test boots (`main.rs:1178`, 1362,
1475) is in `Scenarios`, not here. A shared kernel stack has no further effect in
this module: its other results say what the scheduler does as long as no stack is
actually overwritten (see `sched_stack`).

**Endpoint.** `slot` is `Slot` of the library. What an operation still has to do
once it released the slot lock (hand a message over, wake a partner, report
success, look for orphans) is the list `todo[a]`, whose items interleave with
other actors. A message is its sender and a number. A process counts as blocked
once it is recorded, which `PendingWakeIsFresh` and `BlockedIsHeld` of
`Scheduler` justify.

**RingBuffer, Executor, Console.** `Executor` extends `RingBuffer` with the tasks
of one executor, and `Console` extends it with the UART: a lock held while
another is taken is a variable, a critical section that takes none is one step.
`FifoSteps` is the refinement of `BoundedFifo` inside the console's steps.

**Memory.** What a core takes from or returns to the frame allocator is one step,
so calls on different cores interleave at every frame. A page-table tree is a
function from nodes to frames. `lost` collects frames nobody refers to any more:
the data frame in hand when `map_to` fails (`elf.rs:184-192` drops it), the only
leak the run finds.

**Storage.** Images are small disks, good and damaged; bytes have two binary
digits and FAT entries three, so an entry still straddles bytes and sectors.
Indices of the rings wrap (`IdxMod`). User memory has mapped and unmapped pages
and a non-canonical hole: the page walk of `validate_write_range` answers
`InvalidArgument` at an unmapped page and panics at a non-canonical one
(`VirtAddr::new`); what that panic does to the other cores is `Panic`'s. The device
answers every request, in any order it may; that it answers is external. It is
compared with a reference walk over the chain (`Walk`, a recursive operator).

**Machine.** A core's context is a stack of activities: what it does, and below
it what an interrupt has put aside. Boot is a list of steps with the PML4 entries
each may create. All vectors the kernel uses are of one LAPIC priority class, so
one in service holds back the others.

**Panic.** Cores at work, holding locks or not; a panic or a fault anywhere,
also on the reporting path. A core in `deaf` was evicted with nothing ready
(`ring3_reschedule`): `PANIC_HALT` is of the priority class its Local APIC still
has in service, so the halt interrupt stays pending.

**Userland, Scenarios.** Every program (but `heap-child`, whose work is inside the
runtime's allocator) as a sequence of calls; every system call as one step of an
abstract kernel; a boot is a set of processes and what the log must and must not
contain. Left out: the heap-growth, kitchen-sink, concurrency-count, IPI-count,
boot-check, fault and block-driver boots (timing, counters, raw bytes). Polling
limits of the forced-preemption boot are unbounded waits here. A core evicted
with nothing ready loses its IPIs and, unless it is the boot core, its timer, and
an application core that then finds nothing to run stays parked.

## Runs

Every property of a passing run has a mutant: a changed definition, defined next
to the original in the modules, under which the run finds the property violated.

| Run | Instance | Checks |
|---|---|---|
| `sched` | 2 cores, of which one boots 2 processes while the other idles, 2 slots that are reused, 3 pids, every operation and kill time-outs; 296,219 states | `SafetyInv`, the inductive invariant of the proofs; `KillHitsTarget`, `NoProcessLost`, `StackBusyProtects`, `Cr3Live`, `NoSleepThroughWork`, `HaltedMeansDone` |
| `sched_live` | 2 cores, a boot process and up to 2 children, spawned, started, killed with retries, exiting | `ReadyRuns`, `KillCompletes`, `LastExitHalts` |
| `endpoint` | a process or a task receives from 2 mortal processes and a task, queue of 2 | answers match, waiters stay recorded, messages arrive once and in order, a completed send was received; sends complete, orphans are woken |
| `console` | 2 cores, 3 tasks on a ready ring of 2 | no lock cycle, no byte without a wake, whole lines, the ring a FIFO, every task served |
| `memory` | 2 cores, 2 processes, 14 usable frames, pages of 2 bytes, trees of 2 levels; two loaded processes of 7 frames leave none for a heap | `SpaceInv`, the inductive invariant of the proofs (with `MemoryInv` and `GapIsSafe`); `FramesAccounted`, `TablesOutliveEntries`, `HeapBacked`, `AuthorityBounded` |
| `storage` | 2 cores, 26 disks and device set-ups | right bytes, checked requests, justified errors; calls return, or the kernel panics over a non-canonical pointer |
| `machine` | 2 cores, 2 processes | `KernelHalfComplete`, `CoreIndexResolves`, `NoSelfDeadlock`; `BootCompletes` |
| `panic` | 2 cores, either of which may have become deaf, 2 faults on the way | `OneReporter`; `PanicIsReported`, `OthersGoInert` |
| `scenarios` | each modelled boot on 1 or 2 cores | no failure printed, address spaces balance; `TestPasses` |

Each module's type invariant is part of one invariant of its run: `SafetyInv`,
`AnswersMatch`, `NoLockCycle`, `FramesAccounted`, `RequestsAreChecked`,
`CoreIndexResolves`, `OneReporter`, `SpacesAccounted`.

Three runs end in a violation, each a disagreement between the code and what the
repository says of it (quoted under `findings` in `PROJECT.json`):

- `sched_stack`: a process preempted or yielding is put back in the ready queue
  and may run on another core while its first core is still on its kernel stack
  in `run_ready_tasks`. Two processes and no other system call suffice. This fits
  the open cross-core corruption described in `docs/KNOWN-ISSUES.md`.
- `sched_full`: spawning with a full table faults before the check that would
  refuse it.
- `machine_eoi`: an eviction that finds nothing ready never returns to its stub,
  so its interrupt is never acknowledged and the core takes no further IPI. The
  LAPIC timer of that core and `PANIC_HALT` are held back with it, and every
  promise that rests on them has an exception: `KillCompletes`, `ReadyRuns`,
  `OthersGoInert`.

### Further counterexamples

Kept as configurations, with the property each one violates:

- `SchedulerZombie.cfg`, `ZombieHasLiveParent`: a suspended child of an exiting
  process becomes a zombie of a parent that is gone (`scheduler.rs:1701`, against
  1691-1693).
- `SchedulerHalt.cfg`, `HaltIsFinal`: in a boot that spawns several processes
  (`main.rs:775-788`) an application core finishes the first, finds the table empty
  and halts for good before the next is spawned (`scheduler.rs:1274-1290`, against
  1247-1251). `HaltedMeansDone` therefore speaks of the halts after the last spawn.
- `SchedulerKill.cfg`, `EveryKillCompletes`: a core evicted with nothing ready
  dispatches another process later; a kill of that one waits for an IPI the core
  never takes (`context_switch.rs:361`, `scheduler.rs:2007`).
- `PanicDeaf.cfg`, `AllOthersGoInert`: such a core does not take the halt of a
  panic either and keeps running (`lapic.rs:314`, against 73-75).
- `ScenariosStress.cfg`, `EveryTestPasses`: `smp-sched-stress` requires exactly two
  equal free-frame counts (`xtask/src/main.rs:1654-1669`; 1627: "Same pass criteria as the
  single-core version"). On several cores every core that ran the process halts and
  prints a count, and the first may print while the other core is still about to
  drop the last address space: `0, 1, 0`. `TestPasses` holds that test to what it
  waits for and to the last count; the two lines are checked for the single-core
  test.
- `StoragePointer.cfg`, `WalkIsHarmless`: a destination that starts in the
  non-canonical hole panics the kernel (`syscall.rs:666`, against 632-634).
- `EndpointDeadReceiver.cfg`, `DoneMeansReceived`: a send is delivered to a
  receiver that died waiting (`ipc/endpoint.rs:129`, against 3-4).
- `EndpointTwoReceivers.cfg`, `WaiterIsRecorded`: with two receiving processes one
  can be forgotten (`ipc/endpoint.rs:109`, against 22-25).
- `MemoryHeap.cfg`, `NothingAheadOfNeed`: after a failed sbrk pages beyond the
  break stay mapped (`syscall.rs:594-608`, against `process.rs:246-249`).
- `PanicHalt.cfg`, `OthersStop`: the halt IPI is maskable, so a core that spins
  with interrupts off does not stop (`lapic.rs:73-75`, `docs/KNOWN-ISSUES.md:55-57`).
- `StorageShort.cfg`, `CopiesFileSize`: a chain shorter than the file gives a
  short read without an error (`fat.rs:365`, against 336-337).

The endpoint's passing run therefore has one receiver, which outlives its senders.
Met on the way and not checked: a cluster larger than one request is rejected
only when read (`fat.rs:206-213`, 358-361); `sys_recv` delivers three of a
message's four words; a panic before `assign_slot(0)` prints nothing; the panic
path allocates before its message (`describe_stack_addr`); `ring0_reschedule`
does not look at `evict_request`; a killer that times out clears `evict_request`
whoever's request it is by then.

One disagreement is settled the other way. `scheduler.rs:2075-2081` says that a
cross-core eviction "still races this core's own CR3 switch [...] not yet closed",
and 1516-1520 that this "isn't covered yet"; 1301-1318 and ADR 0018 say that it is
closed. The code agrees with the latter: `switch_to` and the idle trampoline load
CR3 before `SCHEDULER` is released, and a killer needs that lock to see the core
gone. `Cr3Live`, evictions included, holds in `sched` and is proved
(`AddressSpaceSafety`): the two comments are out of date.

### Bounds

`MaxPids` caps the pids ever handed out, boot's share set aside.
`MaxGeneration` caps the reuses of a slot: two generations are what a stale pid
needs to meet a new process. The code treats all indices alike, and a kill chain,
a full table or a race for a slot needs no more than three. Two cores are a
killer and its victim's core; three-core kill chains are covered by the proofs.
A queue of 2 fills up and `MaxSends` = 2 gives an order to get wrong. Disks,
sectors, pages and FAT entries are the smallest in which every field still
crosses a boundary. `MaxFaults`, `MaxPrints`, `MaxBytes` and `MaxTotal` cap what
the environment does, `Evictable` the cores that may become deaf in `Panic`.
Among the `Ops`, "nested" lets processes with a live parent spawn and exit, "full"
lets a spawn meet a full table, "share" lets an endpoint have two receivers, and
"timeout" or "retry" lets a kill time out, the latter only when its IPI was taken.
Without "nested" a child only kills and is killed, as in `sched_live`. Deadlock
checking is off where the model may stop: all cores halted, all generations used,
all messages sent, a terminal panic.

### Fairness

A core in the kernel keeps executing: interrupts are masked there and nothing it
waits for is unbounded, spinning included (`WF` of its steps). The periodic timer
ends a `hlt`, where it reaches the core. A timer interrupt or IPI stays latched in
the LAPIC until ring 3 is reached, hence strong fairness for the tick and the
evicting IPI; both are enabled only while the LAPIC lets them through (`Ticks`,
`~unacked`), so nothing is assumed of a core that never sent its EOI. That some
core still rotates the queue then rests on the boot core's PIT. `NoSleepThroughWork`
speaks of a notification that is pending; that the sleeper takes it is `ReadyRuns`.
The kill loop
repeats its scan until it succeeds, hence strong fairness for its successful
exits (`KillSpinDone`, `KillFinalize`); its time-out fires in `sched_live` only as
the `retry` operation, once a round. A spinlock that is free again and again is
taken in the end (`SF` of `take`). System calls are never forced, nor is an AP's
arrival. The executor keeps being drained by idle cores and ticks. The disk
answers; the driver's poll has no bound of its own.

## Proofs

### Scheduler

From `SchedulerAssumption` (at least one slot, a boot core among the cores, `None`
apart from everything) for any set of cores and any `MaxProcesses`,
`MaxGeneration`, `MaxPids`, `Boot` and `Ops`:

`SchedulerProofs` proves `Spec => []SchedulerInv` and from it `TypeCorrectness`,
`DispatchSafety` (`switch_to`'s assertions never fire), `KillSafety` (a kill
finalizes the process its caller was allowed to kill), `WakeSafety` (the
scheduler loses no wake: while a process is blocked exactly one child, endpoint or
waking core holds its pid, or a shared endpoint has dropped it; and no wake survives
into a later block), `NobodyDropped` (without endpoints shared by two receivers
nobody is dropped) and `TableSafety` (reservations have one owner, live children live parents). That the
holder will come round to the wake is not claimed: a sender whose receiver never
receives waits for ever.
`DispatchSafe` is not inductive. That a finalized process leaves no trace in the
queue or on a core needs that the killer's slot is still its target's
(`KillHitsTarget`), which needs that the target's parent is the killer and is
alive (`ParentIsLive`), that a slot under construction has one owner
(`ReservationOwned`) and that a core in a system call has a current process
(`CurrentInKernel`). That a wake queues a process once needs that whoever a child
or an endpoint records is blocked, or about to block without a pending wake
(`WaiterIsBlocked`, `IpcWaiterWaits`). `Known` keeps references to dead processes
apart from later processes in the same slot.

`SchedulerSafety` proves `Spec => []SafetyInv`, the rest of what the run `sched`
checks, on top of `SchedulerInv`:

| Theorem | Property | What the induction needs besides |
|---|---|---|
| `NothingIsLost` | `NoProcessLost` | a request to evict is in force only while its killer waits (`EvictionIsWanted`), so an evicted process always has someone to finalize it |
| `StackReuseSafety` | `StackBusyProtects` | a core has a stack to give back only between the switch and the tail that clears it, and the process it was is current nowhere (`OutgoingHasLeft`), so it cannot exit a second time |
| `AddressSpaceSafety` | `Cr3Live` | a core's CR3 is its current process's, or that of the process it extracted and has not dropped (`Cr3Follows`), with `IdleHasNone` |
| `NoLostWakeup` | `NoSleepThroughWork` | a sleeping core has announced itself (`SleeperIsIdle`), and every push to the queue is followed by a notification (`WorkIsAnnounced`) |
| `HaltSafety` | `HaltedMeansDone` | once boot has spawned everything an empty table stays empty: whoever could spawn would be in it |

and two action properties: `PidsAreNotReused` (a pid that has left the table never
names a live process again) and `EvictedNeverRuns` (between eviction and
finalization no step of any core brings the process back).

The proof goes conjunct by conjunct. `SchedulerSteps` has the facts about queues
and dispatch and the type invariant; `SchedulerTable` reservations, parents and
kills; `SchedulerProofs` the waiters and their wakers;
`SchedulerSafety` the control flow of a core (`FlowLemma`), then queue, stacks,
address spaces, sleep and halt. TLC checks the invariant, strengthenings included,
in `sched`.

### Memory

From `FrameAssumption` and `MemoryAssumption` (at least one process, a fan-out and
a page size of at least one, powers of the fan-out that multiply as powers do,
a page-aligned heap and a stack that lie in the user half, `None` not a number) for
any set of cores, processes, frames, images and capabilities, `MemoryProofs` proves
`Spec => []MemoryInv` and from it:

| Theorem | Property | Code behaviour |
|---|---|---|
| `GrantSafety` | `AuthorityBounded` | `sys_grant` reads the caller's capability and inserts it into the child under two critical sections; between them other grants, starts, kills and exits happen, and still no process holds what its live parent or boot does not cover |
| `GapSafety` | `GapIsSafe` | the loader and `sys_sbrk` map page by page without the scheduler's lock; the process they work on stays where it was, with its PML4 |
| `FrameSafety` | `FramesAccounted` | `map_to`, the loader, `sys_sbrk` and `Drop` move frames one by one between bitmap, hands and trees on several cores; none gets two owners |
| `WalkSafety` | `TablesOutliveEntries` | `free_table_subtree` returns a table only after what hangs below it |
| `HeapSafety` | `HeapBacked` | a `sys_sbrk` that fails halfway leaves the break where it was, and a repeated one meets the pages already there |

None is inductive. A grant is safe because its target is a suspended child of
the caller: that needs `ParentLives` (only started processes that are not
finalized have children) and `CapsHeld` (a slot outside the table holds nothing, so
a new process starts empty). A gap is safe because a process under construction
is in one core's hands only (`HandsApart`), on behalf of the process whose call
that is (`BuiltForCaller`: a killer cannot finalize it, since the caller is its
parent and is running), and because what a core runs no other core runs
(`CurrentRuns`). `CallInProgress` says what each place of a call has in hand, and
`RootThere` that a process in the table has its PML4. `BuiltForCaller` was found by
the proof: without it `kill_finish` can meet a half-built child.

The last three rest on `SpaceInvariance`, an induction over `SpaceInv` together with
the ledger of frames (`Ledger`: a frame is free, or one node of one tree, or in one
hand, or lost) and the order of tables. Every step is first shown to be one of six
moves of a frame (`Move`: stay, take, build, enter, lose, free); ledger and order are
then preserved move by move. `SpaceEmpty` says that a tree starts empty, `HeapGrows`
that the pages a growing heap still lacks are those its `sys_sbrk` has yet to map.

`MemoryProofs` begins with the operators (the frame a scan returns, the page tables a
page needs, the next node to free, page arithmetic), goes on with the steps that leave
the process table alone, and ends with spawn, tear-down, publication, grant, start,
dispatch, exit and kill.

### Ring buffer

`RingBufferProofs` proves for every capacity that exactly the live window of the
array holds values (`WindowInvariance`) and that the ring implements `BoundedFifo`
(`RefinesFifo`), from lemmas about `Wrap` (`% N`).

### Panic

`PanicProofs` proves `OneReporter` for any number of cores, locks and faults: that
a core past `claim_panic_reporter` is the elected one, and that no core is told to
stop before the election, is carried along with the types.

### Only model-checked

Liveness: `ENABLED` and fairness are outside what the installed provers do. The
properties of `Storage`, whose reference walk is a recursive operator. Those of
`Endpoint`, `Console`, `Machine` and `Scenarios`. The generation of a
slot is unbounded in the proofs' reading of `MaxGeneration` and 32 bits wide in the
code: a wrap needs 2^32 spawns in one slot.

## Not modelled

Register save and restore, descriptor-table contents, timer calibration, PCI
configuration accesses one by one, the decoding of ELF headers, the kernel heap's
and the user runtime's allocators (libraries), log wording, and the host-side
build.
