------------------------------ MODULE Scheduler ------------------------------
(***************************************************************************)
(* The process table, ready queue and per-core dispatch state of           *)
(* kernel/src/task/scheduler.rs, and the way every core moves through it.  *)
(*                                                                         *)
(* One step is one critical section of the SCHEDULER spinlock, or one      *)
(* store to a per-core atomic that another core reads without the lock.    *)
(* System calls and interrupt handlers run with interrupts masked (SFMASK  *)
(* and the interrupt gates clear IF), so a core takes the timer and the    *)
(* reschedule IPI only in ring 3 (pc "user") or in the idle loop.          *)
(***************************************************************************)
EXTENDS Integers, Sequences, FiniteSets

CONSTANTS
    Core,            \* the cores that boot and reach ap_enter_scheduler
    Bsp,             \* the core that boots, spawns the first processes and has the PIT
    MaxProcesses,    \* MAX_PROCESSES, the length of the process table
    MaxGeneration,   \* bound of the model on the slots' generation counters
    MaxPids,         \* bound of the model on the pids ever handed out
    Boot,            \* how many processes boot spawns
    Ops,             \* the system calls the processes of this instance make
    None             \* Option::None

Index == 0..(MaxProcesses - 1)
Pid == [index : Index, generation : Nat]
PidAt(i, g) == [index |-> i, generation |-> g]

\* allocate_pid's answer when no slot is free.
OutOfRange == PidAt(MaxProcesses, 0)

\* The pids a process may name in a system call: any index, any generation.
Target == [index : Index, generation : 1..MaxGeneration]

ASSUME SchedulerAssumption ==
    /\ MaxProcesses \in Nat \ {0}
    /\ Boot \in Nat /\ MaxGeneration \in Nat /\ MaxPids \in Nat
    /\ Bsp \in Core
    /\ None \notin Pid /\ None \notin Index /\ None \notin Core
    /\ None # OutOfRange

VARIABLES
    slot,            \* Inner.processes: the variant of every table slot
    gen,             \* Inner.generations
    state,           \* Process.state of an occupied slot, "Gone" otherwise
    parent,          \* Process.parent, or Slot::Zombie.parent
    wait_waiter,     \* Process.wait_waiter
    pending_wake,    \* Process.pending_wake.is_some()
    ready,           \* Inner.ready
    current,         \* Inner.current (and its mirror PerCpu.current)
    stack_busy,      \* STACK_BUSY
    idle,            \* PerCpu.idle
    evict_request,   \* PerCpu.evict_request
    ipi,             \* a reschedule IPI is pending at the core's LAPIC
    unacked,         \* an evicting IPI of this core never reached its lapic::eoi
    registered,      \* pids an endpoint records as waiting
    forgotten,       \* history: pids an endpoint dropped without waking them
    pc,              \* where the core's kernel code is
    back,            \* where the core continues after a wake
    arg,             \* the pid its system call works on
    peer,            \* the core terminate_process waits for
    stack,           \* index of the kernel stack the core is executing on
    cr3,             \* the pid whose address space is active, None for the idle one
    outgoing,        \* switch_to_next_or_halt's outgoing_index (as a pid)
    drops,           \* pending_drops: processes extracted and not yet dropped
    halts,           \* idle_loop_on_own_stack was given a halt message
    spawned          \* how many processes boot has spawned so far

tableVars == <<slot, gen, parent, wait_waiter>>
dispatchVars == <<ready, current, state, cr3>>
flowVars == <<pc, stack, halts>>
killVars == <<arg, peer, evict_request>>
exitVars == <<outgoing, drops, stack_busy>>
wakeVars == <<pending_wake, ipi, idle>>
ipcVars == <<registered, forgotten, back>>
bootVars == <<spawned, unacked>>
vars == <<tableVars, dispatchVars, flowVars, killVars, exitVars, wakeVars, ipcVars, bootVars>>

Elems(q) == {q[k] : k \in 1..Len(q)}
Distinct(q) == \A k, m \in 1..Len(q) : q[k] = q[m] => k = m
Queued == Elems(ready)

\* Mutant of Occupied: the generation is not compared.
OccupiedAnyGeneration(p) == p.index \in Index /\ slot[p.index] = "Occupied"

\* occupied_mut finds the process.
Occupied(p) ==
    /\ p.index \in Index
    /\ gen[p.index] = p.generation
    /\ slot[p.index] = "Occupied"

\* Mutant of notify_idle_cores: nobody is interrupted.
NotifyNobody == ipi

\* The cores notify_idle_cores interrupts get the IPI, the others keep theirs.
notify_idle_cores == [c \in Core |-> ipi[c] \/ idle[c]]

(***************************************************************************)
(* Boot: bring_up_aps has sent the other cores into their idle loops,      *)
(* without a halt message; the BSP is about to spawn the first processes.  *)
(***************************************************************************)
Init ==
    /\ slot = [i \in Index |-> "Empty"]
    /\ gen = [i \in Index |-> 0]
    /\ state = [i \in Index |-> "Gone"]
    /\ parent = [i \in Index |-> None]
    /\ wait_waiter = [i \in Index |-> None]
    /\ pending_wake = [i \in Index |-> FALSE]
    /\ ready = <<>>
    /\ current = [c \in Core |-> None]
    /\ stack_busy = [i \in Index |-> FALSE]
    /\ idle = [c \in Core |-> FALSE]
    /\ evict_request = [c \in Core |-> None]
    /\ ipi = [c \in Core |-> FALSE]
    /\ unacked = [c \in Core |-> FALSE]
    /\ registered = {}
    /\ forgotten = {}
    /\ pc = [c \in Core |-> IF c = Bsp THEN "boot" ELSE "idle"]
    /\ back = [c \in Core |-> "user"]
    /\ arg = [c \in Core |-> None]
    /\ peer = [c \in Core |-> None]
    /\ stack = [c \in Core |-> None]
    /\ cr3 = [c \in Core |-> None]
    /\ outgoing = [c \in Core |-> None]
    /\ drops = [c \in Core |-> {}]
    /\ halts = [c \in Core |-> FALSE]
    /\ spawned = 0

(***************************************************************************)
(* Dispatch.                                                               *)
(***************************************************************************)

\* Makes p current on core c and activates its address space; st is the
\* processes' state so far in this critical section.
switch_to(c, p, st) ==
    /\ current' = [current EXCEPT ![c] = p]
    /\ state' = [st EXCEPT ![p.index] = "Running"]
    /\ cr3' = [cr3 EXCEPT ![c] = p]

\* Pops the next process of queue q and keeps running on kernel stack k until
\* the return to ring 3, or switches to the idle stack and the idle address
\* space before it lets the lock go.
switch_to_next_or_halt(c, q, st, k, dead) ==
    \/ /\ q # <<>>
       /\ ready' = Tail(q)
       /\ switch_to(c, Head(q), st)
       /\ pc' = [pc EXCEPT ![c] = IF dead = {} THEN "drain" ELSE "drop"]
       /\ stack' = [stack EXCEPT ![c] = k]
       /\ UNCHANGED halts
    \/ /\ q = <<>>
       /\ ready' = q
       /\ current' = [current EXCEPT ![c] = None]
       /\ state' = st
       /\ cr3' = [cr3 EXCEPT ![c] = None]
       /\ pc' = [pc EXCEPT ![c] = "abandon"]
       /\ stack' = [stack EXCEPT ![c] = None]
       /\ halts' = [halts EXCEPT ![c] = TRUE]

\* Mutant of on_timer_tick: the preempted process goes to the queue's front.
TickToFront(c) ==
    /\ pc[c] = "user"
    /\ switch_to(c, current[c], state)
    /\ stack' = [stack EXCEPT ![c] = current[c].index]
    /\ pc' = [pc EXCEPT ![c] = "drain"]
    /\ UNCHANGED <<tableVars, ready, halts, killVars, exitVars, wakeVars, ipcVars, bootVars>>

\* Requeue the current process, dispatch the next. The slot of a current process
\* is occupied, so the queue is never empty here.
on_timer_tick(c) ==
    /\ pc[c] = "user"
    /\ LET p == current[c]
           q == Append(ready, p)
       IN  /\ ready' = Tail(q)
           /\ switch_to(c, Head(q), [state EXCEPT ![p.index] = "Ready"])
           /\ stack' = [stack EXCEPT ![c] = p.index]
    /\ pc' = [pc EXCEPT ![c] = "drain"]
    /\ UNCHANGED <<tableVars, halts, killVars, exitVars, wakeVars, ipcVars, bootVars>>

on_syscall_yield(c) == on_timer_tick(c)

\* The BSP's timer is the PIT, which the legacy PIC delivers whatever its LAPIC has
\* in service. An AP's is its LAPIC's, of the same priority class as the IPI.
Ticks(c) == c = Bsp \/ ~unacked[c]

\* A timer interrupt in ring 3.
ring3_timer_tick(c) == Ticks(c) /\ on_timer_tick(c)

\* finish_switch drops the extracted processes once CR3 has moved.
DropPending(c) ==
    /\ pc[c] = "drop"
    /\ drops' = [drops EXCEPT ![c] = {}]
    /\ pc' = [pc EXCEPT ![c] = "drain"]
    /\ UNCHANGED <<tableVars, dispatchVars, stack, halts, killVars, outgoing, stack_busy,
                   wakeVars, ipcVars, bootVars>>

\* finish_switch, after run_ready_tasks: give the outgoing index back.
ClearStackBusy(c) ==
    /\ pc[c] = "drain" /\ outgoing[c] # None
    /\ stack_busy' = [stack_busy EXCEPT ![outgoing[c].index] = FALSE]
    /\ outgoing' = [outgoing EXCEPT ![c] = None]
    /\ pc' = [pc EXCEPT ![c] = "return"]
    /\ UNCHANGED <<tableVars, dispatchVars, stack, halts, killVars, drops, wakeVars, ipcVars, bootVars>>

\* The entry stub's tail: load the dispatched frame and iretq off the stack.
Resume(c) ==
    /\ pc[c] = "return" \/ (pc[c] = "drain" /\ outgoing[c] = None)
    /\ pc' = [pc EXCEPT ![c] = "user"]
    /\ stack' = [stack EXCEPT ![c] = None]
    /\ UNCHANGED <<tableVars, dispatchVars, halts, killVars, exitVars, wakeVars, ipcVars, bootVars>>

(***************************************************************************)
(* The idle loop.                                                          *)
(***************************************************************************)

\* idle_loop_trampoline, on the idle stack with the lock released.
Abandoned(c) ==
    /\ pc[c] = "abandon"
    /\ stack_busy' = IF outgoing[c] = None THEN stack_busy
                     ELSE [stack_busy EXCEPT ![outgoing[c].index] = FALSE]
    /\ outgoing' = [outgoing EXCEPT ![c] = None]
    /\ drops' = [drops EXCEPT ![c] = {}]
    /\ pc' = [pc EXCEPT ![c] = "idle"]
    /\ UNCHANGED <<tableVars, dispatchVars, stack, halts, killVars, wakeVars, ipcVars, bootVars>>

\* One iteration of idle_loop_on_own_stack finds a ready process.
IdleDispatch(c) ==
    /\ pc[c] = "idle" /\ ready # <<>>
    /\ ready' = Tail(ready)
    /\ switch_to(c, Head(ready), state)
    /\ pc' = [pc EXCEPT ![c] = "user"]
    /\ UNCHANGED <<tableVars, stack, halts, killVars, exitVars, wakeVars, ipcVars, bootVars>>

all_processes_empty == \A i \in Index : slot[i] = "Empty"

\* permanent_halt; a halt that came while boot still had processes to spawn is told
\* apart from the others.
Halt == IF spawned = Boot THEN "halted" ELSE "early"

\* Mutants of IdleNothingReady: halt while processes are still blocked; never
\* halt.
HaltTooEarly(c) ==
    /\ pc[c] = "idle" /\ ready = <<>>
    /\ pc' = [pc EXCEPT ![c] = IF halts[c] THEN Halt ELSE "park"]
    /\ UNCHANGED <<tableVars, dispatchVars, stack, halts, killVars, exitVars, wakeVars, ipcVars, bootVars>>

ParkForever(c) ==
    /\ pc[c] = "idle" /\ ready = <<>>
    /\ pc' = [pc EXCEPT ![c] = "park"]
    /\ UNCHANGED <<tableVars, dispatchVars, stack, halts, killVars, exitVars, wakeVars, ipcVars, bootVars>>

\* One iteration finds nothing ready: halt for good, or park.
IdleNothingReady(c) ==
    /\ pc[c] = "idle" /\ ready = <<>>
    /\ pc' = [pc EXCEPT ![c] = IF halts[c] /\ all_processes_empty THEN Halt ELSE "park"]
    /\ UNCHANGED <<tableVars, dispatchVars, stack, halts, killVars, exitVars, wakeVars, ipcVars, bootVars>>

\* park_until_woken: the first look at the queue, with interrupts off.
ParkCheck(c) ==
    /\ pc[c] = "park"
    /\ pc' = [pc EXCEPT ![c] = IF ready = <<>> THEN "announce" ELSE "idle"]
    /\ UNCHANGED <<tableVars, dispatchVars, stack, halts, killVars, exitVars, wakeVars, ipcVars, bootVars>>

\* park_until_woken: publish that this core is about to sleep.
ParkAnnounce(c) ==
    /\ pc[c] = "announce"
    /\ idle' = [idle EXCEPT ![c] = TRUE]
    /\ pc' = [pc EXCEPT ![c] = "recheck"]
    /\ UNCHANGED <<tableVars, dispatchVars, stack, halts, killVars, exitVars, pending_wake, ipi, ipcVars, bootVars>>

\* park_until_woken: look again, then sti; hlt.
ParkRecheck(c) ==
    /\ pc[c] = "recheck"
    /\ idle' = [idle EXCEPT ![c] = (ready = <<>>)]
    /\ pc' = [pc EXCEPT ![c] = IF ready = <<>> THEN "hlt" ELSE "idle"]
    /\ UNCHANGED <<tableVars, dispatchVars, stack, halts, killVars, exitVars, pending_wake, ipi, ipcVars, bootVars>>

\* A reschedule IPI that lands in ring 0: end of interrupt, nothing else. It
\* ends a hlt.
Ring0Reschedule(c) ==
    /\ pc[c] \in {"idle", "hlt"} /\ ipi[c] /\ ~unacked[c]
    /\ ipi' = [ipi EXCEPT ![c] = FALSE]
    /\ idle' = [idle EXCEPT ![c] = FALSE]
    /\ pc' = [pc EXCEPT ![c] = "idle"]
    /\ UNCHANGED <<tableVars, dispatchVars, stack, halts, killVars, exitVars, pending_wake, ipcVars, bootVars>>

\* The periodic timer ends a hlt.
Ring0Timer(c) ==
    /\ pc[c] = "hlt" /\ Ticks(c)
    /\ idle' = [idle EXCEPT ![c] = FALSE]
    /\ pc' = [pc EXCEPT ![c] = "idle"]
    /\ UNCHANGED <<tableVars, dispatchVars, stack, halts, killVars, exitVars, pending_wake, ipi, ipcVars, bootVars>>

(***************************************************************************)
(* Boot, SYS_SPAWN and SYS_PROCESS_START.                                  *)
(***************************************************************************)

\* Mutant of FreeIndex: a stack still in use does not count.
FreeIndexAnyStack(i) == slot[i] = "Empty"

\* A core that has a pid and builds its process: for SYS_SPAWN, or at boot.
Building == {"build", "create"}

\* The first free slot whose kernel stack nobody is still leaving.
FreeIndex(i) == slot[i] = "Empty" /\ ~stack_busy[i]

\* The bounds of the model on the pids SYS_SPAWN hands out; boot's share is set aside.
PidsLeft ==
    /\ Cardinality({p \in Target : p.generation <= gen[p.index]}) + (Boot - spawned) < MaxPids
    /\ \A i \in Index : FreeIndex(i) => gen[i] < MaxGeneration

\* A bound of the model on who spawns and exits: without "nested", a process whose
\* parent is alive leaves that to its parent.
Independent(p) == "nested" \in Ops \/ parent[p.index] = None

\* Reserves the slot and leaves the pid, or an out-of-range one, in arg[c].
allocate_pid(c) ==
    /\ \/ \E i \in Index :
            /\ FreeIndex(i) /\ \A j \in Index : FreeIndex(j) => i <= j
            /\ gen' = [gen EXCEPT ![i] = @ + 1]
            /\ slot' = [slot EXCEPT ![i] = "Reserved"]
            /\ arg' = [arg EXCEPT ![c] = PidAt(i, gen[i] + 1)]
       \/ /\ \A i \in Index : ~FreeIndex(i)
          /\ arg' = [arg EXCEPT ![c] = OutOfRange]
          /\ UNCHANGED <<gen, slot>>
    /\ UNCHANGED <<parent, wait_waiter, dispatchVars, halts, peer, evict_request, exitVars,
                   wakeVars, ipcVars, bootVars>>

\* SYS_SPAWN.
sys_spawn(c) ==
    /\ pc[c] = "user" /\ "spawn" \in Ops /\ Independent(current[c])
    /\ PidsLeft \/ ("full" \in Ops /\ \A i \in Index : ~FreeIndex(i))
    /\ allocate_pid(c)
    /\ pc' = [pc EXCEPT ![c] = "build"]
    /\ stack' = [stack EXCEPT ![c] = current[c].index]

\* The next process boot creates, on its own stack and with no process current.
boot_allocates(c) ==
    /\ pc[c] = "boot" /\ spawned < Boot
    /\ allocate_pid(c)
    /\ pc' = [pc EXCEPT ![c] = "create"]
    /\ UNCHANGED stack

\* Boot's process enters the table without a parent, and the queue.
spawn(c) ==
    /\ pc[c] = "create" /\ arg[c].index \in Index
    /\ LET i == arg[c].index
       IN  /\ slot' = [slot EXCEPT ![i] = "Occupied"]
           /\ state' = [state EXCEPT ![i] = "Ready"]
           /\ parent' = [parent EXCEPT ![i] = None]
           /\ wait_waiter' = [wait_waiter EXCEPT ![i] = None]
           /\ pending_wake' = [pending_wake EXCEPT ![i] = FALSE]
    /\ ready' = Append(ready, arg[c])
    /\ arg' = [arg EXCEPT ![c] = None]
    /\ pc' = [pc EXCEPT ![c] = "publish"]
    /\ spawned' = spawned + 1
    /\ UNCHANGED <<gen, current, cr3, stack, halts, peer, evict_request, exitVars, ipi, idle, ipcVars,
                   unacked>>

\* spawn's notify_idle_cores, after the lock is released.
SpawnNotify(c) ==
    /\ pc[c] = "publish"
    /\ ipi' = notify_idle_cores
    /\ pc' = [pc EXCEPT ![c] = "boot"]
    /\ UNCHANGED <<tableVars, dispatchVars, stack, halts, killVars, exitVars, pending_wake, idle, ipcVars,
                   bootVars>>

\* Boot has spawned everything: the BSP enters its idle loop like any other core.
start(c) ==
    /\ pc[c] = "boot" /\ spawned = Boot
    /\ pc' = [pc EXCEPT ![c] = "idle"]
    /\ UNCHANGED <<tableVars, dispatchVars, stack, halts, killVars, exitVars, wakeVars, ipcVars, bootVars>>

\* A system call handler of c is done and returns to the process that made it.
ReturnToUser(c) ==
    /\ pc' = [pc EXCEPT ![c] = "user"]
    /\ stack' = [stack EXCEPT ![c] = None]
    /\ arg' = [arg EXCEPT ![c] = None]

\* Process::from_elf failed (bad image or no memory).
release_reservation(c) ==
    /\ pc[c] = "build"
    /\ slot' = IF arg[c].index \in Index /\ gen[arg[c].index] = arg[c].generation
                  /\ slot[arg[c].index] = "Reserved"
               THEN [slot EXCEPT ![arg[c].index] = "Empty"] ELSE slot
    /\ ReturnToUser(c)
    /\ UNCHANGED <<gen, parent, wait_waiter, dispatchVars, halts, peer, evict_request, exitVars,
                   wakeVars, ipcVars, bootVars>>

\* Process::new filled in the trap frame of the pid's index; the child enters
\* the table suspended.
spawn_suspended(c) ==
    /\ pc[c] = "build" /\ arg[c].index \in Index
    /\ LET i == arg[c].index
       IN  /\ slot' = [slot EXCEPT ![i] = "Occupied"]
           /\ state' = [state EXCEPT ![i] = "Suspended"]
           /\ parent' = [parent EXCEPT ![i] = current[c]]
           /\ wait_waiter' = [wait_waiter EXCEPT ![i] = None]
           /\ pending_wake' = [pending_wake EXCEPT ![i] = FALSE]
    /\ ReturnToUser(c)
    /\ UNCHANGED <<gen, ready, current, cr3, halts, peer, evict_request, exitVars, ipi, idle, ipcVars, bootVars>>

\* Process::new writes the initial trap frame of an out-of-range index, which
\* init_trap_frames never mapped: a page fault in ring 0.
TrapFrameFault(c) ==
    /\ pc[c] \in Building /\ arg[c].index \notin Index
    /\ pc' = [pc EXCEPT ![c] = "panicked"]
    /\ UNCHANGED <<tableVars, dispatchVars, stack, halts, killVars, exitVars, wakeVars, ipcVars, bootVars>>

start_child(c) ==
    /\ pc[c] = "user" /\ "start" \in Ops
    /\ \E t \in Target :
         /\ Occupied(t) /\ parent[t.index] = current[c] /\ state[t.index] = "Suspended"
         /\ state' = [state EXCEPT ![t.index] = "Ready"]
         /\ ready' = Append(ready, t)
    /\ pc' = [pc EXCEPT ![c] = "notify"]
    /\ stack' = [stack EXCEPT ![c] = current[c].index]
    /\ UNCHANGED <<tableVars, current, cr3, halts, killVars, exitVars, wakeVars, ipcVars, bootVars>>

\* start_child's notify_idle_cores, after the lock is released.
StartNotify(c) ==
    /\ pc[c] = "notify"
    /\ ipi' = notify_idle_cores
    /\ ReturnToUser(c)
    /\ UNCHANGED <<tableVars, dispatchVars, halts, peer, evict_request, exitVars, pending_wake, idle, ipcVars, bootVars>>

(***************************************************************************)
(* Blocking and waking.                                                    *)
(***************************************************************************)

\* Mutant of BlockAndSwitch: a wake that came early is forgotten.
BlockLosesWake(c) ==
    LET p == current[c]
    IN  /\ pending_wake' = [pending_wake EXCEPT ![p.index] = FALSE]
        /\ switch_to_next_or_halt(c, ready, [state EXCEPT ![p.index] = "Blocked"], p.index, {})
        /\ UNCHANGED ipi

\* block_current_process_locked, then switch_to_next_or_halt: a wake that came
\* between the registration and this point is applied here.
BlockAndSwitch(c) ==
    LET p == current[c]
        woken == pending_wake[p.index]
    IN  /\ pending_wake' = [pending_wake EXCEPT ![p.index] = FALSE]
        /\ ipi' = IF woken THEN notify_idle_cores ELSE ipi
        /\ switch_to_next_or_halt(c, IF woken THEN Append(ready, p) ELSE ready,
             [state EXCEPT ![p.index] = IF woken THEN "Ready" ELSE "Blocked"], p.index, {})

\* SYS_WAIT on a child that already finished.
wait_reaps(c) ==
    /\ pc[c] = "user" /\ "wait" \in Ops
    /\ \E t \in Target :
         /\ gen[t.index] = t.generation /\ slot[t.index] = "Zombie" /\ parent[t.index] = current[c]
         /\ slot' = [slot EXCEPT ![t.index] = "Empty"]
         /\ parent' = [parent EXCEPT ![t.index] = None]
    /\ UNCHANGED <<gen, wait_waiter, dispatchVars, flowVars, killVars, exitVars, wakeVars, ipcVars, bootVars>>

\* SYS_WAIT on a child that is still there: record the waiter and block, in
\* one critical section.
wait_blocks(c) ==
    /\ pc[c] = "user" /\ "wait" \in Ops
    /\ \E t \in Target :
         /\ Occupied(t) /\ parent[t.index] = current[c]
         /\ wait_waiter' = [wait_waiter EXCEPT ![t.index] = current[c]]
    /\ BlockAndSwitch(c)
    /\ UNCHANGED <<slot, gen, parent, killVars, exitVars, idle, ipcVars, bootVars>>

\* SYS_SEND or SYS_RECV left the caller's pid with an endpoint: the endpoint's
\* lock is released, the scheduler's not yet taken.
RegisterWaiter(c) ==
    /\ pc[c] = "user" /\ "ipc" \in Ops
    /\ registered' = registered \union {current[c]}
    /\ pc' = [pc EXCEPT ![c] = "block"]
    /\ stack' = [stack EXCEPT ![c] = current[c].index]
    /\ UNCHANGED <<tableVars, dispatchVars, halts, killVars, exitVars, wakeVars, forgotten, back,
                   bootVars>>

block_current_process(c) ==
    /\ pc[c] = "block"
    /\ BlockAndSwitch(c)
    /\ UNCHANGED <<tableVars, killVars, exitVars, idle, ipcVars, bootVars>>

\* A system call, a kernel task or wake_orphaned_receivers takes a waiting pid
\* out of an endpoint. Kernel tasks run wherever run_ready_tasks is called.
TakeWaiter(c) ==
    /\ pc[c] \in {"user", "orphans", "drain", "idle", "boot"} /\ "ipc" \in Ops
    /\ \E p \in registered :
         /\ registered' = registered \ {p}
         /\ arg' = [arg EXCEPT ![c] = p]
    /\ back' = [back EXCEPT ![c] = pc[c]]
    /\ pc' = [pc EXCEPT ![c] = "wake"]
    /\ stack' = [stack EXCEPT ![c] = IF pc[c] = "user" THEN current[c].index ELSE @]
    /\ UNCHANGED <<tableVars, dispatchVars, halts, peer, evict_request, exitVars, wakeVars, forgotten,
                   bootVars>>

\* The core goes on after the wake, or without one.
AfterWake(c) ==
    /\ pc' = [pc EXCEPT ![c] = back[c]]
    /\ stack' = [stack EXCEPT ![c] = IF back[c] = "user" THEN None ELSE @]
    /\ arg' = [arg EXCEPT ![c] = None]
    /\ back' = [back EXCEPT ![c] = "user"]

\* wake_receiver receives for the process it took out and finds the message gone:
\* the process is recorded again, or, if another receiver is waiting by now, dropped.
wake_receiver_fails(c) ==
    /\ pc[c] = "wake" /\ "share" \in Ops
    /\ \/ registered' = registered \union {arg[c]} /\ UNCHANGED forgotten
       \/ forgotten' = forgotten \union {arg[c]} /\ UNCHANGED registered
    /\ AfterWake(c)
    /\ UNCHANGED <<tableVars, dispatchVars, halts, peer, evict_request, exitVars, wakeVars, bootVars>>

wake_blocked_process(c) ==
    /\ pc[c] = "wake"
    /\ LET p == arg[c]
           wakes == Occupied(p) /\ state[p.index] = "Blocked"
       IN  /\ state' = IF wakes THEN [state EXCEPT ![p.index] = "Ready"] ELSE state
           /\ ready' = IF wakes THEN Append(ready, p) ELSE ready
           /\ ipi' = IF wakes THEN notify_idle_cores ELSE ipi
           /\ pending_wake' = IF Occupied(p) /\ ~wakes
                              THEN [pending_wake EXCEPT ![p.index] = TRUE] ELSE pending_wake
    /\ AfterWake(c)
    /\ UNCHANGED <<tableVars, current, cr3, halts, peer, evict_request, exitVars, idle, registered, forgotten,
                   bootVars>>

(***************************************************************************)
(* Termination.                                                            *)
(***************************************************************************)

\* Mutant of WithoutPid: the head is removed.
RemoveHead(q, p) == IF q = <<>> THEN q ELSE Tail(q)

\* remove_from_ready_queue; a pid is queued at most once (see DispatchSafe),
\* so this is what filtering the queue gives.
WithoutPid(q, p) ==
    LET at == {k \in 1..Len(q) : q[k] = p}
        first == CHOOSE k \in at : TRUE
    IN  IF at = {} THEN q
        ELSE [k \in 1..(Len(q) - 1) |-> IF k < first THEN q[k] ELSE q[k + 1]]

\* The children p leaves behind that were never started. reap_children_of
\* finalizes them too; they never ran, so they have no children themselves.
OrphanedSuspended(p) ==
    {j \in Index : slot[j] = "Occupied" /\ parent[j] = p /\ state[j] = "Suspended"}

\* The slots whose Process take_and_finalize_slot extracts.
Dying(p) == {p.index} \union OrphanedSuspended(p)

\* A finalized slot stays a zombie while it has a parent and nobody waits for
\* it; p's earlier zombies go.
FinalSlot(p) ==
    [j \in Index |->
        IF j \in Dying(p)
        THEN IF wait_waiter[j] = None /\ parent[j] # None THEN "Zombie" ELSE "Empty"
        ELSE IF slot[j] = "Zombie" /\ parent[j] = p THEN "Empty" ELSE slot[j]]

\* p's other children are left running without a parent.
FinalParent(p) ==
    [j \in Index |->
        IF FinalSlot(p)[j] = "Empty" \/ (j \notin Dying(p) /\ parent[j] = p)
        THEN None ELSE parent[j]]

\* take_and_finalize_slot(p) for an occupied slot p.index, the wake of a
\* process blocked in SYS_WAIT on it included.
take_and_finalize_slot(p) ==
    LET w == wait_waiter[p.index]
        live == w # None /\ Occupied(w)
        wakes == live /\ state[w.index] = "Blocked"
        q == WithoutPid(ready, p)
    IN  /\ slot' = FinalSlot(p)
        /\ parent' = FinalParent(p)
        /\ wait_waiter' = [j \in Index |-> IF j \in Dying(p) THEN None ELSE wait_waiter[j]]
        /\ state' = [j \in Index |-> IF j \in Dying(p) THEN "Gone"
                                     ELSE IF wakes /\ j = w.index THEN "Ready" ELSE state[j]]
        /\ pending_wake' = [j \in Index |-> j \notin Dying(p)
                              /\ (pending_wake[j] \/ (live /\ ~wakes /\ j = w.index))]
        /\ ready' = IF wakes THEN Append(q, w) ELSE q
        /\ current' = [c \in Core |-> IF current[c] = p THEN None ELSE current[c]]
        /\ ipi' = IF wakes THEN notify_idle_cores ELSE ipi
        /\ UNCHANGED gen

\* Mutant of terminate_current_process: the process is dropped on the spot.
ExitDropsAtOnce(c) ==
    /\ pc[c] = "user" /\ "exit" \in Ops /\ Independent(current[c])
    /\ take_and_finalize_slot(current[c])
    /\ stack_busy' = [stack_busy EXCEPT ![current[c].index] = TRUE]
    /\ outgoing' = [outgoing EXCEPT ![c] = current[c]]
    /\ stack' = [stack EXCEPT ![c] = current[c].index]
    /\ pc' = [pc EXCEPT ![c] = "orphans"]
    /\ UNCHANGED <<cr3, halts, drops, killVars, idle, ipcVars, bootVars>>

\* SYS_EXIT or a fault in ring 3: mark the stack busy, finalize the slot.
terminate_current_process(c) ==
    /\ pc[c] = "user" /\ "exit" \in Ops /\ Independent(current[c])
    /\ LET p == current[c]
       IN  /\ take_and_finalize_slot(p)
           /\ stack_busy' = [stack_busy EXCEPT ![p.index] = TRUE]
           /\ outgoing' = [outgoing EXCEPT ![c] = p]
           /\ drops' = [drops EXCEPT ![c] = {PidAt(j, gen[j]) : j \in Dying(p)}]
           /\ stack' = [stack EXCEPT ![c] = p.index]
    /\ pc' = [pc EXCEPT ![c] = "orphans"]
    /\ UNCHANGED <<cr3, halts, killVars, idle, ipcVars, bootVars>>

\* wake_orphaned_receivers has no endpoint left to look at: an exiting core
\* dispatches its next process, a killer drops what it extracted and returns.
OrphansDone(c) ==
    /\ pc[c] = "orphans"
    /\ \/ /\ outgoing[c] # None
          /\ switch_to_next_or_halt(c, ready, state, stack[c], drops[c])
          /\ UNCHANGED <<drops, arg>>
       \/ /\ outgoing[c] = None
          /\ drops' = [drops EXCEPT ![c] = {}]
          /\ ReturnToUser(c)
          /\ UNCHANGED <<dispatchVars, halts>>
    /\ UNCHANGED <<tableVars, peer, evict_request, outgoing, stack_busy, wakeVars, ipcVars, bootVars>>

\* terminate_process: may the caller kill this target at all?
KillCheck(c) ==
    /\ pc[c] = "user" /\ "kill" \in Ops
    /\ \E t \in Target :
         /\ Occupied(t) /\ parent[t.index] = current[c]
         /\ arg' = [arg EXCEPT ![c] = t]
    /\ pc' = [pc EXCEPT ![c] = "scan"]
    /\ stack' = [stack EXCEPT ![c] = current[c].index]
    /\ UNCHANGED <<tableVars, dispatchVars, halts, peer, evict_request, exitVars, wakeVars, ipcVars, bootVars>>

\* terminate_process finds a core running the target.
KillScanFound(c) ==
    /\ pc[c] = "scan"
    /\ \E d \in Core :
         /\ current[d] = arg[c]
         /\ peer' = [peer EXCEPT ![c] = d]
    /\ pc' = [pc EXCEPT ![c] = "evict"]
    /\ UNCHANGED <<tableVars, dispatchVars, stack, halts, arg, evict_request, exitVars, wakeVars, ipcVars, bootVars>>

\* No core runs the target: whatever occupies its slot is finalized.
KillFinalize(c) ==
    /\ pc[c] = "scan" /\ \A d \in Core : current[d] # arg[c]
    /\ slot[arg[c].index] = "Occupied"
    /\ take_and_finalize_slot(arg[c])
    /\ drops' = [drops EXCEPT ![c] = {PidAt(j, gen[j]) : j \in Dying(arg[c])}]
    /\ arg' = [arg EXCEPT ![c] = None]
    /\ pc' = [pc EXCEPT ![c] = "orphans"]
    /\ UNCHANGED <<cr3, stack, halts, peer, evict_request, outgoing, stack_busy, idle, ipcVars, bootVars>>

\* The target finished by itself in the meantime.
KillAlreadyGone(c) ==
    /\ pc[c] = "scan" /\ \A d \in Core : current[d] # arg[c]
    /\ slot[arg[c].index] # "Occupied"
    /\ ReturnToUser(c)
    /\ UNCHANGED <<tableVars, dispatchVars, halts, peer, evict_request, exitVars, wakeVars, ipcVars, bootVars>>

\* Mutant of KillSendEvict: the request is stored, the IPI not sent.
KillWithoutIpi(c) ==
    /\ pc[c] = "evict"
    /\ evict_request' = [evict_request EXCEPT ![peer[c]] = arg[c]]
    /\ pc' = [pc EXCEPT ![c] = "spin"]
    /\ UNCHANGED <<tableVars, dispatchVars, stack, halts, arg, peer, exitVars, wakeVars, ipcVars, bootVars>>

\* Ask the owning core to give the target up.
KillSendEvict(c) ==
    /\ pc[c] = "evict"
    /\ evict_request' = [evict_request EXCEPT ![peer[c]] = arg[c]]
    /\ ipi' = [ipi EXCEPT ![peer[c]] = TRUE]
    /\ pc' = [pc EXCEPT ![c] = "spin"]
    /\ UNCHANGED <<tableVars, dispatchVars, stack, halts, arg, peer, exitVars, pending_wake, idle, ipcVars, bootVars>>

\* The owning core no longer runs the target: scan again.
KillSpinDone(c) ==
    /\ pc[c] = "spin" /\ current[peer[c]] # arg[c]
    /\ peer' = [peer EXCEPT ![c] = None]
    /\ pc' = [pc EXCEPT ![c] = "scan"]
    /\ UNCHANGED <<tableVars, dispatchVars, stack, halts, arg, evict_request, exitVars, wakeVars, ipcVars, bootVars>>

\* TIMEOUT_SPINS ran out with the target still there.
KillTimeout(c) ==
    /\ pc[c] = "spin" /\ current[peer[c]] = arg[c]
    /\ "timeout" \in Ops \/ ("retry" \in Ops /\ ~ipi[peer[c]])
    /\ pc' = [pc EXCEPT ![c] = "giveup"]
    /\ UNCHANGED <<tableVars, dispatchVars, stack, halts, killVars, exitVars, wakeVars, ipcVars, bootVars>>

\* Withdraw the request, whatever it names by now, and scan again.
KillWithdraw(c) ==
    /\ pc[c] = "giveup"
    /\ evict_request' = [evict_request EXCEPT ![peer[c]] = None]
    /\ peer' = [peer EXCEPT ![c] = None]
    /\ pc' = [pc EXCEPT ![c] = "scan"]
    /\ UNCHANGED <<tableVars, dispatchVars, stack, halts, arg, exitVars, wakeVars, ipcVars, bootVars>>

\* The IPI finds a request for the process this core runs: give it up. With nothing
\* else to run the handler does not come back to ring3_reschedule's lapic::eoi, and
\* the LAPIC holds back every later interrupt of the IPI's priority class.
on_reschedule_ipi_evicts(c) ==
    /\ pc[c] = "user" /\ ipi[c] /\ ~unacked[c]
    /\ evict_request[c] # None /\ evict_request[c] = current[c]
    /\ LET p == current[c]
       IN  /\ stack_busy' = [stack_busy EXCEPT ![p.index] = TRUE]
           /\ outgoing' = [outgoing EXCEPT ![c] = p]
           /\ switch_to_next_or_halt(c, ready, state, p.index, {})
    /\ evict_request' = [evict_request EXCEPT ![c] = None]
    /\ ipi' = [ipi EXCEPT ![c] = FALSE]
    /\ unacked' = [unacked EXCEPT ![c] = (ready = <<>>)]
    /\ UNCHANGED <<tableVars, arg, peer, drops, pending_wake, idle, ipcVars, spawned>>

\* The IPI finds no request, or one for a process that moved on: the request
\* is consumed all the same.
on_reschedule_ipi_ignores(c) ==
    /\ pc[c] = "user" /\ ipi[c] /\ ~unacked[c]
    /\ evict_request[c] = None \/ evict_request[c] # current[c]
    /\ evict_request' = [evict_request EXCEPT ![c] = None]
    /\ ipi' = [ipi EXCEPT ![c] = FALSE]
    /\ UNCHANGED <<tableVars, dispatchVars, flowVars, arg, peer, exitVars, pending_wake, idle, ipcVars, bootVars>>

(***************************************************************************)
(* The specification.                                                      *)
(***************************************************************************)

\* What a core does next by itself once it is in the kernel.
KernelStep(c) ==
    \/ DropPending(c) \/ ClearStackBusy(c) \/ Resume(c) \/ Abandoned(c)
    \/ IdleDispatch(c) \/ IdleNothingReady(c)
    \/ ParkCheck(c) \/ ParkAnnounce(c) \/ ParkRecheck(c)
    \/ boot_allocates(c) \/ spawn(c) \/ SpawnNotify(c) \/ start(c)
    \/ release_reservation(c) \/ spawn_suspended(c) \/ TrapFrameFault(c) \/ StartNotify(c)
    \/ block_current_process(c) \/ wake_blocked_process(c) \/ wake_receiver_fails(c)
    \/ OrphansDone(c)
    \/ KillScanFound(c) \/ KillFinalize(c) \/ KillAlreadyGone(c)
    \/ KillSendEvict(c) \/ KillSpinDone(c) \/ KillWithdraw(c)

\* An interrupt the core takes.
Interrupt(c) ==
    \/ ring3_timer_tick(c) \/ Ring0Timer(c) \/ Ring0Reschedule(c)
    \/ on_reschedule_ipi_evicts(c) \/ on_reschedule_ipi_ignores(c)

\* A system call the current process makes, or a fault; the moment a waiter is
\* taken from an endpoint; the kill loop giving up on a slow core.
Request(c) ==
    \/ sys_spawn(c) \/ start_child(c) \/ on_syscall_yield(c) \/ wait_reaps(c) \/ wait_blocks(c)
    \/ RegisterWaiter(c) \/ TakeWaiter(c) \/ terminate_current_process(c)
    \/ KillCheck(c) \/ KillTimeout(c)

Next == \E c \in Core : KernelStep(c) \/ Interrupt(c) \/ Request(c)

Spec == Init /\ [][Next]_vars

\* A core inside the kernel keeps executing, and a core whose timer reaches it is
\* woken by it. A pending timer interrupt or IPI stays latched until the core is back
\* in ring 3, so one that the LAPIC does not hold back (Ticks, ~unacked) is taken if
\* ring 3 is reached again and again. A kill spins and scans far more often than ticks
\* move its target from one core to another, so it does not miss for ever the moments
\* when it could go on.
Fairness ==
    \A c \in Core :
        /\ WF_vars(KernelStep(c) \/ KillTimeout(c))
        /\ WF_vars(Ring0Timer(c))
        /\ SF_vars(KillSpinDone(c)) /\ SF_vars(KillFinalize(c))
        /\ SF_vars(ring3_timer_tick(c))
        /\ SF_vars(on_reschedule_ipi_evicts(c))

FairSpec == Spec /\ Fairness

(***************************************************************************)
(* Properties.                                                             *)
(***************************************************************************)

PcValue == {"user", "drop", "drain", "return", "abandon", "idle", "park", "announce", "recheck",
            "hlt", "halted", "early", "boot", "create", "publish", "build", "panicked", "notify",
            "block", "wake", "orphans", "scan", "evict", "spin", "giveup"}

\* Where a core is while it is in terminate_process's loop.
Killing == {"scan", "evict", "spin", "giveup"}

\* Every variable has its type.
TypeOK ==
    /\ slot \in [Index -> {"Empty", "Reserved", "Occupied", "Zombie"}]
    /\ gen \in [Index -> Nat]
    /\ state \in [Index -> {"Gone", "Suspended", "Ready", "Running", "Blocked"}]
    /\ parent \in [Index -> Pid \union {None}]
    /\ wait_waiter \in [Index -> Pid \union {None}]
    /\ pending_wake \in [Index -> BOOLEAN]
    /\ ready \in Seq(Pid)
    /\ current \in [Core -> Pid \union {None}]
    /\ stack_busy \in [Index -> BOOLEAN]
    /\ idle \in [Core -> BOOLEAN]
    /\ evict_request \in [Core -> Pid \union {None}]
    /\ ipi \in [Core -> BOOLEAN]
    /\ unacked \in [Core -> BOOLEAN]
    /\ registered \subseteq Pid
    /\ forgotten \subseteq Pid
    /\ pc \in [Core -> PcValue]
    /\ back \in [Core -> {"user", "orphans", "drain", "idle", "boot"}]
    /\ arg \in [Core -> Pid \union {None, OutOfRange}]
    /\ peer \in [Core -> Core \union {None}]
    /\ stack \in [Core -> Index \union {None}]
    /\ cr3 \in [Core -> Pid \union {None}]
    /\ outgoing \in [Core -> Pid \union {None}]
    /\ drops \in [Core -> SUBSET Pid]
    /\ halts \in [Core -> BOOLEAN]
    /\ spawned \in Nat

\* switch_to's assertions never fire: a queued pid names a live process that is
\* ready, is queued once and is current nowhere; no process is current on two
\* cores; a current process is live and running.
DispatchSafe ==
    /\ Distinct(ready)
    /\ \A p \in Queued : Occupied(p) /\ state[p.index] = "Ready"
    /\ \A c \in Core : current[c] # None =>
         Occupied(current[c]) /\ state[current[c].index] = "Running"
    /\ \A c, d \in Core : current[c] # None /\ current[c] = current[d] => c = d

\* No process is lost: one that is ready is in the queue, and one that is
\* running but current on no core has just been evicted and its killer is still
\* in terminate_process, about to finalize it. Nor is a slot: some core is still
\* building for every reserved one.
NoProcessLost ==
    \A i \in Index :
        LET p == PidAt(i, gen[i])
        IN  /\ slot[i] = "Occupied" /\ state[i] = "Ready" => p \in Queued
            /\ slot[i] = "Occupied" /\ state[i] = "Running" =>
                 \/ \E c \in Core : current[c] = p
                 \/ \E c \in Core : pc[c] \in Killing /\ arg[c] = p
            /\ slot[i] = "Reserved" => \E c \in Core : pc[c] \in Building /\ arg[c].index = i

\* Where p is blocked for IPC: in the table, or on its way there between the
\* endpoint's lock and the scheduler's.
InBlock(p) == \E c \in Core : pc[c] = "block" /\ current[c] = p

\* Core c took p out of an endpoint and is about to wake it.
Waking(c, p) == pc[c] = "wake" /\ arg[c] = p

\* The scheduler loses no blocked process and no wake: the child the process waits
\* for, the endpoint that recorded it or a core that took it from there still holds
\* its pid, or the endpoint itself dropped it. So with a process about to block, unless
\* its wake is already pending. (Whether the holder ever wakes it is the endpoint's
\* business, see Endpoint.)
BlockedIsHeld ==
    \A i \in Index : LET p == PidAt(i, gen[i]) IN
        (slot[i] = "Occupied" /\ state[i] = "Blocked") \/ (InBlock(p) /\ ~pending_wake[i]) =>
            \/ \E j \in Index : wait_waiter[j] = p
            \/ p \in registered
            \/ \E c \in Core : Waking(c, p)
            \/ p \in forgotten

\* And only one of them holds it: a process is never woken twice, and a process
\* that waits for a child is never handed the result of an IPC operation.
OneWaker ==
    /\ \A i, j \in Index : wait_waiter[i] # None /\ Occupied(wait_waiter[i])
                             /\ wait_waiter[i] = wait_waiter[j] => i = j
    /\ \A p \in registered : Occupied(p) =>
         /\ \A j \in Index : wait_waiter[j] # p
         /\ \A c \in Core : ~Waking(c, p)
    /\ \A c \in Core : pc[c] = "wake" /\ Occupied(arg[c]) =>
         /\ \A j \in Index : wait_waiter[j] # arg[c]
         /\ \A d \in Core : Waking(d, arg[c]) => d = c

\* A wake that found its process not yet blocked is kept only until that
\* process blocks: pending_wake is set only while the process's core is between
\* the registration and block_current_process, never for a later, unrelated
\* block.
PendingWakeIsFresh ==
    \A i \in Index : pending_wake[i] => InBlock(PidAt(i, gen[i]))

\* A live child's recorded parent is a live process that has run: reap_children_of
\* leaves no child behind that still names a process that is gone.
ParentIsLive ==
    \A i \in Index : slot[i] = "Occupied" /\ parent[i] # None =>
        Occupied(parent[i]) /\ parent[i].index # i /\ state[parent[i].index] # "Suspended"

\* Two spawners never build a process for the same slot, and the slot a spawner
\* builds for stays reserved under the generation it was given.
ReservationOwned ==
    \A c \in Core : pc[c] \in Building /\ arg[c].index \in Index =>
        /\ slot[arg[c].index] = "Reserved" /\ gen[arg[c].index] = arg[c].generation
        /\ \A d \in Core : pc[d] \in Building /\ arg[d].index = arg[c].index => d = c

\* While a core is still leaving the kernel stack of a process it exited or
\* gave up, the stack's index is marked busy, belongs to that core alone and is
\* not handed to a new process; and no index stays marked for nobody.
StackBusyProtects ==
    /\ \A c \in Core : outgoing[c] # None =>
         /\ stack_busy[outgoing[c].index]
         /\ gen[outgoing[c].index] = outgoing[c].generation
         /\ slot[outgoing[c].index] # "Reserved"
         /\ \A d \in Core \ {c} : outgoing[d] = None \/ outgoing[d].index # outgoing[c].index
    /\ \A i \in Index : stack_busy[i] => \E c \in Core : outgoing[c] # None /\ outgoing[c].index = i

\* terminate_process decides once that its caller may kill the target and then
\* finalizes whatever occupies the target's slot, without looking at the
\* generation again: until it does, the slot is still the target's, as its
\* process or as its zombie, and its parent is still the caller.
KillHitsTarget ==
    \A c \in Core : pc[c] \in Killing =>
        /\ gen[arg[c].index] = arg[c].generation
        /\ slot[arg[c].index] \in {"Occupied", "Zombie"}
        /\ current[c] # None /\ parent[arg[c].index] = current[c]
        /\ wait_waiter[arg[c].index] = None

\* No core's page tables are freed under it: the address space a core has
\* active belongs to a process in the table or to one not dropped yet.
Cr3Live ==
    \A c \in Core : cr3[c] # None =>
        Occupied(cr3[c]) \/ \E d \in Core : cr3[c] \in drops[d]

\* A core asleep in hlt is not left out when work comes: if a process is ready, the
\* core's wake-up IPI is pending at its LAPIC or a core is about to send it. (A core
\* with an unacknowledged IPI may never take it, and its own timer neither.)
NoSleepThroughWork ==
    \A c \in Core : pc[c] = "hlt" /\ ready # <<>> =>
        ipi[c] \/ \E d \in Core : pc[d] \in {"notify", "publish"}

\* Once boot has spawned its last process, a core halts for good only when there is
\* no process left, and none comes back.
HaltedMeansDone ==
    (\E c \in Core : pc[c] = "halted") => spawned = Boot /\ all_processes_empty

\* The same of every halt, those during boot included.
HaltIsFinal == (\E c \in Core : pc[c] \in {"halted", "early"}) => all_processes_empty

\* What a core is doing, apart from a wake it makes on the way.
Where(c) == IF pc[c] = "wake" THEN back[c] ELSE pc[c]

\* A core in ring 3, in a system call or on its way back to ring 3 has a current
\* process; so does a killer, while an exiting core has none.
CurrentInKernel ==
    \A c \in Core :
        /\ Where(c) \in {"user", "drop", "drain", "return", "build", "notify", "block"} \union Killing
             => current[c] # None
        /\ Where(c) = "orphans" /\ outgoing[c] = None => current[c] # None

\* The pid a core works on is one.
ArgIsPid ==
    \A c \in Core :
        /\ pc[c] \in Killing \union {"wake"} => arg[c] \in Pid
        /\ pc[c] \in Building => arg[c] # None
        /\ pc[c] \in {"evict", "spin", "giveup"} => peer[c] # None

\* p has been in the table: no process spawned later gets this pid.
Known(p) ==
    /\ p.generation <= gen[p.index]
    /\ p.generation = gen[p.index] => slot[p.index] # "Reserved"

\* Whoever is recorded as a child's waiter is its parent and blocked, or dead.
WaiterIsBlocked ==
    \A i \in Index : wait_waiter[i] # None =>
        /\ slot[i] = "Occupied"
        /\ wait_waiter[i].index # i
        /\ Known(wait_waiter[i])
        /\ parent[i] \in {wait_waiter[i], None}
        /\ Occupied(wait_waiter[i]) =>
             parent[i] = wait_waiter[i] /\ state[wait_waiter[i].index] = "Blocked"

\* Whoever an endpoint recorded is blocked or about to block, without a wake
\* already pending, or dead; so is whoever a core is about to wake.
WaitsForIpc(p) ==
    /\ Known(p)
    /\ Occupied(p) => (state[p.index] = "Blocked" \/ InBlock(p)) /\ ~pending_wake[p.index]

IpcWaiterWaits ==
    /\ \A p \in registered : WaitsForIpc(p)
    /\ \A c \in Core : pc[c] = "wake" => WaitsForIpc(arg[c])

\* The inductive invariant: types, dispatch, reservations, parents, kills and wakers
\* hold up each other (each conjunct says above what it is about).
SchedulerInv ==
    /\ TypeOK /\ CurrentInKernel /\ ArgIsPid
    /\ DispatchSafe
    /\ ReservationOwned
    /\ ParentIsLive
    /\ KillHitsTarget
    /\ WaiterIsBlocked
    /\ PendingWakeIsFresh /\ IpcWaiterWaits /\ OneWaker
    /\ BlockedIsHeld

\* A request to give a process up is in force only while the core that made it is
\* still in terminate_process, waiting for that process.
EvictionIsWanted ==
    \A c \in Core : evict_request[c] # None =>
        /\ Known(evict_request[c])
        /\ Occupied(evict_request[c]) =>
             \E d \in Core : pc[d] \in Killing /\ arg[d] = evict_request[c]

\* A core has a stack to give back only between the switch that left it and
\* finish_switch or the idle trampoline; the process it was, if still in the table,
\* was running and is current nowhere.
OutgoingHasLeft ==
    \A c \in Core : outgoing[c] # None =>
        /\ Where(c) \in {"orphans", "drop", "drain", "abandon"}
        /\ Occupied(outgoing[c]) =>
             state[outgoing[c].index] = "Running" /\ \A d \in Core : current[d] # outgoing[c]

\* A core in its idle loop, or past the exit of its process, has no current process.
IdleHasNone ==
    \A c \in Core :
        \/ Where(c) \in {"abandon", "idle", "park", "announce", "recheck", "hlt", "halted", "early"}
        \/ Where(c) \in {"boot", "create", "publish"}
        \/ Where(c) = "orphans" /\ outgoing[c] # None
        => current[c] = None

\* A core's active address space is its current process's; an exiting core still
\* has that of the process it extracted.
Cr3Follows ==
    \A c \in Core :
        /\ current[c] # None => cr3[c] = current[c]
        /\ current[c] = None /\ cr3[c] # None =>
             Where(c) = "orphans" /\ outgoing[c] # None /\ cr3[c] \in drops[c]

\* A core asleep in hlt has said so.
SleeperIsIdle == \A c \in Core : pc[c] = "hlt" => idle[c]

\* The inductive invariant of the rest: nothing is lost, stacks and address spaces
\* outlive their use, nobody sleeps through work and a halt is final.
SafetyInv ==
    /\ SchedulerInv
    /\ IdleHasNone /\ EvictionIsWanted /\ NoProcessLost
    /\ OutgoingHasLeft /\ StackBusyProtects
    /\ Cr3Follows
    /\ SleeperIsIdle /\ NoSleepThroughWork
    /\ HaltedMeansDone

\* A kernel stack is used by one core at a time.
KernelStackExclusive ==
    \A c, d \in Core : stack[c] # None /\ stack[c] = stack[d] => c = d

\* A zombie's parent is alive and can still collect it.
ZombieHasLiveParent ==
    \A i \in Index : slot[i] = "Zombie" => Occupied(parent[i])

\* A spawn that finds the table full is rejected; it never brings the core down.
FullTableIsRejected == \A c \in Core : pc[c] # "panicked"

\* A kill of process p has no end in sight: p is on a core that takes no IPI.
StuckOn(p) == \E d \in Core : unacked[d] /\ current[d] = p

\* A ready process runs again, or is killed first; unless a killer that is stuck
\* keeps its core busy.
ReadyRuns ==
    \A p \in Target : (p \in Queued) ~> (\/ \E c \in Core : current[c] = p
                                         \/ ~Occupied(p)
                                         \/ \E c \in Core : pc[c] \in Killing /\ StuckOn(arg[c]))

\* A kill that was admitted completes, unless its target is on a core that left an
\* earlier IPI unacknowledged.
KillCompletes ==
    \A c \in Core : (pc[c] = "scan") ~> (pc[c] \in {"orphans", "user"} \/ StuckOn(arg[c]))

\* The same without the exception.
EveryKillCompletes == \A c \in Core : (pc[c] = "scan") ~> (pc[c] \in {"orphans", "user"})

\* Once boot has spawned everything and every process is gone, some core reaches the
\* terminal halt.
LastExitHalts ==
    (spawned = Boot /\ all_processes_empty) ~> \E c \in Core : pc[c] \in {"halted", "early"}
==============================================================================
