------------------------------ MODULE Machine -------------------------------
(***************************************************************************)
(* The cores below the scheduler: boot and AP bring-up (main.rs, smp.rs,   *)
(* percpu.rs), interrupts and their acknowledgement (context_switch.rs,    *)
(* lapic.rs, interrupts.rs), SpinLock (sync.rs) and the idle loop.         *)
(*                                                                         *)
(* A core's context is a stack of activities: what it does, and below it   *)
(* what an interrupt has put aside. Processes are only counted.            *)
(* All vectors the kernel sends or arms are of one LAPIC priority class,   *)
(* so a vector in service holds back every other until the EOI. The PIT    *)
(* reaches the BSP through the PIC, past the LAPIC.                        *)
(***************************************************************************)
EXTENDS Integers, Sequences, FiniteSets

CONSTANTS
    None,
    Cores, Bsp,
    MaxProcs        \* bound on the processes that are ready or running

Locks == {"SCHEDULER", "COM1_TX", "HEAP"}

VARIABLES
    ctx,        \* per core: its activities, the running one last
    on,         \* per core: the interrupt flag
    irr, isr,   \* per core: vectors pending and in service in its LAPIC
    holder,     \* per lock: the core that holds it, or None
    slots,      \* cores with an assigned percpu slot
    up,         \* cores whose `ready` flag is set
    half,       \* PML4 entries of the kernel half present in the master table
    idle_as,    \* the entries IDLE_ADDRESS_SPACE copied, or None before
    idle,       \* per core: PerCpuSlot::idle
    evict,      \* per core: an evict_request for the process it runs
    ready       \* length of the ready queue

bootVars == <<slots, up, half, idle_as>>
runVars == <<idle, evict, ready>>
vars == <<ctx, on, irr, isr, holder, bootVars, runVars>>

\* An activity: its code, the point reached, the lock it uses there with the progress
\* of that use, and the interrupt flag to restore.
Act(what, pc) == [what |-> what, pc |-> pc, lock |-> None, st |-> "free", ie |-> FALSE]
Depth(c) == Len(ctx[c])
Top(c) == ctx[c][Depth(c)]
Below(c) == SubSeq(ctx[c], 1, Depth(c) - 1)
Runs(c, what) == ctx[c] # <<>> /\ Top(c).what = what
At(c, what, pc) == Runs(c, what) /\ Top(c).pc = pc /\ Top(c).st = "free"

SetTop(c, a) == ctx' = [ctx EXCEPT ![c][Depth(c)] = a]
Goto(c, pc) == SetTop(c, [Top(c) EXCEPT !.pc = pc])
-----------------------------------------------------------------------------
(* What boot does, on the BSP and on an AP. A `map` step names the PML4    *)
(* entries it may create, an `index` step calls percpu::core_index().      *)

Do(op) == [do |-> op, maps |-> {}]
Map(entries) == [do |-> "map", maps |-> entries]

\* Mutant of BootCode: the idle stacks are mapped after the APs were started.
LateStacksCode ==
    <<Map({288}), Map({304}), Map({302}), Map({296}), Do("idt"), Map({298}), Do("sti"),
      Do("assign"), Do("ready"), Do("start"), Do("wait"), Map({300}), Do("idle_as"), Do("enter")>>

\* _start: memory::init (heap 288), init_kernel_stacks (304),
\* scheduler::init, init_trap_frames and init_process_slots (302), the module list,
\* then arch::init (gdt 296, idt, LAPIC 298, calibration, sti), bring_up_aps (the
\* idle stacks are 300), syscall::init, the idle address space, the virtio BARs (300
\* again) and the first process. Of the lines boot prints, three are kept: before the
\* IDT, in the calibration window, and with interrupts on and the APs at work.
BootCode ==
    <<Do("print"), Map({288}), Map({304}), Map({302}), Do("alloc"), Map({296}), Do("idt"),
      Map({298}), Do("sti"), Do("cli"), Do("print"), Do("sti"),
      Do("assign"), Do("ready"), Map({300}), Do("start"), Do("wait"), Do("index"),
      Do("print"), Do("idle_as"), Map({300}), Do("alloc"), Do("spawn"), Do("notify"), Do("enter")>>

\* ap_entry_on_own_stack: the double-fault stack is mapped under 296.
LandCode ==
    <<Do("print"), Map({296}), Do("index"), Do("ready"), Do("print"), Do("sti"),
      Do("idle_as"), Do("enter")>>

Code(what) == IF what = "boot" THEN BootCode ELSE LandCode

\* The step core c's boot code is at.
Booting(c) == Runs(c, "boot") \/ Runs(c, "land")
Step(c, op) == Booting(c) /\ Top(c).st = "free" /\ Code(Top(c).what)[Top(c).pc].do = op
NextStep(c) == Goto(c, Top(c).pc + 1)

MapStep(c) ==
    /\ Step(c, "map")
    /\ half' = half \union Code(Top(c).what)[Top(c).pc].maps
    /\ NextStep(c)
    /\ UNCHANGED <<on, irr, isr, holder, slots, up, idle_as, runVars>>

\* Steps that only matter to what the core may do next.
PlainStep(c) ==
    /\ Step(c, "idt") \/ Step(c, "index")
    /\ NextStep(c)
    /\ UNCHANGED <<on, irr, isr, holder, bootVars, runVars>>

\* sti; the calibration window ends with cli.
FlagStep(c) ==
    /\ \E f \in BOOLEAN : Step(c, IF f THEN "sti" ELSE "cli") /\ on' = [on EXCEPT ![c] = f]
    /\ NextStep(c)
    /\ UNCHANGED <<irr, isr, holder, bootVars, runVars>>

\* percpu::assign_slot(0, ..) and `ready` of this core.
AssignStep(c) ==
    /\ \/ Step(c, "assign") /\ slots' = slots \union {c} /\ UNCHANGED up
       \/ Step(c, "ready") /\ up' = up \union {c} /\ UNCHANGED slots
    /\ NextStep(c)
    /\ UNCHANGED <<on, irr, isr, holder, half, idle_as, runVars>>

\* assign_slot for the next AP, then MpInfo::bootstrap, which the AP may answer late or
\* never.
StartAp(c, d) ==
    /\ Step(c, "start") /\ d \notin slots
    /\ slots' = slots \union {d}
    /\ UNCHANGED <<ctx, on, irr, isr, holder, up, half, idle_as, runVars>>

\* Mutant of ApLands: bootstrap before assign_slot.
ApLandsEarly(d) ==
    /\ d # Bsp /\ Step(Bsp, "start") /\ ctx[d] = <<>>
    /\ ctx' = [ctx EXCEPT ![d] = <<Act("land", 1)>>]
    /\ UNCHANGED <<on, irr, isr, holder, bootVars, runVars>>

ApLands(d) ==
    /\ d # Bsp /\ d \in slots /\ ctx[d] = <<>>
    /\ ctx' = [ctx EXCEPT ![d] = <<Act("land", 1)>>]
    /\ UNCHANGED <<on, irr, isr, holder, bootVars, runVars>>

\* Mutant of WaitStep: the wait for the APs has no bound.
WaitForAll(c) ==
    /\ \/ Step(c, "start") /\ slots = Cores
       \/ Step(c, "wait") /\ up = Cores
    /\ NextStep(c)
    /\ UNCHANGED <<on, irr, isr, holder, bootVars, runVars>>

\* All are started; then a bounded wait for each, which may run out at any time.
WaitStep(c) ==
    /\ \/ Step(c, "start") /\ slots = Cores
       \/ Step(c, "wait")
    /\ NextStep(c)
    /\ UNCHANGED <<on, irr, isr, holder, bootVars, runVars>>

\* IDLE_ADDRESS_SPACE.call_once: the first core to get here copies the kernel half.
IdleSpaceStep(c) ==
    /\ Step(c, "idle_as")
    /\ idle_as' = IF idle_as = None THEN half ELSE idle_as
    /\ NextStep(c)
    /\ UNCHANGED <<on, irr, isr, holder, slots, up, half, runVars>>

\* start() or ap_enter_scheduler().
EnterStep(c) ==
    /\ Step(c, "enter")
    /\ SetTop(c, Act("idle", "top"))
    /\ UNCHANGED <<on, irr, isr, holder, bootVars, runVars>>
-----------------------------------------------------------------------------
(* SpinLock, and the critical sections of each activity.                   *)

LockOf(a) ==
    CASE a.what \in {"boot", "land"} ->
           (LET op == Code(a.what)[a.pc].do IN
            CASE op = "print" -> "COM1_TX" [] op = "alloc" -> "HEAP" [] op = "spawn" -> "SCHEDULER"
              [] OTHER -> None)
      [] a.what = "idle" /\ a.pc \in {"top", "check"} -> "SCHEDULER"
      [] a.what = "sys" /\ a.pc \in {"wake", "block", "kill"} -> "SCHEDULER"
      [] a.what \in {"pit", "tick", "reschedule"} -> IF a.pc = "print" THEN "COM1_TX" ELSE "SCHEDULER"
      [] OTHER -> None

\* Mutant of lock: interrupts stay as they are.
LockUnmasked(c) ==
    /\ ctx[c] # <<>> /\ Top(c).st = "free" /\ LockOf(Top(c)) # None
    /\ SetTop(c, [Top(c) EXCEPT !.lock = LockOf(Top(c)), !.st = "spin", !.ie = on[c]])
    /\ UNCHANGED <<on, irr, isr, holder, bootVars, runVars>>

\* SpinLock::lock masks interrupts and then spins. The heap's lock is a plain one.
lock(c) ==
    LET l == LockOf(Top(c)) IN
    /\ ctx[c] # <<>> /\ Top(c).st = "free" /\ l # None
    /\ SetTop(c, [Top(c) EXCEPT !.lock = l, !.st = "spin", !.ie = on[c]])
    /\ on' = [on EXCEPT ![c] = @ /\ l = "HEAP"]
    /\ UNCHANGED <<irr, isr, holder, bootVars, runVars>>

take(c) ==
    /\ ctx[c] # <<>> /\ Top(c).st = "spin" /\ holder[Top(c).lock] = None
    /\ holder' = [holder EXCEPT ![Top(c).lock] = c]
    /\ SetTop(c, [Top(c) EXCEPT !.st = "held"])
    /\ UNCHANGED <<on, irr, isr, bootVars, runVars>>

\* The end of a critical section: the guard is dropped, and the activity goes on at
\* `pc` with the interrupt flag `lock` found.
Holds(c, what, pc) == Runs(c, what) /\ Top(c).pc = pc /\ Top(c).st = "held"
Unlock(c) == holder' = [holder EXCEPT ![Top(c).lock] = None]
Drop(c, pc) ==
    /\ Unlock(c)
    /\ on' = [on EXCEPT ![c] = Top(c).ie]
    /\ SetTop(c, Act(Top(c).what, pc))

\* A line is printed, memory is allocated, or the first process is queued.
BootSection(c) ==
    /\ Booting(c) /\ Top(c).st = "held"
    /\ ready' = IF Top(c).lock = "SCHEDULER" THEN ready + 1 ELSE ready
    /\ Drop(c, Top(c).pc + 1)
    /\ UNCHANGED <<irr, isr, bootVars, idle, evict>>
-----------------------------------------------------------------------------
(* The idle loop and park_until_woken.                                     *)

\* Pop a process or go and park.
IdleTop(c) ==
    /\ Holds(c, "idle", "top")
    /\ ready' = IF ready > 0 THEN ready - 1 ELSE 0
    /\ Drop(c, IF ready > 0 THEN "resume" ELSE "park")
    /\ UNCHANGED <<irr, isr, bootVars, idle, evict>>

\* cli, and the flag that asks for an IPI. (The check before the flag is the one
\* after it with an earlier way out.)
IdleFlag(c) ==
    /\ At(c, "idle", "park")
    /\ on' = [on EXCEPT ![c] = FALSE]
    /\ idle' = [idle EXCEPT ![c] = TRUE]
    /\ Goto(c, "check")
    /\ UNCHANGED <<irr, isr, holder, bootVars, evict, ready>>

IdleCheck(c) ==
    /\ Holds(c, "idle", "check")
    /\ Drop(c, IF ready > 0 THEN "woken" ELSE "sleep")
    /\ UNCHANGED <<irr, isr, bootVars, runVars>>

\* sti; hlt as one step.
IdleSleep(c) ==
    /\ At(c, "idle", "sleep")
    /\ on' = [on EXCEPT ![c] = TRUE]
    /\ Goto(c, "hlt")
    /\ UNCHANGED <<irr, isr, holder, bootVars, runVars>>

IdleWoken(c) ==
    /\ At(c, "idle", "woken")
    /\ on' = [on EXCEPT ![c] = TRUE]
    /\ idle' = [idle EXCEPT ![c] = FALSE]
    /\ Goto(c, "top")
    /\ UNCHANGED <<irr, isr, holder, bootVars, evict, ready>>

\* context_switch::resume: iretq to ring 3.
Resume(c) ==
    /\ At(c, "idle", "resume")
    /\ SetTop(c, Act("user", "run"))
    /\ on' = [on EXCEPT ![c] = TRUE]
    /\ UNCHANGED <<irr, isr, holder, bootVars, runVars>>
-----------------------------------------------------------------------------
(* System calls, as far as the cores notice them. SFMASK turns interrupts  *)
(* off on the way in.                                                      *)

Idlers == {d \in Cores : idle[d]}
Occupied == {d \in Cores : ctx[d] # <<>> /\ ctx[d][1].what \in {"user", "sys"}}

\* send_ipi sets the vector's bit in the target's IRR.
Send(cores, v) == irr' = [d \in Cores |-> IF d \in cores THEN irr[d] \union {v} ELSE irr[d]]

Syscall(c, op) ==
    /\ Runs(c, "user")
    /\ op = "wake" => ready + Cardinality(Occupied) < MaxProcs
    /\ SetTop(c, Act("sys", op))
    /\ on' = [on EXCEPT ![c] = FALSE]
    /\ UNCHANGED <<irr, isr, holder, bootVars, runVars>>

\* A process becomes ready; notify_idle_cores runs after the lock is dropped.
SysWake(c) ==
    /\ Holds(c, "sys", "wake")
    /\ ready' = ready + 1
    /\ Drop(c, "notify")
    /\ UNCHANGED <<irr, isr, bootVars, idle, evict>>

ReturnToUser(c) == SetTop(c, Act("user", "run")) /\ on' = [on EXCEPT ![c] = TRUE]

BootNotify(c) ==
    /\ Step(c, "notify")
    /\ Send(Idlers, "RESCHEDULE")
    /\ NextStep(c)
    /\ UNCHANGED <<on, isr, holder, bootVars, runVars>>

notify_idle_cores(c) ==
    /\ At(c, "sys", "notify")
    /\ Send(Idlers, "RESCHEDULE")
    /\ ReturnToUser(c)
    /\ UNCHANGED <<isr, holder, bootVars, runVars>>

\* terminate_process asks the core that runs its target to let go of it. (Its
\* bounded wait for the answer is left to the module Scheduler.)
SysKill(c) ==
    /\ Holds(c, "sys", "kill")
    /\ Unlock(c)
    /\ \E d \in Occupied \ {c} :
        /\ evict' = [evict EXCEPT ![d] = TRUE]
        /\ Send({d}, "RESCHEDULE")
    /\ ReturnToUser(c)
    /\ UNCHANGED <<isr, bootVars, idle, ready>>

SysKillNobody(c) ==
    /\ Holds(c, "sys", "kill") /\ Occupied = {c}
    /\ Unlock(c)
    /\ ReturnToUser(c)
    /\ UNCHANGED <<irr, isr, bootVars, runVars>>

\* switch_to_next_or_halt: another process, or the core's own idle loop, which
\* force_unlocks with interrupts still off.
SwitchAway(c, stack) ==
    /\ evict' = [evict EXCEPT ![c] = FALSE]
    /\ ready' = IF ready > 0 THEN ready - 1 ELSE 0
    /\ ctx' = [ctx EXCEPT ![c] = IF ready > 0 THEN stack ELSE <<Act("idle", "top")>>]
    /\ on' = [on EXCEPT ![c] = ready > 0]

\* The process blocks or exits.
SysBlock(c) ==
    /\ Holds(c, "sys", "block")
    /\ Unlock(c)
    /\ SwitchAway(c, <<Act("user", "run")>>)
    /\ UNCHANGED <<irr, isr, bootVars, idle>>
-----------------------------------------------------------------------------
(* Interrupts.                                                             *)

\* A vector enters service and its handler runs on top with interrupts off.
Enter(c, a) == ctx' = [ctx EXCEPT ![c] = Append(@, a)] /\ on' = [on EXCEPT ![c] = FALSE]

\* iretq, which restarts a halted core after its hlt.
Resumed(a) == IF a.what = "idle" /\ a.pc = "hlt" THEN [a EXCEPT !.pc = "woken"] ELSE a
Iretq(c) ==
    /\ ctx' = [ctx EXCEPT ![c] = [Below(c) EXCEPT ![Depth(c) - 1] = Resumed(@)]]
    /\ on' = [on EXCEPT ![c] = TRUE]

Accepts(c) == ctx[c] # <<>> /\ on[c]

\* ring0_reschedule and ring0_lapic_timer_tick only acknowledge.
Ring0Interrupt(c) ==
    /\ Accepts(c) /\ isr[c] = {} /\ ~Runs(c, "user")
    /\ \E v \in irr[c] \union {"TIMER"} :
        /\ v = "TIMER" => At(c, "idle", "hlt")
        /\ irr' = [irr EXCEPT ![c] = @ \ {v}]
    /\ SetTop(c, Resumed(Top(c)))
    /\ UNCHANGED <<on, isr, holder, bootVars, runVars>>

Ring3Interrupt(c) ==
    /\ Accepts(c) /\ isr[c] = {} /\ Runs(c, "user")
    /\ \E v \in irr[c] \union {"TIMER"} :
        /\ irr' = [irr EXCEPT ![c] = @ \ {v}]
        /\ isr' = [isr EXCEPT ![c] = {v}]
        /\ Enter(c, Act(IF v = "TIMER" THEN "tick" ELSE "reschedule", "run"))
    /\ UNCHANGED <<holder, bootVars, runVars>>

\* timer_interrupt_entry: the PIT, on the BSP. One tick in a hundred prints the
\* heartbeat of on_timer_tick_bookkeeping; over ring 3 the scheduler is next.
PitInterrupt ==
    /\ Accepts(Bsp)
    /\ \/ Enter(Bsp, Act("pit", "print"))
       \/ Runs(Bsp, "user") /\ Enter(Bsp, Act("pit", "run"))
       \/ ~Runs(Bsp, "user") /\ SetTop(Bsp, Resumed(Top(Bsp))) /\ UNCHANGED on
    /\ UNCHANGED <<irr, isr, holder, bootVars, runVars>>

PitPrint(c) ==
    /\ Holds(c, "pit", "print")
    /\ IF ctx[c][Depth(c) - 1].what = "user" THEN Drop(c, "run") ELSE Unlock(c) /\ Iretq(c)
    /\ UNCHANGED <<irr, isr, bootVars, runVars>>

\* on_timer_tick: the process goes to the back of the queue and the first one runs.
Tick(c) ==
    /\ Holds(c, "tick", "run") \/ Holds(c, "pit", "run")
    /\ Unlock(c)
    /\ evict' = [evict EXCEPT ![c] = @ /\ ready = 0]
    /\ isr' = [isr EXCEPT ![c] = IF Runs(c, "tick") THEN {} ELSE @]
    /\ Iretq(c)
    /\ UNCHANGED <<irr, bootVars, idle, ready>>

\* ring3_reschedule: on_reschedule_ipi, then eoi unless the former never returns.
Reschedule(c) ==
    /\ Holds(c, "reschedule", "run")
    /\ Unlock(c)
    /\ IF evict[c]
         THEN SwitchAway(c, <<Act("user", "run")>>) /\ isr' = [isr EXCEPT ![c] = IF ready > 0 THEN {} ELSE @]
         ELSE Iretq(c) /\ isr' = [isr EXCEPT ![c] = {}] /\ UNCHANGED <<evict, ready>>
    /\ UNCHANGED <<irr, bootVars, idle>>
-----------------------------------------------------------------------------
Init ==
    /\ ctx = [c \in Cores |-> IF c = Bsp THEN <<Act("boot", 1)>> ELSE <<>>]
    /\ on = [c \in Cores |-> FALSE]
    /\ irr = [c \in Cores |-> {}] /\ isr = irr
    /\ holder = [l \in Locks |-> None]
    /\ slots = {} /\ up = {}
    /\ half = {256, 511} /\ idle_as = None
    /\ idle = on /\ evict = on
    /\ ready = 0

Boot(c) ==
    \/ MapStep(c) \/ PlainStep(c) \/ FlagStep(c) \/ AssignStep(c) \/ WaitStep(c)
    \/ IdleSpaceStep(c) \/ EnterStep(c) \/ BootSection(c) \/ BootNotify(c)
    \/ \E d \in Cores : StartAp(c, d)
Loop(c) ==
    \/ IdleTop(c) \/ IdleFlag(c) \/ IdleCheck(c) \/ IdleSleep(c) \/ IdleWoken(c) \/ Resume(c)
Kernel(c) ==
    \/ SysWake(c) \/ notify_idle_cores(c) \/ SysKill(c) \/ SysKillNobody(c) \/ SysBlock(c)
    \/ PitPrint(c) \/ Tick(c) \/ Reschedule(c)
Interrupt(c) == Ring0Interrupt(c) \/ Ring3Interrupt(c)

\* A core's own instructions, the lock it may have to wait for aside.
Run(c) == lock(c) \/ Boot(c) \/ Loop(c) \/ Kernel(c)

Next ==
    \/ \E c \in Cores :
        \/ Run(c) \/ take(c) \/ Interrupt(c) \/ ApLands(c)
        \/ \E op \in {"wake", "block", "kill"} : Syscall(c, op)
    \/ PitInterrupt

\* A core executes, also between two ticks; a lock that is free again and again is
\* taken in the end; an interrupt that is deliverable again and again is delivered;
\* the PIT ticks.
\* No AP need ever land and no process need ever make a system call.
Fairness ==
    /\ WF_vars(PitInterrupt)
    /\ \A c \in Cores :
        /\ WF_vars(Run(c)) /\ SF_vars(take(c)) /\ SF_vars(Interrupt(c))
        /\ SF_vars(Booting(c) /\ (Boot(c) \/ lock(c) \/ take(c)))

Spec == Init /\ [][Next]_vars
FairSpec == Spec /\ Fairness
-----------------------------------------------------------------------------
Vectors == {"RESCHEDULE", "TIMER"}

\* Every variable has its type, a core that accepts interrupts has its slot or is the
\* BSP in its early boot, and no more than one LAPIC vector is in service at a time.
TypeOK ==
    /\ \A c \in Cores :
        /\ isr[c] \subseteq Vectors /\ Cardinality(isr[c]) <= 1
        /\ irr[c] \subseteq Vectors \ {"TIMER"}
        /\ on[c] => c \in slots \union {Bsp}
    /\ <<on, idle, evict>> \in [1..3 -> [Cores -> BOOLEAN]]
    /\ holder \in [Locks -> Cores \union {None}]
    /\ up \subseteq slots /\ slots \subseteq Cores
    /\ ready \in 0..MaxProcs

\* The PML4 that every idle core runs on, and every process copies later, has each
\* top-level entry the kernel ever maps under: AddressSpace::new copies the upper
\* half once, so an entry created after that is missing from the copy. Whichever core
\* builds the idle address space first, no later mapping adds an entry.
KernelHalfComplete == idle_as # None => half \subseteq idle_as

\* Outside a panic percpu::core_index() is only called on a core whose slot was
\* assigned, however soon an AP answers its bootstrap.
CoreIndexResolves == TypeOK /\ \A c \in Cores : Step(c, "index") => c \in slots

\* No core spins on a lock it holds itself below an interrupt: SpinLock::lock masks
\* interrupts, and no handler allocates, which the heap's plain lock depends on.
NoSelfDeadlock ==
    \A c \in Cores :
        ctx[c] # <<>> /\ Top(c).st = "spin" => holder[Top(c).lock] # c

\* The BSP gets into the scheduler even when an AP never answers its bootstrap, and an
\* AP that lands, however late, gets there too.
BootCompletes == <>Runs(Bsp, "idle") /\ \A d \in Cores : Runs(d, "land") ~> Runs(d, "idle")

\* park_until_woken: an IPI sent to a core that went to sleep "still reaches this hlt".
IpiIsTaken ==
    \A c \in Cores :
        (At(c, "idle", "hlt") /\ "RESCHEDULE" \in irr[c]) ~> ~(At(c, "idle", "hlt") /\ "RESCHEDULE" \in irr[c])
============================================================================
