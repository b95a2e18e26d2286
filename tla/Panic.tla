------------------------------- MODULE Panic --------------------------------
(***************************************************************************)
(* How the machine stops: lang_items.rs, the ring-0 handlers of idt.rs,    *)
(* dump_cores_for_panic, broadcast_panic_halt and panic_println. What the  *)
(* cores were doing is kept as far as a panic can tell: whether interrupts *)
(* are on, and the lock that is waited for or held. A panic may strike at  *)
(* any of these points, on any core, several times.                        *)
(***************************************************************************)
EXTENDS Integers, FiniteSets

CONSTANTS
    None,
    Cores, Bsp,
    Evictable,      \* bound: the cores a kill may evict with nothing else to run
    MaxFaults       \* bound on the panics of one behaviour

ASSUME PanicAssumption ==
    Bsp \in Cores /\ Evictable \subseteq Cores /\ None \notin Cores /\ MaxFaults \in Nat

Locks == {"SCHEDULER", "COM1_TX", "HEAP"}

VARIABLES
    pc,         \* per core: "off", ordinary work, a step of the panic path, "stopped"
    on,         \* per core: the interrupt flag
    want,       \* per core: the lock it waits for or holds, or None
    ie,         \* per core: the interrupt flag its guard restores
    line,       \* per core: progress of panic_println
    holder,     \* per lock: the core that holds it, or None
    slots,      \* cores with an assigned percpu slot
    halt,       \* cores with PANIC_HALT pending in their LAPIC
    deaf,       \* cores whose LAPIC has an unacknowledged RESCHEDULE in service
    reporter,   \* PANIC_REPORTER_CORE
    panicking,  \* cores whose PANICKING flag is set
    spoken,     \* cores that have printed a panic line
    reported,   \* cores that have printed their whole message
    faults      \* panics so far

workVars == <<want, ie, holder, slots>>
reportVars == <<reporter, panicking, spoken, reported, faults>>
vars == <<pc, on, line, halt, deaf, workVars, reportVars>>

Work == {"run", "spin", "held"}
PanicPath == {"fault", "claim", "dump", "describe", "guard", "print"}
Goto(c, p) == pc' = [pc EXCEPT ![c] = p]

Init ==
    /\ pc = [c \in Cores |-> IF c = Bsp THEN "run" ELSE "off"]
    /\ on = [c \in Cores |-> FALSE]
    /\ want = [c \in Cores |-> None]
    /\ ie = on
    /\ line = [c \in Cores |-> "free"]
    /\ holder = [l \in Locks |-> None]
    /\ slots = {} /\ halt = {} /\ deaf = {}
    /\ reporter = None /\ panicking = {} /\ spoken = {} /\ reported = {} /\ faults = 0
-----------------------------------------------------------------------------
(* What a panic interrupts.                                                *)

\* percpu::assign_slot: the BSP's own while it runs, an AP's before it is started.
assign_slot(c) ==
    /\ c \notin slots /\ pc[Bsp] = "run" /\ Bsp \in slots \union {c}
    /\ slots' = slots \union {c}
    /\ Goto(c, "run")
    /\ UNCHANGED <<deaf, on, want, ie, line, holder, halt, reportVars>>

\* An interrupt or system call entry and its return, cli and sti.
SetInterrupts(c) ==
    /\ pc[c] = "run"
    /\ on' = [on EXCEPT ![c] = ~@]
    /\ UNCHANGED <<deaf, pc, line, halt, workVars, reportVars>>

\* SpinLock::lock masks and spins; the heap's lock is a plain spin lock.
lock(c, l) ==
    /\ pc[c] = "run"
    /\ want' = [want EXCEPT ![c] = l]
    /\ ie' = [ie EXCEPT ![c] = on[c]]
    /\ on' = [on EXCEPT ![c] = @ /\ l = "HEAP"]
    /\ Goto(c, "spin")
    /\ UNCHANGED <<deaf, line, holder, slots, halt, reportVars>>

take(c) ==
    /\ pc[c] = "spin" /\ holder[want[c]] = None
    /\ holder' = [holder EXCEPT ![want[c]] = c]
    /\ Goto(c, "held")
    /\ UNCHANGED <<deaf, on, want, ie, line, slots, halt, reportVars>>

\* The core no longer uses a lock: its section is over, or it never comes back to it.
Forget(c) == want' = [want EXCEPT ![c] = None] /\ ie' = [ie EXCEPT ![c] = FALSE]

\* SpinLockGuard::drop, or the heap's unlock.
unlock(c) ==
    /\ pc[c] = "held"
    /\ holder' = [holder EXCEPT ![want[c]] = None]
    /\ on' = [on EXCEPT ![c] = ie[c]]
    /\ Forget(c)
    /\ Goto(c, "run")
    /\ UNCHANGED <<deaf, line, slots, halt, reportVars>>

\* The core halts for good with interrupts off.
Stop(c) == Goto(c, "stopped") /\ on' = [on EXCEPT ![c] = FALSE]

\* ring3_reschedule for an eviction that finds nothing else to run: the idle loop it
\* ends in never comes back to lapic::eoi, and the LAPIC holds back every vector of
\* the same priority class from then on, PANIC_HALT among them.
ring3_reschedule(c) ==
    /\ pc[c] = "run" /\ on[c] /\ c \in Evictable \ deaf
    /\ deaf' = deaf \union {c}
    /\ on' = [on EXCEPT ![c] = FALSE]
    /\ UNCHANGED <<pc, line, halt, workVars, reportVars>>

\* The BSP and every AP take PANIC_HALT when interrupts are on and their LAPIC lets it
\* through.
panic_halt_handler(c) ==
    /\ c \in halt \ deaf /\ on[c] /\ pc[c] # "off"
    /\ halt' = halt \ {c}
    /\ Stop(c) /\ Forget(c)
    /\ UNCHANGED <<deaf, line, holder, slots, reportVars>>
-----------------------------------------------------------------------------
(* The panic path.                                                         *)

\* In ring 0, #PF, #GP and #DF reach a handler that dumps first ("fault"), #DE and #UD
\* one that only panics; both come through an interrupt gate. A panic!() of the kernel
\* itself is a call and leaves the interrupt flag alone. The locks that were held stay
\* held.
Fault(c) ==
    /\ pc[c] \in Work \union PanicPath /\ faults < MaxFaults
    /\ \/ \E p \in {"fault", "claim"} : Goto(c, p) /\ on' = [on EXCEPT ![c] = FALSE]
       \/ Goto(c, "claim") /\ UNCHANGED on
    /\ line' = [line EXCEPT ![c] = "free"]
    /\ faults' = faults + 1
    /\ Forget(c)
    /\ UNCHANGED <<deaf, halt, holder, slots, reporter, panicking, spoken, reported>>

\* Mutant of broadcast_panic_halt: nothing is sent.
BroadcastNothing(c) == halt' = halt

\* Every other core with a slot.
broadcast_panic_halt(c) == halt' = halt \union (slots \ {c})

\* Mutant of claim_panic_reporter: the broadcast alone, without the election.
BroadcastOnly(c) ==
    /\ pc[c] \in {"fault", "claim"} /\ c \in slots
    /\ reporter' = c
    /\ broadcast_panic_halt(c)
    /\ Goto(c, IF pc[c] = "fault" THEN "dump" ELSE "guard")
    /\ UNCHANGED <<deaf, on, line, workVars, panicking, spoken, reported, faults>>

\* core_index, then the compare_exchange: the winner stops the other cores, a second
\* claim by the winner goes on, a loser halts.
claim_panic_reporter(c) ==
    /\ pc[c] \in {"fault", "claim"} /\ c \in slots
    /\ reporter' = IF reporter = None THEN c ELSE reporter
    /\ IF reporter = None THEN broadcast_panic_halt(c) ELSE UNCHANGED halt
    /\ IF reporter \in {None, c}
         THEN Goto(c, IF pc[c] = "fault" THEN "dump" ELSE "guard") /\ UNCHANGED on
         ELSE Stop(c)
    /\ UNCHANGED <<deaf, line, workVars, panicking, spoken, reported, faults>>

\* Without a slot core_index() itself panics, and so does the handler of that panic.
PanicWithoutSlot(c) ==
    /\ pc[c] \in {"fault", "claim"} /\ c \notin slots
    /\ Stop(c)
    /\ UNCHANGED <<deaf, line, halt, workVars, reportVars>>

\* PANICKING.swap: a second panic of this core halts.
PanicGuard(c) ==
    /\ pc[c] = "guard"
    /\ panicking' = panicking \union {c}
    /\ IF c \in panicking THEN Stop(c) ELSE Goto(c, "print") /\ UNCHANGED on
    /\ UNCHANGED <<deaf, line, halt, workVars, reporter, spoken, reported, faults>>

Printing(c) == pc[c] \in {"dump", "print"}
Line(c, st) == line' = [line EXCEPT ![c] = st]

\* panic_println: try_lock, which keeps interrupts off while the lock is held, ...
try_lock(c) ==
    /\ Printing(c) /\ line[c] \in {"free", "broken"} /\ holder["COM1_TX"] = None
    /\ holder' = [holder EXCEPT !["COM1_TX"] = c]
    /\ on' = [on EXCEPT ![c] = FALSE]
    /\ Line(c, "held")
    /\ UNCHANGED <<deaf, pc, want, ie, slots, halt, reportVars>>

\* Mutant of break_lock: a lock that this core itself orphaned is waited for.
BreakOthersOnly(c) ==
    /\ Printing(c) /\ line[c] = "free" /\ holder["COM1_TX"] \notin {None, c}
    /\ holder' = [holder EXCEPT !["COM1_TX"] = None]
    /\ Line(c, "broken")
    /\ UNCHANGED <<deaf, pc, on, want, ie, slots, halt, reportVars>>

\* ... the bounded spin runs out, at any time, and the lock is forced open; ...
break_lock(c) ==
    /\ Printing(c) /\ line[c] = "free" /\ holder["COM1_TX"] # None
    /\ holder' = [holder EXCEPT !["COM1_TX"] = None]
    /\ Line(c, "broken")
    /\ UNCHANGED <<deaf, pc, on, want, ie, slots, halt, reportVars>>

\* ... one more try_lock, and the line is printed even if that failed too.
PrintUnlocked(c) ==
    /\ Printing(c) /\ line[c] = "broken" /\ holder["COM1_TX"] # None
    /\ Line(c, "unlocked")
    /\ UNCHANGED <<deaf, pc, on, halt, workVars, reportVars>>

\* The text goes out and a guard is dropped.
Printed(c) ==
    /\ line[c] \in {"held", "unlocked"}
    /\ holder' = IF line[c] = "held" THEN [holder EXCEPT !["COM1_TX"] = None] ELSE holder
    /\ Line(c, "free")
    /\ spoken' = spoken \union {c}

\* dump_cores_for_panic broadcasts once more. #PF and #GP then describe the stack,
\* #DF calls panic!() at once.
dump_cores_for_panic(c) ==
    /\ pc[c] = "dump" /\ Printed(c)
    /\ broadcast_panic_halt(c)
    /\ \E p \in {"describe", "claim"} : Goto(c, p)
    /\ UNCHANGED <<deaf, on, want, ie, slots, reporter, panicking, reported, faults>>

\* describe_stack_addr builds a String: the heap's lock is taken and released.
describe_stack_addr(c) ==
    /\ pc[c] = "describe" /\ holder["HEAP"] = None
    /\ Goto(c, "claim")
    /\ UNCHANGED <<deaf, on, line, halt, workVars, reportVars>>

\* The handler's own lines, then it halts.
panic(c) ==
    /\ pc[c] = "print" /\ Printed(c)
    /\ reported' = reported \union {c}
    /\ Stop(c)
    /\ UNCHANGED <<deaf, want, ie, slots, halt, reporter, panicking, faults>>
-----------------------------------------------------------------------------
Report(c) ==
    \/ claim_panic_reporter(c) \/ PanicWithoutSlot(c) \/ PanicGuard(c)
    \/ try_lock(c) \/ break_lock(c) \/ PrintUnlocked(c)
    \/ dump_cores_for_panic(c) \/ describe_stack_addr(c) \/ panic(c)

Next ==
    \E c \in Cores :
        \/ assign_slot(c) \/ SetInterrupts(c) \/ take(c) \/ unlock(c) \/ Fault(c)
        \/ ring3_reschedule(c) \/ panic_halt_handler(c) \/ Report(c)
        \/ \E l \in Locks : lock(c, l)

\* A core executes, a critical section ends, a lock that is free again and again is
\* taken, and an interrupt that its LAPIC does not hold back is taken by a core that
\* accepts interrupts again and again.
\* Work that runs with interrupts off turns them on again.
Fairness ==
    \A c \in Cores :
        /\ WF_vars(unlock(c)) /\ WF_vars(Report(c))
        /\ SF_vars(~on[c] /\ SetInterrupts(c))
        /\ SF_vars(take(c)) /\ SF_vars(panic_halt_handler(c))

Spec == Init /\ [][Next]_vars
FairSpec == Spec /\ Fairness
-----------------------------------------------------------------------------
\* Every variable has its type; only the elected core speaks for the machine, and a
\* core that has spoken never goes back to its work.
TypeOK ==
    /\ pc \in [Cores -> {"off", "stopped"} \union Work \union PanicPath]
    /\ on \in [Cores -> BOOLEAN] /\ ie \in [Cores -> BOOLEAN]
    /\ want \in [Cores -> Locks \union {None}]
    /\ line \in [Cores -> {"free", "broken", "held", "unlocked"}]
    /\ holder \in [Locks -> Cores \union {None}]
    /\ slots \subseteq Cores /\ halt \subseteq slots /\ deaf \subseteq Cores
    /\ reporter \in slots \union {None}
    /\ panicking \union spoken \subseteq {reporter} \ {None}
    /\ \A c \in spoken : pc[c] \in PanicPath \union {"stopped"}

\* However many cores panic at once, one of them writes to the console: the others
\* lose claim_panic_reporter before their first line. And the core that was elected
\* is never told to stop by its own election or by a core that lost it, so the report
\* is not cut off from outside.
OneReporter ==
    /\ TypeOK
    /\ Cardinality(spoken) <= 1
    /\ reporter # None => reporter \notin halt

\* A panic that stays the only one gets its message out once it has passed the guard,
\* also when it struck in the middle of another line on the same core: panic_println
\* forces the lock that was orphaned.
PanicIsReported == \A c \in Cores : c \in panicking ~> (c \in reported \/ faults > 1)

\* Stopped, or waiting with interrupts off for a lock whose holder is.
Dead(d) == pc[d] \in PanicPath \union {"stopped"}
Inert(d) == Dead(d) \/ (pc[d] = "spin" /\ ~on[d] /\ holder[want[d]] # None /\ Dead(holder[want[d]]))

\* Once a reporter is elected every other core soon does nothing any more: it stops,
\* or it waits for ever for a lock that the panic orphaned. A core that was evicted
\* with nothing else to run may go on: PANIC_HALT does not reach it.
OthersGoInert ==
    \A c, d \in Cores : (c # d /\ reporter = c /\ d \in slots) ~> [](Inert(d) \/ d \in deaf)

\* The same without the exception.
AllOthersGoInert ==
    \A c, d \in Cores : (c # d /\ reporter = c /\ d \in slots) ~> []Inert(d)

\* broadcast_panic_halt stops every other core: none is left spinning on a lock.
OthersStop ==
    \A c, d \in Cores : (c # d /\ reporter = c /\ d \in slots) ~> (pc[d] = "stopped")
============================================================================
