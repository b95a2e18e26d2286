--------------------------- MODULE SchedulerSafety ---------------------------
(***************************************************************************)
(* SafetyInv, the rest of Scheduler's safety, is inductive on top of       *)
(* SchedulerInv: no process and no slot is lost, kernel stacks and address *)
(* spaces outlive their use, no core sleeps through work, a halt is final. *)
(***************************************************************************)
EXTENDS SchedulerProofs

\* Most leaves are first-order: try Zenon before the SMT solver.
USE ZenonT(15), SMTT(60)

(***************************************************************************)
(* The control flow of a core.                                             *)
(***************************************************************************)

\* Core c was at one of the positions of from and goes to one of to.
Goes(c, from, to) ==
    pc[c] \in from /\ pc'[c] \in to

\* The end of a switch; the idle loop; calls in progress; kills; what ring 3, or an
\* interrupt of it, starts; boot.
SwitchFlow(c) ==
    \/ DropPending(c) /\ Goes(c, {"drop"}, {"drain"})
    \/ ClearStackBusy(c) /\ Goes(c, {"drain"}, {"return"})
    \/ Resume(c) /\ Goes(c, {"drain", "return"}, {"user"})
    \/ Abandoned(c) /\ Goes(c, {"abandon"}, {"idle"})

IdleFlow(c) ==
    \/ IdleDispatch(c) /\ Goes(c, {"idle"}, {"user"})
    \/ IdleNothingReady(c) /\ Goes(c, {"idle"}, {"halted", "early", "park"})
    \/ ParkCheck(c) /\ Goes(c, {"park"}, {"announce", "idle"})
    \/ ParkAnnounce(c) /\ Goes(c, {"announce"}, {"recheck"})
    \/ ParkRecheck(c) /\ Goes(c, {"recheck"}, {"hlt", "idle"})
    \/ Ring0Reschedule(c) /\ Goes(c, {"idle", "hlt"}, {"idle"})
    \/ Ring0Timer(c) /\ Goes(c, {"hlt"}, {"idle"})

CallFlow(c) ==
    \/ release_reservation(c) /\ Goes(c, {"build"}, {"user"})
    \/ spawn_suspended(c) /\ Goes(c, {"build"}, {"user"})
    \/ TrapFrameFault(c) /\ Goes(c, {"build", "create"}, {"panicked"})
    \/ StartNotify(c) /\ Goes(c, {"notify"}, {"user"})
    \/ block_current_process(c) /\ Goes(c, {"block"}, {"drain", "abandon"})
    \/ wake_blocked_process(c) /\ Goes(c, {"wake"}, {"user", "orphans", "drain", "idle", "boot"})
    \/ wake_receiver_fails(c) /\ Goes(c, {"wake"}, {"user", "orphans", "drain", "idle", "boot"})
    \/ OrphansDone(c) /\ Goes(c, {"orphans"}, {"drain", "drop", "abandon", "user"})
    \/ TakeWaiter(c) /\ Goes(c, {"user", "orphans", "drain", "idle", "boot"}, {"wake"})

KillFlow(c) ==
    \/ KillScanFound(c) /\ Goes(c, {"scan"}, {"evict"})
    \/ KillFinalize(c) /\ Goes(c, {"scan"}, {"orphans"})
    \/ KillAlreadyGone(c) /\ Goes(c, {"scan"}, {"user"})
    \/ KillSendEvict(c) /\ Goes(c, {"evict"}, {"spin"})
    \/ KillSpinDone(c) /\ Goes(c, {"spin"}, {"scan"})
    \/ KillTimeout(c) /\ Goes(c, {"spin"}, {"giveup"})
    \/ KillWithdraw(c) /\ Goes(c, {"giveup"}, {"scan"})

UserFlow(c) ==
    \/ on_timer_tick(c) /\ Goes(c, {"user"}, {"drain"})
    \/ on_reschedule_ipi_evicts(c) /\ Goes(c, {"user"}, {"drain", "abandon"})
    \/ on_reschedule_ipi_ignores(c) /\ Goes(c, {"user"}, {"user"})
    \/ sys_spawn(c) /\ Goes(c, {"user"}, {"build"})
    \/ start_child(c) /\ Goes(c, {"user"}, {"notify"})
    \/ wait_reaps(c) /\ Goes(c, {"user"}, {"user"})
    \/ wait_blocks(c) /\ Goes(c, {"user"}, {"drain", "abandon"})
    \/ RegisterWaiter(c) /\ Goes(c, {"user"}, {"block"})
    \/ terminate_current_process(c) /\ Goes(c, {"user"}, {"orphans"})
    \/ KillCheck(c) /\ Goes(c, {"user"}, {"scan"})

BootFlow(c) ==
    \/ boot_allocates(c) /\ Goes(c, {"boot"}, {"create"})
    \/ spawn(c) /\ Goes(c, {"create"}, {"publish"})
    \/ SpawnNotify(c) /\ Goes(c, {"publish"}, {"boot"})
    \/ start(c) /\ Goes(c, {"boot"}, {"idle"})

Flow(c) ==
    SwitchFlow(c) \/ IdleFlow(c) \/ CallFlow(c) \/ KillFlow(c) \/ UserFlow(c) \/ BootFlow(c)

\* Where each part of the flow starts and ends.
LEMMA FlowRanges ==
    ASSUME NEW c
    PROVE  /\ SwitchFlow(c) => Goes(c, {"drop", "drain", "return", "abandon"},
                               {"drain", "return", "user", "idle"})
           /\ IdleFlow(c) => Goes(c, {"idle", "park", "announce", "recheck", "hlt"},
                               {"user", "halted", "early", "park", "announce", "idle", "recheck", "hlt"})
           /\ CallFlow(c) => Goes(c, {"build", "create", "notify", "block", "wake", "orphans", "user", "drain", "idle", "boot"},
                               {"user", "panicked", "drain", "abandon", "orphans", "idle", "drop", "wake", "boot"})
           /\ KillFlow(c) => Goes(c, {"scan", "evict", "spin", "giveup"},
                               {"evict", "orphans", "user", "spin", "scan", "giveup"})
           /\ UserFlow(c) => Goes(c, {"user"},
                               {"drain", "abandon", "user", "build", "notify", "block", "orphans", "scan"})
           /\ BootFlow(c) => Goes(c, {"boot", "create", "publish"}, {"create", "publish", "boot", "idle"})
<1>1. SwitchFlow(c) => Goes(c, {"drop", "drain", "return", "abandon"},
                         {"drain", "return", "user", "idle"})
    BY DEF SwitchFlow, Goes
<1>2. IdleFlow(c) => Goes(c, {"idle", "park", "announce", "recheck", "hlt"},
                         {"user", "halted", "early", "park", "announce", "idle", "recheck", "hlt"})
    BY DEF IdleFlow, Goes
<1>3. CallFlow(c) => Goes(c, {"build", "create", "notify", "block", "wake", "orphans", "user", "drain", "idle", "boot"},
                         {"user", "panicked", "drain", "abandon", "orphans", "idle", "drop", "wake", "boot"})
    BY DEF CallFlow, Goes
<1>4. KillFlow(c) => Goes(c, {"scan", "evict", "spin", "giveup"},
                         {"evict", "orphans", "user", "spin", "scan", "giveup"})
    BY DEF KillFlow, Goes
<1>5. UserFlow(c) => Goes(c, {"user"},
                         {"drain", "abandon", "user", "build", "notify", "block", "orphans", "scan"})
    BY DEF UserFlow, Goes
<1>6. BootFlow(c) => Goes(c, {"boot", "create", "publish"}, {"create", "publish", "boot", "idle"})
    BY DEF BootFlow, Goes
<1> QED BY <1>1, <1>2, <1>3, <1>4, <1>5, <1>6

\* Every step moves its core along the flow.
LEMMA FlowLemma ==
    ASSUME SchedulerInv, NEW c \in Core, Step(c)
    PROVE  Flow(c)
<1>a. pc \in [Core -> PcValue] /\ back \in [Core -> {"user", "orphans", "drain", "idle", "boot"}]
    BY DEF SchedulerInv, TypeOK
<1> USE DEF Goes, flowVars
<1>1. CASE DropPending(c)
  <2>1. Goes(c, {"drop"}, {"drain"})
      BY <1>a, <1>1 DEF DropPending
  <2> QED BY <1>1, <2>1 DEF Flow, SwitchFlow
<1>2. CASE ClearStackBusy(c)
  <2>1. Goes(c, {"drain"}, {"return"})
      BY <1>a, <1>2 DEF ClearStackBusy
  <2> QED BY <1>2, <2>1 DEF Flow, SwitchFlow
<1>3. CASE Resume(c)
  <2>1. Goes(c, {"drain", "return"}, {"user"})
      BY <1>a, <1>3 DEF Resume
  <2> QED BY <1>3, <2>1 DEF Flow, SwitchFlow
<1>4. CASE Abandoned(c)
  <2>1. Goes(c, {"abandon"}, {"idle"})
      BY <1>a, <1>4 DEF Abandoned
  <2> QED BY <1>4, <2>1 DEF Flow, SwitchFlow
<1>5. CASE IdleDispatch(c)
  <2>1. Goes(c, {"idle"}, {"user"})
      BY <1>a, <1>5 DEF IdleDispatch
  <2> QED BY <1>5, <2>1 DEF Flow, IdleFlow
<1>6. CASE IdleNothingReady(c)
  <2>1. Goes(c, {"idle"}, {"halted", "early", "park"})
      BY <1>a, <1>6 DEF IdleNothingReady, Halt
  <2> QED BY <1>6, <2>1 DEF Flow, IdleFlow
<1>7. CASE ParkCheck(c)
  <2>1. Goes(c, {"park"}, {"announce", "idle"})
      BY <1>a, <1>7 DEF ParkCheck
  <2> QED BY <1>7, <2>1 DEF Flow, IdleFlow
<1>8. CASE ParkAnnounce(c)
  <2>1. Goes(c, {"announce"}, {"recheck"})
      BY <1>a, <1>8 DEF ParkAnnounce
  <2> QED BY <1>8, <2>1 DEF Flow, IdleFlow
<1>9. CASE ParkRecheck(c)
  <2>1. Goes(c, {"recheck"}, {"hlt", "idle"})
      BY <1>a, <1>9 DEF ParkRecheck
  <2> QED BY <1>9, <2>1 DEF Flow, IdleFlow
<1>10. CASE Ring0Reschedule(c)
  <2>1. Goes(c, {"idle", "hlt"}, {"idle"})
      BY <1>a, <1>10 DEF Ring0Reschedule
  <2> QED BY <1>10, <2>1 DEF Flow, IdleFlow
<1>11. CASE Ring0Timer(c)
  <2>1. Goes(c, {"hlt"}, {"idle"})
      BY <1>a, <1>11 DEF Ring0Timer
  <2> QED BY <1>11, <2>1 DEF Flow, IdleFlow
<1>12. CASE release_reservation(c)
  <2>1. Goes(c, {"build"}, {"user"})
      BY <1>a, <1>12 DEF release_reservation, ReturnToUser
  <2> QED BY <1>12, <2>1 DEF Flow, CallFlow
<1>13. CASE spawn_suspended(c)
  <2>1. Goes(c, {"build"}, {"user"})
      BY <1>a, <1>13 DEF spawn_suspended, ReturnToUser
  <2> QED BY <1>13, <2>1 DEF Flow, CallFlow
<1>14. CASE TrapFrameFault(c)
  <2>1. Goes(c, {"build", "create"}, {"panicked"})
      BY <1>a, <1>14 DEF TrapFrameFault, Building
  <2> QED BY <1>14, <2>1 DEF Flow, CallFlow
<1>15. CASE StartNotify(c)
  <2>1. Goes(c, {"notify"}, {"user"})
      BY <1>a, <1>15 DEF StartNotify, ReturnToUser
  <2> QED BY <1>15, <2>1 DEF Flow, CallFlow
<1>16. CASE block_current_process(c)
  <2>1. Goes(c, {"block"}, {"drain", "abandon"})
      BY <1>a, <1>16 DEF block_current_process, BlockAndSwitch, switch_to_next_or_halt
  <2> QED BY <1>16, <2>1 DEF Flow, CallFlow
<1>17. CASE wake_blocked_process(c)
  <2>1. Goes(c, {"wake"}, {"user", "orphans", "drain", "idle", "boot"})
      BY <1>a, <1>17 DEF wake_blocked_process, AfterWake
  <2> QED BY <1>17, <2>1 DEF Flow, CallFlow
<1>18. CASE OrphansDone(c)
  <2>1. Goes(c, {"orphans"}, {"drain", "drop", "abandon", "user"})
      BY <1>a, <1>18 DEF OrphansDone, ReturnToUser, switch_to_next_or_halt
  <2> QED BY <1>18, <2>1 DEF Flow, CallFlow
<1>19. CASE KillScanFound(c)
  <2>1. Goes(c, {"scan"}, {"evict"})
      BY <1>a, <1>19 DEF KillScanFound
  <2> QED BY <1>19, <2>1 DEF Flow, KillFlow
<1>20. CASE KillFinalize(c)
  <2>1. Goes(c, {"scan"}, {"orphans"})
      BY <1>a, <1>20 DEF KillFinalize
  <2> QED BY <1>20, <2>1 DEF Flow, KillFlow
<1>21. CASE KillAlreadyGone(c)
  <2>1. Goes(c, {"scan"}, {"user"})
      BY <1>a, <1>21 DEF KillAlreadyGone, ReturnToUser
  <2> QED BY <1>21, <2>1 DEF Flow, KillFlow
<1>22. CASE KillSendEvict(c)
  <2>1. Goes(c, {"evict"}, {"spin"})
      BY <1>a, <1>22 DEF KillSendEvict
  <2> QED BY <1>22, <2>1 DEF Flow, KillFlow
<1>23. CASE KillSpinDone(c)
  <2>1. Goes(c, {"spin"}, {"scan"})
      BY <1>a, <1>23 DEF KillSpinDone
  <2> QED BY <1>23, <2>1 DEF Flow, KillFlow
<1>24. CASE KillTimeout(c)
  <2>1. Goes(c, {"spin"}, {"giveup"})
      BY <1>a, <1>24 DEF KillTimeout
  <2> QED BY <1>24, <2>1 DEF Flow, KillFlow
<1>25. CASE KillWithdraw(c)
  <2>1. Goes(c, {"giveup"}, {"scan"})
      BY <1>a, <1>25 DEF KillWithdraw
  <2> QED BY <1>25, <2>1 DEF Flow, KillFlow
<1>26. CASE on_timer_tick(c)
  <2>1. Goes(c, {"user"}, {"drain"})
      BY <1>a, <1>26 DEF on_timer_tick
  <2> QED BY <1>26, <2>1 DEF Flow, UserFlow
<1>27. CASE on_reschedule_ipi_evicts(c)
  <2>1. Goes(c, {"user"}, {"drain", "abandon"})
      BY <1>a, <1>27 DEF on_reschedule_ipi_evicts, switch_to_next_or_halt
  <2> QED BY <1>27, <2>1 DEF Flow, UserFlow
<1>28. CASE on_reschedule_ipi_ignores(c)
  <2>1. Goes(c, {"user"}, {"user"})
      BY <1>a, <1>28 DEF on_reschedule_ipi_ignores
  <2> QED BY <1>28, <2>1 DEF Flow, UserFlow
<1>29. CASE sys_spawn(c)
  <2>1. Goes(c, {"user"}, {"build"})
      BY <1>a, <1>29 DEF sys_spawn
  <2> QED BY <1>29, <2>1 DEF Flow, UserFlow
<1>30. CASE start_child(c)
  <2>1. Goes(c, {"user"}, {"notify"})
      BY <1>a, <1>30 DEF start_child
  <2> QED BY <1>30, <2>1 DEF Flow, UserFlow
<1>31. CASE wait_reaps(c)
  <2>1. Goes(c, {"user"}, {"user"})
      BY <1>a, <1>31 DEF wait_reaps
  <2> QED BY <1>31, <2>1 DEF Flow, UserFlow
<1>32. CASE wait_blocks(c)
  <2>1. Goes(c, {"user"}, {"drain", "abandon"})
      BY <1>a, <1>32 DEF wait_blocks, BlockAndSwitch, switch_to_next_or_halt
  <2> QED BY <1>32, <2>1 DEF Flow, UserFlow
<1>33. CASE RegisterWaiter(c)
  <2>1. Goes(c, {"user"}, {"block"})
      BY <1>a, <1>33 DEF RegisterWaiter
  <2> QED BY <1>33, <2>1 DEF Flow, UserFlow
<1>34. CASE TakeWaiter(c)
  <2>1. Goes(c, {"user", "orphans", "drain", "idle", "boot"}, {"wake"})
      BY <1>a, <1>34 DEF TakeWaiter
  <2> QED BY <1>34, <2>1 DEF Flow, CallFlow
<1>35. CASE terminate_current_process(c)
  <2>1. Goes(c, {"user"}, {"orphans"})
      BY <1>a, <1>35 DEF terminate_current_process
  <2> QED BY <1>35, <2>1 DEF Flow, UserFlow
<1>36. CASE KillCheck(c)
  <2>1. Goes(c, {"user"}, {"scan"})
      BY <1>a, <1>36 DEF KillCheck
  <2> QED BY <1>36, <2>1 DEF Flow, UserFlow
<1>37. CASE wake_receiver_fails(c)
  <2>1. Goes(c, {"wake"}, {"user", "orphans", "drain", "idle", "boot"})
      BY <1>a, <1>37 DEF wake_receiver_fails, AfterWake
  <2> QED BY <1>37, <2>1 DEF Flow, CallFlow
<1>38. CASE boot_allocates(c)
  <2>1. Goes(c, {"boot"}, {"create"})
      BY <1>a, <1>38 DEF boot_allocates
  <2> QED BY <1>38, <2>1 DEF Flow, BootFlow
<1>39. CASE spawn(c)
  <2>1. Goes(c, {"create"}, {"publish"})
      BY <1>a, <1>39 DEF spawn
  <2> QED BY <1>39, <2>1 DEF Flow, BootFlow
<1>40. CASE SpawnNotify(c)
  <2>1. Goes(c, {"publish"}, {"boot"})
      BY <1>a, <1>40 DEF SpawnNotify
  <2> QED BY <1>40, <2>1 DEF Flow, BootFlow
<1>41. CASE start(c)
  <2>1. Goes(c, {"boot"}, {"idle"})
      BY <1>a, <1>41 DEF start
  <2> QED BY <1>41, <2>1 DEF Flow, BootFlow
<1> QED BY <1>1, <1>2, <1>3, <1>4, <1>5, <1>6, <1>7, <1>8, <1>9, <1>10, <1>11, <1>12, <1>13, <1>14, <1>15, <1>16, <1>17, <1>18, <1>19, <1>20, <1>21, <1>22, <1>23, <1>24, <1>25, <1>26, <1>27, <1>28, <1>29, <1>30, <1>31, <1>32, <1>33, <1>34, <1>35, <1>36, <1>37, <1>38, <1>39, <1>40, <1>41 DEF Step, KernelStep, Interrupt, Request, ring3_timer_tick, on_syscall_yield

\* Everything core d's own code decides is left alone by a step of another core;
\* the other core may send it an IPI, and takes none away.
Kept(d) ==
    /\ pc'[d] = pc[d] /\ back'[d] = back[d] /\ arg'[d] = arg[d] /\ current'[d] = current[d]
    /\ cr3'[d] = cr3[d] /\ outgoing'[d] = outgoing[d] /\ drops'[d] = drops[d] /\ idle'[d] = idle[d]
    /\ ipi[d] => ipi'[d]

\* A step of one core keeps every other core (Kept).
LEMMA KeptLemma ==
    ASSUME SchedulerInv, NEW c \in Core, Step(c), NEW d \in Core \ {c}
    PROVE  Kept(d)
<1>a. /\ pc \in [Core -> PcValue] /\ back \in [Core -> {"user", "orphans", "drain", "idle", "boot"}]
      /\ arg \in [Core -> Pid \union {None, OutOfRange}] /\ current \in [Core -> Pid \union {None}]
      /\ cr3 \in [Core -> Pid \union {None}] /\ outgoing \in [Core -> Pid \union {None}]
      /\ drops \in [Core -> SUBSET Pid] /\ idle \in [Core -> BOOLEAN] /\ ipi \in [Core -> BOOLEAN]
    BY DEF SchedulerInv, TypeOK
<1>b. \A x, y \in Core : current[x] # None /\ current[x] = current[y] => x = y
    BY DEF SchedulerInv, DispatchSafe
<1> USE DEF Kept, tableVars, dispatchVars, flowVars, killVars, exitVars, wakeVars, ipcVars, bootVars, notify_idle_cores
<1>1. CASE DropPending(c)
    BY <1>a, <1>1 DEF DropPending
<1>2. CASE ClearStackBusy(c)
    BY <1>a, <1>2 DEF ClearStackBusy
<1>3. CASE Resume(c)
    BY <1>a, <1>3 DEF Resume
<1>4. CASE Abandoned(c)
    BY <1>a, <1>4 DEF Abandoned
<1>5. CASE IdleDispatch(c)
    BY <1>a, <1>5 DEF IdleDispatch, switch_to
<1>6. CASE IdleNothingReady(c)
    BY <1>a, <1>6 DEF IdleNothingReady
<1>7. CASE ParkCheck(c)
    BY <1>a, <1>7 DEF ParkCheck
<1>8. CASE ParkAnnounce(c)
    BY <1>a, <1>8 DEF ParkAnnounce
<1>9. CASE ParkRecheck(c)
    BY <1>a, <1>9 DEF ParkRecheck
<1>10. CASE Ring0Reschedule(c)
    BY <1>a, <1>10 DEF Ring0Reschedule
<1>11. CASE Ring0Timer(c)
    BY <1>a, <1>11 DEF Ring0Timer
<1>12. CASE release_reservation(c)
    BY <1>a, <1>12 DEF release_reservation, ReturnToUser
<1>13. CASE spawn_suspended(c)
    BY <1>a, <1>13 DEF spawn_suspended, ReturnToUser
<1>14. CASE TrapFrameFault(c)
    BY <1>a, <1>14 DEF TrapFrameFault
<1>15. CASE StartNotify(c)
    BY <1>a, <1>15 DEF StartNotify, ReturnToUser
<1>16. CASE block_current_process(c)
    BY <1>a, <1>16 DEF block_current_process, BlockAndSwitch, switch_to_next_or_halt, switch_to
<1>17. CASE wake_blocked_process(c)
    BY <1>a, <1>17 DEF wake_blocked_process, AfterWake
<1>18. CASE OrphansDone(c)
    BY <1>a, <1>18 DEF OrphansDone, ReturnToUser, switch_to_next_or_halt, switch_to
<1>19. CASE KillScanFound(c)
    BY <1>a, <1>19 DEF KillScanFound
<1>20. CASE KillFinalize(c)
    BY <1>a, <1>20 DEF KillFinalize, take_and_finalize_slot
<1>21. CASE KillAlreadyGone(c)
    BY <1>a, <1>21 DEF KillAlreadyGone, ReturnToUser
<1>22. CASE KillSendEvict(c)
    BY <1>a, <1>22 DEF KillSendEvict
<1>23. CASE KillSpinDone(c)
    BY <1>a, <1>23 DEF KillSpinDone
<1>24. CASE KillTimeout(c)
    BY <1>a, <1>24 DEF KillTimeout
<1>25. CASE KillWithdraw(c)
    BY <1>a, <1>25 DEF KillWithdraw
<1>26. CASE on_timer_tick(c)
    BY <1>a, <1>26 DEF on_timer_tick, switch_to
<1>27. CASE on_reschedule_ipi_evicts(c)
    BY <1>a, <1>27 DEF on_reschedule_ipi_evicts, switch_to_next_or_halt, switch_to
<1>28. CASE on_reschedule_ipi_ignores(c)
    BY <1>a, <1>28 DEF on_reschedule_ipi_ignores
<1>29. CASE Allocates(c)
    BY <1>a, <1>29 DEF Allocates, allocate_pid
<1>30. CASE start_child(c)
    BY <1>a, <1>30 DEF start_child
<1>31. CASE wait_reaps(c)
    BY <1>a, <1>31 DEF wait_reaps
<1>32. CASE wait_blocks(c)
    BY <1>a, <1>32 DEF wait_blocks, BlockAndSwitch, switch_to_next_or_halt, switch_to
<1>33. CASE RegisterWaiter(c)
    BY <1>a, <1>33 DEF RegisterWaiter
<1>34. CASE TakeWaiter(c)
    BY <1>a, <1>34 DEF TakeWaiter
<1>35. CASE terminate_current_process(c)
  <2>1. current[c] # None
      BY <1>35, CurrentLemma DEF terminate_current_process
  <2> QED BY <1>a, <1>b, <1>35, <2>1 DEF terminate_current_process, take_and_finalize_slot
<1>36. CASE KillCheck(c)
    BY <1>a, <1>36 DEF KillCheck
<1>37. CASE wake_receiver_fails(c)
    BY <1>a, <1>37 DEF wake_receiver_fails, AfterWake
<1>38. CASE spawn(c)
    BY <1>a, <1>38 DEF spawn
<1>39. CASE SpawnNotify(c)
    BY <1>a, <1>39 DEF SpawnNotify
<1>40. CASE start(c)
    BY <1>a, <1>40 DEF start
<1> QED BY <1>1, <1>2, <1>3, <1>4, <1>5, <1>6, <1>7, <1>8, <1>9, <1>10, <1>11, <1>12, <1>13, <1>14, <1>15, <1>16, <1>17, <1>18, <1>19, <1>20, <1>21, <1>22, <1>23, <1>24, <1>25, <1>26, <1>27, <1>28, <1>29, <1>30, <1>31, <1>32, <1>33, <1>34, <1>35, <1>36, <1>37, <1>38, <1>39, <1>40 DEF Step, KernelStep, Interrupt, Request, ring3_timer_tick, on_syscall_yield, sys_spawn, boot_allocates, Allocates

(***************************************************************************)
(* A halt is final; nobody sleeps through work.                            *)
(***************************************************************************)

\* Only boot's spawn counts as one.
LEMMA SpawnedStep ==
    ASSUME NEW c \in Core, Step(c), ~spawn(c)
    PROVE  spawned' = spawned
<1> USE DEF bootVars
<1>1. CASE KernelStep(c)
        BY <1>1 DEF KernelStep, DropPending, ClearStackBusy, Resume, Abandoned, IdleDispatch,
                IdleNothingReady, ParkCheck, ParkAnnounce, ParkRecheck, boot_allocates, SpawnNotify,
                start, release_reservation, spawn_suspended, TrapFrameFault, StartNotify,
                block_current_process, wake_blocked_process, wake_receiver_fails, OrphansDone,
                KillScanFound, KillFinalize, KillAlreadyGone, KillSendEvict, KillSpinDone,
                KillWithdraw, allocate_pid
<1>2. CASE Interrupt(c)
    BY <1>2 DEF Interrupt, ring3_timer_tick, on_timer_tick, Ring0Timer, Ring0Reschedule,
                on_reschedule_ipi_evicts, on_reschedule_ipi_ignores
<1>3. CASE Request(c)
    BY <1>3 DEF Request, sys_spawn, allocate_pid, start_child, on_syscall_yield, on_timer_tick,
                wait_reaps, wait_blocks, RegisterWaiter, TakeWaiter, terminate_current_process,
                KillCheck, KillTimeout
<1> QED BY <1>1, <1>2, <1>3 DEF Step

\* Every step keeps a halted machine empty.
LEMMA HaltedStep ==
    ASSUME SchedulerInv, HaltedMeansDone, NEW c \in Core, Step(c)
    PROVE  HaltedMeansDone'
<1>a. pc \in [Core -> PcValue] /\ slot \in [Index -> {"Empty", "Reserved", "Occupied", "Zombie"}]
    BY DEF SchedulerInv, TypeOK
<1>1. ASSUME spawned = Boot, all_processes_empty PROVE (spawned = Boot /\ all_processes_empty)'
  <2>1. \A d \in Core : current[d] = None
      BY <1>1, PidLemma DEF all_processes_empty, SchedulerInv, DispatchSafe, Occupied
  <2>2. pc[c] \notin {"user", "build", "scan"}
      BY <2>1 DEF SchedulerInv, CurrentInKernel, Where, Killing
  <2>3. ~spawn(c)
      BY <1>1, SpawnLemma DEF all_processes_empty
  <2>4. ~boot_allocates(c)
      BY <1>1, SchedulerAssumption, SMTT(60) DEF boot_allocates
  <2>5. UNCHANGED slot
    <3>1. CASE Quiet(c)
        BY <3>1 DEF Quiet
    <3>2. CASE PureDispatch(c) \/ BlockDispatch(c)
        BY <3>2 DEF PureDispatch, BlockDispatch, Redispatch
    <3>3. CASE wait_reaps(c) \/ release_reservation(c) \/ spawn_suspended(c)
        BY <2>2, <3>3 DEF wait_reaps, release_reservation, spawn_suspended
    <3>4. CASE RegisterWaiter(c) \/ TakeWaiter(c) \/ wake_blocked_process(c) \/ wake_receiver_fails(c)
        BY <3>4 DEF RegisterWaiter, TakeWaiter, wake_blocked_process, wake_receiver_fails, tableVars
    <3>5. CASE start_child(c) \/ KillCheck(c)
        BY <3>5 DEF start_child, KillCheck, tableVars
    <3>6. CASE \E p \in Pid : Finalized(c, p)
        BY <1>1, <3>6 DEF Finalized, Occupied, all_processes_empty
    <3>7. CASE Allocates(c)
      <4>1. pc[c] = "boot" /\ pc'[c] = "create"
          BY <1>a, <2>2, <3>7 DEF Allocates
      <4>2. Flow(c)
          BY FlowLemma
      <4>3. BootFlow(c)
          BY <4>1, <4>2, FlowRanges DEF Flow, Goes
      <4> QED BY <2>4, <4>1, <4>3 DEF BootFlow, Goes
    <3> QED BY <2>3, <3>1, <3>2, <3>3, <3>4, <3>5, <3>6, <3>7, StepShapes DEF Shape
  <2>6. spawned' = spawned
      BY <2>3, SpawnedStep
  <2> QED BY <1>1, <2>5, <2>6 DEF all_processes_empty
<1>2. ASSUME NEW d \in Core, pc'[d] = "halted" PROVE (spawned = Boot /\ all_processes_empty)'
  <2>1. CASE d # c
      BY <1>1, <1>2, <2>1, KeptLemma DEF Kept, HaltedMeansDone
  <2>2. CASE d = c
    <3>1. IdleNothingReady(c)
      <4>1. Flow(c)
          BY FlowLemma
      <4>2. IdleFlow(c)
          BY <1>2, <2>2, <4>1, FlowRanges DEF Flow, Goes
      <4> QED BY <1>2, <2>2, <4>2 DEF IdleFlow, Goes
    <3>2. spawned = Boot /\ all_processes_empty
        BY <1>a, <1>2, <2>2, <3>1 DEF IdleNothingReady, Halt
    <3> QED BY <1>1, <3>2
  <2> QED BY <2>1, <2>2
<1> QED BY <1>2 DEF HaltedMeansDone

\* A step that queues a process where none was queued tells the sleeping cores, or
\* is start_child or spawn, which do so next.
LEMMA WorkIsAnnounced ==
    ASSUME SchedulerInv, NEW c \in Core, Step(c), NEW d \in Core \ {c}, idle[d],
           ready = <<>>, ready' # <<>>
    PROVE  ipi'[d] \/ pc'[c] \in {"notify", "publish"}
<1>a. /\ ipi \in [Core -> BOOLEAN] /\ idle \in [Core -> BOOLEAN] /\ pc \in [Core -> PcValue]
      /\ Elems(ready) = {}
    BY SMTT(60) DEF SchedulerInv, TypeOK, Elems
<1>b. pc[c] = "user" => current[c] \in Pid
    BY CurrentLemma
<1> USE DEF tableVars, dispatchVars
<1>1. CASE Quiet(c)
    BY <1>1 DEF Quiet
<1>2. CASE IdleDispatch(c)
    BY <1>2 DEF IdleDispatch
<1>3. CASE on_timer_tick(c)
  <2>1. ready' = Tail(Append(<<>>, current[c])) /\ current[c] \in Pid
      BY <1>b, <1>3 DEF on_timer_tick
  <2> QED BY <2>1, SMT
<1>4. CASE ExitDispatch(c)
    BY <1>4 DEF ExitDispatch, switch_to_next_or_halt
<1>5. CASE on_reschedule_ipi_evicts(c)
    BY <1>5 DEF on_reschedule_ipi_evicts, switch_to_next_or_halt
<1>6. CASE BlockAndSwitch(c)
  <2>1. CASE pending_wake[current[c].index]
    <3>1. ipi' = notify_idle_cores
        BY <1>6, <2>1 DEF BlockAndSwitch
    <3> QED BY <1>a, <3>1 DEF notify_idle_cores
  <2>2. CASE ~pending_wake[current[c].index]
    <3>1. \E st, k : switch_to_next_or_halt(c, ready, st, k, {})
        BY <1>6, <2>2 DEF BlockAndSwitch
    <3> QED BY <3>1 DEF switch_to_next_or_halt
  <2> QED BY <2>1, <2>2
<1>7. CASE wait_reaps(c)
    BY <1>7 DEF wait_reaps
<1>8. CASE RegisterWaiter(c)
    BY <1>8 DEF RegisterWaiter
<1>9. CASE TakeWaiter(c)
    BY <1>9 DEF TakeWaiter
<1>10. CASE wake_blocked_process(c)
    BY <1>a, <1>10 DEF wake_blocked_process, notify_idle_cores
<1>11. CASE Allocates(c)
    BY <1>11 DEF Allocates, allocate_pid
<1>12. CASE release_reservation(c)
    BY <1>12 DEF release_reservation
<1>13. CASE spawn_suspended(c)
    BY <1>13 DEF spawn_suspended
<1>14. CASE start_child(c)
    BY <1>a, <1>14 DEF start_child
<1>15. CASE KillCheck(c)
    BY <1>15 DEF KillCheck
<1>16. CASE \E p \in Pid : take_and_finalize_slot(p)
  <2>1. PICK p \in Pid : take_and_finalize_slot(p)
      BY <1>16
  <2>2. WithoutPid(ready, p) = <<>>
      BY SMTT(60) DEF WithoutPid
  <2>3. ipi' = notify_idle_cores
      BY <2>1, <2>2 DEF take_and_finalize_slot
  <2> QED BY <1>a, <2>3 DEF notify_idle_cores
<1>17. CASE wake_receiver_fails(c)
    BY <1>17 DEF wake_receiver_fails
<1>18. CASE spawn(c)
    BY <1>a, <1>18 DEF spawn
<1> QED BY <1>1, <1>2, <1>3, <1>4, <1>5, <1>6, <1>7, <1>8, <1>9, <1>10, <1>11, <1>12, <1>13, <1>14, <1>15, <1>16, <1>17, <1>18,
      StepCases, FinalizeLemma DEF Loud, block_current_process, wait_blocks

\* Every step keeps the sleepers announced and woken.
LEMMA SleepStep ==
    ASSUME SchedulerInv, SleeperIsIdle, NoSleepThroughWork, NEW c \in Core, Step(c)
    PROVE  SleeperIsIdle' /\ NoSleepThroughWork'
<1>a. /\ pc \in [Core -> PcValue] /\ idle \in [Core -> BOOLEAN] /\ ipi \in [Core -> BOOLEAN]
    BY DEF SchedulerInv, TypeOK
<1>b. Flow(c)
    BY FlowLemma
<1>1. ASSUME NEW d \in Core, pc'[d] = "hlt"
      PROVE  idle'[d] /\ (ready' # <<>> => ipi'[d] \/ \E e \in Core : pc'[e] \in {"notify", "publish"})
  <2>1. CASE d = c
    <3>1. ParkRecheck(c)
      <4>1. IdleFlow(c)
          BY <1>b, <1>1, <2>1, FlowRanges DEF Flow, Goes
      <4> QED BY <1>1, <2>1, <4>1 DEF IdleFlow, Goes
    <3> QED BY <1>a, <1>1, <2>1, <3>1 DEF ParkRecheck, dispatchVars
  <2>2. CASE d # c
    <3>1. pc[d] = "hlt" /\ idle[d] /\ idle'[d] /\ (ipi[d] => ipi'[d])
        BY <1>1, <2>2, KeptLemma DEF Kept, SleeperIsIdle
    <3>2. CASE ipi[d]
        BY <3>1, <3>2
    <3>3. CASE \E e \in Core : pc[e] \in {"notify", "publish"}
      <4>1. PICK e \in Core : pc[e] \in {"notify", "publish"}
          BY <3>3
      <4>2. CASE e # c
          BY <3>1, <4>1, <4>2, KeptLemma, ZenonT(60) DEF Kept
      <4>3. CASE e = c
        <5>1. StartNotify(c) \/ SpawnNotify(c)
          <6>1. CallFlow(c) \/ BootFlow(c)
              BY <1>b, <4>1, <4>3, FlowRanges DEF Flow, Goes
          <6> QED BY <4>1, <4>3, <6>1 DEF CallFlow, BootFlow, Goes
        <5> QED BY <3>1, <5>1 DEF StartNotify, SpawnNotify, notify_idle_cores
      <4> QED BY <4>2, <4>3
    <3>4. CASE ready = <<>>
        BY <2>2, <3>1, <3>4, WorkIsAnnounced
    <3> QED BY <3>1, <3>2, <3>3, <3>4 DEF NoSleepThroughWork
  <2> QED BY <2>1, <2>2
<1> QED BY <1>1 DEF SleeperIsIdle, NoSleepThroughWork

(***************************************************************************)
(* What a dispatch does to the processes.                                  *)
(***************************************************************************)

\* Core c dispatches from queue q, the processes being in states st: q is the ready
\* queue, perhaps with c's own process requeued; nobody else's state has changed.
\* A process that is not put back keeps its state only if it is being evicted.
DispatchesFrom(c, q, st) ==
    /\ Dispatched(c, q, st)
    /\ UNCHANGED <<slot, gen, arg>>
    /\ pc[c] \in {"idle", "user", "orphans", "block"}
    /\ st \in [Index -> States]
    /\ Elems(ready) \subseteq Elems(q)
    /\ \A p \in Elems(q) : p \in Pid /\ Occupied(p) /\ st[p.index] = "Ready"
    /\ \A i \in Index :
         \/ st[i] = state[i]
         \/ /\ current[c] # None /\ i = current[c].index /\ st[i] \in {"Ready", "Blocked"}
            /\ st[i] = "Ready" => current[c] \in Elems(q)
    /\ \/ st = state /\ current[c] = None
       \/ st = state /\ on_reschedule_ipi_evicts(c)
       \/ current[c] # None /\ st[current[c].index] # "Running"

Dispatching(c) ==
    \/ IdleDispatch(c) \/ on_timer_tick(c) \/ ExitDispatch(c) \/ on_reschedule_ipi_evicts(c)
    \/ block_current_process(c) \/ wait_blocks(c)

\* Every dispatch is of the form DispatchesFrom describes.
LEMMA DispatchesLemma ==
    ASSUME SchedulerInv, IdleHasNone, NEW c \in Core, Dispatching(c)
    PROVE  \E q, st : DispatchesFrom(c, q, st)
<1>a. /\ ready \in Seq(Pid) /\ Distinct(ready) /\ state \in [Index -> States]
      /\ \A p \in Elems(ready) : p \in Pid /\ Occupied(p) /\ state[p.index] = "Ready"
  <2>1. ready \in Seq(Pid) /\ state \in [Index -> States]
      BY DEF SchedulerInv, TypeOK, States
  <2>2. DispatchSafe
      BY DEF SchedulerInv
  <2> QED BY <2>1, <2>2, SMTT(60) DEF DispatchSafe, Queued, Elems
<1>b. pc[c] \in {"user", "block"} => current[c] # None /\ current[c] \in Pid /\ current[c].index \in Index
        /\ Occupied(current[c]) /\ state[current[c].index] = "Running" /\ current[c] \notin Elems(ready)
    BY <1>a, CurrentLemma
<1>c. TypeOK
    BY DEF SchedulerInv
<1> USE DEF tableVars, dispatchVars, killVars
<1>1. CASE IdleDispatch(c)
  <2>1. Head(ready) \in Elems(ready) /\ Head(ready) \in Pid /\ Distinct(Tail(ready))
        /\ Elems(Tail(ready)) = Elems(ready) \ {Head(ready)} /\ Tail(ready) \in Seq(Pid)
      BY <1>1, <1>a, PopLemma DEF IdleDispatch
  <2>2. Dispatched(c, ready, state)
      BY <1>1, <2>1 DEF IdleDispatch, switch_to, Dispatched
  <2>3. current[c] = None /\ pc[c] = "idle" /\ UNCHANGED <<slot, gen, arg>>
      BY <1>1 DEF IdleDispatch, IdleHasNone, Where
  <2>4. DispatchesFrom(c, ready, state)
      BY <1>a, <2>2, <2>3 DEF DispatchesFrom
  <2> QED BY <2>4
<1>2. CASE ExitDispatch(c)
  <2>1. Dispatched(c, ready, state)
      BY <1>2, <1>a, <1>c, DispatchLemma DEF ExitDispatch
  <2>2. current[c] = None /\ pc[c] = "orphans" /\ UNCHANGED <<slot, gen, arg>>
      BY <1>2 DEF ExitDispatch, IdleHasNone, Where
  <2>3. DispatchesFrom(c, ready, state)
      BY <1>a, <2>1, <2>2 DEF DispatchesFrom
  <2> QED BY <2>3
<1>3. CASE on_reschedule_ipi_evicts(c)
  <2>1. Dispatched(c, ready, state)
      BY <1>3, <1>a, <1>c, DispatchLemma DEF on_reschedule_ipi_evicts
  <2>2. pc[c] = "user" /\ UNCHANGED <<slot, gen, arg>>
      BY <1>3 DEF on_reschedule_ipi_evicts
  <2>3. DispatchesFrom(c, ready, state)
      BY <1>3, <1>a, <2>1, <2>2 DEF DispatchesFrom
  <2> QED BY <2>3
<1>4. CASE on_timer_tick(c)
  <2> DEFINE p == current[c]
             q == Append(ready, p)
             st == [state EXCEPT ![p.index] = "Ready"]
  <2>1. pc[c] = "user" /\ UNCHANGED <<slot, gen, arg>>
      BY <1>4 DEF on_timer_tick
  <2>2. p \in Pid /\ p.index \in Index /\ p \notin Elems(ready) /\ Occupied(p) /\ p # None
      BY <1>b, <2>1
  <2>3. q \in Seq(Pid) /\ Distinct(q) /\ Elems(q) = Elems(ready) \union {p} /\ q # <<>>
      BY <1>a, <2>2, PushLemma
  <2>4. Head(q) \in Elems(q) /\ Head(q) \in Pid /\ Distinct(Tail(q))
        /\ Elems(Tail(q)) = Elems(q) \ {Head(q)} /\ Tail(q) \in Seq(Pid)
      BY <2>3, PopLemma
  <2>5. ready' = Tail(q) /\ switch_to(c, Head(q), st) /\ pc' = [pc EXCEPT ![c] = "drain"]
      BY <1>4 DEF on_timer_tick
  <2>6. st \in [Index -> States] /\ st[p.index] = "Ready"
        /\ \A i \in Index : i # p.index => st[i] = state[i]
      BY <1>a, <2>2 DEF States
  <2>7. \A x \in Elems(q) : x \in Pid /\ Occupied(x) /\ st[x.index] = "Ready"
    <3>1. ASSUME NEW x \in Elems(ready) PROVE x \in Pid /\ Occupied(x) /\ st[x.index] = "Ready"
        BY <1>a, <2>6, PidLemma
    <3> QED BY <2>2, <2>3, <2>6, <3>1
  <2> HIDE DEF q, st
  <2>8. Dispatched(c, q, st)
      BY <2>4, <2>5 DEF Dispatched, switch_to
  <2>9. DispatchesFrom(c, q, st)
      BY <2>1, <2>2, <2>3, <2>6, <2>7, <2>8 DEF DispatchesFrom
  <2> QED BY <2>9
<1>5. CASE block_current_process(c) \/ wait_blocks(c)
  <2> DEFINE p == current[c]
             woken == pending_wake[p.index]
             q == IF woken THEN Append(ready, p) ELSE ready
             st == [state EXCEPT ![p.index] = IF woken THEN "Ready" ELSE "Blocked"]
  <2>1. pc[c] \in {"user", "block"} /\ UNCHANGED <<slot, gen, arg>> /\ BlockAndSwitch(c)
      BY <1>5 DEF block_current_process, wait_blocks
  <2>2. p \in Pid /\ p.index \in Index /\ p \notin Elems(ready) /\ Occupied(p) /\ p # None
        /\ state[p.index] = "Running"
      BY <1>b, <2>1
  <2>3. woken \in BOOLEAN
      BY <1>c, <2>2 DEF TypeOK
  <2>4. q \in Seq(Pid) /\ Distinct(q) /\ Elems(q) = IF woken THEN Elems(ready) \union {p} ELSE Elems(ready)
      BY <1>a, <2>2, PushLemma
  <2>5. switch_to_next_or_halt(c, q, st, p.index, {})
      BY <2>1 DEF BlockAndSwitch
  <2>6. st \in [Index -> States] /\ st[p.index] = (IF woken THEN "Ready" ELSE "Blocked")
        /\ \A i \in Index : i # p.index => st[i] = state[i]
      BY <1>a, <2>2 DEF States
  <2>7. \A x \in Elems(q) : x \in Pid /\ Occupied(x) /\ st[x.index] = "Ready"
    <3>1. ASSUME NEW x \in Elems(ready) PROVE x \in Pid /\ Occupied(x) /\ st[x.index] = "Ready"
      <4>1. x.index # p.index
          BY <1>a, <2>2
      <4> QED BY <1>a, <2>6, <4>1, PidLemma
    <3> QED BY <2>2, <2>4, <2>6, <3>1
  <2>8. st[p.index] \in {"Ready", "Blocked"} /\ (st[p.index] = "Ready" => p \in Elems(q))
      BY <2>3, <2>4, <2>6, SMTT(60)
  <2> HIDE DEF q, st, woken
  <2>9. Dispatched(c, q, st)
      BY <1>c, <2>4, <2>5, DispatchLemma
  <2>10. Elems(ready) \subseteq Elems(q)
      BY <2>4
  <2>11. DispatchesFrom(c, q, st)
      BY <2>1, <2>2, <2>6, <2>7, <2>8, <2>9, <2>10 DEF DispatchesFrom
  <2> QED BY <2>11
<1> QED BY <1>1, <1>2, <1>3, <1>4, <1>5 DEF Dispatching

\* A running process that is current nowhere, because it was evicted, is left alone
\* until it is finalized: it never runs again and nobody requeues it.
LEMMA EvictedStays ==
    ASSUME SchedulerInv, IdleHasNone, NEW c \in Core, Step(c), NEW p \in Pid,
           Occupied(p), state[p.index] = "Running", \A d \in Core : current[d] # p, Occupied(p)'
    PROVE  state'[p.index] = "Running" /\ \A d \in Core : current'[d] # p
<1>a. /\ p.index \in Index /\ p # None /\ state \in [Index -> States]
      /\ current \in [Core -> Pid \union {None}]
      /\ \A d \in Core : current[d] # None => current[d] \in Pid /\ Occupied(current[d])
    BY PidLemma, SMTT(60) DEF SchedulerInv, TypeOK, DispatchSafe, States
<1> USE DEF tableVars, dispatchVars
<1>1. CASE Quiet(c)
    BY <1>1 DEF Quiet
<1>2. CASE Dispatching(c)
  <2>1. PICK q, st : DispatchesFrom(c, q, st)
      BY <1>2, DispatchesLemma
  <2>2. st[p.index] = "Running" /\ st \in [Index -> States]
    <3>1. current[c] # None => current[c].index # p.index
        BY <1>a, OccupiedUnique
    <3> QED BY <1>a, <2>1, <3>1 DEF DispatchesFrom
  <2>3. \A n \in Elems(q) : n \in Pid /\ n.index # p.index /\ n # p /\ n.index \in Index
    <3>1. \A n \in Elems(q) : n \in Pid /\ st[n.index] = "Ready"
        BY <2>1 DEF DispatchesFrom
    <3> QED BY <2>2, <3>1, PidLemma
  <2>4. \/ \E n \in Elems(q) : current' = [current EXCEPT ![c] = n] /\ state' = [st EXCEPT ![n.index] = "Running"]
        \/ current' = [current EXCEPT ![c] = None] /\ state' = st
      BY <2>1 DEF DispatchesFrom, Dispatched
  <2> QED BY <1>a, <2>2, <2>3, <2>4
<1>3. CASE wait_reaps(c)
    BY <1>3 DEF wait_reaps
<1>4. CASE RegisterWaiter(c)
    BY <1>4 DEF RegisterWaiter
<1>5. CASE TakeWaiter(c)
    BY <1>5 DEF TakeWaiter
<1>6. CASE wake_blocked_process(c)
    BY <1>6, <1>a DEF wake_blocked_process
<1>7. CASE Allocates(c)
    BY <1>7 DEF Allocates, allocate_pid
<1>8. CASE release_reservation(c)
    BY <1>8 DEF release_reservation
<1>9. CASE spawn_suspended(c)
  <2>1. arg[c].index # p.index
      BY <1>9 DEF spawn_suspended, SchedulerInv, ReservationOwned, Building, Occupied
  <2> QED BY <1>9, <1>a, <2>1 DEF spawn_suspended
<1>10. CASE start_child(c)
    BY <1>10, <1>a DEF start_child
<1>11. CASE KillCheck(c)
    BY <1>11 DEF KillCheck
<1>12. CASE \E x \in Pid : Finalized(c, x) /\ take_and_finalize_slot(x)
  <2>1. PICK x \in Pid : Finalized(c, x)
      BY <1>12
  <2>2. p.index \notin Dying(x)
      BY <2>1, <1>a DEF Finalized, Occupied
  <2> QED BY <2>1, <2>2, <1>a DEF Finalized
<1>13. CASE wake_receiver_fails(c)
    BY <1>13 DEF wake_receiver_fails
<1>14. CASE spawn(c)
  <2>1. arg[c].index # p.index
      BY <1>14, SpawnLemma DEF Occupied
  <2> QED BY <1>14, <1>a, <2>1 DEF spawn
<1> QED BY <1>1, <1>2, <1>3, <1>4, <1>5, <1>6, <1>7, <1>8, <1>9, <1>10, <1>11, <1>12, <1>13, <1>14,
      StepCases, FinalizeLemma DEF Loud, Dispatching

\* Only allocate_pid changes a generation or reserves a slot, and only one that is
\* empty with a stack nobody is still leaving.
LEMMA SlotStep ==
    ASSUME SchedulerInv, NEW c \in Core, Step(c), NEW i \in Index
    PROVE  \/ gen'[i] = gen[i] /\ (slot'[i] = "Reserved" => slot[i] = "Reserved")
           \/ Allocates(c) /\ FreeIndex(i) /\ pc'[c] \in Building /\ arg'[c].index = i
<1>a. /\ slot \in [Index -> {"Empty", "Reserved", "Occupied", "Zombie"}] /\ gen \in [Index -> Nat]
      /\ pc \in [Core -> PcValue] /\ arg \in [Core -> Pid \union {None, OutOfRange}]
    BY DEF SchedulerInv, TypeOK
<1> USE DEF tableVars
<1>1. CASE Quiet(c)
    BY <1>1 DEF Quiet
<1>2. CASE PureDispatch(c) \/ BlockDispatch(c)
    BY <1>2 DEF PureDispatch, BlockDispatch, Redispatch
<1>3. CASE wait_reaps(c)
    BY <1>3, <1>a DEF wait_reaps
<1>4. CASE RegisterWaiter(c) \/ TakeWaiter(c) \/ wake_blocked_process(c)
    BY <1>4 DEF RegisterWaiter, TakeWaiter, wake_blocked_process
<1>5. CASE Allocates(c)
  <2>1. CASE UNCHANGED <<gen, slot>>
      BY <2>1
  <2>2. CASE \E j \in Index :
            /\ FreeIndex(j) /\ gen' = [gen EXCEPT ![j] = @ + 1]
            /\ slot' = [slot EXCEPT ![j] = "Reserved"]
            /\ arg' = [arg EXCEPT ![c] = PidAt(j, gen[j] + 1)]
    <3>1. PICK j \in Index :
            /\ FreeIndex(j) /\ gen' = [gen EXCEPT ![j] = @ + 1]
            /\ slot' = [slot EXCEPT ![j] = "Reserved"]
            /\ arg' = [arg EXCEPT ![c] = PidAt(j, gen[j] + 1)]
        BY <2>2
    <3>2. arg'[c].index = j /\ pc'[c] \in Building
      <4>1. gen[j] + 1 \in Nat
          BY <1>a, SMT
      <4>2. arg'[c] = PidAt(j, gen[j] + 1)
          BY <1>a, <3>1
      <4>3. pc'[c] \in Building
          BY <1>5, <1>a DEF Allocates, Building
      <4> QED BY <4>1, <4>2, <4>3, PidLemma, SMT
    <3>3. CASE i # j
        BY <1>a, <3>1, <3>3
    <3>4. CASE i = j
        BY <1>5, <3>1, <3>2, <3>4
    <3> QED BY <3>3, <3>4
  <2> QED BY <1>5, <2>1, <2>2 DEF Allocates, allocate_pid
<1>6. CASE release_reservation(c)
    BY <1>6, <1>a DEF release_reservation
<1>7. CASE spawn_suspended(c)
    BY <1>7, <1>a DEF spawn_suspended
<1>8. CASE start_child(c) \/ KillCheck(c)
    BY <1>8 DEF start_child, KillCheck
<1>9. CASE \E p \in Pid : Finalized(c, p)
  <2>1. PICK p \in Pid : Finalized(c, p)
      BY <1>9
  <2>2. gen' = gen /\ Occupied(p)
      BY <2>1 DEF Finalized
  <2> QED BY <2>1, <2>2, DyingLemma DEF Finalized
<1>10. CASE spawn(c)
    BY <1>10, <1>a DEF spawn
<1>11. CASE wake_receiver_fails(c)
    BY <1>11 DEF wake_receiver_fails
<1> QED BY <1>1, <1>2, <1>3, <1>4, <1>5, <1>6, <1>7, <1>8, <1>9, <1>10, <1>11, StepShapes DEF Shape

\* A killer stays in terminate_process, after the same process, until that process
\* is out of the table.
LEMMA KillerStays ==
    ASSUME SchedulerInv, NEW c \in Core, Step(c), NEW d \in Core, NEW p \in Pid,
           pc[d] \in Killing, arg[d] = p, Occupied(p)'
    PROVE  pc'[d] \in Killing /\ arg'[d] = p
<1>a. /\ pc \in [Core -> PcValue] /\ arg \in [Core -> Pid \union {None, OutOfRange}]
    BY DEF SchedulerInv, TypeOK
<1>1. CASE d # c
    BY <1>1, KeptLemma DEF Kept
<1>2. CASE d = c
  <2>1. Flow(c)
      BY FlowLemma
  <2>2. \/ KillScanFound(c) \/ KillSendEvict(c) \/ KillSpinDone(c) \/ KillTimeout(c) \/ KillWithdraw(c)
        \/ KillFinalize(c) \/ KillAlreadyGone(c)
    <3>1. KillFlow(c)
        BY <1>2, <2>1, FlowRanges DEF Flow, Goes, Killing
    <3> QED BY <3>1 DEF KillFlow
  <2> USE DEF Killing, killVars, tableVars
  <2>3. CASE KillScanFound(c)
      BY <1>a, <1>2, <2>3 DEF KillScanFound
  <2>4. CASE KillSendEvict(c)
      BY <1>a, <1>2, <2>4 DEF KillSendEvict
  <2>5. CASE KillSpinDone(c)
      BY <1>a, <1>2, <2>5 DEF KillSpinDone
  <2>6. CASE KillTimeout(c)
      BY <1>a, <1>2, <2>6 DEF KillTimeout
  <2>7. CASE KillWithdraw(c)
      BY <1>a, <1>2, <2>7 DEF KillWithdraw
  <2>8. CASE KillAlreadyGone(c)
      BY <1>2, <2>8 DEF KillAlreadyGone, Occupied
  <2>9. CASE KillFinalize(c)
    <3>1. take_and_finalize_slot(p) /\ p.index \in Index
        BY <1>2, <2>9, PidLemma DEF KillFinalize
    <3>2. slot'[p.index] # "Occupied"
        BY <3>1 DEF take_and_finalize_slot, FinalSlot, Dying
    <3> QED BY <3>2 DEF Occupied
  <2> QED BY <2>2, <2>3, <2>4, <2>5, <2>6, <2>7, <2>8, <2>9
<1> QED BY <1>1, <1>2

(***************************************************************************)
(* Stacks and address spaces.                                              *)
(***************************************************************************)

\* Every step leaves an idle or exiting core without a current process.
LEMMA IdleStep ==
    ASSUME SchedulerInv, IdleHasNone, OutgoingHasLeft, NEW c \in Core, Step(c)
    PROVE  IdleHasNone'
<1> DEFINE Idling == {"abandon", "idle", "park", "announce", "recheck", "hlt", "halted", "early",
                      "boot", "create", "publish"}
<1>a. /\ pc \in [Core -> PcValue] /\ back \in [Core -> {"user", "orphans", "drain", "idle", "boot"}]
      /\ current \in [Core -> Pid \union {None}] /\ outgoing \in [Core -> Pid \union {None}]
    BY DEF SchedulerInv, TypeOK
<1>b. Flow(c)
    BY FlowLemma
<1>1. ASSUME NEW d \in Core \ {c},
             (Where(d) \in Idling \/ (Where(d) = "orphans" /\ outgoing[d] # None))'
      PROVE  current'[d] = None
  <2>1. Where(d)' = Where(d) /\ outgoing'[d] = outgoing[d] /\ current'[d] = current[d]
      BY KeptLemma DEF Kept, Where
  <2> QED BY <1>1, <2>1 DEF IdleHasNone
<1>2. ASSUME (Where(c) \in Idling \/ (Where(c) = "orphans" /\ outgoing[c] # None))'
      PROVE  current'[c] = None
  <2> USE DEF tableVars, dispatchVars, flowVars, killVars, exitVars, wakeVars, ipcVars, bootVars
  <2>1. CASE Abandoned(c) \/ BootFlow(c) \/ IdleNothingReady(c) \/ ParkCheck(c) \/ ParkAnnounce(c) \/ ParkRecheck(c)
             \/ Ring0Reschedule(c) \/ Ring0Timer(c)
    <3>1. current[c] = None
        BY <2>1 DEF Abandoned, IdleNothingReady, ParkCheck, ParkAnnounce, ParkRecheck,
                    Ring0Reschedule, Ring0Timer, BootFlow, Goes, IdleHasNone, Where
    <3>2. UNCHANGED current
        BY <2>1 DEF Abandoned, IdleNothingReady, ParkCheck, ParkAnnounce, ParkRecheck,
                    Ring0Reschedule, Ring0Timer, BootFlow, boot_allocates, allocate_pid, spawn,
                    SpawnNotify, start
    <3> QED BY <3>1, <3>2
  <2>2. CASE Dispatching(c)
    <3>1. PICK q, st : DispatchesFrom(c, q, st)
        BY <2>2, DispatchesLemma
    <3>2. CASE \E x \in {"drain", "drop", "user"} : pc' = [pc EXCEPT ![c] = x]
        BY <1>a, <1>2, <3>2 DEF Where
    <3>3. CASE current' = [current EXCEPT ![c] = None]
        BY <1>a, <3>3
    <3> QED BY <3>1, <3>2, <3>3 DEF DispatchesFrom, Dispatched
  <2>3. CASE TakeWaiter(c)
    <3>1. Where(c)' = pc[c] /\ pc[c] # "wake" /\ UNCHANGED <<outgoing, current>>
        BY <1>a, <2>3 DEF TakeWaiter, Where
    <3>2. Where(c)' = Where(c)
        BY <3>1 DEF Where
    <3> QED BY <1>2, <3>1, <3>2 DEF IdleHasNone
  <2>4. CASE wake_blocked_process(c) \/ wake_receiver_fails(c)
    <3>1. Where(c)' = back[c] /\ pc[c] = "wake" /\ UNCHANGED <<outgoing, current>>
        BY <1>a, <2>4 DEF wake_blocked_process, wake_receiver_fails, AfterWake, Where
    <3>2. Where(c)' = Where(c)
        BY <3>1 DEF Where
    <3> QED BY <1>2, <3>1, <3>2 DEF IdleHasNone
  <2>5. CASE terminate_current_process(c)
    <3>1. take_and_finalize_slot(current[c])
        BY <2>5 DEF terminate_current_process
    <3> QED BY <3>1 DEF take_and_finalize_slot
  <2>6. CASE KillFinalize(c)
    <3>1. pc[c] = "scan"
        BY <2>6 DEF KillFinalize
    <3>2. outgoing'[c] = outgoing[c] /\ pc'[c] = "orphans"
        BY <1>a, <2>6 DEF KillFinalize
    <3>3. outgoing[c] = None
        BY <3>1 DEF OutgoingHasLeft, Where
    <3> QED BY <1>2, <3>2, <3>3 DEF Where
  <2>7. CASE Where(c)' \notin Idling \union {"orphans"}
      BY <1>2, <2>7
  <2> QED
    <3>1. \/ Abandoned(c) \/ IdleNothingReady(c) \/ ParkCheck(c) \/ ParkAnnounce(c) \/ ParkRecheck(c)
          \/ Ring0Reschedule(c) \/ Ring0Timer(c) \/ IdleDispatch(c) \/ OrphansDone(c)
          \/ block_current_process(c) \/ wait_blocks(c) \/ on_reschedule_ipi_evicts(c)
          \/ TakeWaiter(c) \/ wake_blocked_process(c) \/ wake_receiver_fails(c) \/ BootFlow(c)
          \/ terminate_current_process(c) \/ KillFinalize(c)
          \/ pc'[c] \in {"user", "drain", "return", "build", "notify", "block", "panicked",
                         "scan", "evict", "spin", "giveup"}
      <4>1. CASE SwitchFlow(c)
          BY <4>1 DEF SwitchFlow, Goes
      <4>2. CASE IdleFlow(c)
          BY <4>2 DEF IdleFlow, Goes
      <4>3. CASE CallFlow(c)
          BY <4>3 DEF CallFlow, Goes
      <4>4. CASE KillFlow(c)
          BY <4>4 DEF KillFlow, Goes
      <4>5. CASE UserFlow(c)
          BY <4>5 DEF UserFlow, Goes
      <4> QED BY <1>b, <4>1, <4>2, <4>3, <4>4, <4>5 DEF Flow
    <3>2. pc'[c] \in {"user", "drain", "return", "build", "notify", "block", "panicked",
                      "scan", "evict", "spin", "giveup"} => Where(c)' \notin Idling \union {"orphans"}
        BY DEF Where
    <3>3. OrphansDone(c) => ExitDispatch(c) \/ pc'[c] = "user"
        BY <1>a DEF OrphansDone, ExitDispatch, ReturnToUser
    <3> QED BY <2>1, <2>2, <2>3, <2>4, <2>5, <2>6, <2>7, <3>1, <3>2, <3>3 DEF Dispatching
<1> QED BY <1>1, <1>2 DEF IdleHasNone

\* The steps that change which stacks are being left: all others leave outgoing and
\* stack_busy alone.
Leaving(c) == terminate_current_process(c) \/ on_reschedule_ipi_evicts(c)

Left(c) == ClearStackBusy(c) \/ Abandoned(c)

\* A step that neither starts nor ends leaving a stack changes no such mark.
LEMMA LeavingLemma ==
    ASSUME SchedulerInv, NEW c \in Core, Step(c), ~Leaving(c), ~Left(c)
    PROVE  UNCHANGED <<outgoing, stack_busy>>
<1> USE DEF exitVars
<1>1. CASE DropPending(c)
    BY <1>1 DEF DropPending
<1>2. CASE Resume(c)
    BY <1>2 DEF Resume
<1>3. CASE IdleDispatch(c)
    BY <1>3 DEF IdleDispatch
<1>4. CASE IdleNothingReady(c)
    BY <1>4 DEF IdleNothingReady
<1>5. CASE ParkCheck(c)
    BY <1>5 DEF ParkCheck
<1>6. CASE ParkAnnounce(c)
    BY <1>6 DEF ParkAnnounce
<1>7. CASE ParkRecheck(c)
    BY <1>7 DEF ParkRecheck
<1>8. CASE Ring0Reschedule(c)
    BY <1>8 DEF Ring0Reschedule
<1>9. CASE Ring0Timer(c)
    BY <1>9 DEF Ring0Timer
<1>10. CASE release_reservation(c)
    BY <1>10 DEF release_reservation
<1>11. CASE spawn_suspended(c)
    BY <1>11 DEF spawn_suspended
<1>12. CASE TrapFrameFault(c)
    BY <1>12 DEF TrapFrameFault
<1>13. CASE StartNotify(c)
    BY <1>13 DEF StartNotify
<1>14. CASE block_current_process(c)
    BY <1>14 DEF block_current_process
<1>15. CASE wake_blocked_process(c)
    BY <1>15 DEF wake_blocked_process
<1>16. CASE OrphansDone(c)
    BY <1>16 DEF OrphansDone
<1>17. CASE KillScanFound(c)
    BY <1>17 DEF KillScanFound
<1>18. CASE KillFinalize(c)
    BY <1>18 DEF KillFinalize
<1>19. CASE KillAlreadyGone(c)
    BY <1>19 DEF KillAlreadyGone
<1>20. CASE KillSendEvict(c)
    BY <1>20 DEF KillSendEvict
<1>21. CASE KillSpinDone(c)
    BY <1>21 DEF KillSpinDone
<1>22. CASE KillTimeout(c)
    BY <1>22 DEF KillTimeout
<1>23. CASE KillWithdraw(c)
    BY <1>23 DEF KillWithdraw
<1>24. CASE on_timer_tick(c)
    BY <1>24 DEF on_timer_tick
<1>25. CASE on_reschedule_ipi_ignores(c)
    BY <1>25 DEF on_reschedule_ipi_ignores
<1>26. CASE Allocates(c)
    BY <1>26 DEF Allocates, allocate_pid
<1>27. CASE start_child(c)
    BY <1>27 DEF start_child
<1>28. CASE wait_reaps(c)
    BY <1>28 DEF wait_reaps
<1>29. CASE wait_blocks(c)
    BY <1>29 DEF wait_blocks
<1>30. CASE RegisterWaiter(c)
    BY <1>30 DEF RegisterWaiter
<1>31. CASE TakeWaiter(c)
    BY <1>31 DEF TakeWaiter
<1>32. CASE KillCheck(c)
    BY <1>32 DEF KillCheck
<1>33. CASE wake_receiver_fails(c)
    BY <1>33 DEF wake_receiver_fails
<1>34. CASE spawn(c)
    BY <1>34 DEF spawn
<1>35. CASE SpawnNotify(c)
    BY <1>35 DEF SpawnNotify
<1>36. CASE start(c)
    BY <1>36 DEF start
<1> QED BY <1>1, <1>2, <1>3, <1>4, <1>5, <1>6, <1>7, <1>8, <1>9, <1>10, <1>11, <1>12, <1>13, <1>14, <1>15, <1>16, <1>17, <1>18, <1>19, <1>20, <1>21, <1>22, <1>23, <1>24, <1>25, <1>26, <1>27, <1>28, <1>29, <1>30, <1>31, <1>32, <1>33, <1>34, <1>35, <1>36 DEF Step, KernelStep, Interrupt, Request, ring3_timer_tick, on_syscall_yield, sys_spawn, boot_allocates, Allocates, Leaving, Left

\* A core that keeps a stack to give back is still on its way to do so.
LEMMA LeavingFlow ==
    ASSUME SchedulerInv, NEW c \in Core, Step(c), outgoing[c] # None, outgoing'[c] # None,
           Where(c) \in {"orphans", "drop", "drain", "abandon"}
    PROVE  Where(c)' \in {"orphans", "drop", "drain", "abandon"}
<1>a. /\ pc \in [Core -> PcValue] /\ back \in [Core -> {"user", "orphans", "drain", "idle", "boot"}]
      /\ outgoing \in [Core -> Pid \union {None}]
    BY DEF SchedulerInv, TypeOK
<1>b. Flow(c)
    BY FlowLemma
<1>1. \/ DropPending(c) \/ ClearStackBusy(c) \/ Resume(c) \/ Abandoned(c) \/ OrphansDone(c)
      \/ TakeWaiter(c) \/ wake_blocked_process(c) \/ wake_receiver_fails(c)
  <2>1. pc[c] \in {"orphans", "drop", "drain", "abandon", "wake"}
      BY DEF Where
  <2>2. SwitchFlow(c) \/ CallFlow(c)
      BY <1>b, <2>1, FlowRanges DEF Flow, Goes
  <2>3. CASE SwitchFlow(c)
      BY <2>3 DEF SwitchFlow
  <2>4. CASE CallFlow(c)
      BY <2>1, <2>4 DEF CallFlow, Goes
  <2> QED BY <2>2, <2>3, <2>4
<1>2. CASE DropPending(c)
    BY <1>a, <1>2 DEF DropPending, Where
<1>3. CASE ClearStackBusy(c)
    BY <1>a, <1>3 DEF ClearStackBusy
<1>4. CASE Resume(c)
    BY <1>4 DEF Resume, Where
<1>5. CASE Abandoned(c)
    BY <1>a, <1>5 DEF Abandoned
<1>6. CASE OrphansDone(c)
    BY <1>a, <1>6 DEF OrphansDone, switch_to_next_or_halt, Where
<1>7. CASE TakeWaiter(c)
    BY <1>a, <1>7 DEF TakeWaiter, Where
<1>8. CASE wake_blocked_process(c) \/ wake_receiver_fails(c)
    BY <1>a, <1>8 DEF wake_blocked_process, wake_receiver_fails, AfterWake, Where
<1> QED BY <1>1, <1>2, <1>3, <1>4, <1>5, <1>6, <1>7, <1>8

\* What holds of a process whose stack is being left goes on holding while it is.
LEMMA LeftStays ==
    ASSUME SchedulerInv, IdleHasNone, OutgoingHasLeft, StackBusyProtects, NEW c \in Core, Step(c),
           NEW d \in Core, outgoing[d] # None, outgoing'[d] = outgoing[d]
    PROVE  /\ Where(d)' \in {"orphans", "drop", "drain", "abandon"}
           /\ (Occupied(outgoing[d]) =>
                 state[outgoing[d].index] = "Running" /\ \A e \in Core : current[e] # outgoing[d])'
           /\ (gen[outgoing[d].index] = outgoing[d].generation)'
           /\ (slot[outgoing[d].index] # "Reserved")'
<1> DEFINE o == outgoing[d]
<1>1. o \in Pid /\ o.index \in Index /\ o.generation \in Nat
    BY PidLemma, SMT DEF SchedulerInv, TypeOK
<1>2. /\ stack_busy[o.index] /\ gen[o.index] = o.generation /\ slot[o.index] # "Reserved"
      /\ Where(d) \in {"orphans", "drop", "drain", "abandon"}
      /\ Occupied(o) => state[o.index] = "Running" /\ \A e \in Core : current[e] # o
    BY DEF StackBusyProtects, OutgoingHasLeft
<1>3. gen'[o.index] = o.generation /\ slot'[o.index] # "Reserved"
  <2>1. ~FreeIndex(o.index)
      BY <1>2 DEF FreeIndex
  <2> QED BY <1>1, <1>2, <2>1, SlotStep
<1>4. Where(d)' \in {"orphans", "drop", "drain", "abandon"}
  <2>1. CASE d = c
      BY <1>2, <2>1, LeavingFlow
  <2>2. CASE d # c
    <3>1. Where(d)' = Where(d)
        BY <2>2, KeptLemma DEF Kept, Where
    <3> QED BY <1>2, <3>1
  <2> QED BY <2>1, <2>2
<1>5. ASSUME NEW p \in Pid, p = o, Occupied(p)'
      PROVE  state'[p.index] = "Running" /\ \A e \in Core : current'[e] # p
  <2>1. Known(p)
      BY <1>1, <1>2, <1>5, SMT DEF Known
  <2>2. Occupied(p)
      BY <1>5, <2>1, KnownStep
  <2>3. state[p.index] = "Running" /\ \A e \in Core : current[e] # p
      BY <1>2, <1>5, <2>2
  <2> QED BY <1>5, <2>2, <2>3, EvictedStays
<1>6. outgoing'[d] = o
    OBVIOUS
<1>7. PICK p \in Pid : p = o
    BY <1>1
<1>8. Occupied(p)' => state'[p.index] = "Running" /\ \A e \in Core : current'[e] # p
    BY <1>5, <1>7
<1>9. outgoing'[d] = p /\ gen'[p.index] = p.generation /\ slot'[p.index] # "Reserved"
    BY <1>3, <1>6, <1>7
<1> QED BY <1>4, <1>8, <1>9 DEF Occupied

\* Every step keeps the stacks that are being left marked, and no others.
LEMMA StackStep ==
    ASSUME SchedulerInv, IdleHasNone, OutgoingHasLeft, StackBusyProtects, NEW c \in Core, Step(c)
    PROVE  OutgoingHasLeft' /\ StackBusyProtects'
<1> DEFINE Path == {"orphans", "drop", "drain", "abandon"}
<1>a. /\ outgoing \in [Core -> Pid \union {None}] /\ stack_busy \in [Index -> BOOLEAN]
      /\ pc \in [Core -> PcValue]
      /\ \A d \in Core : outgoing[d] # None => outgoing[d] \in Pid /\ outgoing[d].index \in Index
    BY PidLemma, SMT DEF SchedulerInv, TypeOK
<1>b. \A d \in Core : outgoing[d] # None =>
        /\ stack_busy[outgoing[d].index] /\ gen[outgoing[d].index] = outgoing[d].generation
        /\ \A e \in Core \ {d} : outgoing[e] = None \/ outgoing[e].index # outgoing[d].index
    BY DEF StackBusyProtects
<1>c. \A i \in Index : stack_busy[i] => \E d \in Core : outgoing[d] # None /\ outgoing[d].index = i
    BY DEF StackBusyProtects
<1>1. CASE ~Leaving(c) /\ ~Left(c)
  <2>1. UNCHANGED <<outgoing, stack_busy>>
      BY <1>1, LeavingLemma
  <2>2. OutgoingHasLeft'
      BY <2>1, LeftStays DEF OutgoingHasLeft
  <2>3. ASSUME NEW d \in Core, outgoing'[d] # None
        PROVE  /\ stack_busy'[outgoing'[d].index]
               /\ (gen[outgoing[d].index] = outgoing[d].generation)'
               /\ (slot[outgoing[d].index] # "Reserved")'
               /\ \A e \in Core \ {d} : outgoing'[e] = None \/ outgoing'[e].index # outgoing'[d].index
      BY <1>b, <2>1, <2>3, LeftStays
  <2>4. \A i \in Index : stack_busy'[i] => \E d \in Core : outgoing'[d] # None /\ outgoing'[d].index = i
      BY <1>c, <2>1
  <2> QED BY <2>2, <2>3, <2>4 DEF StackBusyProtects
<1>2. CASE Left(c)
  <2>1. /\ outgoing' = [outgoing EXCEPT ![c] = None]
        /\ outgoing[c] # None => stack_busy' = [stack_busy EXCEPT ![outgoing[c].index] = FALSE]
        /\ outgoing[c] = None => stack_busy' = stack_busy
      BY <1>2 DEF Left, ClearStackBusy, Abandoned
  <2>2. \A d \in Core : outgoing'[d] # None => d # c /\ outgoing'[d] = outgoing[d] /\ outgoing[d] # None
      BY <1>a, <2>1
  <2>3. OutgoingHasLeft'
      BY <2>2, LeftStays DEF OutgoingHasLeft
  <2>4. ASSUME NEW d \in Core, outgoing'[d] # None
        PROVE  /\ stack_busy'[outgoing'[d].index]
               /\ (gen[outgoing[d].index] = outgoing[d].generation)'
               /\ (slot[outgoing[d].index] # "Reserved")'
               /\ \A e \in Core \ {d} : outgoing'[e] = None \/ outgoing'[e].index # outgoing'[d].index
    <3>1. d # c /\ outgoing'[d] = outgoing[d] /\ outgoing[d] # None /\ outgoing[d].index \in Index
        BY <1>a, <2>2, <2>4
    <3>2. stack_busy'[outgoing[d].index]
        BY <1>a, <1>b, <2>1, <3>1
    <3>3. \A e \in Core \ {d} : outgoing'[e] = None \/ outgoing'[e].index # outgoing'[d].index
        BY <1>b, <2>2, <3>1, SMTT(60)
    <3> QED BY <3>1, <3>2, <3>3, LeftStays
  <2>5. ASSUME NEW i \in Index, stack_busy'[i]
        PROVE  \E d \in Core : outgoing'[d] # None /\ outgoing'[d].index = i
    <3>1. stack_busy[i] /\ (outgoing[c] # None => outgoing[c].index # i)
        BY <1>a, <2>1, <2>5
    <3>2. PICK d \in Core : outgoing[d] # None /\ outgoing[d].index = i
        BY <1>c, <3>1
    <3>3. d # c /\ outgoing'[d] = outgoing[d]
        BY <1>a, <2>1, <3>1, <3>2
    <3> QED BY <3>2, <3>3
  <2> QED BY <2>3, <2>4, <2>5 DEF StackBusyProtects
<1>3. CASE Leaving(c)
  <2>1. pc[c] = "user"
      BY <1>3 DEF Leaving, terminate_current_process, on_reschedule_ipi_evicts
  <2>2. PICK p \in Pid : p = current[c]
      BY <2>1, CurrentLemma
  <2>3. /\ p # None /\ p.index \in Index /\ Occupied(p) /\ state[p.index] = "Running"
        /\ \A d \in Core \ {c} : current[d] # p
      BY <2>1, <2>2, CurrentLemma DEF SchedulerInv, DispatchSafe
  <2>4. /\ stack_busy' = [stack_busy EXCEPT ![p.index] = TRUE]
        /\ outgoing' = [outgoing EXCEPT ![c] = p]
      BY <1>3, <2>2 DEF Leaving, terminate_current_process, on_reschedule_ipi_evicts
  <2>5. outgoing'[c] = p /\ outgoing[c] = None /\ \A d \in Core \ {c} : outgoing'[d] = outgoing[d]
      BY <1>a, <2>1, <2>4 DEF OutgoingHasLeft, Where
  <2>6. \A d \in Core \ {c} : outgoing[d] # None => outgoing[d].index # p.index
    <3>1. ASSUME NEW d \in Core \ {c}, outgoing[d] # None, outgoing[d].index = p.index PROVE FALSE
      <4>1. Occupied(outgoing[d])
          BY <1>b, <2>3, <3>1 DEF Occupied
      <4>2. outgoing[d] = p
          BY <1>a, <2>3, <3>1, <4>1, OccupiedUnique
      <4> QED BY <2>2, <3>1, <4>1, <4>2 DEF OutgoingHasLeft
    <3> QED BY <3>1
  <2>7. /\ pc'[c] \in Path /\ gen' = gen
        /\ Occupied(p)' => state'[p.index] = "Running" /\ \A d \in Core : current'[d] # p
        /\ slot'[p.index] # "Reserved"
    <3>1. CASE terminate_current_process(c)
      <4>1. take_and_finalize_slot(p) /\ pc'[c] = "orphans"
          BY <1>a, <2>2, <3>1 DEF terminate_current_process
      <4>2. slot'[p.index] \in {"Zombie", "Empty"} /\ gen' = gen
          BY <2>3, <4>1 DEF take_and_finalize_slot, FinalSlot, Dying
      <4> QED BY <4>1, <4>2 DEF Occupied
    <3>2. CASE on_reschedule_ipi_evicts(c)
      <4>1. Dispatched(c, ready, state) /\ UNCHANGED <<slot, gen>>
        <5>1. ready \in Seq(Pid) /\ Distinct(ready) /\ TypeOK
            BY DEF SchedulerInv, TypeOK, DispatchSafe
        <5> QED BY <3>2, <5>1, DispatchLemma DEF on_reschedule_ipi_evicts, tableVars
      <4>2. \A n \in Elems(ready) : n # p /\ n.index # p.index
          BY <2>3 DEF SchedulerInv, DispatchSafe, Queued
      <4>3. state \in [Index -> States] /\ current \in [Core -> Pid \union {None}]
          BY DEF SchedulerInv, TypeOK, States
      <4>4. state'[p.index] = "Running" /\ \A d \in Core : current'[d] # p
          BY <2>3, <4>1, <4>2, <4>3 DEF Dispatched
      <4>5. pc'[c] \in Path
          BY <1>a, <3>2 DEF on_reschedule_ipi_evicts, switch_to_next_or_halt
      <4>6. slot'[p.index] # "Reserved"
          BY <2>3, <4>1 DEF Occupied
      <4> QED BY <4>1, <4>4, <4>5, <4>6
    <3> QED BY <1>3, <3>1, <3>2 DEF Leaving
  <2>8. gen'[p.index] = p.generation
      BY <2>3, <2>7 DEF Occupied
  <2>9. Where(c)' \in Path
      BY <2>7 DEF Where
  <2>10. OutgoingHasLeft'
    <3>1. ASSUME NEW d \in Core, outgoing'[d] # None
          PROVE  /\ Where(d)' \in Path
                 /\ (Occupied(outgoing[d]) => state[outgoing[d].index] = "Running"
                                              /\ \A e \in Core : current[e] # outgoing[d])'
      <4>1. CASE d = c
          BY <2>5, <2>7, <2>9, <4>1 DEF Occupied
      <4>2. CASE d # c
          BY <2>5, <3>1, <4>2, LeftStays
      <4> QED BY <4>1, <4>2
    <3> QED BY <3>1 DEF OutgoingHasLeft
  <2>11. ASSUME NEW d \in Core, outgoing'[d] # None
         PROVE  /\ stack_busy'[outgoing'[d].index]
                /\ (gen[outgoing[d].index] = outgoing[d].generation)'
                /\ (slot[outgoing[d].index] # "Reserved")'
                /\ \A e \in Core \ {d} : outgoing'[e] = None \/ outgoing'[e].index # outgoing'[d].index
    <3>1. CASE d = c
      <4>1. stack_busy'[p.index]
          BY <1>a, <2>3, <2>4
      <4>2. \A e \in Core \ {c} : outgoing'[e] = None \/ outgoing'[e].index # p.index
          BY <2>5, <2>6
      <4> QED BY <2>5, <2>7, <2>8, <3>1, <4>1, <4>2
    <3>2. CASE d # c
      <4>1. outgoing'[d] = outgoing[d] /\ outgoing[d] # None /\ outgoing[d].index # p.index
          BY <2>5, <2>6, <2>11, <3>2
      <4>2. stack_busy'[outgoing[d].index]
          BY <1>a, <1>b, <2>4, <4>1
      <4>3. \A e \in Core \ {d} : outgoing'[e] = None \/ outgoing'[e].index # outgoing[d].index
          BY <1>b, <2>5, <4>1, SMT
      <4> QED BY <4>1, <4>2, <4>3, LeftStays
    <3> QED BY <3>1, <3>2
  <2>12. ASSUME NEW i \in Index, stack_busy'[i]
         PROVE  \E d \in Core : outgoing'[d] # None /\ outgoing'[d].index = i
    <3>1. CASE i = p.index
        BY <2>3, <2>5, <3>1
    <3>2. CASE i # p.index
      <4>1. stack_busy[i]
          BY <1>a, <2>4, <2>12, <3>2
      <4>2. PICK d \in Core : outgoing[d] # None /\ outgoing[d].index = i
          BY <1>c, <4>1
      <4> QED BY <2>5, <4>2
    <3> QED BY <3>1, <3>2
  <2> QED BY <2>10, <2>11, <2>12 DEF StackBusyProtects
<1> QED BY <1>1, <1>2, <1>3

\* Every step keeps the address space with the current process, or with the process
\* an exiting core has extracted.
LEMMA Cr3Step ==
    ASSUME SchedulerInv, IdleHasNone, Cr3Follows, NEW c \in Core, Step(c)
    PROVE  Cr3Follows'
<1>a. /\ pc \in [Core -> PcValue] /\ back \in [Core -> {"user", "orphans", "drain", "idle", "boot"}]
      /\ current \in [Core -> Pid \union {None}] /\ cr3 \in [Core -> Pid \union {None}]
      /\ outgoing \in [Core -> Pid \union {None}] /\ drops \in [Core -> SUBSET Pid]
    BY DEF SchedulerInv, TypeOK
<1>b. Flow(c)
    BY FlowLemma
<1>c. /\ current[c] # None => cr3[c] = current[c]
      /\ current[c] = None /\ cr3[c] # None =>
           Where(c) = "orphans" /\ outgoing[c] # None /\ cr3[c] \in drops[c]
    BY DEF Cr3Follows
<1> USE DEF tableVars, dispatchVars, flowVars, killVars, exitVars, wakeVars, ipcVars, bootVars
<1>1. \A d \in Core \ {c} : Where(d)' = Where(d) /\ current'[d] = current[d] /\ cr3'[d] = cr3[d]
        /\ outgoing'[d] = outgoing[d] /\ drops'[d] = drops[d]
    BY KeptLemma DEF Kept, Where
<1>2. CASE current'[c] = cr3'[c]
    BY <1>1, <1>2 DEF Cr3Follows
<1>3. CASE terminate_current_process(c)
  <2>1. pc[c] = "user"
      BY <1>3 DEF terminate_current_process
  <2>2. PICK p \in Pid : p = current[c]
      BY <2>1, CurrentLemma
  <2>3. p # None /\ Occupied(p) /\ cr3[c] = p /\ p.index \in Index
      BY <1>c, <2>1, <2>2, CurrentLemma
  <2>4. /\ outgoing' = [outgoing EXCEPT ![c] = p] /\ cr3' = cr3 /\ pc' = [pc EXCEPT ![c] = "orphans"]
        /\ drops' = [drops EXCEPT ![c] = {PidAt(j, gen[j]) : j \in Dying(p)}]
        /\ take_and_finalize_slot(p)
      BY <1>3, <2>2 DEF terminate_current_process
  <2>5. p = PidAt(p.index, gen[p.index])
      BY <2>3, PidLemma, SMTT(60) DEF Occupied
  <2>6. p \in drops'[c]
      BY <1>a, <2>4, <2>5 DEF Dying
  <2>7. Where(c)' = "orphans" /\ outgoing'[c] = p /\ cr3'[c] = p
      BY <1>a, <2>3, <2>4 DEF Where
  <2>8. current'[c] = None
      BY <2>2, <2>4 DEF take_and_finalize_slot
  <2> QED BY <1>1, <2>3, <2>6, <2>7, <2>8 DEF Cr3Follows
<1>4. CASE current'[c] = current[c] /\ cr3'[c] = cr3[c] /\ current[c] # None
    BY <1>1, <1>c, <1>4 DEF Cr3Follows
<1>5. CASE /\ current'[c] = current[c] /\ cr3'[c] = cr3[c] /\ Where(c)' = Where(c)
           /\ outgoing'[c] = outgoing[c] /\ drops'[c] = drops[c]
    BY <1>1, <1>5 DEF Cr3Follows
<1>6. CASE IdleDispatch(c)
    BY <1>2, <1>6, <1>a DEF IdleDispatch, switch_to
<1>7. CASE on_timer_tick(c)
    BY <1>2, <1>7, <1>a DEF on_timer_tick, switch_to
<1>8. CASE ExitDispatch(c)
    BY <1>2, <1>8, <1>a, SMT DEF ExitDispatch, switch_to_next_or_halt, switch_to
<1>9. CASE on_reschedule_ipi_evicts(c)
    BY <1>2, <1>9, <1>a, SMTT(60) DEF on_reschedule_ipi_evicts, switch_to_next_or_halt, switch_to
<1>10. CASE block_current_process(c) \/ wait_blocks(c)
  <2>1. \E q, st, k : switch_to_next_or_halt(c, q, st, k, {})
      BY <1>10 DEF block_current_process, wait_blocks, BlockAndSwitch
  <2> QED BY <1>2, <2>1, <1>a, ZenonT(60) DEF switch_to_next_or_halt, switch_to
<1>11. CASE KillFinalize(c)
  <2>1. current[c] # None /\ current[c] # arg[c] /\ take_and_finalize_slot(arg[c]) /\ cr3' = cr3
      BY <1>11 DEF KillFinalize, SchedulerInv, KillHitsTarget, Killing
  <2>2. current'[c] = current[c]
      BY <2>1 DEF take_and_finalize_slot
  <2> QED BY <1>4, <2>1, <2>2
<1>12. CASE TakeWaiter(c)
  <2>1. Where(c)' = Where(c)
      BY <1>a, <1>12 DEF TakeWaiter, Where
  <2> QED BY <1>5, <1>12, <2>1 DEF TakeWaiter
<1>13. CASE wake_blocked_process(c) \/ wake_receiver_fails(c)
  <2>1. Where(c)' = Where(c)
      BY <1>a, <1>13 DEF wake_blocked_process, wake_receiver_fails, AfterWake, Where
  <2> QED BY <1>5, <1>13, <2>1 DEF wake_blocked_process, wake_receiver_fails
<1>14. ASSUME UNCHANGED <<current, cr3>>, pc[c] \notin {"orphans", "wake"}
       PROVE  Cr3Follows'
  <2>1. CASE current[c] # None
      BY <1>4, <1>14, <2>1
  <2>2. CASE current[c] = None
    <3>1. cr3[c] = None
        BY <1>c, <1>14, <2>2 DEF Where
    <3> QED BY <1>2, <1>14, <2>2, <3>1
  <2> QED BY <2>1, <2>2
<1>15. CASE OrphansDone(c) /\ ~ExitDispatch(c)
  <2>1. outgoing[c] = None /\ pc[c] = "orphans" /\ UNCHANGED <<current, cr3>>
      BY <1>15 DEF OrphansDone, ExitDispatch
  <2>2. current[c] # None
      BY <2>1 DEF SchedulerInv, CurrentInKernel, Where
  <2> QED BY <1>4, <2>1, <2>2
<1>16. CASE DropPending(c)
    BY <1>14, <1>16 DEF DropPending
<1>17. CASE ClearStackBusy(c)
    BY <1>14, <1>17 DEF ClearStackBusy
<1>18. CASE Resume(c)
    BY <1>14, <1>18 DEF Resume
<1>19. CASE Abandoned(c)
    BY <1>14, <1>19 DEF Abandoned
<1>20. CASE IdleNothingReady(c)
    BY <1>14, <1>20 DEF IdleNothingReady
<1>21. CASE ParkCheck(c)
    BY <1>14, <1>21 DEF ParkCheck
<1>22. CASE ParkAnnounce(c)
    BY <1>14, <1>22 DEF ParkAnnounce
<1>23. CASE ParkRecheck(c)
    BY <1>14, <1>23 DEF ParkRecheck
<1>24. CASE Ring0Reschedule(c)
    BY <1>14, <1>24 DEF Ring0Reschedule
<1>25. CASE Ring0Timer(c)
    BY <1>14, <1>25 DEF Ring0Timer
<1>26. CASE release_reservation(c)
    BY <1>14, <1>26 DEF release_reservation
<1>27. CASE spawn_suspended(c)
    BY <1>14, <1>27 DEF spawn_suspended
<1>28. CASE TrapFrameFault(c)
    BY <1>14, <1>28 DEF TrapFrameFault, Building
<1>29. CASE StartNotify(c)
    BY <1>14, <1>29 DEF StartNotify
<1>30. CASE KillScanFound(c)
    BY <1>14, <1>30 DEF KillScanFound
<1>31. CASE KillAlreadyGone(c)
    BY <1>14, <1>31 DEF KillAlreadyGone
<1>32. CASE KillSendEvict(c)
    BY <1>14, <1>32 DEF KillSendEvict
<1>33. CASE KillSpinDone(c)
    BY <1>14, <1>33 DEF KillSpinDone
<1>34. CASE KillTimeout(c)
    BY <1>14, <1>34 DEF KillTimeout
<1>35. CASE KillWithdraw(c)
    BY <1>14, <1>35 DEF KillWithdraw
<1>36. CASE on_reschedule_ipi_ignores(c)
    BY <1>14, <1>36 DEF on_reschedule_ipi_ignores
<1>37. CASE Allocates(c)
    BY <1>14, <1>37 DEF Allocates, allocate_pid
<1>38. CASE start_child(c)
    BY <1>14, <1>38 DEF start_child
<1>39. CASE wait_reaps(c)
    BY <1>14, <1>39 DEF wait_reaps
<1>40. CASE RegisterWaiter(c)
    BY <1>14, <1>40 DEF RegisterWaiter
<1>41. CASE KillCheck(c)
    BY <1>14, <1>41 DEF KillCheck
<1>42. CASE spawn(c)
    BY <1>14, <1>42 DEF spawn
<1>43. CASE SpawnNotify(c)
    BY <1>14, <1>43 DEF SpawnNotify
<1>44. CASE start(c)
    BY <1>14, <1>44 DEF start
<1> QED BY <1>3, <1>6, <1>7, <1>8, <1>9, <1>10, <1>11, <1>12, <1>13, <1>15, <1>16, <1>17, <1>18, <1>19, <1>20, <1>21, <1>22, <1>23, <1>24, <1>25, <1>26, <1>27, <1>28, <1>29, <1>30, <1>31, <1>32, <1>33, <1>34, <1>35, <1>36, <1>37, <1>38, <1>39, <1>40, <1>41, <1>42, <1>43, <1>44 DEF Step, KernelStep, Interrupt, Request, ring3_timer_tick, on_syscall_yield, sys_spawn, boot_allocates, Allocates

\* The address space a core has active is not dropped under it.
LEMMA Cr3IsLive ==
    ASSUME SchedulerInv, Cr3Follows
    PROVE  Cr3Live
    BY DEF SchedulerInv, DispatchSafe, Cr3Follows, Cr3Live

(***************************************************************************)
(* Nothing is lost.                                                        *)
(***************************************************************************)

\* Every step keeps a request to evict a live process with its killer.
LEMMA EvictionStep ==
    ASSUME SchedulerInv, EvictionIsWanted, NEW c \in Core, Step(c)
    PROVE  EvictionIsWanted'
<1>a. /\ evict_request \in [Core -> Pid \union {None}] /\ peer \in [Core -> Core \union {None}]
      /\ pc \in [Core -> PcValue] /\ arg \in [Core -> Pid \union {None, OutOfRange}]
    BY DEF SchedulerInv, TypeOK
<1>1. ASSUME NEW d \in Core, evict_request[d] # None
      PROVE  \E p \in Pid : /\ p = evict_request[d] /\ Known(p)'
                            /\ Occupied(p)' => \E e \in Core : pc'[e] \in Killing /\ arg'[e] = p
  <2>1. PICK p \in Pid : p = evict_request[d]
      BY <1>a, <1>1
  <2>2. Known(p) /\ (Occupied(p) => \E e \in Core : pc[e] \in Killing /\ arg[e] = p)
      BY <1>1, <2>1 DEF EvictionIsWanted
  <2>3. Known(p)' /\ (Occupied(p)' => Occupied(p))
      BY <2>2, KnownStep
  <2> QED BY <2>1, <2>2, <2>3, KillerStays
<1>2. ASSUME \A d \in Core : evict_request'[d] \in {None, evict_request[d]}
      PROVE  EvictionIsWanted'
  <2>1. ASSUME NEW d \in Core, evict_request'[d] # None
        PROVE  (Known(evict_request[d]) /\ (Occupied(evict_request[d]) =>
                  \E e \in Core : pc[e] \in Killing /\ arg[e] = evict_request[d]))'
    <3>1. evict_request'[d] = evict_request[d] /\ evict_request[d] # None
        BY <1>2, <2>1
    <3>2. PICK p \in Pid : /\ p = evict_request[d] /\ Known(p)'
                           /\ Occupied(p)' => \E e \in Core : pc'[e] \in Killing /\ arg'[e] = p
        BY <1>1, <3>1
    <3>3. evict_request'[d] = p
        BY <3>1, <3>2
    <3> QED BY <3>2, <3>3 DEF Known, Occupied
  <2> QED BY <2>1 DEF EvictionIsWanted
<1>3. CASE KillSendEvict(c)
  <2>1. PICK p \in Pid : p = arg[c]
      BY <1>3 DEF KillSendEvict, SchedulerInv, ArgIsPid, Killing
  <2>2. pc[c] \in Killing /\ pc'[c] \in Killing /\ arg'[c] = p
      BY <1>3, <1>a, <2>1 DEF KillSendEvict, Killing
  <2>3. Known(p)
    <3>1. gen[p.index] = p.generation /\ slot[p.index] \in {"Occupied", "Zombie"} /\ p.generation \in Nat
        BY <2>1, <2>2, PidLemma, SMTT(60) DEF SchedulerInv, KillHitsTarget
    <3> QED BY <3>1, SMT DEF Known
  <2>4. Known(p)'
      BY <2>3, KnownStep
  <2>5. \A d \in Core : evict_request'[d] = evict_request[d] \/ evict_request'[d] = p
      BY <1>3, <1>a, <2>1 DEF KillSendEvict
  <2>6. ASSUME NEW d \in Core, evict_request'[d] # None
        PROVE  (Known(evict_request[d]) /\ (Occupied(evict_request[d]) =>
                  \E e \in Core : pc[e] \in Killing /\ arg[e] = evict_request[d]))'
    <3>1. CASE evict_request'[d] = p
        BY <2>2, <2>4, <3>1 DEF Known, Occupied
    <3>2. CASE evict_request'[d] = evict_request[d]
      <4>1. PICK x \in Pid : /\ x = evict_request[d] /\ Known(x)'
                             /\ Occupied(x)' => \E e \in Core : pc'[e] \in Killing /\ arg'[e] = x
          BY <1>1, <2>6, <3>2
      <4>2. evict_request'[d] = x
          BY <3>2, <4>1
      <4> QED BY <4>1, <4>2 DEF Known, Occupied
    <3> QED BY <2>5, <3>1, <3>2
  <2> QED BY <2>6 DEF EvictionIsWanted
<1> USE DEF killVars
<1>4. CASE KillWithdraw(c)
    BY <1>2, <1>4, <1>a DEF KillWithdraw
<1>5. CASE on_reschedule_ipi_evicts(c)
    BY <1>2, <1>5, <1>a DEF on_reschedule_ipi_evicts
<1>6. CASE on_reschedule_ipi_ignores(c)
    BY <1>2, <1>6, <1>a DEF on_reschedule_ipi_ignores
<1>7. ASSUME UNCHANGED evict_request PROVE EvictionIsWanted'
    BY <1>2, <1>7
<1>8. CASE DropPending(c)
    BY <1>7, <1>8 DEF DropPending
<1>9. CASE ClearStackBusy(c)
    BY <1>7, <1>9 DEF ClearStackBusy
<1>10. CASE Resume(c)
    BY <1>7, <1>10 DEF Resume
<1>11. CASE Abandoned(c)
    BY <1>7, <1>11 DEF Abandoned
<1>12. CASE IdleDispatch(c)
    BY <1>7, <1>12 DEF IdleDispatch
<1>13. CASE IdleNothingReady(c)
    BY <1>7, <1>13 DEF IdleNothingReady
<1>14. CASE ParkCheck(c)
    BY <1>7, <1>14 DEF ParkCheck
<1>15. CASE ParkAnnounce(c)
    BY <1>7, <1>15 DEF ParkAnnounce
<1>16. CASE ParkRecheck(c)
    BY <1>7, <1>16 DEF ParkRecheck
<1>17. CASE Ring0Reschedule(c)
    BY <1>7, <1>17 DEF Ring0Reschedule
<1>18. CASE Ring0Timer(c)
    BY <1>7, <1>18 DEF Ring0Timer
<1>19. CASE release_reservation(c)
    BY <1>7, <1>19 DEF release_reservation
<1>20. CASE spawn_suspended(c)
    BY <1>7, <1>20 DEF spawn_suspended
<1>21. CASE TrapFrameFault(c)
    BY <1>7, <1>21 DEF TrapFrameFault
<1>22. CASE StartNotify(c)
    BY <1>7, <1>22 DEF StartNotify
<1>23. CASE block_current_process(c)
    BY <1>7, <1>23 DEF block_current_process
<1>24. CASE wake_blocked_process(c)
    BY <1>7, <1>24 DEF wake_blocked_process
<1>25. CASE OrphansDone(c)
    BY <1>7, <1>25 DEF OrphansDone
<1>26. CASE KillScanFound(c)
    BY <1>7, <1>26 DEF KillScanFound
<1>27. CASE KillFinalize(c)
    BY <1>7, <1>27 DEF KillFinalize
<1>28. CASE KillAlreadyGone(c)
    BY <1>7, <1>28 DEF KillAlreadyGone
<1>29. CASE KillSpinDone(c)
    BY <1>7, <1>29 DEF KillSpinDone
<1>30. CASE KillTimeout(c)
    BY <1>7, <1>30 DEF KillTimeout
<1>31. CASE on_timer_tick(c)
    BY <1>7, <1>31 DEF on_timer_tick
<1>32. CASE Allocates(c)
    BY <1>7, <1>32 DEF Allocates, allocate_pid
<1>33. CASE start_child(c)
    BY <1>7, <1>33 DEF start_child
<1>34. CASE wait_reaps(c)
    BY <1>7, <1>34 DEF wait_reaps
<1>35. CASE wait_blocks(c)
    BY <1>7, <1>35 DEF wait_blocks
<1>36. CASE RegisterWaiter(c)
    BY <1>7, <1>36 DEF RegisterWaiter
<1>37. CASE TakeWaiter(c)
    BY <1>7, <1>37 DEF TakeWaiter
<1>38. CASE terminate_current_process(c)
    BY <1>7, <1>38 DEF terminate_current_process
<1>39. CASE KillCheck(c)
    BY <1>7, <1>39 DEF KillCheck
<1>40. CASE wake_receiver_fails(c)
    BY <1>7, <1>40 DEF wake_receiver_fails
<1>41. CASE spawn(c)
    BY <1>7, <1>41 DEF spawn
<1>42. CASE SpawnNotify(c)
    BY <1>7, <1>42 DEF SpawnNotify
<1>43. CASE start(c)
    BY <1>7, <1>43 DEF start
<1> QED BY <1>3, <1>4, <1>5, <1>6, <1>8, <1>9, <1>10, <1>11, <1>12, <1>13, <1>14, <1>15, <1>16, <1>17, <1>18, <1>19, <1>20, <1>21, <1>22, <1>23, <1>24, <1>25, <1>26, <1>27, <1>28, <1>29, <1>30, <1>31, <1>32, <1>33, <1>34, <1>35, <1>36, <1>37, <1>38, <1>39, <1>40, <1>41, <1>42, <1>43 DEF Step, KernelStep, Interrupt, Request, ring3_timer_tick, on_syscall_yield, sys_spawn, boot_allocates, Allocates

\* Every step keeps a reserved slot with the core that builds for it.
LEMMA ReservedStep ==
    ASSUME SchedulerInv, NoProcessLost, NEW c \in Core, Step(c), NEW i \in Index, slot'[i] = "Reserved"
    PROVE  \E d \in Core : pc'[d] \in Building /\ arg'[d].index = i
<1>a. /\ slot \in [Index -> {"Empty", "Reserved", "Occupied", "Zombie"}] /\ pc \in [Core -> PcValue]
    BY DEF SchedulerInv, TypeOK
<1>1. CASE pc'[c] \in Building /\ arg'[c].index = i
    BY <1>1
<1>2. CASE slot[i] = "Reserved"
  <2>1. PICK d \in Core : pc[d] \in Building /\ arg[d].index = i
      BY <1>2 DEF NoProcessLost
  <2>2. CASE d # c
      BY <2>1, <2>2, KeptLemma, SMTT(60) DEF Kept
  <2>3. CASE d = c
    <3>1. Flow(c)
        BY FlowLemma
    <3>2. release_reservation(c) \/ spawn_suspended(c) \/ spawn(c) \/ TrapFrameFault(c)
      <4>1. CallFlow(c) \/ BootFlow(c)
          BY <2>1, <2>3, <3>1, FlowRanges DEF Flow, Goes, Building
      <4> QED BY <2>1, <2>3, <4>1 DEF CallFlow, BootFlow, Goes, Building
    <3>3. slot[arg[c].index] = "Reserved" /\ gen[arg[c].index] = arg[c].generation
        BY <2>1, <2>3 DEF SchedulerInv, ReservationOwned
    <3>4. CASE release_reservation(c)
      <4>1. slot' = [slot EXCEPT ![i] = "Empty"]
          BY <2>1, <2>3, <3>3, <3>4 DEF release_reservation
      <4> QED BY <1>a, <4>1
    <3>5. CASE spawn_suspended(c)
        BY <1>a, <2>1, <2>3, <3>5 DEF spawn_suspended
    <3>6. CASE TrapFrameFault(c)
        BY <2>1, <2>3, <3>6 DEF TrapFrameFault
    <3>7. CASE spawn(c)
        BY <1>a, <2>1, <2>3, <3>7 DEF spawn
    <3> QED BY <3>2, <3>4, <3>5, <3>6, <3>7
  <2> QED BY <2>2, <2>3
<1> QED BY <1>1, <1>2, SlotStep

\* Every step keeps the ready processes in the queue.
LEMMA QueueStep ==
    ASSUME SchedulerInv, IdleHasNone, NoProcessLost, NEW c \in Core, Step(c),
           NEW i \in Index, slot'[i] = "Occupied", state'[i] = "Ready"
    PROVE  PidAt(i, gen'[i]) \in Elems(ready')
<1>a. /\ slot \in [Index -> {"Empty", "Reserved", "Occupied", "Zombie"}] /\ gen \in [Index -> Nat]
      /\ state \in [Index -> States] /\ ready \in Seq(Pid) /\ Distinct(ready)
      /\ arg \in [Core -> Pid \union {None, OutOfRange}]
    BY DEF SchedulerInv, TypeOK, DispatchSafe, States
<1>b. slot[i] = "Occupied" /\ state[i] = "Ready" => PidAt(i, gen[i]) \in Elems(ready)
    BY DEF NoProcessLost, Queued
<1> USE DEF tableVars, dispatchVars
<1>1. CASE Quiet(c)
    BY <1>1, <1>b DEF Quiet
<1>2. CASE Dispatching(c)
  <2>1. PICK q, st : DispatchesFrom(c, q, st)
      BY <1>2, DispatchesLemma
  <2>2. slot[i] = "Occupied" /\ gen'[i] = gen[i] /\ st \in [Index -> States]
      BY <2>1 DEF DispatchesFrom
  <2>3. st[i] = "Ready" => PidAt(i, gen[i]) \in Elems(q)
    <3>1. CASE st[i] = state[i]
        BY <1>b, <2>1, <2>2, <3>1 DEF DispatchesFrom
    <3>2. CASE /\ current[c] # None /\ i = current[c].index
               /\ st[i] = "Ready" => current[c] \in Elems(q)
      <4>1. current[c] \in Pid /\ Occupied(current[c])
          BY <3>2, ZenonT(60) DEF SchedulerInv, TypeOK, DispatchSafe
      <4>2. current[c] = PidAt(i, gen[i])
          BY <3>2, <4>1, PidLemma, SMTT(60) DEF Occupied
      <4> QED BY <3>2, <4>2
    <3> QED BY <2>1, <3>1, <3>2 DEF DispatchesFrom
  <2>4. CASE \E n \in Elems(q) : /\ n \in Pid /\ Elems(ready') = Elems(q) \ {n}
                                 /\ state' = [st EXCEPT ![n.index] = "Running"]
    <3>1. PICK n \in Elems(q) : /\ n \in Pid /\ Elems(ready') = Elems(q) \ {n}
                                /\ state' = [st EXCEPT ![n.index] = "Running"]
        BY <2>4
    <3>2. n.index \in Index /\ i # n.index /\ st[i] = "Ready"
        BY <2>2, <3>1, PidLemma
    <3>3. PidAt(i, gen[i]) # n
        BY <1>a, <3>2, PidLemma, SMTT(60)
    <3> QED BY <2>2, <2>3, <3>1, <3>2, <3>3
  <2>5. CASE Elems(q) = {} /\ state' = st
      BY <2>3, <2>5
  <2> QED BY <2>1, <2>4, <2>5 DEF DispatchesFrom, Dispatched
<1>3. CASE wait_reaps(c)
    BY <1>a, <1>b, <1>3 DEF wait_reaps
<1>4. CASE RegisterWaiter(c)
    BY <1>b, <1>4 DEF RegisterWaiter
<1>5. CASE TakeWaiter(c)
    BY <1>b, <1>5 DEF TakeWaiter
<1>6. CASE wake_blocked_process(c)
  <2>1. PICK p \in Pid : p = arg[c]
      BY <1>6 DEF wake_blocked_process, SchedulerInv, ArgIsPid
  <2>2. CASE Occupied(p) /\ state[p.index] = "Blocked"
    <3>1. ready' = Append(ready, p) /\ state' = [state EXCEPT ![p.index] = "Ready"] /\ UNCHANGED <<slot, gen>>
        BY <1>6, <2>1, <2>2 DEF wake_blocked_process
    <3>2. Elems(ready') = Elems(ready) \union {p}
      <4>1. p \notin Elems(ready)
          BY <2>2 DEF SchedulerInv, DispatchSafe, Queued
      <4> QED BY <1>a, <3>1, <4>1, PushLemma
    <3>3. CASE i = p.index
      <4>1. p = PidAt(i, gen[i])
          BY <2>2, <3>3, PidLemma DEF Occupied
      <4> QED BY <3>1, <3>2, <4>1
    <3>4. CASE i # p.index
        BY <1>a, <1>b, <3>1, <3>2, <3>4
    <3> QED BY <3>3, <3>4
  <2>3. CASE ~(Occupied(p) /\ state[p.index] = "Blocked")
      BY <1>b, <1>6, <2>1, <2>3 DEF wake_blocked_process
  <2> QED BY <2>2, <2>3
<1>7. CASE Allocates(c)
  <2>1. slot[i] = "Occupied" /\ gen'[i] = gen[i]
      BY <1>a, <1>7 DEF Allocates, allocate_pid, FreeIndex
  <2> QED BY <1>b, <1>7, <2>1 DEF Allocates, allocate_pid
<1>8. CASE release_reservation(c)
    BY <1>a, <1>b, <1>8 DEF release_reservation
<1>9. CASE spawn_suspended(c)
    BY <1>a, <1>b, <1>9 DEF spawn_suspended
<1>10. CASE start_child(c)
  <2>1. PICK t \in Pid : /\ Occupied(t) /\ state[t.index] = "Suspended"
                         /\ state' = [state EXCEPT ![t.index] = "Ready"] /\ ready' = Append(ready, t)
      BY <1>10, PidLemma DEF start_child
  <2>2. Elems(ready') = Elems(ready) \union {t} /\ UNCHANGED <<slot, gen>>
    <3>1. t \notin Elems(ready)
        BY <2>1 DEF SchedulerInv, DispatchSafe, Queued
    <3> QED BY <1>a, <1>10, <2>1, <3>1, PushLemma DEF start_child
  <2>3. CASE i = t.index
    <3>1. t = PidAt(i, gen[i])
        BY <2>1, <2>3, PidLemma DEF Occupied
    <3> QED BY <2>2, <3>1
  <2>4. CASE i # t.index
      BY <1>a, <1>b, <2>1, <2>2, <2>4
  <2> QED BY <2>3, <2>4
<1>11. CASE KillCheck(c)
    BY <1>b, <1>11 DEF KillCheck
<1>12. CASE \E x \in Pid : Finalized(c, x) /\ take_and_finalize_slot(x)
  <2>1. PICK x \in Pid : Finalized(c, x) /\ take_and_finalize_slot(x)
      BY <1>12
  <2> DEFINE w == wait_waiter[x.index]
             wakes == (w # None /\ Occupied(w)) /\ state[w.index] = "Blocked"
             q == WithoutPid(ready, x)
  <2>2. q \in Seq(Pid) /\ Distinct(q) /\ Elems(q) = Elems(ready) \ {x}
      BY <1>a, RemoveLemma
  <2>3. wakes => w \in Pid /\ w \notin Elems(q)
    <3>1. x.index \in Index
        BY PidLemma
    <3> QED BY <2>2, <3>1, SMTT(60) DEF SchedulerInv, TypeOK, DispatchSafe, Queued
  <2>4. ready' = IF wakes THEN Append(q, w) ELSE q
      BY <2>1 DEF take_and_finalize_slot
  <2>5. Elems(ready') = IF wakes THEN (Elems(ready) \ {x}) \union {w} ELSE Elems(ready) \ {x}
      BY <2>2, <2>3, <2>4, PushLemma
  <2>6. /\ i \notin Dying(x) /\ gen' = gen /\ slot[i] = "Occupied"
        /\ \/ state[i] = "Ready"
           \/ w = PidAt(i, gen[i]) /\ state[i] = "Blocked"
      BY <2>1 DEF Finalized
  <2>7. CASE state[i] = "Ready"
    <3>1. PidAt(i, gen[i]) # x
      <4>1. x.index \in Dying(x)
          BY DEF Dying
      <4> QED BY <1>a, <2>6, <4>1, PidLemma, SMTT(60)
    <3> QED BY <1>b, <2>5, <2>6, <2>7, <3>1
  <2>8. CASE w = PidAt(i, gen[i]) /\ state[i] = "Blocked"
    <3>1. PidAt(i, gen[i]) \in Pid /\ Occupied(PidAt(i, gen[i])) /\ PidAt(i, gen[i]).index = i
        BY <1>a, <2>6, PidLemma, SMTT(60) DEF Occupied
    <3>2. wakes
        BY <2>8, <3>1, PidLemma, SMTT(60)
    <3> QED BY <2>5, <2>6, <2>8, <3>2
  <2> QED BY <2>6, <2>7, <2>8
<1>13. CASE wake_receiver_fails(c)
    BY <1>b, <1>13 DEF wake_receiver_fails
<1>14. CASE spawn(c)
  <2>1. PICK t \in Pid : t = arg[c]
      BY <1>14, SpawnLemma
  <2>2. t.index \in Index /\ slot[t.index] = "Reserved" /\ gen[t.index] = t.generation
      BY <1>14, <2>1, SpawnLemma
  <2>3. /\ ready' = Append(ready, t) /\ slot' = [slot EXCEPT ![t.index] = "Occupied"]
        /\ state' = [state EXCEPT ![t.index] = "Ready"] /\ gen' = gen
      BY <1>14, <2>1 DEF spawn
  <2>4. Elems(ready') = Elems(ready) \union {t}
    <3>1. t \notin Elems(ready)
        BY <2>2 DEF SchedulerInv, DispatchSafe, Queued, Occupied
    <3> QED BY <1>a, <2>3, <3>1, PushLemma
  <2>5. CASE i = t.index
    <3>1. t = PidAt(i, gen[i])
        BY <2>2, <2>5, PidLemma
    <3> QED BY <2>3, <2>4, <3>1
  <2>6. CASE i # t.index
      BY <1>a, <1>b, <2>3, <2>4, <2>6
  <2> QED BY <2>5, <2>6
<1> QED BY <1>1, <1>2, <1>3, <1>4, <1>5, <1>6, <1>7, <1>8, <1>9, <1>10, <1>11, <1>12, <1>13, <1>14,
      StepCases, FinalizeLemma DEF Loud, Dispatching

\* Every step keeps a running process with its core, or with its killer.
LEMMA RunningStep ==
    ASSUME SchedulerInv, IdleHasNone, EvictionIsWanted, NoProcessLost, NEW c \in Core, Step(c),
           NEW i \in Index, slot'[i] = "Occupied", state'[i] = "Running"
    PROVE  \/ \E d \in Core : current'[d] = PidAt(i, gen'[i])
           \/ \E d \in Core : pc'[d] \in Killing /\ arg'[d] = PidAt(i, gen'[i])
<1>a. /\ slot \in [Index -> {"Empty", "Reserved", "Occupied", "Zombie"}] /\ gen \in [Index -> Nat]
      /\ state \in [Index -> States] /\ current \in [Core -> Pid \union {None}]
    BY DEF SchedulerInv, TypeOK, States
<1>b. PICK p \in Pid : p = PidAt(i, gen[i]) /\ p.index = i /\ p.generation = gen[i] /\ p # None
    BY <1>a, PidLemma, SMTT(60)
<1>c. slot[i] = "Occupied" /\ state[i] = "Running" =>
        \/ \E d \in Core : current[d] = p
        \/ \E d \in Core : pc[d] \in Killing /\ arg[d] = p
    BY <1>b DEF NoProcessLost
<1>d. ASSUME gen'[i] = gen[i] PROVE Occupied(p)' /\ p = PidAt(i, gen'[i])
    BY <1>b, <1>d DEF Occupied
<1>e. ASSUME slot[i] = "Occupied", state[i] = "Running", gen'[i] = gen[i],
             \A d \in Core : current[d] = p => current'[d] = p
      PROVE  \/ \E d \in Core : current'[d] = PidAt(i, gen'[i])
             \/ \E d \in Core : pc'[d] \in Killing /\ arg'[d] = PidAt(i, gen'[i])
  <2>1. CASE \E d \in Core : current[d] = p
      BY <1>d, <1>e, <2>1
  <2>2. CASE \E d \in Core : pc[d] \in Killing /\ arg[d] = p
      BY <1>d, <1>e, <2>2, KillerStays
  <2> QED BY <1>c, <1>e, <2>1, <2>2
<1> USE DEF tableVars, dispatchVars
<1>1. CASE Quiet(c)
    BY <1>1, <1>e DEF Quiet
<1>2. CASE Dispatching(c)
  <2>1. PICK q, st : DispatchesFrom(c, q, st)
      BY <1>2, DispatchesLemma
  <2>2. slot[i] = "Occupied" /\ gen'[i] = gen[i] /\ st \in [Index -> States] /\ Occupied(p)
      BY <1>b, <2>1 DEF DispatchesFrom, Occupied
  <2>3. CASE st[i] = "Running"
    <3>1. state[i] = "Running"
        BY <2>1, <2>3 DEF DispatchesFrom
    <3>2. CASE current[c] # p
      <4>1. \A d \in Core : current[d] = p => current'[d] = p
          BY <3>2, KeptLemma DEF Kept
      <4> QED BY <1>e, <2>2, <3>1, <4>1
    <3>3. CASE current[c] = p
      <4>1. on_reschedule_ipi_evicts(c)
          BY <1>b, <2>1, <2>3, <3>3 DEF DispatchesFrom
      <4>2. evict_request[c] = p
          BY <3>3, <4>1 DEF on_reschedule_ipi_evicts
      <4>3. \E d \in Core : pc[d] \in Killing /\ arg[d] = p
          BY <1>b, <2>2, <4>2 DEF EvictionIsWanted
      <4> QED BY <1>d, <2>2, <4>3, KillerStays
    <3> QED BY <3>2, <3>3
  <2>4. CASE st[i] # "Running"
    <3>1. PICK n \in Elems(q) : /\ n \in Pid /\ current' = [current EXCEPT ![c] = n]
                                /\ state' = [st EXCEPT ![n.index] = "Running"]
        BY <2>1, <2>4 DEF DispatchesFrom, Dispatched
    <3>2. n.index = i /\ Occupied(n)
        BY <2>1, <2>2, <2>4, <3>1, PidLemma DEF DispatchesFrom
    <3>3. n = p
        BY <1>b, <2>2, <3>1, <3>2, OccupiedUnique
    <3> QED BY <1>a, <1>d, <2>2, <3>1, <3>3
  <2> QED BY <2>3, <2>4
<1>3. CASE wait_reaps(c)
    BY <1>a, <1>e, <1>3 DEF wait_reaps
<1>4. CASE RegisterWaiter(c)
    BY <1>e, <1>4 DEF RegisterWaiter
<1>5. CASE TakeWaiter(c)
    BY <1>e, <1>5 DEF TakeWaiter
<1>6. CASE wake_blocked_process(c)
    BY <1>a, <1>e, <1>6 DEF wake_blocked_process
<1>7. CASE Allocates(c)
  <2>1. slot[i] = "Occupied" /\ gen'[i] = gen[i]
      BY <1>a, <1>7 DEF Allocates, allocate_pid, FreeIndex
  <2> QED BY <1>e, <1>7, <2>1 DEF Allocates, allocate_pid
<1>8. CASE release_reservation(c)
    BY <1>a, <1>e, <1>8 DEF release_reservation
<1>9. CASE spawn_suspended(c)
  <2>1. i # arg[c].index
      BY <1>a, <1>9 DEF spawn_suspended
  <2> QED BY <1>a, <1>e, <1>9, <2>1 DEF spawn_suspended
<1>10. CASE start_child(c)
  <2>1. state[i] = "Running"
      BY <1>a, <1>10 DEF start_child
  <2> QED BY <1>e, <1>10, <2>1 DEF start_child
<1>11. CASE KillCheck(c)
    BY <1>e, <1>11 DEF KillCheck
<1>12. CASE \E x \in Pid : Finalized(c, x) /\ take_and_finalize_slot(x)
  <2>1. PICK x \in Pid : Finalized(c, x) /\ take_and_finalize_slot(x)
      BY <1>12
  <2>2. i \notin Dying(x) /\ gen' = gen /\ slot[i] = "Occupied" /\ state[i] = "Running"
      BY <2>1 DEF Finalized
  <2>3. p # x
      BY <1>b, <2>2 DEF Dying
  <2>4. \A d \in Core : current[d] = p => current'[d] = p
      BY <2>1, <2>3 DEF take_and_finalize_slot
  <2> QED BY <1>e, <2>2, <2>4
<1>13. CASE wake_receiver_fails(c)
    BY <1>e, <1>13 DEF wake_receiver_fails
<1>14. CASE spawn(c)
  <2>1. i # arg[c].index
      BY <1>a, <1>14 DEF spawn
  <2> QED BY <1>a, <1>e, <1>14, <2>1 DEF spawn
<1> QED BY <1>1, <1>2, <1>3, <1>4, <1>5, <1>6, <1>7, <1>8, <1>9, <1>10, <1>11, <1>12, <1>13, <1>14,
      StepCases, FinalizeLemma DEF Loud, Dispatching

(***************************************************************************)
(* The theorems.                                                           *)
(***************************************************************************)

\* SafetyInv holds at boot.
LEMMA InitSafety ==
    ASSUME Init PROVE SafetyInv
<1>1. SchedulerInv
    BY InitInv
<1>2. IdleHasNone /\ EvictionIsWanted /\ OutgoingHasLeft /\ Cr3Follows /\ SleeperIsIdle
    BY DEF Init, IdleHasNone, EvictionIsWanted, OutgoingHasLeft, Cr3Follows, SleeperIsIdle, Where
<1>3. StackBusyProtects /\ NoSleepThroughWork /\ HaltedMeansDone
    BY DEF Init, StackBusyProtects, NoSleepThroughWork, HaltedMeansDone
<1>4. NoProcessLost
    BY DEF Init, NoProcessLost
<1> QED BY <1>1, <1>2, <1>3, <1>4 DEF SafetyInv

\* Every step keeps SafetyInv.
LEMMA SafetyStep ==
    ASSUME SafetyInv, NEW c \in Core, Step(c)
    PROVE  SafetyInv'
<1> USE DEF SafetyInv
<1>1. SchedulerInv'
    BY TypeStep, CurrentStep, ArgStep, DispatchStep, ReservationStep, ParentStep, KillStep,
       WaiterStep, FreshStep, IpcStep, OneWakerStep, BlockedStep DEF SchedulerInv
<1>2. IdleHasNone' /\ EvictionIsWanted'
    BY IdleStep, EvictionStep
<1>3. NoProcessLost'
    BY QueueStep, RunningStep, ReservedStep DEF NoProcessLost, Queued
<1>4. OutgoingHasLeft' /\ StackBusyProtects' /\ Cr3Follows'
    BY StackStep, Cr3Step
<1>5. SleeperIsIdle' /\ NoSleepThroughWork' /\ HaltedMeansDone'
    BY SleepStep, HaltedStep
<1> QED BY <1>1, <1>2, <1>3, <1>4, <1>5

\* A step that changes nothing keeps SafetyInv.
LEMMA SafetyStutter ==
    ASSUME SafetyInv, UNCHANGED vars PROVE SafetyInv'
<1>a. /\ UNCHANGED <<tableVars, dispatchVars, flowVars, killVars, exitVars, wakeVars, ipcVars,
                     bootVars>>
      /\ SchedulerInv
    BY DEF vars, SafetyInv
<1>b. /\ IdleHasNone /\ EvictionIsWanted /\ NoProcessLost /\ StackBusyProtects /\ OutgoingHasLeft
      /\ Cr3Follows /\ SleeperIsIdle /\ NoSleepThroughWork /\ HaltedMeansDone
    BY DEF SafetyInv
<1>c. UNCHANGED <<slot, gen, parent, ready, current, state, cr3, pc, arg, evict_request,
                  outgoing, drops, stack_busy, ipi, idle, back, spawned>>
    BY <1>a DEF tableVars, dispatchVars, flowVars, killVars, exitVars, wakeVars, ipcVars,
                bootVars
<1>1. SchedulerInv'
    BY <1>a, StutterInv DEF vars
<1>d. /\ \A d \in Core : Where(d)' = Where(d)
      /\ \A p : Occupied(p)' = Occupied(p) /\ Known(p)' = Known(p)
    BY <1>c DEF Where, Occupied, Known
<1>2. IdleHasNone'
    BY <1>b, <1>c, <1>d DEF IdleHasNone
<1>3. EvictionIsWanted'
    BY <1>b, <1>c DEF EvictionIsWanted, Known, Occupied
<1>4. NoProcessLost'
    BY <1>b, <1>c DEF NoProcessLost, Queued
<1>5. StackBusyProtects'
    BY <1>b, <1>c DEF StackBusyProtects
<1>6. OutgoingHasLeft'
    BY <1>b, <1>c DEF OutgoingHasLeft, Where, Occupied
<1>7. Cr3Follows'
    BY <1>b, <1>c DEF Cr3Follows, Where
<1>8. SleeperIsIdle' /\ NoSleepThroughWork'
    BY <1>b, <1>c DEF SleeperIsIdle, NoSleepThroughWork
<1>9. HaltedMeansDone'
    BY <1>b, <1>c DEF HaltedMeansDone, all_processes_empty
<1> QED BY <1>1, <1>2, <1>3, <1>4, <1>5, <1>6, <1>7, <1>8, <1>9 DEF SafetyInv

\* SafetyInv holds in every reachable state, for every number of cores and table
\* slots and every mix of system calls.
THEOREM SafetyInvariance == Spec => []SafetyInv
<1>1. SafetyInv /\ [Next]_vars => SafetyInv'
    BY SafetyStep, SafetyStutter DEF Next, Step
<1> QED BY <1>1, InitSafety, PTL DEF Spec

\* on_timer_tick, wake_blocked_process, the eviction and the exits lose no process:
\* a ready one is queued, a running one has a core or a killer, and a reserved slot
\* has a core that builds for it.
THEOREM NothingIsLost == Spec => []NoProcessLost
<1>1. SafetyInv => NoProcessLost
    BY DEF SafetyInv
<1> QED BY <1>1, SafetyInvariance, PTL

\* STACK_BUSY covers exactly the kernel stacks a core is still leaving, so
\* allocate_pid never hands one of them to a new process.
THEOREM StackReuseSafety == Spec => []StackBusyProtects
<1>1. SafetyInv => StackBusyProtects
    BY DEF SafetyInv
<1> QED BY <1>1, SafetyInvariance, PTL

\* pending_drops frees no address space that a core still has in CR3.
THEOREM AddressSpaceSafety == Spec => []Cr3Live
<1>1. SafetyInv => Cr3Live
    BY Cr3IsLive DEF SafetyInv
<1> QED BY <1>1, SafetyInvariance, PTL

\* park_until_woken's announcement and second look leave no window in which a core
\* sleeps while a process is ready and nobody is about to wake it.
THEOREM NoLostWakeup == Spec => []NoSleepThroughWork
<1>1. SafetyInv => NoSleepThroughWork
    BY DEF SafetyInv
<1> QED BY <1>1, SafetyInvariance, PTL

\* Once boot has spawned its last process, idle_loop_on_own_stack halts for good only
\* when the table is empty, and it stays empty.
THEOREM HaltSafety == Spec => []HaltedMeansDone
<1>1. SafetyInv => HaltedMeansDone
    BY DEF SafetyInv
<1> QED BY <1>1, SafetyInvariance, PTL

\* A pid that was in the table and is gone never names a live process again:
\* allocate_pid raises the slot's generation each time.
NoRevival == [][\A p \in Pid : Known(p) /\ ~Occupied(p) => ~Occupied(p)']_vars

\* For the life of the kernel a pid means one process.
THEOREM PidsAreNotReused == Spec => NoRevival
<1>1. SafetyInv /\ [Next]_vars => [\A p \in Pid : Known(p) /\ ~Occupied(p) => ~Occupied(p)']_vars
    BY KnownStep DEF SafetyInv, Next, Step
<1> QED BY <1>1, SafetyInvariance, PTL DEF Spec, NoRevival

\* A process evicted for its killer, running in the table and current on no core, is
\* never dispatched or requeued: the only thing left to happen to it is its end.
EvictionIsFinal ==
    [][\A p \in Pid : Occupied(p) /\ state[p.index] = "Running" /\ (\A d \in Core : current[d] # p)
         => (Occupied(p)' => state'[p.index] = "Running" /\ \A d \in Core : current'[d] # p)]_vars

\* Between on_reschedule_ipi and terminate_process's second scan no step of any core
\* brings the evicted process back.
THEOREM EvictedNeverRuns == Spec => EvictionIsFinal
<1>1. SafetyInv /\ [Next]_vars =>
        [\A p \in Pid : Occupied(p) /\ state[p.index] = "Running" /\ (\A d \in Core : current[d] # p)
           => (Occupied(p)' => state'[p.index] = "Running" /\ \A d \in Core : current'[d] # p)]_vars
    BY EvictedStays DEF SafetyInv, Next, Step
<1> QED BY <1>1, SafetyInvariance, PTL DEF Spec, EvictionIsFinal

==============================================================================
