--------------------------- MODULE SchedulerTable ---------------------------
(***************************************************************************)
(* Every step keeps the part of Scheduler's inductive invariant that is    *)
(* about the process table, the ready queue and the cores' current processes. *)
(***************************************************************************)
EXTENDS SchedulerSteps

\* Most leaves are first-order: try Zenon before the SMT solver.
USE ZenonT(15), SMTT(60)

\* Queueing a process that was suspended or blocked keeps dispatch safe.
LEMMA EnqueueIsSafe ==
    ASSUME SchedulerInv, NEW t \in Pid, Occupied(t), state[t.index] \in {"Suspended", "Blocked"},
           ready' = Append(ready, t), state' = [state EXCEPT ![t.index] = "Ready"],
           UNCHANGED <<slot, gen, current>>
    PROVE  DispatchSafe'
<1>1. /\ ready \in Seq(Pid) /\ Distinct(ready) /\ state \in [Index -> States]
      /\ current \in [Core -> Pid \union {None}] /\ t.index \in Index
      /\ \A p \in Elems(ready) : p \in Pid /\ Occupied(p) /\ state[p.index] = "Ready"
      /\ \A d \in Core : current[d] # None =>
           current[d] \in Pid /\ Occupied(current[d]) /\ state[current[d].index] = "Running"
      /\ \A d, e \in Core : current[d] # None /\ current[d] = current[e] => d = e
  <2>1. /\ ready \in Seq(Pid) /\ state \in [Index -> States] /\ current \in [Core -> Pid \union {None}]
      BY DEF SchedulerInv, TypeOK, States
  <2>2. DispatchSafe
      BY DEF SchedulerInv
  <2>3. \A p \in Elems(ready) : p \in Pid /\ Occupied(p) /\ state[p.index] = "Ready"
      BY <2>1, <2>2, SMTT(60) DEF DispatchSafe, Queued, Elems
  <2> QED BY <2>1, <2>2, <2>3, PidLemma, ZenonT(60) DEF DispatchSafe
<1>2. Distinct(ready') /\ Elems(ready') = Elems(ready) \union {t}
    BY <1>1, PushLemma
<1>3. \A p : Occupied(p)' <=> Occupied(p)
    BY DEF Occupied
<1>4. \A p \in Elems(ready') : Occupied(p)' /\ state'[p.index] = "Ready"
    BY <1>1, <1>2, <1>3, PidLemma, SMTT(60)
<1>5. \A d \in Core : current'[d] # None => (Occupied(current[d]) /\ state[current[d].index] = "Running")'
    BY <1>1, <1>3, PidLemma, SMTT(60)
<1> QED BY <1>1, <1>2, <1>4, <1>5 DEF DispatchSafe, Queued

\* Boot's spawn works on the slot allocate_pid reserved for it.
LEMMA SpawnLemma ==
    ASSUME SchedulerInv, NEW c \in Core, spawn(c)
    PROVE  /\ arg[c] \in Pid /\ arg[c].index \in Index
           /\ slot[arg[c].index] = "Reserved" /\ gen[arg[c].index] = arg[c].generation
<1>1. arg[c].index \in Index /\ pc[c] \in Building
    BY DEF spawn, Building
<1>2. arg[c] \in Pid
    BY <1>1, PidLemma DEF SchedulerInv, TypeOK, ArgIsPid
<1> QED BY <1>1, <1>2 DEF SchedulerInv, ReservationOwned

\* Every step keeps dispatch safe.
LEMMA DispatchStep ==
    ASSUME SchedulerInv, NEW c \in Core, Step(c)
    PROVE  DispatchSafe'
<1>a. /\ ready \in Seq(Pid) /\ Distinct(ready) /\ state \in [Index -> States]
      /\ slot \in [Index -> {"Empty", "Reserved", "Occupied", "Zombie"}] /\ gen \in [Index -> Nat]
      /\ current \in [Core -> Pid \union {None}]
      /\ \A p \in Elems(ready) : p \in Pid /\ Occupied(p) /\ state[p.index] = "Ready"
      /\ \A d \in Core : current[d] # None =>
           current[d] \in Pid /\ Occupied(current[d]) /\ state[current[d].index] = "Running"
      /\ \A d, e \in Core : current[d] # None /\ current[d] = current[e] => d = e
    BY PidLemma, SMTT(60) DEF SchedulerInv, TypeOK, DispatchSafe, Queued, States, Elems
<1> USE DEF tableVars, dispatchVars, Queued
<1>1. CASE Quiet(c)
    BY <1>1, <1>a, PidLemma, SMTT(60) DEF DispatchSafe, Occupied, Quiet
<1>2. CASE PureDispatch(c)
    BY <1>2 DEF PureDispatch, Redispatch
<1>3. CASE block_current_process(c) /\ BlockDispatch(c)
    BY <1>3 DEF BlockDispatch, Redispatch
<1>4. CASE wait_blocks(c) /\ BlockDispatch(c)
    BY <1>4 DEF BlockDispatch, Redispatch
<1>5. CASE wait_reaps(c)
    BY <1>5, <1>a, PidLemma, SMTT(60) DEF DispatchSafe, Occupied, wait_reaps
<1>6. CASE RegisterWaiter(c)
    BY <1>6, <1>a, PidLemma, ZenonT(60) DEF DispatchSafe, Occupied, RegisterWaiter
<1>7. CASE TakeWaiter(c)
    BY <1>7, <1>a, PidLemma, ZenonT(60) DEF DispatchSafe, Occupied, TakeWaiter
<1>8. CASE wake_blocked_process(c)
  <2>1. arg[c] \in Pid
      BY <1>8 DEF wake_blocked_process, AfterWake, SchedulerInv, ArgIsPid
  <2>2. CASE Occupied(arg[c]) /\ state[arg[c].index] = "Blocked"
      BY <1>8, <2>1, <2>2, EnqueueIsSafe DEF wake_blocked_process, AfterWake
  <2>3. CASE ~(Occupied(arg[c]) /\ state[arg[c].index] = "Blocked")
      BY <1>a, <1>8, <2>3 DEF wake_blocked_process, AfterWake, DispatchSafe, Occupied
  <2> QED BY <2>2, <2>3
<1>9. CASE Allocates(c)
  <2>1. UNCHANGED <<ready, state, current>>
      BY <1>9 DEF Allocates, allocate_pid
  <2>2. \A p \in Pid : Occupied(p) => Occupied(p)'
      BY <1>a, <1>9, PidLemma, SMTT(60) DEF Allocates, allocate_pid, FreeIndex, Occupied
  <2> QED BY <1>a, <2>1, <2>2 DEF DispatchSafe
<1>10. CASE release_reservation(c)
    BY <1>10, <1>a, PidLemma, ZenonT(60) DEF DispatchSafe, Occupied, release_reservation, ReturnToUser
<1>11. CASE spawn_suspended(c)
    BY <1>11, <1>a, PidLemma, SMTT(60) DEF DispatchSafe, Occupied, spawn_suspended, ReturnToUser, SchedulerInv, ReservationOwned, Building
<1>12. CASE start_child(c)
    BY <1>12, PidLemma, EnqueueIsSafe DEF start_child
<1>13. CASE KillCheck(c)
    BY <1>13, <1>a, PidLemma, ZenonT(60) DEF DispatchSafe, Occupied, KillCheck
<1>14. CASE \E p \in Pid : Finalized(c, p) /\ take_and_finalize_slot(p)
    BY <1>14, FinalizeIsSafe
<1>15. CASE spawn(c)
  <2>1. PICK t \in Pid : t = arg[c] /\ t.index \in Index /\ slot[t.index] = "Reserved"
                         /\ gen[t.index] = t.generation
      BY <1>15, SpawnLemma
  <2>2. /\ ready' = Append(ready, t) /\ slot' = [slot EXCEPT ![t.index] = "Occupied"]
        /\ state' = [state EXCEPT ![t.index] = "Ready"] /\ UNCHANGED <<gen, current>>
      BY <1>15, <2>1 DEF spawn
  <2>3. \A p \in Pid : Occupied(p) => p # t /\ p.index # t.index /\ Occupied(p)'
      BY <1>a, <2>1, <2>2, PidLemma, SMTT(60) DEF Occupied
  <2>4. Distinct(ready') /\ Elems(ready') = Elems(ready) \union {t}
      BY <1>a, <2>1, <2>2, <2>3, PushLemma
  <2>5. Occupied(t)' /\ state'[t.index] = "Ready"
      BY <1>a, <2>1, <2>2 DEF Occupied
  <2>6. \A p \in Pid : Occupied(p) => state'[p.index] = state[p.index]
      BY <1>a, <2>1, <2>2, <2>3, PidLemma
  <2>7. \A p \in Elems(ready') : Occupied(p)' /\ state'[p.index] = "Ready"
      BY <1>a, <2>3, <2>4, <2>5, <2>6
  <2>8. \A d \in Core : current'[d] # None => (Occupied(current[d]) /\ state[current[d].index] = "Running")'
      BY <1>a, <2>2, <2>3, <2>6
  <2> QED BY <1>a, <2>2, <2>4, <2>7, <2>8 DEF DispatchSafe
<1>16. CASE wake_receiver_fails(c)
    BY <1>16, <1>a, PidLemma, ZenonT(60) DEF DispatchSafe, Occupied, wake_receiver_fails
<1> QED BY <1>1, <1>2, <1>3, <1>4, <1>5, <1>6, <1>7, <1>8, <1>9, <1>10, <1>11, <1>12, <1>13, <1>14, <1>15, <1>16, StepShapes DEF Shape

\* Every step leaves a core in ring 3 or in a system call with a current process.
LEMMA CurrentStep ==
    ASSUME SchedulerInv, NEW c \in Core, Step(c)
    PROVE  CurrentInKernel'
<1>a. /\ CurrentInKernel
      /\ pc \in [Core -> PcValue] /\ back \in [Core -> {"user", "orphans", "drain", "idle", "boot"}]
      /\ current \in [Core -> Pid \union {None}] /\ outgoing \in [Core -> Pid \union {None}]
    BY DEF SchedulerInv, TypeOK
<1> USE DEF tableVars, dispatchVars, flowVars, exitVars, ipcVars, killVars
<1>1. CASE Quiet(c)
  <2>1. \A d \in Core \ {c} : Where(d)' = Where(d) /\ current'[d] = current[d] /\ outgoing'[d] = outgoing[d]
      BY <1>a, <1>1 DEF Quiet, Where
  <2>2. Where(c)' = pc'[c] /\ Where(c) = pc[c] /\ pc'[c] \notin {"orphans"} /\ current'[c] = current[c]
      BY <1>a, <1>1 DEF Quiet, Where
  <2>3. (pc'[c] \in {"user", "drop", "drain", "return", "build", "notify", "block"} => current[c] # None)
        /\ (pc'[c] \in Killing => pc[c] \in Killing)
      BY <1>1 DEF Quiet
  <2> QED BY <1>a, <2>1, <2>2, <2>3 DEF CurrentInKernel
<1>2. CASE PureDispatch(c)
  <2>1. \A d \in Core \ {c} : Where(d)' = Where(d) /\ current'[d] = current[d] /\ outgoing'[d] = outgoing[d]
      BY <1>a, <1>2 DEF Where, PureDispatch, Redispatch
  <2>2. Where(c)' = pc'[c] /\ pc'[c] \notin Killing \union {"build", "notify", "block", "return", "orphans"}
        /\ (pc'[c] \in {"drain", "drop", "user"} => current'[c] # None)
      BY <1>a, <1>2 DEF Killing, Where, PureDispatch, Redispatch
  <2> QED BY <1>a, <2>1, <2>2 DEF CurrentInKernel
<1>3. CASE block_current_process(c) /\ BlockDispatch(c)
  <2>1. \A d \in Core \ {c} : Where(d)' = Where(d) /\ current'[d] = current[d] /\ outgoing'[d] = outgoing[d]
      BY <1>a, <1>3, ZenonT(60) DEF Where, BlockDispatch, Redispatch
  <2>2. Where(c)' = pc'[c] /\ pc'[c] \notin Killing \union {"build", "notify", "block", "return", "orphans"}
        /\ (pc'[c] \in {"drain", "drop", "user"} => current'[c] # None)
      BY <1>a, <1>3 DEF Killing, Where, BlockDispatch, Redispatch
  <2> QED BY <1>a, <2>1, <2>2 DEF CurrentInKernel
<1>4. CASE wait_blocks(c) /\ BlockDispatch(c)
  <2>1. \A d \in Core \ {c} : Where(d)' = Where(d) /\ current'[d] = current[d] /\ outgoing'[d] = outgoing[d]
      BY <1>a, <1>4, ZenonT(60) DEF Where, BlockDispatch, Redispatch
  <2>2. Where(c)' = pc'[c] /\ pc'[c] \notin Killing \union {"build", "notify", "block", "return", "orphans"}
        /\ (pc'[c] \in {"drain", "drop", "user"} => current'[c] # None)
      BY <1>a, <1>4 DEF Killing, Where, BlockDispatch, Redispatch
  <2> QED BY <1>a, <2>1, <2>2 DEF CurrentInKernel
<1>5. CASE wait_reaps(c)
    BY <1>5, <1>a, PidLemma DEF CurrentInKernel, Where, Killing, wait_reaps
<1>6. CASE RegisterWaiter(c)
    BY <1>6, <1>a, PidLemma, SMTT(60) DEF CurrentInKernel, Where, Killing, RegisterWaiter
<1>7. CASE TakeWaiter(c)
    BY <1>7, <1>a, PidLemma, SMTT(60) DEF CurrentInKernel, Where, Killing, TakeWaiter
<1>8. CASE wake_blocked_process(c)
    BY <1>8, <1>a, PidLemma, SMTT(60) DEF CurrentInKernel, Where, Killing, wake_blocked_process, AfterWake
<1>9. CASE Allocates(c)
    BY <1>9, <1>a, PidLemma, SMTT(60) DEF CurrentInKernel, Where, Killing, Allocates, allocate_pid
<1>10. CASE release_reservation(c)
    BY <1>10, <1>a, PidLemma, SMTT(60) DEF CurrentInKernel, Where, Killing, release_reservation, ReturnToUser
<1>11. CASE spawn_suspended(c)
    BY <1>11, <1>a, PidLemma, SMTT(60) DEF CurrentInKernel, Where, Killing, spawn_suspended, ReturnToUser
<1>12. CASE start_child(c)
    BY <1>12, <1>a, PidLemma, SMTT(60) DEF CurrentInKernel, Where, Killing, start_child
<1>13. CASE KillCheck(c)
    BY <1>13, <1>a, PidLemma, SMTT(60) DEF CurrentInKernel, Where, Killing, KillCheck
<1>14. CASE \E p \in Pid : Finalized(c, p) /\ take_and_finalize_slot(p)
  <2>1. PICK p \in Pid : Finalized(c, p)
      BY <1>14
  <2>2. \A d, e \in Core : current[d] # None /\ current[d] = current[e] => d = e
      BY DEF SchedulerInv, DispatchSafe
  <2>3. \A d \in Core \ {c} : Where(d)' = Where(d) /\ current'[d] = current[d] /\ outgoing'[d] = outgoing[d]
      BY <1>a, <2>1, <2>2, PidLemma, SMTT(60) DEF Finalized, Where
  <2>4. Where(c)' = "orphans" /\ (outgoing'[c] # None \/ current'[c] # None)
      BY <1>a, <2>1, PidLemma, SMTT(60) DEF Finalized, Where, CurrentInKernel, Killing
  <2> QED BY <1>a, <2>3, <2>4 DEF CurrentInKernel, Killing
<1>15. CASE spawn(c)
    BY <1>15, <1>a, PidLemma, SMTT(60) DEF CurrentInKernel, Where, Killing, spawn
<1>16. CASE wake_receiver_fails(c)
    BY <1>16, <1>a, PidLemma, SMTT(60) DEF CurrentInKernel, Where, Killing, wake_receiver_fails, AfterWake
<1> QED BY <1>1, <1>2, <1>3, <1>4, <1>5, <1>6, <1>7, <1>8, <1>9, <1>10, <1>11, <1>12, <1>13, <1>14, <1>15, <1>16, StepShapes DEF Shape

\* Every step keeps the pids system calls work on in their types.
LEMMA ArgStep ==
    ASSUME SchedulerInv, NEW c \in Core, Step(c)
    PROVE  ArgIsPid'
<1>a. /\ ArgIsPid
      /\ pc \in [Core -> PcValue] /\ back \in [Core -> {"user", "orphans", "drain", "idle", "boot"}]
      /\ arg \in [Core -> Pid \union {None, OutOfRange}] /\ peer \in [Core -> Core \union {None}]
      /\ registered \subseteq Pid /\ gen \in [Index -> Nat]
    BY DEF SchedulerInv, TypeOK
<1> USE DEF tableVars, dispatchVars, flowVars, exitVars, ipcVars, killVars, Killing, Building
<1>1. CASE Quiet(c)
    BY <1>1, <1>a, PidLemma, ZenonT(60) DEF ArgIsPid, Quiet
<1>2. CASE PureDispatch(c)
    BY <1>2, <1>a, PidLemma, SMTT(60) DEF ArgIsPid, PureDispatch, Redispatch
<1>3. CASE block_current_process(c) /\ BlockDispatch(c)
    BY <1>3, <1>a, PidLemma, SMTT(60) DEF ArgIsPid, block_current_process, BlockDispatch, Redispatch
<1>4. CASE wait_blocks(c) /\ BlockDispatch(c)
    BY <1>4, <1>a, PidLemma, SMTT(60) DEF ArgIsPid, wait_blocks, BlockDispatch, Redispatch
<1>5. CASE wait_reaps(c)
    BY <1>5, <1>a, PidLemma DEF ArgIsPid, wait_reaps
<1>6. CASE RegisterWaiter(c)
    BY <1>6, <1>a, PidLemma, SMTT(60) DEF ArgIsPid, RegisterWaiter
<1>7. CASE TakeWaiter(c)
    BY <1>7, <1>a, PidLemma, SMTT(60) DEF ArgIsPid, TakeWaiter
<1>8. CASE wake_blocked_process(c)
  <2>1. /\ \A d \in Core \ {c} : pc'[d] = pc[d] /\ arg'[d] = arg[d] /\ peer'[d] = peer[d]
        /\ pc'[c] = back[c]
      BY <1>a, <1>8 DEF wake_blocked_process, AfterWake
  <2> QED BY <1>a, <2>1 DEF ArgIsPid
<1>9. CASE Allocates(c)
    BY <1>9, <1>a, PidLemma, SMTT(60) DEF ArgIsPid, Allocates, allocate_pid
<1>10. CASE release_reservation(c)
    BY <1>10, <1>a, PidLemma, SMTT(60) DEF ArgIsPid, release_reservation, ReturnToUser
<1>11. CASE spawn_suspended(c)
    BY <1>11, <1>a, PidLemma, SMTT(60) DEF ArgIsPid, spawn_suspended, ReturnToUser
<1>12. CASE start_child(c)
    BY <1>12, <1>a, PidLemma, SMTT(60) DEF ArgIsPid, start_child
<1>13. CASE KillCheck(c)
    BY <1>13, <1>a, PidLemma, SMTT(60) DEF ArgIsPid, KillCheck
<1>14. CASE \E p \in Pid : Finalized(c, p) /\ take_and_finalize_slot(p)
  <2>1. /\ \A d \in Core \ {c} : pc'[d] = pc[d] /\ arg'[d] = arg[d] /\ peer'[d] = peer[d]
        /\ pc'[c] = "orphans"
      BY <1>a, <1>14 DEF Finalized
  <2> QED BY <1>a, <2>1 DEF ArgIsPid
<1>15. CASE spawn(c)
    BY <1>15, <1>a, PidLemma, SMTT(60) DEF ArgIsPid, spawn
<1>16. CASE wake_receiver_fails(c)
  <2>1. /\ \A d \in Core \ {c} : pc'[d] = pc[d] /\ arg'[d] = arg[d] /\ peer'[d] = peer[d]
        /\ pc'[c] = back[c]
      BY <1>a, <1>16 DEF wake_receiver_fails, AfterWake
  <2> QED BY <1>a, <2>1 DEF ArgIsPid
<1> QED BY <1>1, <1>2, <1>3, <1>4, <1>5, <1>6, <1>7, <1>8, <1>9, <1>10, <1>11, <1>12, <1>13, <1>14, <1>15, <1>16, StepShapes DEF Shape

\* Every step keeps the reservations apart.
LEMMA ReservationStep ==
    ASSUME SchedulerInv, NEW c \in Core, Step(c)
    PROVE  ReservationOwned'
<1>a. /\ ReservationOwned
      /\ pc \in [Core -> PcValue] /\ back \in [Core -> {"user", "orphans", "drain", "idle", "boot"}]
      /\ arg \in [Core -> Pid \union {None, OutOfRange}] /\ gen \in [Index -> Nat]
      /\ slot \in [Index -> {"Empty", "Reserved", "Occupied", "Zombie"}]
    BY DEF SchedulerInv, TypeOK
<1> USE DEF tableVars, dispatchVars, flowVars, exitVars, ipcVars, killVars, Building
<1>1. CASE Quiet(c)
  <2>1. /\ \A d \in Core : pc'[d] \in Building => d # c /\ pc[d] \in Building /\ arg'[d] = arg[d]
        /\ UNCHANGED <<slot, gen>>
      BY <1>a, <1>1 DEF Quiet
  <2> QED BY <1>a, <2>1, SMTT(60) DEF ReservationOwned
<1>2. CASE PureDispatch(c)
    BY <1>2, <1>a, PidLemma, SMTT(60) DEF ReservationOwned, PureDispatch, Redispatch
<1>3. CASE block_current_process(c) /\ BlockDispatch(c)
    BY <1>3, <1>a, PidLemma, SMTT(60) DEF ReservationOwned, block_current_process, BlockDispatch, Redispatch
<1>4. CASE wait_blocks(c) /\ BlockDispatch(c)
    BY <1>4, <1>a, PidLemma, SMTT(60) DEF ReservationOwned, wait_blocks, BlockDispatch, Redispatch
<1>5. CASE wait_reaps(c)
    BY <1>5, <1>a, PidLemma, SMTT(60) DEF ReservationOwned, wait_reaps
<1>6. CASE RegisterWaiter(c)
    BY <1>6, <1>a, PidLemma, SMTT(60) DEF ReservationOwned, RegisterWaiter
<1>7. CASE TakeWaiter(c)
    BY <1>7, <1>a, PidLemma, SMTT(60) DEF ReservationOwned, TakeWaiter
<1>8. CASE wake_blocked_process(c)
  <2>1. /\ \A d \in Core \ {c} : pc'[d] = pc[d] /\ arg'[d] = arg[d]
        /\ pc'[c] = back[c] /\ UNCHANGED <<slot, gen>>
      BY <1>a, <1>8 DEF wake_blocked_process, AfterWake
  <2> QED BY <1>a, <2>1, SMTT(60) DEF ReservationOwned
<1>9. CASE Allocates(c)
    BY <1>9, <1>a, PidLemma, SMTT(60) DEF ReservationOwned, Allocates, allocate_pid, FreeIndex
<1>10. CASE release_reservation(c)
    BY <1>10, <1>a, PidLemma, SMTT(60) DEF ReservationOwned, release_reservation, ReturnToUser
<1>11. CASE spawn_suspended(c)
    BY <1>11, <1>a, PidLemma, SMTT(60) DEF ReservationOwned, spawn_suspended, ReturnToUser
<1>12. CASE start_child(c)
  <2>1. /\ \A d \in Core : pc'[d] \in Building => d # c /\ pc[d] \in Building /\ arg'[d] = arg[d]
        /\ UNCHANGED <<slot, gen>>
      BY <1>12, <1>a DEF start_child
  <2> QED BY <1>a, <2>1, SMTT(60) DEF ReservationOwned
<1>13. CASE KillCheck(c)
  <2>1. /\ \A d \in Core : pc'[d] \in Building => d # c /\ pc[d] \in Building /\ arg'[d] = arg[d]
        /\ UNCHANGED <<slot, gen>>
      BY <1>13, <1>a DEF KillCheck
  <2> QED BY <1>a, <2>1, SMTT(60) DEF ReservationOwned
<1>14. CASE \E p \in Pid : Finalized(c, p) /\ take_and_finalize_slot(p)
  <2>1. PICK p \in Pid : Finalized(c, p)
      BY <1>14
  <2>2. /\ \A d \in Core \ {c} : pc'[d] = pc[d] /\ arg'[d] = arg[d]
        /\ pc'[c] = "orphans" /\ gen' = gen
      BY <1>a, <2>1 DEF Finalized
  <2>3. \A j \in Index : slot[j] = "Reserved" => slot'[j] = "Reserved"
      BY <2>1, DyingLemma DEF Finalized
  <2> QED BY <1>a, <2>2, <2>3, SMTT(60) DEF ReservationOwned
<1>15. CASE spawn(c)
    BY <1>15, <1>a, PidLemma, SMTT(60) DEF ReservationOwned, spawn
<1>16. CASE wake_receiver_fails(c)
  <2>1. /\ \A d \in Core \ {c} : pc'[d] = pc[d] /\ arg'[d] = arg[d]
        /\ pc'[c] = back[c] /\ UNCHANGED <<slot, gen>>
      BY <1>a, <1>16 DEF wake_receiver_fails, AfterWake
  <2> QED BY <1>a, <2>1, SMTT(60) DEF ReservationOwned
<1> QED BY <1>1, <1>2, <1>3, <1>4, <1>5, <1>6, <1>7, <1>8, <1>9, <1>10, <1>11, <1>12, <1>13, <1>14, <1>15, <1>16, StepShapes DEF Shape

\* Every step keeps the parents of live children live.
LEMMA ParentStep ==
    ASSUME SchedulerInv, NEW c \in Core, Step(c)
    PROVE  ParentIsLive'
<1>a. /\ ParentIsLive
      /\ slot \in [Index -> {"Empty", "Reserved", "Occupied", "Zombie"}] /\ gen \in [Index -> Nat]
      /\ parent \in [Index -> Pid \union {None}] /\ state \in [Index -> States]
      /\ arg \in [Core -> Pid \union {None, OutOfRange}]
    BY DEF SchedulerInv, TypeOK, States
<1> USE DEF tableVars, dispatchVars, flowVars, exitVars, ipcVars, killVars
<1>1. CASE Quiet(c)
    BY <1>1, <1>a, PidLemma DEF ParentIsLive, Occupied, Quiet
<1>2. CASE PureDispatch(c)
    BY <1>2, <1>a, PidLemma, SMTT(60) DEF ParentIsLive, Occupied, PureDispatch, Redispatch
<1>3. CASE block_current_process(c) /\ BlockDispatch(c)
  <2>1. UNCHANGED <<slot, gen, parent>> /\ \A i \in Index : state'[i] = "Suspended" <=> state[i] = "Suspended"
      BY <1>3 DEF BlockDispatch, Redispatch
  <2> QED BY <1>a, <2>1, PidLemma DEF ParentIsLive, Occupied
<1>4. CASE wait_blocks(c) /\ BlockDispatch(c)
  <2>1. UNCHANGED <<slot, gen, parent>> /\ \A i \in Index : state'[i] = "Suspended" <=> state[i] = "Suspended"
      BY <1>4 DEF BlockDispatch, Redispatch
  <2> QED BY <1>a, <2>1, PidLemma DEF ParentIsLive, Occupied
<1>5. CASE wait_reaps(c)
  <2>1. PICK t \in Target :
          /\ slot[t.index] = "Zombie" /\ slot' = [slot EXCEPT ![t.index] = "Empty"]
          /\ parent' = [parent EXCEPT ![t.index] = None]
      BY <1>5 DEF wait_reaps
  <2>2. gen' = gen /\ state' = state
      BY <1>5 DEF wait_reaps
  <2>3. \A i \in Index : slot'[i] = "Occupied" <=> slot[i] = "Occupied"
      BY <1>a, <2>1
  <2>4. \A i \in Index : parent'[i] # None => parent'[i] = parent[i]
      BY <1>a, <2>1
  <2>5. \A p \in Pid : Occupied(p)' <=> Occupied(p)
      BY <2>2, <2>3, PidLemma DEF Occupied
  <2> QED BY <1>a, <2>2, <2>3, <2>4, <2>5 DEF ParentIsLive
<1>6. CASE RegisterWaiter(c)
    BY <1>6, <1>a, PidLemma DEF ParentIsLive, Occupied, RegisterWaiter
<1>7. CASE TakeWaiter(c)
    BY <1>7, <1>a, PidLemma DEF ParentIsLive, Occupied, TakeWaiter
<1>8. CASE wake_blocked_process(c)
    BY <1>8, <1>a, PidLemma DEF ParentIsLive, Occupied, wake_blocked_process, AfterWake
<1>9. CASE Allocates(c)
    BY <1>9, <1>a, PidLemma, SMTT(60) DEF ParentIsLive, Occupied, Allocates, allocate_pid, FreeIndex
<1>10. CASE release_reservation(c)
    BY <1>10, <1>a, PidLemma, ZenonT(60) DEF ParentIsLive, Occupied, release_reservation, ReturnToUser
<1>11. CASE spawn_suspended(c)
  <2> DEFINE i == arg[c].index
  <2>1. i \in Index /\ slot[i] = "Reserved" /\ pc[c] = "build"
      BY <1>11 DEF spawn_suspended, SchedulerInv, ReservationOwned, Building
  <2>2. current[c] \in Pid /\ Occupied(current[c]) /\ state[current[c].index] = "Running"
      BY <2>1, SMTT(60) DEF SchedulerInv, TypeOK, CurrentInKernel, Where, DispatchSafe
  <2>3. /\ slot' = [slot EXCEPT ![i] = "Occupied"] /\ state' = [state EXCEPT ![i] = "Suspended"]
        /\ parent' = [parent EXCEPT ![i] = current[c]] /\ gen' = gen
      BY <1>11 DEF spawn_suspended
  <2>4. \A p \in Pid : Occupied(p) => Occupied(p)' /\ p.index # i /\ state'[p.index] = state[p.index]
      BY <1>a, <2>1, <2>3 DEF Occupied
  <2>5. i # current[c].index
      BY <2>2, <2>4
  <2>a. \A p \in Pid : Occupied(p)' <=> slot'[p.index] = "Occupied" /\ gen'[p.index] = p.generation
      BY PidLemma DEF Occupied
  <2> SUFFICES ASSUME NEW j \in Index, slot'[j] = "Occupied", parent'[j] # None
               PROVE  (Occupied(parent[j]) /\ parent[j].index # j /\ state[parent[j].index] # "Suspended")'
      BY DEF ParentIsLive
  <2>6. CASE j = i
    <3>1. parent'[j] = current[c]
        BY <1>a, <2>1, <2>3, <2>6
    <3>2. slot'[current[c].index] = "Occupied" /\ gen'[current[c].index] = current[c].generation
        BY <2>2, <2>4, <2>a
    <3>3. state'[current[c].index] # "Suspended"
        BY <2>2, <2>4
    <3>4. current[c].index \in Index
        BY <2>2, PidLemma
    <3> QED BY <2>5, <2>6, <3>1, <3>2, <3>3, <3>4 DEF Occupied
  <2>7. CASE j # i
    <3>1. slot[j] = "Occupied" /\ parent'[j] = parent[j] /\ parent[j] \in Pid
        BY <1>a, <2>1, <2>3, <2>7
    <3>2. Occupied(parent[j]) /\ parent[j].index # j /\ state[parent[j].index] # "Suspended"
        BY <1>a, <3>1 DEF ParentIsLive
    <3>3. slot'[parent[j].index] = "Occupied" /\ gen'[parent[j].index] = parent[j].generation
        BY <2>4, <2>a, <3>1, <3>2
    <3>4. state'[parent[j].index] = state[parent[j].index] /\ parent[j].index \in Index
        BY <2>4, <3>1, <3>2, PidLemma
    <3> QED BY <3>1, <3>2, <3>3, <3>4 DEF Occupied
  <2> QED BY <2>6, <2>7
<1>12. CASE start_child(c)
    BY <1>12, <1>a, PidLemma, SMTT(60) DEF ParentIsLive, Occupied, start_child
<1>13. CASE KillCheck(c)
    BY <1>13, <1>a, PidLemma DEF ParentIsLive, Occupied, KillCheck
<1>14. CASE \E p \in Pid : Finalized(c, p) /\ take_and_finalize_slot(p)
  <2>1. PICK p \in Pid : Finalized(c, p)
      BY <1>14
  <2>2. Occupied(p) /\ gen' = gen
      BY <2>1 DEF Finalized
  <2>3. ASSUME NEW j \in Index, slot'[j] = "Occupied", parent'[j] # None
        PROVE  j \notin Dying(p) /\ slot[j] = "Occupied" /\ parent[j] # p /\ parent'[j] = parent[j]
      BY <2>1, <2>3 DEF Finalized
  <2>4. ASSUME NEW x \in Pid, x # p, Occupied(x), state[x.index] # "Suspended"
        PROVE  Occupied(x)' /\ state'[x.index] # "Suspended"
    <3>1. x.index \in Index \ Dying(p)
        BY <2>2, <2>4, DyingLemma, PidLemma, SMTT(60) DEF Occupied
    <3> QED BY <2>1, <2>4, <3>1 DEF Finalized, Occupied
  <2>5. ASSUME NEW j \in Index, slot'[j] = "Occupied", parent'[j] # None
        PROVE  (Occupied(parent[j]) /\ parent[j].index # j /\ state[parent[j].index] # "Suspended")'
    <3>1. parent[j] \in Pid /\ Occupied(parent[j]) /\ parent[j].index # j /\ state[parent[j].index] # "Suspended"
        BY <1>a, <2>3, <2>5 DEF ParentIsLive
    <3> QED BY <2>3, <2>4, <2>5, <3>1
  <2> QED BY <2>5 DEF ParentIsLive
<1>15. CASE spawn(c)
  <2>1. PICK i \in Index : i = arg[c].index /\ slot[i] = "Reserved"
      BY <1>15, SpawnLemma
  <2>2. /\ slot' = [slot EXCEPT ![i] = "Occupied"] /\ state' = [state EXCEPT ![i] = "Ready"]
        /\ parent' = [parent EXCEPT ![i] = None] /\ gen' = gen
      BY <1>15, <2>1 DEF spawn
  <2>3. \A p \in Pid : Occupied(p) => Occupied(p)' /\ state'[p.index] = state[p.index]
      BY <1>a, <2>1, <2>2 DEF Occupied
  <2>4. ASSUME NEW j \in Index, slot'[j] = "Occupied", parent'[j] # None
        PROVE  slot[j] = "Occupied" /\ parent'[j] = parent[j] /\ parent[j] \in Pid
      BY <1>a, <2>1, <2>2, <2>4
  <2> QED BY <1>a, <2>3, <2>4 DEF ParentIsLive
<1>16. CASE wake_receiver_fails(c)
    BY <1>16, <1>a, PidLemma DEF ParentIsLive, Occupied, wake_receiver_fails
<1> QED BY <1>1, <1>2, <1>3, <1>4, <1>5, <1>6, <1>7, <1>8, <1>9, <1>10, <1>11, <1>12, <1>13, <1>14, <1>15, <1>16, StepShapes DEF Shape

\* A kill under way keeps its target in a step that leaves its core, and every slot
\* that is taken, alone.
LEMMA KillKept ==
    ASSUME KillHitsTarget,
           \A d \in Core : pc[d] \in Killing => arg[d].index \in Index,
           \A d \in Core : pc'[d] \in Killing =>
               pc[d] \in Killing /\ arg'[d] = arg[d] /\ current'[d] = current[d],
           \A i \in Index : slot[i] \in {"Occupied", "Zombie"} =>
               /\ slot'[i] = slot[i] /\ gen'[i] = gen[i] /\ parent'[i] = parent[i]
               /\ wait_waiter'[i] = wait_waiter[i]
    PROVE  KillHitsTarget'
<1> SUFFICES ASSUME NEW d \in Core, pc'[d] \in Killing
             PROVE  (/\ gen[arg[d].index] = arg[d].generation
                     /\ slot[arg[d].index] \in {"Occupied", "Zombie"}
                     /\ current[d] # None /\ parent[arg[d].index] = current[d]
                     /\ wait_waiter[arg[d].index] = None)'
  BY DEF KillHitsTarget
<1>1. pc[d] \in Killing /\ arg'[d] = arg[d] /\ current'[d] = current[d] /\ arg[d].index \in Index
  OBVIOUS
<1>2. /\ gen[arg[d].index] = arg[d].generation /\ slot[arg[d].index] \in {"Occupied", "Zombie"}
      /\ current[d] # None /\ parent[arg[d].index] = current[d] /\ wait_waiter[arg[d].index] = None
  BY <1>1 DEF KillHitsTarget
<1>3. LET i == arg[d].index
      IN  slot'[i] = slot[i] /\ gen'[i] = gen[i] /\ parent'[i] = parent[i] /\ wait_waiter'[i] = wait_waiter[i]
  BY <1>1, <1>2
<1> QED BY <1>1, <1>2, <1>3

\* Every step leaves the targets of the kills under way in their slots.
LEMMA KillStep ==
    ASSUME SchedulerInv, NEW c \in Core, Step(c)
    PROVE  KillHitsTarget'
<1>a. /\ KillHitsTarget
      /\ slot \in [Index -> {"Empty", "Reserved", "Occupied", "Zombie"}] /\ gen \in [Index -> Nat]
      /\ parent \in [Index -> Pid \union {None}] /\ wait_waiter \in [Index -> Pid \union {None}]
      /\ pc \in [Core -> PcValue] /\ back \in [Core -> {"user", "orphans", "drain", "idle", "boot"}]
      /\ arg \in [Core -> Pid \union {None, OutOfRange}] /\ current \in [Core -> Pid \union {None}]
      /\ \A d \in Core : pc[d] \in Killing => arg[d] \in Pid /\ arg[d].index \in Index
      /\ \A d, e \in Core : current[d] # None /\ current[d] = current[e] => d = e
    BY PidLemma DEF SchedulerInv, TypeOK, ArgIsPid, DispatchSafe
<1> USE DEF tableVars, dispatchVars, flowVars, exitVars, ipcVars, killVars
<1>1. CASE Quiet(c)
  <2>1. /\ \A d \in Core : pc'[d] \in Killing => pc[d] \in Killing /\ arg'[d] = arg[d]
        /\ UNCHANGED <<slot, gen, parent, wait_waiter, current>>
      BY <1>a, <1>1 DEF Quiet
  <2> QED BY <1>a, <2>1, KillKept
<1>2. CASE PureDispatch(c)
  <2>1. /\ \A d \in Core \ {c} : pc'[d] = pc[d] /\ current'[d] = current[d] /\ arg'[d] = arg[d]
        /\ pc'[c] \notin Killing /\ UNCHANGED <<slot, gen, parent, wait_waiter>>
      BY <1>a, <1>2 DEF PureDispatch, Redispatch, Killing
  <2>2. \A d \in Core : pc'[d] \in Killing =>
          pc[d] \in Killing /\ arg'[d] = arg[d] /\ current'[d] = current[d]
      BY <2>1
  <2> QED BY <1>a, <2>1, <2>2, KillKept
<1>3. CASE block_current_process(c) /\ BlockDispatch(c)
  <2>1. /\ \A d \in Core \ {c} : pc'[d] = pc[d] /\ current'[d] = current[d] /\ arg'[d] = arg[d]
        /\ pc'[c] \notin Killing /\ UNCHANGED <<slot, gen, parent>>
    <3>1. /\ UNCHANGED <<slot, gen, parent, arg>> /\ \A d \in Core \ {c} : current'[d] = current[d]
          /\ \E x \in {"drain", "drop", "user", "abandon"} : pc' = [pc EXCEPT ![c] = x]
        BY <1>3 DEF BlockDispatch, Redispatch
    <3> QED BY <1>a, <3>1 DEF Killing
  <2>2. UNCHANGED wait_waiter
      BY <1>3 DEF block_current_process
  <2>3. \A d \in Core : pc'[d] \in Killing =>
          pc[d] \in Killing /\ arg'[d] = arg[d] /\ current'[d] = current[d]
      BY <2>1
  <2> QED BY <1>a, <2>1, <2>2, <2>3, KillKept
<1>4. CASE wait_blocks(c) /\ BlockDispatch(c)
  <2>1. /\ \A d \in Core \ {c} : pc'[d] = pc[d] /\ current'[d] = current[d] /\ arg'[d] = arg[d]
        /\ pc'[c] \notin Killing /\ UNCHANGED <<slot, gen, parent>>
    <3>1. /\ UNCHANGED <<slot, gen, parent, arg>> /\ \A d \in Core \ {c} : current'[d] = current[d]
          /\ \E x \in {"drain", "drop", "user", "abandon"} : pc' = [pc EXCEPT ![c] = x]
        BY <1>4 DEF BlockDispatch, Redispatch
    <3> QED BY <1>a, <3>1 DEF Killing
  <2>2. PICK t \in Target : parent[t.index] = current[c]
                            /\ wait_waiter' = [wait_waiter EXCEPT ![t.index] = current[c]]
      BY <1>4 DEF wait_blocks
  <2>3. current[c] # None
      BY <1>4, PidLemma DEF BlockDispatch
  <2>4. \A d \in Core \ {c} : pc[d] \in Killing => arg[d].index # t.index
      BY <1>a, <2>2, <2>3, SMTT(60) DEF KillHitsTarget
  <2>5. SUFFICES ASSUME NEW d \in Core, pc'[d] \in Killing
                 PROVE  (/\ gen[arg[d].index] = arg[d].generation
                         /\ slot[arg[d].index] \in {"Occupied", "Zombie"}
                         /\ current[d] # None /\ parent[arg[d].index] = current[d]
                         /\ wait_waiter[arg[d].index] = None)'
      BY DEF KillHitsTarget
  <2>6. d \in Core \ {c} /\ pc[d] \in Killing /\ arg'[d] = arg[d] /\ current'[d] = current[d]
      BY <2>1, <2>5
  <2>7. wait_waiter'[arg[d].index] = wait_waiter[arg[d].index]
      BY <1>a, <2>2, <2>4, <2>6
  <2>8. /\ gen[arg[d].index] = arg[d].generation /\ slot[arg[d].index] \in {"Occupied", "Zombie"}
        /\ current[d] # None /\ parent[arg[d].index] = current[d] /\ wait_waiter[arg[d].index] = None
      BY <1>a, <2>6 DEF KillHitsTarget
  <2> QED BY <2>1, <2>6, <2>7, <2>8
<1>5. CASE wait_reaps(c)
    BY <1>5, <1>a, PidLemma, SMTT(60) DEF KillHitsTarget, Killing, wait_reaps
<1>6. CASE RegisterWaiter(c)
    BY <1>6, <1>a, PidLemma, SMTT(60) DEF KillHitsTarget, Killing, RegisterWaiter
<1>7. CASE TakeWaiter(c)
  <2>1. /\ \A d \in Core : pc'[d] \in Killing => pc[d] \in Killing /\ arg'[d] = arg[d]
        /\ UNCHANGED <<slot, gen, parent, wait_waiter, current>>
      BY <1>a, <1>7 DEF TakeWaiter, Killing
  <2> QED BY <1>a, <2>1, KillKept
<1>8. CASE wake_blocked_process(c)
  <2>1. /\ \A d \in Core \ {c} : pc'[d] = pc[d] /\ arg'[d] = arg[d]
        /\ pc'[c] = back[c] /\ UNCHANGED <<slot, gen, parent, wait_waiter, current>>
      BY <1>a, <1>8 DEF wake_blocked_process, AfterWake
  <2> QED BY <1>a, <2>1, SMTT(60) DEF KillHitsTarget, Killing
<1>9. CASE Allocates(c)
  <2>1. /\ \A d \in Core : pc'[d] \in Killing => pc[d] \in Killing /\ arg'[d] = arg[d]
        /\ UNCHANGED <<parent, wait_waiter, current>>
      BY <1>a, <1>9, ZenonT(60) DEF Allocates, allocate_pid, Killing
  <2>2. \A i \in Index : slot[i] \in {"Occupied", "Zombie"} => slot'[i] = slot[i] /\ gen'[i] = gen[i]
      BY <1>a, <1>9 DEF Allocates, allocate_pid, FreeIndex
  <2> QED BY <1>a, <2>1, <2>2, KillKept
<1>10. CASE release_reservation(c)
  <2>1. /\ \A d \in Core : pc'[d] \in Killing => pc[d] \in Killing /\ arg'[d] = arg[d]
        /\ UNCHANGED <<gen, parent, wait_waiter, current>>
      BY <1>a, <1>10 DEF release_reservation, ReturnToUser, Killing
  <2>2. \A i \in Index : slot[i] \in {"Occupied", "Zombie"} => slot'[i] = slot[i]
      BY <1>a, <1>10 DEF release_reservation
  <2> QED BY <1>a, <2>1, <2>2, KillKept
<1>11. CASE spawn_suspended(c)
  <2>1. /\ \A d \in Core : pc'[d] \in Killing => pc[d] \in Killing /\ arg'[d] = arg[d]
        /\ UNCHANGED <<gen, current>>
      BY <1>a, <1>11 DEF spawn_suspended, ReturnToUser, Killing
  <2>2. slot[arg[c].index] = "Reserved"
      BY <1>11 DEF spawn_suspended, SchedulerInv, ReservationOwned, Building
  <2>3. \A i \in Index : slot[i] \in {"Occupied", "Zombie"} =>
          slot'[i] = slot[i] /\ parent'[i] = parent[i] /\ wait_waiter'[i] = wait_waiter[i]
      BY <1>a, <1>11, <2>2 DEF spawn_suspended
  <2> QED BY <1>a, <2>1, <2>3, KillKept
<1>12. CASE start_child(c)
    BY <1>12, <1>a, PidLemma, SMTT(60) DEF KillHitsTarget, Killing, start_child
<1>13. CASE KillCheck(c)
  <2>1. PICK t \in Target : Occupied(t) /\ parent[t.index] = current[c] /\ arg' = [arg EXCEPT ![c] = t]
      BY <1>13 DEF KillCheck
  <2>2. t \in Pid /\ t.index \in Index
      BY PidLemma
  <2>3. current[c] \in Pid /\ Occupied(current[c]) /\ state[current[c].index] = "Running"
      BY <1>13, CurrentLemma DEF KillCheck
  <2>4. wait_waiter[t.index] = None
    <3>1. WaiterIsBlocked /\ current[c] # None
        BY <2>3, PidLemma DEF SchedulerInv
    <3>2. wait_waiter[t.index] # None => wait_waiter[t.index] = current[c]
        BY <2>1, <2>2, <3>1 DEF WaiterIsBlocked
    <3> QED BY <2>2, <2>3, <3>1, <3>2 DEF WaiterIsBlocked
  <2>5. UNCHANGED <<slot, gen, parent, wait_waiter, current>> /\ pc' = [pc EXCEPT ![c] = "scan"]
      BY <1>13 DEF KillCheck
  <2>6. SUFFICES ASSUME NEW d \in Core, pc'[d] \in Killing
                 PROVE  (/\ gen[arg[d].index] = arg[d].generation
                         /\ slot[arg[d].index] \in {"Occupied", "Zombie"}
                         /\ current[d] # None /\ parent[arg[d].index] = current[d]
                         /\ wait_waiter[arg[d].index] = None)'
      BY DEF KillHitsTarget
  <2>7. CASE d = c
    <3>1. arg'[c] = t /\ gen[t.index] = t.generation /\ slot[t.index] = "Occupied"
        BY <1>a, <2>1 DEF Occupied
    <3> QED BY <2>1, <2>3, <2>4, <2>5, <2>7, <3>1, PidLemma
  <2>8. CASE d # c
    <3>1. pc[d] \in Killing /\ arg'[d] = arg[d]
        BY <1>a, <2>1, <2>5, <2>6, <2>8
    <3> QED BY <1>a, <2>5, <3>1 DEF KillHitsTarget
  <2> QED BY <2>7, <2>8
<1>14. CASE \E p \in Pid : Finalized(c, p) /\ take_and_finalize_slot(p)
  <2>1. PICK p \in Pid : Finalized(c, p)
      BY <1>14
  <2>2. SUFFICES ASSUME NEW d \in Core, pc'[d] \in Killing
                 PROVE  (/\ gen[arg[d].index] = arg[d].generation
                         /\ slot[arg[d].index] \in {"Occupied", "Zombie"}
                         /\ current[d] # None /\ parent[arg[d].index] = current[d]
                         /\ wait_waiter[arg[d].index] = None)'
      BY DEF KillHitsTarget
  <2>3. d # c /\ pc[d] \in Killing /\ arg'[d] = arg[d] /\ gen' = gen
      BY <1>a, <2>1, <2>2 DEF Finalized, Killing
  <2> DEFINE t == arg[d].index
  <2>4. /\ t \in Index /\ gen[t] = arg[d].generation /\ slot[t] \in {"Occupied", "Zombie"}
        /\ current[d] # None /\ parent[t] = current[d] /\ wait_waiter[t] = None
      BY <1>a, <2>3 DEF KillHitsTarget
  <2>5. current[d] # p
    <3>1. current[c] = p \/ \A e \in Core : current[e] # p
        BY <2>1 DEF Finalized
    <3>2. current[c] = p => current[d] # p
        BY <1>a, <2>3, <2>4
    <3> QED BY <3>1, <3>2
  <2>6. current'[d] = current[d]
      BY <2>1, <2>5 DEF Finalized
  <2> HIDE DEF t
  <2>7. /\ slot'[t] \in {"Occupied", "Zombie"}
        /\ parent'[t] = current[d]
        /\ wait_waiter'[t] = None
    <3>1. CASE t \in Dying(p)
        BY <2>1, <2>4, <3>1 DEF Finalized
    <3>2. CASE t \notin Dying(p)
        BY <2>1, <2>4, <2>5, <3>2 DEF Finalized
    <3> QED BY <3>1, <3>2
  <2> QED BY <2>3, <2>4, <2>6, <2>7 DEF t
<1>15. CASE spawn(c)
  <2>1. /\ \A d \in Core : pc'[d] \in Killing => pc[d] \in Killing /\ arg'[d] = arg[d]
        /\ UNCHANGED <<gen, current>>
      BY <1>a, <1>15 DEF spawn, Killing
  <2>2. slot[arg[c].index] = "Reserved"
      BY <1>15, SpawnLemma
  <2>3. \A i \in Index : slot[i] \in {"Occupied", "Zombie"} =>
          slot'[i] = slot[i] /\ parent'[i] = parent[i] /\ wait_waiter'[i] = wait_waiter[i]
      BY <1>a, <1>15, <2>2 DEF spawn
  <2> QED BY <1>a, <2>1, <2>3, KillKept
<1>16. CASE wake_receiver_fails(c)
  <2>1. /\ \A d \in Core \ {c} : pc'[d] = pc[d] /\ arg'[d] = arg[d]
        /\ pc'[c] = back[c] /\ UNCHANGED <<slot, gen, parent, wait_waiter, current>>
      BY <1>a, <1>16 DEF wake_receiver_fails, AfterWake
  <2> QED BY <1>a, <2>1, SMTT(60) DEF KillHitsTarget, Killing
<1> QED BY <1>1, <1>2, <1>3, <1>4, <1>5, <1>6, <1>7, <1>8, <1>9, <1>10, <1>11, <1>12, <1>13, <1>14, <1>15, <1>16, StepShapes DEF Shape

==============================================================================
