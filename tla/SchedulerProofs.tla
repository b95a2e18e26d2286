-------------------------- MODULE SchedulerProofs ---------------------------
(***************************************************************************)
(* Every step keeps the part of Scheduler's inductive invariant that says  *)
(* who is registered to be woken, and by whom. With the lemmas of          *)
(* SchedulerTable this makes SchedulerInv inductive, and gives the         *)
(* theorems about Spec.                                                    *)
(***************************************************************************)
EXTENDS SchedulerTable

\* Most leaves are first-order: try Zenon before the SMT solver.
USE ZenonT(15), SMTT(60)

(***************************************************************************)
(* A waiter is a blocked process, or one on its way to block, and its      *)
(* pending_wake flag is not left from before.                              *)
(***************************************************************************)

\* Two live processes with the same table index are the same process.
LEMMA OccupiedUnique ==
    ASSUME NEW p \in Pid, NEW q \in Pid, Occupied(p), Occupied(q), p.index = q.index
    PROVE  p = q
<1>1. p = PidAt(p.index, p.generation) /\ q = PidAt(q.index, q.generation)
    BY PidLemma
<1>2. p.generation = q.generation
    BY DEF Occupied
<1> QED BY <1>1, <1>2

\* A process on its way to block is current, so it is running; a core that is
\* not in "block" has a current process that is not on its way to block.
LEMMA InBlockLemma ==
    ASSUME SchedulerInv
    PROVE  /\ \A p \in Pid : InBlock(p) => Occupied(p) /\ state[p.index] = "Running"
           /\ \A d \in Core : pc[d] # "block" /\ current[d] # None => ~InBlock(current[d])
    BY PidLemma, SMTT(60) DEF SchedulerInv, DispatchSafe, InBlock

\* A pid that has been in the table never comes back to life: allocate_pid
\* hands out a generation above every earlier one of the slot.
LEMMA KnownStep ==
    ASSUME SchedulerInv, NEW c \in Core, Step(c)
    PROVE  \A p \in Pid : Known(p) => Known(p)' /\ (Occupied(p)' => Occupied(p))
<1>a. /\ slot \in [Index -> {"Empty", "Reserved", "Occupied", "Zombie"}] /\ gen \in [Index -> Nat]
    BY DEF SchedulerInv, TypeOK
<1> USE DEF tableVars
<1>1. CASE Quiet(c)
    BY <1>1, <1>a, PidLemma DEF Known, Occupied, Quiet
<1>2. CASE PureDispatch(c)
    BY <1>2, <1>a, PidLemma DEF Known, Occupied, PureDispatch, Redispatch
<1>3. CASE block_current_process(c) /\ BlockDispatch(c)
    BY <1>3, <1>a, PidLemma DEF Known, Occupied, block_current_process, BlockDispatch, Redispatch
<1>4. CASE wait_blocks(c) /\ BlockDispatch(c)
    BY <1>4, <1>a, PidLemma DEF Known, Occupied, wait_blocks, BlockDispatch, Redispatch
<1>5. CASE wait_reaps(c)
    BY <1>5, <1>a, PidLemma, ZenonT(60) DEF Known, Occupied, wait_reaps
<1>6. CASE RegisterWaiter(c)
    BY <1>6, <1>a, PidLemma DEF Known, Occupied, RegisterWaiter
<1>7. CASE TakeWaiter(c)
    BY <1>7, <1>a, PidLemma DEF Known, Occupied, TakeWaiter
<1>8. CASE wake_blocked_process(c)
    BY <1>8, <1>a, PidLemma DEF Known, Occupied, wake_blocked_process, AfterWake
<1>9. CASE Allocates(c)
  <2>1. CASE UNCHANGED <<gen, slot>>
      BY <2>1 DEF Known, Occupied
  <2>2. CASE \E i \in Index : /\ slot[i] = "Empty" /\ gen' = [gen EXCEPT ![i] = @ + 1]
                              /\ slot' = [slot EXCEPT ![i] = "Reserved"]
    <3>1. PICK i \in Index : /\ slot[i] = "Empty" /\ gen' = [gen EXCEPT ![i] = @ + 1]
                             /\ slot' = [slot EXCEPT ![i] = "Reserved"]
        BY <2>2
    <3>2. gen'[i] = gen[i] + 1 /\ slot'[i] = "Reserved"
          /\ \A j \in Index \ {i} : gen'[j] = gen[j] /\ slot'[j] = slot[j]
        BY <1>a, <3>1
    <3>3. ASSUME NEW p \in Pid, Known(p) PROVE Known(p)' /\ (Occupied(p)' => Occupied(p))
      <4>1. p.index \in Index /\ p.generation \in Nat /\ gen[p.index] \in Nat
          BY <1>a, PidLemma
      <4> QED BY <3>2, <3>3, <4>1, SMTT(60) DEF Known, Occupied
    <3> QED BY <3>3
  <2> QED BY <1>9, <2>1, <2>2 DEF Allocates, allocate_pid, FreeIndex
<1>10. CASE release_reservation(c)
    BY <1>10, <1>a, PidLemma DEF Known, Occupied, release_reservation, ReturnToUser
<1>11. CASE spawn_suspended(c)
  <2>1. arg[c].index \in Index /\ slot[arg[c].index] = "Reserved" /\ gen' = gen
        /\ slot' = [slot EXCEPT ![arg[c].index] = "Occupied"]
      BY <1>11 DEF spawn_suspended, SchedulerInv, ReservationOwned, Building
  <2> QED BY <1>a, <2>1, PidLemma DEF Known, Occupied
<1>12. CASE start_child(c)
    BY <1>12, <1>a, PidLemma DEF Known, Occupied, start_child
<1>13. CASE KillCheck(c)
    BY <1>13, <1>a, PidLemma DEF Known, Occupied, KillCheck
<1>14. CASE \E p \in Pid : Finalized(c, p) /\ take_and_finalize_slot(p)
  <2>1. PICK p \in Pid : Finalized(c, p)
      BY <1>14
  <2>2. gen' = gen /\ Occupied(p)
      BY <2>1 DEF Finalized
  <2>3. \A j \in Index : (slot'[j] = "Occupied" => slot[j] = "Occupied")
                         /\ (slot'[j] = "Reserved" => slot[j] = "Reserved")
      BY <2>1, <2>2, DyingLemma DEF Finalized
  <2> QED BY <2>2, <2>3, PidLemma DEF Known, Occupied
<1>15. CASE spawn(c)
  <2>1. arg[c].index \in Index /\ slot[arg[c].index] = "Reserved" /\ gen' = gen
        /\ slot' = [slot EXCEPT ![arg[c].index] = "Occupied"]
      BY <1>15, SpawnLemma DEF spawn
  <2> QED BY <1>a, <2>1, PidLemma DEF Known, Occupied
<1>16. CASE wake_receiver_fails(c)
    BY <1>16, <1>a, PidLemma DEF Known, Occupied, wake_receiver_fails
<1> QED BY <1>1, <1>2, <1>3, <1>4, <1>5, <1>6, <1>7, <1>8, <1>9, <1>10, <1>11, <1>12, <1>13, <1>14, <1>15, <1>16, StepShapes DEF Shape

\* The step takes no process in or out of a wait for an IPC operation.
Plain(c) ==
    /\ registered' = registered /\ forgotten' = forgotten
    /\ \A p \in Pid : InBlock(p)' <=> InBlock(p)
    /\ \A d \in Core : (pc'[d] = "wake" <=> pc[d] = "wake") /\ (pc[d] = "wake" => arg'[d] = arg[d])

\* The steps that have nothing to do with IPC are plain.
LEMMA PlainLemma ==
    ASSUME SchedulerInv, NEW c \in Core,
           \/ Quiet(c) \/ PureDispatch(c) \/ (wait_blocks(c) /\ BlockDispatch(c))
           \/ wait_reaps(c) \/ Allocates(c) \/ release_reservation(c) \/ spawn_suspended(c) \/ spawn(c)
           \/ start_child(c) \/ KillCheck(c) \/ \E p \in Pid : Finalized(c, p)
    PROVE  Plain(c) /\ \A d \in Core, p \in Pid : Waking(d, p)' <=> Waking(d, p)
<1>1. pc \in [Core -> PcValue] /\ current \in [Core -> Pid \union {None}]
      /\ arg \in [Core -> Pid \union {None, OutOfRange}]
      /\ \A d, e \in Core : current[d] # None /\ current[d] = current[e] => d = e
    BY DEF SchedulerInv, TypeOK, DispatchSafe
<1>2. /\ registered' = registered /\ forgotten' = forgotten
      /\ \A d \in Core \ {c} : pc'[d] = pc[d] /\ arg'[d] = arg[d] /\ current'[d] = current[d]
      /\ pc[c] \notin {"block", "wake"} /\ pc'[c] \notin {"block", "wake"}
  <2> USE DEF tableVars, dispatchVars, flowVars, exitVars, ipcVars, killVars
  <2>1. CASE Quiet(c)
      BY <1>1, <2>1 DEF Quiet
  <2>2. CASE PureDispatch(c)
      BY <1>1, <2>2 DEF PureDispatch, Redispatch
  <2>3. CASE wait_blocks(c) /\ BlockDispatch(c)
      BY <1>1, <2>3 DEF BlockDispatch, Redispatch, wait_blocks
  <2>4. CASE wait_reaps(c) \/ Allocates(c) \/ start_child(c) \/ KillCheck(c)
      BY <1>1, <2>4 DEF wait_reaps, Allocates, allocate_pid, start_child, KillCheck
  <2>5. CASE release_reservation(c) \/ spawn_suspended(c) \/ spawn(c)
      BY <1>1, <2>5 DEF release_reservation, spawn_suspended, spawn, ReturnToUser
  <2>6. CASE \E p \in Pid : Finalized(c, p)
    <3>1. PICK p \in Pid : Finalized(c, p)
        BY <2>6
    <3>2. \A d \in Core \ {c} : current[d] # p
        BY <1>1, <3>1, PidLemma, SMTT(60) DEF Finalized
    <3> QED BY <1>1, <3>1, <3>2, ZenonT(60) DEF Finalized
  <2> QED BY <2>1, <2>2, <2>3, <2>4, <2>5, <2>6
<1>3. \A p \in Pid : InBlock(p)' <=> InBlock(p)
    BY <1>2 DEF InBlock
<1>4. \A d \in Core : (pc'[d] = "wake" <=> pc[d] = "wake") /\ (pc[d] = "wake" => arg'[d] = arg[d])
    BY <1>2
<1> QED BY <1>2, <1>3, <1>4 DEF Plain, Waking

\* Every step keeps the recorded waiters blocked.
LEMMA WaiterStep ==
    ASSUME SchedulerInv, NEW c \in Core, Step(c)
    PROVE  WaiterIsBlocked'
<1>a. /\ slot \in [Index -> {"Empty", "Reserved", "Occupied", "Zombie"}] /\ gen \in [Index -> Nat]
      /\ state \in [Index -> States]
      /\ parent \in [Index -> Pid \union {None}] /\ wait_waiter \in [Index -> Pid \union {None}]
      /\ WaiterIsBlocked
    BY DEF SchedulerInv, TypeOK, States
<1>b. \A p \in Pid : Known(p) => Known(p)' /\ (Occupied(p)' => Occupied(p))
    BY KnownStep
<1> USE DEF tableVars, dispatchVars
<1>1. CASE Quiet(c)
    BY <1>1, <1>a, <1>b, PidLemma, SMTT(60) DEF WaiterIsBlocked, Quiet
<1>2. CASE PureDispatch(c)
  <2>1. UNCHANGED <<slot, parent, wait_waiter>> /\ \A i \in Index : state'[i] = "Blocked" <=> state[i] = "Blocked"
      BY <1>2 DEF PureDispatch, Redispatch
  <2> QED BY <1>a, <1>b, <2>1, PidLemma, SMTT(60) DEF WaiterIsBlocked
<1>3. CASE block_current_process(c) /\ BlockDispatch(c)
  <2>1. /\ UNCHANGED <<slot, parent, wait_waiter>>
        /\ \A i \in Index \ {current[c].index} : state'[i] = "Blocked" <=> state[i] = "Blocked"
      BY <1>3 DEF block_current_process, BlockDispatch, Redispatch
  <2>2. current[c].index \in Index /\ state[current[c].index] = "Running"
      BY <1>3, PidLemma DEF BlockDispatch, SchedulerInv, DispatchSafe
  <2> QED BY <1>a, <1>b, <2>1, <2>2, PidLemma, SMTT(60) DEF WaiterIsBlocked, Occupied
<1>4. CASE wait_blocks(c) /\ BlockDispatch(c)
  <2>1. /\ UNCHANGED <<slot, gen, parent>>
        /\ \A i \in Index \ {current[c].index} : state'[i] = "Blocked" <=> state[i] = "Blocked"
        /\ state'[current[c].index] = "Blocked" <=> ~pending_wake[current[c].index]
        /\ current[c] \in Pid /\ pc[c] = "user"
      BY <1>4 DEF wait_blocks, BlockDispatch, Redispatch
  <2>2. current[c].index \in Index /\ Occupied(current[c]) /\ state[current[c].index] = "Running" /\ current[c] # None
      BY <2>1, PidLemma DEF SchedulerInv, DispatchSafe
  <2>3. ~pending_wake[current[c].index]
      BY <2>1, <2>2, InBlockLemma, PidLemma, SMTT(60) DEF SchedulerInv, PendingWakeIsFresh, Occupied
  <2>4. PICK t \in Target : /\ Occupied(t) /\ parent[t.index] = current[c]
                            /\ wait_waiter' = [wait_waiter EXCEPT ![t.index] = current[c]]
      BY <1>4 DEF wait_blocks
  <2>5. t.index \in Index /\ slot[t.index] = "Occupied" /\ current[c].index # t.index
      BY <2>2, <2>4, PidLemma, SMTT(60) DEF Occupied, SchedulerInv, ParentIsLive
  <2>6. \A x \in Pid : x = current[c] => Known(x)'
      BY <1>a, <2>1, <2>2, SMTT(60) DEF Known, Occupied
  <2>7. wait_waiter'[t.index] = current[c] /\ \A i \in Index \ {t.index} : wait_waiter'[i] = wait_waiter[i]
      BY <1>a, <2>4, <2>5
  <2>8. ASSUME NEW i \in Index, wait_waiter'[i] # None
        PROVE  (/\ slot[i] = "Occupied"
                /\ wait_waiter[i].index # i
                /\ Known(wait_waiter[i])
                /\ parent[i] \in {wait_waiter[i], None}
                /\ Occupied(wait_waiter[i]) =>
                     parent[i] = wait_waiter[i] /\ state[wait_waiter[i].index] = "Blocked")'
    <3>1. CASE i = t.index
        BY <2>1, <2>3, <2>4, <2>5, <2>6, <2>7, <3>1
    <3>2. CASE i # t.index
        BY <1>a, <1>b, <2>1, <2>2, <2>3, <2>7, <2>8, <3>2, PidLemma, SMTT(60) DEF WaiterIsBlocked
    <3> QED BY <3>1, <3>2
  <2> QED BY <2>8 DEF WaiterIsBlocked
<1>5. CASE wait_reaps(c)
  <2>1. UNCHANGED <<state, wait_waiter>>
        /\ \A i \in Index : slot[i] = "Occupied" => slot'[i] = "Occupied" /\ parent'[i] = parent[i]
      BY <1>a, <1>5, PidLemma, ZenonT(60) DEF wait_reaps
  <2> QED BY <1>a, <1>b, <2>1, PidLemma, SMTT(60) DEF WaiterIsBlocked
<1>6. CASE RegisterWaiter(c)
    BY <1>6, <1>a, <1>b, PidLemma, SMTT(60) DEF WaiterIsBlocked, RegisterWaiter
<1>7. CASE TakeWaiter(c)
    BY <1>7, <1>a, <1>b, PidLemma, SMTT(60) DEF WaiterIsBlocked, TakeWaiter
<1>8. CASE wake_blocked_process(c)
  <2>1. UNCHANGED <<slot, gen, parent, wait_waiter>>
      BY <1>8 DEF wake_blocked_process, AfterWake
  <2>2. arg[c] \in Pid /\ (Occupied(arg[c]) => \A j \in Index : wait_waiter[j] # arg[c])
      BY <1>8 DEF wake_blocked_process, AfterWake, SchedulerInv, ArgIsPid, OneWaker
  <2>3. state' = IF Occupied(arg[c]) /\ state[arg[c].index] = "Blocked"
                 THEN [state EXCEPT ![arg[c].index] = "Ready"] ELSE state
      BY <1>8 DEF wake_blocked_process, AfterWake
  <2>4. \A p \in Pid : Occupied(p) /\ p # arg[c] => state'[p.index] = state[p.index]
      BY <1>a, <2>2, <2>3, PidLemma, SMTT(60) DEF Occupied
  <2>5. ASSUME NEW i \in Index, NEW w \in Pid, w = wait_waiter[i], w # None
        PROVE  /\ slot'[i] = "Occupied" /\ w.index # i /\ Known(w)' /\ parent'[i] \in {w, None}
               /\ Occupied(w)' => parent'[i] = w /\ state'[w.index] = "Blocked"
      BY <1>a, <1>b, <2>1, <2>2, <2>4, <2>5 DEF WaiterIsBlocked
  <2> QED BY <1>a, <2>1, <2>5, SMTT(60) DEF WaiterIsBlocked
<1>9. CASE Allocates(c)
  <2>1. UNCHANGED <<state, parent, wait_waiter>> /\ \A i \in Index : slot[i] = "Occupied" => slot'[i] = "Occupied"
      BY <1>a, <1>9 DEF Allocates, allocate_pid, FreeIndex
  <2> QED BY <1>a, <1>b, <2>1, PidLemma, SMTT(60) DEF WaiterIsBlocked
<1>10. CASE release_reservation(c)
  <2>1. UNCHANGED <<state, parent, wait_waiter>> /\ \A i \in Index : slot[i] = "Occupied" => slot'[i] = "Occupied"
      BY <1>a, <1>10 DEF release_reservation
  <2> QED BY <1>a, <1>b, <2>1, PidLemma, SMTT(60) DEF WaiterIsBlocked
<1>11. CASE spawn_suspended(c)
  <2>1. arg[c].index \in Index /\ slot[arg[c].index] = "Reserved"
        /\ slot' = [slot EXCEPT ![arg[c].index] = "Occupied"]
        /\ state' = [state EXCEPT ![arg[c].index] = "Suspended"]
        /\ parent' = [parent EXCEPT ![arg[c].index] = current[c]]
        /\ wait_waiter' = [wait_waiter EXCEPT ![arg[c].index] = None]
      BY <1>11 DEF spawn_suspended, SchedulerInv, ReservationOwned, Building
  <2> QED BY <1>a, <1>b, <2>1, PidLemma, SMTT(60) DEF WaiterIsBlocked, Occupied
<1>12. CASE start_child(c)
  <2>1. UNCHANGED <<slot, parent, wait_waiter>> /\ \A i \in Index : state'[i] = "Blocked" <=> state[i] = "Blocked"
      BY <1>a, <1>12, PidLemma, SMTT(60) DEF start_child
  <2> QED BY <1>a, <1>b, <2>1, PidLemma, SMTT(60) DEF WaiterIsBlocked
<1>13. CASE KillCheck(c)
    BY <1>13, <1>a, <1>b, PidLemma, SMTT(60) DEF WaiterIsBlocked, KillCheck
<1>14. CASE \E p \in Pid : Finalized(c, p) /\ take_and_finalize_slot(p)
  <2>1. PICK p \in Pid : Finalized(c, p)
      BY <1>14
  <2>2. Occupied(p) /\ p.index \in Dying(p) /\ p.index \in Index /\ gen' = gen
      BY <2>1, DyingLemma, PidLemma DEF Finalized
  <2>3. ~Occupied(p)'
      BY <2>1, <2>2 DEF Finalized, Occupied
  <2>4. ASSUME NEW i \in Index, wait_waiter'[i] # None
        PROVE  (/\ slot[i] = "Occupied"
                /\ wait_waiter[i].index # i
                /\ Known(wait_waiter[i])
                /\ parent[i] \in {wait_waiter[i], None}
                /\ Occupied(wait_waiter[i]) =>
                     parent[i] = wait_waiter[i] /\ state[wait_waiter[i].index] = "Blocked")'
    <3>1. i \notin Dying(p) /\ wait_waiter'[i] = wait_waiter[i] /\ wait_waiter[i] # None
        BY <2>1, <2>4 DEF Finalized
    <3>5. PICK w \in Pid : w = wait_waiter[i]
        BY <1>a, <3>1
    <3>2. /\ slot[i] = "Occupied" /\ w.index \in Index /\ w.index # i /\ Known(w)
          /\ parent[i] \in {w, None}
          /\ Occupied(w) => parent[i] = w /\ state[w.index] = "Blocked"
        BY <1>a, <3>1, <3>5, PidLemma DEF WaiterIsBlocked
    <3>3. slot'[i] = "Occupied" /\ parent'[i] = IF parent[i] = p THEN None ELSE parent[i]
        BY <2>1, <3>1, <3>2 DEF Finalized
    <3>4. ASSUME Occupied(w)' PROVE parent'[i] = w /\ state'[w.index] = "Blocked"
      <4>1. Occupied(w) /\ w # p
          BY <1>b, <2>3, <3>2, <3>4
      <4>2. w.index \notin Dying(p)
          BY <2>2, <3>2, <4>1, DyingLemma, PidLemma, SMTT(60) DEF Occupied
      <4>3. wait_waiter[p.index] # PidAt(w.index, gen[w.index])
        <5>1. w = PidAt(w.index, gen[w.index])
            BY <3>2, <4>1, PidLemma, SMTT(60) DEF Occupied
        <5>2. wait_waiter[p.index] # w
            BY <2>2, <3>1, <3>5, <4>1 DEF SchedulerInv, OneWaker
        <5> QED BY <5>1, <5>2
      <4> QED BY <2>1, <3>2, <3>3, <4>1, <4>2, <4>3 DEF Finalized
    <3> QED BY <1>b, <3>1, <3>2, <3>3, <3>4, <3>5
  <2> QED BY <2>4 DEF WaiterIsBlocked
<1>15. CASE spawn(c)
  <2>1. arg[c].index \in Index /\ slot[arg[c].index] = "Reserved"
        /\ slot' = [slot EXCEPT ![arg[c].index] = "Occupied"]
        /\ state' = [state EXCEPT ![arg[c].index] = "Ready"]
        /\ parent' = [parent EXCEPT ![arg[c].index] = None]
        /\ wait_waiter' = [wait_waiter EXCEPT ![arg[c].index] = None]
      BY <1>15, SpawnLemma DEF spawn
  <2> QED BY <1>a, <1>b, <2>1, PidLemma, SMTT(60) DEF WaiterIsBlocked, Occupied
<1>16. CASE wake_receiver_fails(c)
    BY <1>16, <1>a, <1>b, PidLemma, SMTT(60) DEF WaiterIsBlocked, wake_receiver_fails
<1> QED BY <1>1, <1>2, <1>3, <1>4, <1>5, <1>6, <1>7, <1>8, <1>9, <1>10, <1>11, <1>12, <1>13, <1>14, <1>15, <1>16, StepShapes DEF Shape

\* Every step keeps pending wakes fresh.
LEMMA FreshStep ==
    ASSUME SchedulerInv, NEW c \in Core, Step(c)
    PROVE  PendingWakeIsFresh'
<1>a. /\ pending_wake \in [Index -> BOOLEAN] /\ gen \in [Index -> Nat] /\ PendingWakeIsFresh
      /\ slot \in [Index -> {"Empty", "Reserved", "Occupied", "Zombie"}]
      /\ pc \in [Core -> PcValue] /\ back \in [Core -> {"user", "orphans", "drain", "idle", "boot"}]
      /\ current \in [Core -> Pid \union {None}]
    BY DEF SchedulerInv, TypeOK
<1>b. \A i \in Index : PidAt(i, gen[i]) \in Pid
    BY <1>a, PidLemma
<1> USE DEF tableVars, dispatchVars, wakeVars
<1>1. CASE Quiet(c)
    BY <1>1, <1>a, <1>b, PlainLemma DEF PendingWakeIsFresh, Plain, Quiet
<1>2. CASE PureDispatch(c)
    BY <1>a, <1>b, <1>2, PlainLemma DEF PendingWakeIsFresh, Plain, PureDispatch, Redispatch
<1>3. CASE block_current_process(c) /\ BlockDispatch(c)
  <2>1. \A p \in Pid : p # current[c] => (InBlock(p)' <=> InBlock(p))
    <3>1. /\ \A d \in Core \ {c} : pc'[d] = pc[d] /\ current'[d] = current[d]
          /\ pc[c] = "block" /\ pc'[c] # "block"
        BY <1>a, <1>3, ZenonT(60) DEF BlockDispatch, Redispatch, block_current_process
    <3> QED BY <3>1 DEF InBlock
  <2>2. current[c] \in Pid /\ gen' = gen /\ pending_wake' = [pending_wake EXCEPT ![current[c].index] = FALSE]
      BY <1>3 DEF BlockDispatch, Redispatch
  <2> QED BY <1>a, <1>b, <2>1, <2>2, PidLemma, SMTT(60) DEF PendingWakeIsFresh
<1>4. CASE wait_blocks(c) /\ BlockDispatch(c)
  <2>1. current[c] \in Pid /\ gen' = gen /\ pending_wake' = [pending_wake EXCEPT ![current[c].index] = FALSE]
      BY <1>4 DEF BlockDispatch, Redispatch
  <2> QED BY <1>a, <1>b, <1>4, <2>1, PlainLemma, PidLemma DEF PendingWakeIsFresh, Plain
<1>5. CASE wait_reaps(c)
    BY <1>5, <1>a, <1>b, PlainLemma DEF PendingWakeIsFresh, Plain, wait_reaps
<1>6. CASE RegisterWaiter(c)
  <2>1. \A p \in Pid : InBlock(p) => InBlock(p)'
      BY <1>a, <1>6 DEF InBlock, RegisterWaiter
  <2> QED BY <1>a, <1>b, <1>6, <2>1 DEF PendingWakeIsFresh, RegisterWaiter
<1>7. CASE TakeWaiter(c)
  <2>1. \A p \in Pid : InBlock(p) => InBlock(p)'
      BY <1>a, <1>7 DEF InBlock, TakeWaiter
  <2> QED BY <1>a, <1>b, <1>7, <2>1 DEF PendingWakeIsFresh, TakeWaiter
<1>8. CASE wake_blocked_process(c)
  <2>1. \A p \in Pid : InBlock(p) => InBlock(p)'
      BY <1>a, <1>8 DEF InBlock, wake_blocked_process, AfterWake
  <2>2. arg[c] \in Pid /\ WaitsForIpc(arg[c])
      BY <1>8 DEF wake_blocked_process, AfterWake, SchedulerInv, ArgIsPid, IpcWaiterWaits
  <2>3. UNCHANGED gen
      BY <1>8 DEF wake_blocked_process, AfterWake
  <2>4. CASE Occupied(arg[c]) /\ state[arg[c].index] # "Blocked"
    <3>1. InBlock(arg[c]) /\ arg[c] = PidAt(arg[c].index, gen[arg[c].index]) /\ arg[c].index \in Index
        BY <2>2, <2>4, PidLemma, SMTT(60) DEF WaitsForIpc, Occupied
    <3>2. pending_wake' = [pending_wake EXCEPT ![arg[c].index] = TRUE]
        BY <1>8, <2>4 DEF wake_blocked_process, AfterWake
    <3> QED BY <1>a, <1>b, <2>1, <2>3, <3>1, <3>2 DEF PendingWakeIsFresh
  <2>5. CASE ~(Occupied(arg[c]) /\ state[arg[c].index] # "Blocked")
    <3>1. UNCHANGED pending_wake
        BY <1>8, <2>5 DEF wake_blocked_process, AfterWake
    <3> QED BY <1>a, <1>b, <2>1, <2>3, <3>1 DEF PendingWakeIsFresh
  <2> QED BY <2>4, <2>5
<1>9. CASE Allocates(c)
  <2>1. \A i \in Index : pending_wake[i] => Occupied(PidAt(i, gen[i]))
      BY <1>a, <1>b, InBlockLemma DEF PendingWakeIsFresh
  <2>2. \A i \in Index : slot[i] = "Occupied" => gen'[i] = gen[i]
      BY <1>a, <1>9 DEF Allocates, allocate_pid, FreeIndex
  <2>3. \A i \in Index : pending_wake[i] => gen'[i] = gen[i]
      BY <1>a, <2>1, <2>2, PidLemma, SMTT(60) DEF Occupied
  <2>4. UNCHANGED pending_wake /\ Plain(c)
      BY <1>9, PlainLemma DEF Allocates, allocate_pid
  <2> QED BY <1>a, <1>b, <2>3, <2>4 DEF PendingWakeIsFresh, Plain
<1>10. CASE release_reservation(c)
    BY <1>10, <1>a, <1>b, PlainLemma DEF PendingWakeIsFresh, Plain, release_reservation, ReturnToUser
<1>11. CASE spawn_suspended(c)
    BY <1>11, <1>a, <1>b, PlainLemma DEF PendingWakeIsFresh, Plain, spawn_suspended, ReturnToUser
<1>12. CASE start_child(c)
    BY <1>12, <1>a, <1>b, PlainLemma DEF PendingWakeIsFresh, Plain, start_child
<1>13. CASE KillCheck(c)
    BY <1>13, <1>a, <1>b, PlainLemma DEF PendingWakeIsFresh, Plain, KillCheck
<1>14. CASE \E p \in Pid : Finalized(c, p) /\ take_and_finalize_slot(p)
  <2>1. PICK p \in Pid : Finalized(c, p)
      BY <1>14
  <2>2. gen' = gen /\ \A i \in Index : pending_wake'[i] => pending_wake[i]
      BY <2>1 DEF Finalized
  <2>3. Plain(c)
      BY <2>1, PlainLemma
  <2> QED BY <1>a, <1>b, <2>2, <2>3 DEF PendingWakeIsFresh, Plain
<1>15. CASE spawn(c)
    BY <1>15, <1>a, <1>b, PlainLemma DEF PendingWakeIsFresh, Plain, spawn
<1>16. CASE wake_receiver_fails(c)
  <2>1. \A p \in Pid : InBlock(p) => InBlock(p)'
      BY <1>a, <1>16 DEF InBlock, wake_receiver_fails, AfterWake
  <2> QED BY <1>a, <1>b, <1>16, <2>1 DEF PendingWakeIsFresh, wake_receiver_fails
<1> QED BY <1>1, <1>2, <1>3, <1>4, <1>5, <1>6, <1>7, <1>8, <1>9, <1>10, <1>11, <1>12, <1>13, <1>14, <1>15, <1>16, StepShapes DEF Shape

\* An endpoint recorded p, or a core took it from one and is about to wake it.
Waiting(p) == p \in registered \/ \E d \in Core : Waking(d, p)

\* Whoever an endpoint holds waits for IPC and, while alive, for no child.
LEMMA WaitingLemma ==
    ASSUME SchedulerInv
    PROVE  \A p \in Pid : Waiting(p) => /\ WaitsForIpc(p)
                                        /\ Occupied(p) => \A j \in Index : wait_waiter[j] # p
    BY DEF SchedulerInv, IpcWaiterWaits, OneWaker, Waiting, Waking

\* Every step keeps whoever waits for an IPC operation waiting.
LEMMA IpcStep ==
    ASSUME SchedulerInv, NEW c \in Core, Step(c)
    PROVE  IpcWaiterWaits'
<1>a. /\ slot \in [Index -> {"Empty", "Reserved", "Occupied", "Zombie"}] /\ gen \in [Index -> Nat]
      /\ state \in [Index -> States] /\ pending_wake \in [Index -> BOOLEAN]
      /\ pc \in [Core -> PcValue] /\ back \in [Core -> {"user", "orphans", "drain", "idle", "boot"}]
      /\ current \in [Core -> Pid \union {None}] /\ arg \in [Core -> Pid \union {None, OutOfRange}]
      /\ registered \subseteq Pid
    BY DEF SchedulerInv, TypeOK, States
<1>0. SUFFICES ASSUME NEW p \in Pid, Waiting(p)' PROVE WaitsForIpc(p)'
  <2>1. registered' \subseteq Pid /\ \A d \in Core : pc'[d] = "wake" => arg'[d] \in Pid
      BY TypeStep, ArgStep DEF TypeOK, ArgIsPid
  <2> QED BY <2>1 DEF IpcWaiterWaits, Waiting, Waking
<1>b. p.index \in Index /\ (Known(p) => Known(p)' /\ (Occupied(p)' => Occupied(p)))
    BY KnownStep, PidLemma
<1>c. Waiting(p) => /\ Known(p)
                    /\ Occupied(p) => /\ state[p.index] = "Blocked" \/ InBlock(p)
                                      /\ ~pending_wake[p.index]
                                      /\ \A j \in Index : wait_waiter[j] # p
    BY WaitingLemma DEF WaitsForIpc
<1> USE DEF tableVars, dispatchVars, wakeVars
<1>1. CASE Quiet(c)
  <2>1. Waiting(p) /\ (InBlock(p)' <=> InBlock(p))
      BY <1>0, <1>1, PlainLemma DEF Plain, Waiting
  <2>2. UNCHANGED <<state, pending_wake>>
      BY <1>1 DEF Quiet
  <2> QED BY <1>b, <1>c, <2>1, <2>2 DEF WaitsForIpc
<1>2. CASE PureDispatch(c)
  <2>1. Waiting(p) /\ (InBlock(p)' <=> InBlock(p))
      BY <1>0, <1>2, PlainLemma DEF Plain, Waiting
  <2>2. UNCHANGED pending_wake /\ \A i \in Index : state'[i] = "Blocked" <=> state[i] = "Blocked"
      BY <1>2 DEF PureDispatch
  <2> QED BY <1>b, <1>c, <2>1, <2>2 DEF WaitsForIpc
<1>3. CASE block_current_process(c) /\ BlockDispatch(c)
  <2>1. Waiting(p)
      BY <1>a, <1>0, <1>3, ZenonT(60) DEF BlockDispatch, Redispatch, Waiting, Waking
  <2>2. /\ pending_wake' = [pending_wake EXCEPT ![current[c].index] = FALSE]
        /\ state'[current[c].index] = "Blocked" <=> ~pending_wake[current[c].index]
        /\ \A i \in Index \ {current[c].index} : state'[i] = "Blocked" <=> state[i] = "Blocked"
        /\ current[c] \in Pid /\ current[c].index \in Index
      BY <1>3, PidLemma DEF BlockDispatch
  <2>3. CASE p = current[c]
      BY <1>a, <1>b, <1>c, <2>1, <2>2, <2>3 DEF WaitsForIpc
  <2>4. CASE p # current[c]
    <3>1. InBlock(p) => InBlock(p)'
      <4>1. \A d \in Core \ {c} : pc'[d] = pc[d] /\ current'[d] = current[d]
          BY <1>a, <1>3 DEF BlockDispatch, Redispatch
      <4> QED BY <2>4, <4>1 DEF InBlock
    <3>2. Occupied(current[c])
        BY <2>2, PidLemma DEF SchedulerInv, DispatchSafe
    <3>3. Occupied(p) => p.index # current[c].index
        BY <2>2, <2>4, <3>2, PidLemma, SMTT(60) DEF Occupied
    <3> QED BY <1>a, <1>b, <1>c, <2>1, <2>2, <3>1, <3>3 DEF WaitsForIpc
  <2> QED BY <2>3, <2>4
<1>4. CASE wait_blocks(c) /\ BlockDispatch(c)
  <2>1. Waiting(p) /\ (InBlock(p)' <=> InBlock(p))
      BY <1>0, <1>4, PlainLemma DEF Plain, Waiting
  <2>2. /\ pending_wake' = [pending_wake EXCEPT ![current[c].index] = FALSE]
        /\ \A i \in Index \ {current[c].index} : state'[i] = "Blocked" <=> state[i] = "Blocked"
        /\ current[c] \in Pid /\ current[c].index \in Index /\ pc[c] = "user"
      BY <1>4, PidLemma DEF BlockDispatch, wait_blocks
  <2>3. Occupied(current[c]) /\ state[current[c].index] = "Running" /\ ~InBlock(current[c])
      BY <2>2, PidLemma, InBlockLemma DEF SchedulerInv, DispatchSafe
  <2>4. Occupied(p) => p # current[c]
      BY <1>c, <2>1, <2>3
  <2>5. Occupied(p) => p.index # current[c].index
      BY <2>2, <2>3, <2>4, PidLemma, SMTT(60) DEF Occupied
  <2> QED BY <1>a, <1>b, <1>c, <2>1, <2>2, <2>5 DEF WaitsForIpc
<1>5. CASE wait_reaps(c)
  <2>1. Waiting(p) /\ (InBlock(p)' <=> InBlock(p))
      BY <1>0, <1>5, PlainLemma DEF Plain, Waiting
  <2>2. UNCHANGED <<state, pending_wake>>
      BY <1>5 DEF wait_reaps
  <2> QED BY <1>b, <1>c, <2>1, <2>2 DEF WaitsForIpc
<1>6. CASE RegisterWaiter(c)
  <2>1. UNCHANGED <<slot, gen, state, pending_wake, current, arg>> /\ pc' = [pc EXCEPT ![c] = "block"]
        /\ registered' = registered \union {current[c]} /\ pc[c] = "user"
      BY <1>6 DEF RegisterWaiter, killVars
  <2>2. Waiting(p) \/ p = current[c]
      BY <1>a, <1>0, <2>1 DEF Waiting, Waking
  <2>3. InBlock(p) => InBlock(p)'
      BY <1>a, <2>1 DEF InBlock
  <2>4. CASE p = current[c]
    <3>1. InBlock(p)'
        BY <1>a, <2>1, <2>4 DEF InBlock
    <3>2. Occupied(p) /\ ~InBlock(p)
        BY <2>1, <2>4, InBlockLemma, PidLemma DEF SchedulerInv, DispatchSafe
    <3>3. ~pending_wake[p.index] /\ Known(p)
        BY <1>a, <1>b, <3>2, PidLemma, SMTT(60) DEF SchedulerInv, PendingWakeIsFresh, Occupied, Known
    <3> QED BY <1>b, <2>1, <3>1, <3>3 DEF WaitsForIpc
  <2> QED BY <1>b, <1>c, <2>1, <2>2, <2>3, <2>4 DEF WaitsForIpc
<1>7. CASE TakeWaiter(c)
  <2>1. UNCHANGED <<slot, gen, state, pending_wake, current>> /\ pc' = [pc EXCEPT ![c] = "wake"]
        /\ pc[c] # "block"
        /\ \E q \in registered : registered' = registered \ {q} /\ arg' = [arg EXCEPT ![c] = q]
      BY <1>7 DEF TakeWaiter
  <2>2. Waiting(p)
      BY <1>a, <1>0, <2>1 DEF Waiting, Waking
  <2>3. InBlock(p) => InBlock(p)'
      BY <1>a, <2>1 DEF InBlock
  <2> QED BY <1>b, <1>c, <2>1, <2>2, <2>3 DEF WaitsForIpc
<1>8. CASE wake_blocked_process(c)
  <2>1. UNCHANGED <<slot, gen, current, registered>> /\ pc' = [pc EXCEPT ![c] = back[c]]
        /\ arg' = [arg EXCEPT ![c] = None] /\ pc[c] = "wake"
      BY <1>8 DEF wake_blocked_process, AfterWake
  <2>2. InBlock(p) => InBlock(p)'
      BY <1>a, <2>1 DEF InBlock
  <2>3. arg[c] \in Pid /\ arg[c].index \in Index
      BY <2>1, PidLemma DEF SchedulerInv, ArgIsPid
  <2>4. Waiting(p) /\ (Occupied(p) => p # arg[c])
    <3>1. p \in registered \/ \E d \in Core \ {c} : Waking(d, p)
        BY <1>a, <1>0, <2>1 DEF Waiting, Waking
    <3> QED BY <2>1, <3>1 DEF SchedulerInv, OneWaker, Waiting, Waking
  <2>5. Occupied(p) => state'[p.index] = state[p.index] /\ pending_wake'[p.index] = pending_wake[p.index]
    <3>1. /\ state' = state \/ (Occupied(arg[c]) /\ state' = [state EXCEPT ![arg[c].index] = "Ready"])
          /\ pending_wake' = pending_wake
               \/ (Occupied(arg[c]) /\ pending_wake' = [pending_wake EXCEPT ![arg[c].index] = TRUE])
        BY <1>8 DEF wake_blocked_process, AfterWake
    <3>2. Occupied(p) /\ Occupied(arg[c]) => p.index # arg[c].index
        BY <2>3, <2>4, PidLemma, SMTT(60) DEF Occupied
    <3> QED BY <1>a, <1>b, <2>3, <3>1, <3>2
  <2> QED BY <1>b, <1>c, <2>2, <2>4, <2>5 DEF WaitsForIpc
<1>9. CASE Allocates(c)
  <2>1. Waiting(p) /\ (InBlock(p)' <=> InBlock(p))
      BY <1>0, <1>9, PlainLemma DEF Plain, Waiting
  <2>2. UNCHANGED <<state, pending_wake>>
      BY <1>9 DEF Allocates, allocate_pid
  <2> QED BY <1>b, <1>c, <2>1, <2>2 DEF WaitsForIpc
<1>10. CASE release_reservation(c)
  <2>1. Waiting(p) /\ (InBlock(p)' <=> InBlock(p))
      BY <1>0, <1>10, PlainLemma DEF Plain, Waiting
  <2>2. UNCHANGED <<state, pending_wake>>
      BY <1>10 DEF release_reservation
  <2> QED BY <1>b, <1>c, <2>1, <2>2 DEF WaitsForIpc
<1>11. CASE spawn_suspended(c)
  <2>1. Waiting(p) /\ (InBlock(p)' <=> InBlock(p))
      BY <1>0, <1>11, PlainLemma DEF Plain, Waiting
  <2>2. arg[c].index \in Index /\ slot[arg[c].index] = "Reserved"
        /\ state' = [state EXCEPT ![arg[c].index] = "Suspended"]
        /\ pending_wake' = [pending_wake EXCEPT ![arg[c].index] = FALSE]
      BY <1>11 DEF spawn_suspended, SchedulerInv, ReservationOwned, Building
  <2>3. Occupied(p) => p.index # arg[c].index
      BY <2>2 DEF Occupied
  <2> QED BY <1>a, <1>b, <1>c, <2>1, <2>2, <2>3 DEF WaitsForIpc
<1>12. CASE start_child(c)
  <2>1. Waiting(p) /\ (InBlock(p)' <=> InBlock(p))
      BY <1>0, <1>12, PlainLemma DEF Plain, Waiting
  <2>2. UNCHANGED pending_wake /\ \A i \in Index : state'[i] = "Blocked" <=> state[i] = "Blocked"
    <3>1. PICK t \in Target : state[t.index] = "Suspended" /\ state' = [state EXCEPT ![t.index] = "Ready"]
        BY <1>12 DEF start_child
    <3>2. UNCHANGED pending_wake
        BY <1>12 DEF start_child, wakeVars
    <3> QED BY <1>a, <3>1, <3>2
  <2> QED BY <1>b, <1>c, <2>1, <2>2 DEF WaitsForIpc
<1>13. CASE KillCheck(c)
  <2>1. Waiting(p) /\ (InBlock(p)' <=> InBlock(p))
      BY <1>0, <1>13, PlainLemma DEF Plain, Waiting
  <2>2. UNCHANGED <<state, pending_wake>>
      BY <1>13 DEF KillCheck
  <2> QED BY <1>b, <1>c, <2>1, <2>2 DEF WaitsForIpc
<1>14. CASE \E x \in Pid : Finalized(c, x) /\ take_and_finalize_slot(x)
  <2>1. PICK x \in Pid : Finalized(c, x)
      BY <1>14
  <2>2. Waiting(p) /\ (InBlock(p)' <=> InBlock(p))
      BY <1>0, <2>1, PlainLemma DEF Plain, Waiting
  <2>3. x.index \in Index /\ x.index \in Dying(x) /\ Dying(x) \subseteq Index
      BY <2>1, DyingLemma, PidLemma DEF Finalized
  <2>4. ASSUME Occupied(p)' PROVE state'[p.index] = state[p.index] /\ ~pending_wake'[p.index]
    <3>1. Occupied(p) /\ p.index \notin Dying(x)
        BY <1>b, <1>c, <2>1, <2>2, <2>4 DEF Finalized, Occupied
    <3>2. wait_waiter[x.index] # PidAt(p.index, gen[p.index])
        BY <1>c, <2>2, <2>3, <3>1, PidLemma, SMTT(60) DEF Occupied
    <3> QED BY <1>b, <1>c, <2>1, <2>2, <3>1, <3>2 DEF Finalized
  <2> QED BY <1>b, <1>c, <2>2, <2>4 DEF WaitsForIpc
<1>15. CASE spawn(c)
  <2>1. Waiting(p) /\ (InBlock(p)' <=> InBlock(p))
      BY <1>0, <1>15, PlainLemma DEF Plain, Waiting
  <2>2. arg[c].index \in Index /\ slot[arg[c].index] = "Reserved"
        /\ state' = [state EXCEPT ![arg[c].index] = "Ready"]
        /\ pending_wake' = [pending_wake EXCEPT ![arg[c].index] = FALSE]
      BY <1>15, SpawnLemma DEF spawn
  <2>3. Occupied(p) => p.index # arg[c].index
      BY <2>2 DEF Occupied
  <2> QED BY <1>a, <1>b, <1>c, <2>1, <2>2, <2>3 DEF WaitsForIpc
<1>16. CASE wake_receiver_fails(c)
  <2>1. UNCHANGED <<slot, gen, state, pending_wake, current>> /\ pc' = [pc EXCEPT ![c] = back[c]]
        /\ arg' = [arg EXCEPT ![c] = None] /\ pc[c] = "wake"
        /\ registered' \in {registered, registered \union {arg[c]}}
      BY <1>16 DEF wake_receiver_fails, AfterWake
  <2>2. InBlock(p) => InBlock(p)'
      BY <1>a, <2>1 DEF InBlock
  <2>3. Waiting(p)
      BY <1>a, <1>0, <2>1 DEF Waiting, Waking
  <2> QED BY <1>b, <1>c, <2>1, <2>2, <2>3 DEF WaitsForIpc
<1> QED BY <1>1, <1>2, <1>3, <1>4, <1>5, <1>6, <1>7, <1>8, <1>9, <1>10, <1>11, <1>12, <1>13, <1>14, <1>15, <1>16, StepShapes DEF Shape

(***************************************************************************)
(* A blocked process is held by somebody, and by one only.                 *)
(***************************************************************************)

\* At most one child, endpoint or core will wake p.
WakerUnique(p) ==
    /\ \A i, j \in Index : wait_waiter[i] = p /\ wait_waiter[j] = p => i = j
    /\ p \in registered => (\A j \in Index : wait_waiter[j] # p) /\ \A d \in Core : ~Waking(d, p)
    /\ \A d \in Core : Waking(d, p) =>
         (\A j \in Index : wait_waiter[j] # p) /\ \A e \in Core : Waking(e, p) => e = d

\* The invariant gives each live process, and each pid not yet in use, one waker.
LEMMA WakerUniqueLemma ==
    ASSUME SchedulerInv
    PROVE  \A p \in Pid : Occupied(p) \/ ~Known(p) => WakerUnique(p)
<1>1. ASSUME NEW p \in Pid, Occupied(p) PROVE WakerUnique(p)
  <2>1. p # None
      BY PidLemma
  <2> QED BY <1>1, <2>1 DEF SchedulerInv, OneWaker, WakerUnique, Waking
<1>2. ASSUME NEW p \in Pid, ~Known(p) PROVE WakerUnique(p)
  <2>1. \A j \in Index : wait_waiter[j] # p
      BY <1>2, PidLemma, SMTT(60) DEF SchedulerInv, WaiterIsBlocked
  <2>2. ~Waiting(p)
      BY <1>2, WaitingLemma DEF WaitsForIpc
  <2> QED BY <2>1, <2>2 DEF WakerUnique, Waiting
<1> QED BY <1>1, <1>2

\* Every step keeps the wakers of a process unique.
LEMMA OneWakerStep ==
    ASSUME SchedulerInv, NEW c \in Core, Step(c)
    PROVE  OneWaker'
<1>a. /\ pc \in [Core -> PcValue] /\ back \in [Core -> {"user", "orphans", "drain", "idle", "boot"}]
      /\ wait_waiter \in [Index -> Pid \union {None}] /\ slot \in [Index -> {"Empty", "Reserved", "Occupied", "Zombie"}]
      /\ current \in [Core -> Pid \union {None}] /\ arg \in [Core -> Pid \union {None, OutOfRange}]
      /\ registered \subseteq Pid
    BY DEF SchedulerInv, TypeOK
<1>0. SUFFICES ASSUME NEW p \in Pid, Occupied(p)' PROVE WakerUnique(p)'
  <2>1. /\ registered' \subseteq Pid /\ \A d \in Core : pc'[d] = "wake" => arg'[d] \in Pid
        /\ \A j \in Index : wait_waiter'[j] # None => wait_waiter'[j] \in Pid
      BY TypeStep, ArgStep DEF TypeOK, ArgIsPid
  <2> QED BY <2>1 DEF OneWaker, WakerUnique, Waking
<1>c. WakerUnique(p)
    BY <1>0, KnownStep, WakerUniqueLemma
<1>d. ASSUME \A j \in Index : wait_waiter'[j] \in {wait_waiter[j], None}, registered' = registered,
             \A d \in Core : Waking(d, p)' <=> Waking(d, p)
      PROVE  WakerUnique(p)'
    BY <1>c, <1>d, PidLemma DEF WakerUnique
<1> USE DEF tableVars
<1>1. CASE Quiet(c)
  <2>1. \A j \in Index : wait_waiter'[j] \in {wait_waiter[j], None}
      BY <1>a, <1>1 DEF Quiet
  <2> QED BY <1>d, <1>1, <2>1, PlainLemma DEF Plain
<1>2. CASE PureDispatch(c)
  <2>1. \A j \in Index : wait_waiter'[j] \in {wait_waiter[j], None}
      BY <1>a, <1>2 DEF PureDispatch
  <2> QED BY <1>d, <1>2, <2>1, PlainLemma DEF Plain
<1>3. CASE block_current_process(c) /\ BlockDispatch(c)
  <2>1. UNCHANGED <<wait_waiter, registered>> /\ \A d \in Core : Waking(d, p)' <=> Waking(d, p)
      BY <1>a, <1>3, ZenonT(60) DEF block_current_process, ipcVars, BlockDispatch, Redispatch, Waking
  <2> QED BY <1>c, <2>1 DEF WakerUnique
<1>4. CASE wait_blocks(c) /\ BlockDispatch(c)
  <2>1. Occupied(current[c]) /\ current[c] \in Pid /\ (\A j \in Index : wait_waiter[j] # current[c])
        /\ ~Waiting(current[c])
    <3>1. current[c] \in Pid /\ Occupied(current[c]) /\ state[current[c].index] = "Running" /\ ~InBlock(current[c])
        BY <1>a, <1>4, InBlockLemma, PidLemma, SMTT(60) DEF wait_blocks, SchedulerInv, CurrentInKernel, Where, DispatchSafe
    <3>2. \A j \in Index : wait_waiter[j] # current[c]
        BY <3>1, PidLemma, SMTT(60) DEF SchedulerInv, WaiterIsBlocked
    <3>3. ~Waiting(current[c])
        BY <3>1, WaitingLemma DEF WaitsForIpc
    <3> QED BY <3>1, <3>2, <3>3
  <2>2. PICK t \in Target : wait_waiter' = [wait_waiter EXCEPT ![t.index] = current[c]]
      BY <1>4 DEF wait_blocks
  <2>3. registered' = registered /\ \A d \in Core : Waking(d, p)' <=> Waking(d, p)
      BY <1>4, PlainLemma DEF Plain
  <2>4. CASE p = current[c]
      BY <1>a, <2>1, <2>2, <2>3, <2>4, PidLemma, ZenonT(60) DEF WakerUnique, Waiting
  <2>5. CASE p # current[c]
      BY <1>a, <1>c, <2>2, <2>3, <2>5, PidLemma, ZenonT(60) DEF WakerUnique
  <2> QED BY <2>4, <2>5
<1>5. CASE wait_reaps(c)
  <2>1. \A j \in Index : wait_waiter'[j] \in {wait_waiter[j], None}
      BY <1>a, <1>5 DEF wait_reaps
  <2> QED BY <1>d, <1>5, <2>1, PlainLemma DEF Plain
<1>6. CASE RegisterWaiter(c)
  <2>1. Occupied(current[c]) /\ current[c] \in Pid /\ (\A j \in Index : wait_waiter[j] # current[c])
        /\ ~Waiting(current[c])
    <3>1. current[c] \in Pid /\ Occupied(current[c]) /\ state[current[c].index] = "Running" /\ ~InBlock(current[c])
        BY <1>a, <1>6, InBlockLemma, PidLemma, SMTT(60) DEF RegisterWaiter, SchedulerInv, CurrentInKernel, Where, DispatchSafe
    <3>2. \A j \in Index : wait_waiter[j] # current[c]
        BY <3>1, PidLemma, SMTT(60) DEF SchedulerInv, WaiterIsBlocked
    <3>3. ~Waiting(current[c])
        BY <3>1, WaitingLemma DEF WaitsForIpc
    <3> QED BY <3>1, <3>2, <3>3
  <2>2. UNCHANGED wait_waiter /\ registered' = registered \union {current[c]}
        /\ \A d \in Core : Waking(d, p)' <=> Waking(d, p)
      BY <1>a, <1>6 DEF RegisterWaiter, killVars, Waking
  <2> QED BY <1>c, <2>1, <2>2 DEF WakerUnique, Waiting
<1>7. CASE TakeWaiter(c)
  <2>1. PICK q \in registered : registered' = registered \ {q} /\ arg' = [arg EXCEPT ![c] = q]
      BY <1>7 DEF TakeWaiter
  <2>2. UNCHANGED wait_waiter /\ pc[c] # "wake" /\ pc' = [pc EXCEPT ![c] = "wake"]
      BY <1>7 DEF TakeWaiter
  <2>3. (Waking(c, p)' <=> p = q) /\ \A d \in Core \ {c} : Waking(d, p)' <=> Waking(d, p)
      BY <1>a, <2>1, <2>2 DEF Waking
  <2>4. ~Waking(c, p)
      BY <2>2 DEF Waking
  <2> QED BY <1>c, <2>1, <2>2, <2>3, <2>4 DEF WakerUnique
<1>8. CASE wake_blocked_process(c)
  <2>1. UNCHANGED <<wait_waiter, registered>> /\ ~Waking(c, p)'
        /\ \A d \in Core \ {c} : Waking(d, p)' <=> Waking(d, p)
      BY <1>a, <1>8 DEF wake_blocked_process, AfterWake, Waking
  <2> QED BY <1>c, <2>1 DEF WakerUnique
<1>9. CASE Allocates(c)
  <2>1. \A j \in Index : wait_waiter'[j] \in {wait_waiter[j], None}
      BY <1>a, <1>9 DEF Allocates, allocate_pid
  <2> QED BY <1>d, <1>9, <2>1, PlainLemma DEF Plain
<1>10. CASE release_reservation(c)
  <2>1. \A j \in Index : wait_waiter'[j] \in {wait_waiter[j], None}
      BY <1>a, <1>10 DEF release_reservation
  <2> QED BY <1>d, <1>10, <2>1, PlainLemma DEF Plain
<1>11. CASE spawn_suspended(c)
  <2>1. \A j \in Index : wait_waiter'[j] \in {wait_waiter[j], None}
      BY <1>a, <1>11 DEF spawn_suspended
  <2> QED BY <1>d, <1>11, <2>1, PlainLemma DEF Plain
<1>12. CASE start_child(c)
  <2>1. \A j \in Index : wait_waiter'[j] \in {wait_waiter[j], None}
      BY <1>a, <1>12 DEF start_child
  <2> QED BY <1>d, <1>12, <2>1, PlainLemma DEF Plain
<1>13. CASE KillCheck(c)
  <2>1. \A j \in Index : wait_waiter'[j] \in {wait_waiter[j], None}
      BY <1>a, <1>13 DEF KillCheck
  <2> QED BY <1>d, <1>13, <2>1, PlainLemma DEF Plain
<1>14. CASE \E x \in Pid : Finalized(c, x) /\ take_and_finalize_slot(x)
  <2>1. \A j \in Index : wait_waiter'[j] \in {wait_waiter[j], None}
      BY <1>14 DEF Finalized
  <2> QED BY <1>d, <1>14, <2>1, PlainLemma DEF Plain
<1>15. CASE spawn(c)
  <2>1. \A j \in Index : wait_waiter'[j] \in {wait_waiter[j], None}
      BY <1>a, <1>15 DEF spawn
  <2> QED BY <1>d, <1>15, <2>1, PlainLemma DEF Plain
<1>16. CASE wake_receiver_fails(c)
  <2>1. UNCHANGED wait_waiter /\ ~Waking(c, p)' /\ (Waking(c, p) <=> p = arg[c])
        /\ \A d \in Core \ {c} : Waking(d, p)' <=> Waking(d, p)
      BY <1>a, <1>16 DEF wake_receiver_fails, AfterWake, Waking
  <2>2. registered' \in {registered, registered \union {arg[c]}}
      BY <1>16 DEF wake_receiver_fails
  <2> QED BY <1>c, <2>1, <2>2 DEF WakerUnique
<1> QED BY <1>1, <1>2, <1>3, <1>4, <1>5, <1>6, <1>7, <1>8, <1>9, <1>10, <1>11, <1>12, <1>13, <1>14, <1>15, <1>16, StepShapes DEF Shape

\* A child, an endpoint or a core holds p, or an endpoint dropped it.
Held(p) == (\E j \in Index : wait_waiter[j] = p) \/ Waiting(p) \/ p \in forgotten

\* p is blocked, or is about to block with no wake pending.
Sleeps(p) == Occupied(p) /\ (state[p.index] = "Blocked" \/ (InBlock(p) /\ ~pending_wake[p.index]))

\* A process that sleeps is held.
LEMMA HeldLemma ==
    ASSUME SchedulerInv
    PROVE  \A p \in Pid : Sleeps(p) => Held(p)
<1>1. ASSUME NEW p \in Pid, Sleeps(p) PROVE Held(p)
  <2>1. p = PidAt(p.index, gen[p.index]) /\ p.index \in Index /\ slot[p.index] = "Occupied"
      BY <1>1, PidLemma DEF Sleeps, Occupied
  <2> QED BY <1>1, <2>1 DEF SchedulerInv, BlockedIsHeld, Held, Waiting, Sleeps
<1> QED BY <1>1

\* Every step leaves a blocked process with the one that holds it.
LEMMA BlockedStep ==
    ASSUME SchedulerInv, NEW c \in Core, Step(c)
    PROVE  BlockedIsHeld'
<1>a. /\ slot \in [Index -> {"Empty", "Reserved", "Occupied", "Zombie"}] /\ gen \in [Index -> Nat]
      /\ state \in [Index -> States] /\ pending_wake \in [Index -> BOOLEAN]
      /\ pc \in [Core -> PcValue] /\ back \in [Core -> {"user", "orphans", "drain", "idle", "boot"}]
      /\ wait_waiter \in [Index -> Pid \union {None}]
      /\ current \in [Core -> Pid \union {None}] /\ arg \in [Core -> Pid \union {None, OutOfRange}]
      /\ registered \subseteq Pid
    BY DEF SchedulerInv, TypeOK, States
<1>0. SUFFICES ASSUME NEW p \in Pid, Sleeps(p)' PROVE Held(p)'
  <2>1. \A i \in Index : gen'[i] \in Nat
      BY TypeStep DEF TypeOK
  <2>2. ASSUME NEW i \in Index, NEW y \in Pid, y = PidAt(i, gen'[i]),
               (slot'[i] = "Occupied" /\ state'[i] = "Blocked") \/ (InBlock(y)' /\ ~pending_wake'[i])
        PROVE  Sleeps(y)'
    <3>1. y.index = i /\ y.generation = gen'[i] /\ y # None
        BY <2>1, <2>2, PidLemma, ZenonT(60)
    <3>2. InBlock(y)' => Occupied(y)'
        BY <3>1, DispatchStep DEF DispatchSafe, InBlock
    <3> QED BY <2>2, <3>1, <3>2 DEF Sleeps, Occupied
  <2> QED BY <2>1, <2>2, PidLemma DEF BlockedIsHeld, Held, Waiting
<1>b. p.index \in Index /\ p.generation \in Nat
    BY PidLemma
<1>c. Sleeps(p) => Held(p)
    BY HeldLemma
<1> USE <1>0 DEF tableVars, dispatchVars, wakeVars
<1>1. CASE Quiet(c)
  <2>1. Waiting(p)' <=> Waiting(p)
      BY <1>1, PlainLemma DEF Plain, Waiting
  <2>2. (InBlock(p)' <=> InBlock(p)) /\ forgotten' = forgotten
      BY <1>1, PlainLemma DEF Plain
  <2>3. UNCHANGED <<wait_waiter, state, pending_wake>> /\ (Occupied(p)' => Occupied(p))
      BY <1>a, <1>b, <1>1 DEF Quiet, Occupied
  <2> QED BY <1>b, <1>c, <2>1, <2>2, <2>3 DEF Sleeps, Held
<1>2. CASE PureDispatch(c)
  <2>1. Waiting(p)' <=> Waiting(p)
      BY <1>2, PlainLemma DEF Plain, Waiting
  <2>2. (InBlock(p)' <=> InBlock(p)) /\ forgotten' = forgotten
      BY <1>2, PlainLemma DEF Plain
  <2>3. UNCHANGED <<wait_waiter, pending_wake, slot, gen>>
        /\ \A i \in Index : state'[i] = "Blocked" <=> state[i] = "Blocked"
      BY <1>2 DEF PureDispatch, Redispatch
  <2> QED BY <1>b, <1>c, <2>1, <2>2, <2>3 DEF Sleeps, Held, Occupied
<1>3. CASE block_current_process(c) /\ BlockDispatch(c)
  <2>1. UNCHANGED <<wait_waiter, slot, gen, forgotten>> /\ (Waiting(p)' <=> Waiting(p))
      BY <1>a, <1>3, SMTT(60) DEF block_current_process, BlockDispatch, Redispatch, Waiting, Waking
  <2>2. /\ pending_wake' = [pending_wake EXCEPT ![current[c].index] = FALSE]
        /\ state'[current[c].index] = "Blocked" <=> ~pending_wake[current[c].index]
        /\ \A i \in Index \ {current[c].index} : state'[i] = "Blocked" <=> state[i] = "Blocked"
        /\ current[c] \in Pid /\ current[c].index \in Index /\ pc[c] = "block"
      BY <1>3, PidLemma DEF BlockDispatch, block_current_process
  <2>3. InBlock(current[c]) /\ Occupied(current[c])
      BY <2>2, InBlockLemma DEF InBlock
  <2>4. p # current[c] => (InBlock(p)' => InBlock(p))
    <3>1. /\ \A d \in Core \ {c} : pc'[d] = pc[d] /\ current'[d] = current[d]
          /\ pc'[c] # "block"
        BY <1>a, <1>3, ZenonT(60) DEF BlockDispatch, Redispatch
    <3> QED BY <3>1 DEF InBlock
  <2>5. p.index = current[c].index => p = current[c]
    <3>1. Occupied(p)
        BY <1>0, <2>1 DEF Sleeps, Occupied
    <3> QED BY <2>2, <2>3, <3>1, OccupiedUnique
  <2>6. p = current[c] => ~InBlock(p)'
    <3>1. /\ \A d \in Core \ {c} : pc'[d] = pc[d] /\ current'[d] = current[d]
          /\ pc'[c] # "block"
        BY <1>a, <1>3 DEF BlockDispatch, Redispatch
    <3>2. \A d \in Core \ {c} : current[d] # current[c]
        BY <2>2, PidLemma, SMTT(60) DEF SchedulerInv, DispatchSafe
    <3> QED BY <3>1, <3>2 DEF InBlock
  <2>7. Sleeps(p)
      BY <1>a, <1>b, <1>0, <2>1, <2>2, <2>3, <2>4, <2>5, <2>6 DEF Sleeps, Occupied
  <2> QED BY <1>c, <2>1, <2>7 DEF Held
<1>4. CASE wait_blocks(c) /\ BlockDispatch(c)
  <2>1. Waiting(p)' <=> Waiting(p)
      BY <1>4, PlainLemma DEF Plain, Waiting
  <2>2. (InBlock(p)' <=> InBlock(p)) /\ forgotten' = forgotten
      BY <1>4, PlainLemma DEF Plain
  <2>3. PICK t \in Target : parent[t.index] = current[c] /\ Occupied(t)
                             /\ wait_waiter' = [wait_waiter EXCEPT ![t.index] = current[c]]
      BY <1>4 DEF wait_blocks
  <2>4. /\ pending_wake' = [pending_wake EXCEPT ![current[c].index] = FALSE]
        /\ \A i \in Index \ {current[c].index} : state'[i] = "Blocked" <=> state[i] = "Blocked"
        /\ current[c] \in Pid /\ current[c].index \in Index /\ UNCHANGED <<slot, gen>>
      BY <1>4, PidLemma DEF BlockDispatch, Redispatch
  <2>5. wait_waiter'[t.index] = current[c] /\ t.index \in Index
        /\ \A j \in Index \ {t.index} : wait_waiter'[j] = wait_waiter[j]
      BY <1>a, <2>3, PidLemma, ZenonT(60)
  <2>6. CASE p = current[c]
      BY <2>5, <2>6 DEF Held
  <2>7. CASE p # current[c]
    <3>1. Occupied(current[c])
        BY <2>4, PidLemma DEF SchedulerInv, DispatchSafe
    <3>2. p.index # current[c].index
        BY <1>0, <2>4, <2>7, <3>1, PidLemma, SMTT(60) DEF Sleeps, Occupied
    <3>3. Sleeps(p)
        BY <1>a, <1>b, <1>0, <2>2, <2>4, <3>2 DEF Sleeps, Occupied
    <3>4. wait_waiter[t.index] # p
        BY <2>3, <2>4, <2>5, <2>7, PidLemma, SMTT(60) DEF SchedulerInv, WaiterIsBlocked
    <3> QED BY <1>c, <2>1, <2>2, <2>5, <3>3, <3>4 DEF Held
  <2> QED BY <2>6, <2>7
<1>5. CASE wait_reaps(c)
  <2>1. Waiting(p)' <=> Waiting(p)
      BY <1>5, PlainLemma DEF Plain, Waiting
  <2>2. (InBlock(p)' <=> InBlock(p)) /\ forgotten' = forgotten
      BY <1>5, PlainLemma DEF Plain
  <2>3. UNCHANGED <<wait_waiter, state, pending_wake>> /\ (Occupied(p)' => Occupied(p))
      BY <1>a, <1>b, <1>5 DEF wait_reaps, Occupied
  <2> QED BY <1>b, <1>c, <2>1, <2>2, <2>3 DEF Sleeps, Held
<1>6. CASE RegisterWaiter(c)
  <2>1. UNCHANGED <<slot, gen, state, pending_wake, wait_waiter, current, forgotten>>
        /\ registered' = registered \union {current[c]}
      BY <1>6 DEF RegisterWaiter
  <2>2. Waiting(p) => Waiting(p)'
      BY <1>a, <1>6 DEF RegisterWaiter, killVars, Waiting, Waking
  <2>3. InBlock(p)' => InBlock(p) \/ p = current[c]
      BY <1>a, <1>6 DEF RegisterWaiter, InBlock
  <2>4. p = current[c] => Waiting(p)'
      BY <2>1 DEF Waiting
  <2> QED BY <1>0, <1>c, <2>1, <2>2, <2>3, <2>4 DEF Sleeps, Held, Occupied
<1>7. CASE TakeWaiter(c)
  <2>1. UNCHANGED <<slot, gen, state, pending_wake, wait_waiter, current, forgotten>> /\ pc' = [pc EXCEPT ![c] = "wake"]
        /\ pc[c] \notin {"block", "wake"}
      BY <1>7 DEF TakeWaiter
  <2>2. PICK q \in registered : registered' = registered \ {q} /\ arg' = [arg EXCEPT ![c] = q]
      BY <1>7 DEF TakeWaiter
  <2>3. Waiting(p) => Waiting(p)'
    <3>1. CASE p = q
        BY <1>a, <2>1, <2>2, <3>1 DEF Waiting, Waking
    <3>2. CASE p # q
        BY <1>a, <2>1, <2>2, <3>2 DEF Waiting, Waking
    <3> QED BY <3>1, <3>2
  <2>4. InBlock(p)' => InBlock(p)
      BY <1>a, <2>1 DEF InBlock
  <2> QED BY <1>0, <1>c, <2>1, <2>3, <2>4 DEF Sleeps, Held, Occupied
<1>8. CASE wake_blocked_process(c)
  <2>1. UNCHANGED <<slot, gen, current, wait_waiter, registered, forgotten>> /\ pc' = [pc EXCEPT ![c] = back[c]]
        /\ arg' = [arg EXCEPT ![c] = None] /\ pc[c] = "wake"
      BY <1>8 DEF wake_blocked_process, AfterWake
  <2>2. InBlock(p)' => InBlock(p)
      BY <1>a, <2>1 DEF InBlock
  <2>3. arg[c] \in Pid /\ arg[c].index \in Index
      BY <2>1, PidLemma DEF SchedulerInv, ArgIsPid
  <2>4. Occupied(p)
      BY <1>0, <2>1 DEF Sleeps, Occupied
  <2>5. p # arg[c]
    <3>1. SUFFICES ASSUME p = arg[c] PROVE FALSE
        OBVIOUS
    <3>2. CASE state[p.index] = "Blocked"
      <4>1. state'[p.index] = "Ready"
          BY <1>a, <1>b, <1>8, <2>4, <3>1, <3>2 DEF wake_blocked_process, AfterWake
      <4> QED BY <1>0, <2>2, <3>2, <4>1, InBlockLemma DEF Sleeps
    <3>3. CASE state[p.index] # "Blocked"
      <4>1. pending_wake'[p.index] /\ state'[p.index] = state[p.index]
          BY <1>a, <1>b, <1>8, <2>4, <3>1, <3>3 DEF wake_blocked_process, AfterWake
      <4> QED BY <1>0, <3>3, <4>1 DEF Sleeps
    <3> QED BY <3>2, <3>3
  <2>6. state'[p.index] = state[p.index] /\ pending_wake'[p.index] = pending_wake[p.index]
    <3>1. /\ state' = state \/ (Occupied(arg[c]) /\ state' = [state EXCEPT ![arg[c].index] = "Ready"])
          /\ pending_wake' = pending_wake
               \/ (Occupied(arg[c]) /\ pending_wake' = [pending_wake EXCEPT ![arg[c].index] = TRUE])
        BY <1>8 DEF wake_blocked_process, AfterWake
    <3>2. Occupied(arg[c]) => p.index # arg[c].index
        BY <2>3, <2>4, <2>5, PidLemma, SMTT(60) DEF Occupied
    <3> QED BY <1>a, <1>b, <2>3, <3>1, <3>2
  <2>7. Held(p)
      BY <1>0, <1>c, <2>2, <2>4, <2>6 DEF Sleeps
  <2>8. Waiting(p) => Waiting(p)'
      BY <1>a, <2>1, <2>5 DEF Waiting, Waking
  <2> QED BY <2>1, <2>7, <2>8 DEF Held
<1>9. CASE Allocates(c)
  <2>1. Waiting(p)' <=> Waiting(p)
      BY <1>9, PlainLemma DEF Plain, Waiting
  <2>2. (InBlock(p)' <=> InBlock(p)) /\ forgotten' = forgotten
      BY <1>9, PlainLemma DEF Plain
  <2>3. UNCHANGED <<wait_waiter, state, pending_wake>> /\ (Occupied(p)' => Occupied(p))
      BY <1>a, <1>b, <1>9 DEF Allocates, allocate_pid, FreeIndex, Occupied
  <2> QED BY <1>b, <1>c, <2>1, <2>2, <2>3 DEF Sleeps, Held
<1>10. CASE release_reservation(c)
  <2>1. Waiting(p)' <=> Waiting(p)
      BY <1>10, PlainLemma DEF Plain, Waiting
  <2>2. (InBlock(p)' <=> InBlock(p)) /\ forgotten' = forgotten
      BY <1>10, PlainLemma DEF Plain
  <2>3. UNCHANGED <<wait_waiter, state, pending_wake>> /\ (Occupied(p)' => Occupied(p))
      BY <1>a, <1>b, <1>10 DEF release_reservation, Occupied
  <2> QED BY <1>b, <1>c, <2>1, <2>2, <2>3 DEF Sleeps, Held
<1>11. CASE spawn_suspended(c)
  <2>1. Waiting(p)' <=> Waiting(p)
      BY <1>11, PlainLemma DEF Plain, Waiting
  <2>2. (InBlock(p)' <=> InBlock(p)) /\ forgotten' = forgotten
      BY <1>11, PlainLemma DEF Plain
  <2>3. arg[c].index \in Index /\ slot[arg[c].index] = "Reserved" /\ gen' = gen
        /\ slot' = [slot EXCEPT ![arg[c].index] = "Occupied"]
        /\ state' = [state EXCEPT ![arg[c].index] = "Suspended"]
        /\ pending_wake' = [pending_wake EXCEPT ![arg[c].index] = FALSE]
        /\ wait_waiter' = [wait_waiter EXCEPT ![arg[c].index] = None]
      BY <1>11 DEF spawn_suspended, SchedulerInv, ReservationOwned, Building
  <2>4. InBlock(p) => Occupied(p)
      BY InBlockLemma
  <2>5. p.index # arg[c].index
      BY <1>a, <1>0, <2>2, <2>3, <2>4 DEF Sleeps, Occupied
  <2>6. wait_waiter[arg[c].index] = None
      BY <2>3 DEF SchedulerInv, WaiterIsBlocked
  <2>7. UNCHANGED wait_waiter
      BY <1>a, <2>3, <2>6
  <2> QED BY <1>a, <1>b, <1>c, <2>1, <2>2, <2>3, <2>5, <2>7 DEF Sleeps, Held, Occupied
<1>12. CASE start_child(c)
  <2>1. Waiting(p)' <=> Waiting(p)
      BY <1>12, PlainLemma DEF Plain, Waiting
  <2>2. (InBlock(p)' <=> InBlock(p)) /\ forgotten' = forgotten
      BY <1>12, PlainLemma DEF Plain
  <2>3. UNCHANGED <<wait_waiter, pending_wake, slot, gen>>
      BY <1>12 DEF start_child
  <2>4. PICK t \in Target :
            state[t.index] = "Suspended" /\ state' = [state EXCEPT ![t.index] = "Ready"]
      BY <1>12 DEF start_child
  <2>5. t.index \in Index
      BY <2>4, PidLemma
  <2>6. \A i \in Index : state'[i] = "Blocked" <=> state[i] = "Blocked"
      BY <1>a, <2>4, <2>5, SMTT(60)
  <2> QED BY <1>b, <1>c, <2>1, <2>2, <2>3, <2>6 DEF Sleeps, Held, Occupied
<1>13. CASE KillCheck(c)
  <2>1. Waiting(p)' <=> Waiting(p)
      BY <1>13, PlainLemma DEF Plain, Waiting
  <2>2. (InBlock(p)' <=> InBlock(p)) /\ forgotten' = forgotten
      BY <1>13, PlainLemma DEF Plain
  <2>3. UNCHANGED <<wait_waiter, state, pending_wake>> /\ (Occupied(p)' => Occupied(p))
      BY <1>a, <1>b, <1>13 DEF KillCheck, Occupied
  <2> QED BY <1>b, <1>c, <2>1, <2>2, <2>3 DEF Sleeps, Held
<1>14. CASE \E x \in Pid : Finalized(c, x) /\ take_and_finalize_slot(x)
  <2>1. PICK x \in Pid : Finalized(c, x)
      BY <1>14
  <2>2. (Waiting(p)' <=> Waiting(p)) /\ (InBlock(p)' <=> InBlock(p)) /\ forgotten' = forgotten
      BY <2>1, PlainLemma DEF Plain, Waiting
  <2>3. /\ Occupied(x) /\ x.index \in Index /\ x.index \in Dying(x) /\ Dying(x) \subseteq Index
        /\ \A j \in Dying(x) : j = x.index \/ (parent[j] = x /\ state[j] = "Suspended")
      BY <2>1, DyingLemma, PidLemma DEF Finalized
  <2>4. p.index \notin Dying(x) /\ Occupied(p) /\ gen' = gen
      BY <1>0, <1>b, <2>1, <2>3 DEF Sleeps, Occupied, Finalized
  <2>5. p = PidAt(p.index, gen[p.index]) /\ slot[p.index] = "Occupied"
      BY <2>4, PidLemma DEF Occupied
  <2>6. Sleeps(p)
      BY <1>0, <1>b, <2>1, <2>2, <2>4 DEF Sleeps, Finalized
  <2>7. CASE Waiting(p) \/ p \in forgotten
      BY <2>2, <2>7 DEF Held
  <2>8. CASE \E j \in Index : wait_waiter[j] = p
    <3>1. PICK j \in Index : wait_waiter[j] = p
        BY <2>8
    <3>2. wait_waiter[j] # None /\ parent[j] = p /\ state[p.index] = "Blocked"
        BY <2>4, <3>1, PidLemma DEF SchedulerInv, WaiterIsBlocked
    <3>3. p # x
        BY <2>3, <2>4
    <3>4. j # x.index
      <4>1. ~InBlock(p)
          BY <3>2, InBlockLemma
      <4>2. j = x.index => state'[p.index] = "Ready"
          BY <1>b, <2>1, <2>4, <2>5, <3>1, <3>2, SMTT(60) DEF Finalized
      <4> QED BY <1>0, <2>2, <4>1, <4>2 DEF Sleeps
    <3>5. j \notin Dying(x)
        BY <2>3, <3>2, <3>3, <3>4
    <3> QED BY <2>1, <3>1, <3>5 DEF Finalized, Held
  <2> QED BY <1>c, <2>6, <2>7, <2>8 DEF Held
<1>15. CASE spawn(c)
  <2>1. Waiting(p)' <=> Waiting(p)
      BY <1>15, PlainLemma DEF Plain, Waiting
  <2>2. (InBlock(p)' <=> InBlock(p)) /\ forgotten' = forgotten
      BY <1>15, PlainLemma DEF Plain
  <2>3. arg[c].index \in Index /\ slot[arg[c].index] = "Reserved" /\ gen' = gen
        /\ slot' = [slot EXCEPT ![arg[c].index] = "Occupied"]
        /\ state' = [state EXCEPT ![arg[c].index] = "Ready"]
        /\ pending_wake' = [pending_wake EXCEPT ![arg[c].index] = FALSE]
        /\ wait_waiter' = [wait_waiter EXCEPT ![arg[c].index] = None]
      BY <1>15, SpawnLemma DEF spawn
  <2>4. InBlock(p) => Occupied(p)
      BY InBlockLemma
  <2>5. p.index # arg[c].index
      BY <1>a, <1>0, <2>2, <2>3, <2>4 DEF Sleeps, Occupied
  <2>6. wait_waiter[arg[c].index] = None
      BY <2>3 DEF SchedulerInv, WaiterIsBlocked
  <2>7. UNCHANGED wait_waiter
      BY <1>a, <2>3, <2>6
  <2> QED BY <1>a, <1>b, <1>c, <2>1, <2>2, <2>3, <2>5, <2>7 DEF Sleeps, Held, Occupied
<1>16. CASE wake_receiver_fails(c)
  <2>1. UNCHANGED <<slot, gen, state, pending_wake, wait_waiter, current>>
        /\ pc' = [pc EXCEPT ![c] = back[c]] /\ arg' = [arg EXCEPT ![c] = None] /\ pc[c] = "wake"
      BY <1>16 DEF wake_receiver_fails, AfterWake
  <2>2. \/ registered' = registered \union {arg[c]} /\ forgotten' = forgotten
        \/ registered' = registered /\ forgotten' = forgotten \union {arg[c]}
      BY <1>16 DEF wake_receiver_fails
  <2>3. InBlock(p)' => InBlock(p)
      BY <1>a, <2>1 DEF InBlock
  <2>4. Sleeps(p)
      BY <1>0, <2>1, <2>3 DEF Sleeps, Occupied
  <2>5. Waiting(p) => Waiting(p)' \/ p \in forgotten'
      BY <1>a, <2>1, <2>2 DEF Waiting, Waking
  <2> QED BY <1>c, <2>1, <2>2, <2>4, <2>5 DEF Held
<1> QED BY <1>1, <1>2, <1>3, <1>4, <1>5, <1>6, <1>7, <1>8, <1>9, <1>10, <1>11, <1>12, <1>13, <1>14, <1>15, <1>16, StepShapes DEF Shape

(***************************************************************************)
(* The theorems.                                                           *)
(***************************************************************************)

\* The booted system satisfies the invariant.
LEMMA InitInv ==
    ASSUME Init PROVE SchedulerInv
<1>1. /\ slot = [i \in Index |-> "Empty"] /\ wait_waiter = [i \in Index |-> None]
      /\ pending_wake = [i \in Index |-> FALSE] /\ ready = <<>> /\ registered = {}
      /\ pc \in [Core -> {"boot", "idle"}] /\ current = [d \in Core |-> None]
    BY DEF Init
<1>2. TypeOK
  <2>1. ready \in Seq(Pid)
      BY <1>1, SMTT(60)
  <2> QED BY <2>1, SMTT(60) DEF Init, TypeOK, PcValue
<1>3. DispatchSafe
  <2>1. Elems(ready) = {} /\ Distinct(ready)
      BY <1>1, SMTT(60) DEF Elems, Distinct
  <2> QED BY <1>1, <2>1 DEF DispatchSafe, Queued
<1>4. CurrentInKernel /\ ArgIsPid /\ ReservationOwned /\ KillHitsTarget
    BY <1>1 DEF CurrentInKernel, ArgIsPid, ReservationOwned, KillHitsTarget, Where, Killing, Building
<1>5. ParentIsLive /\ WaiterIsBlocked /\ PendingWakeIsFresh /\ IpcWaiterWaits /\ OneWaker
    BY <1>1 DEF ParentIsLive, WaiterIsBlocked, PendingWakeIsFresh, IpcWaiterWaits, OneWaker
<1>6. BlockedIsHeld
    BY <1>1 DEF BlockedIsHeld, InBlock
<1> QED BY <1>2, <1>3, <1>4, <1>5, <1>6 DEF SchedulerInv

\* A step that changes nothing keeps the invariant.
LEMMA StutterInv ==
    ASSUME SchedulerInv, UNCHANGED vars PROVE SchedulerInv'
<1> USE DEF vars, tableVars, dispatchVars, flowVars, killVars, exitVars, wakeVars, ipcVars, bootVars
<1>1. (TypeOK /\ CurrentInKernel /\ ArgIsPid)'
    BY DEF SchedulerInv, TypeOK, CurrentInKernel, ArgIsPid, Where
<1>2. DispatchSafe'
    BY DEF SchedulerInv, DispatchSafe, Occupied, Queued
<1>3. ReservationOwned' /\ ParentIsLive' /\ KillHitsTarget'
    BY DEF SchedulerInv, ReservationOwned, ParentIsLive, KillHitsTarget, Occupied
<1>4. WaiterIsBlocked' /\ PendingWakeIsFresh'
    BY DEF SchedulerInv, WaiterIsBlocked, PendingWakeIsFresh, Known, Occupied, InBlock
<1>5. IpcWaiterWaits'
    BY DEF SchedulerInv, IpcWaiterWaits, WaitsForIpc, Known, Occupied, InBlock
<1>6. (OneWaker /\ BlockedIsHeld)'
    BY DEF SchedulerInv, OneWaker, BlockedIsHeld, Occupied, InBlock, Waking
<1> QED BY <1>1, <1>2, <1>3, <1>4, <1>5, <1>6 DEF SchedulerInv

\* SchedulerInv holds in every reachable state, for every number of cores and
\* processes.
THEOREM SchedulerInvariance == Spec => []SchedulerInv
<1>1. Init => SchedulerInv
    BY InitInv
<1>2. SchedulerInv /\ [Next]_vars => SchedulerInv'
  <2>1. ASSUME SchedulerInv, NEW c \in Core, Step(c) PROVE SchedulerInv'
      BY <2>1, TypeStep, CurrentStep, ArgStep, DispatchStep, ReservationStep, ParentStep, KillStep,
         WaiterStep, FreshStep, IpcStep, OneWakerStep, BlockedStep DEF SchedulerInv
  <2> QED BY <2>1, StutterInv DEF Next, Step
<1> QED BY <1>1, <1>2, PTL DEF Spec

\* Every variable keeps its type.
THEOREM TypeCorrectness == Spec => []TypeOK
<1>1. SchedulerInv => TypeOK
    BY DEF SchedulerInv
<1> QED BY <1>1, SchedulerInvariance, PTL

\* switch_to never dispatches a process that is gone, already running, or
\* running on another core.
THEOREM DispatchSafety == Spec => []DispatchSafe
<1>1. SchedulerInv => DispatchSafe
    BY DEF SchedulerInv
<1> QED BY <1>1, SchedulerInvariance, PTL

\* terminate_process never finalizes a process other than the one its caller
\* was allowed to kill.
THEOREM KillSafety == Spec => []KillHitsTarget
<1>1. SchedulerInv => KillHitsTarget
    BY DEF SchedulerInv
<1> QED BY <1>1, SchedulerInvariance, PTL

\* The scheduler loses no wake between an endpoint's lock and its own, keeps none for
\* a later block and delivers none twice: while a process is blocked its pid is held by
\* exactly one child, endpoint or waking core, or the endpoint itself has dropped it.
THEOREM WakeSafety == Spec => [](BlockedIsHeld /\ OneWaker /\ PendingWakeIsFresh)
<1>1. SchedulerInv => BlockedIsHeld /\ OneWaker /\ PendingWakeIsFresh
    BY DEF SchedulerInv
<1> QED BY <1>1, SchedulerInvariance, PTL

\* Where no endpoint has two receivers (wake_receiver never fails) nobody is dropped:
\* every blocked process is still held by its child, its endpoint or a waking core.
THEOREM NobodyDropped ==
    ASSUME "share" \notin Ops
    PROVE  Spec => [](BlockedIsHeld /\ forgotten = {})
<1>1. Init => forgotten = {}
    BY DEF Init
<1>2. SchedulerInv /\ forgotten = {} /\ [Next]_vars => (forgotten = {})'
  <2>1. ASSUME SchedulerInv, NEW c \in Core, Step(c) PROVE forgotten' = forgotten
    <3>1. CASE Quiet(c) \/ PureDispatch(c)
        BY <3>1 DEF Quiet, PureDispatch, Redispatch
    <3>2. CASE BlockDispatch(c) \/ \E p \in Pid : Finalized(c, p)
        BY <3>2 DEF BlockDispatch, Redispatch, Finalized
    <3>3. CASE wait_reaps(c) \/ RegisterWaiter(c) \/ TakeWaiter(c) \/ wake_blocked_process(c)
        BY <3>3 DEF wait_reaps, RegisterWaiter, TakeWaiter, wake_blocked_process, ipcVars
    <3>4. CASE Allocates(c) \/ release_reservation(c) \/ spawn_suspended(c) \/ spawn(c)
               \/ start_child(c) \/ KillCheck(c)
        BY <3>4 DEF Allocates, allocate_pid, release_reservation, spawn_suspended, spawn,
                    start_child, KillCheck, ipcVars
    <3>5. ~wake_receiver_fails(c)
        BY DEF wake_receiver_fails
    <3> QED BY <2>1, <3>1, <3>2, <3>3, <3>4, <3>5, StepShapes DEF Shape
  <2> QED BY <2>1 DEF Next, Step, vars, ipcVars
<1>3. SchedulerInv => BlockedIsHeld
    BY DEF SchedulerInv
<1> QED BY <1>1, <1>2, <1>3, SchedulerInvariance, PTL DEF Spec

\* Reserved slots have one owner and live children have live parents.
THEOREM TableSafety == Spec => [](ReservationOwned /\ ParentIsLive)
<1>1. SchedulerInv => ReservationOwned /\ ParentIsLive
    BY DEF SchedulerInv
<1> QED BY <1>1, SchedulerInvariance, PTL

==============================================================================
