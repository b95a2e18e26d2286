--------------------------- MODULE SchedulerSteps ---------------------------
(***************************************************************************)
(* What the steps of Scheduler do to the state its invariant speaks of, for *)
(* any number of cores, table size, boot set and mix of system calls: lemmas *)
(* about the ready queue, a summary of every step, and type correctness.   *)
(***************************************************************************)
EXTENDS Scheduler, TLAPS

\* Most leaves are first-order: try Zenon before the SMT solver.
USE ZenonT(15), SMTT(60)

(***************************************************************************)
(* The ready queue, seen as a set of pids.                                 *)
(***************************************************************************)

\* Pushing a pid that is not queued (ReadyQueue::push) keeps the queue free of
\* duplicates and adds exactly that pid.
LEMMA PushLemma ==
    ASSUME NEW q \in Seq(Pid), NEW p \in Pid, Distinct(q), p \notin Elems(q)
    PROVE  /\ Append(q, p) \in Seq(Pid)
           /\ Append(q, p) # <<>>
           /\ Distinct(Append(q, p))
           /\ Elems(Append(q, p)) = Elems(q) \union {p}
<1> DEFINE r == Append(q, p)
<1>1. r \in Seq(Pid) /\ Len(r) = Len(q) + 1 /\ r # <<>>
      /\ r[Len(q) + 1] = p /\ \A k \in 1..Len(q) : r[k] = q[k]
    BY SMTT(60)
<1>2. Len(q) \in Nat
    BY SMTT(60)
<1> HIDE DEF r
<1>3. Distinct(r)
    BY <1>1, <1>2, SMTT(60) DEF Distinct, Elems
<1>4. Elems(r) = Elems(q) \union {p}
    BY <1>1, <1>2, SMTT(60) DEF Elems
<1> QED BY <1>1, <1>3, <1>4 DEF r

\* Popping a non-empty queue (ReadyQueue::pop) takes exactly its head out.
LEMMA PopLemma ==
    ASSUME NEW q \in Seq(Pid), q # <<>>, Distinct(q)
    PROVE  /\ Head(q) \in Elems(q) /\ Head(q) \in Pid
           /\ Tail(q) \in Seq(Pid)
           /\ Distinct(Tail(q))
           /\ Elems(Tail(q)) = Elems(q) \ {Head(q)}
<1> DEFINE r == Tail(q)
<1>1. /\ Len(q) \in Nat /\ Len(q) > 0 /\ Head(q) = q[1] /\ Head(q) \in Pid
      /\ r \in Seq(Pid) /\ Len(r) = Len(q) - 1
      /\ \A k \in 1..Len(r) : r[k] = q[k + 1]
    BY SMTT(60)
<1> HIDE DEF r
<1>2. Distinct(r)
    BY <1>1, SMTT(60) DEF Distinct
<1>3. Elems(r) = Elems(q) \ {Head(q)}
  <2>1. ASSUME NEW x \in Elems(r) PROVE x \in Elems(q) \ {Head(q)}
    <3>1. PICK k \in 1..Len(r) : x = r[k]
        BY DEF Elems
    <3>2. k + 1 \in 1..Len(q) /\ x = q[k + 1] /\ k + 1 # 1
        BY <1>1, <3>1, SMTT(60)
    <3> QED BY <1>1, <3>2, SMTT(60) DEF Elems, Distinct
  <2>2. ASSUME NEW x \in Elems(q), x # Head(q) PROVE x \in Elems(r)
    <3>1. PICK k \in 1..Len(q) : x = q[k]
        BY DEF Elems
    <3>2. k - 1 \in 1..Len(r) /\ r[k - 1] = x
        BY <1>1, <2>2, <3>1, SMTT(60)
    <3> QED BY <3>2 DEF Elems
  <2> QED BY <2>1, <2>2
<1>4. Head(q) \in Elems(q)
    BY <1>1, SMTT(60) DEF Elems
<1> QED BY <1>1, <1>2, <1>3, <1>4 DEF r

\* remove_from_ready_queue takes exactly the target out.
LEMMA RemoveLemma ==
    ASSUME NEW q \in Seq(Pid), NEW p, Distinct(q)
    PROVE  /\ WithoutPid(q, p) \in Seq(Pid)
           /\ Distinct(WithoutPid(q, p))
           /\ Elems(WithoutPid(q, p)) = Elems(q) \ {p}
<1> DEFINE at == {k \in 1..Len(q) : q[k] = p}
<1>1. CASE at = {}
  <2>1. WithoutPid(q, p) = q
      BY <1>1 DEF WithoutPid
  <2>2. p \notin Elems(q)
      BY <1>1 DEF Elems
  <2> QED BY <2>1, <2>2
<1>2. CASE at # {}
  <2> DEFINE f == CHOOSE k \in at : TRUE
             r == [k \in 1..(Len(q) - 1) |-> IF k < f THEN q[k] ELSE q[k + 1]]
  <2>1. WithoutPid(q, p) = r
      BY <1>2 DEF WithoutPid
  <2>2. f \in 1..Len(q) /\ q[f] = p
      BY <1>2
  <2>3. Len(q) \in Nat
      BY SMTT(60)
  <2> HIDE DEF f
  <2>4. r \in Seq(Pid) /\ Len(r) = Len(q) - 1
      BY <2>2, <2>3, SMTT(60)
  <2>5. \A k \in 1..Len(r) : r[k] = IF k < f THEN q[k] ELSE q[k + 1]
      BY <2>4
  <2> HIDE DEF r
  <2>6. Distinct(r)
    <3>1. SUFFICES ASSUME NEW k \in 1..Len(r), NEW m \in 1..Len(r), r[k] = r[m] PROVE k = m
        BY DEF Distinct
    <3> DEFINE src(j) == IF j < f THEN j ELSE j + 1
    <3>2. \A j \in 1..Len(r) : src(j) \in 1..Len(q) /\ r[j] = q[src(j)]
        BY <2>2, <2>3, <2>4, <2>5, SMTT(60)
    <3>3. src(k) = src(m)
      <4> HIDE DEF src
      <4> QED BY <3>1, <3>2 DEF Distinct
    <3> QED BY <2>2, <2>4, <3>3, SMTT(60)
  <2>7. ASSUME NEW x \in Elems(r) PROVE x \in Elems(q) \ {p}
    <3>1. PICK k \in 1..Len(r) : x = r[k]
        BY DEF Elems
    <3>2. \E m \in 1..Len(q) : m # f /\ x = q[m]
        BY <2>2, <2>3, <2>4, <2>5, <3>1, SMTT(60)
    <3> QED BY <2>2, <3>2 DEF Elems, Distinct
  <2>8. ASSUME NEW x \in Elems(q), x # p PROVE x \in Elems(r)
    <3>1. PICK m \in 1..Len(q) : x = q[m]
        BY DEF Elems
    <3>2. m # f
        BY <2>2, <2>8, <3>1
    <3>3. \E k \in 1..Len(r) : r[k] = x
      <4>1. CASE m < f
          BY <2>2, <2>3, <2>4, <2>5, <3>1, <4>1, SMTT(60)
      <4>2. CASE m > f
        <5>1. m - 1 \in 1..Len(r) /\ r[m - 1] = x
            BY <2>2, <2>3, <2>4, <2>5, <3>1, <4>2, SMTT(60)
        <5> QED BY <5>1
      <4> QED BY <2>2, <3>2, <4>1, <4>2, SMTT(60)
    <3> QED BY <3>3 DEF Elems
  <2> QED BY <2>1, <2>4, <2>6, <2>7, <2>8
<1> QED BY <1>1, <1>2

\* Pids are pairs of a table index and a generation.
LEMMA PidLemma ==
    /\ \A i \in Index, g \in Nat :
         PidAt(i, g) \in Pid /\ PidAt(i, g).index = i /\ PidAt(i, g).generation = g
    /\ \A p \in Pid : p.index \in Index /\ p.generation \in Nat /\ p = PidAt(p.index, p.generation)
    /\ Target \subseteq Pid
    /\ None \notin Pid /\ OutOfRange \notin Pid /\ OutOfRange # None /\ OutOfRange.index \notin Index
    BY SchedulerAssumption, SMTT(60) DEF Pid, PidAt, Target, OutOfRange, Index

\* A core in ring 3, or about to block, has a current process that is running.
LEMMA CurrentLemma ==
    ASSUME SchedulerInv, NEW c \in Core, pc[c] \in {"user", "block"}
    PROVE  /\ current[c] # None /\ current[c] \in Pid /\ current[c].index \in Index
           /\ Occupied(current[c]) /\ state[current[c].index] = "Running"
<1>1. current[c] # None
    BY DEF SchedulerInv, CurrentInKernel, Where
<1>2. current[c] \in Pid
    BY <1>1 DEF SchedulerInv, TypeOK
<1>3. Occupied(current[c]) /\ state[current[c].index] = "Running"
    BY <1>1 DEF SchedulerInv, DispatchSafe
<1> QED BY <1>1, <1>2, <1>3, PidLemma


(***************************************************************************)
(* Summaries of the steps.                                                 *)
(***************************************************************************)

\* A step of core c that leaves the process table, the queue and the endpoints
\* alone and enters no position the invariant speaks of.
Quiet(c) ==
    /\ UNCHANGED <<slot, gen, state, parent, wait_waiter, pending_wake, ready, current, registered,
                   forgotten>>
    /\ \A d \in Core \ {c} : pc'[d] = pc[d] /\ arg'[d] = arg[d] /\ peer'[d] = peer[d]
                             /\ back'[d] = back[d] /\ outgoing'[d] = outgoing[d]
    /\ pc[c] \notin {"block", "wake"}
    /\ pc'[c] \notin {"block", "wake", "build", "create", "orphans"}
    /\ pc'[c] \in Killing => pc[c] \in Killing /\ arg'[c] = arg[c]
    /\ pc'[c] \in {"evict", "spin", "giveup"} => peer'[c] # None
    /\ pc'[c] \in {"user", "drop", "drain", "return", "build", "notify", "block"} => current[c] # None

\* The effect of popping the next process off queue q, the processes being in
\* states st, and leaving core c on its way to ring 3 or to its idle loop.
Dispatched(c, q, st) ==
    /\ ready' \in Seq(Pid) /\ Distinct(ready')
    /\ \/ \E n \in Elems(q) :
            /\ n \in Pid
            /\ Elems(ready') = Elems(q) \ {n}
            /\ current' = [current EXCEPT ![c] = n]
            /\ state' = [st EXCEPT ![n.index] = "Running"]
            /\ \E x \in {"drain", "drop", "user"} : pc' = [pc EXCEPT ![c] = x]
       \/ /\ Elems(q) = {} /\ Elems(ready') = {}
          /\ current' = [current EXCEPT ![c] = None]
          /\ state' = st
          /\ pc' = [pc EXCEPT ![c] = "abandon"]

\* switch_to_next_or_halt pops the head of the queue, if there is one.
LEMMA DispatchLemma ==
    ASSUME TypeOK, NEW c \in Core, NEW q \in Seq(Pid), Distinct(q), NEW st, NEW k, NEW dead,
           switch_to_next_or_halt(c, q, st, k, dead)
    PROVE  Dispatched(c, q, st)
<1>1. CASE q # <<>>
  <2>1. /\ ready' = Tail(q) /\ current' = [current EXCEPT ![c] = Head(q)]
        /\ state' = [st EXCEPT ![Head(q).index] = "Running"]
        /\ \E x \in {"drain", "drop", "user"} : pc' = [pc EXCEPT ![c] = x]
      BY <1>1 DEF switch_to_next_or_halt, switch_to
  <2> QED BY <1>1, <2>1, PopLemma DEF Dispatched
<1>2. CASE q = <<>>
  <2>1. Elems(q) = {} /\ Distinct(q)
      BY <1>2, SMTT(60) DEF Elems, Distinct
  <2> QED BY <1>2, <2>1 DEF Dispatched, switch_to_next_or_halt
<1> QED BY <1>1, <1>2

States == {"Gone", "Suspended", "Ready", "Running", "Blocked"}

\* Popping a queue of live, ready processes keeps dispatch safe: the process
\* that becomes current was ready, so it was current on no core.
LEMMA PopIsSafe ==
    ASSUME SchedulerInv, NEW c \in Core, NEW q \in Seq(Pid), NEW st \in [Index -> States],
           Distinct(q),
           \A p \in Elems(q) : Occupied(p) /\ st[p.index] = "Ready",
           \A d \in Core \ {c} : current[d] # None => st[current[d].index] = "Running",
           UNCHANGED <<slot, gen>>,
           Dispatched(c, q, st)
    PROVE  /\ DispatchSafe'
           /\ state' \in [Index -> States] /\ current' \in [Core -> Pid \union {None}]
           /\ \A i \in Index : state'[i] = st[i] \/ (st[i] = "Ready" /\ state'[i] = "Running")
           /\ \A d \in Core \ {c} : current'[d] = current[d]
           /\ \E x \in {"drain", "drop", "user", "abandon"} :
                pc' = [pc EXCEPT ![c] = x] /\ (x # "abandon" => current'[c] # None)
<1>a. /\ current \in [Core -> Pid \union {None}] /\ pc \in [Core -> PcValue]
      /\ \A d \in Core : current[d] # None => Occupied(current[d])
      /\ \A d, e \in Core : current[d] # None /\ current[d] = current[e] => d = e
    BY DEF SchedulerInv, TypeOK, DispatchSafe
<1>b. /\ \A p : Occupied(p)' <=> Occupied(p)
      /\ \A p \in Elems(q) : p \in Pid
    BY SMTT(60) DEF Occupied, Elems
<1>1. CASE \E n \in Elems(q) :
            /\ n \in Pid
            /\ Elems(ready') = Elems(q) \ {n}
            /\ current' = [current EXCEPT ![c] = n]
            /\ state' = [st EXCEPT ![n.index] = "Running"]
            /\ \E x \in {"drain", "drop", "user"} : pc' = [pc EXCEPT ![c] = x]
  <2>1. PICK n \in Elems(q) :
            /\ n \in Pid
            /\ Elems(ready') = Elems(q) \ {n}
            /\ current' = [current EXCEPT ![c] = n]
            /\ state' = [st EXCEPT ![n.index] = "Running"]
            /\ \E x \in {"drain", "drop", "user"} : pc' = [pc EXCEPT ![c] = x]
      BY <1>1
  <2>2. n \in Pid /\ n.index \in Index /\ n # None /\ st[n.index] = "Ready" /\ Occupied(n)
      BY <2>1, PidLemma, ZenonT(60)
  <2>3. ASSUME NEW p \in Elems(ready') PROVE Occupied(p)' /\ state'[p.index] = "Ready"
    <3>1. p \in Elems(q) /\ p # n /\ p \in Pid /\ Occupied(p) /\ st[p.index] = "Ready"
        BY <2>1, <1>b
    <3>2. p.index # n.index
        BY <2>2, <3>1, PidLemma, SMTT(60) DEF Occupied
    <3> QED BY <1>b, <2>1, <2>2, <3>1, <3>2, PidLemma, SMTT(60)
  <2>4. ASSUME NEW d \in Core, current'[d] # None
        PROVE  (Occupied(current[d]) /\ state[current[d].index] = "Running")'
    <3>1. CASE d = c
      <4>1. current'[d] = n
          BY <1>a, <2>1, <3>1
      <4> QED BY <1>b, <2>1, <2>2, <4>1
    <3>2. CASE d # c
      <4>1. current'[d] = current[d] /\ current[d] \in Pid /\ current[d].index \in Index
          BY <1>a, <2>1, <2>4, <3>2, PidLemma, SMTT(60)
      <4>2. Occupied(current[d]) /\ st[current[d].index] = "Running"
          BY <1>a, <2>4, <3>2, <4>1
      <4> QED BY <1>b, <2>1, <2>2, <4>1, <4>2
    <3> QED BY <3>1, <3>2
  <2>5. ASSUME NEW d \in Core, NEW e \in Core, current'[d] # None, current'[d] = current'[e]
        PROVE  d = e
    <3>1. \A x \in Core \ {c} : current'[x] = current[x] /\ current'[x] # n
        BY <1>a, <2>1, <2>2
    <3>2. current'[c] = n
        BY <1>a, <2>1
    <3> QED BY <1>a, <2>5, <3>1, <3>2, ZenonT(60)
  <2>7. DispatchSafe'
      BY <2>3, <2>4, <2>5 DEF DispatchSafe, Queued, Dispatched
  <2> QED BY <1>a, <2>1, <2>2, <2>7 DEF States
<1>2. CASE /\ Elems(q) = {} /\ Elems(ready') = {}
           /\ current' = [current EXCEPT ![c] = None]
           /\ state' = st
           /\ pc' = [pc EXCEPT ![c] = "abandon"]
  <2>1. DispatchSafe'
      BY <1>a, <1>b, <1>2 DEF Dispatched, DispatchSafe, Queued
  <2> QED BY <1>a, <1>2, <2>1 DEF States
<1> QED BY <1>1, <1>2 DEF Dispatched

\* An exiting core, done with wake_orphaned_receivers, dispatches.
ExitDispatch(c) ==
    /\ pc[c] = "orphans" /\ outgoing[c] # None
    /\ switch_to_next_or_halt(c, ready, state, stack[c], drops[c])
    /\ UNCHANGED <<tableVars, killVars, drops, outgoing, stack_busy, wakeVars, ipcVars, bootVars>>

\* The effect of a step that gives the core another process, or none, and
\* changes no process's state but those of the two.
Redispatch(c) ==
    /\ UNCHANGED <<slot, gen, parent, registered, forgotten, back, arg, peer>>
    /\ DispatchSafe'
    /\ ready' \in Seq(Pid)
    /\ state' \in [Index -> States] /\ current' \in [Core -> Pid \union {None}]
    /\ \A d \in Core \ {c} : current'[d] = current[d] /\ outgoing'[d] = outgoing[d]
    /\ \E x \in {"drain", "drop", "user", "abandon"} :
         pc' = [pc EXCEPT ![c] = x] /\ (x # "abandon" => current'[c] # None)
    /\ \A i \in Index : state'[i] = "Suspended" <=> state[i] = "Suspended"

\* Such a step by which no process blocks.
PureDispatch(c) ==
    /\ Redispatch(c)
    /\ pc[c] \in {"idle", "user", "orphans"}
    /\ UNCHANGED <<wait_waiter, pending_wake>>
    /\ \A i \in Index : state'[i] = "Blocked" <=> state[i] = "Blocked"

\* Such a step by which the current process blocks, unless its wake is pending.
BlockDispatch(c) ==
    /\ Redispatch(c)
    /\ pc[c] \in {"user", "block"} /\ current[c] \in Pid
    /\ pending_wake' = [pending_wake EXCEPT ![current[c].index] = FALSE]
    /\ state'[current[c].index] = "Blocked" <=> ~pending_wake[current[c].index]
    /\ \A i \in Index \ {current[c].index} : state'[i] = "Blocked" <=> state[i] = "Blocked"

\* Every dispatch other than a block is pure.
LEMMA PureDispatchLemma ==
    ASSUME SchedulerInv, NEW c \in Core,
           IdleDispatch(c) \/ on_timer_tick(c) \/ ExitDispatch(c) \/ on_reschedule_ipi_evicts(c)
    PROVE  PureDispatch(c)
<1>a. /\ ready \in Seq(Pid) /\ Distinct(ready) /\ state \in [Index -> States]
      /\ \A p \in Elems(ready) : p \in Pid /\ Occupied(p) /\ state[p.index] = "Ready"
      /\ \A d \in Core : current[d] # None =>
           current[d] \in Pid /\ Occupied(current[d]) /\ state[current[d].index] = "Running"
      /\ \A d, e \in Core : current[d] # None /\ current[d] = current[e] => d = e
      /\ \A d \in Core : pc[d] = "user" => current[d] # None
    BY PidLemma, SMTT(60) DEF SchedulerInv, TypeOK, DispatchSafe, Queued, States, CurrentInKernel, Where, Elems
<1>b. outgoing \in [Core -> Pid \union {None}]
    BY DEF SchedulerInv, TypeOK
<1>1. CASE IdleDispatch(c)
  <2>1. Dispatched(c, ready, state)
    <3>1. Head(ready) \in Elems(ready) /\ Head(ready) \in Pid /\ Distinct(Tail(ready))
          /\ Elems(Tail(ready)) = Elems(ready) \ {Head(ready)} /\ Tail(ready) \in Seq(Pid)
        BY <1>1, <1>a, PopLemma DEF IdleDispatch
    <3> QED BY <1>1, <3>1 DEF IdleDispatch, switch_to, Dispatched
  <2>2. UNCHANGED <<slot, gen>>
      BY <1>1 DEF IdleDispatch, tableVars
  <2>4. /\ DispatchSafe'
        /\ state' \in [Index -> States] /\ current' \in [Core -> Pid \union {None}]
        /\ \A i \in Index : state'[i] = state[i] \/ (state[i] = "Ready" /\ state'[i] = "Running")
        /\ \A d \in Core \ {c} : current'[d] = current[d]
        /\ \E x \in {"drain", "drop", "user", "abandon"} :
             pc' = [pc EXCEPT ![c] = x] /\ (x # "abandon" => current'[c] # None)
      BY <1>a, <2>1, <2>2, PopIsSafe
  <2>3. Redispatch(c) /\ \A i \in Index : state'[i] = "Blocked" <=> state[i] = "Blocked"
      BY <1>a, <1>1, <2>1, <2>4 DEF Redispatch, Dispatched, IdleDispatch, tableVars, killVars, exitVars, ipcVars
  <2> QED BY <1>1, <2>3 DEF PureDispatch, IdleDispatch, tableVars, wakeVars
<1>2. CASE on_timer_tick(c)
  <2> DEFINE p == current[c]
             q == Append(ready, p)
             st == [state EXCEPT ![p.index] = "Ready"]
  <2>1. p \in Pid /\ p.index \in Index /\ p \notin Elems(ready) /\ Occupied(p)
        /\ state[p.index] = "Running"
      BY <1>2, <1>a, PidLemma DEF on_timer_tick
  <2>2. q \in Seq(Pid) /\ Distinct(q) /\ Elems(q) = Elems(ready) \union {p} /\ q # <<>>
      BY <1>a, <2>1, PushLemma
  <2>3. Head(q) \in Elems(q) /\ Head(q) \in Pid /\ Tail(q) \in Seq(Pid) /\ Distinct(Tail(q))
        /\ Elems(Tail(q)) = Elems(q) \ {Head(q)}
      BY <2>2, PopLemma
  <2>4. ready' = Tail(q) /\ switch_to(c, Head(q), st) /\ pc' = [pc EXCEPT ![c] = "drain"]
      BY <1>2 DEF on_timer_tick
  <2>5. UNCHANGED <<slot, gen>> /\ st \in [Index -> States]
      BY <1>a, <1>2, <2>1 DEF on_timer_tick, tableVars, States
  <2>6. /\ \A x \in Elems(q) : Occupied(x) /\ st[x.index] = "Ready"
        /\ \A d \in Core \ {c} : current[d] # None => st[current[d].index] = "Running"
      BY <1>a, <2>1, <2>2, PidLemma, SMTT(60) DEF Occupied
  <2> HIDE DEF q, st
  <2>7. Dispatched(c, q, st)
      BY <2>2, <2>3, <2>4 DEF switch_to, Dispatched
  <2>8. \A i \in Index : (st[i] = "Blocked" <=> state[i] = "Blocked")
                         /\ (st[i] = "Suspended" <=> state[i] = "Suspended")
      BY <1>a, <2>1 DEF st
  <2>10. /\ DispatchSafe'
         /\ state' \in [Index -> States] /\ current' \in [Core -> Pid \union {None}]
         /\ \A i \in Index : state'[i] = st[i] \/ (st[i] = "Ready" /\ state'[i] = "Running")
         /\ \A d \in Core \ {c} : current'[d] = current[d]
         /\ \E x \in {"drain", "drop", "user", "abandon"} :
              pc' = [pc EXCEPT ![c] = x] /\ (x # "abandon" => current'[c] # None)
      BY <2>2, <2>5, <2>6, <2>7, PopIsSafe
  <2>9. Redispatch(c) /\ \A i \in Index : state'[i] = "Blocked" <=> state[i] = "Blocked"
      BY <1>2, <2>3, <2>4, <2>8, <2>10 DEF Redispatch, on_timer_tick, tableVars, killVars, exitVars, ipcVars
  <2> QED BY <1>2, <2>9 DEF PureDispatch, on_timer_tick, tableVars, wakeVars
<1>3. ASSUME NEW k, NEW dead, switch_to_next_or_halt(c, ready, state, k, dead),
             UNCHANGED <<slot, gen>>
      PROVE  /\ DispatchSafe' /\ ready' \in Seq(Pid)
             /\ state' \in [Index -> States] /\ current' \in [Core -> Pid \union {None}]
             /\ \A d \in Core \ {c} : current'[d] = current[d]
             /\ \E x \in {"drain", "drop", "user", "abandon"} :
                  pc' = [pc EXCEPT ![c] = x] /\ (x # "abandon" => current'[c] # None)
             /\ \A i \in Index : (state'[i] = "Blocked" <=> state[i] = "Blocked")
                                 /\ (state'[i] = "Suspended" <=> state[i] = "Suspended")
  <2>1. Dispatched(c, ready, state)
      BY <1>3, <1>a, DispatchLemma DEF SchedulerInv
  <2> QED BY <1>3, <1>a, <2>1, PopIsSafe, SMTT(60) DEF Dispatched
<1>4. CASE ExitDispatch(c)
    BY <1>3, <1>4 DEF PureDispatch, Redispatch, ExitDispatch, tableVars, killVars, wakeVars, ipcVars
<1>5. CASE on_reschedule_ipi_evicts(c)
    BY <1>b, <1>3, <1>5 DEF PureDispatch, Redispatch, on_reschedule_ipi_evicts, tableVars, killVars, wakeVars, ipcVars
<1> QED BY <1>1, <1>2, <1>4, <1>5

\* block_current_process and a waiting SYS_WAIT are such blocks.
LEMMA BlockDispatchLemma ==
    ASSUME SchedulerInv, NEW c \in Core, block_current_process(c) \/ wait_blocks(c)
    PROVE  BlockDispatch(c)
<1> DEFINE p == current[c]
           woken == pending_wake[p.index]
           q == IF woken THEN Append(ready, p) ELSE ready
           st == [state EXCEPT ![p.index] = IF woken THEN "Ready" ELSE "Blocked"]
<1>1. /\ ready \in Seq(Pid) /\ Distinct(ready) /\ state \in [Index -> States]
      /\ \A x \in Elems(ready) : x \in Pid /\ Occupied(x) /\ state[x.index] = "Ready"
      /\ \A d \in Core : current[d] # None =>
           current[d] \in Pid /\ Occupied(current[d]) /\ state[current[d].index] = "Running"
      /\ \A d, e \in Core : current[d] # None /\ current[d] = current[e] => d = e
      /\ \A d \in Core : pc[d] \in {"user", "block"} => current[d] # None
    BY PidLemma, SMTT(60) DEF SchedulerInv, TypeOK, DispatchSafe, Queued, States, CurrentInKernel, Where, Elems
<1>2. /\ pc[c] \in {"user", "block"}
      /\ BlockAndSwitch(c)
      /\ UNCHANGED <<slot, gen, parent, registered, forgotten, back, arg, peer, outgoing>>
    BY DEF block_current_process, wait_blocks, tableVars, killVars, exitVars, ipcVars
<1>3. p \in Pid /\ p.index \in Index /\ p \notin Elems(ready) /\ Occupied(p)
      /\ state[p.index] = "Running"
    BY <1>1, <1>2, PidLemma
<1>4. woken \in BOOLEAN
    BY <1>3 DEF SchedulerInv, TypeOK
<1>5. q \in Seq(Pid) /\ Distinct(q) /\ Elems(q) = IF woken THEN Elems(ready) \union {p} ELSE Elems(ready)
    BY <1>1, <1>3, PushLemma
<1>6. st \in [Index -> States]
    BY <1>1, <1>3 DEF States
<1>7. /\ \A x \in Elems(q) : Occupied(x) /\ st[x.index] = "Ready"
      /\ \A d \in Core \ {c} : current[d] # None => st[current[d].index] = "Running"
    BY <1>1, <1>3, <1>5, PidLemma, SMTT(60) DEF Occupied
<1>8. /\ st[p.index] = IF woken THEN "Ready" ELSE "Blocked"
      /\ \A i \in Index \ {p.index} : st[i] = state[i]
    BY <1>1, <1>3
<1>9. pending_wake' = [pending_wake EXCEPT ![p.index] = FALSE]
      /\ switch_to_next_or_halt(c, q, st, p.index, {})
    BY <1>2 DEF BlockAndSwitch
<1> HIDE DEF q, st
<1>10. Dispatched(c, q, st)
    BY <1>5, <1>9, DispatchLemma DEF SchedulerInv
<1>11. /\ DispatchSafe'
       /\ state' \in [Index -> States] /\ current' \in [Core -> Pid \union {None}]
       /\ \A i \in Index : state'[i] = st[i] \/ (st[i] = "Ready" /\ state'[i] = "Running")
       /\ \A d \in Core \ {c} : current'[d] = current[d]
       /\ \E x \in {"drain", "drop", "user", "abandon"} :
            pc' = [pc EXCEPT ![c] = x] /\ (x # "abandon" => current'[c] # None)
    BY <1>2, <1>5, <1>6, <1>7, <1>10, PopIsSafe
<1>12. Redispatch(c)
  <2>1. UNCHANGED <<slot, gen, parent, registered, forgotten, back, arg, peer, outgoing>>
      BY <1>2
  <2>2. ready' \in Seq(Pid)
      BY <1>10 DEF Dispatched
  <2>3. \A i \in Index : state'[i] = "Suspended" <=> state[i] = "Suspended"
    <3>1. \A i \in Index : st[i] = "Suspended" <=> state[i] = "Suspended"
        BY <1>3, <1>8
    <3> QED BY <1>11, <3>1
  <2>4. \A d \in Core \ {c} : current'[d] = current[d] /\ outgoing'[d] = outgoing[d]
      BY <1>11, <2>1
  <2> QED BY <1>11, <2>1, <2>2, <2>3, <2>4 DEF Redispatch
<1> QED BY <1>2, <1>3, <1>4, <1>8, <1>9, <1>11, <1>12 DEF BlockDispatch

\* The effect of a step of core c that finalizes process p: its own, or the
\* target of its kill.
Finalized(c, p) ==
    /\ p \in Pid /\ Occupied(p)
    /\ \/ pc[c] = "user" /\ current[c] = p /\ outgoing'[c] = p
       \/ /\ pc[c] = "scan" /\ arg[c] = p /\ outgoing'[c] = outgoing[c]
          /\ \A d \in Core : current[d] # p
    /\ pc' = [pc EXCEPT ![c] = "orphans"]
    /\ UNCHANGED <<gen, registered, forgotten, back, peer>>
    /\ \A d \in Core \ {c} : arg'[d] = arg[d] /\ outgoing'[d] = outgoing[d]
    /\ current' = [d \in Core |-> IF current[d] = p THEN None ELSE current[d]]
    /\ \A j \in Dying(p) :
         /\ slot'[j] = IF wait_waiter[j] = None /\ parent[j] # None THEN "Zombie" ELSE "Empty"
         /\ state'[j] = "Gone" /\ wait_waiter'[j] = None /\ ~pending_wake'[j]
         /\ slot'[j] = "Zombie" => parent'[j] = parent[j]
    /\ \A j \in Index \ Dying(p) :
         /\ slot'[j] = IF slot[j] = "Zombie" /\ parent[j] = p THEN "Empty" ELSE slot[j]
         /\ slot'[j] # "Empty" => parent'[j] = IF parent[j] = p THEN None ELSE parent[j]
         /\ wait_waiter'[j] = wait_waiter[j] /\ pending_wake'[j] = pending_wake[j]
         /\ state'[j] = IF /\ wait_waiter[p.index] = PidAt(j, gen[j])
                           /\ slot[j] = "Occupied" /\ state[j] = "Blocked"
                        THEN "Ready" ELSE state[j]

\* The slots that die with p: its own and those of its suspended children.
LEMMA DyingLemma ==
    ASSUME SchedulerInv, NEW p \in Pid, Occupied(p)
    PROVE  /\ Dying(p) \subseteq Index /\ p.index \in Dying(p)
           /\ \A j \in Dying(p) : slot[j] = "Occupied"
           /\ \A j \in Dying(p) : j = p.index \/ (parent[j] = p /\ state[j] = "Suspended")
    BY PidLemma DEF Dying, OrphanedSuspended, Occupied

\* An exit and a kill each finalize one live process.
LEMMA FinalizeLemma ==
    ASSUME SchedulerInv, NEW c \in Core, KillFinalize(c) \/ terminate_current_process(c)
    PROVE  \E p \in Pid : Finalized(c, p) /\ take_and_finalize_slot(p)
<1>1. \E p \in Pid :
        /\ Occupied(p) /\ take_and_finalize_slot(p)
        /\ \/ pc[c] = "user" /\ current[c] = p /\ outgoing'[c] = p
           \/ /\ pc[c] = "scan" /\ arg[c] = p /\ outgoing'[c] = outgoing[c]
              /\ \A d \in Core : current[d] # p
        /\ pc' = [pc EXCEPT ![c] = "orphans"]
        /\ UNCHANGED <<registered, forgotten, back, peer>>
        /\ \A d \in Core \ {c} : arg'[d] = arg[d] /\ outgoing'[d] = outgoing[d]
  <2>1. CASE KillFinalize(c)
    <3>1. arg[c] \in Pid /\ arg \in [Core -> Pid \union {None, OutOfRange}]
        BY <2>1 DEF KillFinalize, SchedulerInv, ArgIsPid, Killing, TypeOK
    <3>2. Occupied(arg[c])
        BY <2>1, <3>1, PidLemma DEF KillFinalize, SchedulerInv, KillHitsTarget, Killing, Occupied
    <3> QED BY <2>1, <3>1, <3>2 DEF KillFinalize, ipcVars
  <2>2. CASE terminate_current_process(c)
    <3>1. current[c] \in Pid /\ Occupied(current[c]) /\ outgoing \in [Core -> Pid \union {None}]
        BY <2>2, SMTT(60) DEF terminate_current_process, SchedulerInv, CurrentInKernel, Where, DispatchSafe, TypeOK
    <3> QED BY <2>2, <3>1 DEF terminate_current_process, ipcVars, killVars
  <2> QED BY <2>1, <2>2
<1>2. PICK p \in Pid :
        /\ Occupied(p) /\ take_and_finalize_slot(p)
        /\ \/ pc[c] = "user" /\ current[c] = p /\ outgoing'[c] = p
           \/ /\ pc[c] = "scan" /\ arg[c] = p /\ outgoing'[c] = outgoing[c]
              /\ \A d \in Core : current[d] # p
        /\ pc' = [pc EXCEPT ![c] = "orphans"]
        /\ UNCHANGED <<registered, forgotten, back, peer>>
        /\ \A d \in Core \ {c} : arg'[d] = arg[d] /\ outgoing'[d] = outgoing[d]
    BY <1>1
<1> DEFINE w == wait_waiter[p.index]
           live == w # None /\ Occupied(w)
           wakes == live /\ state[w.index] = "Blocked"
<1>3. /\ Dying(p) \subseteq Index /\ p.index \in Dying(p) /\ p.index \in Index
      /\ \A j \in Dying(p) : j = p.index \/ state[j] = "Suspended"
    BY <1>2, DyingLemma, PidLemma
<1>4. /\ live => wakes
      /\ live => w \in Pid /\ w.index \in Index /\ w.index # p.index /\ w = PidAt(w.index, gen[w.index])
                 /\ slot[w.index] = "Occupied"
  <2>1. ASSUME live
        PROVE  w \in Pid /\ w.index # p.index /\ state[w.index] = "Blocked"
    <3>1. wait_waiter \in [Index -> Pid \union {None}] /\ WaiterIsBlocked
        BY DEF SchedulerInv, TypeOK
    <3> QED BY <1>3, <2>1, <3>1, SMTT(60) DEF WaiterIsBlocked
  <2>2. ASSUME live PROVE w.index \in Index /\ gen[w.index] = w.generation /\ slot[w.index] = "Occupied"
      BY <2>2 DEF Occupied
  <2>3. live => w = PidAt(w.index, gen[w.index])
      BY <2>1, <2>2, PidLemma, SMTT(60)
  <2> QED BY <2>1, <2>2, <2>3
<1>5. /\ slot' = FinalSlot(p) /\ parent' = FinalParent(p) /\ gen' = gen
      /\ wait_waiter' = [j \in Index |-> IF j \in Dying(p) THEN None ELSE wait_waiter[j]]
      /\ state' = [j \in Index |-> IF j \in Dying(p) THEN "Gone"
                                   ELSE IF wakes /\ j = w.index THEN "Ready" ELSE state[j]]
      /\ pending_wake' = [j \in Index |-> j \notin Dying(p)
                            /\ (pending_wake[j] \/ (live /\ ~wakes /\ j = w.index))]
      /\ current' = [d \in Core |-> IF current[d] = p THEN None ELSE current[d]]
    BY <1>2 DEF take_and_finalize_slot
<1>6. pending_wake \in [Index -> BOOLEAN]
    BY DEF SchedulerInv, TypeOK
<1> HIDE DEF w, live, wakes
<1>7. ASSUME NEW j \in Dying(p)
      PROVE  /\ slot'[j] = IF wait_waiter[j] = None /\ parent[j] # None THEN "Zombie" ELSE "Empty"
             /\ state'[j] = "Gone" /\ wait_waiter'[j] = None /\ ~pending_wake'[j]
             /\ slot'[j] = "Zombie" => parent'[j] = parent[j]
    BY <1>3, <1>5 DEF FinalSlot, FinalParent
<1>8. ASSUME NEW j \in Index \ Dying(p)
      PROVE  /\ slot'[j] = IF slot[j] = "Zombie" /\ parent[j] = p THEN "Empty" ELSE slot[j]
             /\ slot'[j] # "Empty" => parent'[j] = IF parent[j] = p THEN None ELSE parent[j]
             /\ wait_waiter'[j] = wait_waiter[j]
    BY <1>3, <1>5 DEF FinalSlot, FinalParent
<1>9. ASSUME NEW j \in Index \ Dying(p)
      PROVE  pending_wake'[j] = pending_wake[j]
    BY <1>4, <1>5, <1>6
<1>10. ASSUME NEW j \in Index \ Dying(p)
       PROVE  state'[j] = IF /\ wait_waiter[p.index] = PidAt(j, gen[j])
                             /\ slot[j] = "Occupied" /\ state[j] = "Blocked"
                          THEN "Ready" ELSE state[j]
  <2>1. (wakes /\ j = w.index) <=> (w = PidAt(j, gen[j]) /\ slot[j] = "Occupied" /\ state[j] = "Blocked")
    <3>1. gen[j] \in Nat
        BY DEF SchedulerInv, TypeOK
    <3>2. ASSUME w = PidAt(j, gen[j]), slot[j] = "Occupied", state[j] = "Blocked" PROVE wakes /\ j = w.index
        BY <3>1, <3>2, PidLemma, SMTT(60) DEF wakes, live, Occupied
    <3>3. ASSUME wakes, j = w.index PROVE w = PidAt(j, gen[j]) /\ slot[j] = "Occupied" /\ state[j] = "Blocked"
        BY <1>4, <3>3 DEF wakes
    <3> QED BY <3>2, <3>3
  <2> QED BY <1>5, <2>1 DEF w
<1>11. Finalized(c, p)
    BY <1>2, <1>5, <1>7, <1>8, <1>9, <1>10 DEF Finalized
<1> QED BY <1>2, <1>11

\* Finalizing a process keeps dispatch safe: it leaves the queue and its core,
\* and the waiter it wakes was in neither.
LEMMA FinalizeIsSafe ==
    ASSUME SchedulerInv, NEW c \in Core, NEW p \in Pid, Finalized(c, p), take_and_finalize_slot(p)
    PROVE  DispatchSafe' /\ ready' \in Seq(Pid)
<1> DEFINE w == wait_waiter[p.index]
           wakes == (w # None /\ Occupied(w)) /\ state[w.index] = "Blocked"
           q == WithoutPid(ready, p)
<1>1. /\ ready \in Seq(Pid) /\ Distinct(ready)
      /\ \A x \in Elems(ready) : x \in Pid /\ Occupied(x) /\ state[x.index] = "Ready"
      /\ current \in [Core -> Pid \union {None}]
      /\ \A d \in Core : current[d] # None =>
           current[d] \in Pid /\ Occupied(current[d]) /\ state[current[d].index] = "Running"
      /\ \A d, e \in Core : current[d] # None /\ current[d] = current[e] => d = e
    BY PidLemma, SMTT(60) DEF SchedulerInv, TypeOK, DispatchSafe, Queued, Elems
<1>2. q \in Seq(Pid) /\ Distinct(q) /\ Elems(q) = Elems(ready) \ {p}
    BY <1>1, RemoveLemma
<1>3. wakes => w \in Pid /\ w # p /\ w \notin Elems(ready)
    BY <1>1, PidLemma, SMTT(60) DEF SchedulerInv, TypeOK, WaiterIsBlocked
<1>4. ready' = IF wakes THEN Append(q, w) ELSE q
    BY DEF take_and_finalize_slot
<1>5. /\ Dying(p) \subseteq Index /\ p.index \in Dying(p)
      /\ \A j \in Dying(p) : j = p.index \/ state[j] = "Suspended"
      /\ Occupied(p)
    BY DyingLemma, SMTT(60) DEF Finalized
<1>6. ASSUME NEW x \in Pid, Occupied(x), x # p, state[x.index] # "Suspended"
      PROVE  Occupied(x)' /\ x.index \in Index \ Dying(p)
  <2>1. x.index \in Index \ Dying(p)
    <3>1. x.index \in Index /\ x.index # p.index
      <4>1. gen[x.index] = x.generation /\ gen[p.index] = p.generation /\ x.index \in Index
          BY <1>5, <1>6 DEF Occupied
      <4>2. x = PidAt(x.index, x.generation) /\ p = PidAt(p.index, p.generation)
          BY PidLemma
      <4> QED BY <1>6, <4>1, <4>2
    <3> QED BY <1>5, <1>6, <3>1
  <2> QED BY <1>6, <2>1 DEF Finalized, Occupied
<1>7. wakes => state'[w.index] = "Ready"
  <2>1. state' = [j \in Index |-> IF j \in Dying(p) THEN "Gone"
                                 ELSE IF wakes /\ j = w.index THEN "Ready" ELSE state[j]]
      BY DEF take_and_finalize_slot
  <2>2. wakes => w.index \in Index \ Dying(p)
      BY <1>3, <1>6
  <2> HIDE DEF wakes, w
  <2> QED BY <2>1, <2>2
<1>8. wakes => Occupied(w) /\ state[w.index] = "Blocked"
    OBVIOUS
<1>9. /\ ready' \in Seq(Pid) /\ Distinct(ready')
      /\ Elems(ready') = IF wakes THEN (Elems(ready) \ {p}) \union {w} ELSE Elems(ready) \ {p}
    BY <1>2, <1>3, <1>4, PushLemma
<1> HIDE DEF wakes, q
<1>10. ASSUME NEW x \in Elems(ready') PROVE Occupied(x)' /\ state'[x.index] = "Ready"
  <2>1. CASE wakes /\ x = w
      BY <1>3, <1>6, <1>7, <1>8, <2>1
  <2>2. CASE x \in Elems(ready) /\ x # p
    <3>1. Occupied(x)' /\ x.index \in Index \ Dying(p)
        BY <1>1, <1>6, <2>2
    <3>2. state[x.index] = "Ready"
        BY <1>1, <2>2
    <3>3. state'[x.index] = IF /\ wait_waiter[p.index] = PidAt(x.index, gen[x.index])
                               /\ slot[x.index] = "Occupied" /\ state[x.index] = "Blocked"
                            THEN "Ready" ELSE state[x.index]
        BY <3>1 DEF Finalized
    <3> QED BY <3>1, <3>2, <3>3
  <2> QED BY <1>9, <2>1, <2>2
<1>11. ASSUME NEW d \in Core, current'[d] # None
       PROVE (Occupied(current[d]) /\ state[current[d].index] = "Running")'
  <2>1. current'[d] = current[d] /\ current[d] # p /\ current[d] # None
      BY <1>11 DEF Finalized
  <2>2. Occupied(current[d])' /\ current[d].index \in Index \ Dying(p)
      BY <1>1, <1>6, <2>1
  <2> QED BY <1>1, <2>1, <2>2, SMTT(60) DEF Finalized
<1>12. \A d, e \in Core : current'[d] # None /\ current'[d] = current'[e] => d = e
  <2>1. \A d \in Core : current'[d] # None => current'[d] = current[d]
      BY DEF Finalized
  <2> QED BY <1>1, <2>1, ZenonT(60)
<1> QED BY <1>9, <1>10, <1>11, <1>12 DEF DispatchSafe, Queued

\* What a core does in one step.
Step(c) == KernelStep(c) \/ Interrupt(c) \/ Request(c)

\* allocate_pid, for SYS_SPAWN or at boot.
Allocates(c) ==
    /\ allocate_pid(c)
    /\ \/ pc[c] = "user" /\ pc' = [pc EXCEPT ![c] = "build"]
          /\ stack' = [stack EXCEPT ![c] = current[c].index]
       \/ pc[c] = "boot" /\ pc' = [pc EXCEPT ![c] = "create"] /\ UNCHANGED stack

\* The nineteen steps the invariant depends on.
Loud(c) ==
    \/ IdleDispatch(c) \/ on_timer_tick(c) \/ ExitDispatch(c) \/ on_reschedule_ipi_evicts(c)
    \/ block_current_process(c) \/ wait_blocks(c) \/ wait_reaps(c)
    \/ RegisterWaiter(c) \/ TakeWaiter(c) \/ wake_blocked_process(c) \/ wake_receiver_fails(c)
    \/ Allocates(c) \/ release_reservation(c) \/ spawn_suspended(c) \/ spawn(c) \/ start_child(c)
    \/ KillCheck(c) \/ KillFinalize(c) \/ terminate_current_process(c)

\* Every step is quiet or loud.
LEMMA StepCases ==
    ASSUME SchedulerInv, NEW c \in Core, Step(c)
    PROVE  Quiet(c) \/ Loud(c)
<1> USE DEF SchedulerInv, TypeOK, CurrentInKernel, ArgIsPid, Quiet, Where, Killing, PcValue,
            ReturnToUser, tableVars, dispatchVars, flowVars, killVars, exitVars, wakeVars, ipcVars,
            bootVars
<1>1. CASE DropPending(c)
    BY <1>1 DEF DropPending
<1>2. CASE ClearStackBusy(c)
    BY <1>2 DEF ClearStackBusy
<1>3. CASE Resume(c)
    BY <1>3 DEF Resume
<1>4. CASE Abandoned(c)
    BY <1>4 DEF Abandoned
<1>5. CASE IdleNothingReady(c)
    BY <1>5 DEF IdleNothingReady, Halt
<1>6. CASE ParkCheck(c)
    BY <1>6 DEF ParkCheck
<1>7. CASE ParkAnnounce(c)
    BY <1>7 DEF ParkAnnounce
<1>8. CASE ParkRecheck(c)
    BY <1>8 DEF ParkRecheck
<1>9. CASE TrapFrameFault(c)
    BY <1>9 DEF TrapFrameFault, Building
<1>10. CASE StartNotify(c)
    BY <1>10 DEF StartNotify
<1>11. CASE KillScanFound(c)
    BY <1>11, SchedulerAssumption, SMTT(60) DEF KillScanFound
<1>12. CASE KillAlreadyGone(c)
    BY <1>12 DEF KillAlreadyGone
<1>13. CASE KillSendEvict(c)
    BY <1>13 DEF KillSendEvict
<1>14. CASE KillSpinDone(c)
    BY <1>14 DEF KillSpinDone
<1>15. CASE KillWithdraw(c)
    BY <1>15 DEF KillWithdraw
<1>16. CASE KillTimeout(c)
    BY <1>16 DEF KillTimeout
<1>17. CASE Ring0Timer(c)
    BY <1>17 DEF Ring0Timer
<1>18. CASE Ring0Reschedule(c)
    BY <1>18 DEF Ring0Reschedule
<1>19. CASE on_reschedule_ipi_ignores(c)
    BY <1>19 DEF on_reschedule_ipi_ignores
<1>20. CASE OrphansDone(c)
    BY <1>20, SMTT(60) DEF OrphansDone, Loud, ExitDispatch
<1>21. CASE SpawnNotify(c)
    BY <1>21 DEF SpawnNotify
<1>22. CASE start(c)
    BY <1>22 DEF start
<1>23. CASE sys_spawn(c) \/ boot_allocates(c)
    BY <1>23 DEF sys_spawn, boot_allocates, Allocates, Loud
<1>24. CASE ring3_timer_tick(c) \/ on_syscall_yield(c)
    BY <1>24 DEF ring3_timer_tick, on_syscall_yield, Loud
<1> QED BY <1>1, <1>2, <1>3, <1>4, <1>5, <1>6, <1>7, <1>8, <1>9, <1>10, <1>11, <1>12, <1>13, <1>14, <1>15, <1>16, <1>17, <1>18, <1>19, <1>20, <1>21, <1>22, <1>23, <1>24 DEF Step, KernelStep, Interrupt, Request, Loud

\* Every step keeps the variables in their types.
LEMMA TypeStep ==
    ASSUME SchedulerInv, NEW c \in Core, Step(c)
    PROVE  TypeOK'
<1>a. TypeOK
    BY DEF SchedulerInv
<1>b. /\ pc[c] = "user" => current[c] \in Pid /\ current[c].index \in Index
      /\ pc[c] \in Killing \union {"wake"} => arg[c] \in Pid /\ arg[c].index \in Index
  <2>1. pc[c] = "user" => current[c] \in Pid /\ current[c].index \in Index
      BY CurrentLemma
  <2>2. pc[c] \in Killing \union {"wake"} => arg[c] \in Pid
      BY DEF SchedulerInv, ArgIsPid
  <2> QED BY <2>1, <2>2, PidLemma
<1> USE DEF PcValue, tableVars, dispatchVars, flowVars, killVars, exitVars, wakeVars, ipcVars, bootVars
<1>1. CASE DropPending(c)
    BY <1>a, <1>1, PidLemma DEF DropPending, TypeOK
<1>2. CASE ClearStackBusy(c)
    BY <1>a, <1>2, PidLemma DEF ClearStackBusy, TypeOK, SchedulerInv, ArgIsPid, Killing
<1>3. CASE Resume(c)
    BY <1>a, <1>3, PidLemma DEF Resume, TypeOK
<1>4. CASE Abandoned(c)
    BY <1>a, <1>4, PidLemma DEF Abandoned, TypeOK
<1>5. CASE IdleNothingReady(c)
    BY <1>a, <1>5, PidLemma DEF IdleNothingReady, TypeOK, Halt
<1>6. CASE ParkCheck(c)
    BY <1>a, <1>6, PidLemma DEF ParkCheck, TypeOK
<1>7. CASE ParkAnnounce(c)
    BY <1>a, <1>7, PidLemma DEF ParkAnnounce, TypeOK
<1>8. CASE ParkRecheck(c)
    BY <1>a, <1>8, PidLemma DEF ParkRecheck, TypeOK
<1>9. CASE TrapFrameFault(c)
    BY <1>a, <1>9, PidLemma DEF TrapFrameFault, TypeOK
<1>10. CASE StartNotify(c)
    BY <1>a, <1>10, PidLemma DEF StartNotify, TypeOK, ReturnToUser, notify_idle_cores
<1>11. CASE KillScanFound(c)
  <2>1. peer' \in [Core -> Core \union {None}] /\ pc' \in [Core -> PcValue]
      BY <1>a, <1>11, ZenonT(60) DEF KillScanFound, TypeOK
  <2>2. UNCHANGED <<tableVars, dispatchVars, stack, halts, arg, evict_request, exitVars, wakeVars, ipcVars, bootVars>>
      BY <1>11 DEF KillScanFound
  <2> QED BY <1>a, <2>1, <2>2 DEF TypeOK
<1>12. CASE KillAlreadyGone(c)
    BY <1>a, <1>12, PidLemma DEF KillAlreadyGone, TypeOK, ReturnToUser
<1>13. CASE KillSendEvict(c)
    BY <1>a, <1>13, PidLemma DEF KillSendEvict, TypeOK, SchedulerInv, ArgIsPid, Killing
<1>14. CASE KillSpinDone(c)
    BY <1>a, <1>14, PidLemma DEF KillSpinDone, TypeOK, SchedulerInv, ArgIsPid, Killing
<1>15. CASE KillWithdraw(c)
    BY <1>a, <1>15, PidLemma DEF KillWithdraw, TypeOK, SchedulerInv, ArgIsPid, Killing
<1>16. CASE KillTimeout(c)
    BY <1>a, <1>16, PidLemma DEF KillTimeout, TypeOK
<1>17. CASE Ring0Timer(c)
    BY <1>a, <1>17, PidLemma DEF Ring0Timer, TypeOK
<1>18. CASE Ring0Reschedule(c)
    BY <1>a, <1>18, PidLemma DEF Ring0Reschedule, TypeOK
<1>19. CASE on_reschedule_ipi_ignores(c)
    BY <1>a, <1>19, PidLemma DEF on_reschedule_ipi_ignores, TypeOK
<1>20. CASE wait_reaps(c)
    BY <1>a, <1>20, PidLemma, SMTT(60) DEF wait_reaps, TypeOK
<1>21. CASE RegisterWaiter(c)
    BY <1>a, <1>b, <1>21 DEF RegisterWaiter, TypeOK
<1>22. CASE TakeWaiter(c)
    BY <1>a, <1>b, <1>22, ZenonT(60) DEF TakeWaiter, TypeOK
<1>23. CASE wake_blocked_process(c)
  <2>1. arg[c] \in Pid /\ arg[c].index \in Index
      BY <1>b, <1>23 DEF wake_blocked_process
  <2>2. ready' = ready \/ ready' = Append(ready, arg[c])
      BY <1>23 DEF wake_blocked_process
  <2>0. /\ ready \in Seq(Pid) /\ state \in [Index -> States]
        /\ pending_wake \in [Index -> BOOLEAN] /\ ipi \in [Core -> BOOLEAN] /\ idle \in [Core -> BOOLEAN]
      BY <1>a DEF TypeOK, States
  <2>3. ready' \in Seq(Pid)
      BY <2>0, <2>1, <2>2, SMTT(60)
  <2>4. /\ state' = state \/ state' = [state EXCEPT ![arg[c].index] = "Ready"]
        /\ pending_wake' = pending_wake \/ pending_wake' = [pending_wake EXCEPT ![arg[c].index] = TRUE]
        /\ ipi' = ipi \/ ipi' = notify_idle_cores
    <3>1. state' = state \/ state' = [state EXCEPT ![arg[c].index] = "Ready"]
        BY <1>23 DEF wake_blocked_process
    <3>2. pending_wake' = pending_wake \/ pending_wake' = [pending_wake EXCEPT ![arg[c].index] = TRUE]
        BY <1>23 DEF wake_blocked_process
    <3>3. ipi' = ipi \/ ipi' = notify_idle_cores
        BY <1>23 DEF wake_blocked_process
    <3> QED BY <3>1, <3>2, <3>3
  <2>5. state' \in [Index -> States] /\ pending_wake' \in [Index -> BOOLEAN] /\ ipi' \in [Core -> BOOLEAN]
    <3>1. state' \in [Index -> States]
        BY <2>0, <2>1, <2>4 DEF States
    <3>2. pending_wake' \in [Index -> BOOLEAN]
        BY <2>0, <2>1, <2>4
    <3>3. ipi' \in [Core -> BOOLEAN]
        BY <2>0, <2>4 DEF notify_idle_cores
    <3> QED BY <3>1, <3>2, <3>3
  <2>6. /\ pc' = [pc EXCEPT ![c] = back[c]] /\ back' = [back EXCEPT ![c] = "user"]
        /\ stack' = [stack EXCEPT ![c] = IF back[c] = "user" THEN None ELSE @]
        /\ arg' = [arg EXCEPT ![c] = None]
        /\ UNCHANGED <<tableVars, current, cr3, halts, peer, evict_request, exitVars, idle, registered, forgotten,
                       bootVars>>
      BY <1>23 DEF wake_blocked_process, AfterWake
  <2>7. /\ pc' \in [Core -> PcValue] /\ stack' \in [Core -> Index \union {None}]
        /\ arg' \in [Core -> Pid \union {None, OutOfRange}]
        /\ back' \in [Core -> {"user", "orphans", "drain", "idle", "boot"}]
      BY <1>a, <2>6 DEF TypeOK
  <2> QED BY <1>a, <2>3, <2>5, <2>6, <2>7 DEF TypeOK, States
<1>24. CASE release_reservation(c)
    BY <1>a, <1>24, PidLemma DEF release_reservation, TypeOK, ReturnToUser
<1>25. CASE spawn_suspended(c)
    BY <1>a, <1>25, PidLemma DEF spawn_suspended, TypeOK, ReturnToUser
<1>26. CASE start_child(c)
  <2>1. PICK t \in Target : /\ state' = [state EXCEPT ![t.index] = "Ready"]
                            /\ ready' = Append(ready, t)
      BY <1>26 DEF start_child
  <2>2. /\ pc' = [pc EXCEPT ![c] = "notify"] /\ stack' = [stack EXCEPT ![c] = current[c].index]
        /\ UNCHANGED <<tableVars, current, cr3, halts, killVars, exitVars, wakeVars, ipcVars, bootVars>>
      BY <1>26 DEF start_child
  <2>3. current[c].index \in Index
      BY <1>26, CurrentLemma DEF start_child
  <2>4. state' \in [Index -> States]
      BY <1>a, <2>1 DEF TypeOK, States
  <2>5. ready' \in Seq(Pid)
    <3>1. t \in Pid /\ ready \in Seq(Pid)
        BY <1>a, PidLemma DEF TypeOK
    <3> QED BY <2>1, <3>1, SMTT(60)
  <2>6. pc' \in [Core -> PcValue] /\ stack' \in [Core -> Index \union {None}]
      BY <1>a, <2>2, <2>3 DEF TypeOK, PcValue
  <2> QED BY <1>a, <2>2, <2>4, <2>5, <2>6 DEF TypeOK, States
<1>27. CASE KillCheck(c)
  <2>1. PICK t \in Target : arg' = [arg EXCEPT ![c] = t]
      BY <1>27 DEF KillCheck
  <2>2. /\ pc' = [pc EXCEPT ![c] = "scan"] /\ stack' = [stack EXCEPT ![c] = current[c].index]
        /\ UNCHANGED <<tableVars, dispatchVars, halts, peer, evict_request, exitVars, wakeVars, ipcVars, bootVars>>
      BY <1>27 DEF KillCheck
  <2>3. current[c].index \in Index /\ t \in Pid
      BY <1>b, <1>27, PidLemma DEF KillCheck
  <2>4. /\ arg' \in [Core -> Pid \union {None, OutOfRange}]
        /\ pc' \in [Core -> PcValue] /\ stack' \in [Core -> Index \union {None}]
      BY <1>a, <2>1, <2>2, <2>3 DEF TypeOK
  <2> QED BY <1>a, <2>2, <2>4 DEF TypeOK
<1>28. CASE Allocates(c)
  <2>1. pc' \in [Core -> PcValue] /\ stack' \in [Core -> Index \union {None}]
      BY <1>a, <1>b, <1>28 DEF Allocates, TypeOK
  <2>2. \A i \in Index : gen[i] + 1 \in Nat
      BY <1>a, SMTT(60) DEF TypeOK
  <2>3. gen' \in [Index -> Nat] /\ slot' \in [Index -> {"Empty", "Reserved", "Occupied", "Zombie"}]
        /\ arg' \in [Core -> Pid \union {None, OutOfRange}]
    <3>1. ASSUME NEW i \in Index, gen' = [gen EXCEPT ![i] = @ + 1], slot' = [slot EXCEPT ![i] = "Reserved"],
                 arg' = [arg EXCEPT ![c] = PidAt(i, gen[i] + 1)]
          PROVE  gen' \in [Index -> Nat] /\ slot' \in [Index -> {"Empty", "Reserved", "Occupied", "Zombie"}]
                 /\ arg' \in [Core -> Pid \union {None, OutOfRange}]
      <4>1. PidAt(i, gen[i] + 1) \in Pid
          BY <2>2, PidLemma
      <4> QED BY <1>a, <2>2, <3>1, <4>1 DEF TypeOK
    <3>2. ASSUME arg' = [arg EXCEPT ![c] = OutOfRange], UNCHANGED <<gen, slot>>
          PROVE  gen' \in [Index -> Nat] /\ slot' \in [Index -> {"Empty", "Reserved", "Occupied", "Zombie"}]
                 /\ arg' \in [Core -> Pid \union {None, OutOfRange}]
        BY <1>a, <3>2 DEF TypeOK
    <3> QED BY <1>28, <3>1, <3>2 DEF Allocates, allocate_pid
  <2> QED BY <1>a, <1>28, <2>1, <2>3 DEF Allocates, allocate_pid, TypeOK
<1>29. ASSUME Redispatch(c) PROVE pc' \in [Core -> PcValue] /\ current'[c] \in Pid \union {None}
  <2>1. current' \in [Core -> Pid \union {None}]
        /\ \E x \in {"drain", "drop", "user", "abandon"} : pc' = [pc EXCEPT ![c] = x]
      BY <1>29 DEF Redispatch
  <2>2. pc \in [Core -> PcValue]
      BY <1>a DEF TypeOK
  <2> QED BY <2>1, <2>2
<1>30. CASE IdleDispatch(c)
  <2>1. Redispatch(c)
      BY <1>30, PureDispatchLemma DEF PureDispatch
  <2>2. cr3' = [cr3 EXCEPT ![c] = current'[c]]
      BY <1>a, <1>30 DEF IdleDispatch, switch_to, TypeOK
  <2>3. /\ ready' \in Seq(Pid) /\ state' \in [Index -> States] /\ current' \in [Core -> Pid \union {None}]
        /\ pc' \in [Core -> PcValue] /\ current'[c] \in Pid \union {None}
      BY <1>29, <2>1 DEF Redispatch
  <2>4. cr3' \in [Core -> Pid \union {None}]
      BY <1>a, <2>2, <2>3 DEF TypeOK
  <2>5. UNCHANGED <<tableVars, stack, halts, killVars, exitVars, wakeVars, ipcVars, bootVars>>
      BY <1>30 DEF IdleDispatch
  <2> QED BY <1>a, <2>3, <2>4, <2>5 DEF TypeOK, States
<1>31. CASE on_timer_tick(c)
  <2>1. Redispatch(c)
      BY <1>31, PureDispatchLemma DEF PureDispatch
  <2>2. cr3' = [cr3 EXCEPT ![c] = current'[c]]
      BY <1>a, <1>31 DEF on_timer_tick, switch_to, TypeOK
  <2>3. current[c].index \in Index
      BY <1>31, CurrentLemma DEF on_timer_tick
  <2>4. /\ ready' \in Seq(Pid) /\ state' \in [Index -> States] /\ current' \in [Core -> Pid \union {None}]
        /\ pc' \in [Core -> PcValue] /\ current'[c] \in Pid \union {None}
      BY <1>29, <2>1 DEF Redispatch
  <2>5. stack' = [stack EXCEPT ![c] = current[c].index]
        /\ UNCHANGED <<tableVars, halts, killVars, exitVars, wakeVars, ipcVars, bootVars>>
      BY <1>31 DEF on_timer_tick
  <2>6. cr3' \in [Core -> Pid \union {None}] /\ stack' \in [Core -> Index \union {None}]
      BY <1>a, <2>2, <2>3, <2>4, <2>5 DEF TypeOK
  <2> QED BY <1>a, <2>4, <2>5, <2>6 DEF TypeOK, States
<1>32. ASSUME NEW q, NEW st, NEW k \in Index \union {None}, NEW dead, switch_to_next_or_halt(c, q, st, k, dead)
       PROVE  /\ current'[c] \in Pid \union {None} => cr3' \in [Core -> Pid \union {None}]
              /\ stack' \in [Core -> Index \union {None}] /\ halts' \in [Core -> BOOLEAN]
  <2>1. cr3' = [cr3 EXCEPT ![c] = current'[c]]
      BY <1>a, <1>32 DEF switch_to_next_or_halt, switch_to, TypeOK
  <2>2. /\ stack' = [stack EXCEPT ![c] = k] \/ stack' = [stack EXCEPT ![c] = None]
        /\ halts' = halts \/ halts' = [halts EXCEPT ![c] = TRUE]
      BY <1>32 DEF switch_to_next_or_halt
  <2>3. cr3 \in [Core -> Pid \union {None}] /\ stack \in [Core -> Index \union {None}]
        /\ halts \in [Core -> BOOLEAN]
      BY <1>a DEF TypeOK
  <2>4. stack' \in [Core -> Index \union {None}]
      BY <1>32, <2>2, <2>3
  <2>5. halts' \in [Core -> BOOLEAN]
      BY <2>2, <2>3
  <2>6. current'[c] \in Pid \union {None} => cr3' \in [Core -> Pid \union {None}]
      BY <2>1, <2>3
  <2> QED BY <2>4, <2>5, <2>6
<1>33. CASE ExitDispatch(c)
  <2>1. Redispatch(c)
      BY <1>33, PureDispatchLemma DEF PureDispatch
  <2>2. stack[c] \in Index \union {None} /\ switch_to_next_or_halt(c, ready, state, stack[c], drops[c])
      BY <1>a, <1>33 DEF ExitDispatch, TypeOK
  <2>3. /\ cr3' \in [Core -> Pid \union {None}]
        /\ stack' \in [Core -> Index \union {None}] /\ halts' \in [Core -> BOOLEAN]
      BY <1>29, <1>32, <2>1, <2>2
  <2>4. UNCHANGED <<tableVars, killVars, drops, outgoing, stack_busy, wakeVars, ipcVars, bootVars>>
      BY <1>33 DEF ExitDispatch
  <2>5. ready' \in Seq(Pid) /\ state' \in [Index -> States] /\ current' \in [Core -> Pid \union {None}]
        /\ pc' \in [Core -> PcValue]
      BY <1>29, <2>1 DEF Redispatch
  <2> QED BY <1>a, <2>3, <2>4, <2>5 DEF TypeOK, States
<1>34. CASE OrphansDone(c)
  <2>1. CASE outgoing[c] = None
    <3>1. /\ drops' = [drops EXCEPT ![c] = {}] /\ ReturnToUser(c)
          /\ UNCHANGED <<dispatchVars, halts, tableVars, peer, evict_request, outgoing, stack_busy, wakeVars, ipcVars, bootVars>>
        BY <1>34, <2>1 DEF OrphansDone
    <3> QED BY <1>a, <3>1 DEF ReturnToUser, TypeOK
  <2>2. CASE outgoing[c] # None
      BY <1>33, <1>34, <2>2 DEF OrphansDone, ExitDispatch
  <2> QED BY <2>1, <2>2
<1>35. CASE on_reschedule_ipi_evicts(c)
  <2>1. Redispatch(c)
      BY <1>35, PureDispatchLemma DEF PureDispatch
  <2>2. current[c] \in Pid /\ current[c].index \in Index
      BY <1>35, CurrentLemma DEF on_reschedule_ipi_evicts
  <2>3. /\ cr3' \in [Core -> Pid \union {None}]
        /\ stack' \in [Core -> Index \union {None}] /\ halts' \in [Core -> BOOLEAN]
      BY <1>29, <1>32, <1>35, <2>1, <2>2 DEF on_reschedule_ipi_evicts
  <2>4. stack_busy' \in [Index -> BOOLEAN] /\ outgoing' \in [Core -> Pid \union {None}]
        /\ evict_request' \in [Core -> Pid \union {None}] /\ ipi' \in [Core -> BOOLEAN]
      BY <1>a, <1>35, <2>2 DEF on_reschedule_ipi_evicts, TypeOK
  <2>5. UNCHANGED <<tableVars, arg, peer, drops, pending_wake, idle, ipcVars, spawned>>
        /\ unacked' \in [Core -> BOOLEAN]
      BY <1>a, <1>35 DEF on_reschedule_ipi_evicts, TypeOK
  <2>6. ready' \in Seq(Pid) /\ state' \in [Index -> States] /\ current' \in [Core -> Pid \union {None}]
        /\ pc' \in [Core -> PcValue]
      BY <1>29, <2>1 DEF Redispatch
  <2> QED BY <1>a, <2>3, <2>4, <2>5, <2>6 DEF TypeOK, States
<1>36. CASE block_current_process(c) \/ wait_blocks(c)
  <2>1. Redispatch(c) /\ current[c] \in Pid /\ current[c].index \in Index
        /\ pending_wake' = [pending_wake EXCEPT ![current[c].index] = FALSE]
      BY <1>36, BlockDispatchLemma, PidLemma DEF BlockDispatch
  <2>2. BlockAndSwitch(c)
      BY <1>36 DEF block_current_process, wait_blocks
  <2>3. /\ cr3' \in [Core -> Pid \union {None}]
        /\ stack' \in [Core -> Index \union {None}] /\ halts' \in [Core -> BOOLEAN]
      BY <1>29, <1>32, <2>1, <2>2 DEF BlockAndSwitch
  <2>4. ipi' \in [Core -> BOOLEAN]
      BY <1>a, <2>2 DEF BlockAndSwitch, notify_idle_cores, TypeOK
  <2>5. wait_waiter' \in [Index -> Pid \union {None}]
      BY <1>a, <1>36, <2>1 DEF block_current_process, wait_blocks, TypeOK
  <2>6. UNCHANGED <<slot, gen, parent, killVars, exitVars, idle, ipcVars, bootVars>>
      BY <1>36 DEF block_current_process, wait_blocks
  <2>7. ready' \in Seq(Pid) /\ state' \in [Index -> States] /\ current' \in [Core -> Pid \union {None}]
        /\ pc' \in [Core -> PcValue]
      BY <1>29, <2>1 DEF Redispatch
  <2>8. pending_wake' \in [Index -> BOOLEAN]
      BY <1>a, <2>1 DEF TypeOK
  <2> QED BY <1>a, <2>3, <2>4, <2>5, <2>6, <2>7, <2>8 DEF TypeOK, States
<1>37. CASE KillFinalize(c) \/ terminate_current_process(c)
  <2>1. PICK p \in Pid : Finalized(c, p) /\ take_and_finalize_slot(p)
      BY <1>37, FinalizeLemma
  <2>2. ready' \in Seq(Pid)
      BY <2>1, FinalizeIsSafe
  <2>3. Dying(p) \subseteq Index /\ p.index \in Index
      BY <2>1, DyingLemma, PidLemma DEF Finalized
  <2>4. slot' \in [Index -> {"Empty", "Reserved", "Occupied", "Zombie"}]
        /\ parent' \in [Index -> Pid \union {None}]
      BY <1>a, <2>1 DEF take_and_finalize_slot, FinalSlot, FinalParent, TypeOK
  <2>5. state' \in [Index -> States] /\ wait_waiter' \in [Index -> Pid \union {None}]
        /\ pending_wake' \in [Index -> BOOLEAN]
      BY <1>a, <2>1 DEF take_and_finalize_slot, TypeOK, States
  <2>6. current' \in [Core -> Pid \union {None}] /\ pc' \in [Core -> PcValue]
        /\ UNCHANGED <<gen, registered, forgotten, back, peer>>
      BY <1>a, <2>1 DEF Finalized, TypeOK
  <2>7. ipi' \in [Core -> BOOLEAN]
      BY <1>a, <2>1 DEF take_and_finalize_slot, notify_idle_cores, TypeOK
  <2>8. ASSUME NEW x \in Pid PROVE {PidAt(j, gen[j]) : j \in Dying(x)} \in SUBSET Pid
      BY <1>a, PidLemma, SMTT(60) DEF TypeOK, Dying, OrphanedSuspended
  <2>9. drops' \in [Core -> SUBSET Pid] /\ stack_busy' \in [Index -> BOOLEAN]
        /\ outgoing' \in [Core -> Pid \union {None}] /\ stack' \in [Core -> Index \union {None}]
        /\ arg' \in [Core -> Pid \union {None, OutOfRange}] /\ UNCHANGED <<cr3, halts, evict_request, idle, bootVars>>
    <3>1. CASE KillFinalize(c)
      <4>1. arg[c] \in Pid
          BY <3>1 DEF KillFinalize, SchedulerInv, ArgIsPid, Killing
      <4> QED BY <1>a, <2>8, <3>1, <4>1 DEF KillFinalize, TypeOK
    <3>2. CASE terminate_current_process(c)
      <4>1. current[c] \in Pid /\ current[c].index \in Index
          BY <3>2, CurrentLemma DEF terminate_current_process
      <4> QED BY <1>a, <2>8, <3>2, <4>1 DEF terminate_current_process, TypeOK
    <3> QED BY <1>37, <3>1, <3>2
  <2> QED BY <1>a, <2>2, <2>4, <2>5, <2>6, <2>7, <2>9 DEF TypeOK, States
<1>38. CASE spawn(c)
  <2>1. arg[c] \in Pid /\ arg[c].index \in Index
      BY <1>a, <1>38, PidLemma DEF spawn, TypeOK, SchedulerInv, ArgIsPid, Building
  <2>2. ready' \in Seq(Pid) /\ spawned' \in Nat
      BY <1>a, <1>38, <2>1, SMTT(60) DEF spawn, TypeOK
  <2> QED BY <1>a, <1>38, <2>1, <2>2 DEF spawn, TypeOK
<1>39. CASE SpawnNotify(c)
    BY <1>a, <1>39 DEF SpawnNotify, TypeOK, notify_idle_cores
<1>40. CASE start(c)
    BY <1>a, <1>40 DEF start, TypeOK
<1>41. CASE wake_receiver_fails(c)
  <2>1. arg[c] \in Pid
      BY <1>b, <1>41 DEF wake_receiver_fails
  <2>2. registered' \subseteq Pid /\ forgotten' \subseteq Pid
      BY <1>a, <1>41, <2>1 DEF wake_receiver_fails, TypeOK
  <2> QED BY <1>a, <1>41, <2>2 DEF wake_receiver_fails, AfterWake, TypeOK
<1>42. CASE sys_spawn(c) \/ boot_allocates(c)
    BY <1>28, <1>42 DEF sys_spawn, boot_allocates, Allocates
<1>43. CASE ring3_timer_tick(c) \/ on_syscall_yield(c)
    BY <1>31, <1>43 DEF ring3_timer_tick, on_syscall_yield
<1> QED BY <1>1, <1>2, <1>3, <1>4, <1>5, <1>6, <1>7, <1>8, <1>9, <1>10, <1>11, <1>12, <1>13, <1>14, <1>15, <1>16, <1>17, <1>18, <1>19, <1>20, <1>21, <1>22, <1>23, <1>24, <1>25, <1>26, <1>27, <1>30, <1>34, <1>35, <1>36, <1>37,
    <1>38, <1>39, <1>40, <1>41, <1>42, <1>43
    DEF Step, KernelStep, Interrupt, Request

\* What the steps do to the state the invariant is about.
Shape(c) ==
    \/ Quiet(c)
    \/ PureDispatch(c)
    \/ block_current_process(c) /\ BlockDispatch(c)
    \/ wait_blocks(c) /\ BlockDispatch(c)
    \/ wait_reaps(c) \/ RegisterWaiter(c) \/ TakeWaiter(c) \/ wake_blocked_process(c)
    \/ wake_receiver_fails(c)
    \/ Allocates(c) \/ release_reservation(c) \/ spawn_suspended(c) \/ spawn(c) \/ start_child(c)
    \/ KillCheck(c)
    \/ \E p \in Pid : Finalized(c, p) /\ take_and_finalize_slot(p)

\* Every step has one of these shapes.
LEMMA StepShapes ==
    ASSUME SchedulerInv, NEW c \in Core, Step(c)
    PROVE  Shape(c)
    BY StepCases, PureDispatchLemma, BlockDispatchLemma, FinalizeLemma DEF Loud, Shape

==============================================================================
