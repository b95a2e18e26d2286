------------------------------ MODULE Executor ------------------------------
(***************************************************************************)
(* The task executor of kernel/src/task/executor.rs over the ring buffer   *)
(* it queues woken tasks in. READY_QUEUE is locked for one push or pop, so *)
(* these are single steps; EXECUTOR stays locked for a whole drain, and    *)
(* the core that holds it is `executor`. What a poll does is up to the     *)
(* task: modules that EXTEND this one say when a poll ends.                *)
(***************************************************************************)
EXTENDS RingBuffer, FiniteSets

CONSTANT Cores

VARIABLES
    tasks,        \* the keys of Executor.tasks
    overflowed,   \* OVERFLOWED
    executor,     \* the core that holds EXECUTOR, or None
    sweep,        \* tasks still to poll after an overflow; None in an ordinary drain
    polling       \* the task in poll_task, or None

execVars == <<tasks, overflowed, executor, sweep, polling>>

\* Boot has spawned the tasks of `ts` and nothing has been polled.
ExecutorInit(ts) ==
    /\ tasks = ts
    /\ overflowed = FALSE
    /\ executor = None
    /\ sweep = None
    /\ polling = None

\* Mutant of wake_task: the overflow is not remembered.
WakeForgetsOverflow(t) == push(t) /\ UNCHANGED overflowed

wake_task(t) ==
    /\ push(t)
    /\ overflowed' = (overflowed \/ ~answer')

\* spawn's two critical sections. The second ignores a full queue.
spawn_insert(t) ==
    /\ executor = None
    /\ tasks' = tasks \union {t}
    /\ UNCHANGED <<overflowed, executor, sweep, polling>>

spawn_push(t) == push(t) /\ UNCHANGED execVars

\* EXECUTOR.lock() succeeds and OVERFLOWED.swap(false) picks the kind of drain.
run_ready_tasks(c) ==
    /\ executor = None
    /\ executor' = c
    /\ overflowed' = FALSE
    /\ sweep' = IF overflowed THEN tasks ELSE None
    /\ UNCHANGED <<tasks, polling, ringVars>>

Release == executor' = None /\ sweep' = None /\ UNCHANGED <<tasks, overflowed, polling>>

\* The next id of the sweep (the map's order is left open).
SweepNext ==
    /\ executor # None /\ polling = None /\ sweep # None
    /\ \E t \in sweep :
        /\ sweep' = sweep \ {t}
        /\ polling' = t
        /\ UNCHANGED <<tasks, overflowed, executor, ringVars>>

SweepDone ==
    /\ executor # None /\ polling = None /\ sweep = {}
    /\ Release
    /\ UNCHANGED ringVars

\* READY_QUEUE.lock().pop() and the lookup of poll_task: an id whose task is
\* gone is skipped, an empty queue ends the drain.
PopNext ==
    /\ executor # None /\ polling = None /\ sweep = None
    /\ pop
    /\ \/ answer' = None /\ Release
       \/ /\ answer' # None
          /\ polling' = IF answer' \in tasks THEN answer' ELSE None
          /\ UNCHANGED <<tasks, overflowed, executor, sweep>>

\* The poll returns; a finished task is removed with its waker.
PollEnds(ready) ==
    /\ polling' = None
    /\ tasks' = IF ready THEN tasks \ {polling} ELSE tasks
    /\ UNCHANGED <<overflowed, executor, sweep>>

\* A poll of t is certain to follow: its id is queued, or lost to an overflow that
\* is remembered, or still to come in this sweep.
WillBePolled(t) ==
    \/ \E k \in 1..len : Queued[k] = t
    \/ overflowed
    \/ sweep # None /\ t \in sweep
============================================================================
