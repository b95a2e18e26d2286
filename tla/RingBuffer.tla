----------------------------- MODULE RingBuffer -----------------------------
(***************************************************************************)
(* RingBuffer<T, N> of libs/tarnos-kcore/src/ring.rs: the queue behind the *)
(* scheduler's ready queue, the executor's task queue and the endpoints'   *)
(* waiting senders. Every user holds its own lock around a call, so an     *)
(* operation is one step.                                                  *)
(***************************************************************************)
EXTENDS Integers, Sequences

CONSTANTS
    Value,     \* T
    N,         \* capacity
    None       \* Option::None

ASSUME RingAssumption == N \in Nat \ {0} /\ None \notin Value /\ Value \cap BOOLEAN = {}

VARIABLES
    buffer,    \* [Option<T>; N]
    head,
    len,
    answer     \* what the last operation returned

ringVars == <<buffer, head, len, answer>>

new ==
    /\ buffer = [i \in 0..(N - 1) |-> None]
    /\ head = 0
    /\ len = 0
    /\ answer = None

\* Mutant of Wrap: the index runs one past the array before it wraps.
WrapLate(i) == IF i > N THEN i - N - 1 ELSE IF i = N THEN N - 1 ELSE i

Wrap(i) == i % N

push(v) ==
    IF len = N
    THEN answer' = FALSE /\ UNCHANGED <<buffer, head, len>>
    ELSE /\ buffer' = [buffer EXCEPT ![Wrap(head + len)] = v]
         /\ len' = len + 1
         /\ answer' = TRUE
         /\ UNCHANGED head

pop ==
    IF len = 0
    THEN answer' = None /\ UNCHANGED <<buffer, head, len>>
    ELSE /\ answer' = buffer[head]
         /\ buffer' = [buffer EXCEPT ![head] = None]
         /\ head' = Wrap(head + 1)
         /\ len' = len - 1

RingNext == (\E v \in Value : push(v)) \/ pop

RingSpec == new /\ [][RingNext]_ringVars

(***************************************************************************)
(* Properties.                                                             *)
(***************************************************************************)

\* head stays inside the array, len within the capacity.
RingTypeOK ==
    /\ buffer \in [0..(N - 1) -> Value \union {None}]
    /\ head \in 0..(N - 1)
    /\ len \in 0..N
    /\ answer \in Value \union BOOLEAN \union {None}

\* The array holds a value exactly at the len positions from head on, around
\* the end of the array: a popped value does not stay behind, and a push never
\* overwrites a value that is still queued.
WindowIsFull ==
    /\ \A k \in 0..(len - 1) : buffer[Wrap(head + k)] # None
    /\ \A k \in len..(N - 1) : buffer[Wrap(head + k)] = None

\* The inductive invariant of the refinement.
RingInv == RingTypeOK /\ WindowIsFull

\* The queued values in order.
Queued == [k \in 1..len |-> buffer[Wrap(head + k - 1)]]

Fifo == INSTANCE BoundedFifo WITH chan <- Queued

\* push and pop are those of a FIFO queue of N values: a value comes out once, in
\* the order of the pushes, and only a push onto a full queue is refused.
IsFifo == Fifo!Spec

\* The same for a buffer that does not start empty: every step of a user of the
\* buffer is one of the FIFO's or leaves it alone.
FifoSteps == [][Fifo!Next]_<<Queued, answer>>
============================================================================
