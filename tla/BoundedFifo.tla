---------------------------- MODULE BoundedFifo ----------------------------
(***************************************************************************)
(* What a bounded queue promises its users: values come out in the order   *)
(* they went in, a push into a full queue is refused and changes nothing,  *)
(* a pop from an empty queue gives None and changes nothing.               *)
(***************************************************************************)
EXTENDS Integers, Sequences

CONSTANTS
    Value,     \* the values that can be queued
    N,         \* capacity
    None       \* pop's answer when there is nothing to give

VARIABLES
    chan,      \* the queued values, oldest first
    answer     \* what the last operation returned

Init == chan = <<>> /\ answer = None

Push(v) ==
    /\ Len(chan) < N
    /\ chan' = Append(chan, v)
    /\ answer' = TRUE

PushRefused ==
    /\ Len(chan) = N
    /\ answer' = FALSE
    /\ UNCHANGED chan

Pop ==
    /\ chan # <<>>
    /\ answer' = Head(chan)
    /\ chan' = Tail(chan)

PopEmpty ==
    /\ chan = <<>>
    /\ answer' = None
    /\ UNCHANGED chan

Next == (\E v \in Value : Push(v)) \/ PushRefused \/ Pop \/ PopEmpty

Spec == Init /\ [][Next]_<<chan, answer>>
============================================================================
