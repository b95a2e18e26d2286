------------------------------ MODULE Endpoint ------------------------------
(***************************************************************************)
(* One IPC endpoint: the rendezvous slot of libs/tarnos-kcore/src/         *)
(* endpoint.rs behind the spinlock of kernel/src/ipc/endpoint.rs, with the *)
(* processes (SYS_SEND, SYS_RECV) and kernel tasks (SendFuture,            *)
(* RecvFuture) that use it, and the deaths of processes.                   *)
(*                                                                         *)
(* The slot lock is released before a partner is woken, so the rest of an  *)
(* operation is a list of kernel steps, todo[a], that other actors         *)
(* interleave with. A process counts as blocked from the moment the slot   *)
(* records it: module Scheduler shows that a wake which comes before the   *)
(* process has really blocked is applied then, once.                       *)
(***************************************************************************)
EXTENDS Integers, Sequences, FiniteSets

CONSTANTS
    Proc,        \* processes
    Task,        \* kernel tasks
    Sender,      \* the actors that may send (Rights::SEND, for a process)
    Receivers,   \* the sets of actors that may receive (Rights::RECV), by instance
    Killable,    \* the processes that may die
    N,           \* capacity of the sender queue (MAX_PROCESSES)
    MaxSends,    \* bound of the model on the sends of an actor
    MaxTotal,    \* and on the sends of all actors
    Nobody       \* Waiter::None

Actor == Proc \union Task
Msg == Actor \X (1..MaxSends)

ASSUME EndpointAssumption ==
    /\ Proc \cap Task = {} /\ Nobody \notin Actor
    /\ Sender \subseteq Actor /\ Killable \subseteq Proc
    /\ \A r \in Receivers : r \subseteq Actor /\ r \cap Sender \cap Task = {}
    /\ N \in Nat \ {0} /\ MaxSends \in Nat /\ MaxTotal \in Nat

VARIABLES
    slot,        \* Slot
    receiver,    \* who may receive
    alive,       \* the processes in the process table
    status,      \* "run", or waiting in a send or a receive
    woken,       \* the tasks whose waker was called since their last poll
    todo,        \* what is left of the kernel operation an actor is in
    sent,        \* how many messages each actor has sent
    done,        \* the messages whose sender was told they were delivered
    got          \* the messages received and by whom, in order

vars == <<slot, receiver, alive, status, woken, todo, sent, done, got>>

Empty == [kind |-> "Empty"]
SendersWaiting(q) == [kind |-> "SendersWaiting", queue |-> q]
ReceiverWaiting(w) == [kind |-> "ReceiverWaiting", receiver |-> w]

Init ==
    /\ slot = Empty
    /\ receiver \in Receivers
    /\ alive = Proc
    /\ status = [a \in Actor |-> "run"]
    /\ woken = {}
    /\ todo = [a \in Actor |-> <<>>]
    /\ sent = [a \in Actor |-> 0]
    /\ done = {}
    /\ got = <<>>

(***************************************************************************)
(* The slot.                                                               *)
(***************************************************************************)

\* Mutants of SlotAfterSend: the sender of a message that was handed over is kept; a
\* message handed over is not queued.
SendKeepsSender(m, w) ==
    IF slot.kind # "SendersWaiting" THEN SendersWaiting(<<[msg |-> m, from |-> w]>>)
    ELSE IF Len(slot.queue) < N THEN SendersWaiting(Append(slot.queue, [msg |-> m, from |-> w]))
    ELSE slot

SendDropsMessage(m, w) ==
    IF slot.kind = "ReceiverWaiting" THEN Empty
    ELSE IF slot.kind = "Empty" THEN SendersWaiting(<<[msg |-> m, from |-> w]>>)
    ELSE IF Len(slot.queue) < N THEN SendersWaiting(Append(slot.queue, [msg |-> m, from |-> w]))
    ELSE slot

\* Slot::try_send: a message for the waiting receiver is queued with nobody to
\* wake, since its sender has its answer already.
SlotAfterSend(m, w) ==
    CASE slot.kind = "ReceiverWaiting" -> SendersWaiting(<<[msg |-> m, from |-> Nobody]>>)
      [] slot.kind = "Empty" -> SendersWaiting(<<[msg |-> m, from |-> w]>>)
      [] slot.kind = "SendersWaiting" ->
           IF Len(slot.queue) < N THEN SendersWaiting(Append(slot.queue, [msg |-> m, from |-> w]))
           ELSE slot

SendOutcome ==
    CASE slot.kind = "ReceiverWaiting" -> "Delivered"
      [] slot.kind = "Empty" -> "Enqueued"
      [] slot.kind = "SendersWaiting" -> IF Len(slot.queue) < N THEN "Enqueued" ELSE "QueueFull"

\* Mutants of SlotAfterRecv: the queue is dropped with its first message; the
\* message stays queued.
RecvDropsQueue(w) ==
    CASE slot.kind = "SendersWaiting" -> Empty
      [] slot.kind = "Empty" -> ReceiverWaiting(w)
      [] slot.kind = "ReceiverWaiting" -> slot

RecvKeepsMessage(w) == IF slot.kind = "Empty" THEN ReceiverWaiting(w) ELSE slot

\* Slot::try_recv takes the oldest message, or leaves the receiver waiting.
SlotAfterRecv(w) ==
    CASE slot.kind = "SendersWaiting" ->
           IF Len(slot.queue) = 1 THEN Empty ELSE SendersWaiting(Tail(slot.queue))
      [] slot.kind = "Empty" -> ReceiverWaiting(w)
      [] slot.kind = "ReceiverWaiting" -> slot

RecvOutcome ==
    CASE slot.kind = "SendersWaiting" -> "Delivered"
      [] slot.kind = "Empty" -> "Enqueued"
      [] slot.kind = "ReceiverWaiting" -> "QueueFull"

(***************************************************************************)
(* The steps left to do once the slot lock is released.                    *)
(***************************************************************************)
Deliver(r) == [op |-> "deliver", who |-> r]
Wake(x, why, m) == [op |-> "wake", who |-> x, why |-> why, msg |-> m]
Answer(m) == [op |-> "answer", msg |-> m]
Orphans == [op |-> "orphans"]
TakeReceiver == [op |-> "take"]

\* Mutant of wake_sender: the sender is not told.
WakeNoSender(e) == <<>>

wake_sender(e) == IF e.from = Nobody THEN <<>> ELSE <<Wake(e.from, "sent", e.msg)>>

\* a may start an operation: it is not waiting and not in the kernel.
Free(a) == status[a] = "run" /\ todo[a] = <<>> /\ a \in alive \union Task

\* SYS_SEND, or the first poll of a SendFuture. A process whose send finds the
\* queue full gets an error; a task polls again later with the same message.
try_send(a) ==
    /\ Free(a) /\ a \in Sender /\ sent[a] < MaxSends
    /\ Cardinality({m \in Msg : m[2] <= sent[m[1]]}) < MaxTotal
    /\ LET m == <<a, sent[a] + 1>>
       IN  /\ slot' = SlotAfterSend(m, a)
           /\ \/ /\ SendOutcome = "Delivered"
                 /\ todo' = [todo EXCEPT ![a] = <<Deliver(slot.receiver), Answer(m)>>]
                 /\ sent' = [sent EXCEPT ![a] = @ + 1]
                 /\ UNCHANGED status
              \/ /\ SendOutcome = "Enqueued"
                 /\ status' = [status EXCEPT ![a] = "sending"]
                 /\ sent' = [sent EXCEPT ![a] = @ + 1]
                 /\ UNCHANGED todo
              \/ /\ SendOutcome = "QueueFull"
                 /\ UNCHANGED <<todo, sent, status>>
    /\ UNCHANGED <<receiver, alive, woken, done, got>>

\* A SendFuture polled again: its message was taken.
poll_sent(t) ==
    /\ t \in Task \cap woken /\ status[t] = "sending" /\ todo[t] = <<>>
    /\ status' = [status EXCEPT ![t] = "run"]
    /\ woken' = woken \ {t}
    /\ done' = done \union {<<t, sent[t]>>}
    /\ UNCHANGED <<slot, receiver, alive, todo, sent, got>>

\* SYS_RECV. A second receiver gets an error.
try_recv(p) ==
    /\ Free(p) /\ p \in Proc \cap receiver
    /\ slot' = SlotAfterRecv(p)
    /\ \/ /\ RecvOutcome = "Delivered"
          /\ todo' = [todo EXCEPT ![p] = wake_sender(Head(slot.queue))]
          /\ got' = Append(got, [msg |-> Head(slot.queue).msg, by |-> p])
          /\ UNCHANGED status
       \/ /\ RecvOutcome = "Enqueued"
          /\ status' = [status EXCEPT ![p] = "receiving"]
          /\ UNCHANGED <<todo, got>>
       \/ /\ RecvOutcome = "QueueFull"
          /\ UNCHANGED <<todo, got, status>>
    /\ UNCHANGED <<receiver, alive, woken, sent, done>>

\* A poll of a RecvFuture. One that finds another receiver waiting wakes itself.
poll_recv(t) ==
    /\ t \in Task \cap receiver /\ todo[t] = <<>>
    /\ status[t] = "run" \/ (status[t] = "receiving" /\ t \in woken)
    /\ slot' = SlotAfterRecv(t)
    /\ \/ /\ RecvOutcome = "Delivered"
          /\ todo' = [todo EXCEPT ![t] = wake_sender(Head(slot.queue))]
          /\ got' = Append(got, [msg |-> Head(slot.queue).msg, by |-> t])
          /\ status' = [status EXCEPT ![t] = "run"]
          /\ woken' = woken \ {t}
       \/ /\ RecvOutcome = "Enqueued"
          /\ status' = [status EXCEPT ![t] = "receiving"]
          /\ woken' = woken \ {t}
          /\ UNCHANGED <<todo, got>>
       \/ /\ RecvOutcome = "QueueFull"
          /\ status' = [status EXCEPT ![t] = "receiving"]
          /\ woken' = woken \union {t}
          /\ UNCHANGED <<todo, got>>
    /\ UNCHANGED <<receiver, alive, sent, done>>

\* The next step of a's kernel operation is op; rest is what it leaves to do.
Step(a, op, rest) ==
    /\ todo[a] # <<>> /\ Head(todo[a]).op = op
    /\ todo' = [todo EXCEPT ![a] = rest \o Tail(todo[a])]

\* Endpoint::wake_receiver: a task is woken to poll again; for a process the
\* message is received here, in its name.
wake_receiver(a) ==
    /\ todo[a] # <<>> /\ Head(todo[a]).op = "deliver"
    /\ LET r == Head(todo[a]).who
           e == Head(slot.queue)
       IN  \/ /\ r \in Task
              /\ woken' = woken \union {r}
              /\ Step(a, "deliver", <<>>)
              /\ UNCHANGED slot
           \/ /\ r \in Proc
              /\ slot' = SlotAfterRecv(r)
              /\ Step(a, "deliver", IF RecvOutcome = "Delivered"
                                    THEN wake_sender(e) \o <<Wake(r, "message", e.msg)>> ELSE <<>>)
              /\ UNCHANGED woken
    /\ UNCHANGED <<receiver, alive, status, sent, done, got>>

\* wake_blocked_process, or a task's Waker::wake.
WakeStep(a) ==
    /\ Step(a, "wake", <<>>)
    /\ LET w == Head(todo[a])
       IN  \/ /\ w.who \in Task
              /\ woken' = woken \union {w.who}
              /\ UNCHANGED <<status, done, got>>
           \/ /\ w.who \in Proc \ alive
              /\ UNCHANGED <<woken, status, done, got>>
           \/ /\ w.who \in alive
              /\ status' = [status EXCEPT ![w.who] = "run"]
              /\ done' = IF w.why = "sent" THEN done \union {w.msg} ELSE done
              /\ got' = IF w.why = "message" THEN Append(got, [msg |-> w.msg, by |-> w.who]) ELSE got
              /\ UNCHANGED woken
    /\ UNCHANGED <<slot, receiver, alive, sent>>

\* The send returns: the sender learns that its message was delivered.
AnswerStep(a) ==
    /\ Step(a, "answer", <<>>)
    /\ done' = done \union {Head(todo[a]).msg}
    /\ UNCHANGED <<slot, receiver, alive, status, woken, sent, got>>

(***************************************************************************)
(* The death of a process, blocked or running in ring 3. What the kernel   *)
(* still does for it, on its own core or its killer's, is in todo[p].      *)
(***************************************************************************)
Die(p) ==
    /\ p \in alive \cap Killable /\ todo[p] = <<>>
    /\ alive' = alive \ {p}
    /\ todo' = [todo EXCEPT ![p] = <<Orphans>>]
    /\ UNCHANGED <<slot, receiver, status, woken, sent, done, got>>

\* Mutant of LastSender: the dying process still counts as a live sender.
LastSenderNever(p) == FALSE

\* wake_orphaned_receivers, first pass: p could send, no process left can.
LastSender(p) == p \in Sender /\ alive \cap Sender = {}

OrphansStep(p) ==
    /\ Step(p, "orphans", IF LastSender(p) THEN <<TakeReceiver>> ELSE <<>>)
    /\ UNCHANGED <<slot, receiver, alive, status, woken, sent, done, got>>

\* Second pass: take_waiting_process_receiver.
TakeStep(p) ==
    LET takes == slot.kind = "ReceiverWaiting" /\ slot.receiver \in Proc
    IN  /\ Step(p, "take", IF takes THEN <<Wake(slot.receiver, "closed", Nobody)>> ELSE <<>>)
        /\ slot' = IF takes THEN Empty ELSE slot
        /\ UNCHANGED <<receiver, alive, status, woken, sent, done, got>>

KernelStep(a) ==
    \/ wake_receiver(a) \/ WakeStep(a) \/ AnswerStep(a) \/ OrphansStep(a) \/ TakeStep(a)
    \/ poll_sent(a)

Next ==
    \/ \E a \in Actor : try_send(a) \/ try_recv(a) \/ poll_recv(a) \/ KernelStep(a)
    \/ \E p \in Proc : Die(p)

Spec == Init /\ [][Next]_vars

\* The kernel finishes what it started, and the executor polls a receiving task
\* again and again (run_ready_tasks runs on every tick and in every idle loop).
Fairness ==
    /\ \A a \in Actor : WF_vars(KernelStep(a))
    /\ \A t \in Task : WF_vars(poll_recv(t))

FairSpec == Spec /\ Fairness

(***************************************************************************)
(* Properties.                                                             *)
(***************************************************************************)

Entry == [msg : Msg, from : Actor \union {Nobody}]
Steps ==
    [op : {"deliver"}, who : Actor] \union [op : {"answer"}, msg : Msg]
    \union [op : {"orphans", "take"}]
    \union [op : {"wake"}, who : Actor, why : {"sent", "message", "closed"}, msg : Msg \union {Nobody}]

\* Every variable has its type; a slot with senders waiting is never left empty
\* and holds at most N of them.
TypeOK ==
    /\ \/ slot = Empty
       \/ slot.kind = "ReceiverWaiting" /\ slot.receiver \in Actor
       \/ /\ slot.kind = "SendersWaiting" /\ Len(slot.queue) \in 1..N
          /\ \A k \in 1..Len(slot.queue) : slot.queue[k] \in Entry
    /\ receiver \in Receivers
    /\ alive \subseteq Proc
    /\ status \in [Actor -> {"run", "sending", "receiving"}]
    /\ woken \subseteq Task
    /\ \A a \in Actor : \A k \in 1..Len(todo[a]) : todo[a][k] \in Steps
    /\ sent \in [Actor -> 0..MaxSends]
    /\ done \subseteq Msg
    /\ \A k \in 1..Len(got) : got[k] \in [msg : Msg, by : Actor]

\* The entries of the sender queue.
Queue == IF slot.kind = "SendersWaiting" THEN slot.queue ELSE <<>>

\* Where an actor is recorded to be answered: in the slot, or in a kernel
\* operation of another actor.
Records(x) ==
    {<<"queue", k>> : k \in {k \in 1..Len(Queue) : Queue[k].from = x}}
    \union {<<"receiver", 0>> : r \in {r \in {x} : slot.kind = "ReceiverWaiting" /\ slot.receiver = r}}
    \union UNION {{<<a, k>> : k \in {k \in 1..Len(todo[a]) :
                     todo[a][k].op \in {"deliver", "wake"} /\ todo[a][k].who = x}} : a \in Actor}

\* Whoever waits will be answered: a live process or a task that waits in a send
\* or a receive is recorded in the slot or in an operation under way, or its
\* waker has been called.
WaiterIsRecorded ==
    \A x \in alive \union Task : status[x] # "run" => Records(x) # {} \/ x \in woken

\* An actor gets one answer, and the one it waits for: nobody is recorded twice,
\* and an answer under way finds its process in the operation it belongs to, so
\* a wake never disturbs a process that is running or waits for something else.
\* The types are part of it.
AnswersMatch ==
    /\ TypeOK
    /\ \A x \in alive \union Task : Cardinality(Records(x)) <= 1
    /\ \A a \in Actor : \A k \in 1..Len(todo[a]) :
         LET w == todo[a][k]
         IN  w.op = "wake" /\ w.who \in alive \union Task =>
               status[w.who] = IF w.why = "sent" THEN "sending" ELSE "receiving"
    /\ \A k \in 1..Len(Queue) : Queue[k].from \in alive \union Task =>
         status[Queue[k].from] = "sending" /\ Queue[k].msg = <<Queue[k].from, sent[Queue[k].from]>>
    /\ slot.kind = "ReceiverWaiting" /\ slot.receiver \in alive \union Task =>
         status[slot.receiver] = "receiving"

\* The messages that are on their way to a receiver: queued, or about to be
\* handed to a live process.
InQueue(m) == {<<"queue", k>> : k \in {k \in 1..Len(Queue) : Queue[k].msg = m}}
InHand(m) ==
    UNION {{<<a, k>> : k \in {k \in 1..Len(todo[a]) : todo[a][k].op = "wake"
               /\ todo[a][k].why = "message" /\ todo[a][k].msg = m}} : a \in Actor}
Received(m) == {k \in 1..Len(got) : got[k].msg = m}

\* A message is received at most once, and the messages of one sender in the order
\* it sent them.
ReceivedOnce ==
    /\ \A m \in Msg : Cardinality(InQueue(m)) + Cardinality(InHand(m)) + Cardinality(Received(m)) <= 1
    /\ \A j, k \in 1..Len(got) :
         j < k /\ got[j].msg[1] = got[k].msg[1] => got[j].msg[2] < got[k].msg[2]

\* A send completes only with a receiver: once its sender is told so, the
\* message was received, is being handed to a live process, or is queued for a
\* task that is about to poll.
DoneMeansReceived ==
    \A m \in done :
        \/ Received(m) # {}
        \/ \E h \in InHand(m) : todo[h[1]][h[2]].who \in alive
        \/ InQueue(m) # {} /\ \E t \in Task \cap receiver : t \in woken

\* While a task keeps receiving, every send that was accepted completes.
SendCompletes ==
    \A a \in Sender : (status[a] = "sending" /\ receiver \subseteq Task) ~> (status[a] = "run" \/ a \in Proc \ alive)

\* A process blocked in SYS_RECV when the last process that could send to it
\* dies is woken.
OrphanIsWoken ==
    \A r \in Proc :
        (/\ r \in alive \cap receiver /\ status[r] = "receiving" /\ alive \cap Sender = {}
         /\ \E p \in Sender \cap Proc : todo[p] = <<Orphans>>)
        ~> (status[r] = "run" \/ r \notin alive)
=============================================================================
