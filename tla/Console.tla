------------------------------ MODULE Console ------------------------------
(***************************************************************************)
(* The serial console: the 16550 driver and its two kernel tasks           *)
(* (driver/uart.rs), the diagnostic output of earlycon.rs that shares the  *)
(* wire, and the executor that polls the tasks.                            *)
(*                                                                         *)
(* A lock that is held while another is taken is a variable (com1, tx, and *)
(* EXECUTOR of module Executor); a critical section that takes no other    *)
(* lock is one step. A SpinLock masks interrupts from before it spins      *)
(* until it is dropped, so the UART's interrupt, which only the boot core  *)
(* receives, is taken only at pc = "run".                                  *)
(***************************************************************************)
EXTENDS Executor

CONSTANTS
    Bsp,          \* the core the PIC interrupts
    Echo,         \* task ids: echo_task,
    Server,       \*   console_server,
    Others,       \*   tasks spawned later that finish at their first poll
    FifoDepth,    \* bytes the UART holds
    MaxBytes,     \* bytes that arrive,
    MaxSends,     \*   messages sent to the console and
    MaxPrints     \*   earlyprintln! calls in a behaviour

ASSUME ConsoleAssumption ==
    /\ Bsp \in Cores /\ None \notin Cores
    /\ Value = {Echo, Server} \union Others
    /\ Echo # Server /\ {Echo, Server} \cap Others = {}
    /\ {FifoDepth, MaxBytes, MaxSends, MaxPrints} \subseteq Nat

VARIABLES
    pc,           \* what each core does outside a poll
    at,           \* where the poll of `polling` is
    com1,         \* the core that holds COM1, or None
    tx,           \* the core that holds COM1_TX_LOCK, or None
    fifo,         \* received bytes, "good" or with an LSR error bit ("bad")
    irq,          \* IRQ4 latched at the PIC
    rx_waker,     \* RX_WAKER
    inbox,        \* messages in the console's endpoint
    receiver,     \* console_server is registered there as the waiting receiver
    line,         \* the core whose line on the wire has no "\r\n" yet, or None
    torn,         \* another writer's byte has gone out inside such a line
    left          \* what the environment may still do

uartVars == <<com1, fifo, irq, rx_waker>>
wireVars == <<tx, line, torn>>
ipcVars == <<inbox, receiver>>
vars == <<ringVars, execVars, pc, at, uartVars, wireVars, ipcVars, left>>

Init ==
    /\ buffer = [i \in 0..(N - 1) |-> CASE i = 0 -> Echo [] i = 1 -> Server [] OTHER -> None]
    /\ head = 0 /\ len = 2 /\ answer = None
    /\ ExecutorInit({Echo, Server})
    /\ pc = [c \in Cores |-> "run"]
    /\ at = "start"
    /\ com1 = None /\ tx = None
    /\ fifo = <<>> /\ irq = FALSE /\ rx_waker = None
    /\ inbox = 0 /\ receiver = FALSE
    /\ line = None /\ torn = FALSE
    /\ left = [bytes |-> MaxBytes, sends |-> MaxSends, prints |-> MaxPrints, spawns |-> Others]

Goto(c, l) == pc' = [pc EXCEPT ![c] = l]

Sent(c) == torn' = (torn \/ line \notin {None, c})

(***************************************************************************)
(* The receive interrupt.                                                  *)
(***************************************************************************)

\* A byte arrives. The interrupt line is high while the FIFO holds a byte, and
\* the PIC latches its rising edge; a byte that finds the FIFO full is lost.
Arrive(b) ==
    /\ left.bytes > 0
    /\ left' = [left EXCEPT !.bytes = @ - 1]
    /\ fifo' = IF Len(fifo) < FifoDepth THEN Append(fifo, b) ELSE fifo
    /\ irq' = (irq \/ fifo = <<>>)
    /\ UNCHANGED <<ringVars, execVars, pc, at, com1, rx_waker, wireVars, ipcVars>>

\* irq4_handler starts on the boot core and spins for COM1.
irq4_handler ==
    /\ irq /\ pc[Bsp] = "run"
    /\ irq' = FALSE
    /\ Goto(Bsp, "irq")
    /\ UNCHANGED <<ringVars, execVars, at, com1, fifo, rx_waker, wireVars, ipcVars, left>>

IrqLocked ==
    /\ pc[Bsp] = "irq" /\ com1 = None
    /\ com1' = Bsp
    /\ Goto(Bsp, "irq locked")
    /\ UNCHANGED <<ringVars, execVars, at, fifo, irq, rx_waker, wireVars, ipcVars, left>>

\* Takes the waker, if there is one, and wakes the task. The FIFO is not touched.
handle_irq ==
    /\ pc[Bsp] = "irq locked"
    /\ IF rx_waker = None THEN UNCHANGED <<ringVars, overflowed>> ELSE wake_task(rx_waker)
    /\ rx_waker' = None
    /\ com1' = None
    /\ Goto(Bsp, "run")
    /\ UNCHANGED <<tasks, executor, sweep, polling, at, fifo, irq, wireVars, ipcVars, left>>

(***************************************************************************)
(* The polls. `c` is the core that holds EXECUTOR.                         *)
(***************************************************************************)

Polls(t, l) == executor # None /\ polling = t /\ at = l

\* try_read_byte reads past the bytes with an error bit: the number of bytes it
\* takes out, and whether the last of them is good.
Good == {i \in 1..Len(fifo) : fifo[i] = "good"}
BytesRead == IF Good = {} THEN Len(fifo) ELSE CHOOSE i \in Good : \A j \in Good : i <= j
try_read_byte == fifo' = SubSeq(fifo, BytesRead + 1, Len(fifo))

\* Mutant of PollRead: a discarded byte is logged with COM1 still locked.
PollReadLogs ==
    /\ Polls(Echo, "start") /\ com1 = None
    /\ try_read_byte
    /\ at' = IF fifo = <<>> THEN "register" ELSE "tx"
    /\ com1' = IF "bad" \in {fifo[i] : i \in 1..Len(fifo)} THEN executor ELSE None
    /\ UNCHANGED <<ringVars, execVars, pc, irq, rx_waker, wireVars, ipcVars, left>>

\* RxAvailable::poll, first look.
PollRead ==
    /\ Polls(Echo, "start") /\ com1 = None
    /\ try_read_byte
    /\ at' = IF Good = {} THEN "register" ELSE "tx"
    /\ UNCHANGED <<ringVars, execVars, pc, com1, irq, rx_waker, wireVars, ipcVars, left>>

PollRegister ==
    /\ Polls(Echo, "register")
    /\ rx_waker' = Echo
    /\ at' = "recheck"
    /\ UNCHANGED <<ringVars, execVars, pc, com1, fifo, irq, wireVars, ipcVars, left>>

\* Mutant of PollRecheck: Pending without a second look.
PollNoRecheck ==
    /\ Polls(Echo, "recheck") /\ com1 = None
    /\ at' = "start"
    /\ PollEnds(FALSE)
    /\ UNCHANGED <<ringVars, fifo, pc, com1, irq, rx_waker, wireVars, ipcVars, left>>

\* The second look; Pending leaves the task to its waker. The waker also stays
\* registered when a byte is found.
PollRecheck ==
    /\ Polls(Echo, "recheck") /\ com1 = None
    /\ try_read_byte
    /\ IF Good = {}
       THEN at' = "start" /\ PollEnds(FALSE)
       ELSE at' = "tx" /\ UNCHANGED execVars
    /\ UNCHANGED <<ringVars, pc, com1, irq, rx_waker, wireVars, ipcVars, left>>

\* RecvFuture::poll of console_server.
PollRecv ==
    /\ Polls(Server, "start")
    /\ IF inbox > 0
       THEN inbox' = inbox - 1 /\ at' = "tx" /\ UNCHANGED <<execVars, receiver>>
       ELSE receiver' = TRUE /\ PollEnds(FALSE) /\ UNCHANGED <<at, inbox>>
    /\ UNCHANGED <<ringVars, pc, uartVars, wireVars, left>>

PollOther ==
    /\ polling \in Others
    /\ PollEnds(TRUE)
    /\ UNCHANGED <<ringVars, pc, at, uartVars, wireVars, ipcVars, left>>

\* Mutant of WriteLockTx: the console writes under COM1 alone.
WriteWithoutTx ==
    /\ executor # None /\ polling # None /\ at = "tx"
    /\ at' = "com1"
    /\ UNCHANGED <<ringVars, execVars, pc, uartVars, wireVars, ipcVars, left>>

\* write_byte and write_line take COM1_TX_LOCK, then COM1.
WriteLockTx ==
    /\ executor # None /\ polling # None /\ at = "tx" /\ tx = None
    /\ tx' = executor
    /\ at' = "com1"
    /\ UNCHANGED <<ringVars, execVars, pc, uartVars, line, torn, ipcVars, left>>

WriteLockCom1 ==
    /\ executor # None /\ polling # None /\ at = "com1" /\ com1 = None
    /\ com1' = executor
    /\ at' = "write"
    /\ UNCHANGED <<ringVars, execVars, pc, fifo, irq, rx_waker, wireVars, ipcVars, left>>

\* The echoed byte goes out; both locks are dropped and the task looks again.
write_byte ==
    /\ Polls(Echo, "write")
    /\ Sent(executor)
    /\ tx' = None /\ com1' = None
    /\ at' = "start"
    /\ UNCHANGED <<ringVars, execVars, pc, fifo, irq, rx_waker, line, ipcVars, left>>

\* The text of the console's line, and then its "\r\n", under one lock.
WriteText ==
    /\ Polls(Server, "write")
    /\ Sent(executor)
    /\ line' = executor
    /\ at' = "crlf"
    /\ UNCHANGED <<ringVars, execVars, pc, uartVars, tx, ipcVars, left>>

write_line ==
    /\ Polls(Server, "crlf")
    /\ Sent(executor)
    /\ line' = None
    /\ tx' = None /\ com1' = None
    /\ at' = "start"
    /\ UNCHANGED <<ringVars, execVars, pc, fifo, irq, rx_waker, ipcVars, left>>

(***************************************************************************)
(* The cores.                                                              *)
(***************************************************************************)

\* A timer tick, the idle loop or a context switch calls run_ready_tasks.
StartDrain(c) ==
    /\ pc[c] = "run"
    /\ Goto(c, "drain")
    /\ UNCHANGED <<ringVars, execVars, at, uartVars, wireVars, ipcVars, left>>

DrainLocked(c) ==
    /\ pc[c] = "drain"
    /\ run_ready_tasks(c)
    /\ UNCHANGED <<pc, at, uartVars, wireVars, ipcVars, left>>

Drain ==
    /\ SweepNext \/ SweepDone \/ PopNext
    /\ IF executor' = None THEN Goto(executor, "run") ELSE UNCHANGED pc
    /\ UNCHANGED <<at, uartVars, wireVars, ipcVars, left>>

\* earlycon::_println: the text and "\r\n" under COM1_TX_LOCK.
StartPrint(c) ==
    /\ pc[c] = "run" /\ left.prints > 0
    /\ left' = [left EXCEPT !.prints = @ - 1]
    /\ Goto(c, "print")
    /\ UNCHANGED <<ringVars, execVars, at, uartVars, wireVars, ipcVars>>

PrintText(c) ==
    /\ pc[c] = "print" /\ tx = None
    /\ tx' = c
    /\ Sent(c)
    /\ line' = c
    /\ Goto(c, "print crlf")
    /\ UNCHANGED <<ringVars, execVars, at, uartVars, ipcVars, left>>

PrintCrlf(c) ==
    /\ pc[c] = "print crlf"
    /\ Sent(c)
    /\ tx' = None /\ line' = None
    /\ Goto(c, "run")
    /\ UNCHANGED <<ringVars, execVars, at, uartVars, ipcVars, left>>

\* SYS_SEND to the console: the endpoint's lock is released before the waiting
\* server is woken. A sender that finds no receiver blocks in the scheduler.
try_send(c) ==
    /\ pc[c] = "run" /\ left.sends > 0
    /\ left' = [left EXCEPT !.sends = @ - 1]
    /\ inbox' = inbox + 1
    /\ receiver' = FALSE
    /\ IF receiver THEN Goto(c, "wake") ELSE UNCHANGED pc
    /\ UNCHANGED <<ringVars, execVars, at, uartVars, wireVars>>

wake_receiver(c) ==
    /\ pc[c] = "wake"
    /\ wake_task(Server)
    /\ Goto(c, "run")
    /\ UNCHANGED <<tasks, executor, sweep, polling, at, uartVars, wireVars, ipcVars, left>>

\* spawn; between its two critical sections pc[c] is the task.
Spawn(c, t) ==
    /\ pc[c] = "run" /\ t \in left.spawns
    /\ left' = [left EXCEPT !.spawns = @ \ {t}]
    /\ spawn_insert(t)
    /\ Goto(c, t)
    /\ UNCHANGED <<ringVars, at, uartVars, wireVars, ipcVars>>

SpawnPush(c) ==
    /\ pc[c] \in Others
    /\ spawn_push(pc[c])
    /\ Goto(c, "run")
    /\ UNCHANGED <<at, uartVars, wireVars, ipcVars, left>>

Poll == PollRead \/ PollRegister \/ PollRecheck \/ PollRecv \/ PollOther
            \/ WriteLockTx \/ WriteLockCom1 \/ write_byte \/ WriteText \/ write_line

Continue(c) == DrainLocked(c) \/ PrintText(c) \/ PrintCrlf(c) \/ wake_receiver(c) \/ SpawnPush(c)

Next ==
    \/ \E b \in {"good", "bad"} : Arrive(b)
    \/ irq4_handler \/ IrqLocked \/ handle_irq
    \/ Drain \/ Poll
    \/ \E c \in Cores : StartDrain(c) \/ Continue(c) \/ StartPrint(c) \/ try_send(c)
    \/ \E c \in Cores, t \in Others : Spawn(c, t)

\* Every core comes by run_ready_tasks again (its timer keeps ticking), goes on with
\* what it started, and takes a pending interrupt when it has them unmasked. A core
\* spinning for EXECUTOR gets it: the others want it once per tick.
Fairness ==
    /\ SF_vars(irq4_handler) /\ WF_vars(IrqLocked) /\ WF_vars(handle_irq)
    /\ WF_vars(Drain) /\ WF_vars(Poll)
    /\ \A c \in Cores : WF_vars(StartDrain(c)) /\ WF_vars(Continue(c)) /\ SF_vars(DrainLocked(c))

Spec == Init /\ [][Next]_vars /\ Fairness

(***************************************************************************)
(* Properties.                                                             *)
(***************************************************************************)

\* Every variable has its type, and the ready queue is a well-formed ring.
TypeOK ==
    /\ RingInv
    /\ tasks \subseteq Value /\ polling \in tasks \union {None}
    /\ {executor, com1, tx, line} \subseteq Cores \union {None}
    /\ sweep # None => sweep \subseteq tasks
    /\ fifo \in Seq({"good", "bad"}) /\ Len(fifo) <= FifoDepth
    /\ rx_waker \in {None, Echo}
    /\ inbox \in 0..MaxSends

\* No wake-up is lost. A byte in the FIFO while echo_task is not being polled means
\* that a poll is certain to follow, or that the interrupt that will wake it is still
\* pending or being handled and finds the waker; a message in the console's endpoint
\* means the same for console_server, or that its sender is about to wake it. This
\* is what the second look of RxAvailable::poll and OVERFLOWED are for.
NoWakeLost ==
    /\ fifo # <<>> /\ polling # Echo =>
        \/ WillBePolled(Echo)
        \/ rx_waker = Echo /\ (irq \/ pc[Bsp] \in {"irq", "irq locked"})
    /\ inbox > 0 /\ polling # Server =>
        WillBePolled(Server) \/ \E c \in Cores : pc[c] = "wake"

\* The core that has the lock core c spins for.
WaitsFor(c) ==
    CASE pc[c] = "irq" -> com1
      [] pc[c] = "print" -> tx
      [] pc[c] = "drain" /\ executor # c -> executor
      [] pc[c] = "drain" /\ executor = c /\ polling # None /\ at = "tx" -> tx
      [] pc[c] = "drain" /\ executor = c /\ polling # None /\ at = "com1" -> com1
      [] pc[c] = "drain" /\ executor = c /\ polling = Echo /\ at \in {"start", "recheck"} -> com1
      [] OTHER -> None

\* No set of cores spins for locks that only they hold: the order COM1_TX_LOCK, COM1
\* and the masking of interrupts under a SpinLock leave no cycle, not even of one core.
NoLockCycle == TypeOK /\ \A S \in SUBSET Cores : S # {} => \E c \in S : WaitsFor(c) \notin S

\* A line is never split: between its text and its "\r\n" nobody else writes to the
\* UART, neither the echo task nor console_server nor another core's earlyprintln!.
LineIsWhole == ~torn

\* Bytes received are read, and messages sent to the console printed, in the end.
ConsoleServes == (fifo # <<>> ~> fifo = <<>>) /\ (inbox > 0 ~> inbox = 0)
============================================================================
