------------------------------ MODULE Userland ------------------------------
(***************************************************************************)
(* User programs on the kernel's system-call contract. A program is a      *)
(* sequence of instructions (userland/, the test processes of the kernel); *)
(* a system call is one step, since the modules Scheduler, Endpoint,       *)
(* Memory and Storage take the calls apart. What stays visible here is     *)
(* what the calls of several processes on several cores do to each other:  *)
(* the process table, the ready queue, the endpoints, each core's idle     *)
(* loop, and the bytes that reach the serial log.                          *)
(***************************************************************************)
EXTENDS Integers, Sequences, FiniteSets, SequencesExt

CONSTANTS
    None,
    Server,          \* Waiter::Task of a console_server
    Bsp,             \* the core that boots
    MAX_PROCESSES,
    PidBase,         \* a Pid is its index plus PidBase times its generation
    Rounds,          \* iterations of lifecycle_test_process
    HeapStart,       \* USER_HEAP_START, in pages
    HeapMax          \* USER_HEAP_MAX_SIZE, in pages

ASSUME UserlandAssumption ==
    /\ {MAX_PROCESSES, PidBase, Rounds, HeapStart, HeapMax} \subseteq Nat \ {0}
    /\ MAX_PROCESSES < PidBase

VARIABLES
    scenario,   \* the test that runs: see module Scenarios
    boot,       \* what _start has still to do on the boot core
    pids,       \* the Pids _start has allocated, in order
    core,       \* per core: what it does
    kernel      \* the kernel's shared state

vars == <<scenario, boot, pids, core, kernel>>

(***************************************************************************)
(* The ABI.                                                                *)
(***************************************************************************)
BadCapability     == -2
PermissionDenied  == -3
ResourceExhausted == -4
NoSuchProgram     == -5
InvalidTarget     == -6
InvalidArgument   == -8
PeerClosed        == -9
IoOutOfRange      == -10
IoError           == -11
NoSuchFile        == -12

Exited(code) == <<0, code>>
Faulted      == <<1, 0>>
Killed       == <<2, 0>>

\* What a call leaves in the registers: rax, and what else it reports.
Result(rax, value) == [rax |-> rax, value |-> value]
Ok(value) == Result(0, value)
Err(e) == Result(e, None)

\* A capability: an endpoint, or "block" (BlockDevice) or "fs" (FsRoot), and rights.
Cap(object, rights) == [object |-> object, rights |-> rights]
NoCaps == [i \in 0..5 |-> None]
CONSOLE_CAP == 0
CHILD_LINK_CAP == 1
BLOCK_CAP == 2
FS_CAP == 3

(***************************************************************************)
(* Programs. An instruction is a call, its argument and the jumps that     *)
(* follow it: the first one whose test holds of the result is taken, to    *)
(* the instruction with that label.                                        *)
(***************************************************************************)
Do(call, arg) == [at |-> None, call |-> call, arg |-> arg, jumps |-> <<>>]
At(label, step) == [step EXCEPT !.at = label]
If(step, test, v, label) ==
    [step EXCEPT !.jumps = Append(@, [test |-> test, v |-> v, to |-> label])]

Send(cap, text) == Do("send", [cap |-> cap, text |-> text])
Say(text) == Send(CONSOLE_CAP, text)
Recv(cap) == Do("recv", cap)
Exit(code) == Do("exit", code)
Spawn(name) == Do("spawn", name)
Grant(to, src, dst, rights) ==
    Do("grant", [to |-> to, src |-> src, dst |-> dst, rights |-> rights])
Start == Do("start", None)          \* None stands for the Pid in r12,
Wait == Do("wait", None)            \* the child spawned last
Kill(pid) == Do("kill", pid)
Yield == Do("yield", None)
Sbrk(pages) == Do("sbrk", pages)
FileRead(cap, name, mapped) == Do("file_read", [cap |-> cap, name |-> name, mapped |-> mapped])
BlockRead(cap, lba, count, mapped) ==
    Do("block_read", [cap |-> cap, lba |-> lba, count |-> count, mapped |-> mapped])

\* userland/init; a failed expect ends in the runtime's panic handler.
init_main ==
    LET OrPanic(step) == If(step, "negative", 0, "panic")
    IN  <<Say("Hello from TarnOS userspace!"),
          OrPanic(Spawn("echo-child")),
          OrPanic(Grant(None, CHILD_LINK_CAP, 0, {"SEND", "RECV"})),
          OrPanic(Start),
          OrPanic(Send(CHILD_LINK_CAP, "ping")),
          OrPanic(Recv(CHILD_LINK_CAP)),
          Say(None)>>

probe_filesystem ==
    LET Hello == If(FileRead(FS_CAP, "HELLO.TXT", TRUE), "is", BadCapability, "probe_spawn")
        Big == FileRead(FS_CAP, "BIGFILE.TXT", TRUE)
    IN  <<If(Hello, "value is not", "hello", "hello_bad"),
          If(Big, "value is not", "big", "fs_fail"),
          If(Say("FS_SYSCALL_OK"), "always", 0, "probe_spawn"),
          At("hello_bad", Big),
          At("fs_fail", Say("FS_SYSCALL_FAIL"))>>

probe_filesystem_spawn ==
    <<At("probe_spawn", If(Spawn("FSCHILD.ELF"), "negative", 0, "done")),
      If(Start, "negative", 0, "spawn_fail"),
      If(Wait, "value is not", Exited(42), "spawn_fail"),
      If(Say("FS_SPAWN_OK"), "always", 0, "done"),
      At("spawn_fail", Say("FS_SPAWN_FAIL")),
      At("done", Exit(0)),
      At("panic", Exit(101))>>

echo_child ==
    <<If(Recv(0), "negative", 0, "alone"),
      Send(0, "pong"),
      Exit(0),
      At("alone", Exit(1))>>

exit_code_child == <<Exit(42)>>

\* Programs that make checks and report how they went.
Report(checks, ok, fail, code) ==
    checks \o <<Say(ok), Exit(0), At("fail", Say(fail)), Exit(code)>>

Check(step, test, v) == If(step, test, v, "fail")

fs_child ==
    Report(<<Check(FileRead(FS_CAP, "HELLO.TXT", TRUE), "value is not", "hello")>>,
           "FS_FIXTURE_OK", "FS_FIXTURE_FAIL", 1)

block_child ==
    Report(<<Check(BlockRead(BLOCK_CAP, 2, 1, TRUE), "value is not", "pattern")>>,
           "BLOCK_FIXTURE_OK", "BLOCK_FIXTURE_FAIL", 1)

\* The ring-3 test processes of the kernel. Boot's first process is Pid(0, 1).
FIRST_PID == PidBase

faulting_process == <<Do("fault", None)>>

survivor_process == <<Exit(0)>>

sender_process_a == <<Say("MSGA"), Exit(0)>>

sender_process_b == <<Say("MSGB"), Exit(0)>>

bystander_process == <<At("loop", If(Yield, "always", 0, "loop"))>>

busy_process == <<Do("spin", None)>>

ordinary_process == <<Say("PREEMPT_ORD_OK"), Exit(0)>>

boundary_test_process ==
    Report(<<Check(Grant(FIRST_PID, 0, 0, {"SEND"}), "is not", InvalidTarget),
             Check(Spawn("echo-child"), "negative", 0),
             Check(Grant(None, 0, 0, {"RECV"}), "is not", PermissionDenied),
             Check(Grant(None, 0, 0, {"SEND"}), "is not", 0),
             Check(Start, "is not", 0)>>,
           "BOUNDARY_OK", "BOUNDARY_FAIL", 0)

lifecycle_test_process ==
    Report(<<At("again", Check(Spawn("echo-child"), "negative", 0)),
             Check(Kill(None), "is not", 0),
             Check(Wait, "is not", 0),
             Do("loop", "again")>>,
           "LIFECYCLE_OK", "LIFECYCLE_FAIL", 0)

wait_test_process ==
    Report(<<Check(Spawn("exit-code-child"), "negative", 0),
             Check(Start, "is not", 0),
             Check(Wait, "value is not", Exited(42))>>,
           "WAIT_OK", "WAIT_FAIL", 0)

kill_boundary_test_process ==
    Report(<<Check(Kill(FIRST_PID), "is not", InvalidTarget),
             Check(Spawn("echo-child"), "negative", 0),
             Check(Kill(None), "is not", 0),
             Check(Spawn("echo-child"), "negative", 0),
             Check(Grant(None, 1, 0, {"SEND", "RECV"}), "is not", 0),
             Check(Start, "is not", 0),
             Yield, Yield, Yield,
             Check(Kill(None), "is not", 0)>>,
           "KILL_OK", "KILL_FAIL", 0)

sbrk_boundary_test_process ==
    Report(<<Check(Sbrk(2 * HeapMax), "is not", InvalidArgument),
             Check(Sbrk(3), "negative", 0),
             Check(Sbrk(-1), "is not", InvalidArgument),
             Check(Sbrk(0), "is not r12 plus", 3)>>,
           "SBRK_OK", "SBRK_FAIL", 0)

\* What the killers of two tests do, once the busy target runs elsewhere.
CrossCoreKill(ok, fail) ==
    Report(<<Yield, Yield, Yield, Yield, Yield,
             Check(Kill(FIRST_PID), "is not", 0),
             Check(Spawn("exit-code-child"), "negative", 0),
             Check(Start, "is not", 0),
             Check(Wait, "value is not", Exited(42))>>,
           ok, fail, 0)

kill_cc_killer_process == CrossCoreKill("KILL_CC_OK", "KILL_CC_FAIL")

forced_preempt_killer_process == CrossCoreKill("FRC_PRE_OK", "FRC_PRE_FAIL")

send_cc_receiver_process ==
    Report(<<Check(Recv(1), "value is not", "ping")>>, "SEND_CC_OK", "SEND_CC_FAIL", 0)

send_cc_sender_process == <<Send(1, "ping"), Exit(0)>>

block_read_syscall_process ==
    Report(<<Check(BlockRead(BLOCK_CAP, 2, 1, TRUE), "value is not", "pattern")>>,
           "BLK_SYSCALL_OK", "BLK_SYSCALL_FAIL", 0)

block_boundary_process ==
    Report(<<Check(BlockRead(BLOCK_CAP, 1000, 1, TRUE), "is not", IoOutOfRange),
             Check(BlockRead(5, 2, 1, TRUE), "is not", BadCapability),
             Check(BlockRead(BLOCK_CAP, 2, 0, TRUE), "is not", InvalidArgument),
             Check(BlockRead(BLOCK_CAP, 2, 1, FALSE), "is not", InvalidArgument)>>,
           "BLK_BOUNDARY_OK", "BLK_BOUNDARY_FAIL", 0)

fat_boundary_process ==
    Report(<<Check(FileRead(FS_CAP, "NOSUCH.TXT", TRUE), "is not", NoSuchFile),
             Check(FileRead(5, "HELLO.TXT", TRUE), "is not", BadCapability),
             Check(FileRead(FS_CAP, "HELLO.TXT", FALSE), "is not", InvalidArgument),
             Check(FileRead(FS_CAP, "HELLO.TXT", TRUE), "is not", 46)>>,
           "FAT_BOUNDARY_OK", "FAT_BOUNDARY_FAIL", 0)

\* The program behind a name: a boot module, or a test process.
Program(name) ==
    CASE name = "init" -> init_main \o probe_filesystem \o probe_filesystem_spawn
      [] name = "echo-child" -> echo_child
      [] name = "exit-code-child" -> exit_code_child
      [] name = "fs-child" -> fs_child
      [] name = "block-child" -> block_child
      [] name = "faulting_process" -> faulting_process
      [] name = "survivor_process" -> survivor_process
      [] name = "sender_process_a" -> sender_process_a
      [] name = "sender_process_b" -> sender_process_b
      [] name = "bystander_process" -> bystander_process
      [] name = "busy_process" -> busy_process
      [] name = "ordinary_process" -> ordinary_process
      [] name = "boundary_test_process" -> boundary_test_process
      [] name = "lifecycle_test_process" -> lifecycle_test_process
      [] name = "wait_test_process" -> wait_test_process
      [] name = "kill_boundary_test_process" -> kill_boundary_test_process
      [] name = "sbrk_boundary_test_process" -> sbrk_boundary_test_process
      [] name = "send_cc_receiver_process" -> send_cc_receiver_process
      [] name = "send_cc_sender_process" -> send_cc_sender_process
      [] name = "block_read_syscall_process" -> block_read_syscall_process
      [] name = "block_boundary_process" -> block_boundary_process
      [] name = "fat_boundary_process" -> fat_boundary_process
      [] name = "kill_cc_killer_process" -> kill_cc_killer_process
      [] name = "forced_preempt_killer_process" -> forced_preempt_killer_process

(***************************************************************************)
(* The kernel's shared state and what one call does to it.                 *)
(***************************************************************************)
Index(p) == p % PidBase
Empty == [state |-> "empty"]
Reserved == [state |-> "reserved"]
Zombie(parent, status) == [state |-> "zombie", parent |-> parent, status |-> status]
Process(prog, caps, parent, state) ==
    [state |-> state, prog |-> prog, pc |-> 1, r12 |-> 0, r13 |-> 0, text |-> None,
     caps |-> caps, heap |-> 0, parent |-> parent, wait_waiter |-> None]

IsProcess(s) == s.state \in {"suspended", "ready", "running", "blocked"}

\* occupied_mut
Occupied(k, p) ==
    /\ Index(p) < MAX_PROCESSES
    /\ k.gens[Index(p)] = p \div PidBase
    /\ IsProcess(k.table[Index(p)])

\* The jump a process takes on the result of its call, and the registers it keeps.
Holds(j, r, s) ==
    CASE j.test = "always"         -> TRUE
      [] j.test = "negative"       -> r.rax < 0
      [] j.test = "is"             -> r.rax = j.v
      [] j.test = "is not"         -> r.rax # j.v
      [] j.test = "value is not"   -> r.value # j.v
      [] j.test = "is not r12 plus" -> r.rax # s.r12 + j.v

LabelOf(prog, label) == CHOOSE i \in DOMAIN Program(prog) : Program(prog)[i].at = label

Returned(s, r) ==
    LET step == Program(s.prog)[s.pc]
        hits == {i \in DOMAIN step.jumps : Holds(step.jumps[i], r, s)}
    IN  [s EXCEPT !.pc = IF hits = {} THEN @ + 1 ELSE LabelOf(s.prog, step.jumps[Min(hits)].to),
                  !.r12 = IF step.call \in {"spawn", "sbrk"} /\ r.rax >= 0 THEN r.rax ELSE @,
                  !.text = IF step.call = "recv" THEN r.value ELSE @]

\* wake_blocked_process
Woken(k, p, r) ==
    IF p # None /\ Occupied(k, p) /\ k.table[Index(p)].state = "blocked"
    THEN [k EXCEPT !.table[Index(p)] = [Returned(@, r) EXCEPT !.state = "ready"],
                   !.ready = Append(@, p)]
    ELSE k

\* run_ready_tasks: each woken console_server prints what is queued, answers the
\* senders that wait, and waits again.
Poll(k, e) ==
    LET q == k.endpoint[e].queue
        printed == [k EXCEPT !.log = @ \union {q[i].text : i \in DOMAIN q},
                             !.endpoint[e] = [receiver |-> Server, queue |-> <<>>]]
    IN  FoldLeft(LAMBDA kk, m : Woken(kk, m.from, Ok(None)), printed, q)

run_ready_tasks(k) == FoldLeft(Poll, [k EXCEPT !.awake = {}], SetToSeq(k.awake))

\* Endpoint::try_send to a waiting receiver; to nobody; Endpoint::try_recv of a message.
Delivered(k, e, text) ==
    IF k.endpoint[e].receiver = Server
    THEN [k EXCEPT !.endpoint[e] = [receiver |-> None,
                                    queue |-> <<[text |-> text, from |-> None]>>],
                   !.awake = @ \union {e}]
    ELSE Woken([k EXCEPT !.endpoint[e].receiver = None], k.endpoint[e].receiver, Ok(text))

Enqueued(k, e, text, p) ==
    [k EXCEPT !.endpoint[e].queue = Append(@, [text |-> text, from |-> p])]

Taken(k, e) ==
    Woken([k EXCEPT !.endpoint[e].queue = Tail(@)], Head(k.endpoint[e].queue).from, Ok(None))

\* allocate_pid: the lowest free slot whose kernel stack is free too.
FreeIndexes(k) == {i \in 0..MAX_PROCESSES - 1 : k.table[i] = Empty /\ i \notin k.busy}

Allocated(k) ==
    IF FreeIndexes(k) = {} THEN [k |-> k, pid |-> MAX_PROCESSES]
    ELSE LET i == Min(FreeIndexes(k))
         IN  [k |-> [k EXCEPT !.table[i] = Reserved, !.gens[i] = @ + 1],
              pid |-> i + PidBase * (k.gens[i] + 1)]

\* reap_children_of, for the slot of one child.
ReapedSlot(s, p) ==
    CASE IsProcess(s) /\ s.parent = p /\ s.state = "suspended" -> Zombie(p, Killed)
      [] IsProcess(s) /\ s.parent = p /\ s.state # "suspended" -> [s EXCEPT !.parent = None]
      [] s.state = "zombie" /\ s.parent = p -> Empty
      [] OTHER -> s

\* Mutant of Tombstone: the status of a child nobody waits for yet is dropped.
NoTombstone(s, status) == Empty

\* What take_and_finalize_slot leaves in the slot.
Tombstone(s, status) ==
    IF s.wait_waiter = None /\ s.parent # None THEN Zombie(s.parent, status) ELSE Empty

CanSend(s, e) ==
    IsProcess(s) /\ \E i \in DOMAIN s.caps :
        s.caps[i] # None /\ s.caps[i].object = e /\ "SEND" \in s.caps[i].rights

\* A receiver that waits on an endpoint whose last sender is among the dying.
wake_orphaned_receivers(k, dying) ==
    LET orphaned == {e \in DOMAIN k.endpoint :
                        /\ k.endpoint[e].receiver \notin {None, Server}
                        /\ \E s \in dying : CanSend(s, e)
                        /\ \A i \in DOMAIN k.table : ~CanSend(k.table[i], e)}
        Closed(kk, e) == Woken([kk EXCEPT !.endpoint[e].receiver = None],
                               kk.endpoint[e].receiver, Err(PeerClosed))
    IN  FoldLeft(Closed, k, SetToSeq(orphaned))

\* The slots whose address spaces go with process p: its own and those of the
\* children it never started.
Dying(k, p) ==
    {i \in DOMAIN k.table :
        \/ i = Index(p)
        \/ /\ IsProcess(k.table[i])
           /\ k.table[i].parent = p /\ k.table[i].state = "suspended"}

\* take_and_finalize_slot, then wake_orphaned_receivers.
Finalized(k, p, status) ==
    LET i == Index(p)
        s == k.table[i]
        gone == [k EXCEPT !.table[i] = Tombstone(s, status),
                          !.ready = SelectSeq(@, LAMBDA q : q # p)]
        told == Woken(gone, s.wait_waiter, Ok(status))
        reaped == [told EXCEPT !.table = [j \in DOMAIN @ |-> ReapedSlot(@[j], p)]]
    IN  wake_orphaned_receivers(reaped, {k.table[j] : j \in Dying(k, p)})

(***************************************************************************)
(* The cores.                                                              *)
(***************************************************************************)
Idle(halt) == [mode |-> "drain", pid |-> None, halt |-> halt, drops |-> 0, evict |-> None,
               preempted |-> FALSE, unacked |-> FALSE]

\* No interrupt of RESCHEDULE's priority class reaches a core whose Local APIC still
\* waits for the end of one: the wake-up IPI, the eviction IPI, the AP's own timer. The
\* boot core's timer comes from the PIC.
Deaf(c) == core[c].unacked /\ c # Bsp

\* switch_to_next_or_halt from the call or fault of a process: `out` is the process
\* whose stack this core is about to leave, when it can be reused.
SwitchAway(c, k, halt, out, drops) ==
    IF k.ready # <<>>
    THEN /\ core' = [core EXCEPT ![c].mode = "user", ![c].pid = Head(k.ready)]
         /\ kernel' = run_ready_tasks([k EXCEPT !.ready = Tail(@), !.spaces = @ - drops,
                                                !.table[Index(Head(k.ready))].state = "running"])
    ELSE /\ core' = [core EXCEPT ![c].mode = "leave", ![c].pid = out, ![c].halt = halt,
                                 ![c].drops = drops]
         /\ kernel' = [k EXCEPT !.busy = IF out = None THEN @ ELSE @ \union {Index(out)}]

\* Mutant of Leave: the address spaces are forgotten.
LeaveLeaks(c) ==
    /\ core[c].mode = "leave"
    /\ core' = [core EXCEPT ![c].mode = "drain", ![c].pid = None, ![c].drops = 0]
    /\ kernel' = [kernel EXCEPT !.busy = IF core[c].pid = None THEN @
                                         ELSE @ \ {Index(core[c].pid)}]

\* idle_loop_trampoline: off the stack of the process, its memory is dropped.
Leave(c) ==
    /\ core[c].mode = "leave"
    /\ core' = [core EXCEPT ![c].mode = "drain", ![c].pid = None, ![c].drops = 0]
    /\ kernel' = [kernel EXCEPT !.spaces = @ - core[c].drops,
                                !.busy = IF core[c].pid = None THEN @
                                         ELSE @ \ {Index(core[c].pid)}]

\* idle_loop_on_own_stack: drain the executor, then look for a process; with
\* nothing to do the core parks until an interrupt sends it round again, if one can.
Drain(c) ==
    /\ core[c].mode = "drain"
    /\ core' = [core EXCEPT ![c].mode = "pick"]
    /\ kernel' = run_ready_tasks(kernel)

all_processes_empty == \A i \in DOMAIN kernel.table : kernel.table[i] = Empty

Pick(c) ==
    /\ core[c].mode = "pick"
    /\ \/ /\ kernel.ready # <<>>
          /\ core' = [core EXCEPT ![c].mode = "user", ![c].pid = Head(kernel.ready)]
          /\ kernel' = [kernel EXCEPT !.ready = Tail(@),
                                      !.table[Index(Head(kernel.ready))].state = "running"]
       \/ /\ kernel.ready = <<>>
          /\ core' = [core EXCEPT ![c].mode =
                          IF core[c].halt # None /\ all_processes_empty THEN "halting"
                          ELSE IF Deaf(c) THEN "parked" ELSE "drain"]
          /\ UNCHANGED kernel

permanent_halt(c) ==
    /\ core[c].mode = "halting"
    /\ core' = [core EXCEPT ![c].mode = "halted"]
    /\ kernel' = [kernel EXCEPT !.log = @ \union {core[c].halt},
                                !.frames = Append(@, kernel.spaces)]

\* The process of a core and the instruction it is about to execute.
Me(c) == kernel.table[Index(core[c].pid)]
Step(c) == Program(Me(c).prog)[Me(c).pc]
Executes(c, call) == core[c].mode = "user" /\ Step(c).call = call
Child(c) == IF Step(c).arg = None THEN Me(c).r12 ELSE Step(c).arg

Answer(c, k, r) ==
    /\ kernel' = [k EXCEPT !.table[Index(core[c].pid)] = Returned(@, r)]
    /\ UNCHANGED core

BLOCKED == "every process blocked or exited, halting"
EXITED == "last process exited, halting"
EVICTED == "evicted core found nothing else ready, halting"

\* block_current_process
Block(c, k) ==
    SwitchAway(c, [k EXCEPT !.table[Index(core[c].pid)].state = "blocked"], BLOCKED, None, 0)

\* on_timer_tick, also the whole of SYS_YIELD: the next process in turn, or the same.
Preempt(c, s) ==
    LET k == [kernel EXCEPT !.table[Index(core[c].pid)] = [s EXCEPT !.state = "ready"],
                            !.ready = Append(@, core[c].pid)]
    IN  /\ core' = [core EXCEPT ![c].pid = Head(k.ready), ![c].preempted = TRUE]
        /\ kernel' = run_ready_tasks([k EXCEPT !.ready = Tail(@),
                                               !.table[Index(Head(k.ready))].state = "running"])

on_timer_tick(c) == core[c].mode = "user" /\ ~Deaf(c) /\ Preempt(c, Me(c))

sys_yield(c) == Executes(c, "yield") /\ Preempt(c, Returned(Me(c), Ok(None)))

(***************************************************************************)
(* The system calls.                                                       *)
(***************************************************************************)
\* CapabilityTable::lookup: 0, or why not.
lookup(c, i, right) ==
    CASE Me(c).caps[i] = None -> BadCapability
      [] Me(c).caps[i] # None /\ right \notin Me(c).caps[i].rights -> PermissionDenied
      [] OTHER -> 0

resolve_endpoint(c, i, right) ==
    IF lookup(c, i, right) = 0 /\ Me(c).caps[i].object \notin DOMAIN kernel.endpoint
    THEN BadCapability
    ELSE lookup(c, i, right)

\* format_child_reply
format_child_reply(text) == "child replied: " \o text

sys_send(c) ==
    /\ Executes(c, "send")
    /\ LET a == Step(c).arg
           text == IF a.text = None THEN format_child_reply(Me(c).text) ELSE a.text
           e == Me(c).caps[a.cap].object
           no == resolve_endpoint(c, a.cap, "SEND")
       IN  IF no < 0 THEN Answer(c, kernel, Err(no))
           ELSE IF kernel.endpoint[e].receiver # None
           THEN Answer(c, Delivered(kernel, e, text), Ok(None))
           ELSE IF Len(kernel.endpoint[e].queue) = MAX_PROCESSES
           THEN Answer(c, kernel, Err(ResourceExhausted))
           ELSE Block(c, Enqueued(kernel, e, text, core[c].pid))

sys_recv(c) ==
    /\ Executes(c, "recv")
    /\ LET i == Step(c).arg
           e == Me(c).caps[i].object
           no == resolve_endpoint(c, i, "RECV")
       IN  IF no < 0 THEN Answer(c, kernel, Err(no))
           ELSE IF kernel.endpoint[e].queue # <<>>
           THEN Answer(c, Taken(kernel, e), Ok(Head(kernel.endpoint[e].queue).text))
           ELSE IF kernel.endpoint[e].receiver # None
           THEN Answer(c, kernel, Err(ResourceExhausted))
           ELSE Block(c, [kernel EXCEPT !.endpoint[e].receiver = core[c].pid])

\* lookup_spawnable_module, then a file of the mounted volume.
SpawnableModules == {"init", "echo-child", "exit-code-child", "fs-child", "block-child"}

sys_spawn(c) ==
    /\ Executes(c, "spawn")
    /\ LET name == Step(c).arg
           prog == IF name \in SpawnableModules THEN name ELSE "exit-code-child"
           new == Allocated(kernel)
       IN  IF name \notin SpawnableModules \union scenario.volume
           THEN Answer(c, kernel, Err(NoSuchProgram))
           ELSE IF new.pid = MAX_PROCESSES THEN Answer(c, kernel, Err(ResourceExhausted))
           ELSE Answer(c, [new.k EXCEPT !.spaces = @ + 1,
                                        !.table[Index(new.pid)] =
                                            Process(prog, NoCaps, core[c].pid, "suspended")],
                       Result(new.pid, None))

\* The target of a grant or a start: a child that was never started.
IsSuspendedChild(p, parent) ==
    /\ Occupied(kernel, p)
    /\ kernel.table[Index(p)].parent = parent
    /\ kernel.table[Index(p)].state = "suspended"

\* Mutant of Grantable: rights are not compared.
GrantUnchecked(c, a) ==
    CASE Me(c).caps[a.src] = None -> BadCapability
      [] OTHER -> 0

Grantable(c, a) ==
    CASE Me(c).caps[a.src] = None -> BadCapability
      [] Me(c).caps[a.src] # None /\ ~(a.rights \subseteq Me(c).caps[a.src].rights) ->
           PermissionDenied
      [] OTHER -> 0

sys_grant(c) ==
    /\ Executes(c, "grant")
    /\ LET a == Step(c).arg
           to == IF a.to = None THEN Me(c).r12 ELSE a.to
       IN  IF Grantable(c, a) < 0 THEN Answer(c, kernel, Err(Grantable(c, a)))
           ELSE IF ~IsSuspendedChild(to, core[c].pid) THEN Answer(c, kernel, Err(InvalidTarget))
           ELSE Answer(c, [kernel EXCEPT !.table[Index(to)].caps[a.dst] =
                               Cap(Me(c).caps[a.src].object, a.rights)], Ok(None))

sys_process_start(c) ==
    /\ Executes(c, "start")
    /\ IF ~IsSuspendedChild(Child(c), core[c].pid) THEN Answer(c, kernel, Err(InvalidTarget))
       ELSE Answer(c, [kernel EXCEPT !.table[Index(Child(c))].state = "ready",
                                     !.ready = Append(@, Child(c))], Ok(None))

\* wait_for_child
sys_wait(c) ==
    /\ Executes(c, "wait")
    /\ LET p == Child(c)
           s == kernel.table[Index(p)]
           mine == kernel.gens[Index(p)] = p \div PidBase /\ s.state \notin {"empty", "reserved"}
                   /\ s.parent = core[c].pid
       IN  IF ~mine THEN Answer(c, kernel, Err(InvalidTarget))
           ELSE IF s.state = "zombie"
           THEN Answer(c, [kernel EXCEPT !.table[Index(p)] = Empty], Ok(s.status))
           ELSE Block(c, [kernel EXCEPT !.table[Index(p)].wait_waiter = core[c].pid])

\* terminate_process. Where the target runs on another core, that core is asked to
\* let go of it, and the caller looks again when it has.
RunningOn(p) == {c \in DOMAIN core : core[c].mode \in {"user", "kill"} /\ core[c].pid = p}

KillNow(c) ==
    LET p == Child(c)
        k == IF Occupied(kernel, p) THEN Finalized(kernel, p, Killed) ELSE kernel
        freed == IF Occupied(kernel, p) THEN Cardinality(Dying(kernel, p)) ELSE 0
    IN  /\ kernel' = [k EXCEPT !.table[Index(core[c].pid)] = Returned(@, Ok(None)),
                               !.spaces = @ - freed]
        /\ core' = [core EXCEPT ![c].mode = "user"]

AskToEvict(c) ==
    \E d \in RunningOn(Child(c)) :
        /\ core' = [core EXCEPT ![c].mode = "kill", ![d].evict = Child(c)]
        /\ UNCHANGED kernel

sys_kill(c) ==
    /\ Executes(c, "kill")
    /\ IF ~Occupied(kernel, Child(c)) \/ kernel.table[Index(Child(c))].parent # core[c].pid
       THEN Answer(c, kernel, Err(InvalidTarget))
       ELSE IF RunningOn(Child(c)) = {} THEN KillNow(c)
       ELSE AskToEvict(c)

Rescan(c) ==
    /\ core[c].mode = "kill"
    /\ \A d \in DOMAIN core : core[d].evict = Child(c) => d \notin RunningOn(Child(c))
    /\ IF RunningOn(Child(c)) = {} THEN KillNow(c) ELSE AskToEvict(c)

\* on_reschedule_ipi, for a core in ring 3. With nothing ready it does not return to
\* the line that sends the EOI.
on_reschedule_ipi(c) ==
    /\ core[c].mode = "user" /\ core[c].evict # None /\ ~core[c].unacked
    /\ IF core[c].evict # core[c].pid
       THEN core' = [core EXCEPT ![c].evict = None] /\ UNCHANGED kernel
       ELSE IF kernel.ready # <<>>
       THEN /\ core' = [core EXCEPT ![c].evict = None, ![c].pid = Head(kernel.ready)]
            /\ kernel' = run_ready_tasks(
                   [kernel EXCEPT !.ready = Tail(@),
                                  !.table[Index(Head(kernel.ready))].state = "running"])
       ELSE /\ core' = [core EXCEPT ![c].evict = None, ![c].mode = "leave", ![c].halt = EVICTED,
                                   ![c].unacked = TRUE]
            /\ kernel' = [kernel EXCEPT !.busy = @ \union {Index(core[c].pid)}]

sys_sbrk(c) ==
    /\ Executes(c, "sbrk")
    /\ LET n == Step(c).arg
       IN  IF n < 0 \/ Me(c).heap + n > HeapMax THEN Answer(c, kernel, Err(InvalidArgument))
           ELSE Answer(c, [kernel EXCEPT !.table[Index(core[c].pid)].heap = @ + n],
                       Result(HeapStart + Me(c).heap, None))

FileSize(name) == IF name = "HELLO.TXT" THEN 46 ELSE 3000
Contents(name) == IF name = "HELLO.TXT" THEN "hello" ELSE "big"

sys_file_read(c) ==
    /\ Executes(c, "file_read")
    /\ LET a == Step(c).arg
           no == lookup(c, a.cap, "READ")
       IN  IF no < 0 \/ Me(c).caps[a.cap].object # "fs"
           THEN Answer(c, kernel, Err(IF no < 0 THEN no ELSE BadCapability))
           ELSE IF ~a.mapped THEN Answer(c, kernel, Err(InvalidArgument))
           ELSE IF a.name \notin scenario.volume THEN Answer(c, kernel, Err(NoSuchFile))
           ELSE Answer(c, kernel, Result(FileSize(a.name), Contents(a.name)))

\* The test disk has 64 sectors, with the test pattern in sector 2.
sys_block_read(c) ==
    /\ Executes(c, "block_read")
    /\ LET a == Step(c).arg
           no == lookup(c, a.cap, "READ")
       IN  IF a.count = 0 THEN Answer(c, kernel, Err(InvalidArgument))
           ELSE IF no < 0 \/ Me(c).caps[a.cap].object # "block"
           THEN Answer(c, kernel, Err(IF no < 0 THEN no ELSE BadCapability))
           ELSE IF ~a.mapped THEN Answer(c, kernel, Err(InvalidArgument))
           ELSE IF a.lba + a.count > 64 THEN Answer(c, kernel, Err(IoOutOfRange))
           ELSE Answer(c, kernel, Ok(IF a.lba = 2 THEN "pattern" ELSE None))

\* terminate_current_process, on SYS_EXIT and on a fault in ring 3.
Terminate(c, k, status) ==
    SwitchAway(c, Finalized(k, core[c].pid, status), EXITED, core[c].pid,
               Cardinality(Dying(k, core[c].pid)))

sys_exit(c) == Executes(c, "exit") /\ Terminate(c, kernel, Exited(Step(c).arg))

page_fault(c) ==
    /\ Executes(c, "fault")
    /\ Terminate(c, [kernel EXCEPT !.log = @ \union {"[fault] killed"}], Faulted)

\* inc r13; cmp r13, 3 * MAX_PROCESSES; jl
Loop(c) ==
    /\ Executes(c, "loop")
    /\ kernel' = [kernel EXCEPT !.table[Index(core[c].pid)] =
                      IF @.r13 + 1 < Rounds
                      THEN [@ EXCEPT !.r13 = @ + 1, !.pc = LabelOf(Me(c).prog, Step(c).arg)]
                      ELSE [@ EXCEPT !.r13 = @ + 1, !.pc = @ + 1]]
    /\ UNCHANGED core

Instruction(c) ==
    \/ sys_yield(c) \/ sys_send(c) \/ sys_recv(c) \/ sys_spawn(c) \/ sys_grant(c)
    \/ sys_process_start(c) \/ sys_wait(c) \/ sys_kill(c) \/ sys_sbrk(c) \/ sys_file_read(c)
    \/ sys_block_read(c) \/ sys_exit(c) \/ page_fault(c) \/ Loop(c)
============================================================================
