------------------------------- MODULE Memory -------------------------------
(***************************************************************************)
(* Address spaces and the system calls that build, extend, share authority *)
(* over and destroy processes: memory/virt.rs, elf.rs, Process::new and    *)
(* from_elf, sys_spawn, sys_grant, sys_process_start, sys_kill, sys_sbrk,  *)
(* the capability table, and the user runtime's heap.                      *)
(*                                                                         *)
(* Cores run these concurrently; what one of them takes from or returns to *)
(* the frame allocator is one step, so calls on different cores interleave *)
(* at every frame. A core in a call is not interrupted. Page tables are    *)
(* trees of nodes: <<l, i>> is the i-th table of level l, <<0, v>> page v. *)
(***************************************************************************)
EXTENDS FrameAllocator, Sequences, Functions

CONSTANTS
    Cores, Bsp,
    MaxProcs,            \* bound on the processes at a time
    Images,              \* ELF images: [ok, segs], see load
    Levels, Fanout,      \* page-table levels below the PML4 (3), entries of a table (512)
    UserPages,           \* pages of the user half
    PageSize,
    USER_SPACE_MIN, USER_HEAP_START, USER_HEAP_MAX_SIZE, USER_STACK_TOP, USER_STACK_PAGES,
    Increments,          \* what the runtime's heap asks sys_sbrk for
    CapIndex, Rights, BootCaps

Procs == 0..(MaxProcs - 1)
InitProc == 0

\* Page v lies in table <<l, v \div Fanout^l>> for each level l; the PML4 is Root.
Root == <<Levels + 1, 0>>
Nodes == UNION {{l} \X (0..((UserPages - 1) \div Fanout^l)) : l \in 0..(Levels + 1)}
Parent(n) == <<n[1] + 1, n[2] \div Fanout>>

\* Segments of a file, and the two from_elf adds (see Work).
Segments == [kind : {"load", "note"}, p_vaddr : Nat, p_memsz : Nat, p_filesz : Nat,
             file_end : Nat, len : Nat]

\* Capability table entries: an object boot handed out, and rights to it.
Caps == {None} \union
    UNION {[object : {BootCaps[i].object}, rights : SUBSET Rights] : i \in {j \in CapIndex : BootCaps[j] # None}}

\* The tables of Levels + 1 levels span the user half (what ^ means is spelt out for
\* the proofs), and images, heap and stack lie in it.
ASSUME MemoryAssumption ==
    /\ Bsp \in Cores /\ MaxProcs \in Nat \ {0}
    /\ Levels \in Nat /\ Fanout \in Nat \ {0}
    /\ Fanout^0 = 1
    /\ \A l \in 0..Levels : Fanout^l \in Nat \ {0} /\ Fanout^(l + 1) = Fanout^l * Fanout
    /\ UserPages \in 1..Fanout^(Levels + 1)
    /\ {PageSize, USER_HEAP_START} \subseteq Nat \ {0}
    /\ {USER_SPACE_MIN, USER_HEAP_MAX_SIZE, USER_STACK_TOP, USER_STACK_PAGES} \subseteq Nat
    /\ USER_HEAP_START % PageSize = 0 /\ USER_HEAP_MAX_SIZE % PageSize = 0
    /\ USER_HEAP_START + USER_HEAP_MAX_SIZE <= UserPages * PageSize
    /\ USER_STACK_PAGES * PageSize <= USER_STACK_TOP /\ USER_STACK_TOP <= UserPages * PageSize
    /\ Increments \subseteq Nat
    /\ Images \subseteq [ok : BOOLEAN, loads : BOOLEAN, segs : Seq(Segments)]
    /\ BootCaps \in [CapIndex -> Caps]

VARIABLES
    state,      \* per process: "unused", "reserved", "suspended", "ready", "running", "evicted", "dead"
    parent,
    space,      \* per process: the frame of each node, or None
    heap_end,
    region,     \* bytes the process's own heap allocator believes it has
    caps,       \* per process: its capability table
    current,    \* per core: the process it runs, or None
    op,         \* per core: the call in progress
    lost        \* frames nobody refers to any more

procVars == <<state, parent, space, heap_end, region, caps, current>>
vars == <<frameVars, procVars, op, lost>>

\* The call of a core: where it is, the process it works on, the segments and pages
\* still to map, the data frame in hand, the new break, the capability to insert, the
\* address spaces to drop.
Op(pc) == [pc |-> pc, p |-> None, segs |-> <<>>, todo |-> <<>>, frame |-> None,
           end |-> None, cap |-> None, drops |-> <<>>]

\* A process's own memory is nothing but its own tree.
Empty == [n \in Nodes |-> None]
NoCaps == [i \in CapIndex |-> None]

\* A call is over: back to ring 3, or to the idle loop.
Return(c) == op' = [op EXCEPT ![c] = Op(IF current[c] = None THEN "idle" ELSE "user")]

Calls(c) == op[c].pc = "user"
-----------------------------------------------------------------------------
(* Mapping a page.                                                         *)

page_of(addr) == addr \div PageSize
align_up(addr) == div_ceil(addr, PageSize) * PageSize
PagesOf(from, to) == [k \in 1..(page_of(to - 1) - page_of(from) + 1) |-> page_of(from) + k - 1]

\* The tables map_to finds missing on the way to page v.
Missing(sp, v) == {<<l, v \div Fanout^l>> : l \in 1..Levels} \ {n \in Nodes : sp[n] # None}

\* An error: sys_sbrk just returns it. A spawn drops the address space it was building
\* and releases the reservation. The data frame in hand is forgotten.
Fail(c) ==
    LET o == op[c] IN
    /\ lost' = lost \union ({o.frame} \ {None})
    /\ IF o.end = None
       THEN op' = [op EXCEPT ![c] = [Op("drop") EXCEPT !.drops = <<o.p>>]]
       ELSE Return(c)
    /\ UNCHANGED procVars

\* allocate_frame for the next page of the list.
allocate_page(c) ==
    LET o == op[c] IN
    /\ o.pc = "page" /\ o.todo # <<>>
    /\ allocate_frame
    /\ \/ /\ Allocated # None
          /\ op' = [op EXCEPT ![c].frame = Allocated, ![c].pc = "map"]
          /\ UNCHANGED <<procVars, lost>>
       \/ Allocated = None /\ Fail(c)

\* map_to: missing tables are created from the top, one allocation each, and stay when
\* a later one fails; then the page is entered unless it is already there.
map_to(c) ==
    LET o == op[c]
        v == Head(o.todo)
        missing == Missing(space[o.p], v)
        next == CHOOSE n \in missing : \A m \in missing : n[1] >= m[1]
    IN
    /\ o.pc = "map"
    /\ \/ /\ missing # {} /\ Allocated # None
          /\ allocate_frame
          /\ space' = [space EXCEPT ![o.p][next] = Allocated]
          /\ UNCHANGED <<state, parent, heap_end, region, caps, current, op, lost>>
       \/ /\ IF missing # {} THEN Allocated = None ELSE space[o.p][<<0, v>>] # None
          /\ Fail(c)
          /\ UNCHANGED frameVars
       \/ /\ missing = {} /\ space[o.p][<<0, v>>] = None
          /\ space' = [space EXCEPT ![o.p][<<0, v>>] = o.frame]
          /\ op' = [op EXCEPT ![c].frame = None, ![c].todo = Tail(o.todo), ![c].pc = "page"]
          /\ UNCHANGED <<frameVars, state, parent, heap_end, region, caps, current, lost>>
-----------------------------------------------------------------------------
(* Building a process.                                                     *)

Segment(kind, from, size) ==
    [kind |-> kind, p_vaddr |-> from, p_memsz |-> size, p_filesz |-> 0, file_end |-> 0, len |-> 0]

Stack == Segment("stack", USER_STACK_TOP - USER_STACK_PAGES * PageSize, USER_STACK_PAGES * PageSize)

\* What from_elf maps: nothing once the header checks of load fail, else the segments
\* and then the user stack of Process::new.
Work(img) == IF img.ok THEN img.segs \o <<Stack>> ELSE <<Segment("bad", 0, 1)>>

\* load's filter and load_segment's range checks.
Skipped(seg) == seg.kind = "note" \/ seg.p_memsz = 0
Accepted(seg) ==
    \/ seg.kind = "stack"
    \/ /\ seg.kind = "load"
       /\ seg.p_vaddr >= USER_SPACE_MIN /\ seg.p_vaddr + seg.p_memsz <= USER_HEAP_START
       /\ seg.p_filesz <= seg.p_memsz
       /\ seg.file_end <= seg.len

\* allocate_pid takes a free slot for the child.
sys_spawn(c, img) ==
    /\ Calls(c)
    /\ \E p \in Procs :
        /\ state[p] = "unused" /\ \A q \in Procs : q < p => state[q] # "unused"
        /\ state' = [state EXCEPT ![p] = "reserved"]
        /\ parent' = [parent EXCEPT ![p] = current[c]]
        /\ op' = [op EXCEPT ![c] = [Op("image") EXCEPT !.p = p, !.segs = Work(img)]]
    /\ UNCHANGED <<frameVars, space, heap_end, region, caps, current, lost>>

\* AddressSpace::new.
new_space(c) ==
    LET p == op[c].p IN
    /\ op[c].pc = "image"
    /\ allocate_frame
    /\ \/ /\ Allocated # None
          /\ space' = [space EXCEPT ![p][Root] = Allocated]
          /\ op' = [op EXCEPT ![c].pc = "segment"]
          /\ UNCHANGED <<state, parent>>
       \/ /\ Allocated = None
          /\ state' = [state EXCEPT ![p] = "unused"]
          /\ parent' = [parent EXCEPT ![p] = None]
          /\ Return(c)
          /\ UNCHANGED space
    /\ UNCHANGED <<heap_end, region, caps, current, lost>>

load_segment(c) ==
    LET o == op[c]
        seg == Head(o.segs)
    IN
    /\ o.pc = "segment" /\ o.segs # <<>>
    /\ \/ /\ Skipped(seg)
          /\ op' = [op EXCEPT ![c].segs = Tail(o.segs)]
          /\ UNCHANGED <<procVars, lost>>
       \/ /\ ~Skipped(seg) /\ Accepted(seg)
          /\ op' = [op EXCEPT ![c].segs = Tail(o.segs), ![c].pc = "page",
                              ![c].todo = PagesOf(seg.p_vaddr, seg.p_vaddr + seg.p_memsz)]
          /\ UNCHANGED <<procVars, lost>>
       \/ ~Skipped(seg) /\ ~Accepted(seg) /\ Fail(c)
    /\ UNCHANGED frameVars

segment_done(c) ==
    /\ op[c].pc = "page" /\ op[c].todo = <<>> /\ op[c].end = None
    /\ op' = [op EXCEPT ![c].pc = "segment"]
    /\ UNCHANGED <<frameVars, procVars, lost>>

\* spawn_suspended, or spawn for the process boot creates.
publish(c) ==
    LET p == op[c].p IN
    /\ op[c].pc = "segment" /\ op[c].segs = <<>>
    /\ state' = [state EXCEPT ![p] = IF p = InitProc THEN "ready" ELSE "suspended"]
    /\ Return(c)
    /\ UNCHANGED <<frameVars, parent, space, heap_end, region, caps, current, lost>>
-----------------------------------------------------------------------------
(* Capabilities.                                                           *)

\* Mutant of may_grant: the rights asked for are not compared.
GrantAnything(p, i, rights) == caps[p][i] # None

\* CapTable::get and Rights::contains.
may_grant(p, i, rights) == caps[p][i] # None /\ rights \subseteq caps[p][i].rights

\* sys_grant's first critical section resolves the caller's capability ...
grant_resolve(c, t, i, j, rights) ==
    /\ Calls(c) /\ may_grant(current[c], i, rights)
    /\ op' = [op EXCEPT ![c] = [Op("grant") EXCEPT !.p = t,
                 !.cap = [at |-> j, object |-> caps[current[c]][i].object, rights |-> rights]]]
    /\ UNCHANGED <<frameVars, procVars, lost>>

\* ... its second inserts the copy, if the target still is a suspended child.
grant_insert(c) ==
    LET o == op[c] IN
    /\ o.pc = "grant"
    /\ caps' = IF parent[o.p] = current[c] /\ state[o.p] = "suspended"
               THEN [caps EXCEPT ![o.p][o.cap.at] = [object |-> o.cap.object, rights |-> o.cap.rights]]
               ELSE caps
    /\ Return(c)
    /\ UNCHANGED <<frameVars, state, parent, space, heap_end, region, current, lost>>

sys_process_start(c, t) ==
    /\ Calls(c) /\ parent[t] = current[c] /\ state[t] = "suspended"
    /\ state' = [state EXCEPT ![t] = "ready"]
    /\ UNCHANGED <<frameVars, parent, space, heap_end, region, caps, current, op, lost>>
-----------------------------------------------------------------------------
(* The heap.                                                               *)

\* Mutant of TopOf: rounded down, the last page is not mapped.
TopRoundsDown(end) == page_of(end) * PageSize

\* old_top and new_top.
TopOf(end) == align_up(end)

\* sys_sbrk up to its loop. A negative or excessive increment changes nothing.
sys_sbrk(c, n) ==
    LET p == current[c]
        new_end == heap_end[p] + n
    IN
    /\ Calls(c)
    /\ new_end - USER_HEAP_START <= USER_HEAP_MAX_SIZE
    /\ op' = [op EXCEPT ![c] = [Op("page") EXCEPT !.p = p, !.end = new_end,
                 !.todo = PagesOf(TopOf(heap_end[p]), TopOf(new_end))]]
    /\ UNCHANGED <<frameVars, procVars, lost>>

\* Every page is mapped: the break moves, and UserHeap::grow hands the new bytes to
\* the allocator of the process before it does anything else.
sbrk_done(c) ==
    LET o == op[c] IN
    /\ o.pc = "page" /\ o.todo = <<>> /\ o.end # None
    /\ heap_end' = [heap_end EXCEPT ![o.p] = o.end]
    /\ region' = [region EXCEPT ![o.p] = @ + (o.end - heap_end[o.p])]
    /\ Return(c)
    /\ UNCHANGED <<frameVars, state, parent, space, caps, current, lost>>
-----------------------------------------------------------------------------
(* Death, and the scheduling that decides who may be killed. The eviction  *)
(* handshake is modelled in full in module Scheduler.                      *)

dispatch(c) ==
    /\ op[c].pc = "idle"
    /\ \E p \in Procs :
        /\ state[p] = "ready"
        /\ state' = [state EXCEPT ![p] = "running"]
        /\ current' = [current EXCEPT ![c] = p]
    /\ op' = [op EXCEPT ![c] = Op("user")]
    /\ UNCHANGED <<frameVars, parent, space, heap_end, region, caps, lost>>

\* A timer tick or a yield; the reschedule IPI of a kill keeps the process off the queue.
preempt(c) ==
    LET p == current[c]
        wanted == \E d \in Cores : op[d].pc = "kill" /\ op[d].p = p
    IN
    /\ Calls(c)
    /\ state' = [state EXCEPT ![p] = IF wanted THEN "evicted" ELSE "ready"]
    /\ current' = [current EXCEPT ![c] = None]
    /\ op' = [op EXCEPT ![c] = Op("idle")]
    /\ UNCHANGED <<frameVars, parent, space, heap_end, region, caps, lost>>

\* take_and_finalize_slot and reap_children_of: p and its suspended children leave the
\* table, the other children lose their parent; the core is left with the spaces to drop.
Dying(p) == {p} \union {q \in Procs : parent[q] = p /\ state[q] = "suspended"}

\* pending_drops: the children in table order, then p.
DropOrders(p) ==
    LET n == Cardinality(Dying(p)) IN
    {order \in Bijection(1..n, Dying(p)) :
        order[n] = p /\ \A i, j \in 1..(n - 1) : i < j => order[i] < order[j]}

Finalize(c, p) ==
    /\ state' = [q \in Procs |-> IF q \in Dying(p) THEN "dead" ELSE state[q]]
    /\ parent' = [q \in Procs |-> IF q \in Dying(p) \/ parent[q] = p THEN None ELSE parent[q]]
    /\ caps' = [q \in Procs |-> IF q \in Dying(p) THEN NoCaps ELSE caps[q]]
    /\ current' = [d \in Cores |-> IF current[d] = p THEN None ELSE current[d]]
    /\ \E order \in DropOrders(p) : op' = [op EXCEPT ![c] = [Op("drop") EXCEPT !.drops = order]]
    /\ UNCHANGED <<frameVars, space, heap_end, region, lost>>

\* SYS_EXIT or a fault: the spaces are dropped once CR3 has moved on.
exit(c) == Calls(c) /\ Finalize(c, current[c])

sys_kill(c, t) ==
    /\ Calls(c) /\ parent[t] = current[c] /\ state[t] \in {"suspended", "ready", "running"}
    /\ op' = [op EXCEPT ![c] = [Op("kill") EXCEPT !.p = t]]
    /\ UNCHANGED <<frameVars, procVars, lost>>

\* Mutant of NotRunning: the scan of `current` is dropped.
KillAnyway(t) == TRUE

\* terminate_process goes on only when no core runs the target.
NotRunning(t) == \A d \in Cores : current[d] # t

kill_finish(c) ==
    LET t == op[c].p IN
    /\ op[c].pc = "kill" /\ NotRunning(t)
    /\ \/ parent[t] = current[c] /\ Finalize(c, t)
       \/ parent[t] # current[c] /\ Return(c) /\ UNCHANGED <<frameVars, procVars, lost>>

\* Mutant of NextFreed: a table is freed before the entries below it are read.
FreedTopDown(sp) ==
    CHOOSE n \in Nodes : sp[n] # None /\ \A m \in Nodes : sp[m] # None => n[1] >= m[1]

\* Drop for AddressSpace: free_table_subtree walks depth first, left to right, and
\* frees a table after its entries; the PML4 goes last.
NextFreed(sp) ==
    LET leaves == {n \in Nodes : sp[n] # None /\ \A m \in Nodes : sp[m] # None => Parent(m) # n}
    IN CHOOSE n \in leaves : \A m \in leaves : n[2] * Fanout^n[1] <= m[2] * Fanout^m[1]

drop_frame(c) ==
    LET p == Head(op[c].drops)
        n == NextFreed(space[p])
    IN
    /\ op[c].pc = "drop" /\ op[c].drops # <<>> /\ space[p] # Empty
    /\ deallocate_frame(space[p][n])
    /\ space' = [space EXCEPT ![p][n] = None]
    /\ UNCHANGED <<state, parent, heap_end, region, caps, current, op, lost>>

\* A space is gone, and with it the process; a failed spawn releases its reservation.
\* A later process of the same number is a new one: pids carry generations.
drop_next(c) ==
    LET p == Head(op[c].drops) IN
    /\ op[c].pc = "drop" /\ op[c].drops # <<>> /\ space[p] = Empty
    /\ state' = [state EXCEPT ![p] = "unused"]
    /\ parent' = [parent EXCEPT ![p] = None]
    /\ heap_end' = [heap_end EXCEPT ![p] = USER_HEAP_START]
    /\ region' = [region EXCEPT ![p] = 0]
    /\ op' = [op EXCEPT ![c].drops = Tail(@)]
    /\ UNCHANGED <<frameVars, space, caps, current, lost>>

drop_done(c) ==
    /\ op[c].pc = "drop" /\ op[c].drops = <<>>
    /\ Return(c)
    /\ UNCHANGED <<frameVars, procVars, lost>>
-----------------------------------------------------------------------------
\* Boot has reserved a slot for init and given it its capabilities.
Init ==
    /\ FramesInit
    /\ state = [p \in Procs |-> IF p = InitProc THEN "reserved" ELSE "unused"]
    /\ parent = [p \in Procs |-> None]
    /\ space = [p \in Procs |-> Empty]
    /\ heap_end = [p \in Procs |-> USER_HEAP_START]
    /\ region = [p \in Procs |-> 0]
    /\ caps = [p \in Procs |-> IF p = InitProc THEN BootCaps ELSE NoCaps]
    /\ current = [c \in Cores |-> None]
    /\ \E img \in {i \in Images : i.loads} :
        op = [c \in Cores |-> IF c = Bsp
                              THEN [Op("image") EXCEPT !.p = InitProc, !.segs = Work(img)]
                              ELSE Op("idle")]
    /\ lost = {}

Next ==
    \E c \in Cores :
        \/ allocate_page(c) \/ map_to(c)
        \/ (\E img \in Images : sys_spawn(c, img))
        \/ new_space(c) \/ load_segment(c) \/ segment_done(c) \/ publish(c)
        \/ (\E t \in Procs, i, j \in CapIndex, rights \in SUBSET Rights :
              grant_resolve(c, t, i, j, rights))
        \/ grant_insert(c)
        \/ (\E t \in Procs : sys_process_start(c, t) \/ sys_kill(c, t))
        \/ (\E n \in Increments : sys_sbrk(c, n))
        \/ sbrk_done(c) \/ dispatch(c) \/ preempt(c) \/ exit(c) \/ kill_finish(c)
        \/ drop_frame(c) \/ drop_next(c) \/ drop_done(c)

Spec == Init /\ [][Next]_vars
-----------------------------------------------------------------------------
(* Properties.                                                             *)

Live(p) == state[p] \in {"suspended", "ready", "running", "evicted"}

HeapEnds == USER_HEAP_START..(USER_HEAP_START + USER_HEAP_MAX_SIZE)

Places == {"idle", "user", "image", "segment", "page", "map", "grant", "kill", "drop"}
Grants == [at : CapIndex, object : {x.object : x \in Caps \ {None}}, rights : SUBSET Rights]
Loads == Segments \union {Stack, Segment("bad", 0, 1)}
Pages == 0..(UserPages - 1)

Calling == [pc : Places, p : Procs \union {None}, segs : Seq(Loads), todo : Seq(Pages),
            frame : Frames \union {None}, end : HeapEnds \union {None},
            cap : Grants \union {None}, drops : Seq(Procs)]

\* Every variable has its type: in particular no break leaves the heap's range, and no
\* call maps a page outside the user half.
TypeOK ==
    /\ bitmap \subseteq Frames /\ usable \subseteq Frames /\ frame_count \in 0..CAPACITY
    /\ state \in [Procs -> {"unused", "reserved", "suspended", "ready", "running", "evicted", "dead"}]
    /\ parent \in [Procs -> Procs \union {None}]
    /\ space \in [Procs -> [Nodes -> Frames \union {None}]]
    /\ heap_end \in [Procs -> HeapEnds] /\ region \in [Procs -> Int]
    /\ caps \in [Procs -> [CapIndex -> Caps]]
    /\ current \in [Cores -> Procs \union {None}]
    /\ op \in [Cores -> Calling]
    /\ lost \subseteq Frames

\* Who refers to frame f: entries of page tables, a core about to map it, the bitmap.
Owners(f) ==
    {x \in Procs \X Nodes : space[x[1]][x[2]] = f}
    \union {<<c>> : c \in {d \in Cores : op[d].frame = f}}
    \union (IF f \in bitmap THEN {<<>>} ELSE {})

\* Across concurrent spawns, sbrks, kills and exits on several cores, each usable
\* frame has exactly one owner: no frame is mapped twice, freed twice or freed while
\* mapped, none of deallocate_frame's assertions can fire, and no frame is leaked
\* except the data frame of a map_to that failed (which is `lost`). A frame is usable
\* when all of it is, also where a region of the firmware's map starts or ends inside
\* a frame or lies beyond the bitmap.
FramesAccounted ==
    /\ TypeOK
    /\ \A f \in usable : Cardinality(Owners(f)) = IF f \in lost THEN 0 ELSE 1
    /\ \A f \in Frames \ usable : Owners(f) = {}
    /\ \A f \in usable : \E e \in MemoryMap :
        e.usable /\ e.base <= f * FrameSize /\ (f + 1) * FrameSize <= e.base + e.length

\* A table is there as long as anything below it is: no walk (map_to on one core,
\* Drop on another) reads a table that has already gone back to the allocator.
TablesOutliveEntries ==
    \A p \in Procs, n \in Nodes \ {Root} : space[p][n] # None => space[p][Parent(n)] # None

\* sys_sbrk and sys_spawn use a PML4 they read in an earlier critical section: it still
\* belongs to a process that nobody has finalized, whatever kills other cores attempt.
GapIsSafe ==
    \A c \in Cores : op[c].pc \in {"segment", "page", "map"} =>
        /\ state[op[c].p] \in {"reserved", "running"}
        /\ space[op[c].p][Root] # None
        /\ op[c].end # None => current[c] = op[c].p

\* Every byte the user heap was given is mapped, after any mix of grown, failed and
\* repeated sbrk calls, and the runtime's idea of the heap agrees with the break.
HeapBacked ==
    \A p \in Procs : Live(p) =>
        /\ region[p] = heap_end[p] - USER_HEAP_START
        /\ \A a \in USER_HEAP_START..(heap_end[p] - 1) : space[p][<<0, page_of(a)>>] # None

\* Some capability of the table is as good as cap.
Covers(table, cap) ==
    \E j \in CapIndex :
        table[j] # None /\ table[j].object = cap.object /\ cap.rights \subseteq table[j].rights

\* Rights only shrink on their way down: what a process holds, its parent holds too
\* (while alive), with at least those rights, although the grant's two critical
\* sections may be separated by other grants, starts and deaths; what a grant carries
\* from the one to the other its caller still holds; and nobody holds what boot did
\* not give out.
AuthorityBounded ==
    /\ \A p \in Procs, i \in CapIndex : caps[p][i] # None =>
        /\ Covers(BootCaps, caps[p][i])
        /\ parent[p] # None => Covers(caps[parent[p]], caps[p][i])
    /\ \A c \in Cores : op[c].pc = "grant" =>
        Covers(BootCaps, op[c].cap) /\ Covers(caps[current[c]], op[c].cap)

\* What the place of call o says of its data and of p, the core's current process: calls
\* of ring 3 have a caller, sys_sbrk works on its caller, a frame is in hand only on its
\* way into the page table.
Fits(o, p) ==
    /\ o.pc = "idle" => p = None
    /\ o.pc \in {"user", "grant", "kill"} => p # None
    /\ o.end # None => o.pc \in {"page", "map"} /\ p # None /\ o.p = p
    /\ o.pc \in {"image", "segment", "page", "map", "grant", "kill"} => o.p # None
    /\ o.pc = "grant" => o.cap \in Grants
    /\ o.pc = "map" <=> o.frame # None
    /\ o.pc = "map" => o.todo # <<>>
    /\ \A i, j \in DOMAIN o.drops : o.drops[i] = o.drops[j] => i = j

CallInProgress == \A c \in Cores : Fits(op[c], current[c])

\* The processes that call o is building or tearing down.
Builds(o) == o.pc \in {"image", "segment", "page", "map"} /\ o.end = None
InHand(o) ==
    {q \in Procs : \/ Builds(o) /\ o.p = q
                   \/ o.pc = "drop" /\ \E k \in DOMAIN o.drops : o.drops[k] = q}

States(o) == IF o.pc = "drop" THEN {"reserved", "dead"} ELSE {"reserved"}

\* No two cores build or tear down one process, and nobody runs it meanwhile.
HandsApart ==
    \A c \in Cores :
        /\ \A q \in InHand(op[c]) : state[q] \in States(op[c])
        /\ \A d \in Cores \ {c} : InHand(op[c]) \cap InHand(op[d]) = {}

\* Their parent, if any, is the process whose call that is.
BuiltForCaller ==
    \A c \in Cores : \A q \in InHand(op[c]) : parent[q] \in {None, current[c]}

\* A core's current process is running, there and nowhere else.
CurrentRuns ==
    \A c \in Cores : current[c] # None =>
        state[current[c]] = "running" /\ \A d \in Cores \ {c} : current[d] # current[c]

\* A process that has children has been started and is not finalized.
ParentLives ==
    \A q \in Procs : parent[q] # None => state[parent[q]] \in {"ready", "running", "evicted"}

\* A process outside the table holds nothing: only init is given capabilities before it
\* is there, and nothing else happens until it is.
CapsHeld ==
    \A p \in Procs : caps[p] # NoCaps /\ ~Live(p) =>
        /\ p = InitProc /\ \A c \in Cores : current[c] = None
        /\ \A q \in Procs \ {InitProc} : state[q] = "unused"

\* A process in the table has its PML4.
RootThere == \A p \in Procs : Live(p) => space[p][Root] # None

\* The inductive invariant of calls and processes: who works on what, and who is whose
\* parent, is what grants, kills and address spaces depend on.
MemoryInv ==
    /\ TypeOK /\ CallInProgress
    /\ HandsApart /\ BuiltForCaller /\ CurrentRuns /\ ParentLives
    /\ CapsHeld /\ AuthorityBounded
    /\ RootThere /\ GapIsSafe

\* An address space is empty until its PML4 is allocated, and when its slot is free.
SpaceEmpty ==
    /\ \A p \in Procs : state[p] = "unused" => space[p] = Empty
    /\ \A c \in Cores : op[c].pc = "image" => space[op[c].p] = Empty

\* The heap pages below the rounded-up break e, and those of them process p lacks.
HeapPages(e) == page_of(USER_HEAP_START)..(page_of(TopOf(e)) - 1)
Unbacked(p, e) == {v \in HeapPages(e) : space[p][<<0, v>>] = None}

\* The heap between two calls, before the first, and while a sys_sbrk maps pages.
HeapGrows ==
    /\ \A p \in Procs : state[p] \in {"unused", "reserved"} => heap_end[p] = USER_HEAP_START /\ region[p] = 0
    /\ \A p \in Procs : Live(p) =>
        region[p] = heap_end[p] - USER_HEAP_START /\ Unbacked(p, heap_end[p]) = {}
    /\ \A c \in Cores : op[c].end # None =>
        \A v \in Unbacked(op[c].p, op[c].end) : \E k \in DOMAIN op[c].todo : op[c].todo[k] = v

\* The inductive invariant of frames and page tables.
SpaceInv == MemoryInv /\ SpaceEmpty /\ HeapGrows /\ usable = Populated

\* "nothing beyond that rounded-up page is ever mapped ahead of need" (heap_end's
\* comment in task/process.rs): no heap page beyond the break is mapped, outside a
\* sys_sbrk in progress.
NothingAheadOfNeed ==
    \A p \in Procs : Live(p) /\ (\A c \in Cores : op[c].p = p => op[c].end = None) =>
        \A v \in page_of(USER_HEAP_START)..page_of(USER_HEAP_START + USER_HEAP_MAX_SIZE - 1) :
            v * PageSize >= TopOf(heap_end[p]) => space[p][<<0, v>>] = None
=============================================================================
