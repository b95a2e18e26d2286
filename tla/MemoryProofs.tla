---------------------------- MODULE MemoryProofs ----------------------------
(***************************************************************************)
(* Calls on different cores do not get in each other's way, and no frame is*)
(* lost, shared or freed twice, for any number of cores, processes, frames *)
(* and table levels.                                                       *)
(*                                                                         *)
(* First, every step keeps MemoryInv: who works on which process, and whose*)
(* child it is. Then every step is a Move, which takes at most one frame   *)
(* from one owner to another; Move keeps the ledger of frames and the order*)
(* of page tables. The heap's pages follow from SpaceInv.                  *)
(***************************************************************************)
EXTENDS Memory, FiniteSetTheorems, WellFoundedInduction, TLAPS

\* Most leaves are first-order: try Zenon before the SMT solver.
USE ZenonT(15), SMTT(60)

(***************************************************************************)
(* Facts about the operators.                                              *)
(***************************************************************************)

\* The least-number principle.
LEMMA LeastLemma ==
    ASSUME NEW T \in SUBSET Nat, T # {}
    PROVE  \E x \in T : \A y \in T : x <= y
<1>1. PICK x \in T : \A y \in T : ~(<<y, x>> \in OpToRel(<, Nat))
    BY NatLessThanWellFounded, WFMin
<1>2. \A y \in T : ~(y < x)
    BY <1>1 DEF OpToRel
<1> QED BY <1>2, SMTT(30)

\* None is neither a process nor a frame, and both are numbers.
LEMMA ProcsLemma ==
    /\ None \notin Procs /\ InitProc \in Procs
    /\ IsFiniteSet(Procs)
    /\ Frames \subseteq Nat /\ None \notin Frames /\ CAPACITY \in Nat /\ Frames = 0..(CAPACITY - 1)
<1>1. Procs = 0..(MaxProcs - 1) /\ MaxProcs \in Nat \ {0} /\ None \notin Nat
    BY MemoryAssumption, FrameAssumption DEF Procs
<1>2. CAPACITY \in Nat
    BY FrameAssumption, SMTT(30) DEF CAPACITY
<1>3. IsFiniteSet(Procs)
    BY <1>1, FS_Interval, SMTT(30)
<1> QED BY <1>1, <1>2, <1>3, SMTT(30) DEF InitProc, Frames

\* An allocation gives a free frame or none.
LEMMA AllocatedLemma ==
    ASSUME bitmap \subseteq Frames
    PROVE  Allocated = None \/ Allocated \in bitmap
<1>1. CASE Scanned # {}
  <2>1. Scanned \in SUBSET Nat
      BY ProcsLemma DEF Scanned
  <2>2. PICK x \in Scanned : \A y \in Scanned : x <= y
      BY <1>1, <2>1, LeastLemma
  <2> QED BY <1>1, <2>2 DEF Allocated, Scanned
<1>2. CASE Scanned = {}
    BY <1>2 DEF Allocated
<1> QED BY <1>1, <1>2

\* Every level's tables span a positive number of pages.
LEMMA PowerLemma == \A l \in 0..(Levels + 1) : Fanout^l \in Nat \ {0}
<1> SUFFICES ASSUME NEW l \in 0..(Levels + 1) PROVE Fanout^l \in Nat \ {0}
    OBVIOUS
<1>1. /\ Levels \in Nat /\ Fanout \in Nat \ {0}
      /\ \A k \in 0..Levels : Fanout^k \in Nat \ {0} /\ Fanout^(k + 1) = Fanout^k * Fanout
    BY MemoryAssumption
<1>2. CASE l \in 0..Levels
    BY <1>1, <1>2
<1>3. CASE l = Levels + 1
  <2>1. Fanout^Levels \in Nat \ {0} /\ Fanout^l = Fanout^Levels * Fanout
      BY <1>1, <1>3, SMTT(30)
  <2> QED BY <1>1, <2>1, SMTT(30)
<1> QED BY <1>1, <1>2, <1>3, SMTT(30)

\* Nodes are pairs; the levels below the PML4 are numbered from 0.
LEMMA NodeLemma ==
    /\ Root \in Nodes
    /\ \A n \in Nodes : /\ n = <<n[1], n[2]>> /\ n[1] \in 0..(Levels + 1) /\ n[1] \in Nat /\ n[2] \in Nat
                        /\ Fanout^n[1] \in Nat
<1>1. /\ Levels \in Nat /\ Fanout \in Nat \ {0} /\ UserPages \in Nat \ {0}
      /\ \A l \in 0..Levels : Fanout^l \in Nat \ {0} /\ Fanout^(l + 1) = Fanout^l * Fanout
    BY MemoryAssumption, SMTT(30)
<1>2. \A l \in 0..(Levels + 1) : Fanout^l \in Nat \ {0}
    BY PowerLemma
<1>3. \A l \in 0..(Levels + 1) : (UserPages - 1) \div Fanout^l \in Nat
    BY <1>1, <1>2, SMTT(30)
<1>4. Root \in Nodes
  <2> DEFINE l == Levels + 1
  <2>1. l \in 0..(Levels + 1) /\ Root \in {l} \X (0..((UserPages - 1) \div Fanout^l))
      BY <1>1, <1>3, SMTT(30) DEF Root
  <2> QED BY <2>1 DEF Nodes
<1>5. ASSUME NEW n \in Nodes
      PROVE  n = <<n[1], n[2]>> /\ n[1] \in 0..(Levels + 1) /\ n[2] \in Nat
  <2>1. PICK l \in 0..(Levels + 1) : n \in {l} \X (0..((UserPages - 1) \div Fanout^l))
      BY DEF Nodes
  <2>2. n = <<n[1], n[2]>> /\ n[1] = l /\ n[2] \in 0..((UserPages - 1) \div Fanout^l)
      BY <2>1, SMTT(30)
  <2> QED BY <2>1, <2>2, SMTT(30)
<1> QED BY <1>1, <1>2, <1>4, <1>5, SMTT(30)

\* Tear-down finds a node with nothing below it as long as there is one at all.
LEMMA NextFreedLemma ==
    ASSUME NEW sp \in [Nodes -> Frames \union {None}], sp # Empty
    PROVE  /\ NextFreed(sp) \in Nodes /\ sp[NextFreed(sp)] # None
           /\ \A m \in Nodes : sp[m] # None => Parent(m) # NextFreed(sp)
<1> DEFINE there == {n \in Nodes : sp[n] # None}
           leaves == {n \in Nodes : sp[n] # None /\ \A m \in Nodes : sp[m] # None => Parent(m) # n}
           place(n) == n[2] * Fanout^n[1]
<1>1. there # {}
    BY DEF Empty
<1>2. PICK n \in there : \A m \in there : n[1] <= m[1]
  <2> DEFINE levels == {n[1] : n \in there}
  <2>1. levels \in SUBSET Nat /\ levels # {}
    <3>1. \A x \in there : x[1] \in Nat
        BY NodeLemma
    <3> QED BY <1>1, <3>1
  <2>2. PICK l \in levels : \A k \in levels : l <= k
      BY <2>1, LeastLemma
  <2> QED BY <2>2
<1>3. n \in leaves
  <2>1. ASSUME NEW m \in there PROVE Parent(m) # n
    <3>1. Parent(m)[1] = m[1] + 1
        BY DEF Parent
    <3>2. n[1] \in Nat /\ m[1] \in Nat /\ n[1] <= m[1]
        BY <1>2, NodeLemma
    <3> QED BY <3>1, <3>2, SMTT(30)
  <2> QED BY <2>1
<1>4. PICK f \in leaves : \A m \in leaves : place(f) <= place(m)
  <2> DEFINE places == {place(x) : x \in leaves}
  <2>1. \A x \in leaves : place(x) \in Nat
    <3>1. \A x \in leaves : x[2] \in Nat /\ Fanout^x[1] \in Nat
        BY NodeLemma
    <3> QED BY <3>1, SMTT(30)
  <2>2. places \in SUBSET Nat /\ places # {}
      BY <1>3, <2>1
  <2> HIDE DEF place
  <2>3. PICK l \in places : \A k \in places : l <= k
      BY <2>2, LeastLemma
  <2> QED BY <2>3
<1>5. NextFreed(sp) = CHOOSE x \in leaves : \A m \in leaves : place(x) <= place(m)
    BY DEF NextFreed
<1>6. NextFreed(sp) \in leaves
    BY <1>4, <1>5
<1> QED BY <1>6

\* Division rounds down.
LEMMA DivLemma ==
    ASSUME NEW a \in Int, NEW b \in Nat \ {0}
    PROVE  a \div b \in Int /\ b * (a \div b) <= a /\ a < b * (a \div b) + b
    BY SMTT(30)

\* A positive factor can be cancelled.
LEMMA MonoLemma ==
    ASSUME NEW b \in Nat \ {0}, NEW x \in Int, NEW y \in Int
    PROVE  (b * x < b * y) => x < y
    BY SMTT(30)

\* Division keeps the order.
LEMMA DivMono ==
    ASSUME NEW a \in Int, NEW c \in Int, NEW b \in Nat \ {0}, a <= c
    PROVE  a \div b <= c \div b
    BY SMTT(30)

\* The pages of a range below the end of the user half are pages of the user half.
LEMMA PagesLemma ==
    ASSUME NEW from \in Nat, NEW to \in Nat, to <= UserPages * PageSize
    PROVE  PagesOf(from, to) \in Seq(Pages)
<1> DEFINE p == page_of(from)
           q == page_of(to - 1)
<1>1. PageSize \in Nat \ {0} /\ UserPages \in Nat \ {0}
    BY MemoryAssumption, SMTT(30)
<1>2. p \in Nat /\ q \in Int
    BY <1>1, SMTT(30) DEF page_of
<1>3. q < UserPages
  <2>1. q \in Int /\ PageSize * q <= to - 1
      BY <1>1, DivLemma, SMTT(30) DEF page_of
  <2>2. PageSize * q < PageSize * UserPages
      BY <1>1, <2>1, SMTT(30)
  <2> QED BY <1>1, <2>1, <2>2, MonoLemma, SMTT(30)
<1> HIDE DEF p, q
<1>4. PagesOf(from, to) = [k \in 1..(q - p + 1) |-> p + k - 1]
    BY DEF PagesOf, p, q
<1>5. CASE q - p + 1 >= 0
  <2>1. q - p + 1 \in Nat
      BY <1>2, <1>5, SMTT(30)
  <2>2. \A k \in 1..(q - p + 1) : p + k - 1 \in Pages
      BY <1>1, <1>2, <1>3, SMTT(30) DEF Pages
  <2> QED BY <1>4, <2>1, <2>2, SMTT(30)
<1>6. CASE q - p + 1 < 0
  <2>1. 1..(q - p + 1) = 1..0
      BY <1>2, <1>6, SMTT(30)
  <2>2. PagesOf(from, to) = [k \in 1..0 |-> p + k - 1]
      BY <1>4, <2>1
  <2> QED BY <2>2, SMTT(30)
<1> QED BY <1>2, <1>5, <1>6, SMTT(30)

\* The rounded-up break stays in the heap's range, which ends at a page boundary.
LEMMA TopLemma ==
    ASSUME NEW e \in HeapEnds
    PROVE  /\ e \in Nat /\ TopOf(e) \in Nat /\ e <= TopOf(e)
           /\ TopOf(e) <= USER_HEAP_START + USER_HEAP_MAX_SIZE
           /\ TopOf(e) <= UserPages * PageSize
<1> DEFINE E == USER_HEAP_START + USER_HEAP_MAX_SIZE
           q == (e + PageSize - 1) \div PageSize
           k == E \div PageSize
<1>1. /\ PageSize \in Nat \ {0} /\ USER_HEAP_START \in Nat /\ USER_HEAP_MAX_SIZE \in Nat
      /\ E <= UserPages * PageSize /\ USER_HEAP_START % PageSize = 0 /\ USER_HEAP_MAX_SIZE % PageSize = 0
    BY MemoryAssumption
<1>2. e \in Nat /\ e <= E /\ E \in Nat
    BY <1>1, SMTT(30) DEF HeapEnds
<1>3. q \in Int /\ PageSize * q <= e + PageSize - 1 /\ e + PageSize - 1 < PageSize * q + PageSize
  <2>1. e + PageSize - 1 \in Int
      BY <1>1, <1>2, SMTT(30)
  <2> QED BY <1>1, <2>1, DivLemma
<1>4. E = PageSize * k /\ k \in Int
  <2> DEFINE s == USER_HEAP_START \div PageSize
             m == USER_HEAP_MAX_SIZE \div PageSize
  <2>1. USER_HEAP_START = PageSize * s /\ USER_HEAP_MAX_SIZE = PageSize * m /\ s \in Int /\ m \in Int
      BY <1>1, SMTT(30)
  <2>2. E = PageSize * (s + m)
      BY <1>1, <2>1, SMTT(60)
  <2>3. k \in Int /\ PageSize * k <= E /\ E < PageSize * k + PageSize
      BY <1>1, <1>2, DivLemma, SMTT(30)
  <2>4. PageSize * k < PageSize * (s + m + 1) /\ PageSize * (s + m) < PageSize * (k + 1)
      BY <1>1, <2>1, <2>2, <2>3, SMTT(30)
  <2>5. k < s + m + 1 /\ s + m < k + 1
      BY <1>1, <2>1, <2>3, <2>4, MonoLemma, SMTT(30)
  <2> QED BY <2>1, <2>2, <2>3, <2>5, SMTT(30)
<1>5. TopOf(e) = q * PageSize
    BY DEF TopOf, align_up, div_ceil
<1> HIDE DEF E, q, k
<1>6. q <= k
  <2>1. PageSize * q < PageSize * (k + 1)
      BY <1>1, <1>2, <1>3, <1>4, SMTT(30)
  <2>2. q < k + 1
      BY <1>1, <1>3, <1>4, <2>1, MonoLemma, SMTT(30)
  <2> QED BY <1>3, <1>4, <2>2, SMTT(30)
<1>7. q * PageSize <= E
    BY <1>1, <1>3, <1>4, <1>6, SMTT(30)
<1>8. q * PageSize \in Nat /\ e <= q * PageSize
    BY <1>1, <1>2, <1>3, SMTT(30)
<1>9. TopOf(e) <= UserPages * PageSize
    BY <1>1, <1>2, <1>5, <1>7, <1>8, MemoryAssumption, SMTT(30)
<1> QED BY <1>2, <1>5, <1>7, <1>8, <1>9 DEF E

\* map_to enters nodes of the tree, and creates the topmost missing table first.
LEMMA MissingLemma ==
    ASSUME NEW sp \in [Nodes -> Frames \union {None}], NEW v \in Pages
    PROVE  /\ <<0, v>> \in Nodes
           /\ \A n \in Missing(sp, v) : n \in Nodes /\ sp[n] = None
           /\ Missing(sp, v) # {} =>
                LET next == CHOOSE n \in Missing(sp, v) : \A m \in Missing(sp, v) : n[1] >= m[1]
                IN  next \in Missing(sp, v) /\ \A m \in Missing(sp, v) : next[1] >= m[1]
<1> DEFINE missing == Missing(sp, v)
<1>1. Levels \in Nat /\ UserPages \in Nat \ {0} /\ Fanout^0 = 1 /\ v \in 0..(UserPages - 1)
    BY MemoryAssumption, SMTT(30) DEF Pages
<1>2. ASSUME NEW l \in 0..(Levels + 1) PROVE <<l, v \div Fanout^l>> \in Nodes
  <2>1. Fanout^l \in Nat \ {0}
      BY PowerLemma
  <2>2. v \div Fanout^l \in 0..((UserPages - 1) \div Fanout^l)
      BY <1>1, <2>1, DivMono, SMTT(30)
  <2>3. <<l, v \div Fanout^l>> \in {l} \X (0..((UserPages - 1) \div Fanout^l))
      BY <2>2
  <2> QED BY <2>3 DEF Nodes
<1>3. <<0, v>> \in Nodes
  <2>1. v \div Fanout^0 = v
      BY <1>1, SMTT(30)
  <2> QED BY <1>1, <1>2, <2>1, SMTT(30)
<1>4. ASSUME NEW n \in missing PROVE n \in Nodes /\ sp[n] = None /\ n[1] \in 1..Levels
  <2>1. PICK l \in 1..Levels : n = <<l, v \div Fanout^l>>
      BY DEF Missing
  <2>2. l \in 0..(Levels + 1)
      BY <1>1, SMTT(60)
  <2>3. n \in Nodes
      BY <1>2, <2>1, <2>2
  <2> QED BY <2>1, <2>3 DEF Missing
<1>5. ASSUME missing # {} PROVE \E n \in missing : \A m \in missing : n[1] >= m[1]
  <2> DEFINE depths == {Levels - n[1] : n \in missing}
  <2>1. depths \in SUBSET Nat /\ depths # {}
      BY <1>1, <1>4, <1>5, SMTT(30)
  <2>2. PICK x \in depths : \A y \in depths : x <= y
      BY <2>1, LeastLemma
  <2>3. PICK n \in missing : x = Levels - n[1]
      BY <2>2
  <2>4. \A m \in missing : Levels - n[1] <= Levels - m[1]
      BY <2>2, <2>3
  <2>5. \A m \in missing : n[1] >= m[1]
      BY <1>1, <1>4, <2>4, SMTT(30)
  <2> QED BY <2>5
<1> QED BY <1>3, <1>4, <1>5

\* The address spaces a core is left with: each once.
LEMMA DropOrderLemma ==
    ASSUME NEW p \in Procs, NEW s \in DropOrders(p)
    PROVE  /\ s \in Seq(Procs) /\ \A k \in DOMAIN s : s[k] \in Dying(p)
           /\ \A i, j \in DOMAIN s : s[i] = s[j] => i = j
<1> DEFINE n == Cardinality(Dying(p))
<1>1. Dying(p) \in SUBSET Procs /\ IsFiniteSet(Dying(p))
    BY ProcsLemma, FS_Subset DEF Dying
<1>2. n \in Nat
    BY <1>1, FS_CardinalityType
<1>3. s \in [1..n -> Dying(p)] /\ IsInjective(s)
    BY DEF DropOrders, Bijection, Injection
<1> HIDE DEF n
<1>4. DOMAIN s = 1..n /\ s \in [1..n -> Procs]
    BY <1>1, <1>3
<1> QED BY <1>2, <1>3, <1>4, SMTT(30) DEF IsInjective

(***************************************************************************)
(* Calls.                                                                  *)
(***************************************************************************)

\* The fields of a fresh call.
LEMMA OpLemma ==
    ASSUME NEW pc \in Places
    PROVE  /\ Op(pc) \in Calling
           /\ Op(pc).pc = pc /\ Op(pc).p = None /\ Op(pc).segs = <<>> /\ Op(pc).todo = <<>>
           /\ Op(pc).frame = None /\ Op(pc).end = None /\ Op(pc).cap = None /\ Op(pc).drops = <<>>
    BY SMTT(30) DEF Op, Calling

\* The call that drops address spaces.
LEMMA DropLemma ==
    ASSUME NEW s \in Seq(Procs)
    PROVE  LET o == [Op("drop") EXCEPT !.drops = s]
           IN  /\ o \in Calling /\ o.pc = "drop" /\ o.frame = None /\ o.end = None /\ o.drops = s
               /\ InHand(o) = {q \in Procs : \E k \in DOMAIN s : s[k] = q} /\ ~Builds(o)
               /\ States(o) = {"reserved", "dead"}
<1> DEFINE o == [Op("drop") EXCEPT !.drops = s]
<1>1. o \in Calling /\ o.pc = "drop" /\ o.frame = None /\ o.end = None /\ o.drops = s
    BY OpLemma DEF Op, Calling, Places
<1> HIDE DEF o
<1>2. /\ InHand(o) = {q \in Procs : \E k \in DOMAIN s : s[k] = q} /\ ~Builds(o)
      /\ States(o) = {"reserved", "dead"}
    BY <1>1 DEF InHand, Builds, States
<1> QED BY <1>1, <1>2 DEF o

\* A call that is over has nothing in hand.
LEMMA ReturnLemma ==
    ASSUME NEW r \in Procs \union {None}
    PROVE  LET o == Op(IF r = None THEN "idle" ELSE "user")
           IN  o \in Calling /\ Fits(o, r) /\ InHand(o) = {} /\ ~Builds(o) /\ o.pc # "grant"
<1> DEFINE w == IF r = None THEN "idle" ELSE "user"
<1>1. w \in {"idle", "user"} /\ (w = "idle" <=> r = None)
    OBVIOUS
<1> HIDE DEF w
<1>2. /\ Op(w) \in Calling /\ Op(w).pc = w /\ Op(w).frame = None /\ Op(w).end = None
      /\ Op(w).drops = <<>>
    BY <1>1, OpLemma DEF Places
<1>3. Fits(Op(w), r)
    BY <1>1, <1>2, SMTT(60) DEF Fits
<1>4. InHand(Op(w)) = {} /\ ~Builds(Op(w)) /\ Op(w).pc # "grant"
    BY <1>1, <1>2 DEF InHand, Builds
<1> QED BY <1>2, <1>3, <1>4 DEF w

(***************************************************************************)
(* Mapping pages.                                                          *)
(***************************************************************************)

\* An allocation keeps the types of the allocator's state.
LEMMA AllocateTypes ==
    ASSUME TypeOK, allocate_frame
    PROVE  bitmap' \subseteq Frames /\ usable' \subseteq Frames /\ frame_count' \in 0..CAPACITY
    BY DEF TypeOK, allocate_frame

\* The segments of a file and the stack lie in the user half.
LEMMA LoadsLemma ==
    ASSUME NEW seg \in Loads, Accepted(seg)
    PROVE  PagesOf(seg.p_vaddr, seg.p_vaddr + seg.p_memsz) \in Seq(Pages)
<1>1. /\ {PageSize, USER_HEAP_START, USER_HEAP_MAX_SIZE, USER_STACK_TOP, USER_STACK_PAGES, UserPages} \subseteq Nat
      /\ USER_HEAP_START + USER_HEAP_MAX_SIZE <= UserPages * PageSize
      /\ USER_STACK_PAGES * PageSize <= USER_STACK_TOP /\ USER_STACK_TOP <= UserPages * PageSize
      /\ UserPages * PageSize \in Nat /\ USER_STACK_PAGES * PageSize \in Nat
    BY MemoryAssumption, SMTT(30)
<1>2. /\ seg.p_vaddr \in Nat /\ seg.p_memsz \in Nat
      /\ seg.p_vaddr + seg.p_memsz <= UserPages * PageSize
  <2>1. CASE seg \in Segments
      BY <1>1, <2>1, SMTT(30) DEF Accepted, Segments
  <2>2. CASE seg = Stack
      BY <1>1, <2>2, SMTT(30) DEF Stack, Segment
  <2>3. CASE seg = Segment("bad", 0, 1)
      BY <2>3 DEF Accepted, Segment
  <2> QED BY <2>1, <2>2, <2>3 DEF Loads
<1> QED BY <1>2, PagesLemma, SMTT(30)

\* The caps of a process that holds nothing.
LEMMA NoCapsLemma == \A i \in CapIndex : NoCaps[i] = None
    BY DEF NoCaps

\* What from_elf has to map.
LEMMA WorkLemma ==
    ASSUME NEW img \in Images
    PROVE  Work(img) \in Seq(Loads)
<1>1. img.segs \in Seq(Segments)
    BY MemoryAssumption
<1>2. img.segs \in Seq(Loads) /\ Stack \in Loads /\ Segment("bad", 0, 1) \in Loads
    BY <1>1, SMTT(60) DEF Loads
<1> QED BY <1>2, SMTT(60) DEF Work

\* The call that starts to build p.
LEMMA ImageLemma ==
    ASSUME NEW p \in Procs, NEW img \in Images
    PROVE  LET o == [Op("image") EXCEPT !.p = p, !.segs = Work(img)]
           IN  /\ o \in Calling /\ o.pc = "image" /\ o.p = p
               /\ InHand(o) = {p} /\ States(o) = {"reserved"}
               /\ \A r \in Procs \union {None} : Fits(o, r)
<1> DEFINE o == [Op("image") EXCEPT !.p = p, !.segs = Work(img)]
<1>1. /\ o \in Calling /\ o.pc = "image" /\ o.p = p /\ o.frame = None /\ o.end = None /\ o.drops = <<>>
    BY WorkLemma, OpLemma DEF Op, Calling, Places
<1> HIDE DEF o
<1>2. InHand(o) = {p} /\ States(o) = {"reserved"}
    BY <1>1 DEF InHand, States, Builds
<1>3. \A r \in Procs \union {None} : Fits(o, r)
    BY <1>1, ProcsLemma, SMTT(30) DEF Fits
<1> QED BY <1>1, <1>2, <1>3 DEF o

\* The call of a core in ring 3 or in the idle loop.
LEMMA NoCallLemma ==
    ASSUME NEW pc \in {"idle", "user"}
    PROVE  /\ Op(pc) \in Calling /\ InHand(Op(pc)) = {} /\ ~Builds(Op(pc)) /\ Op(pc).pc # "grant"
           /\ \A r \in Procs \union {None} : (pc = "idle" <=> r = None) => Fits(Op(pc), r)
<1>1. /\ Op(pc) \in Calling /\ Op(pc).pc = pc /\ Op(pc).frame = None /\ Op(pc).end = None
      /\ Op(pc).drops = <<>>
    BY OpLemma DEF Places
<1>2. InHand(Op(pc)) = {} /\ ~Builds(Op(pc)) /\ Op(pc).pc # "grant"
    BY <1>1 DEF InHand, Builds
<1>3. \A r \in Procs \union {None} : (pc = "idle" <=> r = None) => Fits(Op(pc), r)
    BY <1>1, SMTT(30) DEF Fits
<1> QED BY <1>1, <1>2, <1>3

(***************************************************************************)
(* Calls do not get in each other's way.                                   *)
(***************************************************************************)

\* populate frees frames of the bitmap only, and frame_count stays within it.
LEMMA FramesInitLemma ==
    ASSUME FramesInit
    PROVE  bitmap \subseteq Frames /\ usable \subseteq Frames /\ frame_count \in 0..CAPACITY
<1>1. bitmap = Populated /\ usable = Populated /\ Populated \subseteq Frames
    BY DEF FramesInit, Populated
<1>2. frame_count \in 0..CAPACITY
  <2>1. CASE Populated = {}
      BY <2>1, ProcsLemma, SMTT(30) DEF FramesInit
  <2>2. CASE Populated # {}
    <3> DEFINE below == {CAPACITY - i : i \in Populated}
               highest == CHOOSE i \in Populated : \A j \in Populated : j <= i
    <3>1. below \in SUBSET Nat /\ below # {}
      <4>1. \A i \in Populated : CAPACITY - i \in Nat
          BY <1>1, ProcsLemma, SMTT(60)
      <4> QED BY <2>2, <4>1
    <3>2. PICK x \in below : \A y \in below : x <= y
        BY <3>1, LeastLemma
    <3>3. PICK i \in Populated : x = CAPACITY - i
        BY <3>2
    <3>4. \A j \in Populated : CAPACITY - i <= CAPACITY - j
        BY <3>2, <3>3
    <3>5. \A j \in Populated : j <= i
        BY <1>1, <3>4, ProcsLemma, SMTT(60)
    <3>6. highest \in Populated
        BY <3>5
    <3>7. frame_count = 1 + highest
        BY <2>2 DEF FramesInit
    <3> HIDE DEF highest
    <3> QED BY <1>1, <3>6, <3>7, ProcsLemma, SMTT(30)
  <2> QED BY <2>1, <2>2
<1> QED BY <1>1, <1>2

\* Boot, with init being built, satisfies the invariant.
LEMMA InitStep ==
    ASSUME Init
    PROVE  MemoryInv
<1>1. bitmap \subseteq Frames /\ usable \subseteq Frames /\ frame_count \in 0..CAPACITY
    BY FramesInitLemma DEF Init
<1>2. PICK img \in Images :
        op = [c \in Cores |-> IF c = Bsp
                              THEN [Op("image") EXCEPT !.p = InitProc, !.segs = Work(img)]
                              ELSE Op("idle")]
    BY DEF Init
<1> DEFINE o == [Op("image") EXCEPT !.p = InitProc, !.segs = Work(img)]
<1>3. /\ o \in Calling /\ o.pc = "image" /\ o.p = InitProc
      /\ InHand(o) = {InitProc} /\ States(o) = {"reserved"} /\ Fits(o, None)
    BY ProcsLemma, ImageLemma
<1>4. Op("idle") \in Calling /\ InHand(Op("idle")) = {} /\ Fits(Op("idle"), None) /\ Op("idle").pc = "idle"
    BY NoCallLemma, OpLemma DEF Places
<1> HIDE DEF o
<1>5. op \in [Cores -> Calling] /\ op[Bsp] = o /\ \A c \in Cores \ {Bsp} : op[c] = Op("idle")
    BY <1>2, <1>3, <1>4, MemoryAssumption DEF o
<1>6. /\ state = [p \in Procs |-> IF p = InitProc THEN "reserved" ELSE "unused"]
      /\ parent = [p \in Procs |-> None] /\ current = [c \in Cores |-> None] /\ lost = {}
      /\ space = [p \in Procs |-> Empty] /\ heap_end = [p \in Procs |-> USER_HEAP_START]
      /\ region = [p \in Procs |-> 0]
      /\ caps = [p \in Procs |-> IF p = InitProc THEN BootCaps ELSE NoCaps]
    BY DEF Init
<1>7. TypeOK
  <2>1. state \in [Procs -> {"unused", "reserved", "suspended", "ready", "running", "evicted", "dead"}]
      BY <1>6
  <2>2. parent \in [Procs -> Procs \union {None}] /\ current \in [Cores -> Procs \union {None}]
      BY <1>6
  <2>3. space \in [Procs -> [Nodes -> Frames \union {None}]]
      BY <1>6 DEF Empty
  <2>4. USER_HEAP_START \in HeapEnds /\ 0 \in Int
      BY MemoryAssumption, SMTT(30) DEF HeapEnds
  <2>5. heap_end \in [Procs -> HeapEnds] /\ region \in [Procs -> Int]
      BY <1>6, <2>4
  <2>6. BootCaps \in [CapIndex -> Caps] /\ NoCaps \in [CapIndex -> Caps]
      BY MemoryAssumption DEF NoCaps, Caps
  <2>7. caps \in [Procs -> [CapIndex -> Caps]]
      BY <1>6, <2>6
  <2>8. lost \subseteq Frames
      BY <1>6
  <2> QED BY <1>1, <1>5, <2>1, <2>2, <2>3, <2>5, <2>7, <2>8 DEF TypeOK
<1>8. CallInProgress
    BY <1>3, <1>4, <1>5, <1>6 DEF CallInProgress
<1>9. HandsApart /\ BuiltForCaller
    BY <1>3, <1>4, <1>5, <1>6, ProcsLemma DEF HandsApart, BuiltForCaller
<1>10. CurrentRuns /\ ParentLives
    BY <1>6 DEF CurrentRuns, ParentLives
<1>11. \A p \in Procs : ~Live(p)
    BY <1>6 DEF Live
<1>12. RootThere /\ CapsHeld
    BY <1>6, <1>11 DEF RootThere, CapsHeld
<1>13. AuthorityBounded
  <2>1. ASSUME NEW p \in Procs, NEW i \in CapIndex, caps[p][i] # None
        PROVE  Covers(BootCaps, caps[p][i]) /\ parent[p] = None
      BY <1>6, <2>1, NoCapsLemma DEF Covers
  <2>2. \A c \in Cores : op[c].pc # "grant"
      BY <1>3, <1>4, <1>5
  <2> QED BY <2>1, <2>2 DEF AuthorityBounded
<1>14. GapIsSafe
    BY <1>3, <1>4, <1>5 DEF GapIsSafe
<1> QED BY <1>7, <1>8, <1>9, <1>10, <1>12, <1>13, <1>14 DEF MemoryInv

\* One step per action.
LEMMA NextStep == MemoryInv /\ Next => MemoryInv'

\* Core c's call becomes o and its current process r: nothing else is in progress
\* differently.
<1>CallStep.
    ASSUME TypeOK, CallInProgress, NEW c \in Cores, NEW o \in Calling, NEW r \in Procs \union {None},
           op' = [op EXCEPT ![c] = o], current' = [current EXCEPT ![c] = r], Fits(o, r)
    PROVE  /\ op' \in [Cores -> Calling] /\ current' \in [Cores -> Procs \union {None}]
           /\ op'[c] = o /\ current'[c] = r
           /\ \A d \in Cores \ {c} : op'[d] = op[d] /\ current'[d] = current[d]
           /\ CallInProgress'
  <2> USE <1>CallStep
  <2>1. /\ op' \in [Cores -> Calling] /\ current' \in [Cores -> Procs \union {None}]
        /\ op'[c] = o /\ current'[c] = r
        /\ \A d \in Cores \ {c} : op'[d] = op[d] /\ current'[d] = current[d]
      BY DEF TypeOK
  <2>2. ASSUME NEW d \in Cores PROVE Fits(op'[d], current'[d])
      BY <2>1 DEF CallInProgress
  <2> QED BY <2>1, <2>2 DEF CallInProgress

\* The processes core c has in hand are nobody else's.
<1>HandsStep.
    ASSUME HandsApart, NEW c \in Cores, \A d \in Cores \ {c} : op'[d] = op[d],
           \A q \in InHand(op'[c]) : state'[q] \in States(op'[c]) /\ \A d \in Cores \ {c} : q \notin InHand(op[d]),
           \A d \in Cores \ {c} : \A q \in InHand(op[d]) : state'[q] = state[q]
    PROVE  HandsApart'
  <2> USE <1>HandsStep
  <2>1. ASSUME NEW d \in Cores, NEW q \in InHand(op'[d]) PROVE state'[q] \in States(op'[d])
      BY <2>1 DEF HandsApart
  <2>2. ASSUME NEW d \in Cores, NEW e \in Cores \ {d} PROVE InHand(op'[d]) \cap InHand(op'[e]) = {}
      BY <2>2 DEF HandsApart
  <2> QED BY <2>1, <2>2 DEF HandsApart

\* A process that is neither reserved nor dead is in nobody's hands.
<1>FreeHandsLemma.
    ASSUME HandsApart, NEW q, state[q] \notin {"reserved", "dead"}, NEW d \in Cores
    PROVE  q \notin InHand(op[d])
    BY <1>FreeHandsLemma DEF HandsApart, States

\* What GapIsSafe says follows from who works on what.
<1>GapStep.
    ASSUME TypeOK', CallInProgress', HandsApart', CurrentRuns', RootThere',
           \A d \in Cores : Builds(op'[d]) /\ op'[d].pc # "image" => space'[op'[d].p][Root] # None
    PROVE  GapIsSafe'
  <2> USE <1>GapStep
  <2> SUFFICES ASSUME NEW c \in Cores, op'[c].pc \in {"segment", "page", "map"}
               PROVE  /\ state'[op'[c].p] \in {"reserved", "running"}
                      /\ space'[op'[c].p][Root] # None
                      /\ op'[c].end # None => current'[c] = op'[c].p
      BY DEF GapIsSafe
  <2>1. op'[c].p \in Procs /\ (op'[c].end # None => current'[c] = op'[c].p /\ current'[c] # None)
      BY DEF TypeOK, Calling, CallInProgress, Fits
  <2>2. CASE op'[c].end = None
    <3>1. op'[c].p \in InHand(op'[c]) /\ op'[c].pc # "drop"
        BY <2>1, <2>2 DEF InHand, Builds
    <3>2. state'[op'[c].p] = "reserved"
        BY <3>1 DEF HandsApart, States
    <3>3. space'[op'[c].p][Root] # None
        BY <2>2 DEF Builds
    <3> QED BY <2>2, <3>2, <3>3
  <2>3. CASE op'[c].end # None
      BY <2>1, <2>3 DEF CurrentRuns, RootThere, Live
  <2> QED BY <2>2, <2>3

\* A step that leaves the process table alone keeps MemoryInv if the call it goes on
\* with fits and takes nothing more in hand, and if no PML4 in use disappears.
<1>QuietStep.
    ASSUME MemoryInv, TypeOK', NEW c \in Cores, NEW o \in Calling,
           UNCHANGED <<state, parent, caps, current>>, op' = [op EXCEPT ![c] = o],
           Fits(o, current[c]),
           \A q \in InHand(o) : q \in InHand(op[c]) /\ state[q] \in States(o),
           o.pc = "grant" => Covers(BootCaps, o.cap) /\ Covers(caps[current[c]], o.cap),
           \A p \in Procs : Live(p) => space'[p][Root] # None,
           \A d \in Cores : Builds(op'[d]) /\ op'[d].pc # "image" => space'[op'[d].p][Root] # None
    PROVE  MemoryInv'
  <2> USE <1>QuietStep
  <2>1. current[c] \in Procs \union {None} /\ current' = [current EXCEPT ![c] = current[c]]
      BY DEF MemoryInv, TypeOK
  <2>2. /\ CallInProgress' /\ op'[c] = o /\ \A d \in Cores \ {c} : op'[d] = op[d]
      BY <2>1, <1>CallStep DEF MemoryInv
  <2>3. HandsApart'
    <3>1. \A q \in InHand(op'[c]) : state'[q] \in States(op'[c]) /\ \A d \in Cores \ {c} : q \notin InHand(op[d])
        BY <2>2 DEF MemoryInv, HandsApart
    <3> QED BY <2>2, <3>1, <1>HandsStep DEF MemoryInv
  <2>a. BuiltForCaller'
    <3>1. ASSUME NEW d \in Cores, NEW q \in InHand(op'[d]) PROVE parent[q] \in {None, current[d]}
        BY <2>2, <3>1 DEF MemoryInv, BuiltForCaller
    <3> QED BY <3>1 DEF BuiltForCaller
  <2>4. CurrentRuns' /\ ParentLives' /\ CapsHeld'
      BY DEF MemoryInv, CurrentRuns, ParentLives, CapsHeld, Live
  <2>5. AuthorityBounded'
    <3>1. \A d \in Cores : op'[d].pc = "grant" =>
            Covers(BootCaps, op'[d].cap) /\ Covers(caps[current[d]], op'[d].cap)
        BY <2>2 DEF MemoryInv, AuthorityBounded
    <3>2. ASSUME NEW p \in Procs, NEW i \in CapIndex, caps[p][i] # None
          PROVE  /\ Covers(BootCaps, caps[p][i])
                 /\ parent[p] # None => Covers(caps[parent[p]], caps[p][i])
        BY <3>2 DEF MemoryInv, AuthorityBounded
    <3> QED BY <3>1, <3>2, SMTT(60) DEF AuthorityBounded, Covers
  <2>6. RootThere'
      BY DEF RootThere, Live
  <2>7. GapIsSafe'
      BY <2>2, <2>3, <2>4, <2>6, <1>GapStep
  <2> QED BY <2>2, <2>3, <2>a, <2>4, <2>5, <2>6, <2>7 DEF MemoryInv

\* No PML4 in use disappears when page tables only grow and the call goes on with the
\* process it worked on, or gives it up.
<1>RootsStay.
    ASSUME MemoryInv, NEW c \in Cores, \A d \in Cores \ {c} : op'[d] = op[d],
           \A p \in Procs : space[p][Root] # None => space'[p][Root] # None,
           Builds(op'[c]) /\ op'[c].pc # "image" => space'[op'[c].p][Root] # None
    PROVE  /\ \A p \in Procs : Live(p) => space'[p][Root] # None
           /\ \A d \in Cores : Builds(op'[d]) /\ op'[d].pc # "image" => space'[op'[d].p][Root] # None
  <2> USE <1>RootsStay
  <2>1. \A d \in Cores : Builds(op[d]) /\ op[d].pc # "image" => op[d].p \in Procs /\ space[op[d].p][Root] # None
      BY SMTT(30) DEF MemoryInv, TypeOK, Calling, CallInProgress, Fits, GapIsSafe, Builds
  <2> QED BY <2>1 DEF MemoryInv, RootThere

\* A failed call has nothing in hand but the process it gives up.
<1>FailStep.
    ASSUME MemoryInv, NEW c \in Cores, Fail(c), op[c].pc \in {"segment", "page", "map"},
           bitmap' \subseteq Frames, usable' \subseteq Frames, frame_count' \in 0..CAPACITY
    PROVE  MemoryInv'
  <2> USE <1>FailStep
  <2> DEFINE o == op[c]
             r == current[c]
  <2>1. /\ o \in Calling /\ o.p \in Procs /\ r \in Procs \union {None}
        /\ o.frame \in Frames \union {None} /\ (o.end # None => r # None)
      BY DEF MemoryInv, TypeOK, Calling, CallInProgress, Fits
  <2>2. PICK o2 \in Calling :
          /\ op' = [op EXCEPT ![c] = o2] /\ Fits(o2, r)
          /\ \A q \in InHand(o2) : q \in InHand(o) /\ state[q] \in States(o2)
          /\ o2.pc # "grant" /\ ~Builds(o2)
    <3>1. CASE o.end = None
      <4> DEFINE o2 == [Op("drop") EXCEPT !.drops = <<o.p>>]
      <4>1. <<o.p>> \in Seq(Procs) /\ DOMAIN <<o.p>> = {1} /\ <<o.p>>[1] = o.p
          BY <2>1, SMTT(30)
      <4>2. op' = [op EXCEPT ![c] = o2]
          BY <3>1 DEF Fail
      <4>3. /\ o2 \in Calling /\ o2.pc = "drop" /\ o2.frame = None /\ o2.end = None /\ o2.drops = <<o.p>>
            /\ InHand(o2) = {q \in Procs : \E k \in DOMAIN <<o.p>> : <<o.p>>[k] = q} /\ ~Builds(o2)
            /\ States(o2) = {"reserved", "dead"}
          BY <4>1, DropLemma
      <4> HIDE DEF o2
      <4>4. InHand(o2) = {o.p}
          BY <2>1, <4>1, <4>3
      <4>5. o.p \in InHand(o) /\ state[o.p] \in States(o2)
        <5>1. o.p \in InHand(o)
            BY <2>1, <3>1 DEF InHand, Builds
        <5> QED BY <4>3, <5>1 DEF MemoryInv, HandsApart, States
      <4>6. Fits(o2, r)
          BY <4>1, <4>3, SMTT(30) DEF Fits
      <4> QED BY <4>2, <4>3, <4>4, <4>5, <4>6
    <3>2. CASE o.end # None
      <4>1. op' = [op EXCEPT ![c] = Op(IF r = None THEN "idle" ELSE "user")]
          BY <3>2 DEF Fail, Return
      <4> QED BY <2>1, <4>1, ReturnLemma
    <3> QED BY <3>1, <3>2
  <2>3. UNCHANGED procVars /\ lost' \subseteq Frames
      BY <2>1 DEF Fail, MemoryInv, TypeOK
  <2>4. op' \in [Cores -> Calling] /\ op'[c] = o2 /\ \A d \in Cores \ {c} : op'[d] = op[d]
      BY <2>2 DEF MemoryInv, TypeOK
  <2>5. TypeOK'
      BY <2>3, <2>4 DEF MemoryInv, TypeOK, procVars
  <2>6. /\ \A p \in Procs : Live(p) => space'[p][Root] # None
        /\ \A d \in Cores : Builds(op'[d]) /\ op'[d].pc # "image" => space'[op'[d].p][Root] # None
      BY <2>2, <2>3, <2>4, <1>RootsStay DEF procVars
  <2>7. UNCHANGED <<state, parent, caps, current>>
      BY <2>3 DEF procVars
  <2> HIDE DEF o, r
  <2> QED BY <2>2, <2>5, <2>6, <2>7, <1>QuietStep DEF o, r

\* A step that changes nothing but a call, frames aside.
<1>OnlyCall.
    ASSUME MemoryInv, NEW c \in Cores, NEW o \in Calling,
           UNCHANGED procVars, op' = [op EXCEPT ![c] = o], lost' \subseteq Frames,
           bitmap' \subseteq Frames, usable' \subseteq Frames, frame_count' \in 0..CAPACITY,
           Fits(o, current[c]),
           \A q \in InHand(o) : q \in InHand(op[c]) /\ state[q] \in States(o),
           o.pc = "grant" => Covers(BootCaps, o.cap) /\ Covers(caps[current[c]], o.cap),
           Builds(o) /\ o.pc # "image" => space[o.p][Root] # None
    PROVE  MemoryInv'
  <2> USE <1>OnlyCall
  <2>1. op' \in [Cores -> Calling] /\ op'[c] = o /\ \A d \in Cores \ {c} : op'[d] = op[d]
      BY DEF MemoryInv, TypeOK
  <2>2. TypeOK'
      BY <2>1 DEF MemoryInv, TypeOK, procVars
  <2>3. /\ \A p \in Procs : Live(p) => space'[p][Root] # None
        /\ \A d \in Cores : Builds(op'[d]) /\ op'[d].pc # "image" => space'[op'[d].p][Root] # None
      BY <2>1, <1>RootsStay DEF procVars
  <2>4. UNCHANGED <<state, parent, caps, current>>
      BY DEF procVars
  <2> QED BY <2>2, <2>3, <2>4, <1>QuietStep

<1>allocate_page_step.
    ASSUME MemoryInv, NEW c \in Cores, allocate_page(c)
    PROVE  MemoryInv'
  <2> USE <1>allocate_page_step
  <2> DEFINE o == op[c]
  <2>1. /\ bitmap' \subseteq Frames /\ usable' \subseteq Frames /\ frame_count' \in 0..CAPACITY
        /\ o.pc = "page" /\ o.todo # <<>>
      BY AllocateTypes DEF allocate_page, MemoryInv
  <2>2. CASE Allocated = None
      BY <2>1, <2>2, <1>FailStep DEF allocate_page
  <2>3. CASE Allocated # None
    <3> DEFINE o2 == [o EXCEPT !.frame = Allocated, !.pc = "map"]
    <3>1. Allocated \in Frames
        BY <2>3, AllocatedLemma DEF MemoryInv, TypeOK
    <3>2. o \in Calling /\ op \in [Cores -> Calling]
        BY DEF MemoryInv, TypeOK
    <3>3. op' = [op EXCEPT ![c] = o2] /\ UNCHANGED procVars /\ lost' = lost
        BY <2>3, <3>2 DEF allocate_page
    <3>4. /\ o2 \in Calling /\ o2.pc = "map" /\ o2.frame = Allocated /\ o2.p = o.p /\ o2.end = o.end
          /\ o2.drops = o.drops /\ o2.todo = o.todo
        BY <3>1, <3>2 DEF Calling, Places
    <3> HIDE DEF o2
    <3>5. Fits(o2, current[c])
        BY <2>1, <2>3, <3>4, SMTT(60) DEF MemoryInv, CallInProgress, Fits
    <3>6. \A q \in InHand(o2) : q \in InHand(o) /\ state[q] \in States(o2)
      <4>1. \A q \in InHand(o2) : q \in InHand(o)
          BY <2>1, <3>4 DEF InHand, Builds
      <4> QED BY <2>1, <3>4, <4>1 DEF MemoryInv, HandsApart, States
    <3>7. space[o2.p][Root] # None
        BY <2>1, <3>4 DEF MemoryInv, GapIsSafe
    <3>8. lost' \subseteq Frames
        BY <3>3 DEF MemoryInv, TypeOK
    <3> QED BY <2>1, <3>3, <3>4, <3>5, <3>6, <3>7, <3>8, <1>OnlyCall
  <2> QED BY <2>2, <2>3

\* Page tables only grow while a process is built or extended.
<1>GrowStep.
    ASSUME MemoryInv, NEW c \in Cores, NEW o \in Calling, NEW p \in Procs, NEW n \in Nodes,
           NEW f \in Frames,
           UNCHANGED <<state, parent, heap_end, region, caps, current, lost>>,
           space' = [space EXCEPT ![p][n] = f], op' = [op EXCEPT ![c] = o],
           bitmap' \subseteq Frames, usable' \subseteq Frames, frame_count' \in 0..CAPACITY,
           Fits(o, current[c]), o.pc # "grant",
           \A q \in InHand(o) : q \in InHand(op[c]) /\ state[q] \in States(o),
           Builds(o) /\ o.pc # "image" => space'[o.p][Root] # None
    PROVE  MemoryInv'
  <2> USE <1>GrowStep
  <2>1. op' \in [Cores -> Calling] /\ op'[c] = o /\ \A d \in Cores \ {c} : op'[d] = op[d]
      BY DEF MemoryInv, TypeOK
  <2>2. /\ space' \in [Procs -> [Nodes -> Frames \union {None}]]
        /\ \A q \in Procs : space[q][Root] # None => space'[q][Root] # None
      BY ProcsLemma, NodeLemma, ZenonT(60) DEF MemoryInv, TypeOK
  <2>3. TypeOK'
      BY <2>1, <2>2 DEF MemoryInv, TypeOK
  <2>4. /\ \A q \in Procs : Live(q) => space'[q][Root] # None
        /\ \A d \in Cores : Builds(op'[d]) /\ op'[d].pc # "image" => space'[op'[d].p][Root] # None
      BY <2>1, <2>2, <1>RootsStay
  <2> QED BY <2>3, <2>4, <1>QuietStep

<1>map_to_step.
    ASSUME MemoryInv, NEW c \in Cores, map_to(c)
    PROVE  MemoryInv'
  <2> USE <1>map_to_step
  <2> DEFINE o == op[c]
             v == Head(o.todo)
             missing == Missing(space[o.p], v)
             next == CHOOSE n \in missing : \A m \in missing : n[1] >= m[1]
  <2>1. o.pc = "map" /\ o \in Calling /\ op \in [Cores -> Calling]
      BY DEF map_to, MemoryInv, TypeOK
  <2>2. /\ o.p \in Procs /\ o.frame \in Frames /\ o.todo # <<>> /\ Fits(o, current[c])
        /\ o.todo \in Seq(Pages)
      BY <2>1 DEF MemoryInv, CallInProgress, Fits, Calling
  <2>3. v \in Pages /\ Tail(o.todo) \in Seq(Pages)
      BY <2>2, SMTT(30)
  <2>4. space[o.p] \in [Nodes -> Frames \union {None}] /\ space[o.p][Root] # None
      BY <2>1, <2>2 DEF MemoryInv, TypeOK, GapIsSafe
  <2>5. <<0, v>> \in Nodes /\ (missing # {} => next \in Nodes)
      BY <2>3, <2>4, MissingLemma
  <2>6. bitmap \subseteq Frames /\ usable \subseteq Frames /\ frame_count \in 0..CAPACITY
      BY DEF MemoryInv, TypeOK
  <2>7. CASE missing # {} /\ Allocated # None
    <3>1. Allocated \in Frames
        BY <2>6, <2>7, AllocatedLemma
    <3>2. /\ allocate_frame
          /\ space' = [space EXCEPT ![o.p][next] = Allocated]
          /\ UNCHANGED <<state, parent, heap_end, region, caps, current, op, lost>>
        BY <2>7 DEF map_to
    <3>3. bitmap' \subseteq Frames /\ usable' \subseteq Frames /\ frame_count' \in 0..CAPACITY
        BY <3>2, AllocateTypes DEF MemoryInv
    <3>4. op' = [op EXCEPT ![c] = o] /\ o.pc # "grant"
        BY <2>1, <3>2
    <3>5. \A q \in InHand(o) : q \in InHand(op[c]) /\ state[q] \in States(o)
        BY DEF MemoryInv, HandsApart
    <3>6. space'[o.p][Root] # None
        BY <2>2, <2>4, <2>5, <2>7, <3>1, <3>2, ProcsLemma, NodeLemma DEF MemoryInv, TypeOK
    <3> HIDE DEF o, next, missing
    <3> QED BY <2>1, <2>2, <2>5, <2>7, <3>1, <3>2, <3>3, <3>4, <3>5, <3>6, <1>GrowStep
  <2>8. CASE IF missing # {} THEN Allocated = None ELSE space[o.p][<<0, v>>] # None
    <3>1. Fail(c) /\ UNCHANGED frameVars
        BY <2>8 DEF map_to
    <3> QED BY <2>1, <2>6, <3>1, <1>FailStep DEF frameVars
  <2>9. CASE missing = {} /\ space[o.p][<<0, v>>] = None
    <3> DEFINE o2 == [o EXCEPT !.frame = None, !.todo = Tail(o.todo), !.pc = "page"]
    <3>1. /\ space' = [space EXCEPT ![o.p][<<0, v>>] = o.frame]
          /\ op' = [op EXCEPT ![c].frame = None, ![c].todo = Tail(o.todo), ![c].pc = "page"]
          /\ UNCHANGED <<frameVars, state, parent, heap_end, region, caps, current, lost>>
        BY <2>9 DEF map_to
    <3>2. op' = [op EXCEPT ![c] = o2]
        BY <2>1, <3>1
    <3>3. /\ o2 \in Calling /\ o2.pc = "page" /\ o2.frame = None /\ o2.p = o.p /\ o2.end = o.end
          /\ o2.drops = o.drops
        BY <2>1, <2>3 DEF Calling, Places
    <3> HIDE DEF o2
    <3>4. Fits(o2, current[c])
        BY <2>1, <2>2, <3>3 DEF Fits
    <3>5. \A q \in InHand(o2) : q \in InHand(o) /\ state[q] \in States(o2)
      <4>1. \A q \in InHand(o2) : q \in InHand(o)
          BY <2>1, <3>3 DEF InHand, Builds
      <4> QED BY <2>1, <3>3, <4>1 DEF MemoryInv, HandsApart, States
    <3>6. space'[o2.p][Root] # None
        BY <2>2, <2>4, <2>5, <3>1, <3>3, ProcsLemma, NodeLemma DEF MemoryInv, TypeOK
    <3>7. bitmap' \subseteq Frames /\ usable' \subseteq Frames /\ frame_count' \in 0..CAPACITY
        BY <2>6, <3>1 DEF frameVars
    <3> HIDE DEF o, v, missing
    <3> QED BY <2>2, <2>5, <3>1, <3>2, <3>3, <3>4, <3>5, <3>6, <3>7, <1>GrowStep DEF o
  <2> QED BY <2>7, <2>8, <2>9

\* The call goes on with what is left of the segments.
<1>load_segment_step.
    ASSUME MemoryInv, NEW c \in Cores, load_segment(c)
    PROVE  MemoryInv'
  <2> USE <1>load_segment_step
  <2> DEFINE o == op[c]
             seg == Head(o.segs)
  <2>1. /\ o.pc = "segment" /\ o.segs # <<>> /\ o \in Calling /\ op \in [Cores -> Calling]
        /\ Fits(o, current[c]) /\ lost \subseteq Frames
        /\ bitmap' \subseteq Frames /\ usable' \subseteq Frames /\ frame_count' \in 0..CAPACITY
      BY DEF load_segment, MemoryInv, TypeOK, CallInProgress, frameVars
  <2>2. o.p \in Procs /\ o.segs \in Seq(Loads) /\ o.todo \in Seq(Pages)
      BY <2>1 DEF Calling, Fits
  <2>3. seg \in Loads /\ Tail(o.segs) \in Seq(Loads)
      BY <2>1, <2>2, SMTT(60)
  <2>4. space[o.p][Root] # None /\ state[o.p] = "reserved" /\ o.end = None
    <3>1. o.end = None
        BY <2>1 DEF Fits
    <3>2. o.p \in InHand(o)
        BY <2>1, <2>2, <3>1 DEF InHand, Builds
    <3> QED BY <2>1, <3>1, <3>2 DEF MemoryInv, GapIsSafe, HandsApart, States
  <2>5. ASSUME NEW todo \in Seq(Pages), NEW pc \in {"segment", "page"}, UNCHANGED procVars, lost' = lost,
               op' = [op EXCEPT ![c] = [o EXCEPT !.segs = Tail(o.segs), !.pc = pc, !.todo = todo]]
        PROVE  MemoryInv'
    <3> DEFINE o2 == [o EXCEPT !.segs = Tail(o.segs), !.pc = pc, !.todo = todo]
    <3>1. /\ o2 \in Calling /\ o2.pc = pc /\ o2.frame = o.frame /\ o2.p = o.p /\ o2.end = o.end
          /\ o2.drops = o.drops
        BY <2>1, <2>3 DEF Calling, Places
    <3>2. op' = [op EXCEPT ![c] = o2]
        BY <2>5
    <3> HIDE DEF o2
    <3>3. Fits(o2, current[c])
        BY <2>1, <2>4, <3>1 DEF Fits
    <3>4. \A q \in InHand(o2) : q \in InHand(o) /\ state[q] \in States(o2)
        BY <2>1, <2>4, <3>1 DEF InHand, Builds, States
    <3>5. space[o2.p][Root] # None /\ o2.pc # "grant" /\ lost' \subseteq Frames
        BY <2>1, <2>4, <2>5, <3>1
    <3> QED BY <2>1, <2>5, <3>1, <3>2, <3>3, <3>4, <3>5, <1>OnlyCall
  <2>6. CASE Skipped(seg)
    <3>1. /\ op' = [op EXCEPT ![c] = [o EXCEPT !.segs = Tail(o.segs), !.pc = "segment", !.todo = o.todo]]
          /\ UNCHANGED procVars /\ lost' = lost
        BY <2>1, <2>6 DEF load_segment, Calling
    <3> QED BY <2>2, <2>5, <3>1
  <2>7. CASE ~Skipped(seg) /\ Accepted(seg)
    <3> DEFINE todo == PagesOf(seg.p_vaddr, seg.p_vaddr + seg.p_memsz)
    <3>1. todo \in Seq(Pages)
        BY <2>3, <2>7, LoadsLemma
    <3>2. /\ op' = [op EXCEPT ![c] = [o EXCEPT !.segs = Tail(o.segs), !.pc = "page", !.todo = todo]]
          /\ UNCHANGED procVars /\ lost' = lost
        BY <2>1, <2>7 DEF load_segment
    <3> HIDE DEF todo
    <3> QED BY <2>5, <3>1, <3>2
  <2>8. CASE ~Skipped(seg) /\ ~Accepted(seg)
      BY <2>1, <2>8, <1>FailStep DEF load_segment
  <2> QED BY <2>6, <2>7, <2>8

<1>segment_done_step.
    ASSUME MemoryInv, NEW c \in Cores, segment_done(c)
    PROVE  MemoryInv'
  <2> USE <1>segment_done_step
  <2> DEFINE o == op[c]
             o2 == [o EXCEPT !.pc = "segment"]
  <2>1. /\ o.pc = "page" /\ o.end = None /\ o \in Calling /\ op \in [Cores -> Calling]
        /\ Fits(o, current[c]) /\ lost' \subseteq Frames /\ UNCHANGED procVars
        /\ bitmap' \subseteq Frames /\ usable' \subseteq Frames /\ frame_count' \in 0..CAPACITY
      BY DEF segment_done, MemoryInv, TypeOK, CallInProgress, frameVars
  <2>2. op' = [op EXCEPT ![c] = o2]
      BY <2>1 DEF segment_done
  <2>3. /\ o2 \in Calling /\ o2.pc = "segment" /\ o2.frame = o.frame /\ o2.p = o.p /\ o2.end = None
        /\ o2.drops = o.drops
      BY <2>1 DEF Calling, Places
  <2> HIDE DEF o2
  <2>4. Fits(o2, current[c])
      BY <2>1, <2>3 DEF Fits
  <2>5. \A q \in InHand(o2) : q \in InHand(o) /\ state[q] \in States(o2)
    <3>1. \A q \in InHand(o2) : q \in InHand(o)
        BY <2>1, <2>3 DEF InHand, Builds
    <3> QED BY <2>1, <2>3, <3>1 DEF MemoryInv, HandsApart, States
  <2>6. space[o2.p][Root] # None
      BY <2>1, <2>3 DEF MemoryInv, GapIsSafe
  <2> QED BY <2>1, <2>2, <2>3, <2>4, <2>5, <2>6, <1>OnlyCall

\* The copy a grant will insert is covered by the capability it was resolved from.
<1>grant_resolve_step.
    ASSUME MemoryInv, NEW c \in Cores, NEW t \in Procs, NEW i \in CapIndex, NEW j \in CapIndex,
           NEW rights \in SUBSET Rights, grant_resolve(c, t, i, j, rights)
    PROVE  MemoryInv'
  <2> USE <1>grant_resolve_step
  <2> DEFINE r == current[c]
             held == caps[r][i]
             cap == [at |-> j, object |-> held.object, rights |-> rights]
             o2 == [Op("grant") EXCEPT !.p = t, !.cap = cap]
  <2>1. /\ op[c].pc = "user" /\ held # None /\ rights \subseteq held.rights /\ op' = [op EXCEPT ![c] = o2]
        /\ UNCHANGED procVars /\ lost' \subseteq Frames
        /\ bitmap' \subseteq Frames /\ usable' \subseteq Frames /\ frame_count' \in 0..CAPACITY
      BY DEF grant_resolve, may_grant, Calls, MemoryInv, TypeOK, frameVars
  <2>2. r \in Procs
      BY <2>1 DEF MemoryInv, TypeOK, CallInProgress, Fits
  <2>3. held \in Caps
      BY <2>2 DEF MemoryInv, TypeOK
  <2> HIDE DEF held
  <2>4. cap \in Grants /\ cap.object = held.object /\ cap.rights = rights
      BY <2>1, <2>3 DEF Grants
  <2> HIDE DEF cap
  <2>5. /\ o2 \in Calling /\ o2.pc = "grant" /\ o2.p = t /\ o2.cap = cap
        /\ o2.frame = None /\ o2.end = None /\ o2.drops = <<>>
      BY <2>4, OpLemma DEF Op, Calling, Places
  <2> HIDE DEF o2
  <2>6. Fits(o2, r)
      BY <2>2, <2>4, <2>5, ProcsLemma, SMTT(30) DEF Fits
  <2>7. InHand(o2) = {} /\ ~Builds(o2)
      BY <2>5 DEF InHand, Builds
  <2>8. Covers(BootCaps, cap) /\ Covers(caps[r], cap)
    <3>1. Covers(BootCaps, held)
        BY <2>1, <2>2 DEF MemoryInv, AuthorityBounded, held
    <3>2. Covers(BootCaps, cap)
        BY <2>1, <2>4, <3>1 DEF Covers
    <3>3. Covers(caps[r], cap)
        BY <2>1, <2>4 DEF Covers, held
    <3> QED BY <3>2, <3>3
  <2> QED BY <2>1, <2>5, <2>6, <2>7, <2>8, <1>OnlyCall

<1>sys_sbrk_step.
    ASSUME MemoryInv, NEW c \in Cores, NEW n \in Increments, sys_sbrk(c, n)
    PROVE  MemoryInv'
  <2> USE <1>sys_sbrk_step
  <2> DEFINE p == current[c]
             new_end == heap_end[p] + n
             todo == PagesOf(TopOf(heap_end[p]), TopOf(new_end))
             o2 == [Op("page") EXCEPT !.p = p, !.end = new_end, !.todo = todo]
  <2>1. /\ op[c].pc = "user" /\ new_end - USER_HEAP_START <= USER_HEAP_MAX_SIZE /\ op' = [op EXCEPT ![c] = o2]
        /\ UNCHANGED procVars /\ lost' \subseteq Frames
        /\ bitmap' \subseteq Frames /\ usable' \subseteq Frames /\ frame_count' \in 0..CAPACITY
      BY DEF sys_sbrk, Calls, MemoryInv, TypeOK, frameVars
  <2>2. p \in Procs /\ p # None
      BY <2>1, ProcsLemma DEF MemoryInv, TypeOK, CallInProgress, Fits
  <2>3. heap_end[p] \in HeapEnds
      BY <2>2 DEF MemoryInv, TypeOK
  <2>4. n \in Nat /\ USER_HEAP_START \in Nat /\ USER_HEAP_MAX_SIZE \in Nat
      BY MemoryAssumption
  <2>5. new_end \in HeapEnds
      BY <2>1, <2>3, <2>4, SMTT(30) DEF HeapEnds
  <2>6. todo \in Seq(Pages)
      BY <2>3, <2>5, TopLemma, PagesLemma
  <2> HIDE DEF p, new_end, todo
  <2>7. /\ o2 \in Calling /\ o2.pc = "page" /\ o2.p = p /\ o2.end = new_end
        /\ o2.frame = None /\ o2.drops = <<>>
      BY <2>2, <2>5, <2>6, OpLemma, ZenonT(60) DEF Op, Calling, Places
  <2>8. o2.end # None
      BY <2>5, <2>7, FrameAssumption, TopLemma
  <2> HIDE DEF o2
  <2>9. Fits(o2, current[c])
      BY <2>2, <2>7, <2>8, SMTT(30) DEF Fits, p
  <2>10. InHand(o2) = {} /\ ~Builds(o2)
      BY <2>7, <2>8 DEF InHand, Builds
  <2> QED BY <2>1, <2>7, <2>9, <2>10, <1>OnlyCall

\* A step that ends a call, space and table aside.
<1>ReturnStep.
    ASSUME MemoryInv, NEW c \in Cores, Return(c), TypeOK',
           UNCHANGED <<state, parent, space, caps, current>>
    PROVE  MemoryInv'
  <2> USE <1>ReturnStep
  <2> DEFINE r == current[c]
             o2 == Op(IF r = None THEN "idle" ELSE "user")
  <2>1. op' = [op EXCEPT ![c] = o2] /\ r \in Procs \union {None} /\ op \in [Cores -> Calling]
      BY DEF Return, MemoryInv, TypeOK
  <2>2. o2 \in Calling /\ Fits(o2, r) /\ InHand(o2) = {} /\ ~Builds(o2) /\ o2.pc # "grant"
      BY <2>1, ReturnLemma
  <2> HIDE DEF o2
  <2>3. op'[c] = o2 /\ \A d \in Cores \ {c} : op'[d] = op[d]
      BY <2>1
  <2>4. /\ \A p \in Procs : Live(p) => space'[p][Root] # None
        /\ \A d \in Cores : Builds(op'[d]) /\ op'[d].pc # "image" => space'[op'[d].p][Root] # None
      BY <2>2, <2>3, <1>RootsStay
  <2> QED BY <2>1, <2>2, <2>4, <1>QuietStep

\* What Return leaves is a call.
<1>ReturnTypes.
    ASSUME TypeOK, NEW c \in Cores, Return(c)
    PROVE  op' \in [Cores -> Calling]
  <2> USE <1>ReturnTypes
  <2>1. current[c] \in Procs \union {None} /\ op \in [Cores -> Calling]
      BY DEF TypeOK
  <2>2. Op(IF current[c] = None THEN "idle" ELSE "user") \in Calling
      BY <2>1, ReturnLemma
  <2> QED BY <2>1, <2>2 DEF Return

<1>sbrk_done_step.
    ASSUME MemoryInv, NEW c \in Cores, sbrk_done(c)
    PROVE  MemoryInv'
  <2> USE <1>sbrk_done_step
  <2> DEFINE o == op[c]
  <2>1. /\ o.pc = "page" /\ o.end # None /\ o \in Calling /\ TypeOK
        /\ Return(c) /\ UNCHANGED <<frameVars, state, parent, space, caps, current, lost>>
        /\ heap_end' = [heap_end EXCEPT ![o.p] = o.end]
        /\ region' = [region EXCEPT ![o.p] = @ + (o.end - heap_end[o.p])]
      BY DEF sbrk_done, MemoryInv, TypeOK
  <2>2. o.p \in Procs /\ o.end \in HeapEnds
      BY <2>1 DEF MemoryInv, CallInProgress, Fits, Calling
  <2>3. heap_end \in [Procs -> HeapEnds] /\ region \in [Procs -> Int]
      BY <2>1 DEF TypeOK
  <2>4. heap_end' \in [Procs -> HeapEnds]
      BY <2>1, <2>2, <2>3
  <2>5. region' \in [Procs -> Int]
    <3>1. heap_end[o.p] \in Nat /\ o.end \in Nat
        BY <2>2, <2>3, TopLemma
    <3>2. region[o.p] + (o.end - heap_end[o.p]) \in Int
        BY <2>2, <2>3, <3>1, SMTT(30)
    <3> QED BY <2>1, <2>2, <2>3, <3>2
  <2>6. op' \in [Cores -> Calling]
      BY <2>1, <1>ReturnTypes
  <2>7. TypeOK'
      BY <2>1, <2>4, <2>5, <2>6 DEF TypeOK, frameVars
  <2> QED BY <2>1, <2>7, <1>ReturnStep

<1>sys_kill_step.
    ASSUME MemoryInv, NEW c \in Cores, NEW t \in Procs, sys_kill(c, t)
    PROVE  MemoryInv'
  <2> USE <1>sys_kill_step
  <2> DEFINE o2 == [Op("kill") EXCEPT !.p = t]
  <2>1. /\ op[c].pc = "user" /\ op' = [op EXCEPT ![c] = o2]
        /\ UNCHANGED procVars /\ lost' \subseteq Frames
        /\ bitmap' \subseteq Frames /\ usable' \subseteq Frames /\ frame_count' \in 0..CAPACITY
      BY DEF sys_kill, Calls, MemoryInv, TypeOK, frameVars
  <2>2. current[c] # None
      BY <2>1 DEF MemoryInv, CallInProgress, Fits
  <2>3. /\ o2 \in Calling /\ o2.pc = "kill" /\ o2.p = t /\ o2.end = None
        /\ o2.frame = None /\ o2.drops = <<>>
      BY OpLemma DEF Op, Calling, Places
  <2> HIDE DEF o2
  <2>4. Fits(o2, current[c])
      BY <2>2, <2>3, ProcsLemma, SMTT(30) DEF Fits
  <2>5. InHand(o2) = {} /\ ~Builds(o2)
      BY <2>3 DEF InHand, Builds
  <2> QED BY <2>1, <2>3, <2>4, <2>5, <1>OnlyCall

\* A call that only ends.
<1>EndStep.
    ASSUME MemoryInv, NEW c \in Cores, Return(c), UNCHANGED <<frameVars, procVars, lost>>
    PROVE  MemoryInv'
  <2> USE <1>EndStep
  <2>1. op' \in [Cores -> Calling]
      BY <1>ReturnTypes DEF MemoryInv
  <2>2. TypeOK'
      BY <2>1 DEF MemoryInv, TypeOK, frameVars, procVars
  <2>3. UNCHANGED <<state, parent, space, caps, current>>
      BY DEF procVars
  <2> QED BY <2>2, <2>3, <1>ReturnStep

\* The space being dropped belongs to a process that nobody runs or builds.
<1>drop_frame_step.
    ASSUME MemoryInv, NEW c \in Cores, drop_frame(c)
    PROVE  MemoryInv'
  <2> USE <1>drop_frame_step
  <2> DEFINE o == op[c]
             p == Head(o.drops)
             n == NextFreed(space[p])
             f == space[p][n]
  <2>1. /\ o.pc = "drop" /\ o.drops # <<>> /\ space[p] # Empty /\ deallocate_frame(f)
        /\ space' = [space EXCEPT ![p][n] = None]
        /\ UNCHANGED <<state, parent, heap_end, region, caps, current, op, lost>>
        /\ o \in Calling /\ TypeOK
      BY DEF drop_frame, MemoryInv, TypeOK
  <2>2. o.drops \in Seq(Procs)
      BY <2>1 DEF Calling
  <2>3. p \in Procs /\ 1 \in DOMAIN o.drops /\ p = o.drops[1]
      BY <2>1, <2>2, SMTT(30)
  <2>4. p \in InHand(o) /\ ~Builds(o)
      BY <2>1, <2>3 DEF InHand, Builds
  <2>5. ~Live(p) /\ \A d \in Cores \ {c} : p \notin InHand(op[d])
      BY <2>1, <2>4 DEF MemoryInv, HandsApart, States, Live
  <2>6. n \in Nodes /\ f \in Frames
    <3>1. space \in [Procs -> [Nodes -> Frames \union {None}]]
        BY <2>1 DEF TypeOK
    <3> DEFINE sp == space[p]
    <3>2. sp \in [Nodes -> Frames \union {None}] /\ sp # Empty
        BY <2>1, <2>3, <3>1
    <3> HIDE DEF sp
    <3>3. NextFreed(sp) \in Nodes /\ sp[NextFreed(sp)] # None
        BY <3>2, NextFreedLemma, ZenonT(30)
    <3>4. sp[NextFreed(sp)] \in Frames
        BY <3>2, <3>3
    <3> QED BY <3>3, <3>4 DEF sp
  <2> HIDE DEF p, n, f
  <2>7. space' \in [Procs -> [Nodes -> Frames \union {None}]] /\ \A q \in Procs \ {p} : space'[q] = space[q]
      BY <2>1, <2>3, <2>6 DEF TypeOK
  <2>8. bitmap' \subseteq Frames /\ usable' \subseteq Frames /\ frame_count' \in 0..CAPACITY
      BY <2>1, <2>6, ProcsLemma, SMTT(30) DEF TypeOK, deallocate_frame
  <2>9. TypeOK'
      BY <2>1, <2>7, <2>8 DEF TypeOK
  <2>10. \A q \in Procs : Live(q) => space'[q][Root] # None
      BY <2>5, <2>7 DEF MemoryInv, RootThere
  <2>11. ASSUME NEW d \in Cores, Builds(op[d]), op[d].pc # "image"
         PROVE  space'[op[d].p][Root] # None
    <3>1. op[d].p \in Procs
        BY <2>1, <2>11 DEF Builds, MemoryInv, TypeOK, Calling, CallInProgress, Fits
    <3>2. op[d].p \in InHand(op[d]) /\ d # c
        BY <2>4, <2>11, <3>1 DEF InHand
    <3>3. op[d].p # p
        BY <2>5, <3>2
    <3>4. space[op[d].p][Root] # None
        BY <2>11 DEF MemoryInv, GapIsSafe, Builds
    <3> QED BY <2>7, <3>1, <3>3, <3>4
  <2>12. /\ op' = [op EXCEPT ![c] = o] /\ Fits(o, current[c])
         /\ \A q \in InHand(o) : q \in InHand(op[c]) /\ state[q] \in States(o)
      BY <2>1 DEF MemoryInv, TypeOK, CallInProgress, HandsApart
  <2>13. \A d \in Cores : Builds(op'[d]) /\ op'[d].pc # "image" => space'[op'[d].p][Root] # None
      BY <2>1, <2>11
  <2> HIDE DEF o
  <2> QED BY <2>1, <2>9, <2>10, <2>12, <2>13, <1>QuietStep DEF o

\* Core c goes on with call o and process r. What it takes in hand is nobody else's, and
\* what others have in hand it leaves as it is.
<1>TableStep.
    ASSUME MemoryInv, TypeOK', NEW c \in Cores, NEW o \in Calling, NEW r \in Procs \union {None},
           op' = [op EXCEPT ![c] = o], current' = [current EXCEPT ![c] = r], Fits(o, r),
           o.pc # "grant", Builds(o) => o.pc = "image",
           \A q \in InHand(o) : /\ state'[q] \in States(o) /\ parent'[q] \in {None, r}
                                /\ \A d \in Cores \ {c} : q \notin InHand(op[d]),
           \A d \in Cores \ {c} : \A q \in InHand(op[d]) :
                state'[q] = state[q] /\ parent'[q] \in {None, parent[q]},
           UNCHANGED space,
           CurrentRuns', ParentLives', CapsHeld', RootThere',
           \A p \in Procs, i \in CapIndex : caps'[p][i] # None =>
                Covers(BootCaps, caps'[p][i]) /\ (parent'[p] # None => Covers(caps'[parent'[p]], caps'[p][i])),
           \A d \in Cores \ {c} : op[d].pc = "grant" => caps'[current[d]] = caps[current[d]]
    PROVE  MemoryInv'
  <2> USE <1>TableStep
  <2>1. /\ CallInProgress' /\ op'[c] = o /\ current'[c] = r
        /\ \A d \in Cores \ {c} : op'[d] = op[d] /\ current'[d] = current[d]
      BY <1>CallStep DEF MemoryInv
  <2>2. HandsApart'
      BY <2>1, <1>HandsStep, SMTT(30) DEF MemoryInv
  <2>3. BuiltForCaller'
    <3>1. ASSUME NEW d \in Cores, NEW q \in InHand(op'[d]) PROVE parent'[q] \in {None, current'[d]}
      <4>1. CASE d = c
          BY <2>1, <3>1, <4>1
      <4>2. CASE d # c
          BY <2>1, <3>1, <4>2, ZenonT(60) DEF MemoryInv, BuiltForCaller
      <4> QED BY <4>1, <4>2
    <3> QED BY <3>1 DEF BuiltForCaller
  <2>4. AuthorityBounded'
    <3>1. ASSUME NEW d \in Cores, op'[d].pc = "grant"
          PROVE  Covers(BootCaps, op'[d].cap) /\ Covers(caps'[current'[d]], op'[d].cap)
      <4>1. d # c /\ op'[d] = op[d] /\ current'[d] = current[d]
          BY <2>1, <3>1
      <4> QED BY <3>1, <4>1, SMTT(30) DEF MemoryInv, AuthorityBounded
    <3> QED BY <3>1 DEF AuthorityBounded, Covers
  <2>5. \A d \in Cores : Builds(op'[d]) /\ op'[d].pc # "image" => space'[op'[d].p][Root] # None
      BY <2>1 DEF MemoryInv, GapIsSafe, Builds
  <2>6. GapIsSafe'
      BY <2>1, <2>2, <2>5, <1>GapStep
  <2> QED BY <2>1, <2>2, <2>3, <2>4, <2>6 DEF MemoryInv

\* While a process runs, whoever is not in the table holds nothing.
<1>HoldsNothing.
    ASSUME MemoryInv, NEW c \in Cores, current[c] # None, NEW q \in Procs, ~Live(q)
    PROVE  caps[q] = NoCaps
    BY <1>HoldsNothing DEF MemoryInv, CapsHeld

<1>sys_spawn_step.
    ASSUME MemoryInv, NEW c \in Cores, NEW img \in Images, sys_spawn(c, img)
    PROVE  MemoryInv'
  <2> USE <1>sys_spawn_step
  <2> DEFINE r == current[c]
  <2>1. PICK p \in Procs :
          /\ state[p] = "unused" /\ state' = [state EXCEPT ![p] = "reserved"]
          /\ parent' = [parent EXCEPT ![p] = r]
          /\ op' = [op EXCEPT ![c] = [Op("image") EXCEPT !.p = p, !.segs = Work(img)]]
      BY DEF sys_spawn
  <2> DEFINE o2 == [Op("image") EXCEPT !.p = p, !.segs = Work(img)]
  <2>2. /\ op[c].pc = "user" /\ TypeOK /\ UNCHANGED <<frameVars, space, heap_end, region, caps, current, lost>>
      BY DEF sys_spawn, Calls, MemoryInv
  <2>3. r \in Procs /\ r # None /\ state[r] = "running"
      BY <2>2 DEF MemoryInv, TypeOK, CallInProgress, Fits, CurrentRuns
  <2>4. /\ o2 \in Calling /\ o2.pc = "image" /\ o2.p = p /\ InHand(o2) = {p} /\ States(o2) = {"reserved"}
        /\ Fits(o2, r)
      BY <2>3, ImageLemma
  <2>5. op' = [op EXCEPT ![c] = o2] /\ current' = [current EXCEPT ![c] = r]
      BY <2>1, <2>2 DEF TypeOK
  <2> HIDE DEF o2, r
  <2>6. /\ state'[p] = "reserved" /\ parent'[p] = r
        /\ \A q \in Procs \ {p} : state'[q] = state[q] /\ parent'[q] = parent[q]
      BY <2>1, <2>2 DEF TypeOK
  <2>7. TypeOK'
    <3>1. state' \in [Procs -> {"unused", "reserved", "suspended", "ready", "running", "evicted", "dead"}]
        BY <2>1, <2>2 DEF TypeOK
    <3>2. parent' \in [Procs -> Procs \union {None}] /\ op' \in [Cores -> Calling]
        BY <2>1, <2>2, <2>3, <2>4, <2>5, SMTT(30) DEF TypeOK
    <3> QED BY <2>2, <3>1, <3>2 DEF TypeOK, frameVars
  <2>8. \A d \in Cores : p \notin InHand(op[d])
      BY <2>1, <1>FreeHandsLemma DEF MemoryInv
  <2>9. \A d \in Cores \ {c} : \A q \in InHand(op[d]) : state'[q] = state[q] /\ parent'[q] \in {None, parent[q]}
      BY <2>6, <2>8 DEF InHand
  <2>10. CurrentRuns'
    <3>1. \A d \in Cores : current[d] # None => current[d] \in Procs \ {p}
        BY <2>1, <2>2 DEF MemoryInv, CurrentRuns, TypeOK
    <3> QED BY <2>2, <2>6, <3>1 DEF MemoryInv, CurrentRuns
  <2>11. ParentLives'
    <3>1. ASSUME NEW q \in Procs, parent'[q] # None
          PROVE  state'[parent'[q]] \in {"ready", "running", "evicted"}
      <4>1. CASE q = p
          BY <2>1, <2>3, <2>6, <4>1, ZenonT(60)
      <4>2. CASE q # p
        <5>1. parent'[q] = parent[q] /\ parent[q] \in Procs
            BY <2>2, <2>6, <3>1, <4>2 DEF TypeOK
        <5>2. state[parent[q]] \in {"ready", "running", "evicted"}
            BY <3>1, <5>1 DEF MemoryInv, ParentLives
        <5> QED BY <2>1, <2>6, <5>1, <5>2
      <4> QED BY <4>1, <4>2
    <3> QED BY <3>1 DEF ParentLives
  <2>12. \A q \in Procs : Live(q)' <=> Live(q)
      BY <2>1, <2>6 DEF Live
  <2>13. CapsHeld'
      BY <2>2, <2>3, <2>12, <1>HoldsNothing DEF CapsHeld, r, NoCaps
  <2>14. RootThere'
      BY <2>2, <2>12 DEF MemoryInv, RootThere
  <2>15. ASSUME NEW q \in Procs, NEW i \in CapIndex, caps'[q][i] # None
         PROVE  Covers(BootCaps, caps'[q][i]) /\ (parent'[q] # None => Covers(caps'[parent'[q]], caps'[q][i]))
    <3>1. q # p
      <4>1. ~Live(p)
          BY <2>1 DEF Live
      <4> QED BY <2>2, <2>3, <2>15, <4>1, <1>HoldsNothing, NoCapsLemma DEF r
    <3> QED BY <2>2, <2>6, <2>15, <3>1 DEF MemoryInv, AuthorityBounded
  <2>16. o2.pc # "grant" /\ (Builds(o2) => o2.pc = "image") /\ r \in Procs \union {None} /\ UNCHANGED space
      BY <2>2, <2>3, <2>4
  <2>17. \A q \in InHand(o2) : /\ state'[q] \in States(o2) /\ parent'[q] \in {None, r}
                               /\ \A d \in Cores \ {c} : q \notin InHand(op[d])
      BY <2>4, <2>6, <2>8
  <2>18. \A d \in Cores \ {c} : op[d].pc = "grant" => caps'[current[d]] = caps[current[d]]
      BY <2>2
  <2> QED BY <2>4, <2>5, <2>7, <2>9, <2>10, <2>11, <2>13, <2>14, <2>15, <2>16, <2>17, <2>18, <1>TableStep

\* A slot is released by the core that has it in hand.
<1>ReleaseStep.
    ASSUME MemoryInv, TypeOK', NEW c \in Cores, NEW o \in Calling, NEW p \in InHand(op[c]),
           state' = [state EXCEPT ![p] = "unused"], parent' = [parent EXCEPT ![p] = None],
           op' = [op EXCEPT ![c] = o], UNCHANGED <<space, caps, current>>,
           Fits(o, current[c]), o.pc # "grant", ~Builds(o),
           \A q \in InHand(o) : q \in InHand(op[c]) /\ q # p /\ state[q] \in States(o)
    PROVE  MemoryInv'
  <2> USE <1>ReleaseStep
  <2> DEFINE r == current[c]
  <2>1. TypeOK /\ p \in Procs /\ state[p] \in {"reserved", "dead"} /\ r \in Procs \union {None}
      BY DEF MemoryInv, TypeOK, HandsApart, States, InHand
  <2>2. /\ state'[p] = "unused" /\ parent'[p] = None /\ current' = [current EXCEPT ![c] = r]
        /\ \A q \in Procs \ {p} : state'[q] = state[q] /\ parent'[q] = parent[q]
      BY <2>1 DEF TypeOK
  <2> HIDE DEF r
  <2>3. \A d \in Cores \ {c} : p \notin InHand(op[d])
      BY DEF MemoryInv, HandsApart
  <2>4. \A d \in Cores \ {c} : \A q \in InHand(op[d]) : state'[q] = state[q] /\ parent'[q] \in {None, parent[q]}
      BY <2>2, <2>3 DEF InHand
  <2>5. \A q \in InHand(o) : /\ state'[q] \in States(o) /\ parent'[q] \in {None, r}
                             /\ \A d \in Cores \ {c} : q \notin InHand(op[d])
    <3>1. \A q \in InHand(o) : q \in Procs \ {p} /\ parent[q] \in {None, r}
        BY DEF MemoryInv, BuiltForCaller, InHand, r
    <3> QED BY <2>2, <3>1 DEF MemoryInv, HandsApart
  <2>6. CurrentRuns'
    <3>1. \A d \in Cores : current[d] # None => current[d] \in Procs \ {p}
        BY <2>1 DEF MemoryInv, CurrentRuns, TypeOK
    <3> QED BY <2>2, <3>1, SMTT(60) DEF MemoryInv, CurrentRuns
  <2>7. ParentLives'
    <3>1. ASSUME NEW q \in Procs, parent'[q] # None
          PROVE  state'[parent'[q]] \in {"ready", "running", "evicted"}
      <4>1. parent'[q] = parent[q] /\ parent[q] \in Procs
          BY <2>1, <2>2, <3>1 DEF TypeOK
      <4>2. state[parent[q]] \in {"ready", "running", "evicted"}
          BY <3>1, <4>1 DEF MemoryInv, ParentLives
      <4> QED BY <2>1, <2>2, <4>1, <4>2
    <3> QED BY <3>1 DEF ParentLives
  <2>8. \A q \in Procs : Live(q)' <=> Live(q)
      BY <2>1, <2>2 DEF Live
  <2>9. CapsHeld'
      BY <2>1, <2>2, <2>8 DEF MemoryInv, CapsHeld, NoCaps
  <2>10. RootThere'
      BY <2>8 DEF MemoryInv, RootThere
  <2>11. ASSUME NEW q \in Procs, NEW i \in CapIndex, caps'[q][i] # None
         PROVE  Covers(BootCaps, caps'[q][i]) /\ (parent'[q] # None => Covers(caps'[parent'[q]], caps'[q][i]))
      BY <2>2, <2>11 DEF MemoryInv, AuthorityBounded
  <2>12. \A d \in Cores \ {c} : op[d].pc = "grant" => caps'[current[d]] = caps[current[d]]
      OBVIOUS
  <2>13. Fits(o, r) /\ (Builds(o) => o.pc = "image") /\ UNCHANGED space
      BY DEF r
  <2> QED BY <2>1, <2>2, <2>4, <2>5, <2>6, <2>7, <2>9, <2>10, <2>11, <2>12, <2>13, <1>TableStep

<1>new_space_step.
    ASSUME MemoryInv, NEW c \in Cores, new_space(c)
    PROVE  MemoryInv'
  <2> USE <1>new_space_step
  <2> DEFINE o == op[c]
             p == o.p
  <2>1. /\ o.pc = "image" /\ o \in Calling /\ op \in [Cores -> Calling] /\ TypeOK
        /\ Fits(o, current[c]) /\ UNCHANGED <<heap_end, region, caps, current, lost>>
        /\ bitmap' \subseteq Frames /\ usable' \subseteq Frames /\ frame_count' \in 0..CAPACITY
      BY AllocateTypes DEF new_space, MemoryInv, TypeOK, CallInProgress
  <2>2. p \in Procs /\ o.end = None
      BY <2>1 DEF Fits, Calling
  <2>3. p \in InHand(o) /\ state[p] = "reserved"
    <3>1. p \in InHand(o)
        BY <2>1, <2>2 DEF InHand, Builds
    <3> QED BY <2>1, <3>1 DEF MemoryInv, HandsApart, States
  <2>4. CASE Allocated # None
    <3> DEFINE o2 == [o EXCEPT !.pc = "segment"]
    <3>1. /\ space' = [space EXCEPT ![p][Root] = Allocated] /\ op' = [op EXCEPT ![c] = o2]
          /\ UNCHANGED <<state, parent>>
        BY <2>1, <2>4 DEF new_space
    <3>2. /\ o2 \in Calling /\ o2.pc = "segment" /\ o2.frame = o.frame /\ o2.p = p /\ o2.end = None
          /\ o2.drops = o.drops
        BY <2>1, <2>2 DEF Calling, Places
    <3> HIDE DEF o2
    <3>3. Fits(o2, current[c])
        BY <2>1, <2>2, <3>2 DEF Fits
    <3>4. \A q \in InHand(o2) : q \in InHand(op[c]) /\ state[q] \in States(o2)
        BY <2>3, <3>2 DEF InHand, Builds, States
    <3>5. Allocated \in Frames
        BY <2>1, <2>4, AllocatedLemma DEF TypeOK
    <3>6. space'[o2.p][Root] # None /\ Root \in Nodes /\ o2.pc # "grant"
        BY <2>1, <2>2, <2>4, <3>1, <3>2, NodeLemma DEF TypeOK
    <3> HIDE DEF p
    <3> QED BY <2>1, <2>2, <3>1, <3>2, <3>3, <3>4, <3>5, <3>6, <1>GrowStep
  <2>5. CASE Allocated = None
    <3> DEFINE r == current[c]
               o2 == Op(IF r = None THEN "idle" ELSE "user")
    <3>1. /\ state' = [state EXCEPT ![p] = "unused"] /\ parent' = [parent EXCEPT ![p] = None]
          /\ Return(c) /\ UNCHANGED space
        BY <2>5 DEF new_space
    <3>2. op' = [op EXCEPT ![c] = o2] /\ r \in Procs \union {None}
        BY <2>1, <3>1 DEF Return, TypeOK
    <3>3. o2 \in Calling /\ Fits(o2, r) /\ InHand(o2) = {} /\ ~Builds(o2) /\ o2.pc # "grant"
        BY <3>2, ReturnLemma
    <3>4. op' \in [Cores -> Calling]
        BY <2>1, <3>1, <1>ReturnTypes
    <3> HIDE DEF o2
    <3>5. state' \in [Procs -> {"unused", "reserved", "suspended", "ready", "running", "evicted", "dead"}]
        BY <2>1, <3>1 DEF TypeOK
    <3>6. parent' \in [Procs -> Procs \union {None}]
        BY <2>1, <3>1 DEF TypeOK
    <3>7. TypeOK'
        BY <2>1, <3>1, <3>4, <3>5, <3>6 DEF TypeOK
    <3> HIDE DEF p
    <3> QED BY <2>1, <2>3, <3>1, <3>2, <3>3, <3>7, <1>ReleaseStep
  <2> QED BY <2>4, <2>5

\* What is left of the drops is another process each.
<1>drop_next_step.
    ASSUME MemoryInv, NEW c \in Cores, drop_next(c)
    PROVE  MemoryInv'
  <2> USE <1>drop_next_step
  <2> DEFINE o == op[c]
             p == Head(o.drops)
             o2 == [o EXCEPT !.drops = Tail(o.drops)]
  <2>1. /\ o.pc = "drop" /\ o.drops # <<>> /\ o \in Calling /\ op \in [Cores -> Calling] /\ TypeOK
        /\ state' = [state EXCEPT ![p] = "unused"] /\ parent' = [parent EXCEPT ![p] = None]
        /\ heap_end' = [heap_end EXCEPT ![p] = USER_HEAP_START] /\ region' = [region EXCEPT ![p] = 0]
        /\ UNCHANGED <<frameVars, space, caps, current, lost>> /\ Fits(o, current[c])
      BY DEF drop_next, MemoryInv, TypeOK, CallInProgress
  <2>2. o.drops \in Seq(Procs)
      BY <2>1 DEF Calling
  <2>3. /\ p \in Procs /\ p = o.drops[1] /\ 1 \in DOMAIN o.drops /\ Tail(o.drops) \in Seq(Procs)
        /\ \A k \in DOMAIN Tail(o.drops) : /\ Tail(o.drops)[k] = o.drops[k + 1]
                                           /\ k + 1 \in DOMAIN o.drops /\ k + 1 # 1 /\ k \in Nat
      BY <2>1, <2>2, SMTT(60)
  <2>4. /\ o2 \in Calling /\ o2.pc = "drop" /\ o2.frame = o.frame /\ o2.p = o.p /\ o2.end = o.end
        /\ o2.drops = Tail(o.drops)
      BY <2>1, <2>3 DEF Calling
  <2>5. op' = [op EXCEPT ![c] = o2]
      BY <2>1 DEF drop_next
  <2> HIDE DEF o2
  <2>6. /\ \A i, j \in DOMAIN o.drops : o.drops[i] = o.drops[j] => i = j
        /\ o.end = None /\ o.frame = None
      BY <2>1 DEF Fits
  <2>7. \A i, j \in DOMAIN o2.drops : o2.drops[i] = o2.drops[j] => i = j
    <3>1. ASSUME NEW i \in DOMAIN o2.drops, NEW j \in DOMAIN o2.drops, o2.drops[i] = o2.drops[j]
          PROVE  i = j
      <4>1. o.drops[i + 1] = o.drops[j + 1] /\ i + 1 \in DOMAIN o.drops /\ j + 1 \in DOMAIN o.drops
            /\ i \in Nat /\ j \in Nat
          BY <2>3, <2>4, <3>1
      <4>2. i + 1 = j + 1
          BY <2>6, <4>1
      <4> QED BY <4>1, <4>2, SMTT(30)
    <3> QED BY <3>1
  <2>8. Fits(o2, current[c])
      BY <2>4, <2>6, <2>7 DEF Fits
  <2>9. p \in InHand(o) /\ ~Builds(o2)
      BY <2>1, <2>3, <2>4 DEF InHand, Builds
  <2>10. \A q \in InHand(o2) : q \in InHand(op[c]) /\ q # p /\ state[q] \in States(o2)
    <3>1. ASSUME NEW q \in InHand(o2) PROVE q \in InHand(o) /\ q # p
      <4>1. q \in Procs /\ \E k \in DOMAIN o2.drops : o2.drops[k] = q
          BY <2>4, <2>9, <3>1 DEF InHand
      <4>2. PICK k \in DOMAIN o2.drops : o2.drops[k] = q
          BY <4>1
      <4>3. o.drops[k + 1] = q /\ k + 1 \in DOMAIN o.drops /\ k + 1 # 1
          BY <2>3, <2>4, <4>2
      <4>4. q # p
          BY <2>3, <2>6, <4>3
      <4> QED BY <2>1, <4>1, <4>3, <4>4 DEF InHand
    <3>2. States(o2) = States(o)
        BY <2>1, <2>4 DEF States
    <3> QED BY <3>1, <3>2 DEF MemoryInv, HandsApart
  <2>11. TypeOK'
    <3>1. state' \in [Procs -> {"unused", "reserved", "suspended", "ready", "running", "evicted", "dead"}]
        BY <2>1 DEF TypeOK
    <3>2. parent' \in [Procs -> Procs \union {None}]
        BY <2>1 DEF TypeOK
    <3>5. region' \in [Procs -> Int]
      <4>1. region \in [Procs -> Int] /\ region' = [region EXCEPT ![p] = 0]
          BY <2>1 DEF TypeOK
      <4>2. 0 \in Int
          BY SMTT(60)
      <4> HIDE DEF p
      <4> QED BY <4>1, <4>2
    <3>3. heap_end' \in [Procs -> HeapEnds]
      <4>1. USER_HEAP_START \in HeapEnds
          BY MemoryAssumption, SMTT(60) DEF HeapEnds
      <4> QED BY <2>1, <4>1 DEF TypeOK
    <3>4. op' \in [Cores -> Calling]
        BY <2>1, <2>4, <2>5
    <3> QED BY <2>1, <3>1, <3>2, <3>3, <3>4, <3>5 DEF TypeOK, frameVars
  <2>12. o2.pc # "grant" /\ UNCHANGED <<space, caps, current>>
      BY <2>1, <2>4
  <2> HIDE DEF p
  <2> QED BY <2>1, <2>4, <2>5, <2>8, <2>9, <2>10, <2>11, <2>12, <1>ReleaseStep

<1>publish_step.
    ASSUME MemoryInv, NEW c \in Cores, publish(c)
    PROVE  MemoryInv'
  <2> USE <1>publish_step
  <2> DEFINE o == op[c]
             p == o.p
             r == current[c]
             o2 == Op(IF r = None THEN "idle" ELSE "user")
  <2>1. /\ o.pc = "segment" /\ o \in Calling /\ TypeOK /\ Return(c) /\ Fits(o, r)
        /\ state' = [state EXCEPT ![p] = IF p = InitProc THEN "ready" ELSE "suspended"]
        /\ UNCHANGED <<frameVars, parent, space, heap_end, region, caps, current, lost>>
      BY DEF publish, MemoryInv, TypeOK, CallInProgress
  <2>2. p \in Procs /\ o.end = None /\ r \in Procs \union {None}
      BY <2>1 DEF Fits, Calling, TypeOK
  <2>3. p \in InHand(o) /\ state[p] = "reserved" /\ space[p][Root] # None
    <3>1. p \in InHand(o)
        BY <2>1, <2>2 DEF InHand, Builds
    <3> QED BY <2>1, <3>1 DEF MemoryInv, HandsApart, States, GapIsSafe
  <2>4. op' = [op EXCEPT ![c] = o2] /\ current' = [current EXCEPT ![c] = r]
      BY <2>1 DEF Return, TypeOK
  <2>5. o2 \in Calling /\ Fits(o2, r) /\ InHand(o2) = {} /\ ~Builds(o2) /\ o2.pc # "grant"
      BY <2>2, ReturnLemma
  <2>6. op' \in [Cores -> Calling]
      BY <2>1, <1>ReturnTypes
  <2> HIDE DEF o2, r
  <2>7. /\ state'[p] \in {"ready", "suspended"} /\ \A q \in Procs \ {p} : state'[q] = state[q]
        /\ state' \in [Procs -> {"unused", "reserved", "suspended", "ready", "running", "evicted", "dead"}]
      BY <2>1, <2>2 DEF TypeOK
  <2> HIDE DEF p
  <2>8. TypeOK'
      BY <2>1, <2>6, <2>7 DEF TypeOK, frameVars
  <2>9. \A d \in Cores \ {c} : \A q \in InHand(op[d]) : state'[q] = state[q] /\ parent'[q] \in {None, parent[q]}
    <3>1. \A d \in Cores \ {c} : p \notin InHand(op[d])
        BY <2>3 DEF MemoryInv, HandsApart
    <3> QED BY <2>1, <2>7, <3>1, ZenonT(60) DEF InHand
  <2>10. CurrentRuns'
    <3>1. \A d \in Cores : current[d] # None => current[d] \in Procs \ {p}
        BY <2>1, <2>3 DEF MemoryInv, CurrentRuns, TypeOK
    <3> QED BY <2>1, <2>7, <3>1 DEF MemoryInv, CurrentRuns
  <2>11. ParentLives'
    <3>1. \A q \in Procs : parent[q] # None => parent[q] \in Procs \ {p}
        BY <2>1, <2>3 DEF MemoryInv, ParentLives, TypeOK
    <3> QED BY <2>1, <2>7, <3>1 DEF MemoryInv, ParentLives
  <2>12. CapsHeld'
    <3>1. ASSUME NEW q \in Procs, caps[q] # NoCaps, ~Live(q)' PROVE FALSE
      <4>1. q # p /\ ~Live(q)
          BY <2>2, <2>7, <3>1 DEF Live
      <4>2. state[p] = "unused"
          BY <2>2, <3>1, <4>1 DEF MemoryInv, CapsHeld
      <4> QED BY <2>3, <4>2
    <3> QED BY <2>1, <3>1 DEF CapsHeld, NoCaps
  <2>13. RootThere'
    <3>1. \A q \in Procs \ {p} : Live(q)' <=> Live(q)
        BY <2>7 DEF Live
    <3> QED BY <2>1, <2>3, <3>1 DEF MemoryInv, RootThere
  <2>14. \A q \in Procs, i \in CapIndex : caps'[q][i] # None =>
            Covers(BootCaps, caps'[q][i]) /\ (parent'[q] # None => Covers(caps'[parent'[q]], caps'[q][i]))
      BY <2>1 DEF MemoryInv, AuthorityBounded
  <2>15. /\ \A d \in Cores \ {c} : op[d].pc = "grant" => caps'[current[d]] = caps[current[d]]
         /\ UNCHANGED space
      BY <2>1
  <2> HIDE DEF o
  <2> QED BY <2>2, <2>4, <2>5, <2>8, <2>9, <2>10, <2>11, <2>12, <2>13, <2>14, <2>15, <1>TableStep

\* The target is a suspended child of the caller: it has no children, and it runs nowhere.
<1>grant_insert_step.
    ASSUME MemoryInv, NEW c \in Cores, grant_insert(c)
    PROVE  MemoryInv'
  <2> USE <1>grant_insert_step
  <2> DEFINE o == op[c]
             p == o.p
             r == current[c]
             new == [object |-> o.cap.object, rights |-> o.cap.rights]
  <2>1. /\ o.pc = "grant" /\ o \in Calling /\ TypeOK /\ Return(c) /\ Fits(o, r)
        /\ UNCHANGED <<frameVars, state, parent, space, heap_end, region, current, lost>>
      BY DEF grant_insert, MemoryInv, TypeOK, CallInProgress
  <2>2. CASE ~(parent[p] = r /\ state[p] = "suspended")
    <3>1. caps' = caps
        BY <2>2 DEF grant_insert
    <3> QED BY <2>1, <3>1, <1>EndStep DEF procVars
  <2>3. CASE parent[p] = r /\ state[p] = "suspended"
    <3> DEFINE o2 == Op(IF r = None THEN "idle" ELSE "user")
    <3>1. caps' = [caps EXCEPT ![p][o.cap.at] = new]
        BY <2>3 DEF grant_insert
    <3>2. p \in Procs /\ r \in Procs /\ r # None /\ o.cap \in Grants
        BY <2>1 DEF Fits, Calling, TypeOK
    <3>3. o.cap.at \in CapIndex /\ new \in Caps /\ new.object = o.cap.object /\ new.rights = o.cap.rights
      <4>1. o.cap.at \in CapIndex /\ o.cap.rights \in SUBSET Rights /\ o.cap.object \in {x.object : x \in Caps \ {None}}
          BY <3>2 DEF Grants
      <4>2. PICK x \in Caps \ {None} : o.cap.object = x.object
          BY <4>1
      <4>3. PICK i \in {j \in CapIndex : BootCaps[j] # None} : x \in [object : {BootCaps[i].object}, rights : SUBSET Rights]
          BY <4>2 DEF Caps
      <4>4. o.cap.object = BootCaps[i].object
          BY <4>2, <4>3
      <4>5. new \in [object : {BootCaps[i].object}, rights : SUBSET Rights]
          BY <4>1, <4>4
      <4>6. new \in Caps
          BY <4>3, <4>5 DEF Caps
      <4> QED BY <4>1, <4>6
    <3>4. Covers(BootCaps, new) /\ Covers(caps[r], new)
      <4>1. Covers(BootCaps, o.cap) /\ Covers(caps[r], o.cap)
          BY <2>1 DEF MemoryInv, AuthorityBounded
      <4> HIDE DEF new
      <4> QED BY <3>3, <4>1 DEF Covers
    <3>5. op' = [op EXCEPT ![c] = o2] /\ current' = [current EXCEPT ![c] = r]
        BY <2>1 DEF Return, TypeOK
    <3>6. o2 \in Calling /\ Fits(o2, r) /\ InHand(o2) = {} /\ ~Builds(o2) /\ o2.pc # "grant"
        BY <3>2, ReturnLemma
    <3>7. op' \in [Cores -> Calling]
        BY <2>1, <1>ReturnTypes
    <3> HIDE DEF o2, new
    <3>8. /\ caps' \in [Procs -> [CapIndex -> Caps]] /\ \A q \in Procs \ {p} : caps'[q] = caps[q]
          /\ \A i \in CapIndex : caps'[p][i] \in {caps[p][i], new}
        BY <2>1, <3>1, <3>2, <3>3 DEF TypeOK
    <3>9. TypeOK'
        BY <2>1, <3>7, <3>8 DEF TypeOK, frameVars
    <3>10. state[r] = "running" /\ p # r
        BY <2>3, <3>2 DEF MemoryInv, CurrentRuns
    <3>11. CurrentRuns' /\ ParentLives' /\ RootThere'
        BY <2>1 DEF MemoryInv, CurrentRuns, ParentLives, RootThere, Live
    <3>12. CapsHeld'
      <4>1. ASSUME NEW q \in Procs, caps'[q] # NoCaps, ~Live(q) PROVE FALSE
        <5>1. q # p
            BY <2>3, <4>1 DEF Live
        <5>2. caps[q] # NoCaps
            BY <3>8, <4>1, <5>1
        <5> QED BY <3>2, <4>1, <5>2, <1>HoldsNothing
      <4> QED BY <2>1, <4>1 DEF CapsHeld, NoCaps, Live
    <3>13. ASSUME NEW q \in Procs, NEW i \in CapIndex, caps'[q][i] # None
           PROVE  Covers(BootCaps, caps'[q][i]) /\ (parent'[q] # None => Covers(caps'[parent'[q]], caps'[q][i]))
      <4>1. parent'[q] # None => parent[q] \in Procs \ {p} /\ parent'[q] = parent[q] /\ caps'[parent[q]] = caps[parent[q]]
        <5>1. parent'[q] = parent[q] /\ parent[q] \in Procs \union {None}
            BY <2>1 DEF TypeOK
        <5>2. parent[q] # None => parent[q] # p
            BY <2>3 DEF MemoryInv, ParentLives
        <5> QED BY <3>8, <5>1, <5>2
      <4>2. CASE caps'[q][i] = caps[q][i]
          BY <3>13, <4>1, <4>2 DEF MemoryInv, AuthorityBounded
      <4>3. CASE q = p /\ caps'[q][i] = new
        <5>1. parent'[q] = r /\ caps'[r] = caps[r]
            BY <2>1, <2>3, <3>2, <3>8, <3>10, <4>3
        <5> QED BY <3>4, <4>3, <5>1
      <4> QED BY <3>8, <4>2, <4>3
    <3>14. \A d \in Cores \ {c} : op[d].pc = "grant" => caps'[current[d]] = caps[current[d]]
      <4>1. ASSUME NEW d \in Cores, op[d].pc = "grant" PROVE current[d] \in Procs \ {p}
        <5>1. current[d] # None /\ current[d] \in Procs \union {None}
            BY <2>1, <4>1 DEF MemoryInv, CallInProgress, Fits, TypeOK
        <5> QED BY <2>3, <5>1 DEF MemoryInv, CurrentRuns
      <4> QED BY <3>8, <4>1
    <3>15. \A d \in Cores \ {c} : \A q \in InHand(op[d]) : state'[q] = state[q] /\ parent'[q] \in {None, parent[q]}
        BY <2>1
    <3>16. UNCHANGED space /\ r \in Procs \union {None}
        BY <2>1, <3>2
    <3> HIDE DEF o, p, r
    <3> QED BY <3>5, <3>6, <3>9, <3>11, <3>12, <3>13, <3>14, <3>15, <3>16, <1>TableStep
  <2> QED BY <2>2, <2>3

\* A process in the table goes on in another state, and core c with process r.
<1>LiveStep.
    ASSUME MemoryInv, NEW c \in Cores, NEW p \in Procs, Live(p),
           NEW s \in {"ready", "running", "evicted"}, state' = [state EXCEPT ![p] = s],
           NEW o \in Calling, InHand(o) = {}, ~Builds(o), o.pc # "grant",
           NEW r \in Procs \union {None}, Fits(o, r),
           op' = [op EXCEPT ![c] = o], current' = [current EXCEPT ![c] = r],
           UNCHANGED <<frameVars, parent, space, heap_end, region, caps, lost>>,
           CurrentRuns'
    PROVE  MemoryInv'
  <2> USE <1>LiveStep
  <2>1. TypeOK
      BY DEF MemoryInv
  <2>2. /\ state'[p] = s /\ \A q \in Procs \ {p} : state'[q] = state[q]
        /\ state' \in [Procs -> {"unused", "reserved", "suspended", "ready", "running", "evicted", "dead"}]
      BY <2>1 DEF TypeOK
  <2>3. op' \in [Cores -> Calling] /\ current' \in [Cores -> Procs \union {None}]
      BY <2>1 DEF TypeOK
  <2>4. TypeOK'
      BY <2>1, <2>2, <2>3 DEF TypeOK, frameVars
  <2>5. \A d \in Cores \ {c} : \A q \in InHand(op[d]) : state'[q] = state[q] /\ parent'[q] \in {None, parent[q]}
    <3>1. \A d \in Cores : p \notin InHand(op[d])
        BY <1>FreeHandsLemma DEF MemoryInv, Live
    <3> QED BY <2>2, <3>1, ZenonT(60) DEF InHand
  <2>6. ParentLives'
    <3>1. \A q \in Procs : parent[q] # None => parent[q] \in Procs
        BY <2>1 DEF TypeOK
    <3> QED BY <2>2, <3>1 DEF MemoryInv, ParentLives
  <2>7. \A q \in Procs : Live(q)' <=> Live(q)
      BY <2>2 DEF Live
  <2>8. CapsHeld'
    <3>1. ASSUME NEW q \in Procs, caps[q] # NoCaps, ~Live(q) PROVE FALSE
      <4>1. q # p
          BY <3>1
      <4>2. state[p] = "unused"
          BY <3>1, <4>1 DEF MemoryInv, CapsHeld
      <4> QED BY <4>2 DEF Live
    <3> QED BY <2>7, <3>1 DEF CapsHeld, NoCaps
  <2>9. RootThere'
      BY <2>7 DEF MemoryInv, RootThere
  <2>10. \A q \in Procs, i \in CapIndex : caps'[q][i] # None =>
            Covers(BootCaps, caps'[q][i]) /\ (parent'[q] # None => Covers(caps'[parent'[q]], caps'[q][i]))
      BY DEF MemoryInv, AuthorityBounded
  <2>11. /\ \A d \in Cores \ {c} : op[d].pc = "grant" => caps'[current[d]] = caps[current[d]]
         /\ UNCHANGED space
      OBVIOUS
  <2> QED BY <2>4, <2>5, <2>6, <2>8, <2>9, <2>10, <2>11, <1>TableStep

<1>sys_process_start_step.
    ASSUME MemoryInv, NEW c \in Cores, NEW t \in Procs, sys_process_start(c, t)
    PROVE  MemoryInv'
  <2> USE <1>sys_process_start_step
  <2> DEFINE o == op[c]
             r == current[c]
  <2>1. /\ o.pc = "user" /\ state[t] = "suspended" /\ state' = [state EXCEPT ![t] = "ready"] /\ TypeOK
        /\ UNCHANGED <<frameVars, parent, space, heap_end, region, caps, current, op, lost>>
      BY DEF sys_process_start, Calls, MemoryInv
  <2>2. /\ o \in Calling /\ r \in Procs \union {None} /\ op' = [op EXCEPT ![c] = o]
        /\ current' = [current EXCEPT ![c] = r] /\ Fits(o, r)
      BY <2>1 DEF TypeOK, MemoryInv, CallInProgress
  <2>3. InHand(o) = {} /\ ~Builds(o) /\ o.pc # "grant"
      BY <2>1 DEF InHand, Builds
  <2>4. CurrentRuns'
    <3>1. \A q \in Procs \ {t} : state'[q] = state[q]
        BY <2>1 DEF TypeOK
    <3>2. \A d \in Cores : current[d] # None => current[d] \in Procs \ {t}
        BY <2>1 DEF MemoryInv, CurrentRuns, TypeOK
    <3> QED BY <2>1, <3>1, <3>2 DEF MemoryInv, CurrentRuns
  <2>5. Live(t)
      BY <2>1 DEF Live
  <2> HIDE DEF o, r
  <2> QED BY <2>1, <2>2, <2>3, <2>4, <2>5, <1>LiveStep

<1>dispatch_step.
    ASSUME MemoryInv, NEW c \in Cores, dispatch(c)
    PROVE  MemoryInv'
  <2> USE <1>dispatch_step
  <2>1. PICK p \in Procs : /\ state[p] = "ready" /\ state' = [state EXCEPT ![p] = "running"]
                           /\ current' = [current EXCEPT ![c] = p]
      BY DEF dispatch
  <2>2. /\ op[c].pc = "idle" /\ op' = [op EXCEPT ![c] = Op("user")] /\ TypeOK
        /\ UNCHANGED <<frameVars, parent, space, heap_end, region, caps, lost>>
      BY DEF dispatch, MemoryInv
  <2>3. /\ Op("user") \in Calling /\ InHand(Op("user")) = {} /\ ~Builds(Op("user")) /\ Op("user").pc # "grant"
        /\ Fits(Op("user"), p) /\ p \in Procs \union {None}
      BY NoCallLemma, ProcsLemma
  <2>4. CurrentRuns'
    <3>1. state'[p] = "running" /\ \A q \in Procs \ {p} : state'[q] = state[q]
        BY <2>1, <2>2 DEF TypeOK
    <3>2. current'[c] = p /\ \A d \in Cores \ {c} : current'[d] = current[d]
        BY <2>1, <2>2 DEF TypeOK
    <3>3. \A d \in Cores : current[d] # None => current[d] \in Procs \ {p}
        BY <2>1, <2>2 DEF MemoryInv, CurrentRuns, TypeOK
    <3>4. ASSUME NEW d \in Cores, current'[d] # None
          PROVE  state'[current'[d]] = "running" /\ \A e \in Cores \ {d} : current'[e] # current'[d]
      <4>1. CASE d = c
          BY <3>1, <3>2, <3>3, <3>4, <4>1
      <4>2. CASE d # c
          BY <3>1, <3>2, <3>3, <3>4, <4>2, SMTT(30) DEF MemoryInv, CurrentRuns
      <4> QED BY <4>1, <4>2
    <3> QED BY <3>4 DEF CurrentRuns
  <2>5. Live(p)
      BY <2>1 DEF Live
  <2> QED BY <2>1, <2>2, <2>3, <2>4, <2>5, <1>LiveStep

<1>preempt_step.
    ASSUME MemoryInv, NEW c \in Cores, preempt(c)
    PROVE  MemoryInv'
  <2> USE <1>preempt_step
  <2> DEFINE p == current[c]
  <2>1. PICK s \in {"ready", "evicted"} : state' = [state EXCEPT ![p] = s]
      BY DEF preempt
  <2>2. /\ op[c].pc = "user" /\ op' = [op EXCEPT ![c] = Op("idle")] /\ TypeOK
        /\ current' = [current EXCEPT ![c] = None]
        /\ UNCHANGED <<frameVars, parent, space, heap_end, region, caps, lost>>
      BY DEF preempt, Calls, MemoryInv
  <2>3. p \in Procs /\ p # None /\ state[p] = "running"
      BY <2>2 DEF MemoryInv, TypeOK, CallInProgress, Fits, CurrentRuns
  <2>4. /\ Op("idle") \in Calling /\ InHand(Op("idle")) = {} /\ ~Builds(Op("idle")) /\ Op("idle").pc # "grant"
        /\ Fits(Op("idle"), None) /\ None \in Procs \union {None}
      BY NoCallLemma
  <2>5. CurrentRuns'
    <3>1. \A q \in Procs \ {p} : state'[q] = state[q]
        BY <2>1, <2>2 DEF TypeOK
    <3>2. current'[c] = None /\ \A d \in Cores \ {c} : current'[d] = current[d]
        BY <2>2 DEF TypeOK
    <3>3. \A d \in Cores \ {c} : current[d] # None => current[d] \in Procs \ {p}
        BY <2>2, <2>3 DEF MemoryInv, CurrentRuns, TypeOK
    <3> QED BY <3>1, <3>2, <3>3, SMTT(30) DEF MemoryInv, CurrentRuns
  <2>6. Live(p)
      BY <2>3 DEF Live
  <2> HIDE DEF p
  <2> QED BY <2>1, <2>2, <2>3, <2>4, <2>5, <2>6, <1>LiveStep

\* p and its suspended children leave the table into the hands of core c.
<1>FinalizeStep.
    ASSUME MemoryInv, NEW c \in Cores, NEW p \in Procs, Finalize(c, p), current[c] # None,
           NEW r \in Procs \union {None}, current' = [current EXCEPT ![c] = r],
           \A d \in Cores \ {c} : current[d] # p /\ p \notin InHand(op[d])
    PROVE  MemoryInv'
  <2> USE <1>FinalizeStep
  <2>z. PICK s \in DropOrders(p) : op' = [op EXCEPT ![c] = [Op("drop") EXCEPT !.drops = s]]
      BY DEF Finalize
  <2> DEFINE dying == Dying(p)
             o == [Op("drop") EXCEPT !.drops = s]
  <2>1. /\ TypeOK /\ dying \in SUBSET Procs /\ p \in dying /\ op' = [op EXCEPT ![c] = o]
        /\ \A q \in dying : q = p \/ (parent[q] = p /\ state[q] = "suspended")
        /\ UNCHANGED <<frameVars, space, heap_end, region, lost>>
      BY <2>z DEF MemoryInv, Dying, Finalize
  <2>2. /\ s \in Seq(Procs) /\ \A k \in DOMAIN s : s[k] \in dying
        /\ \A i, j \in DOMAIN s : s[i] = s[j] => i = j
      BY DropOrderLemma
  <2>3. /\ o \in Calling /\ o.pc = "drop" /\ o.frame = None /\ o.end = None /\ o.drops = s
        /\ InHand(o) = {q \in Procs : \E k \in DOMAIN s : s[k] = q} /\ ~Builds(o)
        /\ States(o) = {"reserved", "dead"}
      BY <2>2, DropLemma
  <2>4. state' = [q \in Procs |-> IF q \in dying THEN "dead" ELSE state[q]]
      BY DEF Finalize
  <2>5. parent' = [q \in Procs |-> IF q \in dying \/ parent[q] = p THEN None ELSE parent[q]]
      BY DEF Finalize
  <2>6. caps' = [q \in Procs |-> IF q \in dying THEN NoCaps ELSE caps[q]]
      BY DEF Finalize
  <2>a. current' = [d \in Cores |-> IF current[d] = p THEN None ELSE current[d]]
      BY DEF Finalize
  <2> HIDE DEF dying, o
  <2>7. InHand(o) \subseteq dying /\ Fits(o, r)
      BY <2>2, <2>3, SMTT(30) DEF Fits
  <2>8. /\ state' \in [Procs -> {"unused", "reserved", "suspended", "ready", "running", "evicted", "dead"}]
        /\ \A q \in dying : state'[q] = "dead"
        /\ \A q \in Procs \ dying : state'[q] = state[q]
      BY <2>1, <2>4 DEF TypeOK
  <2>9. /\ parent' \in [Procs -> Procs \union {None}]
        /\ \A q \in Procs : parent'[q] \in {None, parent[q]}
        /\ \A q \in Procs : parent'[q] # None => q \notin dying /\ parent[q] # p
      BY <2>1, <2>5 DEF TypeOK
  <2>10. caps' \in [Procs -> [CapIndex -> Caps]]
    <3>1. NoCaps \in [CapIndex -> Caps]
        BY DEF NoCaps, Caps
    <3> QED BY <2>1, <2>6, <3>1 DEF TypeOK
  <2>11. /\ \A q \in dying : caps'[q] = NoCaps
         /\ \A q \in Procs \ dying : caps'[q] = caps[q]
      BY <2>1, <2>6
  <2>12. TypeOK'
    <3>1. op' \in [Cores -> Calling] /\ current' \in [Cores -> Procs \union {None}]
        BY <2>1, <2>3 DEF TypeOK
    <3> QED BY <2>1, <2>8, <2>9, <2>10, <3>1 DEF TypeOK, frameVars
  <2>13. \A d \in Cores \ {c} : \A q \in InHand(op[d]) : q \in Procs \ dying
    <3>1. ASSUME NEW d \in Cores \ {c}, NEW q \in dying PROVE q \notin InHand(op[d])
      <4>1. CASE q = p
          BY <3>1, <4>1
      <4>2. CASE q # p
        <5>1. state[q] = "suspended"
            BY <2>1, <3>1, <4>2
        <5> QED BY <3>1, <5>1, <1>FreeHandsLemma DEF MemoryInv
      <4> QED BY <4>1, <4>2
    <3> QED BY <3>1 DEF InHand
  <2>14. \A d \in Cores \ {c} : \A q \in InHand(op[d]) : state'[q] = state[q] /\ parent'[q] \in {None, parent[q]}
      BY <2>8, <2>9, <2>13
  <2>15. \A q \in InHand(o) : /\ state'[q] \in States(o) /\ parent'[q] \in {None, r}
                              /\ \A d \in Cores \ {c} : q \notin InHand(op[d])
      BY <2>1, <2>3, <2>7, <2>8, <2>9, <2>13
  <2>16. \A d \in Cores : current'[d] # None => current'[d] = current[d] /\ current[d] \in Procs \ dying
    <3>1. ASSUME NEW d \in Cores, current'[d] # None
          PROVE  current'[d] = current[d] /\ current[d] \in Procs /\ current[d] # p /\ state[current[d]] = "running"
        BY <2>1, <2>a, <3>1, SMTT(30) DEF TypeOK, MemoryInv, CurrentRuns
    <3> QED BY <2>1, <3>1
  <2>17. CurrentRuns'
      BY <2>8, <2>16, SMTT(60) DEF MemoryInv, CurrentRuns
  <2>18. ASSUME NEW q \in Procs, parent'[q] # None
         PROVE  /\ parent'[q] = parent[q] /\ parent[q] \in Procs \ dying /\ q \in Procs \ dying
                /\ state[parent[q]] \in {"ready", "running", "evicted"}
    <3>1. parent'[q] = parent[q] /\ q \notin dying /\ parent[q] # p /\ parent[q] \in Procs
        BY <2>1, <2>9, <2>18 DEF TypeOK
    <3>2. state[parent[q]] \in {"ready", "running", "evicted"}
        BY <2>18, <3>1 DEF MemoryInv, ParentLives
    <3> QED BY <2>1, <3>1, <3>2
  <2>19. ParentLives'
      BY <2>8, <2>18, SMTT(60) DEF ParentLives
  <2>20. \A q \in Procs : Live(q)' => Live(q) /\ q \notin dying
      BY <2>8 DEF Live
  <2>21. CapsHeld'
    <3>1. ASSUME NEW q \in Procs, caps'[q] # NoCaps, ~Live(q)' PROVE FALSE
      <4>1. q \notin dying /\ caps[q] # NoCaps
          BY <2>11, <3>1
      <4>2. ~Live(q)
          BY <2>8, <3>1, <4>1 DEF Live
      <4> QED BY <4>1, <4>2, <1>HoldsNothing
    <3> QED BY <3>1 DEF CapsHeld, NoCaps
  <2>22. RootThere'
      BY <2>1, <2>20 DEF MemoryInv, RootThere
  <2>23. ASSUME NEW q \in Procs, NEW i \in CapIndex, caps'[q][i] # None
         PROVE  Covers(BootCaps, caps'[q][i]) /\ (parent'[q] # None => Covers(caps'[parent'[q]], caps'[q][i]))
    <3>1. q \notin dying /\ caps'[q] = caps[q]
        BY <2>11, <2>23, NoCapsLemma
    <3>2. parent'[q] # None => parent'[q] = parent[q] /\ caps'[parent[q]] = caps[parent[q]]
        BY <2>11, <2>18
    <3> QED BY <2>23, <3>1, <3>2 DEF MemoryInv, AuthorityBounded
  <2>24. \A d \in Cores \ {c} : op[d].pc = "grant" => caps'[current[d]] = caps[current[d]]
    <3>1. ASSUME NEW d \in Cores \ {c}, op[d].pc = "grant" PROVE current[d] \in Procs \ dying
      <4>1. current[d] # None /\ current[d] \in Procs /\ current[d] # p
          BY <2>1, <3>1 DEF MemoryInv, CallInProgress, Fits, TypeOK
      <4>2. state[current[d]] = "running"
          BY <4>1 DEF MemoryInv, CurrentRuns
      <4> QED BY <2>1, <4>1, <4>2
    <3> QED BY <2>11, <3>1
  <2>25. UNCHANGED space /\ o.pc # "grant" /\ (Builds(o) => o.pc = "image")
      BY <2>1, <2>3
  <2> QED BY <2>1, <2>3, <2>7, <2>12, <2>14, <2>15, <2>17, <2>19, <2>21, <2>22, <2>23, <2>24, <2>25, <1>TableStep

<1>exit_step.
    ASSUME MemoryInv, NEW c \in Cores, exit(c)
    PROVE  MemoryInv'
  <2> USE <1>exit_step
  <2> DEFINE p == current[c]
  <2>1. /\ Finalize(c, p) /\ TypeOK /\ current' = [d \in Cores |-> IF current[d] = p THEN None ELSE current[d]]
      BY DEF exit, MemoryInv, Finalize
  <2>2. p \in Procs /\ p # None /\ state[p] = "running" /\ \A d \in Cores \ {c} : current[d] # p
      BY DEF exit, Calls, MemoryInv, TypeOK, CallInProgress, Fits, CurrentRuns
  <2>3. current' = [current EXCEPT ![c] = None]
      BY <2>1, <2>2 DEF TypeOK
  <2>4. \A d \in Cores \ {c} : current[d] # p /\ p \notin InHand(op[d])
      BY <2>2, <1>FreeHandsLemma DEF MemoryInv
  <2> QED BY <2>1, <2>2, <2>3, <2>4, <1>FinalizeStep

\* Whatever has become of the target, no other core is building it or tearing it down:
\* its parent is here.
<1>kill_finish_step.
    ASSUME MemoryInv, NEW c \in Cores, kill_finish(c)
    PROVE  MemoryInv'
  <2> USE <1>kill_finish_step
  <2> DEFINE t == op[c].p
             r == current[c]
  <2>1. op[c].pc = "kill" /\ TypeOK /\ NotRunning(t)
      BY DEF kill_finish, MemoryInv
  <2>2. t \in Procs /\ r \in Procs /\ r # None
      BY <2>1, ProcsLemma DEF MemoryInv, TypeOK, Calling, CallInProgress, Fits
  <2>3. CASE parent[t] # r
      BY <2>3, <1>EndStep DEF kill_finish
  <2>4. CASE parent[t] = r
    <3>1. Finalize(c, t) /\ current' = [d \in Cores |-> IF current[d] = t THEN None ELSE current[d]]
        BY <2>4 DEF kill_finish, Finalize
    <3>2. current' = [current EXCEPT ![c] = r]
        BY <2>1, <3>1 DEF TypeOK, NotRunning
    <3>3. \A d \in Cores \ {c} : current[d] # t /\ t \notin InHand(op[d])
        BY <2>1, <2>2, <2>4, SMTT(30) DEF NotRunning, MemoryInv, BuiltForCaller, CurrentRuns
    <3> QED BY <2>2, <3>1, <3>2, <3>3, <1>FinalizeStep
  <2> QED BY <2>3, <2>4
<1> SUFFICES ASSUME MemoryInv, Next
             PROVE  MemoryInv'
    BY ZenonT(30)
<1>1. PICK c \in Cores :
        \/ allocate_page(c) \/ map_to(c)
        \/ (\E img \in Images : sys_spawn(c, img))
        \/ new_space(c) \/ load_segment(c) \/ segment_done(c) \/ publish(c)
        \/ (\E t \in Procs, i, j \in CapIndex, rights \in SUBSET Rights :
              grant_resolve(c, t, i, j, rights))
        \/ grant_insert(c)
        \/ (\E t \in Procs : sys_process_start(c, t) \/ sys_kill(c, t))
        \/ (\E n \in Increments : sys_sbrk(c, n))
        \/ sbrk_done(c) \/ dispatch(c) \/ preempt(c) \/ exit(c) \/ kill_finish(c)
        \/ drop_frame(c) \/ drop_next(c) \/ drop_done(c)
    BY DEF Next
<1>2. CASE allocate_page(c) \/ map_to(c)
    BY <1>2, <1>allocate_page_step, <1>map_to_step
<1>3. CASE \E img \in Images : sys_spawn(c, img)
    BY <1>3, <1>sys_spawn_step
<1>4. CASE new_space(c) \/ load_segment(c) \/ segment_done(c) \/ publish(c)
    BY <1>4, <1>new_space_step, <1>load_segment_step, <1>segment_done_step, <1>publish_step
<1>5. CASE \E t \in Procs, i, j \in CapIndex, rights \in SUBSET Rights : grant_resolve(c, t, i, j, rights)
    BY <1>5, <1>grant_resolve_step
<1>6. CASE grant_insert(c)
    BY <1>6, <1>grant_insert_step
<1>7. CASE \E t \in Procs : sys_process_start(c, t) \/ sys_kill(c, t)
    BY <1>7, <1>sys_process_start_step, <1>sys_kill_step
<1>8. CASE \E n \in Increments : sys_sbrk(c, n)
    BY <1>8, <1>sys_sbrk_step
<1>9. CASE sbrk_done(c) \/ dispatch(c) \/ preempt(c)
    BY <1>9, <1>sbrk_done_step, <1>dispatch_step, <1>preempt_step
<1>10. CASE exit(c) \/ kill_finish(c)
    BY <1>10, <1>exit_step, <1>kill_finish_step
<1>11. CASE drop_frame(c) \/ drop_next(c)
    BY <1>11, <1>drop_frame_step, <1>drop_next_step
<1>12. CASE drop_done(c)
    BY <1>12, <1>EndStep DEF drop_done
<1> QED BY <1>1, <1>2, <1>3, <1>4, <1>5, <1>6, <1>7, <1>8, <1>9, <1>10, <1>11, <1>12

\* A step that changes nothing keeps the invariant.
LEMMA StutterStep ==
    ASSUME MemoryInv, UNCHANGED vars
    PROVE  MemoryInv'
<1>1. UNCHANGED <<bitmap, frame_count, usable, state, parent, space, heap_end, region, caps, current, op, lost>>
    BY DEF vars, frameVars, procVars
<1>2. TypeOK' /\ CallInProgress' /\ HandsApart' /\ BuiltForCaller' /\ CurrentRuns' /\ ParentLives'
    BY <1>1 DEF MemoryInv, TypeOK, CallInProgress, HandsApart, BuiltForCaller, CurrentRuns, ParentLives
<1>3. CapsHeld' /\ RootThere' /\ GapIsSafe'
    BY <1>1 DEF MemoryInv, CapsHeld, RootThere, GapIsSafe, Live
<1>4. AuthorityBounded'
    BY <1>1, SMTT(60) DEF MemoryInv, AuthorityBounded, Covers
<1> QED BY <1>2, <1>3, <1>4 DEF MemoryInv

\* Calls on different cores never work on one process at a time, a call's place agrees
\* with its data, and every capability is covered by the parent's: MemoryInv holds in
\* every reachable state, for any number of cores, processes, frames and table levels.
THEOREM MemoryInvariance == Spec => []MemoryInv
<1>1. Init => MemoryInv
    BY InitStep
<1>2. MemoryInv /\ [Next]_vars => MemoryInv'
    BY NextStep, StutterStep
<1> QED BY <1>1, <1>2, PTL DEF Spec

\* Rights only shrink on their way from boot to a process, although sys_grant resolves
\* and inserts in two critical sections.
THEOREM GrantSafety == Spec => []AuthorityBounded
<1>1. MemoryInv => AuthorityBounded
    BY DEF MemoryInv
<1> QED BY <1>1, MemoryInvariance, PTL

\* The PML4 a sys_sbrk or sys_spawn read in an earlier critical section is still there,
\* and still that of a process nobody has finalized.
THEOREM GapSafety == Spec => []GapIsSafe
<1>1. MemoryInv => GapIsSafe
    BY DEF MemoryInv
<1> QED BY <1>1, MemoryInvariance, PTL

(***************************************************************************)
(* Where a frame goes.                                                     *)
(***************************************************************************)

\* The frames in the hands of the cores, all or all but core c's, stay where they are.
KeepHands == \A d \in Cores : op'[d].frame = op[d].frame
OthersKeep(c) == \A d \in Cores \ {c} : op'[d].frame = op[d].frame

\* Node n of p's tree becomes x.
Write(p, n, x) == space' = [space EXCEPT ![p][n] = x]

\* Frame f becomes node n of p's tree, where nothing was, below a table.
Put(p, n, f) ==
    /\ space[p][n] = None
    /\ n = Root \/ (Parent(n) \in Nodes /\ space[p][Parent(n)] # None)
    /\ Write(p, n, f)

\* What a step may do to the owners of frames: nothing; take one from the allocator
\* into a core's hands or into a page table; enter, or forget, the one in hand; return
\* one that nothing hangs below, of a process that does not run.
Stay == KeepHands /\ UNCHANGED <<bitmap, space, lost>>
Take(c, f) ==
    /\ f \in bitmap /\ bitmap' = bitmap \ {f}
    /\ op[c].frame = None /\ op'[c].frame = f /\ OthersKeep(c)
    /\ UNCHANGED <<space, lost>>
Build(p, n, f) ==
    /\ f \in bitmap /\ bitmap' = bitmap \ {f}
    /\ Put(p, n, f) /\ KeepHands
    /\ UNCHANGED lost
Enter(c, p, n) ==
    /\ op[c].frame # None /\ op'[c].frame = None /\ OthersKeep(c)
    /\ Put(p, n, op[c].frame)
    /\ UNCHANGED <<bitmap, lost>>
Lose(c) ==
    /\ op[c].frame # None /\ op'[c].frame = None /\ OthersKeep(c)
    /\ lost' = lost \union {op[c].frame}
    /\ UNCHANGED <<bitmap, space>>
Free(p, n) ==
    /\ state[p] \in {"reserved", "dead"}
    /\ space[p][n] # None /\ \A m \in Nodes : space[p][m] # None => Parent(m) # n
    /\ bitmap' = bitmap \union {space[p][n]}
    /\ Write(p, n, None)
    /\ KeepHands
    /\ UNCHANGED lost

Move ==
    /\ UNCHANGED usable
    /\ \/ Stay
       \/ \E c \in Cores : Lose(c)
       \/ \E c \in Cores, f \in Frames : Take(c, f)
       \/ \E p \in Procs, n \in Nodes, f \in Frames : Build(p, n, f)
       \/ \E c \in Cores, p \in Procs, n \in Nodes : Enter(c, p, n)
       \/ \E p \in Procs, n \in Nodes : Free(p, n)

\* The quotient of a number is between the bounds that define it.
LEMMA QuotientLemma ==
    ASSUME NEW a \in Int, NEW b \in Nat \ {0}, NEW q \in Int, b * q <= a, a < b * q + b
    PROVE  a \div b = q
<1>1. a \div b \in Int /\ b * (a \div b) <= a /\ a < b * (a \div b) + b
    BY DivLemma, ZenonT(30)
<1> DEFINE k == a \div b
<1> HIDE DEF k
<1>2. b * k < b * (q + 1) /\ b * q < b * (k + 1)
    BY <1>1, SMTT(30) DEF k
<1>3. k \in Int /\ q + 1 \in Int /\ k + 1 \in Int
    BY <1>1, SMTT(30) DEF k
<1>4. k < q + 1 /\ q < k + 1
    BY <1>2, <1>3, MonoLemma, ZenonT(30)
<1> QED BY <1>3, <1>4, SMTT(30) DEF k

\* Dividing twice is dividing by the product.
LEMMA DivDivLemma ==
    ASSUME NEW v \in Nat, NEW a \in Nat \ {0}, NEW b \in Nat \ {0}
    PROVE  (v \div a) \div b = v \div (a * b)
<1> DEFINE q == v \div a
           r == q \div b
<1>1. q \in Int /\ a * q <= v /\ v < a * q + a
    BY DivLemma, SMTT(30)
<1> HIDE DEF q
<1>2. r \in Int /\ b * r <= q /\ q < b * r + b
    BY <1>1, DivLemma, ZenonT(30)
<1> HIDE DEF r
<1>3. a * b \in Nat \ {0}
    BY SMTT(30)
<1>4. a * (b * r) <= a * q /\ a * (q + 1) <= a * (b * r + b)
  <2>1. q - b * r \in Nat /\ b * r + b - (q + 1) \in Nat
      BY <1>1, <1>2, SMTT(30)
  <2>2. \A x \in Nat : a * x >= 0
      BY SMTT(30)
  <2>3. a * (q - b * r) >= 0 /\ a * (b * r + b - (q + 1)) >= 0
      BY <2>1, <2>2, ZenonT(30)
  <2> QED BY <1>1, <1>2, <2>3, SMTT(30)
<1>5. (a * b) * r <= v /\ v < (a * b) * r + a * b
    BY <1>1, <1>2, <1>4, SMTT(30)
<1>6. v \div (a * b) = r
    BY <1>2, <1>3, <1>5, QuotientLemma, SMTT(30)
<1> QED BY <1>6 DEF q, r

\* The tables on the way to page v, from level 0 to the PML4.
LEMMA PathLemma ==
    ASSUME NEW v \in Pages, NEW l \in 0..Levels
    PROVE  /\ Parent(<<l, v \div Fanout^l>>) = <<l + 1, v \div Fanout^(l + 1)>>
           /\ l = Levels => <<l + 1, v \div Fanout^(l + 1)>> = Root
           /\ <<l, v \div Fanout^l>> \in Nodes /\ <<l + 1, v \div Fanout^(l + 1)>> \in Nodes
           /\ <<0, v>> = <<0, v \div Fanout^0>>
<1>1. /\ Levels \in Nat /\ Fanout \in Nat \ {0} /\ Fanout^0 = 1
      /\ \A k \in 0..Levels : Fanout^k \in Nat \ {0} /\ Fanout^(k + 1) = Fanout^k * Fanout
      /\ UserPages \in Nat /\ UserPages <= Fanout^(Levels + 1)
    BY MemoryAssumption, PowerLemma, SMTT(30)
<1>2. v \in Nat /\ v < UserPages
    BY <1>1, SMTT(30) DEF Pages
<1>3. (v \div Fanout^l) \div Fanout = v \div (Fanout^l * Fanout)
    BY <1>1, <1>2, DivDivLemma, ZenonT(30)
<1>4. Parent(<<l, v \div Fanout^l>>) = <<l + 1, v \div Fanout^(l + 1)>>
    BY <1>1, <1>3, ZenonT(30) DEF Parent
<1>5. ASSUME l = Levels PROVE v \div Fanout^(l + 1) = 0
  <2>1. Levels + 1 \in 0..(Levels + 1)
      BY <1>1, SMTT(30)
  <2>2. Fanout^(l + 1) \in Nat \ {0}
      BY <1>5, <2>1, PowerLemma, ZenonT(30)
  <2> DEFINE m == Fanout^(l + 1)
  <2>3. m \in Nat \ {0} /\ UserPages <= m
      BY <1>1, <1>5, <2>2, ZenonT(30)
  <2> HIDE DEF m
  <2>4. m * 0 <= v /\ v < m * 0 + m /\ v \in Int /\ 0 \in Int
      BY <1>1, <1>2, <2>3, SMTT(30)
  <2>5. v \div m = 0
      BY <2>3, <2>4, QuotientLemma, ZenonT(30)
  <2> QED BY <2>5 DEF m
<1>6. ASSUME NEW k \in 0..(Levels + 1) PROVE <<k, v \div Fanout^k>> \in Nodes
  <2>1. Fanout^k \in Nat \ {0}
      BY PowerLemma
  <2>2. v \div Fanout^k \in 0..((UserPages - 1) \div Fanout^k)
      BY <1>1, <1>2, <2>1, DivMono, SMTT(30)
  <2>3. <<k, v \div Fanout^k>> \in {k} \X (0..((UserPages - 1) \div Fanout^k))
      BY <2>2
  <2> QED BY <2>3 DEF Nodes
<1>7. l \in 0..(Levels + 1) /\ l + 1 \in 0..(Levels + 1)
    BY <1>1, SMTT(30)
<1>8. v \div Fanout^0 = v
    BY <1>1, <1>2, SMTT(30)
<1> QED BY <1>4, <1>5, <1>6, <1>7, <1>8, ZenonT(30) DEF Root

\* map_to builds a tree from the top: what it enters has its table.
LEMMA AboveLemma ==
    ASSUME NEW sp \in [Nodes -> Frames \union {None}], NEW v \in Pages, sp[Root] # None
    PROVE  /\ Missing(sp, v) = {} => Parent(<<0, v>>) \in Nodes /\ sp[Parent(<<0, v>>)] # None
           /\ \A n \in Missing(sp, v) : (\A m \in Missing(sp, v) : n[1] >= m[1]) =>
                Parent(n) \in Nodes /\ sp[Parent(n)] # None
<1>1. Levels \in Nat
    BY MemoryAssumption
<1>2. ASSUME NEW l \in 0..Levels, \A m \in Missing(sp, v) : l >= m[1]
      PROVE  Parent(<<l, v \div Fanout^l>>) \in Nodes /\ sp[Parent(<<l, v \div Fanout^l>>)] # None
  <2> DEFINE n == <<l + 1, v \div Fanout^(l + 1)>>
  <2>1. Parent(<<l, v \div Fanout^l>>) = n /\ n \in Nodes /\ (l = Levels => n = Root)
      BY PathLemma, ZenonT(30)
  <2>2. CASE l = Levels
      BY <2>1, <2>2, ZenonT(30)
  <2>3. CASE l # Levels
    <3>1. l + 1 \in 1..Levels /\ ~(l >= l + 1)
        BY <1>1, <2>3, SMTT(30)
    <3>2. n[1] = l + 1
        BY ZenonT(30)
    <3>3. n \notin Missing(sp, v)
        BY <1>2, <3>1, <3>2, ZenonT(30)
    <3>4. n \in {<<k, v \div Fanout^k>> : k \in 1..Levels}
        BY <3>1, ZenonT(30)
    <3> QED BY <2>1, <3>3, <3>4, ZenonT(30) DEF Missing
  <2> QED BY <2>2, <2>3, ZenonT(30)
<1>3. ASSUME Missing(sp, v) = {} PROVE Parent(<<0, v>>) \in Nodes /\ sp[Parent(<<0, v>>)] # None
  <2>1. 0 \in 0..Levels
      BY <1>1, SMTT(30)
  <2>2. <<0, v>> = <<0, v \div Fanout^0>>
      BY <2>1, PathLemma, ZenonT(30)
  <2> QED BY <1>2, <1>3, <2>1, <2>2, ZenonT(30)
<1>4. ASSUME NEW n \in Missing(sp, v), \A m \in Missing(sp, v) : n[1] >= m[1]
      PROVE  Parent(n) \in Nodes /\ sp[Parent(n)] # None
  <2>1. PICK l \in 1..Levels : n = <<l, v \div Fanout^l>>
      BY DEF Missing
  <2>2. l \in 0..Levels /\ n[1] = l
      BY <1>1, <2>1, SMTT(30)
  <2> QED BY <1>2, <1>4, <2>1, <2>2, ZenonT(30)
<1> QED BY <1>3, <1>4, ZenonT(30)

\* Every step moves at most one frame, and from one owner to another.
LEMMA MoveStep == MemoryInv /\ SpaceEmpty /\ Next => Move

\* A call goes on: the frames in the other cores' hands stay there.
<1>CallMoves.
    ASSUME MemoryInv, NEW c \in Cores, NEW o, op' = [op EXCEPT ![c] = o]
    PROVE  op'[c] = o /\ OthersKeep(c) /\ (o.frame = op[c].frame => KeepHands)
  <2> USE <1>CallMoves
  <2>1. op'[c] = o /\ \A d \in Cores \ {c} : op'[d] = op[d]
      BY DEF MemoryInv, TypeOK
  <2> QED BY <2>1 DEF OthersKeep, KeepHands

\* Only a call that maps a page has a frame in hand.
<1>NoFrame.
    ASSUME MemoryInv, NEW c \in Cores, op[c].pc # "map"
    PROVE  op[c].frame = None
    BY <1>NoFrame DEF MemoryInv, CallInProgress, Fits

\* A call of which none was in hand goes on, or is over, with none in hand.
<1>StepKeeps.
    ASSUME MemoryInv, NEW c \in Cores, NEW o, op' = [op EXCEPT ![c] = o], o.frame = None, op[c].pc # "map"
    PROVE  KeepHands
    BY <1>StepKeeps, <1>CallMoves, <1>NoFrame

<1>ReturnKeeps.
    ASSUME MemoryInv, NEW c \in Cores, Return(c), op[c].pc # "map"
    PROVE  KeepHands
  <2> USE <1>ReturnKeeps
  <2> DEFINE o == Op(IF current[c] = None THEN "idle" ELSE "user")
  <2>1. op' = [op EXCEPT ![c] = o] /\ o.frame = None
      BY DEF Return, Op
  <2> QED BY <2>1, <1>StepKeeps

\* A failed call forgets the frame in hand.
<1>FailMoves.
    ASSUME MemoryInv, NEW c \in Cores, Fail(c), UNCHANGED <<bitmap, usable>>
    PROVE  Move
  <2> USE <1>FailMoves
  <2>1. op'[c].frame = None /\ OthersKeep(c)
    <3>1. CASE op[c].end = None
      <4> DEFINE o == [Op("drop") EXCEPT !.drops = <<op[c].p>>]
      <4>1. op' = [op EXCEPT ![c] = o] /\ o.frame = None
          BY <3>1 DEF Fail, Op
      <4> QED BY <4>1, <1>CallMoves
    <3>2. CASE op[c].end # None
      <4> DEFINE o == Op(IF current[c] = None THEN "idle" ELSE "user")
      <4>1. op' = [op EXCEPT ![c] = o] /\ o.frame = None
          BY <3>2 DEF Fail, Return, Op
      <4> QED BY <4>1, <1>CallMoves
    <3> QED BY <3>1, <3>2
  <2>2. space' = space /\ lost' = lost \union ({op[c].frame} \ {None})
      BY DEF Fail, procVars
  <2>3. CASE op[c].frame = None
    <3>1. lost' = lost
        BY <2>2, <2>3
    <3>2. KeepHands
        BY <2>1, <2>3 DEF KeepHands, OthersKeep
    <3> QED BY <2>2, <3>1, <3>2 DEF Move, Stay
  <2>4. CASE op[c].frame # None
    <3>1. lost' = lost \union {op[c].frame}
        BY <2>2, <2>4
    <3> QED BY <2>1, <2>2, <2>4, <3>1 DEF Move, Lose
  <2> QED BY <2>3, <2>4

\* An allocator that has nothing left is unchanged.
<1>NoneLeft.
    ASSUME MemoryInv, allocate_frame, Allocated = None
    PROVE  UNCHANGED <<bitmap, usable>>
    BY <1>NoneLeft, ProcsLemma DEF MemoryInv, TypeOK, allocate_frame

\* Otherwise it gives a frame that was free.
<1>OneTaken.
    ASSUME MemoryInv, allocate_frame, Allocated # None
    PROVE  Allocated \in bitmap /\ Allocated \in Frames /\ bitmap' = bitmap \ {Allocated} /\ usable' = usable
    BY <1>OneTaken, AllocatedLemma DEF MemoryInv, TypeOK, allocate_frame

<1>Stays.
    ASSUME UNCHANGED <<bitmap, usable, space, lost>>, KeepHands
    PROVE  Move
    BY <1>Stays DEF Move, Stay

<1>allocate_page_moves.
    ASSUME MemoryInv, NEW c \in Cores, allocate_page(c)
    PROVE  Move
  <2> USE <1>allocate_page_moves
  <2>1. CASE Allocated = None
      BY <2>1, <1>NoneLeft, <1>FailMoves DEF allocate_page
  <2>2. CASE Allocated # None
    <3> DEFINE o == [op[c] EXCEPT !.frame = Allocated, !.pc = "map"]
    <3>1. op' = [op EXCEPT ![c] = o] /\ UNCHANGED <<space, lost>> /\ op[c].pc = "page" /\ allocate_frame
        BY <2>2 DEF allocate_page, procVars
    <3>2. o.frame = Allocated
        BY DEF MemoryInv, TypeOK, Calling
    <3>3. op'[c].frame = Allocated /\ OthersKeep(c) /\ op[c].frame = None
        BY <3>1, <3>2, <1>CallMoves, <1>NoFrame
    <3>4. Allocated \in bitmap /\ Allocated \in Frames /\ bitmap' = bitmap \ {Allocated} /\ usable' = usable
        BY <2>2, <3>1, <1>OneTaken
    <3> QED BY <3>1, <3>3, <3>4 DEF Move, Take
  <2> QED BY <2>1, <2>2

<1>map_to_moves.
    ASSUME MemoryInv, NEW c \in Cores, map_to(c)
    PROVE  Move
  <2> USE <1>map_to_moves
  <2> DEFINE o == op[c]
             v == Head(o.todo)
             missing == Missing(space[o.p], v)
             next == CHOOSE n \in missing : \A m \in missing : n[1] >= m[1]
  <2>1. o.pc = "map" /\ o.todo # <<>> /\ o.p \in Procs /\ o.frame # None /\ o.todo \in Seq(Pages)
      BY ProcsLemma DEF map_to, MemoryInv, TypeOK, Calling, CallInProgress, Fits
  <2>2. v \in Pages
      BY <2>1, SMTT(30)
  <2>3. space[o.p] \in [Nodes -> Frames \union {None}] /\ space[o.p][Root] # None
      BY <2>1 DEF MemoryInv, TypeOK, GapIsSafe
  <2>4. /\ <<0, v>> \in Nodes
        /\ \A n \in missing : n \in Nodes /\ space[o.p][n] = None
        /\ missing # {} => next \in missing /\ \A m \in missing : next[1] >= m[1]
      BY <2>2, <2>3, MissingLemma
  <2>5. /\ missing = {} => Parent(<<0, v>>) \in Nodes /\ space[o.p][Parent(<<0, v>>)] # None
        /\ \A n \in missing : (\A m \in missing : n[1] >= m[1]) =>
             Parent(n) \in Nodes /\ space[o.p][Parent(n)] # None
      BY <2>2, <2>3, AboveLemma
  <2>6. \/ /\ missing # {} /\ Allocated # None
           /\ allocate_frame
           /\ space' = [space EXCEPT ![o.p][next] = Allocated]
           /\ UNCHANGED <<op, lost>>
        \/ Fail(c) /\ UNCHANGED frameVars
        \/ /\ missing = {} /\ space[o.p][<<0, v>>] = None
           /\ space' = [space EXCEPT ![o.p][<<0, v>>] = o.frame]
           /\ op' = [op EXCEPT ![c].frame = None, ![c].todo = Tail(o.todo), ![c].pc = "page"]
           /\ UNCHANGED <<frameVars, lost>>
      BY DEF map_to
  <2> HIDE DEF v, missing, next
  <2>7. CASE /\ missing # {} /\ Allocated # None
             /\ allocate_frame
             /\ space' = [space EXCEPT ![o.p][next] = Allocated]
             /\ UNCHANGED <<op, lost>>
    <3>1. Allocated \in bitmap /\ Allocated \in Frames /\ bitmap' = bitmap \ {Allocated} /\ usable' = usable
        BY <2>7, <1>OneTaken
    <3>2. KeepHands /\ next \in Nodes
        BY <2>4, <2>7 DEF KeepHands
    <3>3. Put(o.p, next, Allocated)
        BY <2>4, <2>5, <2>7 DEF Put, Write
    <3>4. Build(o.p, next, Allocated)
        BY <2>7, <3>1, <3>2, <3>3 DEF Build
    <3> QED BY <2>1, <3>1, <3>2, <3>4 DEF Move
  <2>8. CASE Fail(c) /\ UNCHANGED frameVars
      BY <2>8, <1>FailMoves DEF frameVars
  <2>9. CASE /\ missing = {} /\ space[o.p][<<0, v>>] = None
             /\ space' = [space EXCEPT ![o.p][<<0, v>>] = o.frame]
             /\ op' = [op EXCEPT ![c].frame = None, ![c].todo = Tail(o.todo), ![c].pc = "page"]
             /\ UNCHANGED <<frameVars, lost>>
    <3> DEFINE o2 == [o EXCEPT !.frame = None, !.todo = Tail(o.todo), !.pc = "page"]
    <3>1. op' = [op EXCEPT ![c] = o2] /\ UNCHANGED <<bitmap, usable, lost>>
        BY <2>9 DEF frameVars
    <3>2. o2.frame = None
        BY DEF MemoryInv, TypeOK, Calling
    <3>3. op'[c].frame = None /\ OthersKeep(c)
        BY <3>1, <3>2, <1>CallMoves
    <3>4. Put(o.p, <<0, v>>, o.frame)
        BY <2>5, <2>9 DEF Put, Write
    <3>5. Enter(c, o.p, <<0, v>>)
        BY <2>1, <3>1, <3>3, <3>4 DEF Enter
    <3> QED BY <2>1, <2>4, <3>1, <3>5 DEF Move
  <2> QED BY <2>6, <2>7, <2>8, <2>9

<1>sys_spawn_moves.
    ASSUME MemoryInv, NEW c \in Cores, NEW img \in Images, sys_spawn(c, img)
    PROVE  Move
  <2> USE <1>sys_spawn_moves
  <2>1. PICK p \in Procs : op' = [op EXCEPT ![c] = [Op("image") EXCEPT !.p = p, !.segs = Work(img)]]
      BY DEF sys_spawn
  <2> DEFINE o == [Op("image") EXCEPT !.p = p, !.segs = Work(img)]
  <2>2. op[c].pc # "map" /\ UNCHANGED <<bitmap, usable, space, lost>> /\ o.frame = None
      BY DEF sys_spawn, Calls, frameVars, Op
  <2> HIDE DEF o
  <2> QED BY <2>1, <2>2, <1>StepKeeps, <1>Stays DEF o

<1>new_space_moves.
    ASSUME MemoryInv, SpaceEmpty, NEW c \in Cores, new_space(c)
    PROVE  Move
  <2> USE <1>new_space_moves
  <2> DEFINE p == op[c].p
  <2>1. op[c].pc = "image" /\ p \in Procs /\ Root \in Nodes /\ op[c].frame = None
      BY <1>NoFrame, NodeLemma DEF new_space, MemoryInv, TypeOK, Calling, CallInProgress, Fits
  <2>2. space[p][Root] = None
      BY <2>1 DEF SpaceEmpty, Empty
  <2>3. CASE Allocated # None
    <3>1. Allocated \in bitmap /\ Allocated \in Frames /\ bitmap' = bitmap \ {Allocated} /\ usable' = usable
        BY <2>3, <1>OneTaken DEF new_space
    <3> DEFINE o == [op[c] EXCEPT !.pc = "segment"]
    <3>2. op' = [op EXCEPT ![c] = o] /\ space' = [space EXCEPT ![p][Root] = Allocated] /\ lost' = lost
        BY <2>3 DEF new_space
    <3>3. o.frame = op[c].frame
        BY DEF MemoryInv, TypeOK, Calling
    <3>4. KeepHands
        BY <3>2, <3>3, <1>CallMoves
    <3> HIDE DEF o, p
    <3>5. Put(p, Root, Allocated)
        BY <2>2, <3>2 DEF Put, Write
    <3>6. Build(p, Root, Allocated)
        BY <3>1, <3>2, <3>4, <3>5 DEF Build
    <3> QED BY <2>1, <3>1, <3>6 DEF Move
  <2>4. CASE Allocated = None
    <3>1. UNCHANGED <<bitmap, usable>>
        BY <2>4, <1>NoneLeft DEF new_space
    <3>2. Return(c) /\ UNCHANGED <<space, lost>>
        BY <2>4 DEF new_space
    <3> QED BY <2>1, <3>1, <3>2, <1>ReturnKeeps, <1>Stays
  <2> QED BY <2>3, <2>4

<1>load_segment_moves.
    ASSUME MemoryInv, NEW c \in Cores, load_segment(c)
    PROVE  Move
  <2> USE <1>load_segment_moves
  <2> DEFINE o == op[c]
             seg == Head(o.segs)
             skipped == [o EXCEPT !.segs = Tail(o.segs)]
             loading == [o EXCEPT !.segs = Tail(o.segs), !.pc = "page",
                                  !.todo = PagesOf(seg.p_vaddr, seg.p_vaddr + seg.p_memsz)]
  <2>1. UNCHANGED <<bitmap, usable>>
      BY DEF load_segment, frameVars
  <2>2. \/ op' = [op EXCEPT ![c] = skipped] /\ UNCHANGED <<space, lost>>
        \/ op' = [op EXCEPT ![c] = loading] /\ UNCHANGED <<space, lost>>
        \/ Fail(c)
      BY DEF load_segment, procVars
  <2>3. skipped.frame = o.frame /\ loading.frame = o.frame
      BY DEF MemoryInv, TypeOK, Calling
  <2> HIDE DEF skipped, loading
  <2> QED BY <2>1, <2>2, <2>3, <1>CallMoves, <1>Stays, <1>FailMoves

<1>segment_done_moves.
    ASSUME MemoryInv, NEW c \in Cores, segment_done(c)
    PROVE  Move
  <2> USE <1>segment_done_moves
  <2> DEFINE o == [op[c] EXCEPT !.pc = "segment"]
  <2>1. op' = [op EXCEPT ![c] = o] /\ UNCHANGED <<bitmap, usable, space, lost>>
      BY DEF segment_done, frameVars, procVars
  <2>2. o.frame = op[c].frame
      BY DEF MemoryInv, TypeOK, Calling
  <2> HIDE DEF o
  <2> QED BY <2>1, <2>2, <1>CallMoves, <1>Stays

\* The steps that return from a call and touch no frame.
<1>return_moves.
    ASSUME MemoryInv, NEW c \in Cores, publish(c) \/ grant_insert(c) \/ sbrk_done(c) \/ drop_done(c)
    PROVE  Move
  <2> USE <1>return_moves
  <2>1. Return(c) /\ op[c].pc # "map" /\ UNCHANGED <<bitmap, usable, space, lost>>
      BY SMTT(30) DEF publish, grant_insert, sbrk_done, drop_done, frameVars, procVars
  <2> QED BY <2>1, <1>ReturnKeeps, <1>Stays

\* The steps that enter a call, or ring 3, and touch no frame.
<1>enter_moves.
    ASSUME MemoryInv, NEW c \in Cores,
           \/ \E t \in Procs, i, j \in CapIndex, rights \in SUBSET Rights : grant_resolve(c, t, i, j, rights)
           \/ \E t \in Procs : sys_kill(c, t)
           \/ \E n \in Increments : sys_sbrk(c, n)
           \/ dispatch(c)
           \/ preempt(c)
    PROVE  Move
  <2> USE <1>enter_moves
  <2>1. op[c].pc # "map" /\ UNCHANGED <<bitmap, usable, space, lost>>
      BY DEF grant_resolve, sys_kill, sys_sbrk, dispatch, preempt, Calls, frameVars, procVars
  <2>2. \E o : op' = [op EXCEPT ![c] = o] /\ o.frame = None
    <3>1. ASSUME NEW t \in Procs, NEW i \in CapIndex, NEW j \in CapIndex, NEW rights \in SUBSET Rights,
                 grant_resolve(c, t, i, j, rights)
          PROVE  \E o : op' = [op EXCEPT ![c] = o] /\ o.frame = None
      <4> DEFINE o == [Op("grant") EXCEPT !.p = t,
                         !.cap = [at |-> j, object |-> caps[current[c]][i].object, rights |-> rights]]
      <4>1. op' = [op EXCEPT ![c] = o] /\ o.frame = None
          BY <3>1 DEF grant_resolve, Op
      <4> QED BY <4>1
    <3>2. ASSUME NEW t \in Procs, sys_kill(c, t)
          PROVE  \E o : op' = [op EXCEPT ![c] = o] /\ o.frame = None
      <4> DEFINE o == [Op("kill") EXCEPT !.p = t]
      <4>1. op' = [op EXCEPT ![c] = o] /\ o.frame = None
          BY <3>2 DEF sys_kill, Op
      <4> QED BY <4>1
    <3>3. ASSUME NEW n \in Increments, sys_sbrk(c, n)
          PROVE  \E o : op' = [op EXCEPT ![c] = o] /\ o.frame = None
      <4> DEFINE p == current[c]
                 o == [Op("page") EXCEPT !.p = p, !.end = heap_end[p] + n,
                         !.todo = PagesOf(TopOf(heap_end[p]), TopOf(heap_end[p] + n))]
      <4>1. op' = [op EXCEPT ![c] = o] /\ o.frame = None
          BY <3>3 DEF sys_sbrk, Op
      <4> QED BY <4>1
    <3>4. ASSUME dispatch(c) \/ preempt(c)
          PROVE  \E pc : op' = [op EXCEPT ![c] = Op(pc)] /\ Op(pc).frame = None
        BY <3>4 DEF dispatch, preempt, Op
    <3> QED BY <3>1, <3>2, <3>3, <3>4
  <2> QED BY <2>1, <2>2, <1>StepKeeps, <1>Stays

<1>sys_process_start_moves.
    ASSUME NEW c \in Cores, NEW t \in Procs, sys_process_start(c, t)
    PROVE  Move
    BY <1>sys_process_start_moves, <1>Stays DEF sys_process_start, frameVars, KeepHands

<1>finalize_moves.
    ASSUME MemoryInv, NEW c \in Cores, exit(c) \/ kill_finish(c)
    PROVE  Move
  <2> USE <1>finalize_moves
  <2>1. op[c].pc # "map"
      BY DEF exit, kill_finish, Calls
  <2>2. ASSUME NEW p, Finalize(c, p) PROVE Move
    <3>1. PICK order : op' = [op EXCEPT ![c] = [Op("drop") EXCEPT !.drops = order]]
        BY <2>2 DEF Finalize
    <3> DEFINE o == [Op("drop") EXCEPT !.drops = order]
    <3>2. o.frame = None /\ UNCHANGED <<bitmap, usable, space, lost>>
        BY <2>2 DEF Finalize, Op, frameVars
    <3> HIDE DEF o
    <3> QED BY <2>1, <3>1, <3>2, <1>StepKeeps, <1>Stays DEF o
  <2>3. ASSUME Return(c), UNCHANGED <<frameVars, procVars, lost>> PROVE Move
      BY <2>1, <2>3, <1>ReturnKeeps, <1>Stays DEF frameVars, procVars
  <2> QED BY <2>2, <2>3 DEF exit, kill_finish

<1>drop_frame_moves.
    ASSUME MemoryInv, NEW c \in Cores, drop_frame(c)
    PROVE  Move
  <2> USE <1>drop_frame_moves
  <2> DEFINE p == Head(op[c].drops)
             n == NextFreed(space[p])
  <2>1. /\ op[c].pc = "drop" /\ op[c].drops # <<>> /\ space[p] # Empty
        /\ bitmap' = bitmap \union {space[p][n]} /\ usable' = usable
        /\ space' = [space EXCEPT ![p][n] = None] /\ UNCHANGED <<op, lost>>
      BY DEF drop_frame, deallocate_frame
  <2>2. op[c].drops \in Seq(Procs)
      BY DEF MemoryInv, TypeOK, Calling
  <2>3. p \in Procs /\ 1 \in DOMAIN op[c].drops /\ op[c].drops[1] = p
      BY <2>1, <2>2, SMTT(30)
  <2>4. state[p] \in {"reserved", "dead"}
    <3>1. p \in InHand(op[c])
        BY <2>1, <2>3 DEF InHand
    <3> QED BY <2>1, <3>1 DEF MemoryInv, HandsApart, States
  <2>5. n \in Nodes /\ space[p][n] # None /\ \A m \in Nodes : space[p][m] # None => Parent(m) # n
      BY <2>1, <2>3, NextFreedLemma DEF MemoryInv, TypeOK
  <2> HIDE DEF p, n
  <2>6. KeepHands
      BY <2>1 DEF KeepHands
  <2>7. Free(p, n)
      BY <2>1, <2>4, <2>5, <2>6 DEF Free, Write
  <2> QED BY <2>1, <2>3, <2>5, <2>7 DEF Move

<1>drop_next_moves.
    ASSUME MemoryInv, NEW c \in Cores, drop_next(c)
    PROVE  Move
  <2> USE <1>drop_next_moves
  <2> DEFINE o == [op[c] EXCEPT !.drops = Tail(@)]
  <2>1. op' = [op EXCEPT ![c] = o] /\ UNCHANGED <<bitmap, usable, space, lost>>
      BY DEF drop_next, frameVars
  <2>2. o.frame = op[c].frame
      BY DEF MemoryInv, TypeOK, Calling
  <2> HIDE DEF o
  <2> QED BY <2>1, <2>2, <1>CallMoves, <1>Stays

<1> SUFFICES ASSUME MemoryInv, SpaceEmpty, Next
             PROVE  Move
    BY ZenonT(30)
<1>1. PICK c \in Cores :
        \/ allocate_page(c) \/ map_to(c)
        \/ (\E img \in Images : sys_spawn(c, img))
        \/ new_space(c) \/ load_segment(c) \/ segment_done(c) \/ publish(c)
        \/ (\E t \in Procs, i, j \in CapIndex, rights \in SUBSET Rights :
              grant_resolve(c, t, i, j, rights))
        \/ grant_insert(c)
        \/ (\E t \in Procs : sys_process_start(c, t) \/ sys_kill(c, t))
        \/ (\E n \in Increments : sys_sbrk(c, n))
        \/ sbrk_done(c) \/ dispatch(c) \/ preempt(c) \/ exit(c) \/ kill_finish(c)
        \/ drop_frame(c) \/ drop_next(c) \/ drop_done(c)
    BY DEF Next
<1>2. CASE allocate_page(c) \/ map_to(c) \/ new_space(c)
    BY <1>2, <1>allocate_page_moves, <1>map_to_moves, <1>new_space_moves
<1>3. CASE \E img \in Images : sys_spawn(c, img)
    BY <1>3, <1>sys_spawn_moves
<1>4. CASE load_segment(c) \/ segment_done(c)
    BY <1>4, <1>load_segment_moves, <1>segment_done_moves
<1>5. CASE publish(c) \/ grant_insert(c) \/ sbrk_done(c) \/ drop_done(c)
    BY <1>5, <1>return_moves
<1>6. CASE \/ \E t \in Procs, i, j \in CapIndex, rights \in SUBSET Rights : grant_resolve(c, t, i, j, rights)
           \/ \E t \in Procs : sys_kill(c, t)
           \/ \E n \in Increments : sys_sbrk(c, n)
           \/ dispatch(c)
           \/ preempt(c)
    BY <1>6, <1>enter_moves
<1>7. CASE \E t \in Procs : sys_process_start(c, t)
    BY <1>7, <1>sys_process_start_moves
<1>8. CASE exit(c) \/ kill_finish(c)
    BY <1>8, <1>finalize_moves
<1>9. CASE drop_frame(c) \/ drop_next(c)
    BY <1>9, <1>drop_frame_moves, <1>drop_next_moves
<1> QED BY <1>1, <1>2, <1>3, <1>4, <1>5, <1>6, <1>7, <1>8, <1>9

(***************************************************************************)
(* One owner per frame.                                                    *)
(***************************************************************************)

\* Who refers to frame f, and that it is one: what FramesAccounted counts.
Mapped(f) == \E p \in Procs, n \in Nodes : space[p][n] = f
Held(f) == \E c \in Cores : op[c].frame = f
OneOwner(f) ==
    /\ \A p, q \in Procs, n, m \in Nodes : space[p][n] = f /\ space[q][m] = f => p = q /\ n = m
    /\ \A c, d \in Cores : op[c].frame = f /\ op[d].frame = f => c = d
    /\ Mapped(f) => ~Held(f) /\ f \notin bitmap
    /\ Held(f) => f \notin bitmap
    /\ (Mapped(f) \/ Held(f) \/ f \in bitmap) <=> (f \in usable /\ f \notin lost)
Ledger == \A f \in Frames : OneOwner(f)

\* A frame the step does not move keeps its owner.
LEMMA SameOwner ==
    ASSUME NEW f, OneOwner(f), usable' = usable,
           \A q \in Procs, m \in Nodes : space'[q][m] = f <=> space[q][m] = f,
           \A d \in Cores : op'[d].frame = f <=> op[d].frame = f,
           f \in bitmap' <=> f \in bitmap, f \in lost' <=> f \in lost
    PROVE  OneOwner(f)'
<1>1. (Mapped(f)' <=> Mapped(f)) /\ (Held(f)' <=> Held(f))
    BY DEF Mapped, Held
<1> QED BY <1>1 DEF OneOwner

\* A frame moved into a page table, into a core's hands, back to the allocator, or lost.
LEMMA NewOwner ==
    ASSUME NEW f, f \in usable',
           \/ /\ \E p \in Procs, n \in Nodes : \A q \in Procs, m \in Nodes :
                    space'[q][m] = f <=> q = p /\ m = n
              /\ \A d \in Cores : op'[d].frame # f
              /\ f \notin bitmap' /\ f \notin lost'
           \/ /\ \A q \in Procs, m \in Nodes : space'[q][m] # f
              /\ \E c \in Cores : \A d \in Cores : op'[d].frame = f <=> d = c
              /\ f \notin bitmap' /\ f \notin lost'
           \/ /\ \A q \in Procs, m \in Nodes : space'[q][m] # f
              /\ \A d \in Cores : op'[d].frame # f
              /\ f \in bitmap' <=> f \notin lost'
    PROVE  OneOwner(f)'
<1>1. CASE /\ \E p \in Procs, n \in Nodes : \A q \in Procs, m \in Nodes :
                 space'[q][m] = f <=> q = p /\ m = n
           /\ \A d \in Cores : op'[d].frame # f
           /\ f \notin bitmap' /\ f \notin lost'
  <2>1. Mapped(f)' /\ ~Held(f)'
      BY <1>1 DEF Mapped, Held
  <2>2. \A p, q \in Procs, n, m \in Nodes : space'[p][n] = f /\ space'[q][m] = f => p = q /\ n = m
      BY <1>1
  <2> QED BY <1>1, <2>1, <2>2 DEF OneOwner
<1>2. CASE /\ \A q \in Procs, m \in Nodes : space'[q][m] # f
           /\ \E c \in Cores : \A d \in Cores : op'[d].frame = f <=> d = c
           /\ f \notin bitmap' /\ f \notin lost'
  <2>1. ~Mapped(f)' /\ Held(f)'
      BY <1>2 DEF Mapped, Held
  <2>2. \A c, d \in Cores : op'[c].frame = f /\ op'[d].frame = f => c = d
      BY <1>2
  <2> QED BY <1>2, <2>1, <2>2 DEF OneOwner
<1>3. CASE /\ \A q \in Procs, m \in Nodes : space'[q][m] # f
           /\ \A d \in Cores : op'[d].frame # f
           /\ f \in bitmap' <=> f \notin lost'
  <2>1. ~Mapped(f)' /\ ~Held(f)'
      BY <1>3 DEF Mapped, Held
  <2> QED BY <1>3, <2>1 DEF OneOwner
<1> QED BY <1>1, <1>2, <1>3

\* What a step that changes one node of one tree leaves alone.
LEMMA PutLemma ==
    ASSUME TypeOK, NEW p \in Procs, NEW n \in Nodes, NEW x, Write(p, n, x)
    PROVE  /\ space'[p][n] = x
           /\ \A q \in Procs, m \in Nodes : ~(q = p /\ m = n) => space'[q][m] = space[q][m]
<1>1. space \in [Procs -> [Nodes -> Frames \union {None}]]
    BY DEF TypeOK
<1>2. space'[p] = [space[p] EXCEPT ![n] = x] /\ \A q \in Procs : q # p => space'[q] = space[q]
    BY <1>1 DEF Write
<1>3. space[p] \in [Nodes -> Frames \union {None}]
    BY <1>1
<1>4. space'[p][n] = x /\ \A m \in Nodes : m # n => space'[p][m] = space[p][m]
    BY <1>2, <1>3
<1> QED BY <1>2, <1>4

\* Every frame keeps one owner, or none, when it is moved.
LEMMA LedgerStep ==
    ASSUME TypeOK, Ledger, Move
    PROVE  Ledger'
<1> SUFFICES ASSUME NEW f \in Frames PROVE OneOwner(f)'
    BY DEF Ledger
<1>1. OneOwner(f) /\ usable' = usable /\ f # None
    BY ProcsLemma DEF Ledger, Move
<1>2. CASE Stay
  <2>1. \A q \in Procs, m \in Nodes : space'[q][m] = f <=> space[q][m] = f
      BY <1>2 DEF Stay
  <2>2. \A d \in Cores : op'[d].frame = f <=> op[d].frame = f
      BY <1>2 DEF Stay, KeepHands
  <2>3. (f \in bitmap' <=> f \in bitmap) /\ (f \in lost' <=> f \in lost)
      BY <1>2 DEF Stay
  <2> QED BY <1>1, <2>1, <2>2, <2>3, SameOwner
<1>3. ASSUME NEW c \in Cores, Lose(c) PROVE OneOwner(f)'
  <2>1. \A q \in Procs, m \in Nodes : space'[q][m] = space[q][m]
      BY <1>3 DEF Lose
  <2>2. \A d \in Cores : op'[d].frame = f <=> op[d].frame = f /\ d # c
      BY <1>1, <1>3 DEF Lose, OthersKeep
  <2>3. (f \in bitmap' <=> f \in bitmap) /\ (f \in lost' <=> f \in lost \/ f = op[c].frame)
      BY <1>3 DEF Lose
  <2>4. CASE f = op[c].frame
    <3>1. Held(f)
        BY <2>4 DEF Held
    <3>2. ~Mapped(f) /\ f \notin bitmap /\ f \in usable /\ \A d \in Cores : op[d].frame = f => d = c
        BY <1>1, <2>4, <3>1 DEF OneOwner
    <3>3. \A q \in Procs, m \in Nodes : space'[q][m] # f
        BY <2>1, <3>2 DEF Mapped
    <3> QED BY <1>1, <2>2, <2>3, <2>4, <3>2, <3>3, NewOwner
  <2>5. CASE f # op[c].frame
      BY <1>1, <2>1, <2>2, <2>3, <2>5, SameOwner
  <2> QED BY <2>4, <2>5
<1>4. ASSUME NEW c \in Cores, NEW g \in Frames, Take(c, g) PROVE OneOwner(f)'
  <2>1. \A q \in Procs, m \in Nodes : space'[q][m] = space[q][m]
      BY <1>4 DEF Take
  <2>2. op'[c].frame = g /\ op[c].frame = None /\ \A d \in Cores : d # c => op'[d].frame = op[d].frame
      BY <1>4 DEF Take, OthersKeep
  <2>3. g \in bitmap /\ (f \in bitmap' <=> f \in bitmap /\ f # g) /\ (f \in lost' <=> f \in lost)
      BY <1>4 DEF Take
  <2>4. CASE f = g
    <3>1. ~Mapped(f) /\ ~Held(f) /\ f \in usable /\ f \notin lost
        BY <1>1, <2>3, <2>4 DEF OneOwner
    <3>2. \A q \in Procs, m \in Nodes : space'[q][m] # f
        BY <2>1, <3>1 DEF Mapped
    <3>3. \A d \in Cores : op'[d].frame = f <=> d = c
        BY <2>2, <2>4, <3>1 DEF Held
    <3> QED BY <1>1, <2>3, <2>4, <3>1, <3>2, <3>3, NewOwner
  <2>5. CASE f # g
      BY <1>1, <2>1, <2>2, <2>3, <2>5, SameOwner
  <2> QED BY <2>4, <2>5
<1>5. ASSUME NEW p \in Procs, NEW n \in Nodes, NEW g \in Frames, Build(p, n, g) PROVE OneOwner(f)'
  <2>1. /\ space[p][n] = None /\ space'[p][n] = g
        /\ \A q \in Procs, m \in Nodes : ~(q = p /\ m = n) => space'[q][m] = space[q][m]
      BY <1>5, PutLemma DEF Build, Put
  <2>2. \A d \in Cores : op'[d].frame = op[d].frame
      BY <1>5 DEF Build, KeepHands
  <2>3. g \in bitmap /\ (f \in bitmap' <=> f \in bitmap /\ f # g) /\ (f \in lost' <=> f \in lost)
      BY <1>5 DEF Build
  <2>4. CASE f = g
    <3>1. ~Mapped(f) /\ ~Held(f) /\ f \in usable /\ f \notin lost
        BY <1>1, <2>3, <2>4 DEF OneOwner
    <3>2. \A q \in Procs, m \in Nodes : space'[q][m] = f <=> q = p /\ m = n
        BY <2>1, <2>4, <3>1 DEF Mapped
    <3>3. \A d \in Cores : op'[d].frame # f
        BY <2>2, <3>1 DEF Held
    <3> QED BY <1>1, <2>3, <2>4, <3>1, <3>2, <3>3, NewOwner
  <2>5. CASE f # g
    <3>1. \A q \in Procs, m \in Nodes : space'[q][m] = f <=> space[q][m] = f
        BY <1>1, <2>1, <2>5
    <3> QED BY <1>1, <2>2, <2>3, <2>5, <3>1, SameOwner
  <2> QED BY <2>4, <2>5
<1>6. ASSUME NEW c \in Cores, NEW p \in Procs, NEW n \in Nodes, Enter(c, p, n) PROVE OneOwner(f)'
  <2> DEFINE g == op[c].frame
  <2>1. /\ space[p][n] = None /\ space'[p][n] = g
        /\ \A q \in Procs, m \in Nodes : ~(q = p /\ m = n) => space'[q][m] = space[q][m]
      BY <1>6, PutLemma DEF Enter, Put
  <2>2. op'[c].frame = None /\ \A d \in Cores : d # c => op'[d].frame = op[d].frame
      BY <1>6 DEF Enter, OthersKeep
  <2>3. (f \in bitmap' <=> f \in bitmap) /\ (f \in lost' <=> f \in lost)
      BY <1>6 DEF Enter
  <2>4. CASE f = g
    <3>1. Held(f)
        BY <2>4 DEF Held
    <3>2. /\ ~Mapped(f) /\ f \notin bitmap /\ f \in usable /\ f \notin lost
          /\ \A d \in Cores : op[d].frame = f => d = c
        BY <1>1, <2>4, <3>1 DEF OneOwner
    <3>3. \A q \in Procs, m \in Nodes : space'[q][m] = f <=> q = p /\ m = n
        BY <2>1, <2>4, <3>2 DEF Mapped
    <3>4. \A d \in Cores : op'[d].frame # f
        BY <1>1, <2>2, <3>2
    <3> QED BY <1>1, <2>3, <3>2, <3>3, <3>4, NewOwner
  <2>5. CASE f # g
    <3>1. \A q \in Procs, m \in Nodes : space'[q][m] = f <=> space[q][m] = f
        BY <1>1, <2>1, <2>5
    <3>2. \A d \in Cores : op'[d].frame = f <=> op[d].frame = f
        BY <1>1, <2>2, <2>5
    <3> QED BY <1>1, <2>3, <3>1, <3>2, SameOwner
  <2> QED BY <2>4, <2>5
<1>7. ASSUME NEW p \in Procs, NEW n \in Nodes, Free(p, n) PROVE OneOwner(f)'
  <2> DEFINE g == space[p][n]
  <2>1. /\ space'[p][n] = None
        /\ \A q \in Procs, m \in Nodes : ~(q = p /\ m = n) => space'[q][m] = space[q][m]
      BY <1>7, PutLemma DEF Free
  <2>2. \A d \in Cores : op'[d].frame = op[d].frame
      BY <1>7 DEF Free, KeepHands
  <2>3. (f \in bitmap' <=> f \in bitmap \/ f = g) /\ (f \in lost' <=> f \in lost)
      BY <1>7 DEF Free
  <2>4. CASE f = g
    <3>1. Mapped(f)
        BY <2>4 DEF Mapped
    <3>2. /\ ~Held(f) /\ f \in usable /\ f \notin lost
          /\ \A q \in Procs, m \in Nodes : space[q][m] = f => q = p /\ m = n
        BY <1>1, <2>4, <3>1 DEF OneOwner
    <3>3. \A q \in Procs, m \in Nodes : space'[q][m] # f
        BY <1>1, <2>1, <3>2
    <3>4. \A d \in Cores : op'[d].frame # f
        BY <2>2, <3>2 DEF Held
    <3> QED BY <1>1, <2>3, <2>4, <3>2, <3>3, <3>4, NewOwner
  <2>5. CASE f # g
    <3>1. \A q \in Procs, m \in Nodes : space'[q][m] = f <=> space[q][m] = f
        BY <1>1, <2>1, <2>5
    <3> QED BY <1>1, <2>2, <2>3, <2>5, <3>1, SameOwner
  <2> QED BY <2>4, <2>5
<1> QED BY <1>2, <1>3, <1>4, <1>5, <1>6, <1>7 DEF Move

\* The table above a node is a node.
LEMMA ParentLemma == \A m \in Nodes : m # Root => Parent(m) \in Nodes
<1> SUFFICES ASSUME NEW m \in Nodes, m # Root PROVE Parent(m) \in Nodes
    OBVIOUS
<1>1. /\ Levels \in Nat /\ Fanout \in Nat \ {0} /\ UserPages \in Nat \ {0} /\ UserPages <= Fanout^(Levels + 1)
      /\ \A k \in 0..Levels : Fanout^k \in Nat \ {0} /\ Fanout^(k + 1) = Fanout^k * Fanout
    BY MemoryAssumption, PowerLemma, SMTT(30)
<1>2. PICK l \in 0..(Levels + 1) : m \in {l} \X (0..((UserPages - 1) \div Fanout^l))
    BY DEF Nodes
<1> DEFINE v == UserPages - 1
<1>3. v \in Nat /\ v \in Pages
    BY <1>1, SMTT(30) DEF Pages
<1> HIDE DEF v
<1>4. m = <<l, m[2]>> /\ m[1] = l /\ m[2] \in 0..(v \div Fanout^l)
    BY <1>2, SMTT(30) DEF v
<1>5. CASE l = Levels + 1
  <2>1. Levels \in 0..Levels
      BY <1>1, SMTT(30)
  <2>2. <<Levels + 1, v \div Fanout^(Levels + 1)>> = Root
      BY <1>3, <2>1, PathLemma, ZenonT(30)
  <2>3. v \div Fanout^l = 0
      BY <1>5, <2>2, ZenonT(30) DEF Root
  <2>4. m[2] = 0
      BY <1>4, <2>3, SMTT(30)
  <2> QED BY <1>4, <1>5, <2>4, ZenonT(30) DEF Root
<1>6. CASE l # Levels + 1
  <2>1. l \in 0..Levels /\ l + 1 \in 0..(Levels + 1)
      BY <1>1, <1>6, SMTT(30)
  <2>2. Fanout^l \in Nat \ {0}
      BY <1>1, <2>1, ZenonT(30)
  <2>3. (v \div Fanout^l) \div Fanout = v \div Fanout^(l + 1)
    <3>1. (v \div Fanout^l) \div Fanout = v \div (Fanout^l * Fanout)
        BY <1>1, <1>3, <2>2, DivDivLemma, ZenonT(30)
    <3> QED BY <1>1, <2>1, <3>1, ZenonT(30)
  <2>4. v \div Fanout^l \in Nat
      BY <1>3, <2>2, SMTT(30)
  <2>5. m[2] \div Fanout \in 0..(v \div Fanout^(l + 1))
    <3> DEFINE w == v \div Fanout^l
    <3> HIDE DEF w
    <3>1. w \in Nat /\ m[2] \in 0..w /\ Fanout \in Nat \ {0}
        BY <1>1, <1>4, <2>4 DEF w
    <3>2. m[2] \div Fanout \in 0..(w \div Fanout)
        BY <3>1, DivMono, SMTT(30)
    <3> QED BY <2>3, <3>2 DEF w
  <2>6. Parent(m) \in {l + 1} \X (0..(v \div Fanout^(l + 1)))
      BY <1>4, <2>5 DEF Parent
  <2> QED BY <2>1, <2>6 DEF Nodes, v
<1> QED BY <1>5, <1>6

\* A node is entered below a table and freed when nothing is below it.
LEMMA TablesStep ==
    ASSUME TypeOK, TablesOutliveEntries, Move
    PROVE  TablesOutliveEntries'
<1> SUFFICES ASSUME NEW q \in Procs, NEW m \in Nodes \ {Root}, space'[q][m] # None
             PROVE  space'[q][Parent(m)] # None
    BY DEF TablesOutliveEntries
<1>1. Parent(m) \in Nodes
    BY ParentLemma
<1>2. space[q][m] # None => space[q][Parent(m)] # None
    BY DEF TablesOutliveEntries
<1>3. CASE space' = space
    BY <1>2, <1>3
<1>4. ASSUME NEW p \in Procs, NEW n \in Nodes, NEW f \in Frames, Put(p, n, f) PROVE space'[q][Parent(m)] # None
  <2>1. /\ space'[p][n] = f /\ f # None
        /\ \A r \in Procs, k \in Nodes : ~(r = p /\ k = n) => space'[r][k] = space[r][k]
      BY <1>4, PutLemma, ProcsLemma DEF Put
  <2>2. CASE q = p /\ m = n
    <3>1. space[p][Parent(n)] # None
        BY <1>4, <2>2 DEF Put
    <3> QED BY <1>1, <2>1, <2>2, <3>1
  <2>3. CASE ~(q = p /\ m = n)
      BY <1>1, <1>2, <2>1, <2>3
  <2> QED BY <2>2, <2>3
<1>5. ASSUME NEW p \in Procs, NEW n \in Nodes, Free(p, n) PROVE space'[q][Parent(m)] # None
  <2>1. /\ space'[p][n] = None /\ (space[p][m] # None => Parent(m) # n)
        /\ \A r \in Procs, k \in Nodes : ~(r = p /\ k = n) => space'[r][k] = space[r][k]
      BY <1>5, PutLemma DEF Free
  <2> QED BY <1>1, <1>2, <2>1
<1>6. ASSUME NEW c \in Cores, op[c].frame # None PROVE op[c].frame \in Frames
    BY <1>6 DEF TypeOK, Calling
<1> QED BY <1>3, <1>4, <1>5, <1>6 DEF Move, Stay, Lose, Take, Build, Enter

(***************************************************************************)
(* The heap is mapped up to the break.                                     *)
(***************************************************************************)

\* The rounded-up break is a page boundary in the user half.
LEMMA HeapPagesLemma ==
    ASSUME NEW e \in HeapEnds
    PROVE  /\ page_of(TopOf(e)) \in Nat /\ page_of(TopOf(e) - 1) = page_of(TopOf(e)) - 1
           /\ HeapPages(e) \subseteq Pages
           /\ \A a \in USER_HEAP_START..(e - 1) : page_of(a) \in HeapPages(e)
<1> DEFINE q == div_ceil(e, PageSize)
           t == TopOf(e)
           s == page_of(USER_HEAP_START)
<1>1. PageSize \in Nat \ {0} /\ USER_HEAP_START \in Nat /\ UserPages \in Nat \ {0}
    BY MemoryAssumption, SMTT(30)
<1>2. e \in Nat /\ t \in Nat /\ e <= t /\ t <= UserPages * PageSize
    BY TopLemma
<1>3. q \in Int /\ t = PageSize * q
  <2>1. q \in Int
      BY <1>1, <1>2, SMTT(30) DEF div_ceil
  <2>2. t = q * PageSize
      BY DEF TopOf, align_up
  <2> QED BY <1>1, <2>1, <2>2, SMTT(30)
<1> HIDE DEF q, t, s
<1>4. t \div PageSize = q
  <2>1. t \in Int /\ PageSize * q <= t /\ t < PageSize * q + PageSize
      BY <1>1, <1>2, <1>3, SMTT(30)
  <2> QED BY <1>1, <1>3, <2>1, QuotientLemma, ZenonT(30)
<1>5. (t - 1) \div PageSize = q - 1
  <2>1. t - 1 \in Int /\ q - 1 \in Int /\ PageSize * (q - 1) <= t - 1 /\ t - 1 < PageSize * (q - 1) + PageSize
      BY <1>1, <1>2, <1>3, SMTT(30)
  <2> QED BY <1>1, <2>1, QuotientLemma, ZenonT(30)
<1>6. q \in Nat
    BY <1>1, <1>2, <1>4, SMTT(30)
<1>7. q <= UserPages
  <2>1. PageSize * q < PageSize * (UserPages + 1) /\ UserPages + 1 \in Int
      BY <1>1, <1>2, <1>3, SMTT(30)
  <2>2. q < UserPages + 1
      BY <1>1, <1>3, <2>1, MonoLemma, ZenonT(30)
  <2> QED BY <1>1, <1>3, <2>2, SMTT(30)
<1>8. s \in Nat
    BY <1>1, SMTT(30) DEF page_of, s
<1>9. HeapPages(e) = s..(q - 1)
    BY <1>4 DEF HeapPages, page_of, s, t
<1>10. ASSUME NEW a \in USER_HEAP_START..(e - 1) PROVE page_of(a) \in s..(q - 1)
  <2> DEFINE k == a \div PageSize
  <2>1. a \in Int /\ USER_HEAP_START <= a /\ a < t
      BY <1>1, <1>2, SMTT(30)
  <2>2. k \in Int /\ PageSize * k <= a
      BY <1>1, <2>1, DivLemma, ZenonT(30)
  <2>3. s <= k
      BY <1>1, <2>1, DivMono, SMTT(30) DEF page_of, s
  <2> HIDE DEF k
  <2>4. PageSize * k < PageSize * q
      BY <1>1, <1>2, <1>3, <2>1, <2>2, SMTT(30)
  <2>5. k < q
      BY <1>1, <1>3, <2>2, <2>4, MonoLemma, ZenonT(30)
  <2>6. k \in s..(q - 1)
      BY <1>6, <1>8, <2>2, <2>3, <2>5, SMTT(30)
  <2> QED BY <2>6 DEF k, page_of
<1>11. s..(q - 1) \subseteq Pages
    BY <1>1, <1>6, <1>7, <1>8, SMTT(30) DEF Pages
<1>12. page_of(TopOf(e)) = q /\ page_of(TopOf(e) - 1) = q - 1
    BY <1>4, <1>5 DEF page_of, t
<1> QED BY <1>6, <1>9, <1>10, <1>11, <1>12

\* The heap starts at a page boundary, with no page.
LEMMA HeapStartLemma == USER_HEAP_START \in HeapEnds /\ HeapPages(USER_HEAP_START) = {}
<1> DEFINE s == USER_HEAP_START \div PageSize
           q == (USER_HEAP_START + PageSize - 1) \div PageSize
<1>1. /\ PageSize \in Nat \ {0} /\ USER_HEAP_START \in Nat /\ USER_HEAP_MAX_SIZE \in Nat
      /\ USER_HEAP_START % PageSize = 0
    BY MemoryAssumption
<1>2. USER_HEAP_START = PageSize * s /\ s \in Int
    BY <1>1, SMTT(30)
<1> HIDE DEF s
<1>3. q = s
  <2>1. /\ USER_HEAP_START + PageSize - 1 \in Int /\ PageSize * s <= USER_HEAP_START + PageSize - 1
        /\ USER_HEAP_START + PageSize - 1 < PageSize * s + PageSize
      BY <1>1, <1>2, SMTT(30)
  <2> QED BY <1>1, <1>2, <2>1, QuotientLemma, ZenonT(30)
<1>4. TopOf(USER_HEAP_START) = q * PageSize
    BY DEF TopOf, align_up, div_ceil
<1> HIDE DEF q
<1>5. TopOf(USER_HEAP_START) = USER_HEAP_START
    BY <1>1, <1>2, <1>3, <1>4, SMTT(30)
<1>6. HeapPages(USER_HEAP_START) = s..(s - 1)
    BY <1>5 DEF HeapPages, page_of, s
<1>7. s..(s - 1) = {} /\ USER_HEAP_START \in HeapEnds
    BY <1>1, <1>2, SMTT(30) DEF HeapEnds
<1> QED BY <1>6, <1>7

\* sys_sbrk lists the heap pages between the old break and the new one.
LEMMA SbrkPagesLemma ==
    ASSUME NEW h \in HeapEnds, NEW e \in HeapEnds, NEW v \in HeapPages(e), v \notin HeapPages(h)
    PROVE  \E k \in DOMAIN PagesOf(TopOf(h), TopOf(e)) : PagesOf(TopOf(h), TopOf(e))[k] = v
<1> DEFINE s == page_of(USER_HEAP_START)
           p == page_of(TopOf(h))
           q == page_of(TopOf(e))
           k == v - p + 1
<1>1. p \in Nat /\ q \in Nat /\ page_of(TopOf(e) - 1) = q - 1
    BY HeapPagesLemma
<1>2. s \in Nat
  <2>1. PageSize \in Nat \ {0} /\ USER_HEAP_START \in Nat
      BY MemoryAssumption
  <2> QED BY <2>1, SMTT(30) DEF page_of
<1>3. v \in s..(q - 1) /\ v \notin s..(p - 1)
    BY DEF HeapPages
<1>4. PagesOf(TopOf(h), TopOf(e)) = [j \in 1..(q - 1 - p + 1) |-> p + j - 1]
    BY <1>1 DEF PagesOf
<1> HIDE DEF s, p, q
<1>5. k \in 1..(q - 1 - p + 1) /\ p + k - 1 = v
  <2>1. v \in Int /\ s <= v /\ v <= q - 1
      BY <1>1, <1>2, <1>3, SMTT(30)
  <2>2. ~(v <= p - 1)
      BY <1>1, <1>2, <1>3, <2>1, SMTT(30)
  <2> QED BY <1>1, <2>1, <2>2, SMTT(30)
<1> HIDE DEF k
<1> QED BY <1>4, <1>5

\* A page of the heap is a leaf of the tree.
LEMMA HeapNodeLemma ==
    ASSUME NEW e \in HeapEnds, NEW v \in HeapPages(e)
    PROVE  <<0, v>> \in Nodes
<1>1. v \in Pages
    BY HeapPagesLemma
<1>2. 0 \in 0..Levels
    BY MemoryAssumption, SMTT(30)
<1>3. <<0, v \div Fanout^0>> \in Nodes /\ <<0, v>> = <<0, v \div Fanout^0>>
    BY <1>1, <1>2, PathLemma, ZenonT(30)
<1> QED BY <1>3

\* What HeapGrows says of a live process is what HeapBacked says.
LEMMA HeapBackedLemma ==
    ASSUME TypeOK, HeapGrows
    PROVE  HeapBacked
<1> SUFFICES ASSUME NEW p \in Procs, Live(p)
             PROVE  /\ region[p] = heap_end[p] - USER_HEAP_START
                    /\ \A a \in USER_HEAP_START..(heap_end[p] - 1) : space[p][<<0, page_of(a)>>] # None
    BY DEF HeapBacked
<1>1. region[p] = heap_end[p] - USER_HEAP_START /\ Unbacked(p, heap_end[p]) = {} /\ heap_end[p] \in HeapEnds
    BY DEF HeapGrows, TypeOK
<1>2. ASSUME NEW a \in USER_HEAP_START..(heap_end[p] - 1) PROVE space[p][<<0, page_of(a)>>] # None
  <2>1. page_of(a) \in HeapPages(heap_end[p])
      BY <1>1, HeapPagesLemma
  <2> QED BY <1>1, <2>1 DEF Unbacked
<1> QED BY <1>1, <1>2

\* The page tables of a process that is neither built nor torn down only grow.
LEMMA GrowLemma ==
    ASSUME TypeOK, Move, NEW q \in Procs, NEW m \in Nodes, state[q] \notin {"reserved", "dead"},
           space[q][m] # None
    PROVE  space'[q][m] # None
<1>1. CASE space' = space
    BY <1>1
<1>2. ASSUME NEW p \in Procs, NEW n \in Nodes, NEW f \in Frames, Put(p, n, f) PROVE space'[q][m] # None
  <2>1. /\ space'[p][n] = f /\ f # None
        /\ \A r \in Procs, k \in Nodes : ~(r = p /\ k = n) => space'[r][k] = space[r][k]
      BY <1>2, PutLemma, ProcsLemma DEF Put
  <2> QED BY <2>1
<1>3. ASSUME NEW p \in Procs, NEW n \in Nodes, Free(p, n) PROVE space'[q][m] # None
  <2>1. /\ q # p
        /\ \A r \in Procs, k \in Nodes : ~(r = p /\ k = n) => space'[r][k] = space[r][k]
      BY <1>3, PutLemma DEF Free
  <2> QED BY <2>1
<1>4. ASSUME NEW c \in Cores, op[c].frame # None PROVE op[c].frame \in Frames
    BY <1>4 DEF TypeOK, Calling
<1> QED BY <1>1, <1>2, <1>3, <1>4 DEF Move, Stay, Lose, Take, Build, Enter

\* HeapGrows after a step, clause by clause.
LEMMA HeapGrowsLemma ==
    ASSUME \A q \in Procs : state'[q] \in {"unused", "reserved"} => heap_end'[q] = USER_HEAP_START /\ region'[q] = 0,
           \A q \in Procs : Live(q)' =>
             /\ region'[q] = heap_end'[q] - USER_HEAP_START
             /\ \A v \in HeapPages(heap_end'[q]) : space'[q][<<0, v>>] # None,
           \A d \in Cores : op'[d].end # None =>
             \A v \in HeapPages(op'[d].end) : space'[op'[d].p][<<0, v>>] = None =>
               \E k \in DOMAIN op'[d].todo : op'[d].todo[k] = v
    PROVE  HeapGrows'
    BY DEF HeapGrows, Unbacked

\* One step per action.
LEMMA SpaceStep == MemoryInv /\ SpaceEmpty /\ HeapGrows /\ Move /\ Next => SpaceEmpty' /\ HeapGrows'

\* A process a sys_sbrk works on runs.
<1>SbrkRuns.
    ASSUME MemoryInv, NEW d \in Cores, op[d].end # None
    PROVE  op[d].p \in Procs /\ state[op[d].p] = "running" /\ op[d].end \in HeapEnds
    BY <1>SbrkRuns DEF MemoryInv, TypeOK, Calling, CallInProgress, Fits, CurrentRuns

\* Nobody writes the address space of a slot that is free or about to get its PML4.
<1>EmptyStep.
    ASSUME MemoryInv, SpaceEmpty, NEW c \in Cores,
           \A d \in Cores \ {c} : op'[d] = op[d],
           op'[c].pc = "image" => space'[op'[c].p] = Empty,
           \A q \in Procs : state[q] = "unused" => space'[q] = space[q],
           \A d \in Cores \ {c} : op[d].pc = "image" => space'[op[d].p] = space[op[d].p],
           \A q \in Procs : state'[q] = "unused" => state[q] = "unused" \/ space'[q] = Empty
    PROVE  SpaceEmpty'
  <2> USE <1>EmptyStep
  <2>1. ASSUME NEW q \in Procs, state'[q] = "unused" PROVE space'[q] = Empty
      BY <2>1 DEF SpaceEmpty
  <2>2. ASSUME NEW d \in Cores, op'[d].pc = "image" PROVE space'[op'[d].p] = Empty
      BY <2>2 DEF SpaceEmpty
  <2> QED BY <2>1, <2>2 DEF SpaceEmpty

\* Steps that move no break keep what is mapped and what is still to be mapped.
<1>HeapStep.
    ASSUME MemoryInv, HeapGrows, Move, NEW c \in Cores,
           \A d \in Cores \ {c} : op'[d] = op[d],
           UNCHANGED <<heap_end, region>>,
           \A q \in Procs : state'[q] \in {"unused", "reserved"} => state[q] \in {"unused", "reserved"},
           \A q \in Procs : Live(q)' => Live(q) \/ state[q] = "reserved",
           op'[c].end # None =>
             /\ op[c].end = op'[c].end /\ op[c].p = op'[c].p
             /\ \A k \in DOMAIN op[c].todo :
                  \/ space'[op[c].p][<<0, op[c].todo[k]>>] # None
                  \/ \E j \in DOMAIN op'[c].todo : op'[c].todo[j] = op[c].todo[k]
    PROVE  HeapGrows'
  <2> USE <1>HeapStep
  <2>1. \A q \in Procs : state'[q] \in {"unused", "reserved"} => heap_end'[q] = USER_HEAP_START /\ region'[q] = 0
      BY DEF HeapGrows
  <2>2. ASSUME NEW q \in Procs, NEW e \in HeapEnds, state[q] \notin {"reserved", "dead"},
               NEW v \in HeapPages(e), space'[q][<<0, v>>] = None
        PROVE  v \in Unbacked(q, e)
    <3>1. <<0, v>> \in Nodes
        BY HeapNodeLemma
    <3>2. space[q][<<0, v>>] = None
        BY <2>2, <3>1, GrowLemma DEF MemoryInv
    <3> QED BY <3>2 DEF Unbacked
  <2>3. ASSUME NEW q \in Procs, Live(q)'
        PROVE  /\ region'[q] = heap_end'[q] - USER_HEAP_START
               /\ \A v \in HeapPages(heap_end'[q]) : space'[q][<<0, v>>] # None
    <3>1. heap_end'[q] = heap_end[q] /\ region'[q] = region[q] /\ heap_end[q] \in HeapEnds
        BY DEF MemoryInv, TypeOK
    <3>2. CASE Live(q)
      <4>1. region[q] = heap_end[q] - USER_HEAP_START /\ Unbacked(q, heap_end[q]) = {}
          BY <3>2 DEF HeapGrows
      <4>2. state[q] \notin {"reserved", "dead"}
          BY <3>2 DEF Live
      <4>3. \A v \in HeapPages(heap_end[q]) : space'[q][<<0, v>>] # None
          BY <2>2, <3>1, <4>1, <4>2
      <4> QED BY <3>1, <4>1, <4>3
    <3>3. CASE state[q] = "reserved"
      <4>1. heap_end[q] = USER_HEAP_START /\ region[q] = 0
          BY <3>3 DEF HeapGrows
      <4>2. HeapPages(USER_HEAP_START) = {} /\ USER_HEAP_START \in Nat
          BY HeapStartLemma, MemoryAssumption
      <4>3. \A v \in HeapPages(heap_end'[q]) : space'[q][<<0, v>>] # None
          BY <3>1, <4>1, <4>2
      <4>4. USER_HEAP_START - USER_HEAP_START = 0
          BY <4>2, SMTT(30)
      <4> QED BY <3>1, <4>1, <4>3, <4>4
    <3> QED BY <2>3, <3>2, <3>3
  <2>4. ASSUME NEW d \in Cores, op'[d].end # None, NEW v \in HeapPages(op'[d].end),
               space'[op'[d].p][<<0, v>>] = None
        PROVE  \E k \in DOMAIN op'[d].todo : op'[d].todo[k] = v
    <3>1. op[d].end = op'[d].end /\ op[d].p = op'[d].p
        BY <2>4
    <3>2. op[d].p \in Procs /\ state[op[d].p] = "running" /\ op[d].end \in HeapEnds
        BY <2>4, <3>1, <1>SbrkRuns
    <3>3. v \in Unbacked(op[d].p, op[d].end)
        BY <2>2, <2>4, <3>1, <3>2
    <3>4. PICK k \in DOMAIN op[d].todo : op[d].todo[k] = v
        BY <2>4, <3>1, <3>3 DEF HeapGrows
    <3> QED BY <2>4, <3>1, <3>4
  <2> QED BY <2>1, <2>3, <2>4, HeapGrowsLemma

\* Steps that change neither page tables nor breaks, and after which the core neither
\* builds a process nor extends a heap.
<1>PlainStep.
    ASSUME MemoryInv, SpaceEmpty, HeapGrows, Move, NEW c \in Cores,
           \A d \in Cores \ {c} : op'[d] = op[d],
           op'[c].end = None, op'[c].pc # "image", UNCHANGED <<space, heap_end, region>>,
           \A q \in Procs : state'[q] = "unused" => state[q] = "unused",
           \A q \in Procs : state'[q] = "reserved" => state[q] = "reserved",
           \A q \in Procs : Live(q)' => Live(q) \/ state[q] = "reserved"
    PROVE  SpaceEmpty' /\ HeapGrows'
  <2> USE <1>PlainStep
  <2>1. SpaceEmpty'
      BY <1>EmptyStep
  <2>2. \A q \in Procs : state'[q] \in {"unused", "reserved"} => state[q] \in {"unused", "reserved"}
      OBVIOUS
  <2>3. HeapGrows'
      BY <2>2, <1>HeapStep
  <2> QED BY <2>1, <2>3

<1>Others.
    ASSUME MemoryInv, NEW c \in Cores, NEW o, op' = [op EXCEPT ![c] = o]
    PROVE  op'[c] = o /\ \A d \in Cores \ {c} : op'[d] = op[d]
    BY <1>Others DEF MemoryInv, TypeOK

<1>Returned.
    ASSUME MemoryInv, NEW c \in Cores, Return(c)
    PROVE  /\ op'[c].end = None /\ op'[c].pc # "image"
           /\ \A d \in Cores \ {c} : op'[d] = op[d]
  <2> USE <1>Returned
  <2> DEFINE w == IF current[c] = None THEN "idle" ELSE "user"
             o == Op(w)
  <2>1. op' = [op EXCEPT ![c] = o] /\ o.end = None /\ o.pc = w /\ w # "image"
      BY DEF Return, Op
  <2> HIDE DEF o, w
  <2> QED BY <2>1, <1>Others

<1>fail_step.
    ASSUME MemoryInv, SpaceEmpty, HeapGrows, Move, NEW c \in Cores, Fail(c)
    PROVE  SpaceEmpty' /\ HeapGrows'
  <2> USE <1>fail_step
  <2>1. op'[c].end = None /\ op'[c].pc # "image" /\ \A d \in Cores \ {c} : op'[d] = op[d]
    <3>1. CASE op[c].end = None
      <4> DEFINE o == [Op("drop") EXCEPT !.drops = <<op[c].p>>]
      <4>1. op' = [op EXCEPT ![c] = o] /\ o.end = None /\ o.pc = "drop"
          BY <3>1 DEF Fail, Op
      <4> HIDE DEF o
      <4> QED BY <4>1, <1>Others
    <3>2. CASE op[c].end # None
        BY <3>2, <1>Returned DEF Fail
    <3> QED BY <3>1, <3>2
  <2>2. UNCHANGED <<space, heap_end, region, state>>
      BY DEF Fail, procVars
  <2> QED BY <2>1, <2>2, <1>PlainStep DEF Live

\* A step that changes only the page tables of a process, and the call of core c.
<1>quiet_step.
    ASSUME MemoryInv, SpaceEmpty, HeapGrows, Move, NEW c \in Cores,
           \A d \in Cores \ {c} : op'[d] = op[d], op'[c].pc # "image",
           UNCHANGED <<state, heap_end, region>>,
           \A q \in Procs : state[q] = "unused" => space'[q] = space[q],
           \A d \in Cores \ {c} : op[d].pc = "image" => space'[op[d].p] = space[op[d].p],
           op'[c].end # None =>
             /\ op[c].end = op'[c].end /\ op[c].p = op'[c].p
             /\ \A k \in DOMAIN op[c].todo :
                  \/ space'[op[c].p][<<0, op[c].todo[k]>>] # None
                  \/ \E j \in DOMAIN op'[c].todo : op'[c].todo[j] = op[c].todo[k]
    PROVE  SpaceEmpty' /\ HeapGrows'
  <2> USE <1>quiet_step
  <2>1. SpaceEmpty'
      BY <1>EmptyStep
  <2>2. HeapGrows'
      BY <1>HeapStep DEF Live
  <2> QED BY <2>1, <2>2

<1>allocate_page_step.
    ASSUME MemoryInv, SpaceEmpty, HeapGrows, Move, NEW c \in Cores, allocate_page(c)
    PROVE  SpaceEmpty' /\ HeapGrows'
  <2> USE <1>allocate_page_step
  <2>1. CASE Allocated = None
      BY <2>1, <1>fail_step DEF allocate_page
  <2>2. CASE Allocated # None
    <3> DEFINE o == [op[c] EXCEPT !.frame = Allocated, !.pc = "map"]
    <3>1. op' = [op EXCEPT ![c] = o] /\ UNCHANGED <<space, state, heap_end, region>>
        BY <2>2 DEF allocate_page, procVars
    <3>2. o.pc = "map" /\ o.end = op[c].end /\ o.p = op[c].p /\ o.todo = op[c].todo
        BY DEF MemoryInv, TypeOK, Calling
    <3> HIDE DEF o
    <3>3. op'[c] = o /\ \A d \in Cores \ {c} : op'[d] = op[d]
        BY <3>1, <1>Others
    <3> QED BY <3>1, <3>2, <3>3, <1>quiet_step
  <2> QED BY <2>1, <2>2

\* A call that builds or maps works on a process.
<1>Target.
    ASSUME MemoryInv, NEW c \in Cores, op[c].pc \in {"image", "segment", "map"}
    PROVE  /\ op[c].p \in Procs
           /\ op[c].pc \in {"image", "segment"} => op[c].end = None
           /\ op[c].end # None => op[c].p = current[c] /\ current[c] # None
  <2> USE <1>Target
  <2>1. Fits(op[c], current[c]) /\ op[c] \in Calling
      BY DEF MemoryInv, TypeOK, CallInProgress
  <2>2. op[c].p \in Procs \union {None}
      BY <2>1 DEF Calling
  <2>3. op[c].p # None
      BY <2>1 DEF Fits
  <2>4. op[c].end # None => op[c].pc \in {"page", "map"} /\ op[c].p = current[c] /\ current[c] # None
      BY <2>1 DEF Fits
  <2> QED BY <2>2, <2>3, <2>4

\* Who builds a process writes its address space, nobody else's.
<1>Alone.
    ASSUME MemoryInv, NEW c \in Cores, op[c].pc \in {"image", "map"}
    PROVE  /\ op[c].p \in Procs /\ state[op[c].p] \in {"reserved", "running"}
           /\ \A d \in Cores \ {c} : op[d].pc = "image" => op[d].p # op[c].p
  <2> USE <1>Alone
  <2>1. op[c].p \in Procs /\ (op[c].end # None => op[c].p = current[c] /\ current[c] # None)
      BY <1>Target
  <2>2. ASSUME NEW d \in Cores, op[d].pc = "image"
        PROVE  op[d].p \in InHand(op[d]) /\ state[op[d].p] = "reserved"
    <3>1. op[d].p \in Procs /\ op[d].end = None
        BY <2>2, <1>Target
    <3>2. op[d].p \in InHand(op[d])
        BY <2>2, <3>1 DEF InHand, Builds
    <3> QED BY <2>2, <3>2 DEF MemoryInv, HandsApart, States
  <2>3. CASE op[c].end = None
    <3>1. op[c].p \in InHand(op[c])
        BY <2>1, <2>3 DEF InHand, Builds
    <3>2. state[op[c].p] = "reserved"
        BY <3>1 DEF MemoryInv, HandsApart, States
    <3> QED BY <2>1, <2>2, <3>1, <3>2 DEF MemoryInv, HandsApart
  <2>4. CASE op[c].end # None
    <3>1. state[op[c].p] = "running"
        BY <2>1, <2>4 DEF MemoryInv, CurrentRuns
    <3> QED BY <2>1, <2>2, <3>1
  <2> QED BY <2>3, <2>4

<1>map_to_step.
    ASSUME MemoryInv, SpaceEmpty, HeapGrows, Move, NEW c \in Cores, map_to(c)
    PROVE  SpaceEmpty' /\ HeapGrows'
  <2> USE <1>map_to_step
  <2> DEFINE o == op[c]
             v == Head(o.todo)
             missing == Missing(space[o.p], v)
             next == CHOOSE n \in missing : \A m \in missing : n[1] >= m[1]
  <2>1. o.pc = "map" /\ o.todo # <<>> /\ o.frame # None /\ o.todo \in Seq(Pages)
      BY DEF map_to, MemoryInv, TypeOK, Calling, CallInProgress, Fits
  <2>2. /\ o.p \in Procs /\ state[o.p] \in {"reserved", "running"}
        /\ \A d \in Cores \ {c} : op[d].pc = "image" => op[d].p \in Procs /\ op[d].p # o.p
      BY <2>1, <1>Alone, <1>Target
  <2>3. v \in Pages
      BY <2>1, SMTT(30)
  <2>4. \/ /\ space' = [space EXCEPT ![o.p][next] = Allocated]
           /\ UNCHANGED <<state, heap_end, region, op>>
        \/ Fail(c)
        \/ /\ space' = [space EXCEPT ![o.p][<<0, v>>] = o.frame]
           /\ op' = [op EXCEPT ![c].frame = None, ![c].todo = Tail(o.todo), ![c].pc = "page"]
           /\ UNCHANGED <<state, heap_end, region>>
      BY DEF map_to
  <2>5. space \in [Procs -> [Nodes -> Frames \union {None}]]
      BY DEF MemoryInv, TypeOK
  <2> HIDE DEF v, missing, next
  <2>6. ASSUME NEW n, NEW f, space' = [space EXCEPT ![o.p][n] = f]
        PROVE  /\ \A q \in Procs : state[q] = "unused" => space'[q] = space[q]
               /\ \A d \in Cores \ {c} : op[d].pc = "image" => space'[op[d].p] = space[op[d].p]
    <3>1. \A q \in Procs : q # o.p => space'[q] = space[q]
        BY <2>2, <2>5, <2>6
    <3> QED BY <2>2, <3>1
  <2>7. CASE /\ space' = [space EXCEPT ![o.p][next] = Allocated]
             /\ UNCHANGED <<state, heap_end, region, op>>
    <3>1. \A d \in Cores \ {c} : op'[d] = op[d]
        BY <2>7
    <3>2. op'[c] = op[c]
        BY <2>7
    <3> QED BY <2>1, <2>6, <2>7, <3>1, <3>2, <1>quiet_step
  <2>8. CASE Fail(c)
      BY <2>8, <1>fail_step
  <2>9. CASE /\ space' = [space EXCEPT ![o.p][<<0, v>>] = o.frame]
             /\ op' = [op EXCEPT ![c].frame = None, ![c].todo = Tail(o.todo), ![c].pc = "page"]
             /\ UNCHANGED <<state, heap_end, region>>
    <3> DEFINE o2 == [o EXCEPT !.frame = None, !.todo = Tail(o.todo), !.pc = "page"]
    <3>1. op' = [op EXCEPT ![c] = o2]
        BY <2>9
    <3>2. o2.pc = "page" /\ o2.end = o.end /\ o2.p = o.p /\ o2.todo = Tail(o.todo)
        BY DEF MemoryInv, TypeOK, Calling
    <3> HIDE DEF o2
    <3>3. op'[c] = o2 /\ \A d \in Cores \ {c} : op'[d] = op[d]
        BY <3>1, <1>Others
    <3>4. <<0, v>> \in Nodes
        BY <2>2, <2>3, <2>5, MissingLemma
    <3>5. space'[o.p][<<0, v>>] # None
        BY <2>1, <2>2, <2>5, <2>9, <3>4
    <3>6. ASSUME NEW k \in DOMAIN o.todo
          PROVE  o.todo[k] = v \/ \E j \in DOMAIN Tail(o.todo) : Tail(o.todo)[j] = o.todo[k]
      <4>1. CASE k = 1
          BY <2>1, <4>1, SMTT(30) DEF v
      <4>2. CASE k # 1
        <5>1. k - 1 \in DOMAIN Tail(o.todo) /\ Tail(o.todo)[k - 1] = o.todo[k]
            BY <2>1, <3>6, <4>2, SMTT(30)
        <5> QED BY <5>1
      <4> QED BY <4>1, <4>2
    <3>7. \A k \in DOMAIN o.todo :
            \/ space'[o.p][<<0, o.todo[k]>>] # None
            \/ \E j \in DOMAIN op'[c].todo : op'[c].todo[j] = o.todo[k]
        BY <3>2, <3>3, <3>5, <3>6
    <3>8. op'[c].pc # "image" /\ op[c].end = op'[c].end /\ op[c].p = op'[c].p
        BY <3>2, <3>3
    <3> QED BY <2>6, <2>9, <3>3, <3>7, <3>8, <1>quiet_step
  <2> QED BY <2>4, <2>7, <2>8, <2>9

<1>sys_spawn_step.
    ASSUME MemoryInv, SpaceEmpty, HeapGrows, Move, NEW c \in Cores, NEW img \in Images, sys_spawn(c, img)
    PROVE  SpaceEmpty' /\ HeapGrows'
  <2> USE <1>sys_spawn_step
  <2>1. PICK p \in Procs :
          /\ state[p] = "unused" /\ state' = [state EXCEPT ![p] = "reserved"]
          /\ op' = [op EXCEPT ![c] = [Op("image") EXCEPT !.p = p, !.segs = Work(img)]]
      BY DEF sys_spawn
  <2> DEFINE o == [Op("image") EXCEPT !.p = p, !.segs = Work(img)]
  <2>2. o.end = None /\ o.p = p
      BY DEF Op
  <2> HIDE DEF o
  <2>3. op'[c] = o /\ \A d \in Cores \ {c} : op'[d] = op[d]
      BY <2>1, <1>Others DEF o
  <2>4. UNCHANGED <<space, heap_end, region>>
      BY DEF sys_spawn
  <2>5. state'[p] = "reserved" /\ \A q \in Procs : q # p => state'[q] = state[q]
      BY <2>1 DEF MemoryInv, TypeOK
  <2>6. space[p] = Empty
      BY <2>1 DEF SpaceEmpty
  <2>7. SpaceEmpty'
      BY <2>2, <2>3, <2>4, <2>5, <2>6, <1>EmptyStep
  <2>8. /\ \A q \in Procs : state'[q] \in {"unused", "reserved"} => state[q] \in {"unused", "reserved"}
        /\ \A q \in Procs : Live(q)' => Live(q) \/ state[q] = "reserved"
      BY <2>1, <2>5 DEF Live
  <2>9. HeapGrows'
      BY <2>2, <2>3, <2>4, <2>8, <1>HeapStep
  <2> QED BY <2>7, <2>9

<1>new_space_step.
    ASSUME MemoryInv, SpaceEmpty, HeapGrows, Move, NEW c \in Cores, new_space(c)
    PROVE  SpaceEmpty' /\ HeapGrows'
  <2> USE <1>new_space_step
  <2> DEFINE p == op[c].p
  <2>1. op[c].pc = "image" /\ UNCHANGED <<heap_end, region>>
      BY DEF new_space
  <2>2. /\ p \in Procs /\ state[p] \in {"reserved", "running"}
        /\ \A d \in Cores \ {c} : op[d].pc = "image" => op[d].p \in Procs /\ op[d].p # p
      BY <2>1, <1>Alone, <1>Target
  <2>3. op[c].end = None
      BY <2>1 DEF MemoryInv, CallInProgress, Fits
  <2>4. CASE Allocated # None
    <3> DEFINE o == [op[c] EXCEPT !.pc = "segment"]
    <3>1. op' = [op EXCEPT ![c] = o] /\ space' = [space EXCEPT ![p][Root] = Allocated] /\ state' = state
        BY <2>4 DEF new_space
    <3>2. o.pc = "segment" /\ o.end = None
        BY <2>3 DEF MemoryInv, TypeOK, Calling
    <3> HIDE DEF o
    <3>3. op'[c] = o /\ \A d \in Cores \ {c} : op'[d] = op[d]
        BY <3>1, <1>Others
    <3>4. \A q \in Procs : q # p => space'[q] = space[q]
        BY <2>2, <3>1 DEF MemoryInv, TypeOK
    <3>5. /\ \A q \in Procs : state[q] = "unused" => space'[q] = space[q]
          /\ \A d \in Cores \ {c} : op[d].pc = "image" => space'[op[d].p] = space[op[d].p]
        BY <2>2, <3>4
    <3> QED BY <2>1, <3>1, <3>2, <3>3, <3>5, <1>quiet_step
  <2>5. CASE Allocated = None
    <3>1. state' = [state EXCEPT ![p] = "unused"] /\ Return(c) /\ space' = space
        BY <2>5 DEF new_space
    <3>2. op'[c].end = None /\ op'[c].pc # "image" /\ \A d \in Cores \ {c} : op'[d] = op[d]
        BY <3>1, <1>Returned
    <3>3. state'[p] = "unused" /\ \A q \in Procs : q # p => state'[q] = state[q]
        BY <2>2, <3>1 DEF MemoryInv, TypeOK
    <3>4. space[p] = Empty
        BY <2>1 DEF SpaceEmpty
    <3>5. SpaceEmpty'
        BY <3>1, <3>2, <3>3, <3>4, <1>EmptyStep
    <3>6. state[p] = "reserved"
      <4>1. p \in InHand(op[c])
          BY <2>1, <2>2, <2>3 DEF InHand, Builds
      <4> QED BY <2>1, <4>1 DEF MemoryInv, HandsApart, States
    <3>7. /\ \A q \in Procs : state'[q] \in {"unused", "reserved"} => state[q] \in {"unused", "reserved"}
          /\ \A q \in Procs : Live(q)' => Live(q) \/ state[q] = "reserved"
        BY <3>3, <3>6 DEF Live
    <3>8. HeapGrows'
        BY <2>1, <3>2, <3>7, <1>HeapStep
    <3> QED BY <3>5, <3>8
  <2> QED BY <2>4, <2>5

<1>load_segment_step.
    ASSUME MemoryInv, SpaceEmpty, HeapGrows, Move, NEW c \in Cores, load_segment(c)
    PROVE  SpaceEmpty' /\ HeapGrows'
  <2> USE <1>load_segment_step
  <2> DEFINE o == op[c]
             seg == Head(o.segs)
             skipped == [o EXCEPT !.segs = Tail(o.segs)]
             loading == [o EXCEPT !.segs = Tail(o.segs), !.pc = "page",
                                  !.todo = PagesOf(seg.p_vaddr, seg.p_vaddr + seg.p_memsz)]
  <2>1. o.pc = "segment" /\ o.end = None
      BY DEF load_segment, MemoryInv, CallInProgress, Fits
  <2>2. \/ op' = [op EXCEPT ![c] = skipped] /\ UNCHANGED <<space, state, heap_end, region>>
        \/ op' = [op EXCEPT ![c] = loading] /\ UNCHANGED <<space, state, heap_end, region>>
        \/ Fail(c)
      BY DEF load_segment, procVars
  <2>3. /\ skipped.pc = "segment" /\ skipped.end = None
        /\ loading.pc = "page" /\ loading.end = None
      BY <2>1 DEF MemoryInv, TypeOK, Calling
  <2> HIDE DEF skipped, loading
  <2>4. ASSUME NEW x, op' = [op EXCEPT ![c] = x], x.end = None, x.pc # "image",
               UNCHANGED <<space, state, heap_end, region>>
        PROVE  SpaceEmpty' /\ HeapGrows'
    <3>1. op'[c] = x /\ \A d \in Cores \ {c} : op'[d] = op[d]
        BY <2>4, <1>Others
    <3> QED BY <2>4, <3>1, <1>PlainStep DEF Live
  <2>5. skipped.pc # "image" /\ loading.pc # "image"
      BY <2>3
  <2> QED BY <2>2, <2>3, <2>4, <2>5, <1>fail_step

<1>segment_done_step.
    ASSUME MemoryInv, SpaceEmpty, HeapGrows, Move, NEW c \in Cores, segment_done(c)
    PROVE  SpaceEmpty' /\ HeapGrows'
  <2> USE <1>segment_done_step
  <2> DEFINE o == [op[c] EXCEPT !.pc = "segment"]
  <2>1. op' = [op EXCEPT ![c] = o] /\ UNCHANGED <<space, state, heap_end, region>> /\ op[c].end = None
      BY DEF segment_done, procVars
  <2>2. o.pc = "segment" /\ o.end = None
      BY <2>1 DEF MemoryInv, TypeOK, Calling
  <2> HIDE DEF o
  <2>3. op'[c] = o /\ \A d \in Cores \ {c} : op'[d] = op[d]
      BY <2>1, <1>Others
  <2> QED BY <2>1, <2>2, <2>3, <1>PlainStep DEF Live

<1>publish_step.
    ASSUME MemoryInv, SpaceEmpty, HeapGrows, Move, NEW c \in Cores, publish(c)
    PROVE  SpaceEmpty' /\ HeapGrows'
  <2> USE <1>publish_step
  <2> DEFINE p == op[c].p
             w == IF p = InitProc THEN "ready" ELSE "suspended"
  <2>1. /\ op[c].pc = "segment" /\ state' = [state EXCEPT ![p] = w] /\ Return(c)
        /\ UNCHANGED <<space, heap_end, region>>
      BY DEF publish
  <2>2. w \in {"ready", "suspended"}
      OBVIOUS
  <2> HIDE DEF w
  <2>3. p \in Procs /\ op[c].end = None
      BY <2>1, <1>Target
  <2>4. state[p] = "reserved"
    <3>1. p \in InHand(op[c])
        BY <2>1, <2>3 DEF InHand, Builds
    <3> QED BY <2>1, <3>1 DEF MemoryInv, HandsApart, States
  <2>5. state'[p] = w /\ \A q \in Procs : q # p => state'[q] = state[q]
      BY <2>1, <2>3 DEF MemoryInv, TypeOK
  <2>6. op'[c].end = None /\ op'[c].pc # "image" /\ \A d \in Cores \ {c} : op'[d] = op[d]
      BY <2>1, <1>Returned
  <2>7. /\ \A q \in Procs : state'[q] = "unused" => state[q] = "unused"
        /\ \A q \in Procs : state'[q] = "reserved" => state[q] = "reserved"
        /\ \A q \in Procs : Live(q)' => Live(q) \/ state[q] = "reserved"
      BY <2>2, <2>4, <2>5 DEF Live
  <2> QED BY <2>1, <2>6, <2>7, <1>PlainStep

\* The steps that enter or leave a call and change no process's state.
<1>call_step.
    ASSUME MemoryInv, SpaceEmpty, HeapGrows, Move, NEW c \in Cores,
           \/ \E t \in Procs, i, j \in CapIndex, rights \in SUBSET Rights : grant_resolve(c, t, i, j, rights)
           \/ \E t \in Procs : sys_kill(c, t)
           \/ grant_insert(c)
           \/ drop_done(c)
           \/ Return(c) /\ UNCHANGED procVars
    PROVE  SpaceEmpty' /\ HeapGrows'
  <2> USE <1>call_step
  <2>1. UNCHANGED <<space, heap_end, region, state>>
      BY DEF grant_resolve, sys_kill, grant_insert, drop_done, procVars
  <2>2. op'[c].end = None /\ op'[c].pc # "image" /\ \A d \in Cores \ {c} : op'[d] = op[d]
    <3>1. ASSUME NEW t \in Procs, NEW i \in CapIndex, NEW j \in CapIndex, NEW rights \in SUBSET Rights,
                 grant_resolve(c, t, i, j, rights)
          PROVE  op'[c].end = None /\ op'[c].pc # "image" /\ \A d \in Cores \ {c} : op'[d] = op[d]
      <4> DEFINE o == [Op("grant") EXCEPT !.p = t,
                         !.cap = [at |-> j, object |-> caps[current[c]][i].object, rights |-> rights]]
      <4>1. op' = [op EXCEPT ![c] = o] /\ o.end = None /\ o.pc = "grant"
          BY <3>1 DEF grant_resolve, Op
      <4> HIDE DEF o
      <4> QED BY <4>1, <1>Others
    <3>2. ASSUME NEW t \in Procs, sys_kill(c, t)
          PROVE  op'[c].end = None /\ op'[c].pc # "image" /\ \A d \in Cores \ {c} : op'[d] = op[d]
      <4> DEFINE o == [Op("kill") EXCEPT !.p = t]
      <4>1. op' = [op EXCEPT ![c] = o] /\ o.end = None /\ o.pc = "kill"
          BY <3>2 DEF sys_kill, Op
      <4> HIDE DEF o
      <4> QED BY <4>1, <1>Others
    <3>3. ASSUME Return(c)
          PROVE  op'[c].end = None /\ op'[c].pc # "image" /\ \A d \in Cores \ {c} : op'[d] = op[d]
        BY <3>3, <1>Returned
    <3>4. grant_insert(c) \/ drop_done(c) => Return(c)
        BY DEF grant_insert, drop_done
    <3> QED BY <3>1, <3>2, <3>3, <3>4
  <2> QED BY <2>1, <2>2, <1>PlainStep DEF Live

\* A process that is in the table stays in it.
<1>sys_process_start_step.
    ASSUME MemoryInv, SpaceEmpty, HeapGrows, Move, NEW c \in Cores, NEW t \in Procs, sys_process_start(c, t)
    PROVE  SpaceEmpty' /\ HeapGrows'
  <2> USE <1>sys_process_start_step
  <2>1. /\ op[c].pc = "user" /\ state[t] = "suspended" /\ state' = [state EXCEPT ![t] = "ready"]
        /\ UNCHANGED <<space, heap_end, region, op>>
      BY DEF sys_process_start, Calls
  <2>2. state'[t] = "ready" /\ \A q \in Procs : q # t => state'[q] = state[q]
      BY <2>1 DEF MemoryInv, TypeOK
  <2>3. op'[c].end = None /\ op'[c].pc # "image" /\ \A d \in Cores \ {c} : op'[d] = op[d]
      BY <2>1 DEF MemoryInv, CallInProgress, Fits
  <2>4. /\ \A q \in Procs : state'[q] = "unused" => state[q] = "unused"
        /\ \A q \in Procs : state'[q] = "reserved" => state[q] = "reserved"
        /\ \A q \in Procs : Live(q)' => Live(q) \/ state[q] = "reserved"
      BY <2>1, <2>2 DEF Live
  <2> QED BY <2>1, <2>3, <2>4, <1>PlainStep

<1>schedule_step.
    ASSUME MemoryInv, SpaceEmpty, HeapGrows, Move, NEW c \in Cores, dispatch(c) \/ preempt(c)
    PROVE  SpaceEmpty' /\ HeapGrows'
  <2> USE <1>schedule_step
  <2>1. UNCHANGED <<space, heap_end, region>>
      BY DEF dispatch, preempt
  <2>2. PICK pc \in {"idle", "user"} : op' = [op EXCEPT ![c] = Op(pc)]
      BY DEF dispatch, preempt
  <2>3. Op(pc).end = None /\ Op(pc).pc # "image"
      BY <2>2 DEF Op
  <2>4. op'[c].end = None /\ op'[c].pc # "image" /\ \A d \in Cores \ {c} : op'[d] = op[d]
      BY <2>2, <2>3, <1>Others
  <2>5. PICK p \in Procs, w \in {"ready", "running", "evicted"} :
          state[p] \in {"ready", "running"} /\ state' = [state EXCEPT ![p] = w]
    <3>1. CASE dispatch(c)
        BY <3>1 DEF dispatch
    <3>2. CASE preempt(c)
      <4>1. current[c] \in Procs /\ state[current[c]] = "running"
          BY <3>2 DEF preempt, Calls, MemoryInv, TypeOK, CallInProgress, Fits, CurrentRuns
      <4> QED BY <3>2, <4>1 DEF preempt
    <3> QED BY <3>1, <3>2
  <2>6. state'[p] = w /\ \A q \in Procs : q # p => state'[q] = state[q]
      BY <2>5 DEF MemoryInv, TypeOK
  <2>7. /\ \A q \in Procs : state'[q] = "unused" => state[q] = "unused"
        /\ \A q \in Procs : state'[q] = "reserved" => state[q] = "reserved"
        /\ \A q \in Procs : Live(q)' => Live(q) \/ state[q] = "reserved"
      BY <2>5, <2>6 DEF Live
  <2> QED BY <2>1, <2>4, <2>7, <1>PlainStep

<1>finalize_step.
    ASSUME MemoryInv, SpaceEmpty, HeapGrows, Move, NEW c \in Cores, exit(c) \/ kill_finish(c)
    PROVE  SpaceEmpty' /\ HeapGrows'
  <2> USE <1>finalize_step
  <2>1. ASSUME NEW p, Finalize(c, p) PROVE SpaceEmpty' /\ HeapGrows'
    <3>1. PICK order : op' = [op EXCEPT ![c] = [Op("drop") EXCEPT !.drops = order]]
        BY <2>1 DEF Finalize
    <3> DEFINE o == [Op("drop") EXCEPT !.drops = order]
    <3>2. o.end = None /\ o.pc = "drop" /\ UNCHANGED <<space, heap_end, region>>
        BY <2>1 DEF Finalize, Op
    <3> HIDE DEF o
    <3>3. op'[c].end = None /\ op'[c].pc # "image" /\ \A d \in Cores \ {c} : op'[d] = op[d]
        BY <3>1, <3>2, <1>Others DEF o
    <3>4. \A q \in Procs : state'[q] = "dead" \/ state'[q] = state[q]
        BY <2>1 DEF Finalize
    <3>5. /\ \A q \in Procs : state'[q] = "unused" => state[q] = "unused"
          /\ \A q \in Procs : state'[q] = "reserved" => state[q] = "reserved"
          /\ \A q \in Procs : Live(q)' => Live(q) \/ state[q] = "reserved"
        BY <3>4 DEF Live
    <3> QED BY <3>2, <3>3, <3>5, <1>PlainStep
  <2>2. ASSUME Return(c), UNCHANGED procVars PROVE SpaceEmpty' /\ HeapGrows'
      BY <2>2, <1>call_step
  <2> QED BY <2>1, <2>2 DEF exit, kill_finish

<1>sys_sbrk_step.
    ASSUME MemoryInv, SpaceEmpty, HeapGrows, NEW c \in Cores, NEW n \in Increments, sys_sbrk(c, n)
    PROVE  SpaceEmpty' /\ HeapGrows'
  <2> USE <1>sys_sbrk_step
  <2> DEFINE p == current[c]
             e == heap_end[p] + n
             o == [Op("page") EXCEPT !.p = p, !.end = e, !.todo = PagesOf(TopOf(heap_end[p]), TopOf(e))]
  <2>1. op' = [op EXCEPT ![c] = o] /\ UNCHANGED <<state, space, heap_end, region>> /\ op[c].pc = "user"
      BY DEF sys_sbrk, procVars, Calls
  <2>2. o.pc = "page" /\ o.p = p /\ o.end = e /\ o.todo = PagesOf(TopOf(heap_end[p]), TopOf(e))
      BY DEF Op
  <2>3. p \in Procs /\ state[p] = "running"
      BY <2>1 DEF MemoryInv, TypeOK, CallInProgress, Fits, CurrentRuns
  <2>4. heap_end[p] \in HeapEnds
      BY <2>3 DEF MemoryInv, TypeOK
  <2>5. e \in HeapEnds
    <3>1. USER_HEAP_START \in Nat /\ USER_HEAP_MAX_SIZE \in Nat /\ n \in Nat
        BY MemoryAssumption
    <3>2. e - USER_HEAP_START <= USER_HEAP_MAX_SIZE
        BY DEF sys_sbrk
    <3> QED BY <2>4, <3>1, <3>2, SMTT(30) DEF HeapEnds
  <2> HIDE DEF o, e, p
  <2>6. op'[c] = o /\ \A d \in Cores \ {c} : op'[d] = op[d]
      BY <2>1, <1>Others
  <2>7. SpaceEmpty'
      BY <2>1, <2>2, <2>6, <1>EmptyStep
  <2>8. /\ \A q \in Procs : state'[q] \in {"unused", "reserved"} => heap_end'[q] = USER_HEAP_START /\ region'[q] = 0
        /\ \A q \in Procs : Live(q)' =>
             /\ region'[q] = heap_end'[q] - USER_HEAP_START
             /\ \A v \in HeapPages(heap_end'[q]) : space'[q][<<0, v>>] # None
      BY <2>1 DEF HeapGrows, Live, Unbacked
  <2>9. ASSUME NEW v \in HeapPages(e), space[p][<<0, v>>] = None
        PROVE  \E k \in DOMAIN o.todo : o.todo[k] = v
    <3>1. Unbacked(p, heap_end[p]) = {}
        BY <2>3 DEF HeapGrows, Live
    <3>2. v \notin HeapPages(heap_end[p])
        BY <2>9, <3>1 DEF Unbacked
    <3> QED BY <2>2, <2>4, <2>5, <3>2, SbrkPagesLemma
  <2>10. ASSUME NEW d \in Cores, op'[d].end # None, NEW v \in HeapPages(op'[d].end),
                space'[op'[d].p][<<0, v>>] = None
         PROVE  \E k \in DOMAIN op'[d].todo : op'[d].todo[k] = v
    <3>1. CASE d = c
        BY <2>1, <2>2, <2>6, <2>9, <2>10, <3>1
    <3>2. CASE d # c
      <4>1. op'[d] = op[d] /\ space' = space
          BY <2>1, <2>6, <3>2
      <4>2. op[d].end # None /\ v \in Unbacked(op[d].p, op[d].end)
          BY <2>10, <4>1 DEF Unbacked
      <4>3. \E k \in DOMAIN op[d].todo : op[d].todo[k] = v
          BY <4>2 DEF HeapGrows
      <4> QED BY <4>1, <4>3
    <3> QED BY <3>1, <3>2
  <2>11. HeapGrows'
      BY <2>8, <2>10, HeapGrowsLemma
  <2> QED BY <2>7, <2>11

<1>sbrk_done_step.
    ASSUME MemoryInv, SpaceEmpty, HeapGrows, NEW c \in Cores, sbrk_done(c)
    PROVE  SpaceEmpty' /\ HeapGrows'
  <2> USE <1>sbrk_done_step
  <2> DEFINE o == op[c]
             p == o.p
             e == o.end
  <2>1. /\ o.todo = <<>> /\ o.end # None
        /\ heap_end' = [heap_end EXCEPT ![p] = e]
        /\ region' = [region EXCEPT ![p] = region[p] + (e - heap_end[p])]
        /\ Return(c) /\ UNCHANGED <<state, space>>
      BY DEF sbrk_done
  <2>2. p \in Procs /\ state[p] = "running" /\ e \in HeapEnds
      BY <2>1, <1>SbrkRuns
  <2>3. op'[c].end = None /\ op'[c].pc # "image" /\ \A d \in Cores \ {c} : op'[d] = op[d]
      BY <2>1, <1>Returned
  <2>4. Unbacked(p, e) = {}
    <3>1. DOMAIN o.todo = {}
        BY <2>1, SMTT(30)
    <3> QED BY <2>1, <3>1 DEF HeapGrows
  <2>5. region[p] = heap_end[p] - USER_HEAP_START
      BY <2>2 DEF HeapGrows, Live
  <2> HIDE DEF o, p, e
  <2>6. /\ heap_end'[p] = e /\ region'[p] = region[p] + (e - heap_end[p])
        /\ \A q \in Procs : q # p => heap_end'[q] = heap_end[q] /\ region'[q] = region[q]
      BY <2>1, <2>2 DEF MemoryInv, TypeOK
  <2>7. region'[p] = e - USER_HEAP_START
    <3>1. e \in Int /\ heap_end[p] \in Int /\ USER_HEAP_START \in Int
      <4>1. heap_end[p] \in HeapEnds /\ USER_HEAP_START \in Int
          BY <2>2, MemoryAssumption, SMTT(30) DEF MemoryInv, TypeOK
      <4> QED BY <2>2, <4>1, SMTT(30) DEF HeapEnds
    <3> QED BY <2>5, <2>6, <3>1, SMTT(30)
  <2>8. SpaceEmpty'
      BY <2>1, <2>3, <1>EmptyStep
  <2>9. \A q \in Procs : state'[q] \in {"unused", "reserved"} => heap_end'[q] = USER_HEAP_START /\ region'[q] = 0
      BY <2>1, <2>2, <2>6 DEF HeapGrows
  <2>10. ASSUME NEW q \in Procs, Live(q)'
         PROVE  /\ region'[q] = heap_end'[q] - USER_HEAP_START
                /\ \A v \in HeapPages(heap_end'[q]) : space'[q][<<0, v>>] # None
    <3>1. CASE q = p
        BY <2>1, <2>4, <2>6, <2>7, <3>1 DEF Unbacked
    <3>2. CASE q # p
      <4>1. Live(q)
          BY <2>1, <2>10 DEF Live
      <4>2. region[q] = heap_end[q] - USER_HEAP_START /\ Unbacked(q, heap_end[q]) = {}
          BY <4>1 DEF HeapGrows
      <4> QED BY <2>1, <2>6, <3>2, <4>2 DEF Unbacked
    <3> QED BY <3>1, <3>2
  <2>11. ASSUME NEW d \in Cores, op'[d].end # None, NEW v \in HeapPages(op'[d].end),
                space'[op'[d].p][<<0, v>>] = None
         PROVE  \E k \in DOMAIN op'[d].todo : op'[d].todo[k] = v
    <3>1. d # c /\ op'[d] = op[d] /\ space' = space
        BY <2>1, <2>3, <2>11
    <3>2. op[d].end # None /\ v \in Unbacked(op[d].p, op[d].end)
        BY <2>11, <3>1 DEF Unbacked
    <3>3. \E k \in DOMAIN op[d].todo : op[d].todo[k] = v
        BY <3>2 DEF HeapGrows
    <3> QED BY <3>1, <3>3
  <2>12. HeapGrows'
      BY <2>9, <2>10, <2>11, HeapGrowsLemma
  <2> QED BY <2>8, <2>12

<1>drop_frame_step.
    ASSUME MemoryInv, SpaceEmpty, HeapGrows, Move, NEW c \in Cores, drop_frame(c)
    PROVE  SpaceEmpty' /\ HeapGrows'
  <2> USE <1>drop_frame_step
  <2> DEFINE p == Head(op[c].drops)
             n == NextFreed(space[p])
  <2>1. /\ op[c].pc = "drop" /\ op[c].drops # <<>> /\ space[p] # Empty
        /\ space' = [space EXCEPT ![p][n] = None] /\ UNCHANGED <<state, heap_end, region, op>>
      BY DEF drop_frame
  <2>2. op[c].drops \in Seq(Procs)
      BY DEF MemoryInv, TypeOK, Calling
  <2>3. p \in Procs
      BY <2>1, <2>2, SMTT(30)
  <2> HIDE DEF p, n
  <2>4. \A q \in Procs : q # p => space'[q] = space[q]
      BY <2>1, <2>3 DEF MemoryInv, TypeOK
  <2>5. \A d \in Cores : op[d].pc = "image" => op[d].p \in Procs
      BY <1>Target
  <2>6. /\ \A q \in Procs : state[q] = "unused" => space'[q] = space[q]
        /\ \A d \in Cores \ {c} : op[d].pc = "image" => space'[op[d].p] = space[op[d].p]
      BY <2>1, <2>4, <2>5 DEF SpaceEmpty
  <2>7. op'[c] = op[c] /\ op'[c].pc # "image" /\ op'[c].end = None /\ \A d \in Cores \ {c} : op'[d] = op[d]
      BY <2>1 DEF MemoryInv, CallInProgress, Fits
  <2> QED BY <2>1, <2>6, <2>7, <1>quiet_step

<1>drop_next_step.
    ASSUME MemoryInv, SpaceEmpty, HeapGrows, NEW c \in Cores, drop_next(c)
    PROVE  SpaceEmpty' /\ HeapGrows'
  <2> USE <1>drop_next_step
  <2> DEFINE p == Head(op[c].drops)
             o == [op[c] EXCEPT !.drops = Tail(@)]
  <2>1. /\ op[c].pc = "drop" /\ op[c].drops # <<>> /\ space[p] = Empty
        /\ state' = [state EXCEPT ![p] = "unused"]
        /\ heap_end' = [heap_end EXCEPT ![p] = USER_HEAP_START]
        /\ region' = [region EXCEPT ![p] = 0]
        /\ op' = [op EXCEPT ![c] = o] /\ space' = space
      BY DEF drop_next
  <2>2. op[c].drops \in Seq(Procs)
      BY DEF MemoryInv, TypeOK, Calling
  <2>3. p \in Procs
      BY <2>1, <2>2, SMTT(30)
  <2>4. o.pc = "drop" /\ o.end = None
    <3>1. op[c].end = None
        BY <2>1 DEF MemoryInv, CallInProgress, Fits
    <3>2. op[c] \in Calling
        BY DEF MemoryInv, TypeOK
    <3>3. o.pc = op[c].pc /\ o.end = op[c].end
        BY <3>2 DEF Calling
    <3> QED BY <2>1, <3>1, <3>3
  <2> HIDE DEF p, o
  <2>5. op'[c] = o /\ \A d \in Cores \ {c} : op'[d] = op[d]
      BY <2>1, <1>Others
  <2>6. /\ state'[p] = "unused" /\ heap_end'[p] = USER_HEAP_START /\ region'[p] = 0
        /\ \A q \in Procs : q # p => state'[q] = state[q] /\ heap_end'[q] = heap_end[q] /\ region'[q] = region[q]
      BY <2>1, <2>3 DEF MemoryInv, TypeOK
  <2>7. SpaceEmpty'
    <3>1. \A q \in Procs : state'[q] = "unused" => state[q] = "unused" \/ space'[q] = Empty
        BY <2>1, <2>6
    <3>2. op'[c].pc # "image"
        BY <2>4, <2>5
    <3> QED BY <2>1, <2>5, <3>1, <3>2, <1>EmptyStep
  <2>8. \A q \in Procs : state'[q] \in {"unused", "reserved"} => heap_end'[q] = USER_HEAP_START /\ region'[q] = 0
      BY <2>6 DEF HeapGrows
  <2>9. ASSUME NEW q \in Procs, Live(q)'
        PROVE  /\ region'[q] = heap_end'[q] - USER_HEAP_START
               /\ \A v \in HeapPages(heap_end'[q]) : space'[q][<<0, v>>] # None
    <3>1. q # p /\ Live(q)
        BY <2>6, <2>9 DEF Live
    <3>2. region[q] = heap_end[q] - USER_HEAP_START /\ Unbacked(q, heap_end[q]) = {}
        BY <3>1 DEF HeapGrows
    <3> QED BY <2>1, <2>6, <3>1, <3>2 DEF Unbacked
  <2>10. ASSUME NEW d \in Cores, op'[d].end # None, NEW v \in HeapPages(op'[d].end),
                space'[op'[d].p][<<0, v>>] = None
         PROVE  \E k \in DOMAIN op'[d].todo : op'[d].todo[k] = v
    <3>1. d # c /\ op'[d] = op[d] /\ space' = space
        BY <2>1, <2>4, <2>5, <2>10
    <3>2. op[d].end # None /\ v \in Unbacked(op[d].p, op[d].end)
        BY <2>10, <3>1 DEF Unbacked
    <3>3. \E k \in DOMAIN op[d].todo : op[d].todo[k] = v
        BY <3>2 DEF HeapGrows
    <3> QED BY <3>1, <3>3
  <2>11. HeapGrows'
      BY <2>8, <2>9, <2>10, HeapGrowsLemma
  <2> QED BY <2>7, <2>11

<1> SUFFICES ASSUME MemoryInv, SpaceEmpty, HeapGrows, Move, Next
             PROVE  SpaceEmpty' /\ HeapGrows'
    BY ZenonT(30)
<1>1. PICK c \in Cores :
        \/ allocate_page(c) \/ map_to(c)
        \/ (\E img \in Images : sys_spawn(c, img))
        \/ new_space(c) \/ load_segment(c) \/ segment_done(c) \/ publish(c)
        \/ (\E t \in Procs, i, j \in CapIndex, rights \in SUBSET Rights :
              grant_resolve(c, t, i, j, rights))
        \/ grant_insert(c)
        \/ (\E t \in Procs : sys_process_start(c, t) \/ sys_kill(c, t))
        \/ (\E n \in Increments : sys_sbrk(c, n))
        \/ sbrk_done(c) \/ dispatch(c) \/ preempt(c) \/ exit(c) \/ kill_finish(c)
        \/ drop_frame(c) \/ drop_next(c) \/ drop_done(c)
    BY DEF Next
<1>2. CASE allocate_page(c) \/ map_to(c) \/ new_space(c)
    BY <1>2, <1>allocate_page_step, <1>map_to_step, <1>new_space_step
<1>3. CASE \E img \in Images : sys_spawn(c, img)
    BY <1>3, <1>sys_spawn_step
<1>4. CASE load_segment(c) \/ segment_done(c) \/ publish(c)
    BY <1>4, <1>load_segment_step, <1>segment_done_step, <1>publish_step
<1>5. CASE \/ \E t \in Procs, i, j \in CapIndex, rights \in SUBSET Rights : grant_resolve(c, t, i, j, rights)
           \/ \E t \in Procs : sys_kill(c, t)
           \/ grant_insert(c)
           \/ drop_done(c)
    BY <1>5, <1>call_step
<1>6. CASE \E t \in Procs : sys_process_start(c, t)
    BY <1>6, <1>sys_process_start_step
<1>7. CASE \E n \in Increments : sys_sbrk(c, n)
    BY <1>7, <1>sys_sbrk_step
<1>8. CASE sbrk_done(c) \/ dispatch(c) \/ preempt(c)
    BY <1>8, <1>sbrk_done_step, <1>schedule_step
<1>9. CASE exit(c) \/ kill_finish(c)
    BY <1>9, <1>finalize_step
<1>10. CASE drop_frame(c) \/ drop_next(c)
    BY <1>10, <1>drop_frame_step, <1>drop_next_step
<1> QED BY <1>1, <1>2, <1>3, <1>4, <1>5, <1>6, <1>7, <1>8, <1>9, <1>10

\* A step that changes nothing.
LEMMA SpaceStutter ==
    ASSUME SpaceInv, Ledger, TablesOutliveEntries, UNCHANGED vars
    PROVE  SpaceInv' /\ Ledger' /\ TablesOutliveEntries'
<1>1. UNCHANGED <<bitmap, usable, state, space, heap_end, region, op, lost>>
    BY DEF vars, frameVars, procVars
<1>2. MemoryInv'
    BY StutterStep DEF SpaceInv
<1>3. SpaceEmpty'
    BY <1>1 DEF SpaceInv, SpaceEmpty
<1>4. HeapGrows'
    BY <1>1 DEF SpaceInv, HeapGrows, Unbacked, Live
<1>5. Ledger'
    BY <1>1 DEF Ledger, OneOwner, Mapped, Held
<1>6. TablesOutliveEntries'
    BY <1>1 DEF TablesOutliveEntries
<1> QED BY <1>1, <1>2, <1>3, <1>4, <1>5, <1>6 DEF SpaceInv

\* At boot every usable frame is in the bitmap, no page is mapped and no heap has grown.
LEMMA SpaceInit ==
    ASSUME Init
    PROVE  SpaceInv /\ Ledger /\ TablesOutliveEntries
<1>1. MemoryInv
    BY InitStep
<1>2. /\ bitmap = Populated /\ usable = Populated /\ lost = {}
      /\ space = [p \in Procs |-> Empty] /\ heap_end = [p \in Procs |-> USER_HEAP_START]
      /\ region = [p \in Procs |-> 0]
      /\ state = [p \in Procs |-> IF p = InitProc THEN "reserved" ELSE "unused"]
    BY DEF Init, FramesInit
<1>3. \A p \in Procs : /\ space[p] = Empty /\ heap_end[p] = USER_HEAP_START /\ region[p] = 0
                       /\ state[p] \in {"reserved", "unused"}
    BY <1>2
<1>4. \A p \in Procs, n \in Nodes : space[p][n] = None
    BY <1>3 DEF Empty
<1>5. ASSUME NEW c \in Cores
      PROVE  op[c].frame = None /\ op[c].end = None /\ (op[c].pc = "image" => op[c].p \in Procs)
  <2>1. PICK img \in Images :
          op = [d \in Cores |-> IF d = Bsp
                                THEN [Op("image") EXCEPT !.p = InitProc, !.segs = Work(img)]
                                ELSE Op("idle")]
      BY DEF Init
  <2> DEFINE o == [Op("image") EXCEPT !.p = InitProc, !.segs = Work(img)]
  <2>2. o.frame = None /\ o.end = None /\ o.p \in Procs
      BY ProcsLemma DEF Op
  <2>3. Op("idle").frame = None /\ Op("idle").end = None /\ Op("idle").pc = "idle"
      BY DEF Op
  <2> HIDE DEF o
  <2>4. op[c] = o \/ op[c] = Op("idle")
      BY <2>1 DEF o
  <2> QED BY <2>2, <2>3, <2>4
<1>6. SpaceEmpty
    BY <1>3, <1>5 DEF SpaceEmpty
<1>7. HeapGrows
    BY <1>3, <1>5 DEF HeapGrows, Live
<1>8. Ledger
  <2> SUFFICES ASSUME NEW f \in Frames PROVE OneOwner(f)
      BY DEF Ledger
  <2>1. f # None
      BY ProcsLemma
  <2>2. ~Mapped(f) /\ ~Held(f)
      BY <1>4, <1>5, <2>1 DEF Mapped, Held
  <2> QED BY <1>2, <2>2 DEF OneOwner, Mapped, Held
<1>9. TablesOutliveEntries
    BY <1>4 DEF TablesOutliveEntries
<1> QED BY <1>1, <1>2, <1>6, <1>7, <1>8, <1>9 DEF SpaceInv

\* A product grows with its factors.
LEMMA ScaleLemma ==
    ASSUME NEW s \in Nat, NEW x \in Int, NEW y \in Int, x <= y
    PROVE  s * x <= s * y
    BY SMTT(30)

\* A frame that populate frees lies inside one usable region of the firmware's map.
LEMMA PopulatedLemma ==
    ASSUME NEW f \in Populated
    PROVE  \E e \in MemoryMap :
             e.usable /\ e.base <= f * FrameSize /\ (f + 1) * FrameSize <= e.base + e.length
<1>1. PICK e \in MemoryMap : e.usable /\ f \in usable_frame_range(e.base, e.length)
    BY DEF Populated
<1>2. FrameSize \in Nat \ {0} /\ e.base \in Nat /\ e.length \in Nat
  <2>1. e \in [base : Nat, length : Nat, usable : BOOLEAN] /\ FrameSize \in Nat \ {0}
      BY FrameAssumption
  <2> QED BY <2>1
<1> DEFINE b == e.base
           t == e.base + e.length
           lo == (b + FrameSize - 1) \div FrameSize
           hi == t \div FrameSize
<1>3. b \in Nat /\ t \in Int /\ b + FrameSize - 1 \in Int
    BY <1>2, SMTT(30)
<1>4. lo \in Int /\ b + FrameSize - 1 < FrameSize * lo + FrameSize
  <2> DEFINE a == b + FrameSize - 1
  <2>1. a \in Int /\ lo = a \div FrameSize
      BY <1>3
  <2> HIDE DEF a, lo
  <2>2. lo \in Int /\ a < FrameSize * lo + FrameSize
      BY <1>2, <2>1, DivLemma, ZenonT(30)
  <2> QED BY <2>2 DEF a
<1>5. hi \in Int /\ FrameSize * hi <= t
    BY <1>2, <1>3, DivLemma, ZenonT(30)
<1>6. f \in lo..(hi - 1)
    BY <1>1 DEF usable_frame_range, div_ceil
<1> HIDE DEF lo, hi
<1>7. f \in Int /\ lo <= f /\ f + 1 <= hi
    BY <1>4, <1>5, <1>6, SMTT(30)
<1>8. FrameSize * lo <= FrameSize * f /\ FrameSize * (f + 1) <= FrameSize * hi
  <2>1. FrameSize \in Nat /\ f + 1 \in Int
      BY <1>2, <1>7, SMTT(30)
  <2> QED BY <1>4, <1>5, <1>7, <2>1, ScaleLemma
<1>9. b <= FrameSize * lo
    BY <1>2, <1>3, <1>4, SMTT(30)
<1>10. b <= f * FrameSize /\ (f + 1) * FrameSize <= t
    BY <1>2, <1>3, <1>4, <1>5, <1>7, <1>8, <1>9, SMTT(30)
<1> QED BY <1>1, <1>10

\* The set of a frame's owners has as many members as the ledger says.
LEMMA OwnersLemma ==
    ASSUME NEW f, OneOwner(f)
    PROVE  /\ f \in usable => Cardinality(Owners(f)) = IF f \in lost THEN 0 ELSE 1
           /\ f \notin usable => Owners(f) = {}
<1> DEFINE entries == {x \in Procs \X Nodes : space[x[1]][x[2]] = f}
           hands == {<<c>> : c \in {d \in Cores : op[d].frame = f}}
           free == IF f \in bitmap THEN {<<>>} ELSE {}
<1>1. Owners(f) = entries \union hands \union free
    BY DEF Owners
<1>2. ~Mapped(f) => entries = {}
  <2>1. \A x \in Procs \X Nodes : x[1] \in Procs /\ x[2] \in Nodes
      OBVIOUS
  <2> QED BY <2>1 DEF Mapped
<1>3. ~Held(f) => hands = {}
    BY DEF Held
<1>4. CASE ~Mapped(f) /\ ~Held(f) /\ f \notin bitmap
  <2>1. Owners(f) = {}
      BY <1>1, <1>2, <1>3, <1>4
  <2>2. f \in usable => f \in lost
      BY <1>4 DEF OneOwner
  <2> QED BY <2>1, <2>2, FS_EmptySet
<1>5. CASE Mapped(f) \/ Held(f) \/ f \in bitmap
  <2>1. f \in usable /\ f \notin lost
      BY <1>5 DEF OneOwner
  <2>2. CASE Mapped(f)
    <3>1. PICK p \in Procs, n \in Nodes : space[p][n] = f
        BY <2>2 DEF Mapped
    <3>2. ~Held(f) /\ f \notin bitmap
        BY <2>2 DEF OneOwner
    <3>3. \A q \in Procs, m \in Nodes : space[q][m] = f => q = p /\ m = n
        BY <3>1 DEF OneOwner
    <3>4. ASSUME NEW x \in Procs \X Nodes, space[x[1]][x[2]] = f PROVE x = <<p, n>>
      <4>1. x[1] \in Procs /\ x[2] \in Nodes /\ x = <<x[1], x[2]>>
          OBVIOUS
      <4> QED BY <3>3, <3>4, <4>1
    <3>5. <<p, n>> \in entries
        BY <3>1
    <3>6. entries = {<<p, n>>}
        BY <3>4, <3>5
    <3>7. Owners(f) = {<<p, n>>}
        BY <1>1, <1>3, <3>2, <3>6
    <3> QED BY <2>1, <3>7, FS_Singleton
  <2>3. CASE Held(f)
    <3>1. PICK c \in Cores : op[c].frame = f
        BY <2>3 DEF Held
    <3>2. ~Mapped(f) /\ f \notin bitmap
        BY <2>3 DEF OneOwner
    <3>3. \A d \in Cores : op[d].frame = f => d = c
        BY <3>1 DEF OneOwner
    <3>4. hands = {<<c>>}
        BY <3>1, <3>3
    <3>5. Owners(f) = {<<c>>}
        BY <1>1, <1>2, <3>2, <3>4
    <3> QED BY <2>1, <3>5, FS_Singleton
  <2>4. CASE f \in bitmap
    <3>1. ~Mapped(f) /\ ~Held(f)
        BY <2>4 DEF OneOwner
    <3>2. Owners(f) = {<<>>}
        BY <1>1, <1>2, <1>3, <2>4, <3>1
    <3> QED BY <2>1, <3>2, FS_Singleton
  <2> QED BY <1>5, <2>2, <2>3, <2>4
<1> QED BY <1>4, <1>5

\* The three invariants, from what the steps keep.
LEMMA AccountsLemma ==
    ASSUME SpaceInv, Ledger
    PROVE  FramesAccounted
<1>1. TypeOK /\ usable = Populated /\ usable \subseteq Frames
    BY DEF SpaceInv, MemoryInv, TypeOK
<1>2. \A f \in Frames : OneOwner(f)
    BY DEF Ledger
<1>3. \A f \in usable : Cardinality(Owners(f)) = IF f \in lost THEN 0 ELSE 1
    BY <1>1, <1>2, OwnersLemma
<1>4. \A f \in Frames \ usable : Owners(f) = {}
    BY <1>2, OwnersLemma
<1>5. \A f \in usable : \E e \in MemoryMap :
        e.usable /\ e.base <= f * FrameSize /\ (f + 1) * FrameSize <= e.base + e.length
    BY <1>1, PopulatedLemma
<1> QED BY <1>1, <1>3, <1>4, <1>5 DEF FramesAccounted

\* A process has no address space before its PML4, a heap has every page below its
\* break unless the sys_sbrk that raises it still lists the page, and no step changes
\* what memory is usable: SpaceInv holds in every reachable state, and with it the
\* ledger of frames and the order of page tables, for any number of cores, processes,
\* frames and table levels.
THEOREM SpaceInvariance == Spec => [](SpaceInv /\ Ledger /\ TablesOutliveEntries)
<1> DEFINE Inv == SpaceInv /\ Ledger /\ TablesOutliveEntries
<1>1. Init => Inv
    BY SpaceInit
<1>2. Inv /\ Next => Inv'
  <2> SUFFICES ASSUME SpaceInv, Ledger, TablesOutliveEntries, Next PROVE Inv'
      OBVIOUS
  <2>1. MemoryInv /\ SpaceEmpty /\ HeapGrows /\ TypeOK /\ usable = Populated
      BY DEF SpaceInv, MemoryInv
  <2>2. Move
      BY <2>1, MoveStep
  <2>3. SpaceEmpty' /\ HeapGrows'
      BY <2>1, <2>2, SpaceStep
  <2>4. MemoryInv'
      BY <2>1, NextStep
  <2>5. usable' = usable
      BY <2>2 DEF Move
  <2>6. Populated' = Populated
      BY DEF Populated, Frames, CAPACITY, usable_frame_range, div_ceil
  <2>7. Ledger' /\ TablesOutliveEntries'
      BY <2>1, <2>2, LedgerStep, TablesStep
  <2> QED BY <2>1, <2>3, <2>4, <2>5, <2>6, <2>7 DEF SpaceInv
<1>3. Inv /\ UNCHANGED vars => Inv'
    BY SpaceStutter
<1>4. Inv /\ [Next]_vars => Inv'
    BY <1>2, <1>3
<1> QED BY <1>1, <1>4, PTL DEF Spec

\* Every usable frame has exactly one owner, except the lost ones, which have none:
\* no frame is mapped twice, freed twice or freed while mapped, whatever spawns, sbrks,
\* kills and exits run on however many cores.
THEOREM FrameSafety == Spec => []FramesAccounted
<1>1. SpaceInv /\ Ledger => FramesAccounted
    BY AccountsLemma
<1> QED BY <1>1, SpaceInvariance, PTL

\* No walk of a page table, by map_to or by the Drop of an address space, reads a table
\* that has gone back to the allocator.
THEOREM WalkSafety == Spec => []TablesOutliveEntries
BY SpaceInvariance, PTL

\* Every byte below a live process's break is mapped, after any mix of grown, failed and
\* repeated sbrk calls, and the runtime's heap agrees with the break.
THEOREM HeapSafety == Spec => []HeapBacked
<1>1. SpaceInv => HeapBacked
    BY HeapBackedLemma DEF SpaceInv, MemoryInv
<1> QED BY <1>1, SpaceInvariance, PTL
=============================================================================
