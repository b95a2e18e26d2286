--------------------------- MODULE FrameAllocator ---------------------------
(***************************************************************************)
(* The physical frame allocator: libs/tarnos-kcore/src/bitmap.rs under     *)
(* kernel/src/memory/phys.rs. ALLOCATOR is locked for one operation, so an *)
(* allocation or a release is one step. A bitmap is the set of its one     *)
(* bits.                                                                   *)
(***************************************************************************)
EXTENDS Integers, FiniteSets

CONSTANTS
    None,
    WordBits,     \* 64
    BITMAP_WORDS,
    FrameSize,    \* FRAME_SIZE, in the units of MemoryMap
    MemoryMap     \* Limine's entries: a set of [base, length, usable]

ASSUME FrameAssumption ==
    /\ WordBits \in Nat \ {0}
    /\ BITMAP_WORDS \in Nat
    /\ FrameSize \in Nat \ {0}
    /\ MemoryMap \subseteq [base : Nat, length : Nat, usable : BOOLEAN]
    /\ None \notin Nat

VARIABLES
    bitmap,        \* free frames
    frame_count,   \* one above the highest frame ever freed
    usable         \* frames populate was given

frameVars == <<bitmap, frame_count, usable>>

CAPACITY == WordBits * BITMAP_WORDS

Frames == 0..(CAPACITY - 1)

div_ceil(a, b) == (a + b - 1) \div b

usable_frame_range(base, length) ==
    div_ceil(base, FrameSize)..((base + length) \div FrameSize - 1)

\* populate on the empty bitmaps: set_free drops an index beyond CAPACITY.
Populated ==
    Frames \cap UNION {usable_frame_range(e.base, e.length) : e \in {m \in MemoryMap : m.usable}}

FramesInit ==
    /\ bitmap = Populated
    /\ usable = Populated
    /\ frame_count = IF Populated = {} THEN 0
                     ELSE 1 + CHOOSE i \in Populated : \A j \in Populated : j <= i

\* The bits of the words that allocate scans.
Scanned == {i \in bitmap : i \div WordBits < div_ceil(frame_count, WordBits)}

\* What allocate_frame returns: the lowest of them.
Allocated == IF Scanned = {} THEN None
             ELSE CHOOSE i \in Scanned : \A j \in Scanned : i <= j

\* Mutant of allocate_frame: the bit stays set.
AllocateKeepsBit == UNCHANGED frameVars

allocate_frame ==
    /\ bitmap' = bitmap \ {Allocated}
    /\ UNCHANGED <<frame_count, usable>>

\* set_free. That the debug assertions before it never fire is an invariant of the
\* callers (Memory's FramesAccounted).
deallocate_frame(f) ==
    /\ bitmap' = bitmap \union {f}
    /\ frame_count' = IF f >= frame_count THEN f + 1 ELSE frame_count
    /\ UNCHANGED usable
=============================================================================
