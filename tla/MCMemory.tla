------------------------------ MODULE MCMemory ------------------------------
(* Instances of Memory for TLC.                                            *)
EXTENDS Memory

CONSTANTS endpoint, send, recv, bsp, ap

Load(from, size, filesz, file_end, len) ==
    [kind |-> "load", p_vaddr |-> from, p_memsz |-> size, p_filesz |-> filesz,
     file_end |-> file_end, len |-> len]
Image(segs) == [ok |-> TRUE, loads |-> FALSE, segs |-> segs]

\* One page of code and a note; two segments that meet in one page; a segment that
\* ends in the heap, after one that loads.
Program == [Image(<<Load(2, 2, 1, 1, 1), [Load(0, 0, 0, 0, 1) EXCEPT !.kind = "note"]>>) EXCEPT !.loads = TRUE]
SharedPage == Image(<<Load(2, 1, 1, 1, 1), Load(3, 1, 0, 0, 1)>>)
IntoHeap == Image(<<Load(2, 2, 2, 2, 2), Load(3, 2, 0, 0, 2)>>)

MCImages == {Program, SharedPage, IntoHeap}

\* Bytes 1..(2n) are usable with n whole frames but for half a frame at either end; the
\* last region is beyond the bitmap.
MCMemoryMap == {[base |-> 1, length |-> 30, usable |-> TRUE],
                [base |-> 31, length |-> 2, usable |-> FALSE],
                [base |-> 40, length |-> 4, usable |-> TRUE]}

MCBootCaps == [i \in CapIndex |-> [object |-> endpoint, rights |-> {send}]]
=============================================================================
