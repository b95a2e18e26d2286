----------------------------- MODULE MCStorage -----------------------------
(***************************************************************************)
(* Storage on small disks. A byte has two binary digits and a FAT entry    *)
(* three, so entries run from 0 to 7: 6 is the bad-cluster mark, 7 ends a  *)
(* chain. Sectors and pages have 4 bytes, the bounce buffer 2 sectors.     *)
(***************************************************************************)
EXTENDS Storage

MCUpper == [a |-> "A", b |-> "B"]
\* Pages 0 to 2 are the process's, 4 is the non-canonical hole, 5 belongs to the kernel.
MCUnmapped == {3, 5}
MCNonCanonical == {4}

\* Packs FAT entries the way a disk holds them, two entries in three bytes, into
\* sectors that start at `start`.
Packed(entries, start, sectors) ==
    LET E(n) == IF n \in DOMAIN entries THEN entries[n] ELSE 0
        Byte(k) == LET p == k \div 3
                   IN  CASE k % 3 = 0 -> E(2 * p) % 4
                         [] k % 3 = 1 -> E(2 * p) \div 4 + 2 * (E(2 * p + 1) % 2)
                         [] OTHER     -> E(2 * p + 1) \div 2
    IN  [s \in start..start + sectors - 1 |-> [k \in 1..4 |-> Byte((s - start) * 4 + k - 1)]]

File(name, first, size) == [kind |-> "file", name |-> name, first |-> first, size |-> size]
Slot(kind, name) == [kind |-> kind, name |-> name, first |-> 5, size |-> 4]
A == <<"A", " ", " ">>
B == <<"B", " ", "A">>

Block(cap, lba, count, ptr) == [kind |-> "block", cap |-> cap, lba |-> lba, count |-> count, ptr |-> ptr]
Read(cap, name, ptr, len) == [kind |-> "file", cap |-> cap, name |-> name, ptr |-> ptr, len |-> len]
ReadA == Read("fs", <<"a">>, 2, 8)

Boot == [signature |-> TRUE, bytes_per_sector |-> 4, sectors_per_cluster |-> 1, reserved |-> 1,
         num_fats |-> 1, root_entries |-> 4, total_16 |-> 10, fat_size |-> 3, total_32 |-> 0]
Disk == [virtio_blk |-> TRUE, multi |-> FALSE, caps |-> {"common", "notify", "device"},
         version_1 |-> TRUE, accepts |-> TRUE, queue_max |-> 8]
Bridge == [Disk EXCEPT !.virtio_blk = FALSE, !.caps = {}]

\* A volume with the boot sector b, the FAT entries and the directory given.
Volume(b, entries, first, second) ==
    LET rootStart == b.reserved + b.num_fats * b.fat_size
    IN  [pci |-> (<<0, 0>> :> Bridge) @@ (<<1, 0>> :> Disk), capacity |-> 10, boot |-> b,
         entries |-> entries, fat |-> Packed(entries, b.reserved, b.fat_size),
         dir |-> (rootStart :> first) @@ (rootStart + 1 :> second), calls |-> {ReadA}, callers |-> {Bsp}]

Fat(a, b, c, d) == (0 :> 7) @@ (1 :> 7) @@ (2 :> a) @@ (3 :> b) @@ (4 :> c) @@ (5 :> d)
One(entries) == Volume(Boot, entries, <<File(A, 2, 7), Slot("free", A)>>, <<Slot("free", A), Slot("free", A)>>)

\* Two interleaved chains, 2-4 and 3-5, and entries a lookup must pass over.
Good == [Volume(Boot, Fat(4, 5, 7, 7),
                <<Slot("label", A), Slot("deleted", A)>>, <<File(A, 2, 7), File(B, 3, 8)>>)
         EXCEPT !.callers = Cores,
                !.calls = {ReadA, Read("fs", <<"b", ".", "a">>, 4, 3), Block("block", 8, 2, 3)}]

\* Every argument a call may be refused for.
Arguments == [One(Fat(3, 7, 0, 0)) EXCEPT !.calls =
    {Read("fs", <<"a", "b", "b">>, 0, 4), Read("fs", <<"b">>, 0, 4), Read("fs", <<"a">>, 10, 4),
     Read("fs", <<"a">>, U64_MAX - 1, 8), Read("none", <<"a">>, 0, 4), Read("fs", <<"a">>, 9, 0),
     Block("block", 9, 2, 0), Block("block", U64_MAX, 1, 0), Block("block", 0, 0, 0),
     Block("block", 0, 3, 0), Block("fs", 0, 1, 0), Block("block", 0, 1, 9), Block("block", 0, 1, 8),
     Read("fs", <<"a">>, 11, 8), Read("fs", <<"a">>, 17, 4), Block("block", 0, 1, 19), Block("block", 0, 1, 20)}]

Corrupt == {One(Fat(3, 2, 0, 0)),              \* the chain is a circle
            One(Fat(0, 0, 0, 0)),              \* it runs into a free cluster
            One(Fat(6, 0, 0, 0)),              \* ... a bad one
            One(Fat(1, 0, 0, 0)),              \* ... a reserved one
            One(Fat(5, 0, 0, 7)) , [One(Fat(5, 0, 0, 7)) EXCEPT !.capacity = 9],
            Volume([Boot EXCEPT !.fat_size = 2], [n \in 0..4 |-> IF n = 2 THEN 5 ELSE 7],
                   <<File(A, 2, 7), Slot("free", A)>>, <<Slot("free", A), Slot("free", A)>>),
            Volume(Boot, Fat(7, 0, 0, 0), <<File(A, 0, 3), File(A, 2, 3)>>, <<Slot("free", A), File(B, 2, 1)>>)}

\* Larger clusters: two sectors fit in a request, three do not. An empty file.
Clusters == {Volume([Boot EXCEPT !.sectors_per_cluster = n], Fat(3, 7, 0, 0),
                    <<Slot("lfn", A), File(A, 2, k)>>, <<Slot("free", A), Slot("free", A)>>)
                : n \in {2, 3}, k \in {0, 7}}

\* Disks without a volume, with the one block read such a boot makes.
Unmounted == {[One(Fat(7, 0, 0, 0)) EXCEPT !.boot = b, !.calls = {Block("block", 0, 1, 0)}] : b \in
    {[Boot EXCEPT !.signature = FALSE], [Boot EXCEPT !.bytes_per_sector = 8],
     [Boot EXCEPT !.sectors_per_cluster = 0], [Boot EXCEPT !.total_16 = 0, !.total_32 = 11]}}

\* Machines whose device cannot be used, or is found behind another function.
Machines == {[One(Fat(7, 0, 0, 0)) EXCEPT !.pci = p] : p \in
    {(<<0, 0>> :> Bridge) @@ (<<0, 1>> :> Disk),
     (<<0, 0>> :> [Bridge EXCEPT !.multi = TRUE]) @@ (<<0, 1>> :> Disk),
     (<<0, 1>> :> Disk),
     (<<0, 0>> :> [Disk EXCEPT !.caps = {"common"}]),
     (<<0, 0>> :> [Disk EXCEPT !.version_1 = FALSE]),
     (<<0, 0>> :> [Disk EXCEPT !.accepts = FALSE]),
     (<<0, 0>> :> [Disk EXCEPT !.queue_max = 2])}}

\* The file is longer than its chain.
ShortChain == One(Fat(7, 0, 0, 0))

MCImages == {Good, Arguments, ShortChain} \union Corrupt \union Clusters \union Unmounted \union Machines
MCShort == {Good, ShortChain}
MCPointer == {Arguments}
=============================================================================
