------------------------------ MODULE Storage ------------------------------
(***************************************************************************)
(* The path of SYS_BLOCK_READ and SYS_FILE_READ: the system calls of       *)
(* kernel/src/arch/x86_64/syscall.rs, the FAT12 reader of                  *)
(* kernel/src/fs/fat.rs, the polling driver of                             *)
(* kernel/src/driver/virtio_blk.rs and, external to the code, the device   *)
(* that serves the virtqueue in its own time. Boot probes the device and   *)
(* mounts the volume; then every core runs a process that makes calls.     *)
(*                                                                         *)
(* A sector is known by its number, and a byte by its place on the disk:   *)
(* a buffer holds the numbers of the sectors copied into it. What a sector *)
(* says (boot sector, FAT bytes, directory entries) is read off the image. *)
(* System calls run with interrupts masked, so a core steps through one    *)
(* call at a time.                                                         *)
(***************************************************************************)
EXTENDS Integers, Sequences, FiniteSets, SequencesExt

CONSTANTS
    None, Cores, Bsp,
    Images,                   \* the disks and devices a boot may find, and who makes which calls
    Unmapped,                 \* pages without the flags a write from user mode needs
    NonCanonical,             \* pages in the hole between the halves of the address space
    SECTOR_SIZE, DIRENT_SIZE, PageSize,
    MAX_SECTORS_PER_REQUEST,  \* DATA_BUFFER_SIZE / SECTOR_SIZE
    U64_MAX,                  \* the largest lba and the largest address
    IdxMod,                   \* 2^16: the ring indices wrap
    Digit,                    \* 2^4: a byte has two digits, a FAT12 entry three
    FAT12_MAX_CLUSTERS, FAT12_EOC_MIN, FAT12_BAD_CLUSTER,
    BASE_LEN, EXT_LEN, Upper, NonAscii

FIRST_DATA_CLUSTER == 2

ASSUME StorageAssumption ==
    /\ Bsp \in Cores
    /\ Unmapped \intersect NonCanonical = {}
    /\ {SECTOR_SIZE, DIRENT_SIZE, PageSize, MAX_SECTORS_PER_REQUEST} \subseteq Nat \ {0}
    /\ IdxMod > 1 /\ Digit > 1
    /\ FAT12_BAD_CLUSTER < FAT12_EOC_MIN /\ FAT12_EOC_MIN < Digit * Digit * Digit

VARIABLES
    image,     \* the disk and the device of this boot; never changes
    boot,      \* how far the boot code is
    dstatus,   \* the device's status register
    drv,       \* the Option<VirtioBlk> that VIRTIO_BLK guards
    vol,       \* the Option<Fat12Volume> that ROOT_VOLUME guards
    blk, root, \* the cores that hold VIRTIO_BLK and ROOT_VOLUME, or None
    avail,     \* index of the available ring
    used,      \* index of the used ring
    header,    \* what the descriptor chain asks for: a sector and a count
    data,      \* the bounce buffer: the sectors in it
    status,    \* the status byte
    op,        \* the call each core is in
    mem        \* user memory of the process on each core: byte copied in, or None

queue == <<avail, used, header, data, status>>
vars == <<image, boot, dstatus, drv, vol, blk, root, queue, op, mem>>

\* No call: the process runs in user mode. In a call: the call record, the request to
\* read_sectors and its result (`res`, and the sectors `got`), and read_file's locals;
\* at the end the answer (`res`), the bytes copied (`n`) and the driver's last word (`io`).
User == [pc |-> "user", call |-> None, lba |-> 0, count |-> 0, target |-> 0,
         res |-> None, got |-> <<>>, n |-> 0, io |-> None,
         phase |-> None, i |-> 0, fat |-> <<>>, size |-> 0, first |-> 0,
         chain |-> <<>>, out |-> <<>>]
Untouched == [a \in 0..U64_MAX |-> None]

MinOf(a, b) == IF a < b THEN a ELSE b
div_ceil(a, b) == (a + b - 1) \div b

-----------------------------------------------------------------------------
(* FAT12: pure parts *)

\* Fat12Volume::mount after the boot sector b has been read: a volume or an error.
\* A sector that is not a boot sector has no signature.
Geometry(b) ==
    LET rootSectors == div_ceil(b.root_entries * DIRENT_SIZE, b.bytes_per_sector)
        rootStart   == b.reserved + b.num_fats * b.fat_size
        dataStart   == rootStart + rootSectors
        total       == IF b.total_16 # 0 THEN b.total_16 ELSE b.total_32
        dataSectors == IF total < dataStart THEN 0 ELSE total - dataStart
        clusters    == dataSectors \div b.sectors_per_cluster
    IN  IF \/ ~b.signature
           \/ b.bytes_per_sector # SECTOR_SIZE
           \/ 0 \in {b.sectors_per_cluster, b.num_fats, b.fat_size}
        THEN None
        ELSE IF clusters >= FAT12_MAX_CLUSTERS THEN None
        ELSE [sectors_per_cluster |-> b.sectors_per_cluster, fat_size |-> b.fat_size,
              fat_start |-> b.reserved, root_start |-> rootStart,
              root_sectors |-> rootSectors, data_start |-> dataStart,
              total_clusters |-> clusters]

\* Byte k of the FAT buffer whose sectors are `fat`.
FatByte(fat, k) ==
    LET lba == fat[k \div SECTOR_SIZE + 1]
    IN  IF lba \in DOMAIN image.fat THEN image.fat[lba][(k % SECTOR_SIZE) + 1] ELSE 0

\* Mutant of fat12_entry: the odd entry is masked like the even one.
EntryAlwaysLow(fat, cluster) ==
    LET offset == (cluster * 3) \div 2
        packed == FatByte(fat, offset) + Digit * Digit * FatByte(fat, offset + 1)
    IN  IF offset + 1 >= Len(fat) * SECTOR_SIZE THEN None
        ELSE packed % (Digit * Digit * Digit)

\* Two bytes hold the entry's three digits, low byte first; None is CorruptFat.
fat12_entry(fat, cluster) ==
    LET offset == (cluster * 3) \div 2
        packed == FatByte(fat, offset) + Digit * Digit * FatByte(fat, offset + 1)
    IN  IF offset + 1 >= Len(fat) * SECTOR_SIZE THEN None
        ELSE IF cluster % 2 = 0 THEN packed % (Digit * Digit * Digit) ELSE packed \div Digit

\* One turn of cluster_chain's loop per call; None is CorruptFat.
RECURSIVE Walk(_, _, _, _)
Walk(total, fat, cluster, chain) ==
    LET next == fat12_entry(fat, cluster)
    IN  IF cluster < FIRST_DATA_CLUSTER \/ Len(chain) + 1 > total THEN None
        ELSE IF next = None THEN None
        ELSE IF next >= FAT12_EOC_MIN THEN Append(chain, cluster)
        ELSE IF next \in {0, FAT12_BAD_CLUSTER} THEN None
        ELSE Walk(total, fat, next, Append(chain, cluster))

cluster_chain(fat, first) == Walk(vol.total_clusters, fat, first, <<>>)

Pad(s, n) == [i \in 1..n |-> IF i <= Len(s) THEN s[i] ELSE " "]

\* The packed upper-case name, split at the last dot; None is NameTooLong.
to_83_name(name) ==
    LET dots == {i \in 1..Len(name) : name[i] = "."}
        dot  == IF dots = {} THEN Len(name) + 1 ELSE CHOOSE i \in dots : \A j \in dots : j <= i
        base == SubSeq(name, 1, dot - 1)
        ext  == SubSeq(name, dot + 1, Len(name))
        up(s) == [i \in 1..Len(s) |-> IF s[i] \in DOMAIN Upper THEN Upper[s[i]] ELSE s[i]]
    IN  IF \/ Len(base) \notin 1..BASE_LEN
           \/ Len(ext) > EXT_LEN
           \/ \E i \in 1..Len(name) : name[i] \in NonAscii
        THEN None
        ELSE Pad(up(base), BASE_LEN) \o Pad(up(ext), EXT_LEN)

\* find_dir_entry over one sector of the root directory: the entry that ends the scan
\* (a match, or a free entry: nothing after it is in use), or None. Deleted, long-name
\* and label entries are passed over.
ScanSector(lba, name83) ==
    LET entries == image.dir[lba]
        hits == {i \in 1..Len(entries) : \/ entries[i].kind = "free"
                                         \/ entries[i].kind = "file" /\ entries[i].name = name83}
    IN  IF hits = {} THEN None ELSE entries[CHOOSE i \in hits : \A j \in hits : i <= j]

-----------------------------------------------------------------------------
(* Boot: probe the device, mount the volume *)

\* The first function, in the order of the scan, that is a virtio block device. A
\* function above 0 is looked at only behind a multi-function function 0.
find_device ==
    LET seen == {a \in DOMAIN image.pci :
                    /\ image.pci[a].virtio_blk
                    /\ <<a[1], 0>> \in DOMAIN image.pci
                    /\ a[2] > 0 => image.pci[<<a[1], 0>>].multi}
    IN  IF seen = {} THEN None
        ELSE CHOOSE a \in seen : \A b \in seen : a[1] < b[1] \/ (a[1] = b[1] /\ a[2] <= b[2])

\* virtio_blk::init up to the capabilities VirtioBlk::new expects: without a device
\* boot goes on, without a capability it panics. Writing 0 to the status resets.
init ==
    /\ boot = "probe"
    /\ IF find_device = None THEN boot' = "mount" /\ UNCHANGED dstatus
       ELSE LET caps == image.pci[find_device].caps
            IN  IF {"common", "notify", "device"} \subseteq caps
                THEN boot' = "reset" /\ dstatus' = {"resetting"}
                ELSE boot' = "panicked" /\ UNCHANGED dstatus
    /\ UNCHANGED <<image, drv, vol, blk, root, queue, op, mem>>

\* External: the device takes its time to reset.
DeviceResets ==
    /\ dstatus = {"resetting"}
    /\ dstatus' = {}
    /\ UNCHANGED <<image, boot, drv, vol, blk, root, queue, op, mem>>

\* The wait for 0, ACKNOWLEDGE, DRIVER and the features; then the device says
\* whether it keeps FEATURES_OK.
negotiate ==
    /\ boot = "reset" /\ dstatus = {}
    /\ LET hw == image.pci[find_device]
       IN  IF ~hw.version_1 THEN boot' = "panicked" /\ dstatus' = {"ack", "driver"}
           ELSE /\ boot' = "features"
                /\ dstatus' = {"ack", "driver"} \union (IF hw.accepts THEN {"features_ok"} ELSE {})
    /\ UNCHANGED <<image, drv, vol, blk, root, queue, op, mem>>

\* The read-back, the queue of at least three descriptors, DRIVER_OK, the capacity.
setup_queue ==
    /\ boot = "features"
    /\ IF "features_ok" \in dstatus /\ image.pci[find_device].queue_max >= 3
       THEN /\ boot' = "mount"
            /\ dstatus' = dstatus \union {"driver_ok"}
            /\ drv' = [capacity |-> image.capacity]
       ELSE boot' = "panicked" /\ UNCHANGED <<dstatus, drv>>
    /\ UNCHANGED <<image, vol, blk, root, queue, op, mem>>

-----------------------------------------------------------------------------
(* The driver and the device *)

lock_blk(c) ==
    /\ op[c].pc = "lock_blk" /\ blk = None
    /\ blk' = c
    /\ op' = [op EXCEPT ![c].pc = IF op[c].phase = "dir" THEN "name" ELSE "submit"]
    /\ UNCHANGED <<image, boot, dstatus, drv, vol, root, queue, mem>>

\* What read_sectors answers without the device; None lets the request pass. The
\* callers only ask for whole sectors, and for at least one.
Refused(lba, count) ==
    IF drv = None THEN "NoDevice"
    ELSE IF count > MAX_SECTORS_PER_REQUEST THEN "RequestTooLarge"
    ELSE IF lba > U64_MAX - count \/ lba + count > drv.capacity THEN "OutOfRange"
    ELSE None

\* Mutant of submit: the index waited for does not wrap.
SubmitNoWrap(c) ==
    /\ op[c].pc = "submit" /\ Refused(op[c].lba, op[c].count) = None
    /\ header' = [lba |-> op[c].lba, count |-> op[c].count]
    /\ status' = "pending"
    /\ avail' = (avail + 1) % IdxMod
    /\ op' = [op EXCEPT ![c].pc = "poll", ![c].target = avail + 1]
    /\ UNCHANGED <<image, boot, dstatus, drv, vol, blk, root, used, data, mem>>

\* read_sectors up to the notification: header, status byte, descriptors, index.
submit(c) ==
    /\ op[c].pc = "submit" /\ Refused(op[c].lba, op[c].count) = None
    /\ header' = [lba |-> op[c].lba, count |-> op[c].count]
    /\ status' = "pending"
    /\ avail' = (avail + 1) % IdxMod
    /\ op' = [op EXCEPT ![c].pc = "poll", ![c].target = avail']
    /\ UNCHANGED <<image, boot, dstatus, drv, vol, blk, root, used, data, mem>>

\* Its early returns.
refuse(c) ==
    /\ op[c].pc = "submit" /\ Refused(op[c].lba, op[c].count) # None
    /\ op' = [op EXCEPT ![c].pc = "result", ![c].res = Refused(op[c].lba, op[c].count)]
    /\ UNCHANGED <<image, boot, dstatus, drv, vol, blk, root, queue, mem>>

\* External: the device serves the chain; data and status byte become visible
\* before the used index. A failed request leaves what was in the buffer.
DeviceData ==
    /\ avail # used /\ status = "pending"
    /\ \/ data' = [i \in 1..header.count |-> header.lba + i - 1] /\ status' = "ok"
       \/ data' = data /\ status' = "error"
    /\ UNCHANGED <<image, boot, dstatus, drv, vol, blk, root, avail, used, header, op, mem>>

DeviceUsed ==
    /\ avail # used /\ status # "pending"
    /\ used' = (used + 1) % IdxMod
    /\ UNCHANGED <<image, boot, dstatus, drv, vol, blk, root, avail, header, data, status, op, mem>>

\* The used index has arrived: status byte, then the copy out of the bounce buffer.
poll(c) ==
    /\ op[c].pc = "poll" /\ used = op[c].target
    /\ op' = [op EXCEPT ![c].pc = "result",
                        ![c].res = IF status = "ok" THEN "Ok" ELSE "DeviceError",
                        ![c].got = IF status = "ok" THEN data ELSE <<>>]
    /\ UNCHANGED <<image, boot, dstatus, drv, vol, blk, root, queue, mem>>

-----------------------------------------------------------------------------
(* mount_root *)

mount(c) ==
    /\ boot = "mount" /\ c = Bsp /\ op[c] = User
    /\ op' = [op EXCEPT ![c].pc = "lock_blk", ![c].call = [kind |-> "mount"], ![c].count = 1]
    /\ UNCHANGED <<image, boot, dstatus, drv, vol, blk, root, queue, mem>>

\* Fat12Volume::mount goes on with the sector it has read; an error leaves no volume.
mounted(c) ==
    /\ op[c].pc = "result" /\ op[c].call.kind = "mount"
    /\ vol' = IF op[c].res = "Ok" /\ op[c].got[1] = 0 THEN Geometry(image.boot) ELSE None
    /\ boot' = "run"
    /\ blk' = None
    /\ op' = [op EXCEPT ![c] = User]
    /\ UNCHANGED <<image, dstatus, drv, root, queue, mem>>

-----------------------------------------------------------------------------
(* The system calls *)

\* Mutant of validate_write_range: only the first page is looked at.
ValidateFirstPage(ptr, len) ==
    IF ptr > U64_MAX - len \/ ptr \div PageSize \in Unmapped THEN "InvalidArgument"
    ELSE IF ptr \div PageSize \in NonCanonical THEN "panic" ELSE "Ok"

\* Every page of ptr .. ptr+len-1 must have the flags a write from user mode needs. The
\* walk stops at the first that has not; VirtAddr::new panics if that address is not
\* canonical.
validate_write_range(ptr, len) ==
    LET pages == {a \div PageSize : a \in (ptr \div PageSize) * PageSize .. ptr + len - 1}
        bad   == pages \intersect (Unmapped \union NonCanonical)
    IN  IF ptr > U64_MAX - len THEN "InvalidArgument"
        ELSE IF bad = {} THEN "Ok"
        ELSE IF Min(bad) \in NonCanonical THEN "panic" ELSE "InvalidArgument"

\* The bytes of a buffer of sectors, each known by its place on the disk.
BytesOf(sectors) ==
    [k \in 1..Len(sectors) * SECTOR_SIZE |->
        sectors[(k - 1) \div SECTOR_SIZE + 1] * SECTOR_SIZE + ((k - 1) % SECTOR_SIZE)]

\* Mutant of copy_into_user_range: every page gets the start of the source.
CopyFromStart(m, ptr, src) ==
    [a \in DOMAIN m |->
        LET page       == a - (a % PageSize)
            copy_start == IF ptr > page THEN ptr ELSE page
        IN  IF a >= copy_start /\ a < ptr + Len(src) THEN src[a - copy_start + 1] ELSE m[a]]

\* One page at a time, from copy_start up to copy_end.
copy_into_user_range(m, ptr, src) ==
    [a \in DOMAIN m |->
        LET page          == a - (a % PageSize)
            copy_start    == IF ptr > page THEN ptr ELSE page
            offset_in_src == copy_start - ptr
        IN  IF a >= copy_start /\ a < ptr + Len(src)
            THEN src[offset_in_src + (a - copy_start) + 1] ELSE m[a]]

\* The call is over: `src` has been copied out and both locks are free again.
Finish(c, res, src) ==
    /\ op' = [op EXCEPT ![c] = [User EXCEPT !.pc = "done", !.call = op[c].call, !.res = res,
                                            !.n = Len(src), !.io = op[c].res]]
    /\ mem' = [mem EXCEPT ![c] = copy_into_user_range(@, op[c].call.ptr, src)]
    /\ blk' = IF blk = c THEN None ELSE blk
    /\ root' = IF root = c THEN None ELSE root
    /\ UNCHANGED <<image, boot, dstatus, drv, vol, queue>>

\* What a call answers before it goes near the device; "Ok" goes on. A capability is
\* "block" or "fs" when it has the READ right; any other slot fails the lookup or names
\* something else.
BlockCheck(a) ==
    IF a.count = 0 \/ a.count > MAX_SECTORS_PER_REQUEST THEN "InvalidArgument"
    ELSE IF a.cap # "block" THEN "BadCapability"
    ELSE validate_write_range(a.ptr, a.count * SECTOR_SIZE)

FileCheck(a) ==
    IF a.cap # "fs" THEN "BadCapability" ELSE validate_write_range(a.ptr, a.len)

\* The call returns the error. A core that panics stays where it is, with no lock held;
\* that the panic then stops the other cores is left to Panic: here they may go on.
Refuse(c, a, res) ==
    /\ res # "Ok"
    /\ op' = [op EXCEPT ![c].pc = IF res = "panic" THEN "panicked" ELSE "done",
                        ![c].call = a, ![c].res = res]
    /\ UNCHANGED <<image, boot, dstatus, drv, vol, blk, root, queue, mem>>

sys_block_read(c, a) ==
    /\ boot = "run" /\ op[c] = User
    /\ \/ Refuse(c, a, BlockCheck(a))
       \/ /\ BlockCheck(a) = "Ok"
          /\ op' = [op EXCEPT ![c].pc = "lock_blk", ![c].call = a,
                              ![c].lba = a.lba, ![c].count = a.count]
          /\ UNCHANGED <<image, boot, dstatus, drv, vol, blk, root, queue, mem>>

block_done(c) ==
    /\ op[c].pc = "result" /\ op[c].call.kind = "block"
    /\ CASE op[c].res = "Ok"         -> Finish(c, "Ok", BytesOf(op[c].got))
         [] op[c].res = "OutOfRange" -> Finish(c, "IoOutOfRange", <<>>)
         [] OTHER                    -> Finish(c, "IoError", <<>>)

\* FS_CAP exists only when the volume was mounted.
sys_file_read(c, a) ==
    /\ boot = "run" /\ op[c] = User
    /\ a.cap = "fs" => vol # None
    /\ \/ Refuse(c, a, FileCheck(a))
       \/ /\ FileCheck(a) = "Ok"
          /\ op' = [op EXCEPT ![c].pc = "lock_root", ![c].call = a]
          /\ UNCHANGED <<image, boot, dstatus, drv, vol, blk, root, queue, mem>>

\* with_root takes ROOT_VOLUME and keeps it while it waits for VIRTIO_BLK.
lock_root(c) ==
    /\ op[c].pc = "lock_root" /\ root = None
    /\ root' = c
    /\ op' = [op EXCEPT ![c].pc = "lock_blk", ![c].phase = "dir"]
    /\ UNCHANGED <<image, boot, dstatus, drv, vol, blk, queue, mem>>

\* The next read_sectors of read_file, as part i of `phase`.
ReadNext(c, phase, i, lba, count, locals) ==
    /\ op' = [op EXCEPT ![c] = [locals EXCEPT !.pc = "submit", !.phase = phase, !.i = i,
                                              !.lba = lba, !.count = count, !.res = None, !.got = <<>>]]
    /\ UNCHANGED <<image, boot, dstatus, drv, vol, blk, root, queue, mem>>

read_file(c) ==
    /\ op[c].pc = "name"
    /\ IF to_83_name(op[c].call.name) = None THEN Finish(c, "InvalidArgument", <<>>)
       ELSE IF vol.root_sectors = 0 THEN Finish(c, "NoSuchFile", <<>>)
       ELSE ReadNext(c, "dir", 0, vol.root_start, 1, op[c])

Part(c, phase) ==
    op[c].pc = "result" /\ op[c].call.kind = "file" /\ op[c].phase = phase /\ op[c].res = "Ok"

find_dir_entry(c) ==
    /\ Part(c, "dir")
    /\ LET hit == ScanSector(op[c].got[1], to_83_name(op[c].call.name))
           i   == op[c].i + 1
       IN  IF hit = None
           THEN IF i < vol.root_sectors THEN ReadNext(c, "dir", i, vol.root_start + i, 1, op[c])
                ELSE Finish(c, "NoSuchFile", <<>>)
           ELSE IF hit.kind = "free" THEN Finish(c, "NoSuchFile", <<>>)
           ELSE IF hit.size = 0 THEN Finish(c, "Ok", <<>>)
           ELSE ReadNext(c, "fat", 0, vol.fat_start, 1,
                         [op[c] EXCEPT !.first = hit.first, !.size = hit.size])

ClusterLba(cluster) == vol.data_start + (cluster - FIRST_DATA_CLUSTER) * vol.sectors_per_cluster

\* read_fat_table's loop; when the table is complete, the chain and its first cluster.
read_fat_table(c) ==
    /\ Part(c, "fat")
    /\ LET fat   == op[c].fat \o op[c].got
           chain == cluster_chain(fat, op[c].first)
           i     == op[c].i + 1
       IN  IF i < vol.fat_size
           THEN ReadNext(c, "fat", i, vol.fat_start + i, 1, [op[c] EXCEPT !.fat = fat])
           ELSE IF chain = None THEN Finish(c, "IoError", <<>>)
           ELSE ReadNext(c, "data", 1, ClusterLba(chain[1]), vol.sectors_per_cluster,
                         [op[c] EXCEPT !.chain = chain, !.fat = <<>>])

\* Cluster by cluster, each in one request; then truncate, and the prefix that fits.
read_clusters(c) ==
    /\ Part(c, "data")
    /\ LET out == op[c].out \o op[c].got
           i   == op[c].i + 1
           all == BytesOf(out)
       IN  IF i <= Len(op[c].chain)
           THEN ReadNext(c, "data", i, ClusterLba(op[c].chain[i]), vol.sectors_per_cluster,
                         [op[c] EXCEPT !.out = out])
           ELSE Finish(c, "Ok", SubSeq(all, 1, MinOf(MinOf(Len(all), op[c].size), op[c].call.len)))

read_fails(c) ==
    /\ op[c].pc = "result" /\ op[c].call.kind = "file" /\ op[c].res # "Ok"
    /\ Finish(c, "IoError", <<>>)

Return(c) ==
    /\ op[c].pc = "done"
    /\ op' = [op EXCEPT ![c] = User]
    /\ mem' = [mem EXCEPT ![c] = Untouched]
    /\ UNCHANGED <<image, boot, dstatus, drv, vol, blk, root, queue>>

-----------------------------------------------------------------------------
Init ==
    /\ image \in Images
    /\ boot = "probe" /\ dstatus = {} /\ drv = None /\ vol = None
    /\ blk = None /\ root = None
    /\ avail = 0 /\ used = 0
    /\ header = [lba |-> 0, count |-> 0] /\ data = <<>> /\ status = "ok"
    /\ op = [c \in Cores |-> User]
    /\ mem = [c \in Cores |-> Untouched]

Call(c) ==
    /\ c \in image.callers
    /\ \E a \in image.calls :
            \/ a.kind = "block" /\ sys_block_read(c, a)
            \/ a.kind = "file" /\ sys_file_read(c, a)

\* What a core does by itself once it is in a call.
Progress(c) ==
    \/ mount(c) \/ mounted(c)
    \/ submit(c) \/ refuse(c) \/ poll(c)
    \/ block_done(c)
    \/ read_file(c) \/ find_dir_entry(c) \/ read_fat_table(c) \/ read_clusters(c) \/ read_fails(c)
    \/ Return(c)

Device == DeviceResets \/ DeviceData \/ DeviceUsed

Probe == init \/ negotiate \/ setup_queue

Next ==
    \/ Probe \/ Device
    \/ \E c \in Cores : Call(c) \/ Progress(c) \/ lock_blk(c) \/ lock_root(c)

\* Cores run and the device answers; a core that spins on a lock that keeps becoming
\* free gets it in the end.
Fairness ==
    /\ WF_vars(Probe) /\ WF_vars(Device)
    /\ \A c \in Cores : WF_vars(Progress(c)) /\ SF_vars(lock_blk(c)) /\ SF_vars(lock_root(c))

Spec == Init /\ [][Next]_vars /\ Fairness

-----------------------------------------------------------------------------
(* What the disk says, without the code's way of reading it *)

Directory == FlattenSeq([k \in 1..vol.root_sectors |-> image.dir[vol.root_start + k - 1]])

\* The places of the entries a lookup of the name may return.
Entries(name83) ==
    {i \in 1..Len(Directory) : /\ Directory[i].kind = "file"
                               /\ Directory[i].name = name83
                               /\ \A j \in 1..i : Directory[j].kind # "free"}

Entry(name83) == Directory[CHOOSE i \in Entries(name83) : \A j \in Entries(name83) : i <= j]

\* The chains that start at a cluster: every entry names the next one, the last ends it.
Chains(first) ==
    {s \in UNION {[1..n -> DOMAIN image.entries] : n \in 1..vol.total_clusters} :
        /\ s[1] = first
        /\ \A i \in 1..Len(s) : s[i] >= FIRST_DATA_CLUSTER
        /\ \A i \in 1..Len(s) - 1 : image.entries[s[i]] = s[i + 1]
        /\ image.entries[s[Len(s)]] >= FAT12_EOC_MIN}

SectorsOf(chain) ==
    [k \in 1..Len(chain) * vol.sectors_per_cluster |->
        ClusterLba(chain[(k - 1) \div vol.sectors_per_cluster + 1]) + ((k - 1) % vol.sectors_per_cluster)]

\* The bytes a call that answers Ok must have delivered.
Wanted(a) ==
    IF a.kind = "block" THEN BytesOf([i \in 1..a.count |-> a.lba + i - 1])
    ELSE LET e   == Entry(to_83_name(a.name))
             all == BytesOf(SectorsOf(CHOOSE s \in Chains(e.first) : TRUE))
         IN  IF e.size = 0 THEN <<>>
             ELSE SubSeq(all, 1, MinOf(MinOf(Len(all), e.size), a.len))

-----------------------------------------------------------------------------
(* Properties *)

\* Every variable stays in its type, and the two spin locks have at most one holder
\* that is inside the code they guard.
TypeOK ==
    /\ boot \in {"probe", "reset", "features", "mount", "run", "panicked"}
    /\ dstatus \subseteq {"resetting", "ack", "driver", "features_ok", "driver_ok"}
    /\ {avail, used} \subseteq 0..IdxMod - 1
    /\ status \in {"pending", "ok", "error"}
    /\ \A c \in Cores :
        /\ op[c].pc \in {"user", "lock_root", "lock_blk", "name", "submit", "poll", "result", "done",
                       "panicked"}
        /\ (blk = c) <=> op[c].pc \in {"name", "submit", "poll", "result"}
        /\ root = c => op[c].pc \in {"lock_blk", "name", "submit", "poll", "result"}

\* A call that answers Ok has copied exactly the bytes of the disk it was asked for
\* (the sectors of a block read; the prefix of the file that fits, along its chain) to
\* exactly the addresses it was given, whatever requests the other core made meanwhile;
\* a call that fails has written nothing (sys_block_read, sys_file_read, read_file).
ReadIsExact ==
    \A c \in Cores : op[c].pc = "done" =>
        LET a    == op[c].call
            want == IF op[c].res = "Ok" THEN Wanted(a) ELSE <<>>
        IN  /\ op[c].n = Len(want)
            /\ mem[c] = [x \in 0..U64_MAX |->
                            IF x >= a.ptr /\ x < a.ptr + Len(want) THEN want[x - a.ptr + 1] ELSE None]

\* The device only sees requests the checks have passed: VIRTIO_BLK held by the core
\* that polls for it, after DRIVER_OK, within the bounce buffer and the capacity, and
\* for a destination that is writable to its last byte (validate_write_range before
\* any I/O).
RequestsAreChecked ==
    /\ TypeOK
    /\ avail # used =>
        /\ blk # None /\ op[blk].pc = "poll"
        /\ "driver_ok" \in dstatus
        /\ header.count \in 1..MAX_SECTORS_PER_REQUEST
        /\ header.lba + header.count <= image.capacity
        /\ LET a   == op[blk].call
               len == IF a.kind = "block" THEN a.count * SECTOR_SIZE ELSE a.len
           IN  a.kind # "mount" =>
                    \A x \in a.ptr..a.ptr + len - 1 :
                        x \in 0..U64_MAX /\ x \div PageSize \notin Unmapped \union NonCanonical

\* An error has its reason: NoSuchFile when no live entry has the name, IoError when the
\* device failed, no chain leads from the first cluster to an end mark, a cluster of
\* the chain lies beyond the device, or a cluster is larger than one request.
ErrorIsJustified ==
    \A c \in Cores : (op[c].pc = "done" /\ op[c].call.kind = "file") =>
        LET name83 == to_83_name(op[c].call.name)
        IN  CASE op[c].res = "NoSuchFile" -> Entries(name83) = {}
              [] op[c].res = "IoError" ->
                    \/ op[c].io \in {"DeviceError", "OutOfRange"}
                    \/ vol.sectors_per_cluster > MAX_SECTORS_PER_REQUEST
                    \/ Entries(name83) # {} /\ Chains(Entry(name83).first) = {}
              [] op[c].res = "Ok" -> Entries(name83) # {}
              [] OTHER -> TRUE

\* Boot comes to a decision about the disk, and every call returns to the process as
\* long as the device answers: no chain on the disk makes read_file loop, and the two
\* locks are never waited for in a circle. The exception is a kernel panic, which only
\* a destination that starts in the non-canonical hole brings about.
CallsReturn ==
    /\ <>(boot \in {"run", "panicked"})
    /\ \A c \in Cores : op[c].pc # "user" ~>
            \/ op[c].pc = "user"
            \/ \E d \in Cores : op[d].pc = "panicked" /\ op[d].call.ptr \div PageSize \in NonCanonical

\* Claimed by syscall.rs: "an invalid range costs nothing but the walk itself".
WalkIsHarmless == \A c \in Cores : op[c].pc # "panicked"

\* Claimed by syscall.rs: a successful file read returns min(file_size, buf_len).
CopiesFileSize ==
    \A c \in Cores : (op[c].pc = "done" /\ op[c].call.kind = "file" /\ op[c].res = "Ok") =>
        op[c].n = MinOf(Entry(to_83_name(op[c].call.name)).size, op[c].call.len)
=============================================================================
