--------------------------------- MODULE Disks ---------------------------------
(***************************************************************************)
(* Reading a disk, from a partition (devicekit/DKLogicalDisk.m) through    *)
(* the whole disk and the drive (devicekit/DKDisk.m) down to the commands  *)
(* of the NVMe driver (dev/NVMeController.m), into the pages of a memory   *)
(* descriptor list (vm/vm_page.c); and the partitions themselves, which    *)
(* dev/GPTVolumeManager.m finds by such reads.                             *)
(*                                                                         *)
(* A byte of the disk is its own number, so that a buffer says where its   *)
(* bytes come from.  A descriptor list is its pages' contents.  How a      *)
(* request completes is the subject of SyncIO; here a read is one step.    *)
(* Every caller makes its list for the bytes it reads.  Nothing is ever    *)
(* written: the driver's writeBlocks is empty.                             *)
(***************************************************************************)
EXTENDS Integers, Sequences, SequencesExt, FiniteSets

CONSTANTS
    Sector,        \* the size of a block
    DriveBlocks,   \* m_nBlocks
    MaxTransfer,   \* maxBlockTransfer
    DiskPage,      \* PGSIZE
    PrpPerPage,    \* PGSIZE / sizeof(void *)
    EntrySize,     \* sizeof(struct gpt_entry)
    Tables,        \* what there may be in the disk's partition table
    ReadSizes, ReadOffs,  \* arguments of the reads
    MaxReads       \* bound: reads of partitions

ASSUME DisksAssumption ==
    /\ {Sector, DriveBlocks, MaxTransfer, DiskPage, PrpPerPage, EntrySize} \subseteq Nat \ {0}
    /\ ReadSizes \subseteq Nat \ {0} /\ ReadOffs \subseteq Nat /\ MaxReads \in Nat
    /\ \A t \in Tables :
           /\ t.lbaEntryArrayStart \in Nat /\ t.entries # <<>> /\ t.sizEntry >= EntrySize
           /\ \A i \in DOMAIN t.entries : t.entries[i].lbaStart <= t.entries[i].lbaEnd

Garbage == -1  \* what a new page holds
DiskBytes(first, n) == [i \in 1 .. n |-> first + i - 1]

------------------------------------------------------------------------------
\* Memory descriptor lists.
NewPages(n) == [p \in 1 .. n |-> [k \in 1 .. DiskPage |-> Garbage]]
PagesFor(bytes) == (bytes + DiskPage - 1) \div DiskPage
vm_mdl_new_with_capacity(bytes) == NewPages(PagesFor(bytes))
vm_mdl_expand(m, bytes) == m \o NewPages(PagesFor(bytes) - Len(m))
vm_mdl_capacity(m) == Len(m) * DiskPage

\* Each part goes where a whole page would have gone before it, and the last one
\* may run over the end of its page.
vm_mdl_copy(m, nBytes, off) ==
    LET first == off \div DiskPage
        count == ((off % DiskPage) + nBytes - 1) \div DiskPage + 1
        Copy(s, k) ==
            LET tocopy == IF s.left > DiskPage THEN DiskPage - s.pageoff ELSE s.left
                to     == (k - 1) * DiskPage
            IN  [left |-> s.left - tocopy, pageoff |-> 0,
                 buf |-> [j \in 1 .. nBytes |->
                             IF j \notin to + 1 .. to + tocopy THEN s.buf[j]
                             ELSE IF s.pageoff + j - to > DiskPage THEN Garbage
                             ELSE m[first + k][s.pageoff + j - to]]]
    IN  FoldLeft(Copy, [left |-> nBytes, pageoff |-> off % DiskPage,
                        buf |-> [j \in 1 .. nBytes |-> Garbage]],
                 [k \in 1 .. count |-> k]).buf

------------------------------------------------------------------------------
\* The driver.  A command names pages of the list by number: prp1 and, in prp, the
\* second page or the page with the numbers of all but the first.
PrpList(nPages) == [i \in 1 .. nPages - 1 |-> i + 1]
Command(nBlocks, offset, nPages) ==
    [slba |-> offset, nlb |-> nBlocks - 1, prp1 |-> 1,
     prp |-> IF nPages = 1 THEN <<>> ELSE IF nPages = 2 THEN <<2>> ELSE PrpList(nPages)]

\* The controller (external) fills as many of these pages as the blocks need.
Transfer(m, cmd) ==
    LET n    == (cmd.nlb + 1) * Sector
        dest == <<cmd.prp1>> \o cmd.prp
    IN  [p \in DOMAIN m |-> [k \in 1 .. DiskPage |->
            LET i == SelectInSeq(dest, LAMBDA d : d = p)
                b == (i - 1) * DiskPage + k
            IN  IF i \in 1 .. PagesFor(n) /\ b <= n THEN cmd.slba * Sector + b - 1 ELSE m[p][k]]]

Result(r, m) == [r |-> r, mdl |-> m]
\* The assertion stops the kernel; a list that fills its page is never continued in
\* the next: the loop stays at the same page number and does not end.
readBlocks(nBlocks, offset, m) ==
    IF nBlocks >= MaxTransfer THEN Result("assert", m)
    ELSE IF Len(m) > PrpPerPage THEN Result("loop", m)
    ELSE Result("ok", Transfer(m, Command(nBlocks, offset, Len(m))))

\* The drive, then a logical disk: the offset it passes to the disk below.
commonIO(nBytes, offset, m) ==
    IF nBytes > MaxTransfer * Sector THEN Result("EOPNOTSUPP", m)
    ELSE IF offset % Sector # 0 \/ nBytes % Sector # 0 THEN Result("EOPNOTSUPP", m)
    ELSE readBlocks(nBytes \div Sector, offset \div Sector, m)

Refused == -1
Below_NoBase(ld, nBytes, offset) ==  \* mutant: as writeBytes does it
    IF offset + nBytes > ld.size THEN Refused ELSE offset
Below(ld, nBytes, offset) == IF offset + nBytes > ld.size THEN Refused ELSE offset + ld.base

readBytes(whole, ld, nBytes, offset, m) ==
    LET part == IF ld.location = 0 THEN offset ELSE Below(ld, nBytes, offset)
        disk == IF part = Refused THEN Refused ELSE Below(whole, nBytes, part)
    IN  IF disk = Refused THEN Result("EINVAL", m) ELSE commonIO(nBytes, disk, m)

------------------------------------------------------------------------------
VARIABLES
    attach,    \* how far attaching the disk is
    table,     \* the partition table on it
    logical,   \* the logical disks, the whole disk first
    mdl,       \* the volume manager's descriptor list
    iEntry,    \* the entry it is at
    last,      \* the last read of a logical disk and its result
    reads

disk_vars == <<attach, table, logical, mdl, iEntry, last, reads>>

DisksInit ==
    /\ attach = "none" /\ table = <<>> /\ logical = <<>> /\ mdl = <<>>
    /\ iEntry = 0 /\ last = <<>> /\ reads = 0

Stops(r) == r \in {"assert", "loop"}
LogicalDisk(base, size, location) == [base |-> base, size |-> size, location |-> location]

\* A drive is found: the whole disk is its first logical disk.
AttachDrive(t) ==
    /\ attach = "none"
    /\ attach' = "probe"
    /\ table' = t
    /\ logical' = <<LogicalDisk(0, DriveBlocks * Sector, 0)>>
    /\ UNCHANGED <<mdl, iEntry, last, reads>>

\* The header is in the second block.  A failed read fails an assertion.
probe ==
    LET got == readBytes(logical[1], logical[1], Sector, Sector, vm_mdl_new_with_capacity(Sector))
    IN  /\ attach = "probe"
        /\ attach' = IF got.r # "ok" THEN "stopped"
                     ELSE IF table.signature # "EFI PART" THEN "ready" ELSE "array"
        /\ mdl' = got.mdl
        /\ UNCHANGED <<table, logical, iEntry, last, reads>>

ReadEntryArray ==
    LET bytes == table.sizEntry * Len(table.entries)
        room  == IF bytes > vm_mdl_capacity(mdl) THEN vm_mdl_expand(mdl, bytes) ELSE mdl
        got   == readBytes(logical[1], logical[1], bytes, Sector * table.lbaEntryArrayStart, room)
    IN  /\ attach = "array"
        /\ attach' = IF got.r # "ok" THEN "stopped" ELSE "entries"
        /\ mdl' = got.mdl
        /\ UNCHANGED <<table, logical, iEntry, last, reads>>

\* What the bytes of an entry say: they are those of an entry, or mean nothing.
EntryFrom(bytes) ==
    LET at == SelectInSeq([i \in DOMAIN table.entries |-> i],
                  LAMBDA i : bytes = DiskBytes(Sector * table.lbaEntryArrayStart
                                                   + table.sizEntry * (i - 1), EntrySize))
    IN  IF at = 0 THEN [type |-> "unknown", lbaStart |-> 0, lbaEnd |-> DriveBlocks]
        ELSE table.entries[at]

\* mountit's read: a block of 1024 bytes, the second such.  Its result is ignored.
mountit(ld) ==
    readBytes(logical[1], ld, 2 * Sector, 2 * Sector, vm_mdl_new_with_capacity(DiskPage)).r

AttachPartition ==
    LET ent == EntryFrom(vm_mdl_copy(mdl, EntrySize, table.sizEntry * iEntry))
        ld  == LogicalDisk(Sector * ent.lbaStart, (ent.lbaEnd - ent.lbaStart) * Sector, iEntry + 1)
    IN  /\ attach = "entries" /\ iEntry < Len(table.entries)
        /\ iEntry' = iEntry + 1
        /\ IF ent.type = "null" THEN UNCHANGED <<attach, logical>>
           ELSE /\ logical' = Append(logical, ld)
                /\ attach' = IF Stops(mountit(ld)) THEN "stopped" ELSE attach
        /\ UNCHANGED <<table, mdl, last, reads>>

AttachDone ==
    /\ attach = "entries" /\ iEntry = Len(table.entries)
    /\ attach' = "ready"
    /\ UNCHANGED <<table, logical, mdl, iEntry, last, reads>>

Read(k, n, off) ==
    LET got == readBytes(logical[1], logical[k], n, off, vm_mdl_new_with_capacity(n))
    IN  /\ attach = "ready" /\ reads < MaxReads
        /\ reads' = reads + 1
        /\ attach' = IF Stops(got.r) THEN "stopped" ELSE attach
        /\ last' = <<[disk |-> k, n |-> n, off |-> off, r |-> got.r,
                      buf |-> vm_mdl_copy(got.mdl, n, 0)]>>
        /\ UNCHANGED <<table, logical, mdl, iEntry>>

DisksNext ==
    \/ \E t \in Tables : AttachDrive(t)
    \/ probe \/ ReadEntryArray \/ AttachPartition \/ AttachDone
    \/ \E k \in DOMAIN logical, n \in ReadSizes, off \in ReadOffs : Read(k, n, off)

------------------------------------------------------------------------------
\* A read of a partition gives the very bytes that the partition table puts there,
\* whatever pages they are scattered over on the way: in range and of whole blocks,
\* below the controller's limit and within one list of pages, it is carried out, and
\* no other read is.  Once the disk is attached there is one logical disk for every
\* used entry of the table, in its order.
Used == SelectSeq([i \in DOMAIN table.entries |-> i], LAMBDA i : table.entries[i].type # "null")
FirstByte(k) == IF k = 1 THEN 0 ELSE table.entries[Used[k - 1]].lbaStart * Sector
EndByte(k) == IF k = 1 THEN DriveBlocks * Sector ELSE table.entries[Used[k - 1]].lbaEnd * Sector
Answered(q) ==
    /\ FirstByte(q.disk) + q.off + q.n <= EndByte(q.disk)
    /\ FirstByte(q.disk) + q.off + q.n <= DriveBlocks * Sector
    /\ q.off % Sector = 0 /\ q.n % Sector = 0
    /\ q.n < MaxTransfer * Sector /\ PagesFor(q.n) <= PrpPerPage
DiskReads ==
    /\ \A i \in DOMAIN last :
           LET q == last[i]
           IN  /\ (q.r = "ok") <=> Answered(q)
               /\ q.r = "ok" => q.buf = DiskBytes(FirstByte(q.disk) + q.off, q.n)
    /\ attach = "ready" =>
           IF table.signature = "EFI PART"
           THEN /\ Len(logical) = 1 + Len(Used)
                /\ \A k \in DOMAIN Used : logical[k + 1].location = Used[k]
           ELSE Len(logical) = 1
===============================================================================
