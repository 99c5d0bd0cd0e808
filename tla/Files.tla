-------------------------------- MODULE Files ---------------------------------
(***************************************************************************)
(* The file system: path lookup (posix/vfs.c) over tmpfs (tmpfs/), filled  *)
(* from the ramdisk at boot (posix/posix_main.c), with the device nodes of *)
(* dev/dev.c.                                                              *)
(*                                                                         *)
(* The file system is a value f: nodes and vnodes by number, 0 being NULL. *)
(* Nothing is ever removed, and no operation takes a vnode's lock; the     *)
(* calls are made by one thread, at boot.  A path is its components, and   *)
(* a component's name has more than two characters or is "." or "..".      *)
(* Modes are left out.  Nothing sets vfsmountedhere.                       *)
(***************************************************************************)
EXTENDS Integers, Sequences, SequencesExt, FiniteSets

CONSTANTS
    BlockSize,   \* of a ustar archive: 512
    NameLen,     \* the length of every name read by readdir
    NMajors,     \* the entries of cdevsw: 64
    Archives,    \* the ramdisks, each a sequence of members
    FileNames, DeviceNames, Drivers,
    WriteSizes, WriteOffs, BufSizes,  \* arguments of the calls
    MaxOps       \* bound: calls after unpacking

ASSUME FilesAssumption ==
    /\ BlockSize \in Nat \ {0} /\ NMajors \in Nat \ {0} /\ NameLen \in Nat /\ MaxOps \in Nat
    /\ WriteSizes \subseteq Nat /\ WriteOffs \subseteq Nat /\ BufSizes \subseteq Nat

ROUNDUP(n, m) == ((n + m - 1) \div m) * m
ENOENT == 2
EINVAL == 22
INT32_MAX == 2147483647

------------------------------------------------------------------------------
\* tmpfs.  A directory's entries are in the order of their creation.
tlookup(f, n, name) == SelectInSeq(f.nodes[n].entries, LAMBDA d : d.name = name)

\* dev.c: a vnode of a device joins the others of the same device.
spec_setup_vnode_New(f, vn, dev) ==  \* mutant: the list is not searched
    [f EXCEPT !.specdevs = <<[dev |-> dev, vnodes |-> <<vn>>]>> \o @]
spec_setup_vnode(f, vn, dev) ==
    LET i == SelectInSeq(f.specdevs, LAMBDA s : s.dev = dev)
    IN  IF i # 0 THEN [f EXCEPT !.specdevs[i].vnodes = <<vn>> \o @]
        ELSE [f EXCEPT !.specdevs = <<[dev |-> dev, vnodes |-> <<vn>>]>> \o @]

\* A node's vnode; its number is f.nodes[n].vn afterwards.
tmpfs_vget(f, n) ==
    LET node == f.nodes[n]
        vn   == Len(f.vnodes) + 1
        g    == [f EXCEPT !.nodes[n].vn = vn,
                          !.vnodes = Append(@, [node |-> n, refcnt |-> 1, type |-> node.type])]
    IN  IF node.vn # 0 THEN [f EXCEPT !.vnodes[node.vn].refcnt = @ + 1]
        ELSE IF node.type = "VCHR" THEN spec_setup_vnode(g, vn, node.rdev) ELSE g

tmakenode(f, dn, name, attr) ==
    LET n == Len(f.nodes) + 1
    IN  [f EXCEPT !.nodes = Append([@ EXCEPT ![dn].entries = Append(@, [name |-> name, node |-> n])],
                                   [type |-> attr.type, rdev |-> attr.rdev, vn |-> 0, parent |-> dn,
                                    entries |-> <<>>, data |-> <<>>])]

\* The result of a lookup: the file system, a return code and a vnode.  An
\* assertion that fails stops the kernel.
Found(f, vn) == [f |-> f, r |-> 0, vn |-> vn, panic |-> FALSE]
Fails(f, r)  == [f |-> f, r |-> -r, vn |-> 0, panic |-> FALSE]
Panic(f)     == [f |-> f, r |-> 0, vn |-> 0, panic |-> TRUE]

VNTOTN(f, vn) == f.vnodes[vn].node
GotNode(f, n) == LET g == tmpfs_vget(f, n) IN Found(g, g.nodes[n].vn)

tmp_create(f, dvn, name, attr) ==
    IF f.vnodes[dvn].type # "VDIR" THEN Panic(f)
    ELSE GotNode(tmakenode(f, VNTOTN(f, dvn), name, attr), Len(f.nodes) + 1)

\* The root's parent is never set: what is there is anything, and -1 stands for a
\* pointer to no node.
tmp_lookup(f, dvn, name) ==
    LET n == VNTOTN(f, dvn)
        i == tlookup(f, n, name)
    IN  IF f.nodes[n].type # "VDIR" THEN Panic(f)
        ELSE IF name = ".." THEN
                 CASE f.nodes[n].parent = 0  -> Found(f, dvn)
                   [] f.nodes[n].parent = -1 -> Panic(f)
                   [] OTHER -> Found(f, f.nodes[f.nodes[n].parent].vn)
        ELSE IF i = 0 THEN Fails(f, ENOENT)
        ELSE GotNode(f, f.nodes[n].entries[i].node)

\* A file's data grows to the end of a write; what was never written is zero.
tmp_write_Short(f, vn, bytes, off) ==  \* mutant: the size is that of the last write
    LET n == VNTOTN(f, vn)
        end == off + Len(bytes)
    IN  IF bytes = <<>> THEN f
        ELSE [f EXCEPT !.nodes[n].data =
                  [i \in 1 .. end |-> IF i > off THEN bytes[i - off]
                                      ELSE IF i <= Len(@) THEN @[i] ELSE 0]]
tmp_write(f, vn, bytes, off) ==
    LET n == VNTOTN(f, vn)
        end == off + Len(bytes)
    IN  IF bytes = <<>> THEN f
        ELSE [f EXCEPT !.nodes[n].data =
                  [i \in 1 .. (IF end > Len(@) THEN end ELSE Len(@)) |->
                      IF i \in off + 1 .. end THEN bytes[i - off]
                      ELSE IF i <= Len(@) THEN @[i] ELSE 0]]
tmp_read(f, vn, nbyte, off) ==
    LET data == f.nodes[VNTOTN(f, vn)].data
        n    == IF off + nbyte <= Len(data) THEN nbyte
                ELSE IF Len(data) <= off THEN 0 ELSE Len(data) - off
    IN  IF f.nodes[VNTOTN(f, vn)].type # "VREG" THEN -EINVAL ELSE SubSeq(data, off + 1, off + n)

\* One call: the entries it writes and the sequence number it returns.  The index
\* is incremented twice for an entry that is written.
DIRENT_RECLEN(len) == ROUNDUP(19 + 1 + len, 8)
ReaddirStep_Again(nbyte, seqno, w, k) ==  \* mutant: starts one entry too early
    IF w.stop THEN w
    ELSE IF w.i + 1 < seqno THEN [w EXCEPT !.i = @ + 1]
    ELSE IF (Len(w.got) + 1) * DIRENT_RECLEN(NameLen) > nbyte - 1
         THEN [w EXCEPT !.i = @ - 1, !.stop = TRUE]
    ELSE [w EXCEPT !.got = Append(@, k), !.i = @ + 2]
ReaddirStep(nbyte, seqno, w, k) ==
    IF w.stop THEN w
    ELSE IF w.i < seqno THEN [w EXCEPT !.i = @ + 1]
    ELSE IF (Len(w.got) + 1) * DIRENT_RECLEN(NameLen) > nbyte - 1
         THEN [w EXCEPT !.i = @ - 1, !.stop = TRUE]
    ELSE [w EXCEPT !.got = Append(@, k), !.i = @ + 2]
tmp_readdir(f, dvn, nbyte, seqno) ==
    LET entries == f.nodes[VNTOTN(f, dvn)].entries
        w == FoldLeft(LAMBDA s, k : ReaddirStep(nbyte, seqno, s, k),
                      [got |-> <<>>, i |-> 0, stop |-> FALSE], [k \in 1 .. Len(entries) |-> k])
    IN  [got |-> w.got, r |-> IF w.stop THEN w.i ELSE INT32_MAX]

------------------------------------------------------------------------------
\* vfs_lookup.  With creat the last component is created, whether it exists or not.
vfs_lookup(f, cwd, path, creat, attr) ==
    LET Step(s, k) ==
            LET sub == path.sub[k]
            IN  IF s.r < 0 \/ s.panic \/ sub \in {".", ""} THEN s
                ELSE IF creat /\ k = Len(path.sub) THEN tmp_create(s.f, s.vn, sub, attr)
                ELSE tmp_lookup(s.f, s.vn, sub)
    IN  FoldLeft(Step, Found(f, IF path.abs THEN f.root ELSE cwd), [k \in 1 .. Len(path.sub) |-> k])

\* tmpfs_mount, and the directory /dev.
tmpfs_mount(parent) ==
    tmpfs_vget([nodes |-> <<[type |-> "VDIR", rdev |-> 0, vn |-> 0, parent |-> parent,
                             entries |-> <<>>, data |-> <<>>]>>,
                vnodes |-> <<>>, specdevs |-> <<>>, root |-> 1, dev |-> 0], 1)
Mounted(parent) ==
    LET c == tmp_create(tmpfs_mount(parent), 1, "dev", [type |-> "VDIR", rdev |-> 0])
    IN  [c.f EXCEPT !.dev = c.vn]

\* The archive, as the tar program writes it: a header, the data padded to whole
\* blocks, and an empty header at the end.
Octal(n) == [k \in 1 .. 11 |-> (n \div 8 ^ (11 - k)) % 8]
EndOfArchive == [filename |-> [abs |-> FALSE, sub |-> <<>>], type |-> "", size |-> Octal(0)]
Padded(data) == data \o [i \in 1 .. ROUNDUP(Len(data), BlockSize) - Len(data) |-> 0]
DataBlocks(data) ==
    [b \in 1 .. Len(Padded(data)) \div BlockSize |->
        SubSeq(Padded(data), (b - 1) * BlockSize + 1, b * BlockSize)]
Tape(archive) ==
    FlattenSeq([m \in 1 .. Len(archive) |->
        <<[filename |-> archive[m].filename, type |-> archive[m].type,
           size |-> Octal(Len(archive[m].data))]>> \o DataBlocks(archive[m].data)])
    \o <<EndOfArchive>>

oct2i(s) == FoldLeft(LAMBDA n, d : n * 8 + d, 0, s)

\* One header: s is the file system and the position i.  A file that cannot be
\* created is written all the same, through a pointer that was never set.
UnpackOne(tape, s) ==
    LET star  == tape[s.i \div BlockSize + 1]
        fsize == oct2i(star.size)
        after == FlattenSeq(SubSeq(tape, s.i \div BlockSize + 2,
                                   s.i \div BlockSize + 1 + ROUNDUP(fsize, BlockSize) \div BlockSize))
        made(type) == vfs_lookup(s.f, s.f.root, star.filename, TRUE, [type |-> type, rdev |-> 0])
        next == [s EXCEPT !.i = @ + BlockSize + ROUNDUP(fsize, BlockSize)]
    IN  IF star.filename.sub = <<>> THEN [s EXCEPT !.done = TRUE]
        ELSE IF star.filename.sub = <<".">> THEN next
        ELSE CASE star.type = "kUStarDirectory" ->
                      [next EXCEPT !.f = made("VDIR").f, !.done = made("VDIR").panic]
               [] star.type = "kUStarNormal" ->
                      LET l == made("VREG")
                      IN  IF l.panic \/ l.r < 0 THEN [next EXCEPT !.done = TRUE]
                          ELSE [next EXCEPT !.f = tmp_write(l.f, l.vn, SubSeq(after, 1, fsize), 0)]
               [] OTHER -> next
Unpacked(parent, archive) ==
    LET tape == Tape(archive)
    IN  FoldLeft(LAMBDA s, k : IF s.done \/ s.i >= Len(tape) * BlockSize THEN s
                               ELSE UnpackOne(tape, s),
                 [f |-> Mounted(parent), i |-> 0, done |-> FALSE], [k \in 1 .. Len(tape) |-> k]).f

------------------------------------------------------------------------------
VARIABLES
    fs,       \* the file system
    cdevsw,   \* the drivers by major number
    shadow,   \* what was created and written, by path
    reader,   \* a program that reads the root directory call by call
    ops

file_vars == <<fs, cdevsw, shadow, reader, ops>>

Abs(p) == [abs |-> TRUE, sub |-> p]
Plain(path) == SelectSeq(path.sub, LAMBDA c : c # ".")
NoBytes == [i \in {} |-> 0]
Written(bytes, off) == [i \in off + 1 .. off + Len(bytes) |-> bytes[i - off]]
Made(type, bytes, driver) == [type |-> type, bytes |-> bytes, driver |-> driver]

ShadowOf(archive) ==
    LET member(p) == archive[CHOOSE m \in DOMAIN archive : Plain(archive[m].filename) = p]
    IN  [p \in ({<<"dev">>} \cup {Plain(archive[m].filename) : m \in DOMAIN archive}) \ {<<>>} |->
            IF p = <<"dev">> \/ member(p).type = "kUStarDirectory" THEN Made("VDIR", NoBytes, "")
            ELSE Made("VREG", Written(member(p).data, 0), "")]

\* unpack_ramdisk has run.
Boot(parent, archive) ==
    /\ fs = Unpacked(parent, archive)
    /\ cdevsw = <<>>
    /\ shadow = ShadowOf(archive)
    /\ reader = [seqno |-> 0, got |-> <<>>, short |-> TRUE, ended |-> FALSE, of |-> 0]
    /\ ops = 0
FilesInit == \E archive \in Archives, parent \in {0, -1} : Boot(parent, archive)

Called == ops < MaxOps /\ ops' = ops + 1
VnodeAt(p) == vfs_lookup(fs, fs.root, Abs(p), FALSE, [type |-> "VNON", rdev |-> 0])

\* A file is created under a name that is not taken.
Create(p) ==
    /\ Called
    /\ p \notin DOMAIN shadow
    /\ fs' = vfs_lookup(fs, fs.root, Abs(p), TRUE, [type |-> "VREG", rdev |-> 0]).f
    /\ shadow' = [q \in {p} \cup DOMAIN shadow |->
                      IF q = p THEN Made("VREG", NoBytes, "") ELSE shadow[q]]
    /\ UNCHANGED <<cdevsw, reader>>

Write(p, n, off) ==
    LET bytes == [i \in 1 .. n |-> 100 + ops]
    IN  /\ Called
        /\ shadow[p].type = "VREG"
        /\ fs' = tmp_write(VnodeAt(p).f, VnodeAt(p).vn, bytes, off)
        /\ shadow' = [shadow EXCEPT ![p].bytes =
                          [i \in DOMAIN @ \cup DOMAIN Written(bytes, off) |->
                              IF i \in DOMAIN Written(bytes, off) THEN bytes[i - off] ELSE @[i]]]
        /\ UNCHANGED <<cdevsw, reader>>

\* Its buffer has room for an entry: with less the call would go back, and return
\* -1 or the 0 that means the end.
Readdir(nbyte) ==
    LET c == tmp_readdir(fs, fs.root, nbyte, reader.seqno)
    IN  /\ Called
        /\ ~reader.ended
        /\ reader' = [seqno |-> c.r, got |-> reader.got \o c.got,
                      short |-> reader.short /\ (c.r = INT32_MAX \/ Len(c.got) = 1),
                      ended |-> c.r = INT32_MAX, of |-> Len(fs.nodes[1].entries)]
        /\ UNCHANGED <<fs, cdevsw, shadow>>

cdevsw_attach(driver) ==
    /\ Called
    /\ driver \notin Range(cdevsw)
    /\ cdevsw' = IF Len(cdevsw) < NMajors THEN Append(cdevsw, driver) ELSE cdevsw
    /\ UNCHANGED <<fs, shadow, reader>>

\* A driver makes a node for one of its devices.
devfs_make_node(major, name) ==
    /\ Called
    /\ <<"dev", name>> \notin DOMAIN shadow
    /\ fs' = tmp_create(fs, fs.dev, name, [type |-> "VCHR", rdev |-> major]).f
    /\ shadow' = [q \in {<<"dev", name>>} \cup DOMAIN shadow |->
                      IF q = <<"dev", name>> THEN Made("VCHR", NoBytes, cdevsw[major]) ELSE shadow[q]]
    /\ UNCHANGED <<cdevsw, reader>>

FilesNext ==
    \/ \E name \in FileNames : Create(<<name>>)
    \/ \E p \in DOMAIN shadow, n \in WriteSizes, off \in WriteOffs : Write(p, n, off)
    \/ \E nbyte \in BufSizes : Readdir(nbyte)
    \/ \E driver \in Drivers : cdevsw_attach(driver)
    \/ \E major \in DOMAIN cdevsw, name \in DeviceNames : devfs_make_node(major, name)

------------------------------------------------------------------------------
\* The ramdisk is unpacked as it was packed, and a file reads as it was written:
\* every path leads to a node of its type, ".." leads back, a read returns the
\* bytes written last, zero in a hole, and stops at the end of the file.
ReadOf(bytes, n, off) ==
    LET end  == IF bytes = NoBytes THEN 0 ELSE CHOOSE i \in DOMAIN bytes : \A j \in DOMAIN bytes : j <= i
        have == Cardinality({i \in 1 .. end : i \in off + 1 .. off + n})
    IN  [i \in 1 .. have |-> IF off + i \in DOMAIN bytes THEN bytes[off + i] ELSE 0]
FilesAsWritten ==
    \A p \in DOMAIN shadow :
        LET l == VnodeAt(p)
        IN  /\ l.r = 0 /\ ~l.panic /\ l.f.vnodes[l.vn].type = shadow[p].type
            /\ shadow[p].type = "VDIR" =>
                   VNTOTN(l.f, vfs_lookup(l.f, l.vn, [abs |-> FALSE, sub |-> <<"..">>], FALSE, 0).vn)
                       = VNTOTN(VnodeAt(Front(p)).f, VnodeAt(Front(p)).vn)
            /\ shadow[p].type = "VREG" =>
                   \A n \in {1, 2 * BlockSize}, off \in {0, BlockSize, 2 * BlockSize + 1} :
                       tmp_read(l.f, l.vn, n, off) = ReadOf(shadow[p].bytes, n, off)

\* A directory read by several calls, while files are created in it, never yields
\* an entry twice or out of order; and when every call but the last yields one
\* entry, or the first yields all, it yields every entry.
ReaddirOrder ==
    /\ \A i, j \in DOMAIN reader.got : i < j => reader.got[i] < reader.got[j]
    /\ reader.short => \A i \in DOMAIN reader.got : reader.got[i] = i
    /\ reader.short /\ reader.ended => Len(reader.got) = reader.of

\* A device has one specdev, on whose list every vnode of the device is once, and
\* its nodes lead to the driver that made them.
Opens(vn) ==  \* spec_open, spec_read and spec_write
    cdevsw[fs.specdevs[CHOOSE i \in DOMAIN fs.specdevs : Contains(fs.specdevs[i].vnodes, vn)].dev]
DeviceNodes ==
    /\ \A i, j \in DOMAIN fs.specdevs : fs.specdevs[i].dev = fs.specdevs[j].dev => i = j
    /\ \A i \in DOMAIN fs.specdevs :
           LET s == fs.specdevs[i]
           IN  /\ IsInjective(s.vnodes)
               /\ Range(s.vnodes) = {vn \in DOMAIN fs.vnodes :
                                        fs.vnodes[vn].type = "VCHR"
                                        /\ fs.nodes[VNTOTN(fs, vn)].rdev = s.dev}
    /\ \A p \in DOMAIN shadow :
           shadow[p].type = "VCHR" => Opens(VnodeAt(p).vn) = shadow[p].driver
===============================================================================
