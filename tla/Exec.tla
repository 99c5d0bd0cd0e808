--------------------------------- MODULE Exec ---------------------------------
(***************************************************************************)
(* Running a program: posix/exec.c.  (The build leaves it out, while there *)
(* are no processes; vfs_read and the process are external.)               *)
(*                                                                         *)
(* A map's memory is a function from the bytes that are allocated.  An     *)
(* image is a file: whether it is found, whether it is an ELF file, its    *)
(* bytes and program headers.  An assertion that fails stops the kernel.   *)
(***************************************************************************)
EXTENDS Integers, Sequences, SequencesExt, Functions, FiniteSets

CONSTANTS
    ExecPage,          \* the size of a page
    RtldBase,          \* where ld.so is loaded: 0x40000000
    StackTop,          \* the end of the stack that vm_allocate finds
    Images, Rtlds,     \* the programs, and the files at /usr/lib/ld.so
    ArgVectors,        \* what argp and envp may be: sequences of strings
    MaxExecs           \* bound: calls

ASSUME ExecAssumption ==
    /\ ExecPage \in Nat \ {0} /\ ExecPage % 16 = 0 /\ RtldBase % ExecPage = 0
    /\ StackTop % ExecPage = 0 /\ MaxExecs \in Nat

PGROUNDDOWN(a) == (a \div ExecPage) * ExecPage
PGROUNDUP(a)   == PGROUNDDOWN(a + ExecPage - 1)
Span(a, n)     == a .. a + n - 1

\* A segment: its whole pages are allocated, zeroed, and the file's part is read
\* to its place.  Pages that are taken are an assertion that fails.
SegmentSize(phdr) == PGROUNDUP(phdr.vaddr - PGROUNDDOWN(phdr.vaddr) + phdr.memsz)
LoadSegment(l, img, base, phdr) ==
    LET segbase == base + PGROUNDDOWN(phdr.vaddr)
        pageoff == phdr.vaddr - PGROUNDDOWN(phdr.vaddr)
        pages   == Span(segbase, SegmentSize(phdr))
        read    == Span(segbase + pageoff, phdr.filesz)
        byte(a) == img.file[phdr.offset + a - (segbase + pageoff) + 1]
    IN  IF pages \cap DOMAIN l.mem # {} THEN [l EXCEPT !.panic = TRUE]
        ELSE [l EXCEPT !.mem = [a \in pages \cup DOMAIN l.mem |->
                                    IF a \in read THEN byte(a)
                                    ELSE IF a \in pages THEN 0 ELSE l.mem[a]]]

\* loadelf: l is the memory so far, the return code, and pkg's fields.
loadelf(mem, img, base) ==
    LET start == [mem |-> mem, r |-> 0, panic |-> FALSE, entry |-> base + img.entry,
                  phnum |-> Len(img.phdrs), phaddr |-> 0]
        Step(l, phdr) ==
            IF l.panic THEN l
            ELSE IF phdr.type = "PT_PHDR" THEN [l EXCEPT !.phaddr = base + phdr.vaddr]
            ELSE IF phdr.type # "PT_LOAD" THEN l
            ELSE LoadSegment(l, img, base, phdr)
    IN  IF ~img.found THEN [start EXCEPT !.r = -2]       \* ENOENT
        ELSE IF ~img.elf THEN [start EXCEPT !.r = -8]    \* ENOEXEC
        ELSE FoldLeft(Step, start, img.phdrs)

\* copyargs: the strings go below the top of the stack, the words below them, from
\* sp upwards; the addresses of the strings are worked out a second time.
Auxv(pkg) == <<"AT_PHNUM", pkg.phnum, "AT_PHENT", 56, "AT_PHDR", pkg.phaddr,
               "AT_ENTRY", pkg.entry, 0, 0>>
PutString(s, str) ==
    LET p == s.p - (Len(str) + 1)
    IN  [p |-> p, mem |-> [a \in Span(p, Len(str) + 1) \cup DOMAIN s.mem |->
                              IF a \notin Span(p, Len(str) + 1) THEN s.mem[a]
                              ELSE IF a = p + Len(str) THEN "NUL" ELSE str[a - p + 1]]]
PointTo(s, str) ==
    [p |-> s.p - (Len(str) + 1), ptrs |-> Append(s.ptrs, s.p - (Len(str) + 1))]
Padding_Even(narg, nenv) == IF (narg + nenv + 2) % 2 = 1 THEN 8 ELSE 0  \* mutant
Padding(narg, nenv) == IF (narg + nenv + 3) % 2 = 1 THEN 8 ELSE 0
copyargs(pkg, stack, argp, envp) ==
    LET strs  == FoldLeft(PutString, [p |-> stack, mem |-> <<>>], envp \o argp)
        envs  == FoldLeft(PointTo, [p |-> stack, ptrs |-> <<>>], envp)
        args  == FoldLeft(PointTo, [p |-> envs.p, ptrs |-> <<>>], argp)
        words == <<Len(argp)>> \o args.ptrs \o <<0>> \o envs.ptrs \o <<0>> \o Auxv(pkg)
        top   == (strs.p \div 16) * 16 - Padding(Len(argp), Len(envp))
    IN  [sp |-> top - 8 * Len(words), words |-> words, strings |-> strs.mem]

------------------------------------------------------------------------------
VARIABLES
    maps,      \* the maps that exist
    task,      \* task->map
    active,    \* the map vm_activate set last
    running,   \* what the program was started with, or <<>>
    failed,    \* the calls that failed
    execs      \* the calls

exec_vars == <<maps, task, active, running, failed, execs>>

ExecInit == maps = {0} /\ task = 0 /\ active = 0 /\ running = <<>> /\ failed = 0 /\ execs = 0

Loaded(img) == loadelf([a \in {} |-> 0], img, 0)
Linked(img, rtld) == loadelf(Loaded(img).mem, rtld, RtldBase)

\* The new map is activated before anything is known of the files; on failure it
\* is left behind.
sys_exec_fail(img, rtld) ==
    /\ Loaded(img).r < 0 \/ (~Loaded(img).panic /\ Linked(img, rtld).r < 0)
    /\ maps' = maps \cup {execs + 1}
    /\ failed' = failed + 1
    /\ task' = task /\ active' = task
    /\ UNCHANGED running
sys_exec(img, rtld, argp, envp) ==
    LET new == execs + 1
        l   == Linked(img, rtld)
    IN  /\ Loaded(img).r = 0 /\ ~Loaded(img).panic /\ l.r = 0 /\ ~l.panic
        /\ task' = new /\ active' = new
        /\ maps' = (maps \cup {new}) \ {task}
        /\ running' = <<[image |-> img, rtld |-> rtld, argp |-> argp, envp |-> envp,
                         mem |-> l.mem, rip |-> l.entry,
                         stack |-> copyargs(Loaded(img), StackTop, argp, envp)]>>
        /\ UNCHANGED failed

ExecNext ==
    /\ execs < MaxExecs /\ execs' = execs + 1
    /\ \E img \in Images, rtld \in Rtlds :
           \/ sys_exec_fail(img, rtld)
           \/ \E argp, envp \in ArgVectors : sys_exec(img, rtld, argp, envp)

------------------------------------------------------------------------------
\* A program finds itself in memory as its file says, the rest of each segment
\* zero, and its arguments and environment where the ABI says: sp is a multiple of
\* 16, and above it are argc, the pointers to the strings, each list ended by a
\* zero, and the auxiliary vector, and nothing overlaps.  Its map is the active
\* one, whether exec failed or not, and an old map is gone once the new one is used.
StringAt(mem, a, str) ==
    /\ \A i \in DOMAIN str : a + i - 1 \in DOMAIN mem /\ mem[a + i - 1] = str[i]
    /\ a + Len(str) \in DOMAIN mem /\ mem[a + Len(str)] = "NUL"
ListAt(k, strs, list) ==  \* the list is at words[k + 1]
    /\ \A i \in DOMAIN list : StringAt(k.strings, k.words[i + strs], list[i])
    /\ k.words[strs + Len(list) + 1] = 0
SegmentThere(mem, img, base, phdr) ==
    \A k \in 0 .. phdr.memsz - 1 :
        /\ base + phdr.vaddr + k \in DOMAIN mem
        /\ mem[base + phdr.vaddr + k] = IF k < phdr.filesz THEN img.file[phdr.offset + k + 1] ELSE 0
ImageThere(mem, img, base) ==
    \A i \in DOMAIN img.phdrs :
        img.phdrs[i].type = "PT_LOAD" => SegmentThere(mem, img, base, img.phdrs[i])
ProgramStarts ==
    /\ active = task /\ task \in maps /\ Cardinality(maps) = 1 + failed
    /\ \A i \in DOMAIN running :
           LET p == running[i]
               k == p.stack
           IN  /\ k.sp % 16 = 0 /\ k.words[1] = Len(p.argp)
               /\ ListAt(k, 1, p.argp) /\ ListAt(k, Len(p.argp) + 2, p.envp)
               /\ \A a \in DOMAIN k.strings : a >= k.sp + 8 * Len(k.words) /\ a < StackTop
               /\ ImageThere(p.mem, p.image, 0) /\ ImageThere(p.mem, p.rtld, RtldBase)
===============================================================================
