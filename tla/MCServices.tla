------------------------------ MODULE MCServices ------------------------------
\* Instances of Services for TLC: messages, ramdisks, partition tables
\* and programs.
EXTENDS Services

CSI(s) == <<"ESC", "[">> \o s

\* They fill and wrap the ring, and leave the cursor in different places.
MCEarlyMsgs == {<<"a">>, <<"b", "LF">>}

\* Text and line feeds; margins with the cursor moved into, onto and below them;
\* what erases and moves text; colours; states that are saved and restored.
MCMessages == {
    <<"LF">>, <<"a", "b", "a">>, <<"b", "BS", "TAB", "CR", "DEL", "a", "ESC", "ESC">>,
    CSI(<<"1", ";", "2", "r">>) \o CSI(<<"B">>), CSI(<<"2", ";", "3", "r">>) \o CSI(<<"3", "d">>),
    CSI(<<"1", ";", "2", "r">>) \o CSI(<<"3", ";", "2", "H">>),
    <<"ESC", "M">>, <<"ESC", "D", "ESC", "E">>,
    CSI(<<"A">>) \o CSI(<<"1", "J">>), CSI(<<"J">>) \o CSI(<<"2", "G">>), CSI(<<"2", "J">>),
    CSI(<<"1", "K">>) \o CSI(<<"F">>), CSI(<<"K">>) \o CSI(<<"s">>) \o <<"b">>,
    CSI(<<"u">>) \o CSI(<<"2", "K">>) \o CSI(<<"E">>),
    CSI(<<"P">>) \o CSI(<<"C">>) \o CSI(<<"X">>), CSI(<<"@">>) \o CSI(<<"D">>),
    CSI(<<"3", "1", ";", "1", "m">>) \o <<"a">>, CSI(<<"7", ";", "9", "2", "m">>) \o <<"b">>,
    CSI(<<"4", "4", ";", "2", "7", "m">>), CSI(<<"2", "2", ";", "m">>),
    CSI(<<"?", "2", "5", "l">>), CSI(<<"4", "h">>), <<"ESC", "7">>, <<"ESC", "8">>,
    <<"ESC", ")", "0", "SO", "q", "SI">>, <<"ESC", "c">>, CSI(<<"[", "a">>)}

Directory(p) ==
    [filename |-> [abs |-> FALSE, sub |-> p], type |-> "kUStarDirectory", data |-> <<>>]
File(p, n) ==
    [filename |-> [abs |-> FALSE, sub |-> p], type |-> "kUStarNormal", data |-> [i \in 1 .. n |-> i]]

\* Files of no, one, several and parts of blocks; a ramdisk that has a /dev itself.
MCArchives ==
    {<<Directory(<<".">>), Directory(<<".", "usr">>), Directory(<<".", "usr", "lib">>),
       File(<<".", "usr", "lib", "ld.so">>, 9), File(<<".", "init">>, 4)>>,
     <<Directory(<<".", "dev">>), File(<<".", "dev", "log">>, 0), File(<<".", "etc">>, 5)>>}

Partition(type, lbaStart, lbaEnd) == [type |-> type, lbaStart |-> lbaStart, lbaEnd |-> lbaEnd]
Table(array, sizEntry, entries) ==
    [signature |-> "EFI PART", lbaEntryArrayStart |-> array, sizEntry |-> sizEntry, entries |-> entries]

\* An array of one page, and of three; one that has no whole number of blocks; an
\* unused entry; a partition too small to be mounted, and one past the disk's end.
MCTables ==
    {Table(2, 2, <<Partition("data", 3, 8), Partition("null", 0, 0),
                   Partition("data", 8, 9), Partition("data", 9, 24)>>),
     Table(3, 4, <<Partition("null", 0, 0), Partition("null", 0, 0), Partition("data", 12, 18),
                   Partition("data", 20, 30), Partition("null", 0, 0)>>),
     Table(2, 2, <<Partition("data", 3, 8)>>),
     [Table(0, 2, <<Partition("data", 0, 1)>>) EXCEPT !.signature = "none"]}

Load(vaddr, filesz, memsz, offset) ==
    [type |-> "PT_LOAD", vaddr |-> vaddr, filesz |-> filesz, memsz |-> memsz, offset |-> offset]
Image(phdrs) ==
    [found |-> TRUE, elf |-> TRUE, entry |-> 1, phdrs |-> phdrs, file |-> [i \in 1 .. 20 |-> i]]
Missing == [Image(<<>>) EXCEPT !.found = FALSE]

\* Segments that begin and end within a page, cross one, and share one.
MCImages ==
    {Image(<<[Load(2, 2, 2, 0) EXCEPT !.type = "PT_PHDR"], Load(3, 4, 4, 0), Load(30, 3, 6, 4)>>),
     Image(<<Load(0, 16, 17, 2), [Load(0, 0, 0, 0) EXCEPT !.type = "PT_DYNAMIC"]>>),
     Image(<<Load(0, 1, 1, 0), Load(5, 1, 1, 3)>>),
     Missing, [Image(<<>>) EXCEPT !.elf = FALSE]}
MCRtlds == {Image(<<Load(31, 2, 2, 0)>>), Missing}
MCArgVectors ==
    {<<>>, << <<>> >>, << <<"a", "b", "c">>, <<"d">> >>,
     << <<"a", "b", "c", "d", "e", "f", "g", "h">>, <<"x">>, <<>> >>}
===============================================================================
