------------------------------- MODULE Services -------------------------------
(***************************************************************************)
(* What the kernel does for its users above threads and memory: the        *)
(* console, the file system, disks, and running a program.  They share no  *)
(* state, so that a behaviour is one of either.                            *)
(***************************************************************************)
EXTENDS Console, Files, Disks, Exec

VARIABLE part

Init ==
    /\ part \in {"console", "files", "disks", "exec"}
    /\ ConsoleInit
    /\ IF part = "files" THEN FilesInit ELSE Boot(0, <<>>)
    /\ DisksInit
    /\ ExecInit

Next ==
    \/ part = "console" /\ ConsoleNext /\ UNCHANGED <<part, file_vars, disk_vars, exec_vars>>
    \/ part = "files" /\ FilesNext /\ UNCHANGED <<part, console_vars, disk_vars, exec_vars>>
    \/ part = "disks" /\ DisksNext /\ UNCHANGED <<part, console_vars, file_vars, exec_vars>>
    \/ part = "exec" /\ ExecNext /\ UNCHANGED <<part, console_vars, file_vars, disk_vars>>

Spec == Init /\ [][Next]_<<part, console_vars, file_vars, disk_vars, exec_vars>>
===============================================================================
