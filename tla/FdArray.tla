------------------------------ MODULE FdArray ------------------------------
(***************************************************************************)
(* The file-descriptor layer of project 4, src/project4/src/userprog/      *)
(* syscall.c: each thread's array Fd[0..127] of struct file pointers, the  *)
(* open, close, read, write, filesize, seek and tell calls with their      *)
(* early exits, and exit, which closes every fd from 3 to 127.             *)
(*                                                                         *)
(* Several processes share the files; each has its own Fd array, touched   *)
(* only by its own thread, so a call of one process is one step (open and  *)
(* write hold lock w, read the readers' lock: RWLock checks those).  The   *)
(* file system of project 4 (filesys.c, file.c, inode.c) is not in the     *)
(* repository: a file is its inode's deny_write_cnt, and a struct file its *)
(* inode and its deny_write flag (spec 4.2: file_deny_write at most once   *)
(* per struct file, undone by file_close).  Positions and bytes are left   *)
(* out: no property here tells them apart.  Fd[0], Fd[1] and Fd[2] stay    *)
(* NULL (init_thread zeroes struct thread; open fills from 3 on).          *)
(***************************************************************************)
EXTENDS Integers

CONSTANTS
    Procs,      \* the user processes
    Paths,      \* the names passed to open
    NullPath,   \* a NULL name pointer
    Target,     \* Target[p]: the file p names, or NoFile
    NoFile,
    ProcName,   \* the running program's name (thread name)
    FdLimit,    \* the last index of Fd (127)
    Null,       \* a NULL struct file pointer
    Transferred \* the count file_write or putbuf reports (bytes not modelled)

Fids == {Target[p] : p \in Paths} \ {NoFile}
FdIdx == 0 .. FdLimit

\* struct file: its inode, its deny_write flag; path, the name it was opened
\* by, is a ghost for the properties.
Handle == [fid : Fids, deny : BOOLEAN, path : Paths]

Proc == [fd : [FdIdx -> Handle \cup {Null}], status : {"run", "exit"}]

\* The system: the processes and deny_write_cnt of each file's inode.
Sys == [procs : [Procs -> Proc], deny : [Fids -> Nat]]

NewSys == [procs |-> [q \in Procs |-> [fd |-> [k \in FdIdx |-> Null], status |-> "run"]],
           deny  |-> [f \in Fids |-> 0]]

Result(s, v) == [s |-> s, ret |-> v]

-----------------------------------------------------------------------------

\* file_close: file_allow_write when this struct file denied writes.
FileClose(s, h) == IF h.deny THEN [s EXCEPT !.deny[h.fid] = @ - 1] ELSE s

\* close (fd) of process q: file_close and Fd[fd] = NULL; a NULL Fd[fd]
\* (fds 0, 1, 2 among them) is handled by the caller.
CloseSlot(s, q, k) ==
    [FileClose(s, s.procs[q].fd[k]) EXCEPT !.procs[q].fd[k] = Null]

\* The loop of exit: close every open fd from k up to last.
RECURSIVE CloseLoop(_, _, _, _)
CloseLoop(s, q, k, last) ==
    IF k > last THEN s
    ELSE CloseLoop(IF s.procs[q].fd[k] # Null THEN CloseSlot(s, q, k) ELSE s, q, k + 1, last)

\* Mutant of Exit: the loop stops one short (++fd < 127).
ExitShort(s, q) ==
    Result([CloseLoop(s, q, 3, FdLimit - 1) EXCEPT !.procs[q].status = "exit"], -1)

\* exit (-1): every fd from 3 to 127 that is set is closed, then
\* thread_exit.
Exit(s, q) == Result([CloseLoop(s, q, 3, FdLimit) EXCEPT !.procs[q].status = "exit"], -1)

\* The fd open gives: count runs from 3 while Fd[count] is set, and gives
\* up (-1) once it reaches 127 with that slot set too: the lowest free
\* slot from 3, or 0 for none.
FreeSlot(fd) ==
    LET free == {k \in 3 .. FdLimit : fd[k] = Null}
    IN  IF free = {} THEN 0 ELSE CHOOSE k \in free : \A j \in free : k <= j

\* Mutant of SysOpen: the running program's file is not write-denied.
SysOpenNoDeny(s, q, p) ==
    LET k == FreeSlot(s.procs[q].fd)
    IN  IF p = NullPath THEN Exit(s, q)
        ELSE IF Target[p] = NoFile \/ k = 0 THEN Result(s, -1)
        ELSE Result([s EXCEPT !.procs[q].fd[k] =
                        [fid |-> Target[p], deny |-> FALSE, path |-> p]], k)

\* SYS_OPEN: a NULL name exits; filesys_open failing returns -1; a full
\* array returns -1 (the struct file filesys_open made is not closed);
\* the program's own name gets file_deny_write; Fd[count] = the file.
SysOpen(s, q, p) ==
    LET k   == FreeSlot(s.procs[q].fd)
        own == p = ProcName
    IN  IF p = NullPath THEN Exit(s, q)
        ELSE IF Target[p] = NoFile \/ k = 0 THEN Result(s, -1)
        ELSE LET t == IF own THEN [s EXCEPT !.deny[Target[p]] = @ + 1] ELSE s
             IN  Result([t EXCEPT !.procs[q].fd[k] =
                            [fid |-> Target[p], deny |-> own, path |-> p]], k)

\* SYS_CLOSE: a NULL Fd[fd] exits.
SysClose(s, q, fd) ==
    IF s.procs[q].fd[fd] = Null THEN Exit(s, q) ELSE Result(CloseSlot(s, q, fd), 0)

\* SYS_READ: a NULL Fd[fd], or fd 1 or 2, exits; else file_read (fd 0
\* never gets past the NULL check: Fd[0] is NULL).
SysRead(s, q, fd) ==
    IF s.procs[q].fd[fd] = Null \/ (fd # 0 /\ fd <= 2) THEN Exit(s, q)
    ELSE Result(s, Transferred)

\* SYS_WRITE: fd 1 goes to putbuf; fd 0 or 2, or a NULL Fd[fd], exits;
\* else file_write, which transfers nothing while the inode denies writes.
SysWrite(s, q, fd) ==
    LET h == s.procs[q].fd[fd]
    IN  IF fd = 1 THEN Result(s, Transferred)
        ELSE IF fd <= 2 \/ h = Null THEN Exit(s, q)
        ELSE Result(s, IF s.deny[h.fid] > 0 THEN 0 ELSE Transferred)

\* SYS_FILESIZE, SYS_SEEK, SYS_TELL: a NULL Fd[fd] exits; else a call on
\* the file that changes nothing modelled.
SysFileQuery(s, q, fd) ==
    IF s.procs[q].fd[fd] = Null THEN Exit(s, q) ELSE Result(s, 0)

-----------------------------------------------------------------------------
(* Every system state a sequence of calls of the processes reaches.       *)

\* The results of every call a running process q can make in s.
Calls(s, q) ==
    IF s.procs[q].status # "run" THEN {}
    ELSE {Exit(s, q)}
         \cup {SysOpen(s, q, p) : p \in Paths \cup {NullPath}}
         \cup UNION {{SysClose(s, q, fd), SysRead(s, q, fd), SysWrite(s, q, fd),
                      SysFileQuery(s, q, fd)} : fd \in FdIdx}

RECURSIVE Explore(_, _)
Explore(seen, new) ==
    IF new = {} THEN seen
    ELSE LET next == {r.s : r \in UNION {Calls(s, q) : s \in new, q \in Procs}} \ seen
         IN  Explore(seen \cup next, next)

SysReachable == Explore({NewSys}, {NewSys})

-----------------------------------------------------------------------------
(* Properties, over every reachable system state.                          *)

FdTypeOK == SysReachable \subseteq Sys

\* The running program's file is writable exactly when no running process
\* holds it open by the program's name: a write through any process's fd
\* on that file transfers nothing while such an fd is open in some running
\* process, and goes through once every such fd was closed by close or by
\* exit's loop over fds 3..127 (whichever slot it sat in, whichever
\* process opened it, and however many aliases are open).
ExeWritable ==
    \A s \in SysReachable : \A q \in Procs : \A k \in 3 .. FdLimit :
        LET h == s.procs[q].fd[k]
        IN  h # Null /\ s.procs[q].status = "run" =>
              (SysWrite(s, q, k).ret = 0 <=>
                 \E r \in Procs, j \in 3 .. FdLimit :
                    /\ s.procs[r].status = "run"
                    /\ s.procs[r].fd[j] # Null
                    /\ s.procs[r].fd[j].fid = h.fid
                    /\ s.procs[r].fd[j].path = ProcName)
=============================================================================
