---------------------------- MODULE MC_FrameTable ----------------------------
(* Instantiation of FrameTable for TLC, with the byte transfer of a file   *)
(* of the same kernel (InodeIO) and the fd layer over it (FdTable).  Their *)
(* checks are constant-level, over every file or process state any         *)
(* sequence of calls reaches; they are stated at the initial state so that *)
(* TLC evaluates them once.                                                *)
EXTENDS FrameTable, TLC

CONSTANTS p1, p2, a1, a2, a3

CONSTANTS SecSize, MaxLen, Tags, Openers, va, vb, o1

CONSTANTS Paths, NullPath, NoFile, Dirs, ProcName, MaxFds, MaxNum,
          pExe, pAlias, pDir, pMiss, fExe, fDir

\* The program's own name and another name of the same file, a directory
\* and a name that does not exist.
MCTarget == [p \in {pExe, pAlias, pDir, pMiss} |->
                CASE p = pExe -> fExe [] p = pAlias -> fExe [] p = pDir -> fDir
                  [] OTHER -> NoFile]

IO == INSTANCE InodeIO

\* The fd layer over files of at most two bytes in one-byte sectors and one
\* buffer tag (the sector arithmetic is checked by IO); every fd number may
\* deny writes.
FD == INSTANCE FdTable WITH Target <- MCTarget, SecSize <- 1, MaxLen <- 2,
                            Tags <- {va}, Openers <- 3 .. MaxNum

\* inode_read_at returns exactly the bytes of the reference file, after any
\* sequence of inode_write_at, deny and allow calls (growing, gapped,
\* straddling sectors, partial, failing to reserve, denied): see InodeIO.
IOReadCorrect == Init => IO!ReadCorrect

\* Open fds have distinct numbers from 3 up, increasing along fd_head,
\* after any sequence of opens and closes: see FdTable.
FdNumbering == Init => FD!FdNumbering

\* A write to the running program's file, through any fd, transfers
\* nothing while an fd opened by the program's name is open, and goes
\* through once none is: see FdTable.
ExeProtected == Init => FD!ExeProtected
=============================================================================
