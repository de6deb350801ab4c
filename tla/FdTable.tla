------------------------------ MODULE FdTable ------------------------------
(***************************************************************************)
(* The file-descriptor layer of project 5, src/project5/src/userprog/      *)
(* syscall.c: the per-thread list fd_head of struct Fd, get_file, and the  *)
(* open, close, read, write, filesize, seek, tell, isdir and inumber calls *)
(* with their cases in syscall_handler, over the files of InodeIO.         *)
(*                                                                         *)
(* A user process has one thread, and fd_head is touched only by it, so    *)
(* its calls are a sequence: a call is an operator from the process record *)
(* to the record after it and the value left in eax.  filesys_open and the *)
(* struct file calls (file_read, file_write, file_seek, file_tell,         *)
(* file_length, file_deny_write, file_close) are in file.c and filesys.c,  *)
(* not in the repository; they follow spec 4.2 and 5: a file has its own   *)
(* position, and deny_write protects the running program's file.          *)
(* Reading stdin (fd 0) is not modelled here: see the README.              *)
(***************************************************************************)
EXTENDS InodeIO, SequencesExt

CONSTANTS
    Paths,      \* the names a process passes to open
    NullPath,   \* a NULL name pointer
    Target,     \* Target[p]: the file or directory p names, or NoFile
    NoFile,
    Dirs,       \* the directories among the targets
    ProcName,   \* thread_current ()->name: the running program's name
    MaxFds,     \* the fds the user pool has pages for (palloc_get_page)
    MaxNum      \* the largest fd number the model lets open hand out

Fids == {Target[p] : p \in Paths} \ {NoFile}
\* fd 0 (stdin) is left out; 2 stands for the fds below 3 get_file refuses.
FdNums == 1 .. MaxNum + 1

\* struct Fd with its struct file: num, the file's target, the file's pos and
\* deny_write flag, and whether dir is set (a directory); path, the name it
\* was opened by, is a ghost for the properties.
FdRec == [num : 3 .. MaxNum, fid : Fids, pos : 0 .. MaxLen, deny : BOOLEAN,
          dir : BOOLEAN, path : Paths]

\* A process: fd_head, the files, and whether it runs, was ended by
\* exit (-1), took a kernel fault (a NULL dereference) or panicked (a
\* failed ASSERT).
Proc == [fds : Seq(FdRec), files : [Fids -> File],
         status : {"run", "exit", "fault", "panic"}]

NewProc == [fds |-> <<>>, files |-> [f \in Fids |-> EmptyFile], status |-> "run"]

\* A call's result: the process after it and the value returned in eax.
Result(s, v) == [s |-> s, ret |-> v]

-----------------------------------------------------------------------------

\* get_file (dnum, flag): the index in fd_head of the first Fd numbered dnum
\* whose kind flag admits ("F" a file, "D" a directory), or 0 for NULL;
\* fds 0, 1 and 2 are never looked up.
GetFile(s, dnum, flag) ==
    IF dnum < 3 THEN 0
    ELSE SelectInSeq(s.fds, LAMBDA d : d.num = dnum /\ (IF d.dir THEN "D" ELSE "F") \in flag)

\* exit (-1): the process ends (thread_exit; process.c is not in the
\* repository, its fds are not closed here).
Exit(s) == Result([s EXCEPT !.status = "exit"], -1)

\* Mutant of NextNum: the new fd is numbered by the length of the list.
NextNumCount(fds) == Len(fds) + 3

\* The number open gives: 3 for an empty list, else one more than the
\* number of the Fd at the back.
NextNum(fds) == IF fds = <<>> THEN 3 ELSE Last(fds).num + 1

\* Mutant of SysOpen: the running program's file is not write-denied.
SysOpenNoDeny(s, p) ==
    IF p = NullPath THEN Exit(s)
    ELSE IF Len(s.fds) >= MaxFds \/ Target[p] = NoFile THEN Result(s, -1)
    ELSE LET n == NextNum(s.fds)
         IN  Result([s EXCEPT !.fds = Append(@, [num |-> n, fid |-> Target[p], pos |-> 0,
                                                 deny |-> FALSE, dir |-> Target[p] \in Dirs,
                                                 path |-> p])], n)

\* open_cnt of f's inode once the process holds the fds fds: one per fd
\* (other holders of the inode are not modelled).
OpenCnt(fds, f) == Cardinality({j \in 1 .. Len(fds) : fds[j].fid = f})

\* SYS_OPEN: a NULL name exits; palloc_get_page failing (the user pool
\* holds MaxFds pages for fds) or filesys_open failing returns -1;
\* otherwise, if the name is the program's own, file_deny_write, whose
\* ASSERT (deny_write_cnt <= open_cnt) panics when it fails; dir is set
\* for a directory; the Fd is numbered and pushed at the back.
SysOpen(s, p) ==
    IF p = NullPath THEN Exit(s)
    ELSE IF Len(s.fds) >= MaxFds \/ Target[p] = NoFile THEN Result(s, -1)
    ELSE LET n   == NextNum(s.fds)
             f   == Target[p]
             own == p = ProcName
         IN  IF own /\ s.files[f].deny + 1 > OpenCnt(s.fds, f) + 1
             THEN Result([s EXCEPT !.status = "panic"], -1)
             ELSE Result([s EXCEPT
                       !.fds = Append(@, [num |-> n, fid |-> f, pos |-> 0,
                                          deny |-> own, dir |-> f \in Dirs, path |-> p]),
                       !.files[f] = IF own THEN InodeDenyWrite(@, n) ELSE @], n)

\* file_close: file_allow_write if this file denied writes, then the
\* inode is closed (InodeTable); a directory's dir is closed with it.
FileClose(files, d) ==
    IF d.deny THEN [files EXCEPT ![d.fid] = InodeAllowWrite(@, d.num)] ELSE files

\* SYS_CLOSE: an fd that is not open (or is 0, 1 or 2) exits the process;
\* else the file is closed and the Fd removed from the list.
SysClose(s, fd) ==
    LET i == GetFile(s, fd, {"F", "D"})
    IN  IF i = 0 THEN Exit(s)
        ELSE Result([s EXCEPT !.files = FileClose(@, s.fds[i]),
                              !.fds = RemoveAt(@, i)], 0)

\* SYS_READ of fd # 0: -1 unless fd is an open file (not a directory);
\* file_read reads at the file's position and advances it.
SysRead(s, fd, size) ==
    LET i == GetFile(s, fd, {"F"})
    IN  IF i = 0 THEN Result(s, -1)
        ELSE LET d == s.fds[i]
                 n == Len(InodeReadAt(s.files[d.fid], size, d.pos))
             IN  Result([s EXCEPT !.fds[i].pos = @ + n], n)

\* SYS_WRITE: fd 1 goes to the console (putbuf) and returns size; else -1
\* unless fd is an open file; file_write writes at the file's position
\* and advances it by what inode_write_at returns.
SysWrite(s, fd, size, v, reserved) ==
    LET i == GetFile(s, fd, {"F"})
    IN  IF fd = 1 THEN Result(s, size)
        ELSE IF i = 0 THEN Result(s, -1)
        ELSE LET d == s.fds[i]
                 w == InodeWriteAt(s.files[d.fid], d.pos, size, v, reserved)
             IN  Result([s EXCEPT !.files[d.fid] = w.file,
                                  !.fds[i].pos = @ + w.ret], w.ret)

\* SYS_FILESIZE: file_length of an open file, else -1.
SysFilesize(s, fd) ==
    LET i == GetFile(s, fd, {"F"})
    IN  Result(s, IF i = 0 THEN -1 ELSE s.files[s.fds[i].fid].length)

\* SYS_SEEK: file_seek on an open file; nothing otherwise.
SysSeek(s, fd, pos) ==
    LET i == GetFile(s, fd, {"F"})
    IN  Result(IF i = 0 THEN s ELSE [s EXCEPT !.fds[i].pos = pos], 0)

\* SYS_TELL: file_tell of an open file, else (unsigned) -1.
SysTell(s, fd) ==
    LET i == GetFile(s, fd, {"F"})
    IN  Result(s, IF i = 0 THEN -1 ELSE s.fds[i].pos)

\* SYS_ISDIR and SYS_INUMBER: get_file (fd, F | D) is used without a NULL
\* check, so an fd that is not open dereferences NULL in the kernel.
SysIsdir(s, fd) ==
    LET i == GetFile(s, fd, {"F", "D"})
    IN  IF i = 0 THEN Result([s EXCEPT !.status = "fault"], -1)
        ELSE Result(s, IF s.fds[i].dir THEN 1 ELSE 0)

SysInumber(s, fd) ==
    LET i == GetFile(s, fd, {"F", "D"})
    IN  IF i = 0 THEN Result([s EXCEPT !.status = "fault"], -1)
        ELSE Result(s, s.fds[i].fid)

-----------------------------------------------------------------------------
(* Every process state a sequence of calls reaches.                        *)

Sizes == 0 .. MaxLen

\* The results of every call a running process s can make: fd numbers
\* around every open one, writes that end within MaxLen at the fd's
\* position, either outcome of inode_reserve, opens whose number is at
\* most MaxNum.
Calls(s) ==
    IF s.status # "run" THEN {}
    ELSE {SysOpen(s, p) : p \in {q \in Paths \cup {NullPath} :
                                   q = NullPath \/ NextNum(s.fds) <= MaxNum}}
         \cup UNION {{SysClose(s, fd), SysFilesize(s, fd), SysTell(s, fd),
                      SysIsdir(s, fd), SysInumber(s, fd)}
                       \cup {SysRead(s, fd, n) : n \in Sizes}
                       \cup {SysSeek(s, fd, n) : n \in Sizes}
                       \cup {SysWrite(s, fd, w[1], w[2], w[3]) :
                              w \in {w \in Sizes \X Tags \X BOOLEAN :
                                       LET i == GetFile(s, fd, {"F"})
                                       IN  i = 0 \/ s.fds[i].pos + w[1] <= MaxLen}}
                     : fd \in FdNums}

\* Breadth-first search from seen with frontier new: the states reached.
RECURSIVE Explore(_, _)
Explore(seen, new) ==
    IF new = {} THEN seen
    ELSE LET next == {r.s : r \in UNION {Calls(s) : s \in new}} \ seen
         IN  Explore(seen \cup next, next)

ProcReachable == Explore({NewProc}, {NewProc})

-----------------------------------------------------------------------------
(* Properties, over every reachable process.                               *)

FdTypeOK == ProcReachable \subseteq Proc

\* Fd numbering: across any sequence of opens and closes (of the back, the
\* front or the middle of fd_head), the open fds have distinct numbers,
\* all at least 3, increasing from front to back, so open never hands out
\* a number that is still open and get_file finds the fd it was given.
FdNumbering ==
    \A s \in ProcReachable :
        \A i, j \in 1 .. Len(s.fds) : i < j => 3 <= s.fds[i].num /\ s.fds[i].num < s.fds[j].num

\* The running program's file is protected exactly while the process has
\* it open by the program's name: a write through any fd on that file
\* (opened by that name or by another) transfers nothing and leaves its
\* bytes as they are while such an fd is open, and, once all are closed,
\* a write within the file's bounds goes through in full.
ExeProtected ==
    \A s \in ProcReachable : \A i \in 1 .. Len(s.fds) :
        LET d      == s.fds[i]
            denied == \E j \in 1 .. Len(s.fds) : s.fds[j].path = ProcName /\ s.fds[j].fid = d.fid
        IN  ~d.dir =>
              \A n \in 1 .. MaxLen - d.pos, v \in Tags :
                 LET r == SysWrite(s, d.num, n, v, TRUE)
                 IN  IF denied THEN r.ret = 0 /\ r.s.files[d.fid].ref = s.files[d.fid].ref
                     ELSE r.ret = n
=============================================================================
