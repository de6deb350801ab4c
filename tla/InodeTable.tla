----------------------------- MODULE InodeTable -----------------------------
(***************************************************************************)
(* The table of open inodes of src/project5/src/filesys/inode.c (the list  *)
(* open_inodes and the struct inode records in it) driven by the project 5 *)
(* system calls open, remove and close of userprog/syscall.c, with the     *)
(* parts of directory.c they go through (dir_lookup, dir_remove).          *)
(*                                                                         *)
(* Threads are preemptible.  open holds lock w for its whole call; remove  *)
(* and close take no lock, and open_inodes has no lock of its own.         *)
(* inode_open scans the list and, on a miss, pushes a new record after     *)
(* malloc, which may block: the scan and the insert are separate steps.    *)
(* dir_lookup reads the directory entry and then opens its sector: also    *)
(* two steps.  Every other call is one step.                               *)
(*                                                                         *)
(* The files live in one directory.  Each name is the sector of its inode *)
(* (no file is created, so names and sectors do not change).  A struct    *)
(* inode is an address from Addrs; a freed address may be reused.         *)
(***************************************************************************)
EXTENDS Naturals, Sequences, SequencesExt

CONSTANTS
    Threads,    \* user threads making system calls
    Names,      \* directory entries, each naming its own inode sector
    IsDir,      \* IsDir[n]: the inode of n is a directory
    Empty,      \* Empty[n]: directory n has no in-use entry
    Addrs,      \* struct inode addresses malloc can return
    MaxFds,     \* file descriptors a thread keeps open at once
    Contract,   \* callers follow spec 5: no two calls on one name overlap
    NoAddr,     \* a null struct inode pointer
    NoThread    \* lock w is free

ASSUME IsDir \in [Names -> BOOLEAN] /\ Empty \in [Names -> BOOLEAN]
ASSUME MaxFds \in Nat /\ Contract \in BOOLEAN

VARIABLES
    inodes,     \* addresses of allocated struct inode
    openl,      \* open_inodes, front first
    isec,       \* inode->sector
    cnt,        \* inode->open_cnt
    removed,    \* inode->removed
    inuse,      \* in_use of each directory entry
    released,   \* sectors whose blocks were given back (inode_delete)
    w,          \* holder of lock w
    thr,        \* the system call each thread is in, and its locals
    fds         \* each thread's fd list: [file, dir] inode pointers

vars == <<inodes, openl, isec, cnt, removed, inuse, released, w, thr, fds>>

Idle == [op |-> "none", name |-> CHOOSE n \in Names : TRUE, step |-> "none", loc |-> NoAddr]

Init ==
    /\ inodes = {}
    /\ openl = <<>>
    /\ isec = [a \in Addrs |-> CHOOSE n \in Names : TRUE]
    /\ cnt = [a \in Addrs |-> 0]
    /\ removed = [a \in Addrs |-> FALSE]
    /\ inuse = [n \in Names |-> TRUE]
    /\ released = {}
    /\ w = NoThread
    /\ thr = [t \in Threads |-> Idle]
    /\ fds = [t \in Threads |-> <<>>]

-----------------------------------------------------------------------------
(* inode_close as an operator over the table state                        *)
(* st = [inodes, openl, cnt, released].                                    *)

Table == [inodes |-> inodes, openl |-> openl, cnt |-> cnt, released |-> released]

\* Mutant of InodeClose: a removed inode's blocks are released on every
\* close, not only on the one that drops open_cnt to zero.
InodeCloseEager(st, a, rm) ==
    IF a = NoAddr THEN st
    ELSE LET rel == IF rm[a] THEN st.released \cup {isec[a]} ELSE st.released
         IN  IF st.cnt[a] = 1
             THEN [inodes   |-> st.inodes \ {a},
                   openl    |-> Remove(st.openl, a),
                   cnt      |-> [st.cnt EXCEPT ![a] = 0],
                   released |-> rel]
             ELSE [st EXCEPT !.cnt[a] = @ - 1, !.released = rel]

\* inode_close (a), with the removed flags rm: --open_cnt; at zero the
\* record leaves open_inodes and is freed, and a removed inode's header and
\* blocks are released.
InodeClose(st, a, rm) ==
    IF a = NoAddr THEN st
    ELSE IF st.cnt[a] = 1
    THEN [inodes   |-> st.inodes \ {a},
          openl    |-> Remove(st.openl, a),
          cnt      |-> [st.cnt EXCEPT ![a] = 0],
          released |-> IF rm[a] THEN st.released \cup {isec[a]} ELSE st.released]
    ELSE [st EXCEPT !.cnt[a] = @ - 1]

\* Make st the table state.
SetTable(st) ==
    /\ inodes' = st.inodes
    /\ openl' = st.openl
    /\ cnt' = st.cnt
    /\ released' = st.released

\* A call on name n may start: under the caller contract no other thread
\* is inside a call on the same name.
MayStart(t, n) ==
    Contract => \A u \in Threads \ {t} : thr[u].op = "none" \/ thr[u].name # n

-----------------------------------------------------------------------------
(* inode_open (sector), shared by open (through dir_lookup) and remove.    *)

\* Mutant of InodeOpenScan: a hit is returned without inode_reopen.
InodeOpenScanNoReopen(t) ==
    LET n    == thr[t].name
        hits == {i \in 1 .. Len(openl) : isec[openl[i]] = n}
    IN  /\ thr[t].step = "scan"
        /\ IF hits # {}
           THEN thr' = [thr EXCEPT ![t].step = "opened", ![t].loc = openl[Min(hits)]]
           ELSE thr' = [thr EXCEPT ![t].step = "alloc"]
        /\ UNCHANGED <<inodes, openl, isec, cnt, removed, inuse, released, w, fds>>

\* Mutant of InodeOpenScan: the loop looks at the front record only.
InodeOpenScanHeadOnly(t) ==
    LET n    == thr[t].name
        hits == {i \in 1 .. (IF openl = <<>> THEN 0 ELSE 1) : isec[openl[i]] = n}
    IN  /\ thr[t].step = "scan"
        /\ IF hits # {}
           THEN LET a == openl[Min(hits)] IN
                  /\ cnt' = [cnt EXCEPT ![a] = @ + 1]
                  /\ thr' = [thr EXCEPT ![t].step = "opened", ![t].loc = a]
           ELSE /\ thr' = [thr EXCEPT ![t].step = "alloc"]
                /\ UNCHANGED cnt
        /\ UNCHANGED <<inodes, openl, isec, removed, inuse, released, w, fds>>

\* The scan of open_inodes: the first record for the sector is reopened;
\* on a miss the thread goes on to malloc.
InodeOpenScan(t) ==
    LET n    == thr[t].name
        hits == {i \in 1 .. Len(openl) : isec[openl[i]] = n}
    IN  /\ thr[t].step = "scan"
        /\ IF hits # {}
           THEN LET a == openl[Min(hits)] IN
                  /\ cnt' = [cnt EXCEPT ![a] = @ + 1]
                  /\ thr' = [thr EXCEPT ![t].step = "opened", ![t].loc = a]
           ELSE /\ thr' = [thr EXCEPT ![t].step = "alloc"]
                /\ UNCHANGED cnt
        /\ UNCHANGED <<inodes, openl, isec, removed, inuse, released, w, fds>>

\* Mutant of InodeOpenInsert: open_cnt is initialised to 0.
InodeOpenInsertZero(t) ==
    /\ thr[t].step = "alloc"
    /\ \E a \in Addrs \ inodes :
         /\ inodes' = inodes \cup {a}
         /\ openl' = <<a>> \o openl
         /\ isec' = [isec EXCEPT ![a] = thr[t].name]
         /\ cnt' = [cnt EXCEPT ![a] = 0]
         /\ removed' = [removed EXCEPT ![a] = FALSE]
         /\ thr' = [thr EXCEPT ![t].step = "opened", ![t].loc = a]
    /\ UNCHANGED <<inuse, released, w, fds>>

\* After malloc: push_front and initialise (open_cnt 1, not removed).
InodeOpenInsert(t) ==
    /\ thr[t].step = "alloc"
    /\ \E a \in Addrs \ inodes :
         /\ inodes' = inodes \cup {a}
         /\ openl' = <<a>> \o openl
         /\ isec' = [isec EXCEPT ![a] = thr[t].name]
         /\ cnt' = [cnt EXCEPT ![a] = 1]
         /\ removed' = [removed EXCEPT ![a] = FALSE]
         /\ thr' = [thr EXCEPT ![t].step = "opened", ![t].loc = a]
    /\ UNCHANGED <<inuse, released, w, fds>>

-----------------------------------------------------------------------------
(* open (file): lock w, filesys_open, the fd, unlock.                      *)

\* lock_acquire (&w), then filesys_open's lookup of the entry: a name in
\* use goes on to inode_open, a name not in use to the failure return.
OpenBegin(t, n) ==
    /\ thr[t].op = "none"
    /\ Len(fds[t]) < MaxFds
    /\ w = NoThread
    /\ MayStart(t, n)
    /\ w' = t
    /\ thr' = [thr EXCEPT ![t] = [op |-> "open", name |-> n, loc |-> NoAddr,
                                  step |-> IF inuse[n] THEN "scan" ELSE "notfound"]]
    /\ UNCHANGED <<inodes, openl, isec, cnt, removed, inuse, released, fds>>

\* Mutant of OpenNotFound: the failure path returns -1 without
\* lock_release (&w).
OpenNotFoundKeepW(t) ==
    /\ thr[t].op = "open"
    /\ thr[t].step = "notfound"
    /\ thr' = [thr EXCEPT ![t] = Idle]
    /\ UNCHANGED <<inodes, openl, isec, cnt, removed, inuse, released, w, fds>>

\* filesys_open returned NULL: palloc_free_page, lock_release (&w), -1.
OpenNotFound(t) ==
    /\ thr[t].op = "open"
    /\ thr[t].step = "notfound"
    /\ w' = NoThread
    /\ thr' = [thr EXCEPT ![t] = Idle]
    /\ UNCHANGED <<inodes, openl, isec, cnt, removed, inuse, released, fds>>

\* Mutant of OpenFinish: the success path returns without lock_release (&w).
OpenFinishKeepW(t) ==
    LET a == thr[t].loc
        d == IF IsDir[isec[a]] THEN a ELSE NoAddr
    IN  /\ thr[t].op = "open"
        /\ thr[t].step = "opened"
        /\ cnt' = IF d # NoAddr THEN [cnt EXCEPT ![a] = @ + 1] ELSE cnt
        /\ fds' = [fds EXCEPT ![t] = Append(@, [file |-> a, dir |-> d])]
        /\ thr' = [thr EXCEPT ![t] = Idle]
        /\ UNCHANGED <<inodes, openl, isec, removed, inuse, released, w>>

\* The rest of open: a directory also gets dir_open (inode_reopen (id));
\* the fd is appended and w released.
OpenFinish(t) ==
    LET a == thr[t].loc
        d == IF IsDir[isec[a]] THEN a ELSE NoAddr
    IN  /\ thr[t].op = "open"
        /\ thr[t].step = "opened"
        /\ cnt' = IF d # NoAddr THEN [cnt EXCEPT ![a] = @ + 1] ELSE cnt
        /\ fds' = [fds EXCEPT ![t] = Append(@, [file |-> a, dir |-> d])]
        /\ w' = NoThread
        /\ thr' = [thr EXCEPT ![t] = Idle]
        /\ UNCHANGED <<inodes, openl, isec, removed, inuse, released>>

-----------------------------------------------------------------------------
(* remove (file): filesys_remove -> dir_remove, with no lock.              *)

\* lookup of the entry; a name not in use fails with nothing changed.
RemoveBegin(t, n) ==
    /\ thr[t].op = "none"
    /\ MayStart(t, n)
    /\ inuse[n]
    /\ thr' = [thr EXCEPT ![t] = [op |-> "remove", name |-> n, step |-> "scan", loc |-> NoAddr]]
    /\ UNCHANGED <<inodes, openl, isec, cnt, removed, inuse, released, w, fds>>

RemoveNotFound(t, n) ==
    /\ thr[t].op = "none"
    /\ ~inuse[n]
    /\ UNCHANGED vars

\* The rest of dir_remove once inode_open has returned the inode.  A
\* directory is wrapped by dir_open, which takes over the reference, and
\* dir_close drops it; a non-empty one then goes to done, where
\* inode_close drops it again.  Otherwise the entry is erased, the inode
\* marked removed and closed (done).
RemoveFinish(t) ==
    LET a   == thr[t].loc
        n   == thr[t].name
        st0 == IF IsDir[n] THEN InodeClose(Table, a, removed) ELSE Table
        rm  == [removed EXCEPT ![a] = TRUE]
    IN  /\ thr[t].op = "remove"
        /\ thr[t].step = "opened"
        /\ IF IsDir[n] /\ ~Empty[n]
           THEN /\ SetTable(InodeClose(st0, a, removed))
                /\ UNCHANGED <<removed, inuse>>
           ELSE /\ inuse' = [inuse EXCEPT ![n] = FALSE]
                /\ removed' = rm
                /\ SetTable(InodeClose(st0, a, rm))
        /\ thr' = [thr EXCEPT ![t] = Idle]
        /\ UNCHANGED <<isec, w, fds>>

-----------------------------------------------------------------------------
(* close (fd): file_close, and dir_close for a directory fd; no lock.      *)

CloseFd(t, i) ==
    LET fd == fds[t][i]
    IN  /\ thr[t].op = "none"
        /\ SetTable(InodeClose(InodeClose(Table, fd.file, removed), fd.dir, removed))
        /\ fds' = [fds EXCEPT ![t] = RemoveAt(@, i)]
        /\ UNCHANGED <<isec, removed, inuse, w, thr>>

Next ==
    \E t \in Threads :
        \/ \E n \in Names :
              \/ OpenBegin(t, n)
              \/ RemoveBegin(t, n)
              \/ RemoveNotFound(t, n)
        \/ InodeOpenScan(t)
        \/ InodeOpenInsert(t)
        \/ OpenNotFound(t)
        \/ OpenFinish(t)
        \/ RemoveFinish(t)
        \/ \E i \in 1 .. Len(fds[t]) : CloseFd(t, i)

Spec == Init /\ [][Next]_vars

-----------------------------------------------------------------------------
(* Properties.                                                             *)

Steps == {"none", "notfound", "scan", "alloc", "opened"}
Fd == [file : Addrs, dir : Addrs \cup {NoAddr}]

TypeOK ==
    /\ inodes \subseteq Addrs
    /\ openl \in Seq(Addrs)
    /\ isec \in [Addrs -> Names]
    /\ cnt \in [Addrs -> Nat]
    /\ removed \in [Addrs -> BOOLEAN]
    /\ inuse \in [Names -> BOOLEAN]
    /\ released \subseteq Names
    /\ w \in Threads \cup {NoThread}
    /\ thr \in [Threads -> [op : {"none", "open", "remove"}, name : Names,
                             step : Steps, loc : Addrs \cup {NoAddr}]]
    /\ fds \in [Threads -> Seq(Fd)]

\* The references to inode a that someone holds: every fd's file and dir
\* pointer, and the pointer a thread holds between inode_open and the end
\* of its call.
Handles(a) ==
    Cardinality({<<t, i, k>> \in Threads \X (1 .. MaxFds) \X {"file", "dir"} :
                    i <= Len(fds[t]) /\ fds[t][i][k] = a})
    + Cardinality({t \in Threads : thr[t].step = "opened" /\ thr[t].loc = a})

\* Reference counting (spec 4.3): open_cnt of every allocated inode is the
\* number of references held to it, and nobody holds a reference to a
\* freed record.  A lost increment frees an inode still in use; an extra
\* decrement (a double close) does the same on a later close.
RefCount ==
    \A a \in Addrs : IF a \in inodes THEN cnt[a] = Handles(a) ELSE Handles(a) = 0

\* Spec 3: at most one in-memory inode per sector, and open_inodes holds
\* exactly the allocated records.
SingleInstance ==
    /\ \A a, b \in inodes : isec[a] = isec[b] => a = b
    /\ Range(openl) = inodes /\ Len(openl) = Cardinality(inodes)

\* Deferred deallocation (spec 4.3): a sector's blocks are released only
\* when no reference to an inode of that sector is held, and once its entry
\* is gone and the last reference dropped they are released.
DeferredRelease ==
    /\ \A s \in released : \A a \in Addrs : Handles(a) > 0 => isec[a] # s
    /\ \A s \in Names :
         (~inuse[s] /\ \A a \in inodes : isec[a] # s) => s \in released

\* Lock w is held by a thread exactly while that thread is inside open,
\* between lock_acquire and one of open's two lock_release calls (the
\* failure return after filesys_open gives NULL, and the success return):
\* neither exit leaves w held by an idle thread, which would block every
\* later open for good, and no thread is inside open without it.
LockHeldInOpen ==
    \A t \in Threads : w = t <=> thr[t].op = "open"
=============================================================================
