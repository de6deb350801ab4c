----------------------------- MODULE Directory -----------------------------
(***************************************************************************)
(* The directory entries of src/project5/src/filesys/directory.c.  A       *)
(* directory is an inode whose bytes are dir_entry records; slot 1 here is *)
(* the record at offset 0, the parent link.  A record is abstracted to     *)
(* [sec, name, inuse]; a name is a model value.                            *)
(*                                                                         *)
(* dir_create and dir_add write a struct dir_entry from the stack whose    *)
(* in_use field is never set (dent in dir_create, e in dir_add for the     *)
(* child's parent link).  Reading it is undefined: the value written is a  *)
(* nondeterministic choice from Garbage, the values the build's stack      *)
(* byte can hold.                                                          *)
(*                                                                         *)
(* The callers in filesys.c (not part of the repository) are modelled from *)
(* spec 4.4 and 6: mkdir takes a free sector, runs dir_create and then     *)
(* dir_add in the parent and gives the sector back if the add fails;       *)
(* create does the same for a file.  Each call is one step: the directory  *)
(* code takes no lock and its concurrency is modelled in InodeTable.       *)
(*                                                                         *)
(* File descriptors from Fds are opened on files and directories and read *)
(* with the readdir system call.  An inode removed while an fd holds it    *)
(* keeps its contents, and its sector stays allocated until its open_cnt  *)
(* reaches 0.  open_cnt is the references the holders took (a file fd 1,  *)
(* a directory fd 2: filesys_open and dir_open (inode_reopen), the cwd 1) *)
(* less the one dir_remove's double close of a directory drops            *)
(* (directory.c:330 and 345).  A holder whose inode was freed under it is *)
(* dangling: the model takes the outcome where the freed struct inode is  *)
(* not reused, so reads through it reach its sector as it now is and its  *)
(* close only drives the freed open_cnt below 0.                           *)
(*                                                                         *)
(* One user process has a working directory, cwd, which holds its inode    *)
(* open like an fd; make_path walks a path from the root or from cwd.      *)
(* filesys_chdir (filesys.c) is modelled from spec 4.4: make_path, and on  *)
(* a directory the old cwd is closed and the new one kept.                 *)
(***************************************************************************)
EXTENDS Naturals, Sequences, FiniteSets, FiniteSetsExt

CONSTANTS
    Secs,       \* inode sectors
    ROOT,       \* ROOT_DIR_SECTOR
    Names,      \* file names
    NoName,     \* the uninitialised name bytes of a parent link
    NoSec,      \* no sector: a failed lookup
    EntryCnt,   \* entry_cnt given to dir_create
    Garbage,    \* values an uninitialised bool on the stack reads as
    Fds,        \* file descriptors of user programs
    MaxReads,   \* readdir calls that return true on one fd, at most
    ReaddirOnFiles, \* programs also pass fds of regular files to readdir
    Dot, DotDot,    \* the path components "." and ".."
    PathLen         \* the most components a path has

ASSUME ROOT \in Secs /\ NoSec \notin Secs /\ EntryCnt \in Nat \ {0}
ASSUME Garbage \subseteq BOOLEAN /\ Garbage # {}
ASSUME MaxReads \in Nat /\ ReaddirOnFiles \in BOOLEAN

VARIABLES
    dirs,       \* dirs[d]: the entry records of directory d, slot 1 first
    kind,       \* what each sector holds: "free", "dir" or "file"
    added,      \* history: added[d][n] is the sector n was last added as
    parentOf,   \* history: the directory each directory was created in (NoSec once
                \* that directory is freed while this one is removed but held)
    hd,         \* hd[h]: the inode fd h is open on (NoSec: closed), whether it
                \* is a directory, the struct dir's pos, and the history of the
                \* listing: got, the names readdir returned; stable, the
                \* names in use at open and not added or removed since;
                \* seen, the names in use at any time since open
    cwd,        \* thread_current ()->cwd: its sector, or NoSec for NULL
    dropped,    \* dropped[c]: 1 once dir_remove closed directory c twice
    dangling    \* the holders (fds, and Cwd) whose struct inode was freed

vars == <<dirs, kind, added, parentOf, hd, cwd, dropped, dangling>>

\* The working directory as a holder of an inode.
Cwd == "cwd"

Entry == [sec : Secs, name : Names \cup {NoName}, inuse : BOOLEAN]
FreeEntry == [sec |-> ROOT, name |-> NoName, inuse |-> FALSE]
Closed == [sec |-> NoSec, isdir |-> FALSE, pos |-> 1, got |-> <<>>, stable |-> {}, seen |-> {}]

\* Mutant of Created: dent.inode_sector is never assigned.
CreatedNoSelf(s, g) ==
    [i \in 1 .. EntryCnt |->
        IF i = 1 THEN [sec |-> NoSec, name |-> NoName, inuse |-> g] ELSE FreeEntry]

\* dir_create's byte stream: entry_cnt zero-filled records, then the first
\* overwritten with the self link dent (in_use not set).
Created(s, g) ==
    [i \in 1 .. EntryCnt |->
        IF i = 1 THEN [sec |-> s, name |-> NoName, inuse |-> g] ELSE FreeEntry]

\* do_format: the root directory, created once, linking to itself.
Init ==
    /\ \E g \in Garbage :
         dirs = [s \in Secs |-> IF s = ROOT THEN Created(ROOT, g) ELSE <<>>]
    /\ kind = [s \in Secs |-> IF s = ROOT THEN "dir" ELSE "free"]
    /\ added = [d \in Secs |-> [n \in Names |-> NoSec]]
    /\ parentOf = [s \in Secs |-> IF s = ROOT THEN ROOT ELSE NoSec]
    /\ hd = [h \in Fds |-> Closed]
    /\ cwd = NoSec
    /\ dropped = [s \in Secs |-> 0]
    /\ dangling = {}

-----------------------------------------------------------------------------
(* Helpers over a directory state ds.                                      *)

\* Mutant of Lookup: the scan stops before the last record.
LookupSkipLast(ds, d, n) ==
    LET hits == {i \in 2 .. Len(ds[d]) - 1 : ds[d][i].inuse /\ ds[d][i].name = n}
    IN  IF hits = {} THEN NoSec ELSE ds[d][Min(hits)].sec

\* lookup: the first in-use record from offset sizeof e on with name n.
Lookup(ds, d, n) ==
    LET hits == {i \in 2 .. Len(ds[d]) : ds[d][i].inuse /\ ds[d][i].name = n}
    IN  IF hits = {} THEN NoSec ELSE ds[d][Min(hits)].sec

\* dir_add's slot write into d: the first record whose in_use is clear,
\* scanning from offset 0, or one appended.  An append grows the inode, and
\* when inode_reserve fails (a full disk) the write returns 0 and dir_add
\* returns false, with whatever it wrote before it (the child's parent
\* link) left in place.
WriteSlot(ds, d, n, s, reserved) ==
    LET free == {i \in 1 .. Len(ds[d]) : ~ds[d][i].inuse}
        slot == IF free = {} THEN Len(ds[d]) + 1 ELSE Min(free)
        e    == [sec |-> s, name |-> n, inuse |-> TRUE]
    IN  IF slot > Len(ds[d]) /\ ~reserved THEN [ok |-> FALSE, dirs |-> ds]
        ELSE [ok |-> TRUE,
              dirs |-> [ds EXCEPT ![d] = IF slot > Len(@) THEN Append(@, e)
                                         ELSE [@ EXCEPT ![slot] = e]]]

\* The child's parent link after dir_add's first write: sector d, with the
\* in_use of e never set (g is what it holds).
LinkParent(ds, d, s, isdir, g) ==
    IF isdir THEN [ds EXCEPT ![s][1] = [sec |-> d, name |-> NoName, inuse |-> g]] ELSE ds

\* Mutant of DirAdd: the check that NAME is not in use is missing.
DirAddNoCheck(ds, d, n, s, isdir, g, reserved) ==
    WriteSlot(LinkParent(ds, d, s, isdir, g), d, n, s, reserved)

\* Mutant of DirAdd: the child's parent link gets the child's own sector.
DirAddSelfLink(ds, d, n, s, isdir, g, reserved) ==
    IF Lookup(ds, d, n) # NoSec THEN [ok |-> FALSE, dirs |-> ds]
    ELSE WriteSlot(LinkParent(ds, s, s, isdir, g), d, n, s, reserved)

\* dir_add (d, n, s, isdir): fail on a name in use; for a directory first
\* overwrite the child's parent link with d; then write the slot.
DirAdd(ds, d, n, s, isdir, g, reserved) ==
    IF Lookup(ds, d, n) # NoSec THEN [ok |-> FALSE, dirs |-> ds]
    ELSE WriteSlot(LinkParent(ds, d, s, isdir, g), d, n, s, reserved)

\* dir_empty: no in-use record from offset sizeof e on.
DirEmpty(ds, d) == \A i \in 2 .. Len(ds[d]) : ~ds[d][i].inuse

\* A directory the caller can name: created and not removed.
LiveDir(d) == kind[d] = "dir"

\* Mutant of DirOpenPos: the cursor starts at offset 0, the parent link.
DirOpenPosZero == 1

\* dir_open: dir->pos = sizeof (struct dir_entry), past the parent link.
DirOpenPos == 2

\* dir_readdir (d) from record pos: read records while a whole one is
\* read, advancing pos past each; return the name of the first in use.
\* With none left pos ends past the last record and the result is false.
DirReaddir(d, pos) ==
    LET hits == {i \in pos .. Len(dirs[d]) : dirs[d][i].inuse}
    IN  IF hits = {} THEN [ok |-> FALSE, pos |-> Len(dirs[d]) + 1, name |-> NoName]
        ELSE [ok |-> TRUE, pos |-> Min(hits) + 1, name |-> dirs[d][Min(hits)].name]

\* The listing history of the fds open on directory p after name n is
\* added to it or removed from it.
NoteAdded(p, n) ==
    [h \in Fds |-> IF hd[h].sec = p
                   THEN [hd[h] EXCEPT !.stable = @ \ {n}, !.seen = @ \cup {n}]
                   ELSE hd[h]]
NoteRemoved(p, n) ==
    [h \in Fds |-> IF hd[h].sec = p THEN [hd[h] EXCEPT !.stable = @ \ {n}] ELSE hd[h]]

\* History: once directory c is freed, the removed directories created in
\* it have no parent left.
Orphan(c) == [d \in Secs |-> IF parentOf[d] = c /\ d # c THEN NoSec ELSE parentOf[d]]

\* The holders of sector c's struct inode, dangling ones included.
Holders(c) == {h \in Fds : hd[h].sec = c} \cup (IF cwd = c THEN {Cwd} ELSE {})

\* The references c's live holders took: 2 for a directory fd (the file
\* and its struct dir), 1 for a file fd, 1 for the cwd.
Refs(c) ==
    LET live == {h \in Fds : hd[h].sec = c} \ dangling
    IN  2 * Cardinality({h \in live : hd[h].isdir}) + Cardinality({h \in live : ~hd[h].isdir})
        + (IF cwd = c /\ Cwd \notin dangling THEN 1 ELSE 0)

\* inode->open_cnt of the struct inode of sector c.
OpenCnt(c) == Refs(c) - dropped[c]

\* The inode_close that takes removed inode c to open_cnt 0: inode_delete
\* gives its sectors back (ds is the directory state before it), and its
\* remaining holders dangle.
Release(ds, c) ==
    /\ kind' = [kind EXCEPT ![c] = "free"]
    /\ dirs' = [ds EXCEPT ![c] = <<>>]
    /\ parentOf' = Orphan(c)
    /\ dropped' = [dropped EXCEPT ![c] = 0]

\* A path: absolute or not, and its components (strtok_r on "/").
PathSeqs == UNION {[1 .. k -> Names \cup {Dot, DotDot}] : k \in 0 .. PathLen}

\* The outcome of reading a parent link from a sector that holds no
\* records (a file or a freed sector): inode_read_at reads nothing and the
\* sector opened is that of an uninitialised struct dir_entry.
Stray == "stray"

DirLookup(d, c) ==
    CASE c = Dot    -> d
      [] c = DotDot -> IF dirs[d] = <<>> THEN Stray ELSE dirs[d][1].sec
      [] OTHER      -> Lookup(dirs, d, c)

\* The loop of make_path: look up each component in turn, from d.
RECURSIVE PathWalk(_, _)
PathWalk(d, cs) ==
    IF cs = <<>> THEN d
    ELSE LET nx == DirLookup(d, Head(cs))
         IN  IF nx \in {NoSec, Stray} THEN nx ELSE PathWalk(nx, Tail(cs))

\* Mutant of MakePath: the removed flag of the final directory is not
\* checked.
MakePathNoRmCheck(abs, cs) ==
    PathWalk(IF abs \/ cwd = NoSec THEN ROOT ELSE cwd, cs)

\* make_path (path): from the root for an absolute path or when there is
\* no cwd, else from cwd; NULL (NoSec) when a component is missing or the
\* directory reached has been removed.
MakePath(abs, cs) ==
    LET d == PathWalk(IF abs \/ cwd = NoSec THEN ROOT ELSE cwd, cs)
    IN  IF d \notin {NoSec, Stray} /\ kind[d] = "removed" THEN NoSec ELSE d

-----------------------------------------------------------------------------
(* Operations.                                                             *)

\* mkdir: a free sector s, dir_create (s, EntryCnt), dir_add (p, n, s,
\* true); when the add fails the sector goes back to the free map.  The
\* contents of a free sector are never read again, so the model keeps none.
Mkdir(p, n, s) ==
    /\ LiveDir(p)
    /\ kind[s] = "free"
    /\ \E g1, g2 \in Garbage, reserved \in BOOLEAN :
         LET ds == [dirs EXCEPT ![s] = Created(s, g1)]
             r  == DirAdd(ds, p, n, s, TRUE, g2, reserved)
         IN  /\ dirs' = IF r.ok THEN r.dirs ELSE dirs
             /\ kind' = [kind EXCEPT ![s] = IF r.ok THEN "dir" ELSE "free"]
             /\ added' = IF r.ok
                         THEN [added EXCEPT ![p][n] = s, ![s] = [m \in Names |-> NoSec]]
                         ELSE added
             /\ parentOf' = IF r.ok THEN [parentOf EXCEPT ![s] = p] ELSE parentOf
             /\ hd' = IF r.ok THEN NoteAdded(p, n) ELSE hd
    /\ UNCHANGED <<cwd, dropped, dangling>>

\* create: a free sector s, inode_create, dir_add (p, n, s, false).
CreateFile(p, n, s) ==
    /\ LiveDir(p)
    /\ kind[s] = "free"
    /\ \E reserved \in BOOLEAN :
       LET r == DirAdd(dirs, p, n, s, FALSE, TRUE, reserved)
       IN  /\ dirs' = r.dirs
           /\ kind' = [kind EXCEPT ![s] = IF r.ok THEN "file" ELSE "free"]
           /\ added' = IF r.ok THEN [added EXCEPT ![p][n] = s] ELSE added
           /\ hd' = IF r.ok THEN NoteAdded(p, n) ELSE hd
    /\ UNCHANGED <<parentOf, cwd, dropped, dangling>>

\* mkdir or create with no free sector: free_map_allocate fails and the
\* call returns false.
CreateNoSector ==
    /\ \A s \in Secs : kind[s] # "free"
    /\ UNCHANGED vars

\* dir_remove (p, n): the record found by lookup is erased unless it names
\* a directory with an in-use record; inode_open took a reference, and a
\* directory's is closed twice, by dir_close (dcur) and at done.  With no
\* holder the first close frees the struct inode before inode_remove, so
\* the sectors are never released (removed stays, held by nobody); a
\* directory held only by the cwd, or a file held by nobody, is released
\* at once, leaving the cwd dangling; otherwise the inode stays, removed,
\* open_cnt one below its holders' references for a directory.
DirRemove(p, n) ==
    LET hits  == {i \in 2 .. Len(dirs[p]) : dirs[p][i].inuse /\ dirs[p][i].name = n}
        i     == Min(hits)
        c     == dirs[p][i].sec
        isdir == kind[c] = "dir"
        left  == IF isdir THEN Refs(c) - 1 ELSE Refs(c)
        ds    == [dirs EXCEPT ![p][i].inuse = FALSE]
    IN  /\ LiveDir(p)
        /\ hits # {}
        /\ isdir => DirEmpty(dirs, c)
        /\ added' = [added EXCEPT ![p][n] = NoSec]
        /\ hd' = NoteRemoved(p, n)
        /\ IF left = 0
           THEN /\ Release(ds, c)
                /\ dangling' = dangling \cup Holders(c)
           ELSE /\ dirs' = ds
                /\ kind' = [kind EXCEPT ![c] = "removed"]
                /\ dropped' = IF isdir /\ left > 0 THEN [dropped EXCEPT ![c] = 1] ELSE dropped
                /\ UNCHANGED <<parentOf, dangling>>
        /\ UNCHANGED cwd

\* open: fd h on the file or directory at sector s (found by the path walk
\* of filesys_open); a directory also gets a struct dir from dir_open.
OpenFd(h, s) ==
    LET isdir == kind[s] = "dir"
        names == {dirs[s][i].name : i \in {j \in 2 .. Len(dirs[s]) : dirs[s][j].inuse}}
    IN  /\ hd[h].sec = NoSec
        /\ kind[s] \in {"dir", "file"}
        /\ hd' = [hd EXCEPT ![h] = [sec |-> s, isdir |-> isdir, pos |-> DirOpenPos,
                                   got |-> <<>>, stable |-> names, seen |-> names]]
        /\ UNCHANGED <<dirs, kind, added, parentOf, cwd, dropped, dangling>>

\* readdir (fd, name): get_file (fd, D) finds no directory fd for a regular
\* file, and the call returns -1, which as a bool is true, leaving name
\* as it was; for a directory fd it returns dir_readdir.
Readdir(h) ==
    /\ hd[h].sec # NoSec
    /\ Len(hd[h].got) < MaxReads
    /\ hd[h].isdir \/ ReaddirOnFiles
    /\ IF ~hd[h].isdir
       THEN hd' = [hd EXCEPT ![h].got = Append(@, NoName)]
       ELSE LET r == DirReaddir(hd[h].sec, hd[h].pos)
            IN  hd' = [hd EXCEPT ![h].pos = r.pos,
                                 ![h].got = IF r.ok THEN Append(@, r.name) ELSE @]
    /\ UNCHANGED <<dirs, kind, added, parentOf, cwd, dropped, dangling>>

\* close (fd): file_close, then dir_close for a directory fd; the close
\* that takes a removed inode's open_cnt to 0 releases it.  A dangling fd
\* only goes away.
CloseFd(h) ==
    LET s == hd[h].sec
        k == IF hd[h].isdir THEN 2 ELSE 1
    IN  /\ s # NoSec
        /\ hd' = [hd EXCEPT ![h] = Closed]
        /\ IF h \notin dangling /\ kind[s] = "removed" /\ OpenCnt(s) <= k
           THEN /\ Release(dirs, s)
                /\ dangling' = (dangling \cup Holders(s)) \ {h}
           ELSE /\ UNCHANGED <<kind, dirs, parentOf, dropped>>
                /\ dangling' = dangling \ {h}
        /\ UNCHANGED <<added, cwd>>

\* chdir (path): make_path; on a directory, the old cwd is closed (its
\* inode released if it was removed and this was its last reference) and
\* the new one kept; otherwise nothing changes and the call returns false.
Chdir(abs, cs) ==
    LET d   == MakePath(abs, cs)
        old == cwd
        rel == old # NoSec /\ Cwd \notin dangling /\ kind[old] = "removed" /\ OpenCnt(old) <= 1
    IN  /\ d \notin {NoSec, Stray}
        /\ kind[d] = "dir"
        /\ cwd' = d
        /\ IF rel
           THEN /\ Release(dirs, old)
                /\ dangling' = (dangling \cup Holders(old)) \ {Cwd}
           ELSE /\ UNCHANGED <<kind, dirs, parentOf, dropped>>
                /\ dangling' = dangling \ {Cwd}
        /\ UNCHANGED <<added, hd>>

Next ==
    \E p \in Secs, n \in Names :
        \/ \E s \in Secs : Mkdir(p, n, s) \/ CreateFile(p, n, s)
        \/ DirRemove(p, n)
    \/ CreateNoSector
    \/ \E h \in Fds :
        \/ \E s \in Secs : OpenFd(h, s)
        \/ Readdir(h)
        \/ CloseFd(h)
    \/ \E abs \in BOOLEAN, cs \in PathSeqs : Chdir(abs, cs)

Spec == Init /\ [][Next]_vars

-----------------------------------------------------------------------------
(* Properties.                                                             *)

TypeOK ==
    /\ dirs \in [Secs -> Seq(Entry)]
    /\ kind \in [Secs -> {"free", "dir", "file", "removed"}]
    /\ added \in [Secs -> [Names -> Secs \cup {NoSec}]]
    /\ parentOf \in [Secs -> Secs \cup {NoSec}]
    /\ hd \in [Fds -> [sec : Secs \cup {NoSec}, isdir : BOOLEAN, pos : Nat,
                       got : Seq(Names \cup {NoName}), stable : SUBSET Names,
                       seen : SUBSET Names]]
    /\ cwd \in Secs \cup {NoSec}
    /\ dropped \in [Secs -> {0, 1}]
    /\ dangling \subseteq Fds \cup {Cwd}

\* Directory integrity (spec 8): in every live directory, lookup of a name
\* finds the sector it was last added as, and nothing after its removal;
\* across any sequence of adds, removes and slot reuse.
AddedFound ==
    \A d \in Secs : LiveDir(d) => \A n \in Names : Lookup(dirs, d, n) = added[d][n]

\* Parent linkage (spec 8): ".." of every live directory (dir_lookup reads
\* the record at offset 0) is the directory it was created in; the root's
\* is itself.
ParentLink ==
    \A d \in Secs : LiveDir(d) => dirs[d][1].sec = parentOf[d]

\* Names are unique among the in-use records of a directory (dir_add
\* rejects a name in use).
UniqueNames ==
    \A d \in Secs : \A i, j \in 2 .. Len(dirs[d]) :
        (dirs[d][i].inuse /\ dirs[d][j].inuse /\ dirs[d][i].name = dirs[d][j].name)
            => i = j

\* Directory listing: readdir on an fd returns true only with the name of
\* an entry that was in use in the directory at some time since the fd was
\* opened (never the parent link, never an unwritten buffer), and once the
\* cursor has passed the last record, every name in use at open and not
\* added or removed since has been returned exactly once, across slot reuse
\* and appends by other calls in between.
ReaddirListing ==
    \A h \in Fds : hd[h].sec # NoSec =>
        LET got == hd[h].got
        IN  /\ \A i \in 1 .. Len(got) : got[i] \in hd[h].seen
            /\ hd[h].pos > Len(dirs[hd[h].sec]) =>
                 \A n \in hd[h].stable : Cardinality({i \in 1 .. Len(got) : got[i] = n}) = 1

\* The path each directory names, by the history: "." stays, ".." goes to
\* the directory it was created in, a name to the sector last added under
\* it in a live directory; a removed directory reached last is refused.
RECURSIVE TreeWalk(_, _)
TreeWalk(d, cs) ==
    IF cs = <<>> THEN (IF kind[d] = "removed" THEN NoSec ELSE d)
    ELSE LET c  == Head(cs)
             nx == CASE c = Dot    -> d
                     [] c = DotDot -> IF kind[d] = "file" THEN Stray ELSE parentOf[d]
                     [] OTHER      -> IF kind[d] = "dir" THEN added[d][c] ELSE NoSec
         IN  IF nx \in {NoSec, Stray} THEN nx ELSE TreeWalk(nx, Tail(cs))

=============================================================================
