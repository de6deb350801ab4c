--------------------------- MODULE InodeAllocator ---------------------------
(***************************************************************************)
(* The indexed allocation of src/project5/src/filesys/inode.c: DIRECT      *)
(* direct pointers, one single-indirect block of INDIRECT pointers and one *)
(* double-indirect block of INDIRECT inner blocks.                         *)
(*                                                                         *)
(* The model follows a few files through their life: inode_create reserves *)
(* the blocks of the initial length, inode_write_at grows the file past    *)
(* its length through inode_reserve, and the last inode_close of a removed *)
(* inode releases the header and every block (inode_delete).  Sectors are  *)
(* taken from the free map first fit (free_map_allocate).                  *)
(*                                                                         *)
(* Only what allocation depends on is kept of a sector's contents: a       *)
(* sector holds either an inode header (InodeMark) or INDIRECT pointers;   *)
(* a data sector is zero-filled on allocation and is a block of zero       *)
(* pointers to this model.  Sector 0 is FREE_MAP_SECTOR, the free map's    *)
(* own inode, allocated when the disk is formatted.                        *)
(***************************************************************************)
EXTENDS Naturals, FiniteSets, FiniteSetsExt

CONSTANTS
    DIRECT,       \* direct pointers in inode_disk
    INDIRECT,     \* pointers in one indirect block
    SectorSize,   \* BLOCK_SECTOR_SIZE, in the model's byte unit
    NumSectors,   \* sectors on the file-system device
    Files,        \* the files the model creates, grows and removes
    Lengths,      \* byte lengths a create or a write may ask for
    InodeMark     \* contents of a sector holding an inode_disk

ASSUME DIRECT \in Nat \ {0} /\ INDIRECT \in Nat \ {0} /\ SectorSize \in Nat \ {0}
ASSUME Lengths \subseteq 0 .. SectorSize * (DIRECT + INDIRECT + INDIRECT * INDIRECT)

Sec == 0 .. NumSectors - 1
FREE_MAP_SECTOR == 0
Idx == 0 .. INDIRECT - 1
ZeroBlock == [k \in Idx |-> 0]

NMin(a, b) == IF a < b THEN a ELSE b
DivRoundUp(x, y) == (x + y - 1) \div y

VARIABLES
    free,       \* the free map: sectors not allocated
    blk,        \* on-disk contents of each sector
    live,       \* the file exists (created and not yet deleted)
    hdr,        \* the sector of the file's inode_disk
    idata,      \* inode->data: the in-memory inode_disk
    failed      \* history: some allocation has failed

vars == <<free, blk, live, hdr, idata, failed>>

\* An inode_disk as calloc'ed by inode_create, with its length set.
EmptyInode(len) ==
    [dir |-> [i \in 0 .. DIRECT - 1 |-> 0], indir |-> 0, dindir |-> 0, length |-> len]

Init ==
    /\ free = Sec \ {FREE_MAP_SECTOR}
    /\ blk = [s \in Sec |-> IF s = FREE_MAP_SECTOR THEN InodeMark ELSE ZeroBlock]
    /\ live = [f \in Files |-> FALSE]
    /\ hdr = [f \in Files |-> 0]
    /\ idata = [f \in Files |-> EmptyInode(0)]
    /\ failed = FALSE

-----------------------------------------------------------------------------
(* Translation and allocation, as operators over a disk state             *)
(* st = [free, blk], the two things reserve changes.                       *)

\* bytes_to_sectors
BytesToSectors(len) == DivRoundUp(len, SectorSize)

\* A sector read as an indirect block (buffer_cache_read into indir_inode).
Ptrs(b, s) == IF b[s] = InodeMark THEN ZeroBlock ELSE b[s]

\* free_map_allocate (1, &s): the first free sector.  free-map.c is not
\* part of the repository; spec section 6 describes it.
FirstFree(fr) == Min(fr)

\* Taking sector p: free_map_allocate, then buffer_cache_write of zeros.
Take(st, p) == [free |-> st.free \ {p}, blk |-> [st.blk EXCEPT ![p] = ZeroBlock]]

\* sector_number: logical block idx of inode d to a sector (0 past the end),
\* reading the indirect blocks from the disk contents b.
SectorNumberOn(b, d, idx) ==
    IF idx < DIRECT THEN d.dir[idx]
    ELSE IF idx < DIRECT + INDIRECT THEN Ptrs(b, d.indir)[idx - DIRECT]
    ELSE IF idx < DIRECT + INDIRECT + INDIRECT * INDIRECT THEN
        LET j == idx - DIRECT - INDIRECT
        IN  Ptrs(b, Ptrs(b, d.dindir)[j \div INDIRECT])[j % INDIRECT]
    ELSE 0

SectorNumber(d, idx) == SectorNumberOn(blk, d, idx)

\* reserve_indir (page, num, level): make sure the block tree under *page
\* covers num data sectors.  Returns [ok, page, st]: the possibly new value
\* of *page and the disk state after the call, also when it fails.
RECURSIVE ReserveIndir(_, _, _, _), ReserveSlots(_, _, _, _, _, _, _)
ReserveIndir(page, num, level, st) ==
    IF level = 0 THEN
        IF page # 0 THEN [ok |-> TRUE, page |-> page, st |-> st]
        ELSE IF st.free = {} THEN [ok |-> FALSE, page |-> 0, st |-> st]
        ELSE [ok |-> TRUE, page |-> FirstFree(st.free),
              st |-> Take(st, FirstFree(st.free))]
    ELSE
        LET chunk == IF level > 1 THEN INDIRECT ELSE 1
            \* the result of free_map_allocate is not checked: on a full
            \* disk *page stays 0 and sector 0 is zeroed and used
            p   == IF page # 0 THEN page
                   ELSE IF st.free = {} THEN 0 ELSE FirstFree(st.free)
            st1 == IF page # 0 THEN st ELSE Take(st, p)
            r   == ReserveSlots(Ptrs(st1.blk, p), 0, DivRoundUp(num, chunk),
                                num, chunk, level - 1, st1)
        IN  IF ~r.ok THEN [ok |-> FALSE, page |-> p, st |-> r.st]
            ELSE [ok |-> TRUE, page |-> p,
                  st |-> [r.st EXCEPT !.blk = [@ EXCEPT ![p] = r.block]]]

\* The for loop of reserve_indir over the child slots of one block.  On a
\* failure it returns before the block is written back.
ReserveSlots(block, i, max, num, chunk, level, st) ==
    IF i >= max THEN [ok |-> TRUE, block |-> block, st |-> st]
    ELSE LET nmax == NMin(num, chunk)
             r    == ReserveIndir(block[i], nmax, level, st)
         IN  IF ~r.ok THEN [ok |-> FALSE, block |-> block, st |-> r.st]
             ELSE ReserveSlots([block EXCEPT ![i] = r.page], i + 1, max,
                               num - nmax, chunk, level, r.st)

\* The direct-block loop of inode_reserve.
RECURSIVE ReserveDirect(_, _, _, _)
ReserveDirect(d, i, max, st) ==
    IF i >= max THEN [ok |-> TRUE, d |-> d, st |-> st]
    ELSE IF d.dir[i] # 0 THEN ReserveDirect(d, i + 1, max, st)
    ELSE IF st.free = {} THEN [ok |-> FALSE, d |-> d, st |-> st]
    ELSE ReserveDirect([d EXCEPT !.dir[i] = FirstFree(st.free)], i + 1, max,
                       Take(st, FirstFree(st.free)))

\* Mutant of InodeReserve: the double-indirect tier is reserved under the
\* single-indirect pointer (&page->indir_block for &page->d_indir_block).
InodeReserveDindirSwap(d, len, st) ==
    LET n1 == BytesToSectors(len)
        m1 == NMin(n1, DIRECT)
        r1 == ReserveDirect(d, 0, m1, st)
        n2 == n1 - m1
        m2 == NMin(n2, INDIRECT)
        r2 == ReserveIndir(d.indir, m2, 1, r1.st)
        d2 == [r1.d EXCEPT !.indir = r2.page]
        n3 == n2 - m2
        m3 == NMin(n3, INDIRECT * INDIRECT)
        r3 == ReserveIndir(d2.indir, m3, 2, r2.st)
    IN  IF ~r1.ok THEN [ok |-> FALSE, d |-> r1.d, st |-> r1.st]
        ELSE IF n2 = 0 THEN [ok |-> TRUE, d |-> r1.d, st |-> r1.st]
        ELSE IF ~r2.ok THEN [ok |-> FALSE, d |-> d2, st |-> r2.st]
        ELSE IF n3 = 0 THEN [ok |-> TRUE, d |-> d2, st |-> r2.st]
        ELSE [ok |-> r3.ok, d |-> [d2 EXCEPT !.dindir = r3.page], st |-> r3.st]

\* inode_reserve (d, len): the three tiers in turn.  d is changed in place
\* in the code, so the pointers set before a failure stay in the result.
InodeReserve(d, len, st) ==
    LET n1 == BytesToSectors(len)
        m1 == NMin(n1, DIRECT)
        r1 == ReserveDirect(d, 0, m1, st)
        n2 == n1 - m1
        m2 == NMin(n2, INDIRECT)
        r2 == ReserveIndir(d.indir, m2, 1, r1.st)
        d2 == [r1.d EXCEPT !.indir = r2.page]
        n3 == n2 - m2
        m3 == NMin(n3, INDIRECT * INDIRECT)
        r3 == ReserveIndir(d.dindir, m3, 2, r2.st)
    IN  IF ~r1.ok THEN [ok |-> FALSE, d |-> r1.d, st |-> r1.st]
        ELSE IF n2 = 0 THEN [ok |-> TRUE, d |-> r1.d, st |-> r1.st]
        ELSE IF ~r2.ok THEN [ok |-> FALSE, d |-> d2, st |-> r2.st]
        ELSE IF n3 = 0 THEN [ok |-> TRUE, d |-> d2, st |-> r2.st]
        ELSE [ok |-> r3.ok, d |-> [d2 EXCEPT !.dindir = r3.page], st |-> r3.st]

\* delete_indir (ent, num, level): release the tree under ent, children
\* first, then ent itself.  Returns the free map after the call.
RECURSIVE DeleteIndir(_, _, _, _), DeleteSlots(_, _, _, _, _, _, _)
DeleteIndir(ent, num, level, fr) ==
    IF level = 0 THEN fr \cup {ent}
    ELSE LET chunk == IF level = 1 THEN 1 ELSE INDIRECT
         IN  DeleteSlots(Ptrs(blk, ent), 0, DivRoundUp(num, chunk), num, chunk,
                         level - 1, fr) \cup {ent}

DeleteSlots(block, i, max, num, chunk, level, fr) ==
    IF i >= max THEN fr
    ELSE LET nmax == NMin(num, chunk)
         IN  DeleteSlots(block, i + 1, max, num - nmax, chunk, level,
                         DeleteIndir(block[i], nmax, level, fr))

\* Mutant of InodeDelete: the single-indirect tier is released only when it
\* holds more than one block (max > 1 for max > 0).
InodeDeleteSkipOne(d, fr) ==
    LET n1 == BytesToSectors(d.length)
        m1 == NMin(n1, DIRECT)
        f1 == fr \cup {d.dir[i] : i \in 0 .. m1 - 1}
        n2 == n1 - m1
        m2 == NMin(n2, INDIRECT)
        f2 == IF m2 > 1 THEN DeleteIndir(d.indir, m2, 1, f1) ELSE f1
        m3 == NMin(n2 - m2, INDIRECT * INDIRECT)
    IN  IF m3 > 0 THEN DeleteIndir(d.dindir, m3, 2, f2) ELSE f2

\* inode_delete (d): the free map after releasing d's blocks by its length.
InodeDelete(d, fr) ==
    LET n1 == BytesToSectors(d.length)
        m1 == NMin(n1, DIRECT)
        f1 == fr \cup {d.dir[i] : i \in 0 .. m1 - 1}
        n2 == n1 - m1
        m2 == NMin(n2, INDIRECT)
        f2 == IF m2 > 0 THEN DeleteIndir(d.indir, m2, 1, f1) ELSE f1
        m3 == NMin(n2 - m2, INDIRECT * INDIRECT)
    IN  IF m3 > 0 THEN DeleteIndir(d.dindir, m3, 2, f2) ELSE f2
-----------------------------------------------------------------------------
(* Operations.                                                             *)

\* The header sector filesys_create takes before inode_create (first fit;
\* filesys.c is not part of the repository).
HeaderSector == FirstFree(free)

\* inode_create (sector, length): inode_new reserves the blocks of the
\* initial length, then the header is written.  On failure filesys_create
\* releases the header; the blocks reserved so far are not released.
CreateReserve(len) ==
    InodeReserve(EmptyInode(len), len,
                 [free |-> free \ {HeaderSector}, blk |-> blk])

CreateOk(f, len) ==
    /\ ~live[f]
    /\ free # {}
    /\ CreateReserve(len).ok
    /\ LET r == CreateReserve(len) IN
         /\ free'  = r.st.free
         /\ blk'   = [r.st.blk EXCEPT ![HeaderSector] = InodeMark]
         /\ idata' = [idata EXCEPT ![f] = r.d]
    /\ live' = [live EXCEPT ![f] = TRUE]
    /\ hdr'  = [hdr EXCEPT ![f] = HeaderSector]
    /\ UNCHANGED failed

CreateFail(f, len) ==
    /\ ~live[f]
    /\ free # {}
    /\ ~CreateReserve(len).ok
    /\ free'   = CreateReserve(len).st.free \cup {HeaderSector}
    /\ blk'    = CreateReserve(len).st.blk
    /\ failed' = TRUE
    /\ UNCHANGED <<live, hdr, idata>>

\* filesys_create on a full disk: free_map_allocate of the header fails and
\* the call returns false without changing anything.
CreateNoHeader(f) ==
    /\ ~live[f]
    /\ free = {}
    /\ UNCHANGED vars

\* Mutant of WriteGrowOk: the new length is set one byte short.
WriteGrowOkShort(f, len) ==
    /\ live[f]
    /\ len - 1 >= idata[f].length
    /\ InodeReserve(idata[f], len, [free |-> free, blk |-> blk]).ok
    /\ LET r == InodeReserve(idata[f], len, [free |-> free, blk |-> blk]) IN
         /\ free'  = r.st.free
         /\ blk'   = [r.st.blk EXCEPT ![hdr[f]] = InodeMark]
         /\ idata' = [idata EXCEPT ![f] = [r.d EXCEPT !.length = len - 1]]
    /\ UNCHANGED <<live, hdr, failed>>

\* Mutant of WriteGrowOk: the growth reserves into a fresh calloc'ed
\* inode_disk instead of inode->data, as inode_create does.
WriteGrowOkFresh(f, len) ==
    /\ live[f]
    /\ len - 1 >= idata[f].length
    /\ InodeReserve(EmptyInode(len), len, [free |-> free, blk |-> blk]).ok
    /\ LET r == InodeReserve(EmptyInode(len), len, [free |-> free, blk |-> blk]) IN
         /\ free'  = r.st.free
         /\ blk'   = [r.st.blk EXCEPT ![hdr[f]] = InodeMark]
         /\ idata' = [idata EXCEPT ![f] = r.d]
    /\ UNCHANGED <<live, hdr, failed>>

\* The growth path of inode_write_at (size bytes at offset, len = offset +
\* size): byte_to_sector (inode, len - 1) is -1 exactly when len - 1 is at
\* or past the length.  On success the new length is set and the header
\* rewritten; on failure the call returns 0 with inode->data holding the
\* pointers reserved so far and the old length.
WriteGrowOk(f, len) ==
    /\ live[f]
    /\ len - 1 >= idata[f].length
    /\ InodeReserve(idata[f], len, [free |-> free, blk |-> blk]).ok
    /\ LET r == InodeReserve(idata[f], len, [free |-> free, blk |-> blk]) IN
         /\ free'  = r.st.free
         /\ blk'   = [r.st.blk EXCEPT ![hdr[f]] = InodeMark]
         /\ idata' = [idata EXCEPT ![f] = [r.d EXCEPT !.length = len]]
    /\ UNCHANGED <<live, hdr, failed>>

WriteGrowFail(f, len) ==
    /\ live[f]
    /\ len - 1 >= idata[f].length
    /\ ~InodeReserve(idata[f], len, [free |-> free, blk |-> blk]).ok
    /\ LET r == InodeReserve(idata[f], len, [free |-> free, blk |-> blk]) IN
         /\ free'  = r.st.free
         /\ blk'   = r.st.blk
         /\ idata' = [idata EXCEPT ![f] = r.d]
    /\ failed' = TRUE
    /\ UNCHANGED <<live, hdr>>

\* inode_close of a removed inode by its last opener: free_map_release of
\* the header, then inode_delete of the in-memory inode.
CloseRemoved(f) ==
    /\ live[f]
    /\ free'  = InodeDelete(idata[f], free \cup {hdr[f]})
    /\ live'  = [live EXCEPT ![f] = FALSE]
    /\ idata' = [idata EXCEPT ![f] = EmptyInode(0)]
    /\ UNCHANGED <<blk, hdr, failed>>

Next ==
    \E f \in Files :
        \/ \E len \in Lengths :
              \/ CreateOk(f, len)
              \/ CreateFail(f, len)
              \/ WriteGrowOk(f, len)
              \/ WriteGrowFail(f, len)
        \/ CreateNoHeader(f)
        \/ CloseRemoved(f)

Spec == Init /\ [][Next]_vars

-----------------------------------------------------------------------------
(* Properties.                                                             *)

TypeOK ==
    /\ free \subseteq Sec
    /\ blk \in [Sec -> [Idx -> Sec] \cup {InodeMark}]
    /\ live \in [Files -> BOOLEAN]
    /\ hdr \in [Files -> Sec]
    /\ \A f \in Files :
         /\ idata[f].dir \in [0 .. DIRECT - 1 -> Sec]
         /\ {idata[f].indir, idata[f].dindir} \subseteq Sec
         /\ idata[f].length \in Lengths \cup {0}
    /\ failed \in BOOLEAN

\* The sectors a live file owns, by its length: header, data blocks, the
\* indirect block, the double-indirect block and its inner blocks.
NumData(f) == BytesToSectors(idata[f].length)
DataSectors(f) == {SectorNumber(idata[f], i) : i \in 0 .. NumData(f) - 1}
NumInner(f) == DivRoundUp(NumData(f) - DIRECT - INDIRECT, INDIRECT)
MetaSectors(f) ==
    (IF NumData(f) > DIRECT THEN {idata[f].indir} ELSE {})
    \cup (IF NumData(f) > DIRECT + INDIRECT
          THEN {idata[f].dindir}
               \cup {Ptrs(blk, idata[f].dindir)[j] : j \in 0 .. NumInner(f) - 1}
          ELSE {})
Owned(f) == {hdr[f]} \cup DataSectors(f) \cup MetaSectors(f)
OwnedCount(f) ==
    1 + NumData(f) + (IF NumData(f) > DIRECT THEN 1 ELSE 0)
      + (IF NumData(f) > DIRECT + INDIRECT THEN 1 + NumInner(f) ELSE 0)

\* Whatever has failed so far: every block a live file reaches below its
\* length is a distinct allocated sector, not the free map's own sector,
\* and no sector belongs to two files.  A violation is a file reading or
\* writing a free (soon reused) sector, or two files sharing a block.
NoSharing ==
    /\ \A f \in Files : live[f] =>
         /\ Cardinality(Owned(f)) = OwnedCount(f)
         /\ FREE_MAP_SECTOR \notin Owned(f)
         /\ Owned(f) \cap free = {}
    /\ \A f, g \in Files : (live[f] /\ live[g] /\ f # g) => Owned(f) \cap Owned(g) = {}

\* As long as no allocation has failed (spec 9 accepts leaks after one),
\* the free map and the live files partition the disk: deleting a file
\* returns exactly the sectors it held, growth takes exactly what the new
\* length needs.
NoLeakUntilExhausted ==
    ~failed => free \cup {FREE_MAP_SECTOR} \cup UNION {Owned(f) : f \in {g \in Files : live[g]}} = Sec

\* Spec 8 (monotonic growth): a step never moves a logical block of a file
\* that stays live: below its old length every block maps to the sector it
\* mapped to before.
MappingStable ==
    [][\A f \in Files : (live[f] /\ live'[f]) =>
         \A i \in 0 .. NumData(f) - 1 :
            SectorNumberOn(blk', idata'[f], i) = SectorNumber(idata[f], i)
      ]_vars

\* The free map's inode (sector 0) and the header of every live file keep
\* their inode contents: allocation writes only sectors it allocated.
MetadataIntact ==
    /\ blk[FREE_MAP_SECTOR] = InodeMark
    /\ \A f \in Files : live[f] => blk[hdr[f]] = InodeMark
=============================================================================
