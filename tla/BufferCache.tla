---------------------------- MODULE BufferCache ----------------------------
(***************************************************************************)
(* The buffer cache of src/project5/src/filesys/cache.c.                   *)
(*                                                                         *)
(* NUM_CACHE lines, each with valid/dirty/refer bits, the sector it holds  *)
(* and its payload.  Every public operation (buffer_cache_read,            *)
(* buffer_cache_write, buffer_cache_terminate) holds bc_lock from start to *)
(* finish, and the block device is synchronous, so each operation is one  *)
(* atomic step here.  A payload is abstracted to a member of Values: one   *)
(* value stands for the 512 bytes of a sector written by one call.         *)
(***************************************************************************)
EXTENDS Naturals

CONSTANTS
    NumCache,   \* NUM_CACHE (64 in the code)
    Sectors,    \* the sectors the model touches
    Values,     \* abstract sector contents
    NoSector    \* disk_sector of a line that was never filled

ASSUME NumCache \in Nat \ {0}
ASSUME NoSector \notin Sectors

Lines == 0 .. NumCache - 1
NoLine == NumCache

VARIABLES
    valid,      \* cache[i].valid_bit
    sector,     \* cache[i].disk_sector
    buf,        \* cache[i].buffer
    dirty,      \* cache[i].dirty_bit
    refer,      \* cache[i].refer_bit
    disk,       \* fs_device contents
    down        \* buffer_cache_terminate has run (filesys_done)

vars == <<valid, sector, buf, dirty, refer, disk, down>>

\* buffer_cache_init: every line invalid; the static array is zeroed.  The
\* disk starts with arbitrary contents.
Init ==
    /\ valid  = [i \in Lines |-> FALSE]
    /\ sector = [i \in Lines |-> NoSector]
    /\ buf    = [i \in Lines |-> CHOOSE v \in Values : TRUE]
    /\ dirty  = [i \in Lines |-> FALSE]
    /\ refer  = [i \in Lines |-> FALSE]
    /\ disk \in [Sectors -> Values]
    /\ down = FALSE

-----------------------------------------------------------------------------
(* Helpers, each one C function or loop.                                   *)

\* Mutant of Lookup: the scan stops one line early (i < NUM_CACHE - 1).
LookupSkipLast(s) ==
    LET hits == {i \in Lines : valid[i] /\ sector[i] = s /\ i < NumCache - 1}
    IN  IF hits = {} THEN NoLine
        ELSE CHOOSE i \in hits : \A j \in hits : i <= j

\* buffer_cache_lookup: the first valid line holding s, NoLine on a miss.
Lookup(s) ==
    LET hits == {i \in Lines : valid[i] /\ sector[i] = s}
    IN  IF hits = {} THEN NoLine
        ELSE CHOOSE i \in hits : \A j \in hits : i <= j

\* The for(;;) loop of buffer_cache_select_victim, started at cindex = 0:
\* an invalid line is taken at once, a referenced line loses its bit and
\* the scan moves on, the first valid unreferenced line stops the scan.
\* Returns the line where the scan stopped and the refer bits it left.
RECURSIVE ClockScan(_, _)
ClockScan(i, ref) ==
    IF ~valid[i] THEN [line |-> i, refer |-> ref]
    ELSE IF ref[i] THEN ClockScan((i + 1) % NumCache, [ref EXCEPT ![i] = FALSE])
    ELSE [line |-> i, refer |-> ref]

SelectVictim == ClockScan(0, refer)

\* Mutant of FlushEntry: the dirty payload is dropped, not written back.
FlushEntryLost(i, d) == d

\* buffer_cache_flush_entry: the disk after writing back line i if dirty.
FlushEntry(i, d) ==
    IF dirty[i] THEN [d EXCEPT ![sector[i]] = buf[i]] ELSE d

\* The miss path shared by buffer_cache_read and buffer_cache_write: pick a
\* victim, write it back if it is valid and dirty, then block_read s into
\* it.  Returns the chosen line and the new disk and refer bits.
Fill(s) ==
    LET sv == SelectVictim
        v  == sv.line
        d  == IF valid[v] THEN FlushEntry(v, disk) ELSE disk
    IN  [line |-> v, disk |-> d, refer |-> sv.refer]

-----------------------------------------------------------------------------
(* Operations.  Each is one call made with bc_lock held throughout.        *)

\* buffer_cache_read, hit: set the refer bit and copy the payload out.
ReadHit(s) ==
    /\ ~down
    /\ Lookup(s) # NoLine
    /\ refer' = [refer EXCEPT ![Lookup(s)] = TRUE]
    /\ UNCHANGED <<valid, sector, buf, dirty, disk, down>>

\* Mutant of ReadMiss: the fill forgets `ent->valid_bit = true`.
ReadMissNoValid(s) ==
    /\ ~down
    /\ Lookup(s) = NoLine
    /\ LET f == Fill(s) IN
         /\ disk'   = f.disk
         /\ valid'  = [valid  EXCEPT ![f.line] = FALSE]
         /\ sector' = [sector EXCEPT ![f.line] = s]
         /\ buf'    = [buf    EXCEPT ![f.line] = f.disk[s]]
         /\ dirty'  = [dirty  EXCEPT ![f.line] = FALSE]
         /\ refer'  = [f.refer EXCEPT ![f.line] = TRUE]
    /\ UNCHANGED down

\* buffer_cache_read, miss: evict, fill from the disk, set the refer bit.
ReadMiss(s) ==
    /\ ~down
    /\ Lookup(s) = NoLine
    /\ LET f == Fill(s) IN
         /\ disk'   = f.disk
         /\ valid'  = [valid  EXCEPT ![f.line] = TRUE]
         /\ sector' = [sector EXCEPT ![f.line] = s]
         /\ buf'    = [buf    EXCEPT ![f.line] = f.disk[s]]
         /\ dirty'  = [dirty  EXCEPT ![f.line] = FALSE]
         /\ refer'  = [f.refer EXCEPT ![f.line] = TRUE]
    /\ UNCHANGED down

\* buffer_cache_write, hit: overwrite the payload, set refer and dirty.
WriteHit(s, val) ==
    /\ ~down
    /\ Lookup(s) # NoLine
    /\ buf'    = [buf   EXCEPT ![Lookup(s)] = val]
    /\ dirty'  = [dirty EXCEPT ![Lookup(s)] = TRUE]
    /\ refer'  = [refer EXCEPT ![Lookup(s)] = TRUE]
    /\ UNCHANGED <<valid, sector, disk, down>>

\* buffer_cache_write, miss: evict, fill from the disk (the block_read the
\* code does before overwriting), then overwrite, set refer and dirty.
WriteMiss(s, val) ==
    /\ ~down
    /\ Lookup(s) = NoLine
    /\ LET f == Fill(s) IN
         /\ disk'   = f.disk
         /\ valid'  = [valid  EXCEPT ![f.line] = TRUE]
         /\ sector' = [sector EXCEPT ![f.line] = s]
         /\ buf'    = [buf    EXCEPT ![f.line] = val]
         /\ dirty'  = [dirty  EXCEPT ![f.line] = TRUE]
         /\ refer'  = [f.refer EXCEPT ![f.line] = TRUE]
    /\ UNCHANGED down

\* Mutant of FlushLines: the loop bound is off by one.
FlushLinesSkipLast == {i \in Lines : valid[i] /\ i < NumCache - 1}

\* buffer_cache_terminate: flush every valid line.  It is called from
\* filesys_done at power-off, after which the file system is not used.
FlushLines == {i \in Lines : valid[i]}

Terminate ==
    /\ ~down
    /\ disk'  = [s \in Sectors |->
                   IF \E i \in FlushLines : dirty[i] /\ sector[i] = s
                   THEN buf[CHOOSE i \in FlushLines : dirty[i] /\ sector[i] = s]
                   ELSE disk[s]]
    /\ dirty' = [i \in Lines |-> IF i \in FlushLines THEN FALSE ELSE dirty[i]]
    /\ down'  = TRUE
    /\ UNCHANGED <<valid, sector, buf, refer>>

Next ==
    \/ \E s \in Sectors :
         \/ ReadHit(s)
         \/ ReadMiss(s)
         \/ \E val \in Values : WriteHit(s, val) \/ WriteMiss(s, val)
    \/ Terminate

Spec == Init /\ [][Next]_vars

-----------------------------------------------------------------------------
(* Properties.                                                             *)

\* Types, and a line that does not hold a sector is clean and unreferenced.
TypeOK ==
    /\ valid  \in [Lines -> BOOLEAN]
    /\ sector \in [Lines -> Sectors \cup {NoSector}]
    /\ buf    \in [Lines -> Values]
    /\ dirty  \in [Lines -> BOOLEAN]
    /\ refer  \in [Lines -> BOOLEAN]
    /\ disk   \in [Sectors -> Values]
    /\ down   \in BOOLEAN
    /\ \A i \in Lines : ~valid[i] => ~dirty[i] /\ ~refer[i]

\* What buffer_cache_read(s) would copy out in the current state.
Current(s) == IF Lookup(s) # NoLine THEN buf[Lookup(s)] ELSE disk[s]

\* The refinement mapping: the abstract store holds what a read returns.
AbsStore == INSTANCE SectorStore WITH store <- [s \in Sectors |-> Current(s)]

\* Read-your-writes across evictions (spec 4.1): the cache implements
\* SectorStore.  A read, a hit or miss, an eviction with its write-back and
\* the shutdown flush never change what any sector reads as; only a write
\* does, and only for its own sector.
ImplementsSectorStore == AbsStore!Spec

\* The data model's cache-line invariant: at most one valid line holds a
\* given sector, so a write through one line can never be hidden behind a
\* stale copy in another.
UniqueLine ==
    \A i, j \in Lines : (valid[i] /\ valid[j] /\ sector[i] = sector[j]) => i = j

\* Durability at shutdown (spec 4.1): once buffer_cache_terminate has run,
\* the disk itself holds what every sector reads as through the cache.
FlushedOnShutdown == down => \A s \in Sectors : disk[s] = Current(s)

\* Spec 8 (cache eviction): with capacity C, C distinct sectors fit without
\* any eviction, i.e. a miss replaces the sector of a valid line only when
\* no line is free.
NoEvictionWhileFree ==
    [][\A i \in Lines :
         (valid[i] /\ sector'[i] # sector[i]) => \A j \in Lines : valid[j]
      ]_vars
=============================================================================
