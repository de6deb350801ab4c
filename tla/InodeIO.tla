------------------------------ MODULE InodeIO ------------------------------
(***************************************************************************)
(* The byte transfer of inode_read_at and inode_write_at in                *)
(* src/project5/src/filesys/inode.c, with the growth test of write_at and  *)
(* the deny-write counter, checked against a reference file: the sequence *)
(* of bytes spec 4.2 says the file holds.                                  *)
(*                                                                         *)
(* A sector holds SecSize bytes (BLOCK_SECTOR_SIZE, 512 in the code; the   *)
(* chunk arithmetic is the same for any size).  Logical block k of the     *)
(* file is blk[k]; the translation byte_to_sector makes through            *)
(* sector_number, and the allocation inode_reserve makes, are checked in  *)
(* InodeAllocator, and here a block is found at its index.  Blocks past    *)
(* the length hold zeros, as inode_reserve zero-fills what it allocates.   *)
(* The byte written at file position p by a write tagged v is <<v, p>>,   *)
(* so a byte copied to the wrong place, or a stale one, is told apart.     *)
(* The bounce buffer's malloc is taken to succeed.                         *)
(***************************************************************************)
EXTENDS Naturals, Sequences, FiniteSets

CONSTANTS
    SecSize,    \* BLOCK_SECTOR_SIZE
    MaxLen,     \* the longest file the callers write (offset + size)
    Tags,       \* distinct contents of write buffers
    Openers     \* the opens of the file (open_cnt), each may deny writes

ASSUME SecSize \in Nat \ {0} /\ MaxLen \in Nat

NBlocks == (MaxLen + SecSize - 1) \div SecSize
Blocks == 0 .. NBlocks - 1
Ofs == 0 .. SecSize - 1
\* A zero byte, as a pair so that it compares with the written ones.
Zero == <<"zero", 0>>
Bytes == {Zero} \cup (Tags \X (0 .. MaxLen - 1))

\* A file: inode->data.length, the contents of its data sectors by logical
\* block, inode->deny_write_cnt, the openers that called file_deny_write
\* (file.c), and the reference file: its bytes, position 0 first.
File == [length : 0 .. MaxLen, blk : [Blocks -> [Ofs -> Bytes]],
         deny : 0 .. Cardinality(Openers), denied : SUBSET Openers,
         ref : Seq(Bytes)]

\* The file inode_create (sector, 0) makes.
EmptyFile ==
    [length |-> 0, blk |-> [k \in Blocks |-> [o \in Ofs |-> Zero]],
     deny |-> 0, denied |-> {}, ref |-> <<>>]

MinOf(a, b) == IF a < b THEN a ELSE b

-----------------------------------------------------------------------------
(* inode_read_at.                                                          *)

\* The read loop from offset with size bytes left: each turn reads the
\* chunk min (size, length - offset, SecSize - sector_ofs) of the sector
\* holding offset (directly when it is a whole sector, else through the
\* bounce buffer: the same bytes) and stops at a chunk <= 0.
RECURSIVE ReadLoop(_, _, _, _, _)
ReadLoop(b, len, size, offset, acc) ==
    LET k     == offset \div SecSize
        o     == offset % SecSize
        chunk == MinOf(size, MinOf(len - offset, SecSize - o))
    IN  IF chunk <= 0 THEN acc
        ELSE ReadLoop(b, len, size - chunk, offset + chunk,
                      acc \o [i \in 1 .. chunk |-> b[k][o + i - 1]])

\* inode_read_at (inode, buffer, size, offset): the bytes it returns.
InodeReadAt(f, size, offset) == ReadLoop(f.blk, f.length, size, offset, <<>>)

-----------------------------------------------------------------------------
(* inode_write_at.                                                         *)

\* Mutant of Bounce: the old sector is never read; the bounce buffer
\* starts as zeros.
BounceZero(sec, o, chunk) == [x \in Ofs |-> Zero]

\* The bounce buffer before the chunk is copied in: the old sector when it
\* has bytes before or after the chunk, else zeros.
Bounce(sec, o, chunk) ==
    IF o > 0 \/ chunk < SecSize - o THEN sec ELSE [x \in Ofs |-> Zero]

\* The write loop: buffer byte j (0-based) is <<v, off0 + j>>.  A whole
\* aligned sector is written directly, anything else through the bounce
\* buffer.  Returns the sectors and bytes_written.
RECURSIVE WriteLoop(_, _, _, _, _, _, _)
WriteLoop(b, len, size, offset, written, v, off0) ==
    LET k     == offset \div SecSize
        o     == offset % SecSize
        chunk == MinOf(size, MinOf(len - offset, SecSize - o))
        buf   == [x \in Ofs |-> IF o <= x /\ x < o + chunk
                                THEN <<v, off0 + written + x - o>> ELSE Zero]
        new   == IF o = 0 /\ chunk = SecSize THEN buf
                 ELSE LET bb == Bounce(b[k], o, chunk)
                      IN  [x \in Ofs |-> IF o <= x /\ x < o + chunk THEN buf[x] ELSE bb[x]]
    IN  IF chunk <= 0 THEN [blk |-> b, written |-> written]
        ELSE WriteLoop([b EXCEPT ![k] = new], len, size - chunk, offset + chunk,
                       written + chunk, v, off0)

\* byte_to_sector (inode, len - 1) == -1u: no byte at len - 1.  For
\* len = 0 the position -1 is below the length (off_t is signed) and
\* sector_number (..., 0) answers, so nothing grows.
GrowNeeded(len, curlen) == len >= 1 /\ len - 1 >= curlen

\* The reference: writing size bytes tagged v at off.  Spec 4.2: a write
\* whose end offset passes the length first grows the file to that end
\* (with zeros in a gap), also when size is 0.
RefWrite(r, off, size, v) ==
    LET n == IF off + size > Len(r) THEN off + size ELSE Len(r)
    IN  [i \in 1 .. n |-> IF off < i /\ i <= off + size THEN <<v, i - 1>>
                          ELSE IF i <= Len(r) THEN r[i] ELSE Zero]

\* inode_write_at (inode, buffer, size, offset) on f, with reserved the
\* outcome inode_reserve would have.  Returns the file after the call and
\* the value returned: 0 while writes are denied, 0 when inode_reserve
\* fails (what it allocated stays zero-filled and past the length);
\* otherwise the length grows when needed, and the bytes are copied.
InodeWriteAt(f, off, size, v, reserved) ==
    LET len == off + size
        nl  == IF GrowNeeded(len, f.length) THEN len ELSE f.length
        r   == WriteLoop(f.blk, nl, size, off, 0, v, off)
    IN  IF f.deny # 0 \/ (GrowNeeded(len, f.length) /\ ~reserved)
        THEN [file |-> f, ret |-> 0]
        ELSE [file |-> [f EXCEPT !.length = nl, !.blk = r.blk,
                                 !.ref = RefWrite(f.ref, off, size, v)],
              ret |-> r.written]

-----------------------------------------------------------------------------
(* inode_deny_write and inode_allow_write, as file_deny_write and         *)
(* file_allow_write call them: at most once per opener, allow only after   *)
(* deny.  The ASSERTs hold with these callers.                             *)

InodeDenyWrite(f, o) == [f EXCEPT !.deny = @ + 1, !.denied = @ \cup {o}]

InodeAllowWrite(f, o) == [f EXCEPT !.deny = @ - 1, !.denied = @ \ {o}]

\* The files one call makes from f: a write of size bytes at off with
\* off + size <= MaxLen, whether or not inode_reserve succeeds, or a deny
\* or allow by an opener that may call it.
Successors(f) ==
    {InodeWriteAt(f, w[1], w[2], w[3], w[4]).file :
        w \in {w \in (0 .. MaxLen) \X (0 .. MaxLen) \X Tags \X BOOLEAN :
                  w[1] + w[2] <= MaxLen}}
    \cup {InodeDenyWrite(f, o) : o \in Openers \ f.denied}
    \cup {InodeAllowWrite(f, o) : o \in f.denied}

\* Every file a sequence of calls makes from a new one: the least set that
\* holds the new file and the successors of each of its files.
RECURSIVE Closure(_)
Closure(S) ==
    LET T == S \cup UNION {Successors(f) : f \in S}
    IN  IF T = S THEN S ELSE Closure(T)

Reachable == Closure({EmptyFile})

-----------------------------------------------------------------------------
(* Properties, over every reachable file.                                  *)

TypeOK == Reachable \subseteq File

\* Byte-exact transfer: for every offset and size, inode_read_at returns
\* exactly the bytes of the reference file from offset up to the end of
\* the request or of the file, after any sequence of inode_write_at calls
\* that grow the file, leave gaps, straddle sector boundaries, overwrite
\* parts of sectors, fail to reserve, or are denied.
ReadCorrect ==
    \A f \in Reachable :
        /\ f.length = Len(f.ref)
        /\ \A off \in 0 .. MaxLen, size \in 0 .. MaxLen :
              InodeReadAt(f, size, off) =
                 [i \in 1 .. MinOf(size, IF Len(f.ref) > off THEN Len(f.ref) - off ELSE 0)
                    |-> f.ref[off + i]]
=============================================================================
