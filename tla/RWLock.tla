------------------------------- MODULE RWLock -------------------------------
(***************************************************************************)
(* The readers/writer discipline of src/project4/src/userprog/syscall.c:   *)
(* read counts its readers in readcnt under lock mut, the first reader     *)
(* acquires lock w and the last one releases it; write (and open, which    *)
(* locks the same way) holds w for its whole call.                         *)
(*                                                                         *)
(* mut and w are Pintos locks (threads/synch.c, not in the repository):    *)
(* lock_acquire blocks while another thread holds the lock and asserts     *)
(* that the caller does not hold it already; lock_release asserts that the *)
(* caller holds it.  A failed ASSERT is a kernel PANIC: the machine stops. *)
(* Each lock operation and each update of readcnt is one step; the file    *)
(* access itself is the step into and out of the critical section.        *)
(***************************************************************************)
EXTENDS Naturals, FiniteSets

CONSTANTS
    Threads,    \* user threads calling read and write
    NoThread    \* a lock with no holder

VARIABLES
    mut,        \* holder of lock mut
    w,          \* holder of lock w
    readcnt,    \* readcnt
    pc,         \* where each thread is in read or write
    panicked    \* an ASSERT in lock_acquire/lock_release failed

vars == <<mut, w, readcnt, pc, panicked>>

ReadPcs == {"r_inc", "r_w", "r_unmut", "r_cs", "r_dec", "r_relw", "r_unmut2"}
Pcs == {"idle", "w_cs"} \cup ReadPcs

Init ==
    /\ mut = NoThread
    /\ w = NoThread
    /\ readcnt = 0
    /\ pc = [t \in Threads |-> "idle"]
    /\ panicked = FALSE

\* One step of thread t from pc p to q, changing nothing else but what
\* the step lists.
Go(t, p, q) == pc[t] = p /\ pc' = [pc EXCEPT ![t] = q] /\ ~panicked

-----------------------------------------------------------------------------
(* read (fd, buffer, size).                                                *)

\* lock_acquire (&mut)
ReadLockMut(t) ==
    /\ Go(t, "idle", "r_inc")
    /\ mut = NoThread
    /\ mut' = t
    /\ UNCHANGED <<w, readcnt, panicked>>

\* Mutant of ReadInc: the first reader is taken to be the one that makes
\* readcnt 2.
ReadIncOffByOne(t) ==
    /\ pc[t] = "r_inc" /\ ~panicked
    /\ readcnt' = readcnt + 1
    /\ pc' = [pc EXCEPT ![t] = IF readcnt + 1 = 2 THEN "r_w" ELSE "r_unmut"]
    /\ UNCHANGED <<mut, w, panicked>>

\* readcnt++; if (readcnt == 1) the first reader goes on to lock w.
ReadInc(t) ==
    /\ pc[t] = "r_inc" /\ ~panicked
    /\ readcnt' = readcnt + 1
    /\ pc' = [pc EXCEPT ![t] = IF readcnt + 1 = 1 THEN "r_w" ELSE "r_unmut"]
    /\ UNCHANGED <<mut, w, panicked>>

\* lock_acquire (&w) by the first reader, with mut held.
ReadLockW(t) ==
    /\ Go(t, "r_w", "r_unmut")
    /\ w = NoThread
    /\ w' = t
    /\ UNCHANGED <<mut, readcnt, panicked>>

\* lock_release (&mut); then the file or console is read.
ReadUnlockMut(t) ==
    /\ Go(t, "r_unmut", "r_cs")
    /\ mut' = NoThread
    /\ UNCHANGED <<w, readcnt, panicked>>

\* The read is done: lock_acquire (&mut).
ReadDone(t) ==
    /\ Go(t, "r_cs", "r_dec")
    /\ mut = NoThread
    /\ mut' = t
    /\ UNCHANGED <<w, readcnt, panicked>>

\* Mutant of ReadDec: readcnt is decremented twice.
ReadDecTwice(t) ==
    /\ pc[t] = "r_dec" /\ ~panicked
    /\ readcnt' = readcnt - 2
    /\ pc' = [pc EXCEPT ![t] = IF readcnt - 2 = 0 THEN "r_relw" ELSE "r_unmut2"]
    /\ UNCHANGED <<mut, w, panicked>>

\* readcnt--; if (readcnt == 0) the last reader goes on to unlock w.
ReadDec(t) ==
    /\ pc[t] = "r_dec" /\ ~panicked
    /\ readcnt' = readcnt - 1
    /\ pc' = [pc EXCEPT ![t] = IF readcnt - 1 = 0 THEN "r_relw" ELSE "r_unmut2"]
    /\ UNCHANGED <<mut, w, panicked>>

\* lock_release (&w) by the last reader: ASSERT (lock_held_by_current_thread).
ReadUnlockW(t) ==
    /\ pc[t] = "r_relw" /\ ~panicked
    /\ IF w = t
       THEN /\ w' = NoThread
            /\ pc' = [pc EXCEPT ![t] = "r_unmut2"]
            /\ UNCHANGED panicked
       ELSE /\ panicked' = TRUE
            /\ UNCHANGED <<w, pc>>
    /\ UNCHANGED <<mut, readcnt>>

\* lock_release (&mut); read returns.
ReadUnlockMut2(t) ==
    /\ Go(t, "r_unmut2", "idle")
    /\ mut' = NoThread
    /\ UNCHANGED <<w, readcnt, panicked>>

-----------------------------------------------------------------------------
(* write (fd, buffer, size), and open, which locks w the same way.         *)

\* lock_acquire (&w); then the file or console is written.
WriteLockW(t) ==
    /\ Go(t, "idle", "w_cs")
    /\ w = NoThread
    /\ w' = t
    /\ UNCHANGED <<mut, readcnt, panicked>>

\* lock_release (&w); write returns.
WriteUnlockW(t) ==
    /\ Go(t, "w_cs", "idle")
    /\ w' = NoThread
    /\ UNCHANGED <<mut, readcnt, panicked>>

\* lock_acquire (&w) by a thread that still holds w, as a write or as a
\* first reader: ASSERT (!lock_held_by_current_thread) fails.
AcquireHeldW(t) ==
    /\ ~panicked
    /\ pc[t] \in {"idle", "r_w"}
    /\ w = t
    /\ panicked' = TRUE
    /\ UNCHANGED <<mut, w, readcnt, pc>>

Next ==
    \E t \in Threads :
        \/ ReadLockMut(t) \/ ReadInc(t) \/ ReadLockW(t) \/ ReadUnlockMut(t)
        \/ ReadDone(t) \/ ReadDec(t) \/ ReadUnlockW(t) \/ ReadUnlockMut2(t)
        \/ WriteLockW(t) \/ WriteUnlockW(t) \/ AcquireHeldW(t)

Spec == Init /\ [][Next]_vars

-----------------------------------------------------------------------------
(* Properties.                                                             *)

TypeOK ==
    /\ mut \in Threads \cup {NoThread}
    /\ w \in Threads \cup {NoThread}
    /\ readcnt \in 0 .. Cardinality(Threads)
    /\ pc \in [Threads -> Pcs]
    /\ panicked \in BOOLEAN

Readers == {t \in Threads : pc[t] = "r_cs"}
Writers == {t \in Threads : pc[t] = "w_cs"}

\* Readers/writer exclusion: a writer is never inside write while another
\* writer or any reader is inside, however first and last readers and
\* writers interleave.
Exclusion ==
    Writers # {} => (Readers = {} /\ Cardinality(Writers) = 1)

\* Lock ownership: lock w, while held, is held by a thread still inside
\* the section it protects (a reader between its lock of w and the end of
\* reading, or a writer in write), so the thread that releases it is its
\* holder, as lock_release requires.
HolderInside ==
    w # NoThread => pc[w] \in {"r_unmut", "r_cs", "r_dec", "r_relw", "w_cs"}
=============================================================================
