----------------------------- MODULE FrameTable -----------------------------
(***************************************************************************)
(* The user-page frame table and swap of src/project5/src/vm: frame.c      *)
(* (frame_get_multiple, free_frame, the clock), swap.c (swap_insert,       *)
(* swap_get, swap_free) and page_destructor of page.c.                     *)
(*                                                                         *)
(* The code that calls them (the page-fault handler, process exit) is not *)
(* in the repository.  It is modelled as the least the code needs of it:  *)
(* a process faults on a page that is not resident, calls get_frame, and  *)
(* then, after get_frame has released frame_lock, makes the frame the     *)
(* page's (page_occupant, frame, status) and, for a page in swap, calls   *)
(* swap_get.  Process exit destroys every page of the process through     *)
(* page_destructor.  A Pintos user process has one thread.                *)
(*                                                                         *)
(* A page is <<process, address>>.  acc[p] is the accessed bit of the page *)
(* table entry of address p[2] in the page directory of process p[1]; the *)
(* hardware sets it when the process touches the page.  A NULL dereference *)
(* in the kernel, or block_write past the end of the swap device, is a    *)
(* kernel panic: panicked, after which nothing runs.                      *)
(***************************************************************************)
EXTENDS Naturals, FiniteSets, FiniteSetsExt

CONSTANTS
    Procs,      \* user processes
    Addrs,      \* user virtual page addresses each process uses
    NFrames,    \* clock_max: user frames after the bitmap's pages
    SwapSlots,  \* page slots of the swap bitmap (1024 in swap_init)
    NoPage      \* a NULL page pointer

ASSUME NFrames \in Nat \ {0} /\ SwapSlots \in Nat \ {0}

Pages == Procs \X Addrs
FrameIds == 0 .. NFrames - 1
SlotIds == 0 .. SwapSlots - 1
NoFrame == -1   \* p->frame == NULL
NoSlot == -1    \* block_sector == -1: no swap slot

VARIABLES
    used,       \* free_frames: the frames whose bit is set
    occ,        \* frame_table[f].page_occupant
    clock,      \* clock_ptr
    pframe,     \* p->frame
    status,     \* p->status: "zero" (not loaded), "frame" or "swap"
    slot,       \* p->block_sector
    swapused,   \* used_blocks: the slots whose bit is set
    acc,        \* accessed bits
    pend,       \* per process: the [frame, page] get_frame gave it, not yet
                \* made the page's; or NoPage
    panicked

vars == <<used, occ, clock, pframe, status, slot, swapused, acc, pend, panicked>>

Init ==
    /\ used = {}
    /\ occ = [f \in FrameIds |-> NoPage]
    /\ clock = 0
    /\ pframe = [p \in Pages |-> NoFrame]
    /\ status = [p \in Pages |-> "zero"]
    /\ slot = [p \in Pages |-> NoSlot]
    /\ swapused = {}
    /\ acc = [p \in Pages |-> FALSE]
    /\ pend = [r \in Procs |-> NoPage]
    /\ panicked = FALSE

Resident(p) == status[p] = "frame"

-----------------------------------------------------------------------------
(* The clock of frame_get_multiple.                                        *)

\* Mutant of ClockAdvance: clock_ptr is not wrapped at clock_max.
ClockAdvanceNoWrap(ptr) == ptr + 1

\* clock_ptr++; if (clock_ptr >= clock_max) clock_ptr = 0;
ClockAdvance(ptr) == IF ptr + 1 >= NFrames THEN 0 ELSE ptr + 1

\* while (pagedir_is_accessed (t->pagedir, occupant->addr)) clear it and
\* advance clock_ptr, wrapping at clock_max.  The page directory is the
\* current process r's.  Stops at a NULL occupant, which the caller then
\* dereferences.  Returns the pointer and the accessed bits after the loop.
RECURSIVE ClockScan(_, _, _)
ClockScan(ptr, ac, r) ==
    LET v == occ[ptr]
        q == <<r, v[2]>>
    IN  IF v # NoPage /\ ac[q]
        THEN ClockScan(ClockAdvance(ptr), [ac EXCEPT ![q] = FALSE], r)
        ELSE [ptr |-> ptr, acc |-> ac]

\* bitmap_scan_and_flip finds the first free frame: it is taken and
\* returned (its occupant is left as it is).
GetFree(r, p) ==
    /\ used # FrameIds
    /\ LET f == Min(FrameIds \ used)
       IN  /\ used' = used \cup {f}
           /\ pend' = [pend EXCEPT ![r] = [frame |-> f, page |-> p]]
    /\ UNCHANGED <<occ, clock, pframe, status, slot, swapused, acc, panicked>>

\* swap_insert's slot: bitmap_scan_and_flip (used_blocks, 0, 1, false).
\* Only called with a free slot (a full bitmap panics first).
SwapSlot(su) == LET s == Min(SlotIds \ su) IN [slot |-> s, used |-> su \cup {s}]

\* No free frame: the clock picks the victim, swap_insert copies it to a
\* slot, the victim's frame becomes NULL, its status IN_SWAP_TABLE and its
\* mapping is cleared; clock_ptr moves past the victim, whose frame is
\* returned.  A NULL victim, a victim whose frame is already NULL (swap_insert
\* reads p->frame->kpage), or a full swap bitmap (BITMAP_ERROR, then
\* block_write beyond the device) panics.
Evict(r, p) ==
    /\ used = FrameIds
    /\ LET sc == ClockScan(clock, acc, r)
           v  == occ[sc.ptr]
       IN  IF v = NoPage \/ pframe[v] = NoFrame \/ swapused = SlotIds
           THEN /\ panicked' = TRUE
                /\ UNCHANGED <<used, occ, clock, pframe, status, slot, swapused, acc, pend>>
           ELSE LET sw == SwapSlot(swapused)
                IN  /\ acc' = sc.acc
                    /\ swapused' = sw.used
                    /\ slot' = [slot EXCEPT ![v] = sw.slot]
                    /\ pframe' = [pframe EXCEPT ![v] = NoFrame]
                    /\ status' = [status EXCEPT ![v] = "swap"]
                    /\ clock' = ClockAdvance(sc.ptr)
                    /\ pend' = [pend EXCEPT ![r] = [frame |-> sc.ptr, page |-> p]]
                    /\ UNCHANGED <<used, occ, panicked>>

\* A page fault of process r on its page at address a: get_frame, under
\* frame_lock.
GetFrame(r, a) ==
    LET p == <<r, a>>
    IN  /\ ~panicked
        /\ pend[r] = NoPage
        /\ ~Resident(p)
        /\ GetFree(r, p) \/ Evict(r, p)

\* After get_frame returns: a page in swap is read back by swap_get, which
\* clears its slot's bit (block_sector keeps its value); the frame becomes
\* the page's.
Install(r) ==
    LET f == pend[r].frame
        p == pend[r].page
    IN  /\ ~panicked
        /\ pend[r] # NoPage
        /\ swapused' = IF status[p] = "swap" THEN swapused \ {slot[p]} ELSE swapused
        /\ occ' = [occ EXCEPT ![f] = p]
        /\ pframe' = [pframe EXCEPT ![p] = f]
        /\ status' = [status EXCEPT ![p] = "frame"]
        /\ pend' = [pend EXCEPT ![r] = NoPage]
        /\ UNCHANGED <<used, clock, slot, acc, panicked>>

\* Process r touches its resident page at a: the hardware sets the
\* accessed bit.
Touch(r, a) ==
    /\ ~panicked
    /\ Resident(<<r, a>>)
    /\ ~acc[<<r, a>>]
    /\ acc' = [acc EXCEPT ![<<r, a>>] = TRUE]
    /\ UNCHANGED <<used, occ, clock, pframe, status, slot, swapused, pend, panicked>>

\* free_frame of each frame in fr: its mapping is cleared, its bit reset in
\* free_frames and its occupant set to NULL.
FreeFrames(fr) ==
    /\ used' = used \ fr
    /\ occ' = [f \in FrameIds |-> IF f \in fr THEN NoPage ELSE occ[f]]

\* swap_free of each slot in sl: its bit is reset in used_blocks.
SwapFree(sl) == swapused' = swapused \ sl

\* Process exit: page_destructor on every page of r.  A page with a frame
\* goes through free_frame; a page whose block_sector is not -1 through
\* swap_free; then the page is freed (a new process starts with fresh pages).
Exit(r) ==
    LET mine == {p \in Pages : p[1] = r}
    IN  /\ ~panicked
        /\ pend[r] = NoPage
        /\ FreeFrames({pframe[p] : p \in {q \in mine : pframe[q] # NoFrame}})
        /\ SwapFree({slot[p] : p \in {q \in mine : slot[q] # NoSlot}})
        /\ pframe' = [p \in Pages |-> IF p \in mine THEN NoFrame ELSE pframe[p]]
        /\ status' = [p \in Pages |-> IF p \in mine THEN "zero" ELSE status[p]]
        /\ slot' = [p \in Pages |-> IF p \in mine THEN NoSlot ELSE slot[p]]
        /\ acc' = [p \in Pages |-> IF p \in mine THEN FALSE ELSE acc[p]]
        /\ UNCHANGED <<clock, pend, panicked>>

Next ==
    \E r \in Procs :
        \/ \E a \in Addrs : GetFrame(r, a) \/ Touch(r, a)
        \/ Install(r)
        \/ Exit(r)

Spec == Init /\ [][Next]_vars

-----------------------------------------------------------------------------
(* Properties.  FrameExclusive, SwapExclusive and SecondChance concern two *)
(* processes, and with two processes the code violates each of them; no    *)
(* run checks them (see the README).                                       *)

TypeOK ==
    /\ used \subseteq FrameIds
    /\ occ \in [FrameIds -> Pages \cup {NoPage}]
    /\ clock \in FrameIds
    /\ pframe \in [Pages -> FrameIds \cup {NoFrame}]
    /\ status \in [Pages -> {"zero", "frame", "swap"}]
    /\ slot \in [Pages -> SlotIds \cup {NoSlot}]
    /\ swapused \subseteq SlotIds
    /\ acc \in [Pages -> BOOLEAN]
    /\ pend \in [Procs -> [frame : FrameIds, page : Pages] \cup {NoPage}]
    /\ panicked \in BOOLEAN

\* The frames promised: those resident pages hold and those get_frame has
\* handed to a faulting process.
Holders(f) ==
    {p \in Pages : Resident(p) /\ pframe[p] = f}
        \cup {pend[r].page : r \in {x \in Procs : pend[x] # NoPage /\ pend[x].frame = f}}

\* Frame exclusivity: a frame is never given to two pages at once, and the
\* frame of a resident page has its bit set in free_frames and names the
\* page as its occupant, across faults, evictions and exits of processes.
FrameExclusive ==
    \A f \in FrameIds :
        /\ Cardinality(Holders(f)) <= 1
        /\ \A p \in Holders(f) : f \in used
        /\ \A p \in Pages : Resident(p) /\ pframe[p] = f => occ[f] = p

\* Swap exclusivity: a page swapped out owns its slot: the slot's bit is set
\* in used_blocks and no other swapped-out page has the same slot, across
\* swap_insert, swap_get and the swap_free of exiting processes.
SwapExclusive ==
    \A p \in Pages : status[p] = "swap" =>
        /\ slot[p] \in swapused
        /\ \A q \in Pages \ {p} : status[q] = "swap" => slot[q] # slot[p]

\* Second chance: the clock evicts a page whose accessed bit is set only
\* when the bit of every resident page was set (a full turn of the clock).
SecondChance ==
    [][\A p \in Pages :
          (Resident(p) /\ status'[p] = "swap" /\ acc[p])
              => \A q \in Pages : Resident(q) => acc[q]]_vars
=============================================================================
