------------------------- MODULE MC_InodeAllocator -------------------------
(* Instantiation of InodeAllocator for TLC: one direct pointer, indirect   *)
(* blocks of two pointers and two bytes per sector, so a file of at most   *)
(* 14 bytes spans all three tiers with 7 data sectors and 5 metadata       *)
(* sectors (header, indirect, double-indirect and two inner blocks).       *)
EXTENDS InodeAllocator, TLC

CONSTANTS f1, f2

MCFiles == {f1, f2}

\* Lengths that end in every tier and at both ends of a sector: 1 byte
\* (one direct block), 3 (into the indirect block), 7 and 14 (into
\* the first and the last inner block of the double-indirect tier).
MCLengths == {1, 3, 7, 14}

Symmetry == Permutations(MCFiles)
=============================================================================
