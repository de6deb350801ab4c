--------------------------- MODULE MC_InodeTable ---------------------------
(* Instantiation of InodeTable for TLC.                                    *)
EXTENDS InodeTable, TLC

CONSTANTS t1, t2, n1, n2, a1, a2, a3

\* Two regular files.
MCFileNames == {n1, n2}
MCAllFiles == [n \in MCFileNames |-> FALSE]

\* One regular file.
MCOneName == {n1}
MCOneFile == [n \in MCOneName |-> FALSE]

\* Two directories: n1 is empty, n2 holds an entry.
MCDirs == [n \in MCFileNames |-> TRUE]
MCEmpty == [n \in MCFileNames |-> n = n1]

Symmetry == Permutations({t1, t2}) \cup Permutations({a1, a2, a3})
=============================================================================
