---------------------------- MODULE MC_Directory ----------------------------
(* Instantiation of Directory for TLC.                                     *)
EXTENDS Directory, TLC

CONSTANTS r, s1, s2, s3, x, y, h1

MCSecs == {r, s1, s2, s3}

\* The root and two more sectors.
MCSecs3 == {r, s1, s2}

\* The uninitialised in_use byte happens to be nonzero.
MCNonzero == {TRUE}

Symmetry == Permutations({s1, s2, s3}) \cup Permutations({x, y})
=============================================================================
