--------------------------- MODULE MC_BufferCache ---------------------------
(* Model-checking instance of BufferCache: sectors and payloads are model  *)
(* values, and both sets are symmetric (the cache never orders them).      *)
EXTENDS BufferCache, TLC

CONSTANTS s1, s2, s3, s4, v1, v2

MCSectors == {s1, s2, s3, s4}
MCValues  == {v1, v2}

Symmetry == Permutations(MCSectors) \cup Permutations(MCValues)
=============================================================================
