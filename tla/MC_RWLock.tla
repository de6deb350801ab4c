----------------------------- MODULE MC_RWLock -----------------------------
(* Instantiation of RWLock for TLC.                                        *)
EXTENDS RWLock, TLC

CONSTANTS t1, t2, t3
=============================================================================
