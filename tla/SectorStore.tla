---------------------------- MODULE SectorStore ----------------------------
(***************************************************************************)
(* What the buffer cache promises its callers (spec 4.1): the device seen  *)
(* through buffer_cache_read/buffer_cache_write behaves as an array of     *)
(* sectors in which a read returns the latest completed write.  A read is  *)
(* a stuttering step of this specification.                               *)
(***************************************************************************)
CONSTANTS Sectors, Values

VARIABLE store

Init == store \in [Sectors -> Values]

Write(s, v) == store' = [store EXCEPT ![s] = v]

Next == \E s \in Sectors, v \in Values : Write(s, v)

Spec == Init /\ [][Next]_store
=============================================================================
