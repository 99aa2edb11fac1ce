--------------------------- MODULE MCDecodedCache ---------------------------
(* Two threads of one process and one of another.  The two of one process are *)
(* interchangeable.                                                           *)
EXTENDS DecodedCache
LOCAL INSTANCE TLC

CONSTANTS c1, c2, w1

MCProcs   == {"cli", "worker"}
MCThreads == {c1, c2, w1}
MCOwner   == [t \in MCThreads |-> IF t = w1 THEN "worker" ELSE "cli"]
Alike     == Permutations({c1, c2})
=============================================================================
