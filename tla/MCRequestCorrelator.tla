------------------------- MODULE MCRequestCorrelator -------------------------
(* Instance: three calls, two of them with the same key. *)
EXTENDS RequestCorrelator
CONSTANTS r1, r2, r3, k1, k2, none

MCRequests == {r1, r2, r3}
MCKeys == {k1, k2}
MCKeyOf == [r \in MCRequests |-> IF r = r3 THEN k2 ELSE k1]
=============================================================================
