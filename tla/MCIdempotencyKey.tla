-------------------------- MODULE MCIdempotencyKey --------------------------
(***************************************************************************)
(* Instances of IdempotencyKey for TLC: three requests that share a key,    *)
(* which lets a third one meet what two racing ones left behind, and one of *)
(* another key.                                                             *)
(***************************************************************************)
EXTENDS IdempotencyKey, TLC

CONSTANTS r1, r2, r3, r4, k1, k2

MCRequests == {r1, r2, r3, r4}
MCKeys     == {k1, k2}
MCKeyOf    == [r \in MCRequests |-> IF r = r4 THEN k2 ELSE k1]
Symmetry   == Permutations({r1, r2, r3})
=============================================================================
