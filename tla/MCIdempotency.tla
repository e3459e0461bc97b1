--------------------------- MODULE MCIdempotency ----------------------------
(* Idempotency on a small instance.                                        *)
EXTENDS Idempotency, TLC

CONSTANTS r1, r2, r3, r4, k1, k2

Interchangeable == Permutations(Requests) \cup Permutations(Keys)
=============================================================================
