------------------------------ MODULE MCOutbox ------------------------------
(* Outbox on small instances.                                              *)
EXTENDS Outbox, TLC

CONSTANTS r1, r2

Interchangeable == Permutations(Relays)
=============================================================================
