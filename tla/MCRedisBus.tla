----------------------------- MODULE MCRedisBus -----------------------------
(* RedisBus on small instances.                                            *)
EXTENDS RedisBus, TLC

CONSTANTS c1, c2

Interchangeable == Permutations(Consumers)
=============================================================================
