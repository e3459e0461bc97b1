---------------------------- MODULE MCJobRunner ----------------------------
(* JobRunner on small instances.                                           *)
EXTENDS JobRunner, TLC

CONSTANTS i1, i2

Interchangeable == Permutations(Instances)
=============================================================================
