----------------------------- MODULE MCWorkflow -----------------------------
(* Workflow on small instances.                                            *)
EXTENDS Workflow, TLC

CONSTANTS p1, p2, e1, e2, k1

Interchangeable == Permutations(Procs) \cup Permutations(Execs)
=============================================================================
