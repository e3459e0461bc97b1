------------------------------ MODULE MCShelf ------------------------------
EXTENDS Shelf, TLC

CONSTANTS h1, x1, x2

\* Nothing at the first warehouse and a unit at the last
OneUnit == {[p \in Places |-> IF p = Cardinality(Places) THEN 1 ELSE 0]}

\* Parcels are treated alike
Interchangeable == Permutations(Parcels)

=============================================================================
