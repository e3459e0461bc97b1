----------------------------- MODULE MCPayment -----------------------------
EXTENDS Payment

CONSTANTS c1, s1, s2, s3, k1, r1, r2

OneHome == [s \in Sessions |-> c1]
FromOne == [k \in Causes |-> c1]
AllThree == [s \in Sessions |-> IF s = s1 THEN "outside" ELSE IF s = s2 THEN "page" ELSE "inside"]
CardAndPages == [s \in Sessions |-> IF s = s1 THEN "outside" ELSE "page"]
CardAndPage == [s \in Sessions |-> IF s = s1 THEN "inside" ELSE "page"]

\* The answers that may be lost: none, those to any one session, those to the first
NoLosses == {{}}
OneLost == {S \in SUBSET Sessions : Cardinality(S) <= 1}
FirstLost == {{}, {s1}}

\* The two refund calls can change places
RefundersAlike == Permutations(Refunders)

=============================================================================
