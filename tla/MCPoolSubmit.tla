---------------------------- MODULE MCPoolSubmit ----------------------------
(* Two blocks, s1 and s2, for one tip, and a share w1 for the next.         *)
EXTENDS PoolSubmit, FiniteSets, TLC

CONSTANTS s1, s2, w1, a1, a2, a3, d1

ShareLater == [w \in Works |-> IF w = w1 THEN 1 ELSE 0]
OneTip == [w \in Works |-> 0]

Symmetry == Permutations(Attempts)

\* Bound: two submissions of one block, or one of either.  It stops submissions
\* only, and the fairness speaks of none.
Submitted == {work[a] : a \in {x \in Attempts : pc[x] # "new"}}
FewEnough == Cardinality(Submitted) <= 1
=============================================================================
