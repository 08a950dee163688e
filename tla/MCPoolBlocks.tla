---------------------------- MODULE MCPoolBlocks ----------------------------
(* Small instances of PoolBlocks for TLC. *)
EXTENDS PoolBlocks, TLC

CONSTANTS p1, p2, c1, c2

OneProcess == c1 :> p1 @@ c2 :> p1
TwoProcesses == c1 :> p1 @@ c2 :> p2

\* Both checkers have the same owner in the runs that use this.
Symmetry == Permutations(Blocks) \cup Permutations(Shares) \cup Permutations(Checkers)

\* Bound: two blocks or two payees, in any order, but not two of both.
FewEnough == Cardinality({b \in Blocks : chain[b] # "none"}) + Cardinality(worked) <= 3

FewSpec == Init /\ [][Next /\ FewEnough']_vars

\* In such weather a buried block that is owed is credited in the end, unless a
\* check saw it off the chain before its branch came back.
DeepIsCredited ==
  \A b \in Blocks :
    b \in pending /\ chain[b] = "deep" ~> b \in confirmed \/ orphaned[b] > 0
=============================================================================
