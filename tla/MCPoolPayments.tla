--------------------------- MODULE MCPoolPayments ---------------------------
(* Small instances of PoolPayments for TLC. *)
EXTENDS PoolPayments, TLC

\* Two miners, one over the batch cap; every Redis write may fail but the MULTI.
AllButClear == Writes \ {"clear"}
OneAndThree == {1, 3}
=============================================================================
