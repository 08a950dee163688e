---------------------------- MODULE MCPoolVerify ----------------------------
(* Three shares of two seeds; a setting of 3 is more than the addon takes. *)
EXTENDS PoolVerify, TLC

CONSTANTS s1, s2, s3
=============================================================================
