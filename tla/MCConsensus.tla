----------------------------- MODULE MCConsensus -----------------------------
(***************************************************************************)
(* The two rules of the consensus code that follow a chain, each on a      *)
(* chain of its own: Emission counts its money, DarkGravity sets its work. *)
(* They share nothing, so a behaviour exercises one of them.               *)
(***************************************************************************)
EXTENDS Emission, DarkGravity, TLC

\* 100, 50, 25, 12, ..., the last 0.
Shifts == [e \in 0..MaxHalvings |-> Initial \div 2^e]

\* Blocks in time, early, late, and one whose clock is behind its parent's.
Times == {-3, 1, 6, Slow}

MCInit == Init /\ RetargetInit

MCNext == \/ Next /\ depth = 0 /\ UNCHANGED retargetVars
          \/ RetargetNext /\ height = 0 /\ UNCHANGED vars

MCSpec == MCInit /\ [][MCNext]_<<vars, retargetVars>>
=============================================================================
