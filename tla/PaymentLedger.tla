--------------------------- MODULE PaymentLedger ---------------------------
(***************************************************************************)
(* What the pool promises its miners about money, and nothing else: a      *)
(* debt grows when a block matures, and coins that leave the wallet for a  *)
(* miner reduce what that miner is owed by exactly as much, at the moment  *)
(* they leave.  Nobody is paid what is not owed and no debt disappears.    *)
(***************************************************************************)
EXTENDS Naturals

CONSTANT Miners

VARIABLES
  owed,      \* what the pool still has to send
  received   \* what it has sent, for ever

vars == <<owed, received>>

Init == owed = [m \in Miners |-> 0] /\ received = [m \in Miners |-> 0]

\* A matured block is credited to one miner.
Credit ==
  \E m \in Miners :
    /\ owed' \in [Miners -> Nat] /\ owed' = [owed EXCEPT ![m] = owed'[m]]
    /\ owed[m] <= owed'[m]
    /\ UNCHANGED received

\* One transaction pays any number of miners at once.
Pay ==
  /\ received' \in [Miners -> Nat] /\ owed' \in [Miners -> Nat]
  /\ \A m \in Miners : /\ received[m] <= received'[m]
                       /\ owed'[m] + received'[m] = owed[m] + received[m]

Next == Credit \/ Pay

Spec == Init /\ [][Next]_vars
=============================================================================
