------------------------------ MODULE FeeSweep ------------------------------
(***************************************************************************)
(* scripts/sweep_pool_fee.py moves the operator's accrued fee out of the   *)
(* wallet that also holds what the miners are owed, while the pool goes on *)
(* finding, losing, crediting and paying, and while somebody else may be   *)
(* sweeping too.                                                           *)
(***************************************************************************)
EXTENDS Integers, FiniteSets

CONSTANTS Sweepers,           \* runs of the script
          Dests,              \* what poolFeeAddress may be: "none", "invalid", "own", "good"
          ToMiners, Fee,      \* of a block: to the miners, to the operator
          MIN,                \* no sweep of less
          TXFEE,              \* of the sweep's own transaction
          MaxFound, MaxLost   \* bounds

ASSUME SweepAssumption ==
  /\ IsFiniteSet(Sweepers)
  /\ ToMiners \in Nat /\ Fee \in Nat /\ MIN \in Nat /\ TXFEE \in Nat
  /\ MaxFound \in Nat /\ MaxLost \in Nat

VARIABLES trusted, immature,  \* the wallet
          blocks, pending, owed,
          fees,               \* redis: <prefix>:poolfees
          at, snap,           \* each run: where it is, what it has read
          sent, counted,      \* by all runs: left the wallet, taken off the counter
          calm,               \* history: since the run's read, has nobody else moved a fee
                              \* and no debt grown?
          lost

sweepVars == <<trusted, immature, blocks, pending, owed, fees, at, snap, sent, counted, calm, lost>>
wallet == <<trusted, immature, blocks, pending, owed>>

NoSnap == [owed |-> 0, accrued |-> 0, send |-> FALSE]
Nobody == [s \in Sweepers |-> FALSE]

-----------------------------------------------------------------------------
\* The pool: a block brings immature coins and a fee; it matures and is owed to its
\* miners, or it is orphaned and takes the fee back; what is owed is paid.
Found ==
  /\ blocks < MaxFound /\ blocks' = blocks + 1 /\ pending' = pending + 1
  /\ immature' = immature + ToMiners + Fee /\ fees' = fees + Fee
  /\ UNCHANGED <<trusted, owed, at, snap, sent, counted, calm, lost>>

Matures ==
  /\ pending > 0 /\ pending' = pending - 1
  /\ immature' = immature - ToMiners - Fee /\ trusted' = trusted + ToMiners + Fee
  /\ owed' = owed + ToMiners /\ calm' = Nobody
  /\ UNCHANGED <<blocks, fees, at, snap, sent, counted, lost>>

Orphaned ==
  /\ pending > 0 /\ pending' = pending - 1
  /\ immature' = immature - ToMiners - Fee /\ fees' = fees - Fee
  /\ UNCHANGED <<trusted, blocks, owed, at, snap, sent, counted, calm, lost>>

Pays ==
  /\ owed > 0 /\ owed <= trusted /\ trusted' = trusted - owed /\ owed' = 0
  /\ UNCHANGED <<immature, blocks, pending, fees, at, snap, sent, counted, calm, lost>>

-----------------------------------------------------------------------------
Goes(s, stage) == at' = [at EXCEPT ![s] = stage]

\* An answer that does not come stops the run (die, or an exception).
NoAnswer(s) == lost < MaxLost /\ lost' = lost + 1 /\ Goes(s, "stopped")

\* What is owed, what has accrued and the destination, in one answer of the API.
ReadsApi(s, send) ==
  /\ at[s] = "start"
  /\ \/ Goes(s, "dest") /\ UNCHANGED lost
        /\ snap' = [snap EXCEPT ![s] = [owed |-> owed, accrued |-> fees, send |-> send]]
        /\ calm' = [calm EXCEPT ![s] = TRUE]
     \/ NoAnswer(s) /\ UNCHANGED <<snap, calm>>
  /\ UNCHANGED <<wallet, fees, sent, counted>>

\* validateaddress and getaddressinfo.
ChecksDest(s, dest) ==
  /\ at[s] = "dest"
  /\ \/ Goes(s, IF dest = "good" THEN "balance" ELSE "stopped") /\ UNCHANGED lost
     \/ dest # "none" /\ NoAnswer(s)
  /\ UNCHANGED <<wallet, fees, snap, sent, counted, calm>>

\* A mutant: coins that are still maturing are counted as there.
Left_Maturing(accrued) == trusted + immature - accrued

Left(accrued) == trusted - accrued

\* getbalances, and the reasons to leave it.
ReadsBalance(s) ==
  /\ at[s] = "balance"
  /\ LET accrued == snap[s].accrued
     IN  \/ /\ Goes(s, IF accrued <= 0 \/ accrued < MIN THEN "stopped"
                       ELSE IF Left(accrued) < snap[s].owed \/ ~snap[s].send THEN "stopped"
                       ELSE "send")
            /\ UNCHANGED lost
         \/ NoAnswer(s)
  /\ UNCHANGED <<wallet, fees, snap, sent, counted, calm>>

\* sendtoaddress: it leaves, or the wallet refuses; and the answer comes or does not.
Sends(s) ==
  /\ at[s] = "send"
  /\ LET accrued == snap[s].accrued
     IN  \/ /\ trusted >= accrued + TXFEE
            /\ trusted' = trusted - accrued - TXFEE /\ sent' = sent + accrued
            /\ calm' = [t \in Sweepers |-> t = s /\ calm[s]]
            /\ \/ Goes(s, "count") /\ UNCHANGED lost
               \/ NoAnswer(s)
         \/ /\ trusted < accrued + TXFEE /\ Goes(s, "stopped")
            /\ UNCHANGED <<trusted, sent, calm, lost>>
         \/ NoAnswer(s) /\ UNCHANGED <<trusted, sent, calm>>
  /\ UNCHANGED <<immature, blocks, pending, owed, fees, snap, counted>>

\* A mutant: the counter is emptied, with what accrued since it was read.
TakenOff_All(s) == fees
TakenOff(s) == snap[s].accrued

\* DECRBY, by exactly what was sent; it may be done and not answered, or not done.
Counts(s) ==
  /\ at[s] = "count"
  /\ \/ /\ fees' = fees - TakenOff(s) /\ counted' = counted + TakenOff(s)
        /\ \/ Goes(s, "swept") /\ UNCHANGED lost
           \/ NoAnswer(s)
     \/ NoAnswer(s) /\ UNCHANGED <<fees, counted>>
  /\ UNCHANGED <<wallet, snap, sent, calm>>

\* It is run again.
Again(s) ==
  /\ at[s] \in {"stopped", "swept"} /\ Goes(s, "start")
  /\ snap' = [snap EXCEPT ![s] = NoSnap] /\ calm' = [calm EXCEPT ![s] = FALSE]
  /\ UNCHANGED <<wallet, fees, sent, counted, lost>>

SweepInit ==
  /\ trusted = 0 /\ immature = 0 /\ blocks = 0 /\ pending = 0 /\ owed = 0 /\ fees = 0
  /\ at = [s \in Sweepers |-> "start"] /\ snap = [s \in Sweepers |-> NoSnap]
  /\ sent = 0 /\ counted = 0 /\ calm = Nobody /\ lost = 0

SweepNext ==
  \/ Found \/ Matures \/ Orphaned \/ Pays
  \/ \E s \in Sweepers : \/ \E send \in BOOLEAN : ReadsApi(s, send)
                         \/ \E dest \in Dests : ChecksDest(s, dest)
                         \/ ReadsBalance(s) \/ Sends(s) \/ Counts(s) \/ Again(s)

SweepSpec == SweepInit /\ [][SweepNext]_sweepVars

-----------------------------------------------------------------------------
\* "The operator's fee is the last money out, never the first" (sweep_pool_fee.py:30-31),
\* but for the network fee, which the script leaves out of its sum: payments and
\* orphans may come between its reads and its send, and unless a debt grew or another
\* sweep went out meanwhile, what stays in the wallet covers what is owed.
FeeIsPaidLast ==
  \A s \in Sweepers : at[s] = "count" /\ calm[s] => trusted + TXFEE >= owed

\* "it decrements the counter by exactly what was sent, after the node returns a txid"
\* (36-37): no coin is taken off the counter that did not leave; and while no answer was
\* lost and no run is between its two steps, however many have swept at once, what left
\* has been taken off.
CounterFollowsCoin ==
  /\ counted <= sent
  /\ lost = 0 /\ (\A s \in Sweepers : at[s] # "count") => counted = sent

\* sweep_pool_fee.py as a whole, of what stays and of what is written down.
FeeGoesLast == FeeIsPaidLast /\ CounterFollowsCoin
=============================================================================
