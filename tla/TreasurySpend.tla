--------------------------- MODULE TreasurySpend ---------------------------
(***************************************************************************)
(* Spending from the treasury, scripts/treasury_spend.py: a payment is     *)
(* planned where the chain is, signed where the key is and broadcast where *)
(* the chain is, in parts that share one scan of the unspent outputs.      *)
(* Files cross between the machines, and each program trusts only what it  *)
(* decodes from them.  Meanwhile blocks arrive, programs die, answers are  *)
(* lost and a file may come over damaged or be of an earlier plan.         *)
(*                                                                         *)
(* The treasury is paid one output a block, and the outpoint is the height *)
(* of it.  Change does not mature within the bound on blocks.              *)
(***************************************************************************)
EXTENDS Integers, Sequences, FiniteSets

CONSTANTS Payments,          \* what the operator sets out to pay: [to, amount]
          Parts,             \* parts of a payment
          Reward,            \* of a treasury output
          COINBASE_MATURITY,
          Over,              \* collected beyond the target, for the fee
          FeePerInput, Dust,
          FirstTip, MaxBlocks, MaxPlans, MaxFaults   \* bounds

ASSUME ConstantsAssumption ==
  /\ Payments \in Seq([to : STRING, amount : Nat]) /\ Payments # <<>>
  /\ Parts \in Nat \ {0} /\ Reward \in Nat \ {0} /\ COINBASE_MATURITY \in Nat
  /\ Over \in Nat /\ FeePerInput \in Nat /\ Dust \in Nat
  /\ FirstTip \in Nat /\ MaxBlocks \in Nat /\ MaxPlans \in Nat /\ MaxFaults \in Nat
\* Damage does not by chance spell the address of somebody who is to be paid.
ASSUME DamageAssumption == \A p \in DOMAIN Payments : Payments[p].to # "elsewhere"

VARIABLES tip, unspent, mempool, mined,  \* the chain, and transactions of ours
          payment,     \* index of the payment the operator is making
          plans,       \* plan files on the stick, by part
          signed,      \* signed files on the stick, by part
          planner,     \* the run of `plan`
          signer,      \* the run of `sign`
          sender,      \* the run of `broadcast`
          approved,    \* transactions signed, with the address that was typed
          sitting,     \* transactions signed by the last run of `sign`
          made, faults \* runs of `plan`; failures of files and answers

chain == <<tip, unspent, mempool, mined>>
vars == <<chain, payment, plans, signed, planner, signer, sender, approved, sitting,
          made, faults>>

NoFile == <<>>
Idle == [pc |-> "idle"]
PartSet == 1 .. Parts

Coins(tx) == {tx.ins[i] : i \in DOMAIN tx.ins}
SpentInMempool == UNION {Coins(tx) : tx \in mempool}

-----------------------------------------------------------------------------
\* plan
PlanBegins ==
  /\ planner = Idle /\ made < MaxPlans
  /\ made' = made + 1
  /\ planner' = [pc |-> "scan", tip |-> tip]
  /\ UNCHANGED <<chain, payment, plans, signed, signer, sender, approved, sitting, faults>>

\* scantxoutset reads the chain and not the memory pool.
PlanScans ==
  /\ planner.pc = "scan"
  /\ planner' = [pc |-> "list",
                 mature |-> {u \in unspent : planner.tip - u + 1 > COINBASE_MATURITY}]
  /\ UNCHANGED <<chain, payment, plans, signed, signer, sender, approved, sitting, made, faults>>

PlanLists ==
  /\ planner.pc = "list"
  /\ planner' = [pc |-> "read", mature |-> planner.mature, listed |-> mempool]
  /\ UNCHANGED <<chain, payment, plans, signed, signer, sender, approved, sitting, made, faults>>

Least(n, m) == IF n < m THEN n ELSE m

\* How many outputs from the front of the pool pay for one part.
Taken(pool, amount) == Least((amount + Over + Reward - 1) \div Reward, Len(pool))

Change(n, amount) == n * Reward - amount - n * FeePerInput

plan_part(pool, p, part) ==
  LET n == Taken(pool, p.amount)
      change == Change(n, p.amount)
      kept == IF change >= Dust THEN change ELSE 0
      ins == SubSeq(pool, 1, n)
  IN  [part |-> part, to |-> p.to, amount |-> p.amount, change |-> kept,
       fee |-> n * Reward - p.amount - kept, inputSet |-> ins, total |-> n * Reward,
       hex |-> [ins |-> ins, to |-> p.to, pays |-> p.amount, change |-> kept]]

Covered(pool, amount) ==
  LET n == Taken(pool, amount) IN n * Reward >= amount /\ Change(n, amount) >= 0

Oldest(coins) == [i \in 1 .. Cardinality(coins) |->
                    CHOOSE c \in coins : Cardinality({d \in coins : d < c}) = i - 1]

\* Part i is cut from what the parts before it have left of the pool.
Remaining(pool, p) ==
  LET left[i \in PartSet] ==
        IF i = 1 THEN pool
        ELSE SubSeq(left[i - 1], Taken(left[i - 1], p.amount) + 1, Len(left[i - 1]))
  IN  left

Disjoint(txs) == \A i, j \in DOMAIN txs : i # j => Coins(txs[i]) \cap Coins(txs[j]) = {}

\* A transaction that is listed and can no longer be read ends the run.  What
\* the chain has spent by then is kept for PlanAvoidsSpent alone.
PlanReads ==
  /\ planner.pc = "read"
  /\ LET held == UNION {Coins(tx) : tx \in planner.listed}
         left == Remaining(Oldest(planner.mature \ held), Payments[payment])
         built == [i \in PartSet |-> plan_part(left[i], Payments[payment], i)]
     IN  planner' =
           IF /\ planner.listed \subseteq mempool
              /\ \A i \in PartSet : Covered(left[i], Payments[payment].amount)
              /\ Disjoint([i \in PartSet |-> built[i].hex])
           THEN [pc |-> "write", built |-> built, next |-> 1, gone |-> (1 .. tip) \ unspent]
           ELSE Idle
  /\ UNCHANGED <<chain, payment, plans, signed, signer, sender, approved, sitting, made, faults>>

PlanWrites ==
  /\ planner.pc = "write"
  /\ plans' = [plans EXCEPT ![planner.next] = planner.built[planner.next]]
  /\ planner' = IF planner.next = Parts THEN Idle ELSE [planner EXCEPT !.next = @ + 1]
  /\ UNCHANGED <<chain, payment, signed, signer, sender, approved, sitting, made, faults>>

-----------------------------------------------------------------------------
\* A mutant: the recipients are not compared.
verify_against_plan_Inputs(plan, tx) == tx.ins = plan.inputSet

\* Does this transaction do exactly what the plan says, and name outputs, each once?
verify_against_plan(plan, tx) ==
  /\ tx.ins = plan.inputSet /\ tx.ins # <<>> /\ Cardinality(Coins(tx)) = Len(tx.ins)
  /\ tx.to = plan.to /\ tx.pays = plan.amount /\ tx.change = plan.change
  /\ plan.total - tx.pays - tx.change = plan.fee

\* sign, and a mutant of it in which only the recipients are judged
batch_problem_Payee(ps) == Cardinality({ps[i].to : i \in DOMAIN ps}) > 1

batch_problem(ps) ==
  \/ Cardinality({ps[i].to : i \in DOMAIN ps}) > 1
  \/ \E i, j \in DOMAIN ps : i # j /\
       {ps[i].inputSet[k] : k \in DOMAIN ps[i].inputSet} \cap
       {ps[j].inputSet[k] : k \in DOMAIN ps[j].inputSet} # {}

\* Every file is read, the batch judged and every transaction decoded before
\* the operator types the address, from his own knowledge, and then the key.
Signable == /\ \A i \in PartSet : plans[i] # NoFile
            /\ ~batch_problem(plans)
            /\ \A i \in PartSet : verify_against_plan(plans[i], plans[i].hex)
            /\ plans[1].to = Payments[payment].to

SignBegins ==
  /\ signer = Idle /\ Signable
  /\ signer' = [pc |-> "sign", plans |-> plans, next |-> 1]
  /\ sitting' = <<>>
  /\ UNCHANGED <<chain, payment, plans, signed, planner, sender, approved, made, faults>>

sign_one ==
  /\ signer.pc = "sign"
  /\ LET plan == signer.plans[signer.next] IN
       /\ signed' = [signed EXCEPT ![signer.next] = plan]
       /\ sitting' = Append(sitting, plan.hex)
       /\ approved' = approved \cup {[tx |-> plan.hex, typed |-> signer.plans[1].to]}
  /\ signer' = IF signer.next = Parts THEN Idle ELSE [signer EXCEPT !.next = @ + 1]
  /\ UNCHANGED <<chain, payment, plans, planner, sender, made, faults>>

-----------------------------------------------------------------------------
\* broadcast
Unspent(u) == u \in unspent \ SpentInMempool

Sendable(file) ==
  /\ file # NoFile
  /\ verify_against_plan(file, file.hex)
  /\ \A u \in Coins(file.hex) : Unspent(u)

\* One part, or every part.
SendBegins ==
  /\ sender = Idle
  /\ \E parts \in {<<i>> : i \in PartSet} \cup {[i \in PartSet |-> i]} :
       sender' = [pc |-> IF Len(parts) = 1 THEN "send" ELSE "verify", parts |-> parts, next |-> 1]
  /\ UNCHANGED <<chain, payment, plans, signed, planner, signer, approved, sitting, made, faults>>

Following == IF sender.next < Len(sender.parts) THEN [sender EXCEPT !.next = @ + 1]
             ELSE IF sender.pc = "verify" THEN [sender EXCEPT !.pc = "send", !.next = 1]
             ELSE Idle

SendVerifies ==
  /\ sender.pc = "verify"
  /\ sender' = IF Sendable(signed[sender.parts[sender.next]]) THEN Following ELSE Idle
  /\ UNCHANGED <<chain, payment, plans, signed, planner, signer, approved, sitting, made, faults>>

\* Every check is made again; the answer to the last call may be lost.
broadcast_one ==
  /\ sender.pc = "send"
  /\ LET file == signed[sender.parts[sender.next]] IN
       IF ~Sendable(file) THEN sender' = Idle /\ UNCHANGED <<mempool, faults>>
       ELSE /\ mempool' = mempool \cup {file.hex}
            /\ \/ sender' = Following /\ UNCHANGED faults
               \/ faults < MaxFaults /\ sender' = Idle /\ faults' = faults + 1
  /\ UNCHANGED <<tip, unspent, mined, payment, plans, signed, planner, signer, approved,
                 sitting, made>>

-----------------------------------------------------------------------------
\* The world.
NewBlock ==
  /\ tip < FirstTip + MaxBlocks
  /\ \E confirmed \in {{}, mempool} :
       /\ mempool' = mempool \ confirmed /\ mined' = mined \cup confirmed
       /\ unspent' = (unspent \ UNION {Coins(tx) : tx \in confirmed}) \cup {tip + 1}
  /\ tip' = tip + 1
  /\ UNCHANGED <<payment, plans, signed, planner, signer, sender, approved, sitting, made, faults>>

\* The operator turns to another payment, to begin it or to go on with it.
Turn ==
  /\ planner = Idle /\ signer = Idle /\ sender = Idle
  /\ payment' \in DOMAIN Payments \ {payment}
  /\ UNCHANGED <<chain, plans, signed, planner, signer, sender, approved, sitting, made, faults>>

\* One field of a file comes over wrong; a signature is not forged by chance.
Damaged(plan) == {[plan EXCEPT !.to = "elsewhere"], [plan EXCEPT !.amount = @ + 1],
                  [plan EXCEPT !.inputSet = SubSeq(@, 2, Len(@))]}

Damage ==
  /\ faults < MaxFaults /\ faults' = faults + 1
  /\ \E i \in PartSet :
       \/ /\ plans[i] # NoFile
          /\ \E p \in Damaged(plans[i]) \cup {[plans[i] EXCEPT !.hex.to = "elsewhere"]} :
               plans' = [plans EXCEPT ![i] = p]
          /\ UNCHANGED signed
       \/ /\ signed[i] # NoFile
          /\ \E p \in Damaged(signed[i]) : signed' = [signed EXCEPT ![i] = p]
          /\ UNCHANGED plans
  /\ UNCHANGED <<chain, payment, planner, signer, sender, approved, sitting, made>>

\* A program is stopped, or dies of a call that fails.
Die ==
  /\ faults < MaxFaults /\ faults' = faults + 1
  /\ \/ planner # Idle /\ planner' = Idle /\ UNCHANGED <<signer, sender>>
     \/ signer # Idle /\ signer' = Idle /\ UNCHANGED <<planner, sender>>
     \/ sender # Idle /\ sender' = Idle /\ UNCHANGED <<planner, signer>>
  /\ UNCHANGED <<chain, payment, plans, signed, approved, sitting, made>>

Init ==
  /\ tip = FirstTip /\ unspent = 1 .. FirstTip /\ mempool = {} /\ mined = {}
  /\ payment = 1
  /\ plans = [i \in PartSet |-> NoFile] /\ signed = [i \in PartSet |-> NoFile]
  /\ planner = Idle /\ signer = Idle /\ sender = Idle
  /\ approved = {} /\ sitting = <<>> /\ made = 0 /\ faults = 0

Next == \/ PlanBegins \/ PlanScans \/ PlanLists \/ PlanReads \/ PlanWrites
        \/ SignBegins \/ sign_one
        \/ SendBegins \/ SendVerifies \/ broadcast_one
        \/ NewBlock \/ Turn \/ Damage \/ Die

Spec == Init /\ [][Next]_vars

-----------------------------------------------------------------------------
\* Nothing reaches the network but a payment the operator set out to make, to
\* the address he typed, for its amount and with the change back, whatever
\* became of the files between the machines.
SentIsApproved ==
  \A tx \in mempool \cup mined :
    /\ \E a \in approved : a.tx = tx /\ a.typed = tx.to
    /\ \E p \in DOMAIN Payments : tx.to = Payments[p].to /\ tx.pays = Payments[p].amount
    /\ LET n == Cardinality(Coins(tx))
       IN  n * Reward - tx.pays - tx.change \in n * FeePerInput .. n * FeePerInput + Dust

\* The key is not used twice in one sitting on the same output, although the
\* files of a batch may come from different plans.
SittingIsDisjoint == Disjoint(sitting)

\* scripts/treasury_spend.py:241, "and not the ones an unconfirmed transaction
\* has already spent".  One that is confirmed between the scan and the reading
\* of the memory pool is in neither.
PlanAvoidsSpent ==
  planner.pc = "write" =>
    \A i \in PartSet : Coins(planner.built[i].hex) \cap planner.gone = {}
=============================================================================
