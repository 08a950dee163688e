---------------------------- MODULE PoolMonitor ----------------------------
(***************************************************************************)
(* scripts/check_pool.py: does the pool give work, and does it pay?  It    *)
(* reads the pool's API, then the node, then each stratum port, then the   *)
(* pool's wallet, while blocks mature and payment runs go on.              *)
(***************************************************************************)
EXTENDS Integers, FiniteSets, Functions

CONSTANTS Miners, PORTS,      \* ports in the order the API lists them
          MINIMUM, Reward,    \* a payout's threshold; what a block credits
          Fee,                \* the pool's, of a block
          INTERVAL, RUNS,     \* between two payment runs; as many without one are late
          LAG,                \* blocks the pool may trail the node
          MaxTime, MaxBlocks, MaxPoolFaults, MaxUnread   \* bounds

ASSUME MonitorAssumption ==
  /\ IsFiniteSet(Miners) /\ MINIMUM \in Nat \ {0}
  /\ Reward \in Nat /\ Fee \in Nat /\ LAG \in Nat /\ RUNS \in Nat /\ INTERVAL \in Nat

VARIABLES poolTime, height, poolHeight,
          bal, fees, paid,    \* owed to each miner, to the operator, and paid so far
          confirmed,
          trusted, immature,  \* the wallet
          lastPay, postponed, lastPayRun,   \* times, or Never
          alive,              \* do payment runs happen?
          ports,              \* what a probe of each port sees
          question, snap, bad,   \* the next question, the API's answer, a failure
          exit,
          stood,              \* history: has the pool stood still during the check?
          poolFaults, unread

monitorVars == <<poolTime, height, poolHeight, bal, fees, paid, confirmed, trusted, immature,
                 lastPay, postponed, lastPayRun, alive, ports, question, snap, bad, exit, stood,
                 poolFaults, unread>>
money == <<bal, fees, paid, confirmed, trusted, immature, lastPay, postponed, lastPayRun>>
pool == <<poolTime, height, poolHeight, money, alive, ports>>
visit == <<question, snap, bad, exit>>

Never == -99
NotDone == -1
NoSnap == [confirmed |-> -1]
Owed(b) == SumFunctionOnSet(b, Miners)
Due == {m \in Miners : bal[m] >= MINIMUM}

Moves == exit = NotDone /\ stood' = FALSE /\ UNCHANGED <<visit, unread>>

-----------------------------------------------------------------------------
\* The pool.  A block is found, later it is credited, and its coins mature.
Found ==
  /\ Moves /\ height < MaxBlocks
  /\ height' = height + 1 /\ poolHeight' = height + 1
  /\ immature' = immature + Reward + Fee
  /\ UNCHANGED <<poolTime, bal, fees, paid, confirmed, trusted, lastPay, postponed, lastPayRun,
                 alive, ports, poolFaults>>

Credited(m) ==
  /\ Moves /\ confirmed < poolHeight
  /\ bal' = [bal EXCEPT ![m] = @ + Reward] /\ fees' = fees + Fee /\ confirmed' = confirmed + 1
  /\ UNCHANGED <<poolTime, height, poolHeight, paid, trusted, immature, lastPay, postponed,
                 lastPayRun, alive, ports, poolFaults>>

Matured ==
  /\ Moves /\ immature > 0
  /\ immature' = immature - Reward - Fee /\ trusted' = trusted + Reward + Fee
  /\ UNCHANGED <<poolTime, height, poolHeight, bal, fees, paid, confirmed, lastPay, postponed,
                 lastPayRun, alive, ports, poolFaults>>

\* A run pays all that is due, or postpones it when the wallet is short.
PayRun ==
  /\ Moves /\ alive /\ lastPayRun # poolTime /\ lastPayRun' = poolTime
  /\ LET due == SumFunctionOnSet(bal, Due)
     IN  \/ Due = {} /\ UNCHANGED <<bal, paid, trusted, lastPay, postponed>>
         \/ /\ Due # {} /\ due <= trusted
            /\ bal' = [m \in Miners |-> IF m \in Due THEN 0 ELSE bal[m]]
            /\ paid' = paid + due /\ trusted' = trusted - due
            /\ lastPay' = poolTime /\ postponed' = Never
         \/ Due # {} /\ due > trusted /\ postponed' = poolTime
            /\ UNCHANGED <<bal, paid, trusted, lastPay>>
  /\ UNCHANGED <<poolTime, height, poolHeight, fees, confirmed, immature, alive, ports, poolFaults>>

\* Time does not pass a run that is due.
PoolTick ==
  /\ Moves /\ poolTime < MaxTime /\ poolTime' = poolTime + 1
  /\ alive => poolTime + 1 - lastPayRun <= INTERVAL
  /\ UNCHANGED <<height, poolHeight, money, alive, ports, poolFaults>>

\* What goes wrong: the runs stop, a port gives no work, the pool loses the chain,
\* or money leaves the wallet.
Fault ==
  /\ Moves /\ poolFaults < MaxPoolFaults /\ poolFaults' = poolFaults + 1
  /\ \/ alive' = FALSE /\ UNCHANGED <<ports, height, trusted>>
     \/ \E p \in DOMAIN ports : \E s \in {"shut", "refuses", "no job", "seed ahead"} :
          ports' = [ports EXCEPT ![p] = s] /\ UNCHANGED <<alive, height, trusted>>
     \/ height' = height + LAG + 1 /\ UNCHANGED <<alive, ports, trusted>>
     \/ trusted > 0 /\ trusted' = 0 /\ UNCHANGED <<alive, ports, height>>
  /\ UNCHANGED <<poolTime, poolHeight, bal, fees, paid, confirmed, immature, lastPay, postponed,
                 lastPayRun>>

-----------------------------------------------------------------------------
\* main: the API first, and nothing else without it.
AsksApi ==
  /\ question = "api" /\ exit = NotDone
  /\ \/ /\ snap' = [confirmed |-> confirmed, paid |-> paid, owed |-> Owed(bal), fees |-> fees,
                    lastPay |-> lastPay, postponed |-> postponed, height |-> poolHeight]
        /\ question' = "height" /\ stood' = TRUE /\ UNCHANGED <<exit, unread>>
     \/ /\ unread < MaxUnread /\ unread' = unread + 1
        /\ exit' = 1 /\ UNCHANGED <<snap, question, stood>>
  /\ UNCHANGED <<pool, bad, poolFaults>>

\* node_height: a node that cannot be read leaves the height unverified.
AsksHeight ==
  /\ question = "height" /\ question' = "ports"
  /\ \/ /\ bad' = (bad \/ height - snap.height > LAG \/ snap.height - height > LAG)
        /\ UNCHANGED unread
     \/ unread < MaxUnread /\ unread' = unread + 1 /\ UNCHANGED bad
  /\ UNCHANGED <<pool, snap, exit, stood, poolFaults>>

\* stratum_job on each port: anything but a job on the right seed is a failure.
AsksPorts ==
  /\ question = "ports" /\ question' = "payments"
  /\ bad' = (bad \/ \E p \in DOMAIN ports : ports[p] # "works")
  /\ UNCHANGED <<pool, snap, exit, stood, poolFaults, unread>>

Late == /\ snap.owed >= MINIMUM
        /\ poolTime - snap.lastPay > RUNS * INTERVAL

\* A mutant: any postponement excuses, however old.
PaymentsStopped_Excused ==
  \/ snap.confirmed > 0 /\ snap.paid = 0
  \/ snap.paid > 0 /\ Late /\ snap.postponed = Never

\* A postponement excuses while it is fresh: an old one says that the run has stopped.
PaymentsStopped ==
  \/ snap.confirmed > 0 /\ snap.paid = 0
  \/ /\ snap.paid > 0 /\ Late
     /\ snap.postponed = Never \/ poolTime - snap.postponed > RUNS * INTERVAL

AsksPayments ==
  /\ question = "payments" /\ question' = "wallet"
  /\ bad' = (bad \/ PaymentsStopped)
  /\ UNCHANGED <<pool, snap, exit, stood, poolFaults, unread>>

\* pool_wallet: a wallet that cannot be read is not a solvent one.
AsksWallet ==
  /\ question = "wallet" /\ question' = "end"
  /\ \/ bad' = (bad \/ trusted + immature < snap.owed + snap.fees) /\ UNCHANGED unread
     \/ unread < MaxUnread /\ unread' = unread + 1 /\ bad' = TRUE
  /\ UNCHANGED <<pool, snap, exit, stood, poolFaults>>

PoolVerdict ==
  /\ question = "end" /\ exit = NotDone /\ exit' = IF bad THEN 1 ELSE 0
  /\ UNCHANGED <<pool, question, snap, bad, stood, poolFaults, unread>>

MonitorInit ==
  /\ poolTime = 0 /\ height = 0 /\ poolHeight = 0 /\ bal = [m \in Miners |-> 0]
  /\ fees = 0 /\ paid = 0 /\ confirmed = 0 /\ trusted = 0 /\ immature = 0
  /\ lastPay = Never /\ postponed = Never /\ lastPayRun = 0
  /\ alive = TRUE /\ ports = [p \in DOMAIN PORTS |-> "works"]
  /\ question = "api" /\ snap = NoSnap /\ bad = FALSE /\ exit = NotDone /\ stood = TRUE
  /\ poolFaults = 0 /\ unread = 0

MonitorNext ==
  \/ Found \/ (\E m \in Miners : Credited(m)) \/ Matured \/ PayRun \/ PoolTick \/ Fault
  \/ AsksApi \/ AsksHeight \/ AsksPorts \/ AsksPayments \/ AsksWallet \/ PoolVerdict

MonitorSpec == MonitorInit /\ [][MonitorNext]_monitorVars

-----------------------------------------------------------------------------
Solvent == trusted + immature >= Owed(bal) + fees
Works == \A p \in DOMAIN ports : ports[p] = "works"
Recent(t) == t # Never /\ poolTime - t <= RUNS * INTERVAL

\* "Exit 0 only if all of it holds", and a pool that is only postponing is no
\* emergency (check_pool.py's header and 352-360): a pass of a pool that stood still
\* is of one that gives work, covers what it owes and pays those who are due; and one
\* that is not behind the node, gives work, covers what it owes, has paid, and owes
\* less than a payout or postponed it of late, is not failed.
MonitorIsFair ==
  /\ exit = 0 /\ stood => /\ Solvent /\ Works
                          /\ unread = 0 => height - poolHeight <= LAG
                          /\ confirmed > 0 => paid > 0
                          /\ Due # {} => Recent(lastPay) \/ Recent(postponed)
  /\ exit = 1 /\ stood /\ unread = 0 => ~(/\ Solvent /\ Works /\ height - poolHeight <= LAG
                                          /\ (confirmed > 0 => paid > 0)
                                          /\ (Owed(bal) < MINIMUM \/ Recent(postponed)))
=============================================================================
