---------------------------- MODULE PoolPayments ----------------------------
(***************************************************************************)
(* The payment run of the pool: ShareProcessor.processPayments of          *)
(* pool/lib/shareProcessor.js, with startupReconcile, the settlement of a  *)
(* broadcast whose answer was lost, the Redis keys they share, the wallet  *)
(* node they talk to, crashes of the pool process and the operator who     *)
(* follows the printed instructions.                                       *)
(*                                                                         *)
(* One action is the code between two awaits.  A run is one activation of  *)
(* _processPayments; it makes at most one transaction, so the run names    *)
(* the transaction too (its txid), and payouts[r] is both the `payouts` of *)
(* the intent it writes to Redis and the outputs it signs.                 *)
(***************************************************************************)
EXTENDS Naturals, FiniteSets, Functions

CONSTANTS
  Miners,         \* payout addresses
  Runs,           \* activations that may write an intent (a bound)
  NoRun,          \* "no intent is recorded"
  Threshold,      \* minimumPayoutWam, in coins of the model
  MaxRecipients,  \* maxPaymentRecipients
  MaxPerBatch,    \* maxWamPerPaymentBatch
  MaxCredit,      \* bound: what one miner is credited over a behaviour
  Amounts,        \* what one matured block may credit to a miner
  LostWrites      \* Redis writes that may be rejected while the process lives

Writes == {"postponed", "intent", "name", "drop", "clear"}

ASSUME ConstantsAssumption ==
  /\ NoRun \notin Runs
  /\ Threshold \in Nat
  /\ MaxRecipients \in Nat \ {0}
  /\ MaxPerBatch \in Nat \ {0}
  /\ MaxCredit \in Nat
  /\ Amounts \subseteq Nat
  /\ LostWrites \subseteq Writes

\* A Redis hash has finitely many fields.
ASSUME MinersAssumption == IsFiniteSet(Miners)

VARIABLES
  \* Redis
  balances,     \* wam:balances
  payments,     \* wam:payments, the txids recorded there
  inflight,     \* wam:payment:inflight, the run whose intent is stored
  named,        \* the stored intent has its txid and hex
  postponed,    \* wam:payment:postponed is set
  \* the wallet node
  known,        \* transactions in its mempool or chain
  late,         \* requests whose answer was given up on, not executed yet
  received,     \* what the known transactions pay to each miner
  credited,     \* what mature blocks have credited to each miner, ever
  \* the pool process
  up,
  paused,       \* this.paused
  paying,       \* this.paying
  reconciling,  \* startupReconcile() waits for its GET
  pc,           \* the await each activation is suspended at
  payouts       \* the batch of each activation

redis == <<balances, payments, inflight, named, postponed>>
node  == <<known, late, received>>
vars  == <<redis, node, credited, up, paused, paying, reconciling, pc, payouts>>

Nobody == [m \in Miners |-> 0]

Steps == {"read", "wallet", "postpone", "intent", "build", "name", "send",
          "query", "resend", "clear", "drop"}

TypeOK ==
  /\ balances \in [Miners -> Nat]
  /\ payments \subseteq Runs
  /\ inflight \in Runs \cup {NoRun}
  /\ named \in BOOLEAN
  /\ postponed \in BOOLEAN
  /\ known \subseteq Runs
  /\ late \subseteq Runs
  /\ received \in [Miners -> Nat]
  /\ credited \in [Miners -> Nat]
  /\ up \in BOOLEAN
  /\ paused \in BOOLEAN
  /\ paying \in BOOLEAN
  /\ reconciling \in BOOLEAN
  /\ pc \in [Runs -> Steps \cup {"new", "done"}]
  /\ payouts \in [Runs -> [Miners -> Nat]]

\* A first start: an empty Redis, start() has paused payments and asked.
Init ==
  /\ balances = Nobody /\ payments = {} /\ inflight = NoRun /\ named = FALSE
  /\ postponed = FALSE
  /\ known = {} /\ late = {} /\ received = Nobody /\ credited = Nobody
  /\ up = TRUE /\ paused = TRUE /\ paying = FALSE /\ reconciling = TRUE
  /\ pc = [r \in Runs |-> "new"] /\ payouts = [r \in Runs |-> Nobody]

-----------------------------------------------------------------------------
(* Which batch a run takes.  hgetall returns the balances in no particular  *)
(* order and the loop takes a prefix of the due ones that fits both caps.   *)

Due == {m \in Miners : balances[m] >= Threshold}

InFull(S) == [m \in Miners |-> IF m \in S THEN balances[m] ELSE 0]

Fits(S) == SumFunction(InFull(S)) <= MaxPerBatch

\* Some order of the due balances makes the loop stop with exactly S taken.
Prefix(S) ==
  /\ Cardinality(S) <= MaxRecipients
  /\ Fits(S)
  /\ \/ S = Due
     \/ Cardinality(S) = MaxRecipients
     \/ \E m \in Due \ S : ~Fits(S \cup {m})

\* A first balance above the whole cap is paid the cap, alone.
Capped(m) == [n \in Miners |-> IF n = m THEN MaxPerBatch ELSE 0]

\* Mutant: a balance above the whole cap is not treated specially.
Batches_NoCapRule == {InFull(S) : S \in {T \in SUBSET Due : T # {} /\ Prefix(T)}}

Batches == {InFull(S) : S \in {T \in SUBSET Due : T # {} /\ Prefix(T)}}
             \cup {Capped(m) : m \in {n \in Due : balances[n] > MaxPerBatch}}

-----------------------------------------------------------------------------
(* What becomes of a Redis write: applied and answered, applied with the    *)
(* answer lost, or not applied.  The last two reject the promise.           *)

Outcomes(w) == {"ok", "unseen"} \cup (IF w \in LostWrites THEN {"lost"} ELSE {})

At(r, step) == up /\ pc[r] = step

Goto(r, step) == pc' = [pc EXCEPT ![r] = step]

\* _processPayments returned or threw; processPayments' finally clears `paying`.
\* A run that recorded no intent made nothing and may be used again.
End(r, step) == Goto(r, step) /\ paying' = FALSE

-----------------------------------------------------------------------------
\* Mutant: the tick before `paying` existed.
Tick_Overlaps(r) ==
  /\ up /\ pc[r] = "new" /\ ~paused
  /\ paying' = TRUE
  /\ Goto(r, "read")
  /\ UNCHANGED <<redis, node, credited, up, paused, reconciling, payouts>>

\* processPayments(): the timer's tick.  The hgetall is sent.
Tick(r) ==
  /\ up /\ pc[r] = "new"
  /\ ~paused
  /\ ~paying
  /\ paying' = TRUE
  /\ Goto(r, "read")
  /\ UNCHANGED <<redis, node, credited, up, paused, reconciling, payouts>>

\* Mutant: `paying` is cleared after the await instead of in a finally.
ReadBalances_NoFinally(r) ==
  /\ At(r, "read")
  /\ \/ \E b \in Batches :
          payouts' = [payouts EXCEPT ![r] = b] /\ Goto(r, "wallet")
     \/ Goto(r, "new") /\ UNCHANGED payouts
  /\ UNCHANGED <<redis, node, credited, up, paused, paying, reconciling>>

\* The balances arrive; the batch is computed and getbalance is sent.
ReadBalances(r) ==
  /\ At(r, "read")
  /\ \/ \E b \in Batches :
          /\ payouts' = [payouts EXCEPT ![r] = b]
          /\ Goto(r, "wallet")
          /\ UNCHANGED paying
     \/ /\ End(r, "new")                  \* nobody is due, or hgetall failed
        /\ UNCHANGED payouts
  /\ UNCHANGED <<redis, node, credited, up, paused, reconciling>>

\* The wallet covers the batch and the fee reserve, or the run is postponed.
CheckWallet(r) ==
  /\ At(r, "wallet")
  /\ \/ (Goto(r, "intent") \/ Goto(r, "postpone")) /\ UNCHANGED paying
     \/ End(r, "new")                     \* getbalance failed
  /\ UNCHANGED <<redis, node, credited, up, paused, reconciling, payouts>>

Postpone(r) ==
  /\ At(r, "postpone")
  /\ \E o \in Outcomes("postponed") :
       postponed' = IF o = "lost" THEN postponed ELSE TRUE
  /\ End(r, "new")
  /\ UNCHANGED <<balances, payments, inflight, named, node, credited, up,
                 paused, reconciling, payouts>>

\* The intent is recorded before the money moves.  This SET is outside the
\* try: when it rejects, the run is over and payments are not paused.
WriteIntent(r) ==
  /\ At(r, "intent")
  /\ \E o \in Outcomes("intent") :
       /\ IF o = "lost" THEN UNCHANGED <<inflight, named>>
                        ELSE inflight' = r /\ named' = FALSE
       /\ IF o = "ok" THEN Goto(r, "build") /\ UNCHANGED paying
                      ELSE End(r, "done")
  /\ UNCHANGED <<balances, payments, postponed, node, credited, up, paused,
                 reconciling, payouts>>

\* createrawtransaction, fundrawtransaction, signrawtransactionwithwallet and
\* decoderawtransaction: answered, refused, or one of them left unknown.
Build(r) ==
  /\ At(r, "build")
  /\ \/ (Goto(r, "name") \/ Goto(r, "drop")) /\ UNCHANGED <<paying, paused>>
     \/ End(r, "done") /\ paused' = TRUE
  /\ UNCHANGED <<redis, node, credited, up, reconciling, payouts>>

\* The intent gets its txid and hex.  This SET is inside the try, and a Redis
\* error has no `ambiguous` flag: with a txid in hand the run settles.
NameIntent(r) ==
  /\ At(r, "name")
  /\ \E o \in Outcomes("name") :
       /\ IF o = "lost" THEN UNCHANGED <<inflight, named>>
                        ELSE inflight' = r /\ named' = TRUE
       /\ Goto(r, IF o = "ok" THEN "send" ELSE "query")
  /\ UNCHANGED <<balances, payments, postponed, node, credited, up, paused,
                 paying, reconciling, payouts>>

-----------------------------------------------------------------------------
(* sendrawtransaction.  The node is idempotent: it knows a transaction once. *)

Learn(r) ==
  /\ known' = known \cup {r}
  /\ received' = IF r \in known THEN received
                 ELSE [m \in Miners |-> received[m] + payouts[r][m]]

Accepted(r) == Learn(r) /\ UNCHANGED late

\* The answer is lost: the node acted, never will, or has not yet.
AnswerLost(r) ==
  \/ Accepted(r)
  \/ UNCHANGED node
  \/ late' = late \cup {r} /\ UNCHANGED <<known, received>>

\* Mutant: every error is a refusal, so a timeout deletes the intent.
Send_Assumes(r) ==
  /\ At(r, "send")
  /\ \/ Accepted(r) /\ Goto(r, "clear")
     \/ AnswerLost(r) /\ Goto(r, "drop")
  /\ UNCHANGED <<redis, credited, up, paused, paying, reconciling, payouts>>

Send(r) ==
  /\ At(r, "send")
  /\ \/ Accepted(r) /\ Goto(r, "clear")
     \/ UNCHANGED node /\ Goto(r, "drop")        \* refused: it parsed and said no
     \/ AnswerLost(r) /\ Goto(r, "query")
  /\ UNCHANGED <<redis, credited, up, paused, paying, reconciling, payouts>>

\* _settleUnknownPayment: is the transaction known?  A definite error is taken
\* for "not known" even when it is another error (a node still warming up).
Query(r) ==
  /\ At(r, "query")
  /\ \/ r \in known /\ Goto(r, "clear") /\ UNCHANGED <<paused, paying>>
     \/ Goto(r, "resend") /\ UNCHANGED <<paused, paying>>
     \/ End(r, "done") /\ paused' = TRUE
  /\ UNCHANGED <<redis, node, credited, up, reconciling, payouts>>

\* The same bytes again: accepted or already there, or a pause on any other answer.
Resend(r) ==
  /\ At(r, "resend")
  /\ \/ Accepted(r) /\ Goto(r, "clear") /\ UNCHANGED <<paused, paying>>
     \/ AnswerLost(r) /\ End(r, "done") /\ paused' = TRUE
  /\ UNCHANGED <<redis, credited, up, reconciling, payouts>>

\* A request the pool gave up on is executed after all.
LateArrival(r) ==
  /\ r \in late
  /\ late' = late \ {r}
  /\ Learn(r)
  /\ UNCHANGED <<redis, credited, up, paused, paying, reconciling, pc, payouts>>

-----------------------------------------------------------------------------
\* A positive refusal: the intent is stale and is deleted.
Drop(r) ==
  /\ At(r, "drop")
  /\ \E o \in Outcomes("drop") :
       IF o = "lost" THEN UNCHANGED <<inflight, named>>
                     ELSE inflight' = NoRun /\ named' = FALSE
  /\ End(r, "done")
  /\ UNCHANGED <<balances, payments, postponed, node, credited, up, paused,
                 reconciling, payouts>>

\* Mutant: the balance is zeroed although the cap sent less than was owed.
Deduct_Zeroes(r) ==
  balances' = [m \in Miners |-> IF payouts[r][m] > 0 THEN 0 ELSE balances[m]]

Deduct(r) == balances' = [m \in Miners |-> balances[m] - payouts[r][m]]

\* The MULTI: balances, payments, both markers, as one unit or not at all.
Clear(r) ==
  /\ At(r, "clear")
  /\ \E o \in Outcomes("clear") :
       IF o = "lost"
       THEN UNCHANGED redis
       ELSE /\ Deduct(r)
            /\ payments' = payments \cup {r}
            /\ inflight' = NoRun /\ named' = FALSE
            /\ postponed' = FALSE
  /\ End(r, "done")
  /\ UNCHANGED <<node, credited, up, paused, reconciling, payouts>>

-----------------------------------------------------------------------------
\* The process dies or is restarted: server.js's shutdown does not wait for a
\* payment run either.  Only Redis and the node remember anything.
Crash ==
  /\ up
  /\ up' = FALSE /\ paused' = FALSE /\ paying' = FALSE /\ reconciling' = FALSE
  /\ pc' = [r \in Runs |->
              IF pc[r] = "new" THEN "new"
              ELSE IF pc[r] \in {"read", "wallet", "postpone"} THEN "new"
              ELSE "done"]
  /\ UNCHANGED <<redis, node, credited, payouts>>

\* Mutant: start() does not pause, so a check that fails or is slow fails open.
Start_FailsOpen ==
  /\ ~up
  /\ up' = TRUE /\ reconciling' = TRUE
  /\ UNCHANGED <<redis, node, credited, paused, paying, pc, payouts>>

\* start(): paused first, and startupReconcile() asks for the marker.
Start ==
  /\ ~up
  /\ up' = TRUE /\ paused' = TRUE /\ reconciling' = TRUE
  /\ UNCHANGED <<redis, node, credited, paying, pc, payouts>>

\* The GET answers, or fails and leaves payments paused.
Reconcile ==
  /\ up /\ reconciling
  /\ reconciling' = FALSE
  /\ paused' \in (IF inflight = NoRun THEN {FALSE, TRUE} ELSE {TRUE})
  /\ UNCHANGED <<redis, node, credited, up, paying, pc, payouts>>

\* The operator, while nothing pays, does what the log says: when the wallet
\* shows the send, deducts the balances by hand; then deletes the marker.
\* Patience is assumed: the node has no request of that run left to execute.
Resolve ==
  /\ ~up \/ paused
  /\ ~paying
  /\ inflight # NoRun /\ inflight \notin late
  /\ IF inflight \in known THEN Deduct(inflight) ELSE UNCHANGED balances
  /\ inflight' = NoRun /\ named' = FALSE
  /\ UNCHANGED <<payments, postponed, node, credited, up, paused, paying,
                 reconciling, pc, payouts>>

\* _mature credits a payout of a matured block (PoolBlocks has the whole of it).
Credit(m, a) ==
  /\ up
  /\ credited[m] + a <= MaxCredit
  /\ balances' = [balances EXCEPT ![m] = @ + a]
  /\ credited' = [credited EXCEPT ![m] = @ + a]
  /\ UNCHANGED <<payments, inflight, named, postponed, node, up, paused, paying,
                 reconciling, pc, payouts>>

-----------------------------------------------------------------------------
RunStep(r) ==
  \/ ReadBalances(r) \/ CheckWallet(r) \/ Postpone(r) \/ WriteIntent(r)
  \/ Build(r) \/ NameIntent(r) \/ Send(r) \/ Query(r) \/ Resend(r)
  \/ Drop(r) \/ Clear(r)

Next ==
  \/ \E r \in Runs : Tick(r) \/ RunStep(r) \/ LateArrival(r)
  \/ Crash \/ Start \/ Reconcile \/ Resolve
  \/ \E m \in Miners, a \in Amounts : Credit(m, a)

Spec == Init /\ [][Next]_vars

\* Every await of a run ends: an RPC has a timeout, a Redis command a bounded
\* number of retries.
FairSpec == Spec /\ \A r \in Runs : WF_vars(RunStep(r))

-----------------------------------------------------------------------------
(* Properties                                                              *)

\* Sent but not deducted yet: the one transaction the marker vouches for.
Exposed(m) == IF inflight \in known THEN payouts[inflight][m] ELSE 0

\* Coins that left the wallet for a miner never exceed what its blocks
\* credited: no sequence of ticks, lost answers, late executions, crashes and
\* operator repairs pays a debt twice (shareProcessor.js 74-80, 108-110).
NoDuplicatePayment == \A m \in Miners : received[m] <= credited[m]

\* The reverse: a balance is never cleared without coins having been sent
\* ("doing it before ... would lose every miner's money", 930-933).
NothingForgiven == \A m \in Miners : credited[m] <= balances[m] + received[m]

\* While some miner has been sent coins its balance still shows, the marker
\* names that transaction and no new run can begin (816-819).
UnfinishedRunHoldsPayments ==
  (\E m \in Miners : balances[m] + received[m] # credited[m])
     => inflight \in known /\ (~up \/ paused \/ paying)

\* Whenever a balance is due there is a batch to pay, and a batch respects both
\* caps and what each miner is owed: neither the recipient cap nor a balance
\* above the whole batch cap blocks the queue for ever (742-757).
DueHasBatch ==
  /\ Due # {} => Batches # {}
  /\ \A b \in Batches : /\ SumFunction(b) <= MaxPerBatch
                         /\ Cardinality({m \in Miners : b[m] > 0}) <= MaxRecipients
                         /\ \A m \in Miners : b[m] <= balances[m]

\* The guard that keeps runs apart is released again, whatever fails (706-711).
RunEnds == paying ~> ~paying

\* The payment run implements the ledger: its debt is the stored balance less
\* what the marked transaction has already sent.
Ledger == INSTANCE PaymentLedger WITH
            owed <- [m \in Miners |-> balances[m] - Exposed(m)]
ImplementsLedger == Ledger!Spec
=============================================================================
