------------------------- MODULE PoolPaymentsProofs -------------------------
(***************************************************************************)
(* The payment run forgives no debt and makes a batch of what is due,      *)
(* whatever Redis rejects, and it pays every debt at most once as long as  *)
(* Redis never rejects the MULTI that settles a run while the process      *)
(* lives on: for any number of miners, runs and amounts.  The proviso is   *)
(* needed: MCPoolPaymentsMulti.cfg shows what happens without it.          *)
(***************************************************************************)
EXTENDS PoolPayments, SumProofs, TLAPS

\* Between the await that writes the intent and the end of the run.
Marked == {"build", "name", "send", "query", "resend", "clear", "drop"}
\* Before the intent is written.
Early == {"new", "read", "wallet", "postpone", "intent"}
\* The transaction of a run here has not been offered to the node.
Unsent == {"build", "name", "send", "drop"}

\* Redis does not reject the MULTI of a run while the process lives on.
MultiIsKept == "clear" \notin LostWrites

\* At most one activation is between Tick and its end, and only in a process
\* that is up and not paused.
OneRun ==
  /\ \A r \in Runs : pc[r] \in Steps => paying
  /\ \A r, s \in Runs : pc[r] \in Steps /\ pc[s] \in Steps => r = s
  /\ paying => up /\ ~paused
  /\ reconciling => up /\ paused

\* The marker names the run that writes it until that run is over.
MarkerOfRun ==
  /\ \A r \in Runs : pc[r] \in Marked => inflight = r
  /\ \A r \in Runs : pc[r] \in Early => inflight # r

\* What the node has or may get beyond what is accounted for is the marked
\* transaction, and then nothing can start.
OnlyMarkedAtLarge ==
  /\ late \subseteq known \cup {inflight}
  /\ \A r \in Runs : pc[r] \in Early \cup Unsent => r \notin known \cup late
  /\ \A r \in Runs : pc[r] = "clear" => r \in known
  /\ inflight \in late \ known => ~up \/ paused \/ pc[inflight] \in {"query", "resend"}
  /\ MultiIsKept /\ inflight \in known =>
       ~up \/ paused \/ pc[inflight] \in {"query", "resend", "clear"}

\* The batch of a run that can still be paid is covered by the balances.
Affordable ==
  /\ \A r \in Runs, m \in Miners :
       pc[r] \in {"wallet", "postpone", "intent"} => payouts[r][m] <= balances[m]
  /\ inflight # NoRun =>
       \A m \in Miners : payouts[inflight][m] <= balances[m]

\* Every coin credited is still owed, or was sent, or both while it is marked.  A
\* run whose MULTI was rejected leaves a debt standing that it has paid.
Books ==
  \A m \in Miners :
    /\ credited[m] + Exposed(m) <= balances[m] + received[m]
    /\ MultiIsKept => balances[m] + received[m] = credited[m] + Exposed(m)

IInv == TypeOK /\ OneRun /\ MarkerOfRun /\ OnlyMarkedAtLarge /\ Affordable /\ Books

-----------------------------------------------------------------------------
LEMMA BatchIsCovered ==
  ASSUME TypeOK, NEW b \in Batches
  PROVE  b \in [Miners -> Nat] /\ \A m \in Miners : b[m] <= balances[m]
<1>1. CASE \E S \in SUBSET Due : b = InFull(S)
  <2>1. PICK S \in SUBSET Due : b = InFull(S)
    BY <1>1
  <2> QED
    BY <2>1 DEF TypeOK, InFull, Due
<1>2. CASE \E n \in Due : b = Capped(n) /\ balances[n] > MaxPerBatch
  <2>1. PICK n \in Due : b = Capped(n) /\ balances[n] > MaxPerBatch
    BY <1>2
  <2> QED
    BY <2>1, ConstantsAssumption DEF TypeOK, Capped, Due
<1> QED
  BY <1>1, <1>2 DEF Batches

\* The node's ledger stays a ledger, and grows by the transaction it learns.
LEMMA LearnIsSound ==
  ASSUME TypeOK, NEW r \in Runs, Learn(r)
  PROVE  /\ known' \subseteq Runs
         /\ received' \in [Miners -> Nat]
         /\ \A m \in Miners : received'[m] = IF r \in known THEN received[m]
                                         ELSE received[m] + payouts[r][m]
<1>1. payouts[r] \in [Miners -> Nat]
  BY DEF TypeOK
<1> QED
  BY <1>1 DEF TypeOK, Learn

\* Deducting a covered batch leaves balances, and the rest of each balance.
LEMMA DeductIsSound ==
  ASSUME TypeOK, NEW r \in Runs, Deduct(r),
         \A m \in Miners : payouts[r][m] <= balances[m]
  PROVE  /\ balances' \in [Miners -> Nat]
         /\ \A m \in Miners : balances'[m] + payouts[r][m] = balances[m]
<1>1. payouts[r] \in [Miners -> Nat]
  BY DEF TypeOK
<1> QED
  BY <1>1 DEF TypeOK, Deduct

LEMMA InitInv == Init => IInv
<1> SUFFICES ASSUME Init PROVE IInv
  OBVIOUS
<1>1. TypeOK
  BY DEF Init, Nobody, TypeOK
<1>2. OneRun
  BY DEF Init, OneRun, Steps
<1>3. MarkerOfRun
  BY ConstantsAssumption DEF Init, MarkerOfRun, Marked
<1>4. OnlyMarkedAtLarge
  BY DEF Init, OnlyMarkedAtLarge
<1>5. Affordable
  BY DEF Init, Affordable
<1>6. Books
  BY DEF Init, Nobody, Books, Exposed
<1> QED
  BY <1>1, <1>2, <1>3, <1>4, <1>5, <1>6 DEF IInv

LEMMA TickInv ==
  ASSUME IInv, NEW r \in Runs, Tick(r)
  PROVE  IInv'
<1>1. TypeOK'
  BY DEF IInv, TypeOK, Steps, redis, node, Tick, Goto
<1>2. OneRun'
  BY DEF IInv, OneRun, Tick, Goto
<1>3. MarkerOfRun'
  BY DEF IInv, MarkerOfRun, Marked, Early, redis, Tick, Goto
<1>4. OnlyMarkedAtLarge'
  BY DEF IInv, OnlyMarkedAtLarge, Early, redis, node, Tick, Goto
<1>5. Affordable'
  BY DEF IInv, Affordable, redis, Tick, Goto
<1>6. Books'
  BY DEF IInv, Books, Exposed, redis, node, Tick
<1> QED
  BY <1>1, <1>2, <1>3, <1>4, <1>5, <1>6 DEF IInv

LEMMA ReadBalancesInv ==
  ASSUME IInv, NEW r \in Runs, ReadBalances(r)
  PROVE  IInv'
<1>1. TypeOK'
  BY BatchIsCovered DEF IInv, TypeOK, Steps, redis, node, ReadBalances, Goto, End
<1>2. OneRun'
  BY ConstantsAssumption, BatchIsCovered DEF IInv, TypeOK, OneRun, OnlyMarkedAtLarge, Steps,
      node, ReadBalances, At, Goto, End
<1>3. MarkerOfRun'
  BY DEF IInv, TypeOK, MarkerOfRun, Marked, Early, redis, ReadBalances, At, Goto, End
<1>4. OnlyMarkedAtLarge'
  BY DEF IInv, TypeOK, OnlyMarkedAtLarge, Early, redis, node, ReadBalances, At, Goto, End
<1>5. Affordable'
  BY BatchIsCovered, ZenonT(60) DEF IInv, TypeOK, MarkerOfRun, OnlyMarkedAtLarge, Affordable, Unsent,
      redis, node, ReadBalances, At, Goto, End
<1>6. Books'
  BY DEF IInv, TypeOK, OnlyMarkedAtLarge, Books, Exposed, Early, redis, node, ReadBalances, At
<1> QED
  BY <1>1, <1>2, <1>3, <1>4, <1>5, <1>6 DEF IInv

LEMMA CheckWalletInv ==
  ASSUME IInv, NEW r \in Runs, CheckWallet(r)
  PROVE  IInv'
<1>1. TypeOK'
  BY DEF IInv, TypeOK, Steps, redis, node, CheckWallet, Goto, End
<1>2. OneRun'
  BY DEF IInv, TypeOK, OneRun, Steps, CheckWallet, At, Goto, End
<1>3. MarkerOfRun'
  BY DEF IInv, TypeOK, MarkerOfRun, Marked, Early, redis, CheckWallet, At, Goto, End
<1>4. OnlyMarkedAtLarge'
  BY DEF IInv, TypeOK, OnlyMarkedAtLarge, Early, redis, node, CheckWallet, At, Goto, End
<1>5. Affordable'
  BY DEF IInv, TypeOK, Affordable, redis, CheckWallet, At, Goto, End
<1>6. Books'
  BY DEF IInv, Books, Exposed, redis, node, CheckWallet
<1> QED
  BY <1>1, <1>2, <1>3, <1>4, <1>5, <1>6 DEF IInv

LEMMA PostponeInv ==
  ASSUME IInv, NEW r \in Runs, Postpone(r)
  PROVE  IInv'
<1>1. TypeOK'
  BY DEF IInv, TypeOK, node, Postpone, Goto, End
<1>2. OneRun'
  BY DEF IInv, TypeOK, OneRun, Steps, Postpone, At, Goto, End
<1>3. MarkerOfRun'
  BY DEF IInv, MarkerOfRun, Marked, Early, Postpone, At, Goto, End
<1>4. OnlyMarkedAtLarge'
  BY DEF IInv, OnlyMarkedAtLarge, Early, node, Postpone, At, Goto, End
<1>5. Affordable'
  BY DEF IInv, Affordable, Postpone, Goto, End
<1>6. Books'
  BY DEF IInv, Books, Exposed, node, Postpone
<1> QED
  BY <1>1, <1>2, <1>3, <1>4, <1>5, <1>6 DEF IInv

LEMMA WriteIntentInv ==
  ASSUME IInv, NEW r \in Runs, WriteIntent(r)
  PROVE  IInv'
<1>1. TypeOK'
  BY DEF IInv, TypeOK, Steps, node, WriteIntent, Goto, End
<1>2. OneRun'
  BY ConstantsAssumption, SMTT(60) DEF IInv, TypeOK, OneRun, OnlyMarkedAtLarge, Steps, WriteIntent, At,
      Goto, End
<1>3. MarkerOfRun'
  BY DEF IInv, TypeOK, OneRun, MarkerOfRun, Marked, Early, WriteIntent, At, Goto, End
<1>4. OnlyMarkedAtLarge'
  BY DEF IInv, TypeOK, OneRun, OnlyMarkedAtLarge, Early, node, WriteIntent, At, Goto, End
<1>5. Affordable'
  BY DEF IInv, TypeOK, Affordable, WriteIntent, At, Goto, End
<1>6. Books'
  BY DEF IInv, TypeOK, OneRun, OnlyMarkedAtLarge, Books, Exposed, Early, node, WriteIntent, At
<1> QED
  BY <1>1, <1>2, <1>3, <1>4, <1>5, <1>6 DEF IInv

LEMMA BuildInv ==
  ASSUME IInv, NEW r \in Runs, Build(r)
  PROVE  IInv'
<1>1. TypeOK'
  BY DEF IInv, TypeOK, Steps, redis, node, Build, Goto, End
<1>2. OneRun'
  BY ConstantsAssumption DEF IInv, TypeOK, OneRun, Steps, redis, node, Build, At, Goto, End
<1>3. MarkerOfRun'
  BY DEF IInv, TypeOK, MarkerOfRun, Marked, Early, redis, Build, At, Goto, End
<1>4. OnlyMarkedAtLarge'
  BY DEF IInv, TypeOK, OnlyMarkedAtLarge, Unsent, redis, node, Build, At, Goto, End
<1>5. Affordable'
  BY DEF IInv, TypeOK, Affordable, redis, Build, Goto, End
<1>6. Books'
  BY DEF IInv, Books, Exposed, redis, node, Build
<1> QED
  BY <1>1, <1>2, <1>3, <1>4, <1>5, <1>6 DEF IInv

LEMMA NameIntentInv ==
  ASSUME IInv, NEW r \in Runs, NameIntent(r)
  PROVE  IInv'
<1>1. TypeOK'
  BY DEF IInv, TypeOK, Steps, node, NameIntent, Goto
<1>2. OneRun'
  BY DEF IInv, OneRun, Steps, NameIntent, At, Goto
<1>3. MarkerOfRun'
  BY DEF IInv, MarkerOfRun, Marked, Early, NameIntent, At, Goto
<1>4. OnlyMarkedAtLarge'
  BY DEF IInv, MarkerOfRun, OnlyMarkedAtLarge, Marked, Unsent, node, NameIntent, At, Goto
<1>5. Affordable'
  BY DEF IInv, MarkerOfRun, Affordable, Marked, NameIntent, At, Goto
<1>6. Books'
  BY DEF IInv, MarkerOfRun, Books, Exposed, Marked, node, NameIntent, At
<1> QED
  BY <1>1, <1>2, <1>3, <1>4, <1>5, <1>6 DEF IInv

LEMMA SendInv ==
  ASSUME IInv, NEW r \in Runs, Send(r)
  PROVE  IInv'
<1>1. TypeOK'
  <2>1. TypeOK
    BY DEF IInv
  <2>2. known' \subseteq Runs /\ received' \in [Miners -> Nat] /\ late' \subseteq Runs
    BY <2>1, LearnIsSound DEF TypeOK, Send, Accepted, AnswerLost, node
  <2> QED
    BY <2>1, <2>2 DEF TypeOK, Steps, Send, At, Goto, redis
<1>2. OneRun'
  BY DEF IInv, TypeOK, OneRun, Send, At, Goto
<1>3. MarkerOfRun'
  BY DEF IInv, TypeOK, MarkerOfRun, Marked, Early, redis, Send, At, Goto
<1>4. OnlyMarkedAtLarge'
  <2>1. /\ inflight = r /\ r \in Runs /\ pc[r] = "send"
        /\ r \notin known \cup late /\ late \subseteq known
        /\ UNCHANGED inflight
    BY DEF IInv, MarkerOfRun, Marked, OnlyMarkedAtLarge, Unsent, Send, At, redis
  <2>2. CASE UNCHANGED <<known, late>> /\ (Goto(r, "drop") \/ Goto(r, "query"))
    BY <2>1, <2>2 DEF IInv, TypeOK, MarkerOfRun, OnlyMarkedAtLarge, Steps,
                      Marked, Early, Unsent, Goto
  <2>3. CASE known' = known \cup {r} /\ UNCHANGED late
             /\ (Goto(r, "clear") \/ Goto(r, "query"))
    BY <2>1, <2>3 DEF IInv, TypeOK, MarkerOfRun, OnlyMarkedAtLarge, Steps,
                      Marked, Early, Unsent, Goto
  <2>4. CASE late' = late \cup {r} /\ UNCHANGED known /\ Goto(r, "query")
    BY <2>1, <2>4 DEF IInv, TypeOK, MarkerOfRun, OnlyMarkedAtLarge, Steps,
                      Marked, Early, Unsent, Goto
  <2> QED
    BY <2>2, <2>3, <2>4 DEF Send, Accepted, AnswerLost, Learn, node
<1>5. Affordable'
  BY DEF IInv, TypeOK, Affordable, redis, Send, Goto
<1>6. Books'
  BY DEF IInv, TypeOK, MarkerOfRun, Books, Exposed, Marked, redis, node, Send, At, Accepted,
      AnswerLost, Learn
<1> QED
  BY <1>1, <1>2, <1>3, <1>4, <1>5, <1>6 DEF IInv

LEMMA QueryInv ==
  ASSUME IInv, NEW r \in Runs, Query(r)
  PROVE  IInv'
<1>1. TypeOK'
  BY DEF IInv, TypeOK, Steps, redis, node, Query, Goto, End
<1>2. OneRun'
  BY ConstantsAssumption DEF IInv, TypeOK, OneRun, Steps, redis, node, Query, At, Goto, End
<1>3. MarkerOfRun'
  BY DEF IInv, TypeOK, MarkerOfRun, Marked, Early, redis, Query, At, Goto, End
<1>4. OnlyMarkedAtLarge'
  BY DEF IInv, TypeOK, OnlyMarkedAtLarge, Early, Unsent, redis, node, Query, Goto, End
<1>5. Affordable'
  BY DEF IInv, TypeOK, Affordable, redis, Query, Goto, End
<1>6. Books'
  BY DEF IInv, Books, Exposed, redis, node, Query
<1> QED
  BY <1>1, <1>2, <1>3, <1>4, <1>5, <1>6 DEF IInv

LEMMA ResendInv ==
  ASSUME IInv, NEW r \in Runs, Resend(r)
  PROVE  IInv'
<1>1. TypeOK'
  <2>1. TypeOK
    BY DEF IInv
  <2>2. known' \subseteq Runs /\ received' \in [Miners -> Nat] /\ late' \subseteq Runs
    BY <2>1, LearnIsSound DEF TypeOK, Resend, Accepted, AnswerLost, node
  <2> QED
    BY <2>1, <2>2 DEF TypeOK, Steps, Resend, At, Goto, End, redis
<1>2. OneRun'
  BY ConstantsAssumption DEF IInv, TypeOK, OneRun, OnlyMarkedAtLarge, Steps, redis, Resend,
      At, Goto, End, Accepted, AnswerLost, Learn
<1>3. MarkerOfRun'
  BY DEF IInv, TypeOK, MarkerOfRun, Marked, Early, redis, Resend, At, Goto, End
<1>4. OnlyMarkedAtLarge'
  BY DEF IInv, TypeOK, MarkerOfRun, OnlyMarkedAtLarge, Steps, Marked, Early, Unsent, redis,
      node, Resend, At, Goto, End, Accepted, AnswerLost, Learn
<1>5. Affordable'
  BY DEF IInv, TypeOK, Affordable, redis, Resend, Goto, End
<1>6. Books'
  BY DEF IInv, TypeOK, MarkerOfRun, Books, Exposed, Marked, redis, node, Resend, At,
      Accepted, AnswerLost, Learn
<1> QED
  BY <1>1, <1>2, <1>3, <1>4, <1>5, <1>6 DEF IInv

LEMMA DropInv ==
  ASSUME IInv, NEW r \in Runs, Drop(r)
  PROVE  IInv'
<1>1. TypeOK'
  BY DEF IInv, TypeOK, node, Drop, Goto, End
<1>2. OneRun'
  BY DEF IInv, TypeOK, OneRun, Steps, Drop, At, Goto, End
<1>3. MarkerOfRun'
  BY ConstantsAssumption DEF IInv, TypeOK, MarkerOfRun, Marked, Early, Drop, At, Goto, End
<1>4. OnlyMarkedAtLarge'
  BY ConstantsAssumption DEF IInv, TypeOK, MarkerOfRun, OnlyMarkedAtLarge, Marked, Unsent,
      node, Drop, At, Goto, End
<1>5. Affordable'
  BY DEF IInv, Affordable, Drop, Goto, End
<1>6. Books'
  BY ConstantsAssumption DEF IInv, TypeOK, MarkerOfRun, OnlyMarkedAtLarge, Books, Exposed,
      Marked, Unsent, node, Drop, At
<1> QED
  BY <1>1, <1>2, <1>3, <1>4, <1>5, <1>6 DEF IInv

LEMMA ClearInv ==
  ASSUME IInv, NEW r \in Runs, Clear(r)
  PROVE  IInv'
<1>1. /\ inflight = r /\ r \in known /\ pc[r] = "clear" /\ up /\ End(r, "done")
      /\ UNCHANGED <<node, credited, up, paused, reconciling, payouts>>
  BY DEF IInv, MarkerOfRun, Marked, OnlyMarkedAtLarge, Clear, At
<1>2. CASE ~MultiIsKept /\ UNCHANGED redis
  <2>1. TypeOK'
    BY <1>1, <1>2 DEF IInv, TypeOK, Steps, redis, node, Goto, End
  <2>2. OneRun'
    BY <1>1, <1>2 DEF IInv, TypeOK, OneRun, Steps, Goto, End
  <2>3. MarkerOfRun'
    BY <1>1, <1>2 DEF IInv, TypeOK, MarkerOfRun, Marked, Early, redis, Goto, End
  <2>4. OnlyMarkedAtLarge'
    BY <1>1, <1>2 DEF IInv, TypeOK, OnlyMarkedAtLarge, Early, Unsent, redis, node, Goto, End
  <2>5. Affordable'
    BY <1>1, <1>2 DEF IInv, TypeOK, Affordable, redis, Goto, End
  <2>6. Books'
    BY <1>1, <1>2 DEF IInv, Books, Exposed, MultiIsKept, redis, node
  <2> QED
    BY <2>1, <2>2, <2>3, <2>4, <2>5, <2>6 DEF IInv
<1>3. CASE /\ Deduct(r) /\ payments' = payments \cup {r} /\ postponed' = FALSE
           /\ inflight' = NoRun /\ named' = FALSE
  <2>0. \A m \in Miners : payouts[r][m] <= balances[m]
    BY <1>1, ConstantsAssumption DEF IInv, Affordable
  <2>7. /\ \A m \in Miners : balances'[m] + payouts[r][m] = balances[m]
        /\ balances' \in [Miners -> Nat]
    BY <1>3, <2>0, DeductIsSound DEF IInv
  <2>1. TypeOK'
    BY <1>1, <1>3, <2>7 DEF IInv, TypeOK, Steps, node, Goto, End
  <2>2. OneRun'
    BY <1>1 DEF IInv, TypeOK, OneRun, Steps, Goto, End
  <2>3. MarkerOfRun'
    BY <1>1, <1>3, ConstantsAssumption DEF IInv, TypeOK, MarkerOfRun, Marked, Goto, End
  <2>4. OnlyMarkedAtLarge'
    BY <1>1, <1>3, ConstantsAssumption DEF IInv, TypeOK, MarkerOfRun, OnlyMarkedAtLarge, Marked,
       Early, Unsent, node, Goto, End
  <2>5. Affordable'
    BY <1>1, <1>3 DEF IInv, OneRun, Affordable, Steps, Goto, End
  <2>6. Books'
    <3>1. NoRun \notin known
      BY ConstantsAssumption DEF IInv, TypeOK
    <3>2. \A m \in Miners : Exposed(m) = payouts[r][m] /\ Exposed(m)' = 0
      BY <1>1, <1>3, <3>1 DEF Exposed, node
    <3> SUFFICES ASSUME NEW m \in Miners
                 PROVE  /\ credited[m] <= balances'[m] + received[m]
                        /\ MultiIsKept => balances'[m] + received[m] = credited[m]
      BY <1>1, <3>2 DEF IInv, TypeOK, Books, node
    <3>3. /\ balances[m] \in Nat /\ received[m] \in Nat /\ credited[m] \in Nat
          /\ payouts[r][m] \in Nat /\ balances'[m] \in Nat
      BY <2>7 DEF IInv, TypeOK
    <3>4. /\ credited[m] + payouts[r][m] <= balances[m] + received[m]
          /\ MultiIsKept => balances[m] + received[m] = credited[m] + payouts[r][m]
      BY <3>2 DEF IInv, Books
    <3> QED
      BY <2>7, <3>3, <3>4
  <2> QED
    BY <2>1, <2>2, <2>3, <2>4, <2>5, <2>6 DEF IInv
<1> QED
  BY <1>2, <1>3 DEF Clear, Outcomes, MultiIsKept

LEMMA LateArrivalInv ==
  ASSUME IInv, NEW r \in Runs, LateArrival(r)
  PROVE  IInv'
<1>1. TypeOK'
  BY DEF IInv, TypeOK, redis, LateArrival, Learn
<1>2. OneRun'
  BY DEF IInv, OneRun, LateArrival
<1>3. MarkerOfRun'
  BY DEF IInv, MarkerOfRun, redis, LateArrival
<1>4. OnlyMarkedAtLarge'
  BY DEF IInv, OnlyMarkedAtLarge, redis, LateArrival, Learn
<1>5. Affordable'
  BY DEF IInv, Affordable, redis, LateArrival
<1>6. Books'
  BY DEF IInv, TypeOK, OnlyMarkedAtLarge, Books, Exposed, redis, LateArrival, Learn
<1> QED
  BY <1>1, <1>2, <1>3, <1>4, <1>5, <1>6 DEF IInv

LEMMA CrashInv ==
  ASSUME IInv, Crash
  PROVE  IInv'
<1>1. TypeOK'
  BY DEF IInv, TypeOK, redis, node, Crash
<1>2. OneRun'
  BY DEF IInv, OneRun, Steps, Crash
<1>3. MarkerOfRun'
  BY DEF IInv, MarkerOfRun, Marked, Early, redis, Crash
<1>4. OnlyMarkedAtLarge'
  BY DEF IInv, OnlyMarkedAtLarge, Early, Unsent, redis, node, Crash
<1>5. Affordable'
  BY DEF IInv, Affordable, redis, Crash
<1>6. Books'
  BY DEF IInv, Books, Exposed, redis, node, Crash
<1> QED
  BY <1>1, <1>2, <1>3, <1>4, <1>5, <1>6 DEF IInv

LEMMA StartInv ==
  ASSUME IInv, Start
  PROVE  IInv'
<1>1. TypeOK'
  BY DEF IInv, TypeOK, redis, node, Start
<1>2. OneRun'
  BY DEF IInv, OneRun, Start
<1>3. MarkerOfRun'
  BY DEF IInv, MarkerOfRun, redis, Start
<1>4. OnlyMarkedAtLarge'
  BY DEF IInv, OnlyMarkedAtLarge, redis, node, Start
<1>5. Affordable'
  BY DEF IInv, Affordable, redis, Start
<1>6. Books'
  BY DEF IInv, Books, Exposed, redis, node, Start
<1> QED
  BY <1>1, <1>2, <1>3, <1>4, <1>5, <1>6 DEF IInv

LEMMA ReconcileInv ==
  ASSUME IInv, Reconcile
  PROVE  IInv'
<1>1. TypeOK'
  BY DEF IInv, TypeOK, redis, node, Reconcile
<1>2. OneRun'
  BY DEF IInv, OneRun, Reconcile
<1>3. MarkerOfRun'
  BY DEF IInv, MarkerOfRun, redis, Reconcile
<1>4. OnlyMarkedAtLarge'
  BY ConstantsAssumption DEF IInv, TypeOK, OnlyMarkedAtLarge, redis, node, Reconcile
<1>5. Affordable'
  BY DEF IInv, Affordable, redis, Reconcile
<1>6. Books'
  BY DEF IInv, Books, Exposed, redis, node, Reconcile
<1> QED
  BY <1>1, <1>2, <1>3, <1>4, <1>5, <1>6 DEF IInv

LEMMA ResolveInv ==
  ASSUME IInv, Resolve
  PROVE  IInv'
<1>1. TypeOK'
  <2>1. CASE inflight \in known
    <3>1. Deduct(inflight) /\ inflight \in Runs
      BY <2>1 DEF Resolve, IInv, TypeOK
    <3>2. balances' \in [Miners -> Nat]
      BY <3>1, DeductIsSound, ConstantsAssumption DEF IInv, Affordable
    <3> QED
      BY <3>2 DEF IInv, TypeOK, Steps, node, Resolve
  <2>2. CASE inflight \notin known
    BY <2>2 DEF IInv, TypeOK, Steps, node, Resolve
  <2> QED
    BY <2>1, <2>2
<1>2. OneRun'
  BY DEF IInv, OneRun, Resolve
<1>3. MarkerOfRun'
  BY ConstantsAssumption DEF IInv, OneRun, MarkerOfRun, Steps, Marked, Resolve
<1>4. OnlyMarkedAtLarge'
  BY DEF IInv, OnlyMarkedAtLarge, node, Resolve
<1>5. Affordable'
  BY DEF IInv, OneRun, Affordable, Steps, Resolve
<1>6. Books'
  BY ConstantsAssumption DEF IInv, TypeOK, OneRun, MarkerOfRun, OnlyMarkedAtLarge, Books,
      Exposed, Affordable, Steps, Marked, Early, Unsent, node, Resolve, Deduct
<1> QED
  BY <1>1, <1>2, <1>3, <1>4, <1>5, <1>6 DEF IInv

LEMMA CreditInv ==
  ASSUME IInv, NEW m \in Miners, NEW a \in Amounts, Credit(m, a)
  PROVE  IInv'
<1>1. TypeOK'
  BY ConstantsAssumption DEF IInv, TypeOK, node, Credit
<1>2. OneRun'
  BY DEF IInv, OneRun, Credit
<1>3. MarkerOfRun'
  BY DEF IInv, MarkerOfRun, Credit
<1>4. OnlyMarkedAtLarge'
  BY DEF IInv, OnlyMarkedAtLarge, node, Credit
<1>5. Affordable'
  BY ConstantsAssumption DEF IInv, TypeOK, Affordable, Credit
<1>6. Books'
  BY ConstantsAssumption DEF IInv, TypeOK, MarkerOfRun, Books, Exposed, node, Credit
<1> QED
  BY <1>1, <1>2, <1>3, <1>4, <1>5, <1>6 DEF IInv

-----------------------------------------------------------------------------
(* The invariant holds, and with it what the runs check.                   *)

LEMMA NextInv ==
  ASSUME IInv, [Next]_vars
  PROVE  IInv'
<1>1. ASSUME NEW r \in Runs, Tick(r) \/ RunStep(r) \/ LateArrival(r)
      PROVE  IInv'
  BY <1>1, TickInv, ReadBalancesInv, CheckWalletInv, PostponeInv, WriteIntentInv,
     BuildInv, NameIntentInv, SendInv, QueryInv, ResendInv, DropInv, ClearInv,
     LateArrivalInv DEF RunStep
<1>2. CASE Crash \/ Start \/ Reconcile \/ Resolve
  BY <1>2, CrashInv, StartInv, ReconcileInv, ResolveInv
<1>3. ASSUME NEW m \in Miners, NEW a \in Amounts, Credit(m, a)
      PROVE  IInv'
  BY <1>3, CreditInv
<1>4. CASE UNCHANGED vars
  BY <1>4 DEF vars, redis, node, IInv, TypeOK, OneRun, MarkerOfRun,
              OnlyMarkedAtLarge, Affordable, Books, Exposed
<1> QED
  BY <1>1, <1>2, <1>3, <1>4 DEF Next

\* The inductive invariant: everything the run, the marker, the node and the
\* books agree on (shareProcessor.js 698-968), in every reachable state.
THEOREM InvariantHolds == Spec => []IInv
<1>1. Init => IInv
  BY InitInv
<1>2. IInv /\ [Next]_vars => IInv'
  BY NextInv
<1> QED
  BY <1>1, <1>2, PTL DEF Spec

\* Every value keeps its type; in particular no balance is ever negative.
THEOREM TypeCorrect == Spec => []TypeOK
<1>1. IInv => TypeOK
  BY DEF IInv
<1> QED
  BY <1>1, InvariantHolds, PTL

\* Whatever Redis rejects, no balance is cleared without a transaction that pays it
\* (processPayments and its recovery, 930-933).
THEOREM NoDebtIsForgiven == Spec => []NothingForgiven
<1>1. ASSUME IInv, NEW m \in Miners
      PROVE  credited[m] <= balances[m] + received[m]
  <2>1. /\ balances[m] \in Nat /\ received[m] \in Nat /\ credited[m] \in Nat
        /\ \A r \in Runs : payouts[r][m] \in Nat
    BY <1>1 DEF IInv, TypeOK
  <2>2. credited[m] + Exposed(m) <= balances[m] + received[m]
    BY <1>1 DEF IInv, Books
  <2>3. Exposed(m) \in Nat
    BY <1>1, <2>1 DEF IInv, TypeOK, Exposed
  <2> QED
    BY <2>1, <2>2, <2>3
<1>2. IInv => NothingForgiven
  BY <1>1 DEF NothingForgiven
<1> QED
  BY <1>2, InvariantHolds, PTL

\* What a miner has been sent never exceeds what it was credited.
THEOREM NoDebtIsPaidTwice ==
  ASSUME "clear" \notin LostWrites
  PROVE  Spec => []NoDuplicatePayment
<1>1. ASSUME IInv, NEW m \in Miners
      PROVE  received[m] <= credited[m]
  <2>1. /\ balances[m] \in Nat /\ received[m] \in Nat /\ credited[m] \in Nat
        /\ \A r \in Runs : payouts[r][m] \in Nat
    BY <1>1 DEF IInv, TypeOK
  <2>2. balances[m] + received[m] = credited[m] + Exposed(m)
    BY <1>1 DEF IInv, Books, MultiIsKept
  <2>3. Exposed(m) \in Nat /\ Exposed(m) <= balances[m]
    BY <1>1, <2>1, ConstantsAssumption DEF IInv, TypeOK, Affordable, Exposed
  <2> QED
    BY <2>1, <2>2, <2>3
<1>2. IInv => NoDuplicatePayment
  BY <1>1 DEF NoDuplicatePayment
<1> QED
  BY <1>2, InvariantHolds, PTL

\* Coins sent and not deducted are named by the marker, and hold every new run.
THEOREM UnfinishedRunIsHeld ==
  ASSUME "clear" \notin LostWrites
  PROVE  Spec => []UnfinishedRunHoldsPayments
<1>1. ASSUME IInv, inflight \notin known
      PROVE  \A m \in Miners : balances[m] + received[m] = credited[m]
  BY <1>1 DEF IInv, TypeOK, Books, Exposed, MultiIsKept
<1>2. ASSUME IInv, inflight \in known
      PROVE  ~up \/ paused \/ paying
  BY <1>2 DEF IInv, TypeOK, OnlyMarkedAtLarge, MultiIsKept, OneRun, Steps
<1>3. IInv => UnfinishedRunHoldsPayments
  BY <1>1, <1>2 DEF UnfinishedRunHoldsPayments
<1> QED
  BY <1>3, InvariantHolds, PTL

-----------------------------------------------------------------------------
(* The batch that a run takes.                                              *)

\* The sum of a batch, of nothing and of one balance.
LEMMA SumOfBatch ==
  ASSUME TypeOK
  PROVE  /\ SumFunction(InFull({})) = 0
         /\ \A m \in Miners : SumFunction(InFull({m})) = balances[m]
         /\ \A m \in Miners : SumFunction(Capped(m)) = MaxPerBatch
<1>0. IsFiniteSet(Miners) /\ MaxPerBatch \in Nat
  BY ConstantsAssumption, MinersAssumption
<1>1. SumFunction(InFull({})) = 0
  <2> DEFINE w == InFull({})
  <2>1. DOMAIN w = Miners /\ \A x \in Miners : w[x] = 0
    BY DEF InFull
  <2> HIDE DEF w
  <2>2. SumFunctionOnSet(w, Miners) = 0
    BY <1>0, <2>1, SumOfNothing
  <2> QED
    BY <2>1, <2>2 DEF SumFunction, w
<1>2. ASSUME NEW m \in Miners PROVE SumFunction(InFull({m})) = balances[m]
  <2> DEFINE w == InFull({m})
  <2>1. /\ DOMAIN w = Miners /\ w[m] = balances[m] /\ w[m] \in Int
        /\ \A x \in Miners \ {m} : w[x] = 0
    BY DEF InFull, TypeOK
  <2> HIDE DEF w
  <2>2. SumFunctionOnSet(w, Miners) = w[m]
    BY <1>0, <2>1, SumOfOne
  <2> QED
    BY <2>1, <2>2 DEF SumFunction, w
<1>3. ASSUME NEW m \in Miners PROVE SumFunction(Capped(m)) = MaxPerBatch
  <2> DEFINE w == Capped(m)
  <2>1. /\ DOMAIN w = Miners /\ w[m] = MaxPerBatch /\ w[m] \in Int
        /\ \A x \in Miners \ {m} : w[x] = 0
    BY <1>0 DEF Capped
  <2> HIDE DEF w
  <2>2. SumFunctionOnSet(w, Miners) = w[m]
    BY <1>0, <2>1, SumOfOne
  <2> QED
    BY <2>1, <2>2 DEF SumFunction, w
<1> QED
  BY <1>1, <1>2, <1>3

\* A largest set of due balances that fits both caps is what some order of the
\* balances makes the loop take; if not even one fits, it is paid the cap.
LEMMA SomeBatch ==
  ASSUME TypeOK, Due # {}
  PROVE  Batches # {}
<1> DEFINE F == {S \in SUBSET Due : Cardinality(S) <= MaxRecipients /\ Fits(S)}
<1>0. /\ IsFiniteSet(Due) /\ Due \subseteq Miners
      /\ MaxRecipients \in Nat \ {0} /\ MaxPerBatch \in Nat
  BY ConstantsAssumption, MinersAssumption, FS_Subset DEF Due
<1>1. \A S \in SUBSET Due : IsFiniteSet(S) /\ Cardinality(S) \in Nat
  BY <1>0, FS_Subset, FS_CardinalityType
<1>2. {} \in F
  BY <1>0, SumOfBatch, FS_EmptySet DEF Fits
<1>3. PICK S \in F : \A T \in F : Cardinality(T) <= Cardinality(S)
  <2>1. F \subseteq SUBSET Due
    OBVIOUS
  <2> HIDE DEF F
  <2> QED
    BY <1>0, <1>2, <2>1, HasLargest
<1>4. ASSUME NEW m \in Due \ S, Cardinality(S) < MaxRecipients
      PROVE  ~Fits(S \cup {m})
  <2>1. IsFiniteSet(S) /\ Cardinality(S \cup {m}) = Cardinality(S) + 1 /\ Cardinality(S) \in Nat
    BY <1>1, FS_AddElement
  <2>2. Cardinality(S \cup {m}) <= MaxRecipients /\ ~(Cardinality(S \cup {m}) <= Cardinality(S))
    BY <1>0, <1>4, <2>1
  <2>3. S \cup {m} \notin F
    <3> HIDE DEF F
    <3> QED
      BY <1>3, <2>2
  <2> QED
    BY <2>2, <2>3
<1>5. CASE S = {}
  <2>1. PICK m \in Due : TRUE
    OBVIOUS
  <2>2. Cardinality(S) < MaxRecipients /\ m \in Due \ S
    BY <1>0, <1>5, FS_EmptySet
  <2>3. ~Fits({m})
    BY <1>4, <1>5, <2>2
  <2>4. balances[m] > MaxPerBatch
    <3>1. balances[m] \in Nat /\ SumFunction(InFull({m})) = balances[m]
      BY <1>0, SumOfBatch DEF TypeOK
    <3> QED
      BY <1>0, <2>3, <3>1 DEF Fits
  <2> QED
    BY <2>4 DEF Batches
<1>6. CASE S # {}
  <2>1. Cardinality(S) = MaxRecipients \/ Cardinality(S) < MaxRecipients
    BY <1>0, <1>1
  <2>2. Prefix(S)
    BY <1>4, <2>1 DEF Prefix
  <2> QED
    BY <1>6, <2>2 DEF Batches
<1> QED
  BY <1>5, <1>6

\* A batch keeps to both caps and to what is owed.
LEMMA BatchKeepsCaps ==
  ASSUME TypeOK, NEW b \in Batches
  PROVE  /\ SumFunction(b) <= MaxPerBatch
         /\ Cardinality({m \in Miners : b[m] > 0}) <= MaxRecipients
<1>0. /\ Due \subseteq Miners /\ IsFiniteSet(Miners)
      /\ MaxRecipients \in Nat \ {0} /\ MaxPerBatch \in Nat
  BY ConstantsAssumption, MinersAssumption DEF Due
<1>1. CASE \E S \in SUBSET Due : b = InFull(S) /\ Prefix(S)
  <2>1. PICK S \in SUBSET Due : b = InFull(S) /\ Prefix(S)
    BY <1>1
  <2> DEFINE P == {m \in Miners : b[m] > 0}
  <2>2. P \subseteq S /\ IsFiniteSet(S)
    BY <1>0, <2>1, FS_Subset DEF InFull
  <2> HIDE DEF P
  <2>3. Cardinality(P) <= Cardinality(S) /\ Cardinality(P) \in Nat /\ Cardinality(S) \in Nat
    BY <2>2, FS_Subset, FS_CardinalityType
  <2>4. Cardinality(S) <= MaxRecipients /\ SumFunction(b) <= MaxPerBatch
    BY <2>1 DEF Prefix, Fits
  <2> QED
    BY <1>0, <2>3, <2>4 DEF P
<1>2. CASE \E n \in Due : b = Capped(n)
  <2>1. PICK n \in Due : b = Capped(n)
    BY <1>2
  <2> DEFINE P == {m \in Miners : b[m] > 0}
  <2>2. P \subseteq {n}
    BY <2>1 DEF Capped
  <2> HIDE DEF P
  <2>3. Cardinality(P) <= 1 /\ Cardinality(P) \in Nat
    <3>1. IsFiniteSet({n}) /\ Cardinality({n}) = 1
      BY FS_Singleton
    <3> QED
      BY <2>2, <3>1, FS_Subset, FS_CardinalityType
  <2>4. SumFunction(b) = MaxPerBatch
    BY <1>0, <2>1, SumOfBatch
  <2> QED
    BY <1>0, <2>3, <2>4 DEF P
<1> QED
  BY <1>1, <1>2 DEF Batches

\* A due balance always finds a batch, and a batch keeps to both caps and to what is
\* owed, for any caps and any balances (the loop of processPayments, 742-757).
THEOREM DueIsPayable == Spec => []DueHasBatch
<1>1. IInv => DueHasBatch
  BY SomeBatch, BatchKeepsCaps, BatchIsCovered DEF IInv, DueHasBatch
<1> QED
  BY <1>1, InvariantHolds, PTL

-----------------------------------------------------------------------------
(* The ledger.                                                              *)

\* Each step leaves the node's ledger alone or adds to it, and only a credit
\* changes what has been credited.
LEMMA ReceivedGrows ==
  ASSUME IInv, [Next]_vars
  PROVE  \A m \in Miners : received[m] <= received'[m]
<1>1. received \in [Miners -> Nat] /\ payouts \in [Runs -> [Miners -> Nat]] /\ TypeOK
  BY DEF IInv, TypeOK
<1>2. ASSUME NEW r \in Runs, Learn(r)
      PROVE  \A m \in Miners : received[m] <= received'[m]
  BY <1>1, <1>2, LearnIsSound
<1>3. ASSUME UNCHANGED received
      PROVE  \A m \in Miners : received[m] <= received'[m]
  BY <1>1, <1>3
<1>4. ASSUME NEW r \in Runs, Send(r) \/ Resend(r) \/ LateArrival(r)
      PROVE  \A m \in Miners : received[m] <= received'[m]
  BY <1>2, <1>3, <1>4 DEF Send, Resend, LateArrival, Accepted, AnswerLost, node
<1>5. ASSUME NEW r \in Runs,
             Tick(r) \/ ReadBalances(r) \/ CheckWallet(r) \/ Postpone(r) \/ WriteIntent(r)
               \/ Build(r) \/ NameIntent(r) \/ Query(r) \/ Drop(r) \/ Clear(r)
      PROVE  UNCHANGED received
  BY <1>5 DEF Tick, ReadBalances, CheckWallet, Postpone, WriteIntent, Build,
              NameIntent, Query, Drop, Clear, node
<1>6. CASE Crash \/ Start \/ Reconcile \/ Resolve \/ UNCHANGED vars
  BY <1>3, <1>6 DEF Crash, Start, Reconcile, Resolve, vars, node
<1>7. ASSUME NEW n \in Miners, NEW a \in Amounts, Credit(n, a)
      PROVE  UNCHANGED received
  BY <1>7 DEF Credit, node
<1> QED
  BY <1>3, <1>4, <1>5, <1>6, <1>7 DEF Next, RunStep

LEMMA OnlyCreditCredits ==
  ASSUME [Next]_vars, ~ UNCHANGED credited
  PROVE  \E m \in Miners, a \in Amounts : Credit(m, a)
BY DEF Next, RunStep, Tick, ReadBalances, CheckWallet, Postpone, WriteIntent, Build,
       NameIntent, Send, Query, Resend, Drop, Clear, LateArrival, Crash, Start,
       Reconcile, Resolve, vars

\* The ledger's debt is what was credited less what was sent.
LEMMA OwedIs ==
  ASSUME "clear" \notin LostWrites, IInv, NEW m \in Miners
  PROVE  /\ balances[m] - Exposed(m) \in Nat
         /\ balances[m] - Exposed(m) + received[m] = credited[m]
         /\ received[m] \in Nat /\ credited[m] \in Nat
<1>1. /\ balances[m] \in Nat /\ received[m] \in Nat /\ credited[m] \in Nat
      /\ \A r \in Runs : payouts[r][m] \in Nat
  BY DEF IInv, TypeOK
<1>2. Exposed(m) \in Nat /\ Exposed(m) <= balances[m]
  BY <1>1, ConstantsAssumption DEF IInv, TypeOK, Affordable, Exposed
<1>3. balances[m] + received[m] = credited[m] + Exposed(m)
  BY DEF IInv, Books, MultiIsKept
<1> QED
  BY <1>1, <1>2, <1>3

\* The payment run, with its crashes, lost answers and repairs, implements the
\* ledger: a step is a credit, a payment of what is owed, or a stutter.
THEOREM PaymentsImplementLedger ==
  ASSUME "clear" \notin LostWrites
  PROVE  Spec => ImplementsLedger
<1> DEFINE owedBar == [m \in Miners |-> balances[m] - Exposed(m)]
<1>1. Init => Ledger!Init
  <2> SUFFICES ASSUME Init PROVE Ledger!Init
    OBVIOUS
  <2>1. inflight \notin known /\ balances = [m \in Miners |-> 0]
        /\ received = [m \in Miners |-> 0]
    BY DEF Init, Nobody
  <2>2. owedBar = [m \in Miners |-> 0]
    BY <2>1 DEF Exposed
  <2> QED
    BY <2>1, <2>2 DEF Ledger!Init
<1>2. ASSUME IInv, IInv', [Next]_vars
      PROVE  [Ledger!Next]_(Ledger!vars)
  <2>1. \A m \in Miners : /\ owedBar[m] \in Nat /\ owedBar'[m] \in Nat
                          /\ owedBar[m] + received[m] = credited[m]
                          /\ owedBar'[m] + received'[m] = credited'[m]
    <3> TAKE m \in Miners
    <3>1. owedBar[m] = balances[m] - Exposed(m) /\ owedBar'[m] = (balances[m] - Exposed(m))'
      OBVIOUS
    <3>2. (balances[m] - Exposed(m))' \in Nat
          /\ (balances[m] - Exposed(m))' + received'[m] = credited'[m]
      <4>1. /\ balances'[m] \in Nat /\ received'[m] \in Nat /\ credited'[m] \in Nat
            /\ \A r \in Runs : payouts'[r][m] \in Nat
        BY <1>2 DEF IInv, TypeOK
      <4>2. Exposed(m)' \in Nat /\ Exposed(m)' <= balances'[m]
        BY <1>2, <4>1, ConstantsAssumption DEF IInv, TypeOK, Affordable, Exposed
      <4>3. balances'[m] + received'[m] = credited'[m] + Exposed(m)'
        BY <1>2 DEF IInv, Books, MultiIsKept
      <4> QED
        BY <4>1, <4>2, <4>3
    <3> QED
      BY <1>2, <3>1, <3>2, OwedIs
  <2>2. owedBar \in [Miners -> Nat] /\ owedBar' \in [Miners -> Nat]
    BY <2>1
  <2>3. received \in [Miners -> Nat] /\ received' \in [Miners -> Nat]
    BY <1>2 DEF IInv, TypeOK
  <2>4. CASE UNCHANGED credited
    <3>1. \A m \in Miners : received[m] <= received'[m]
      BY <1>2, ReceivedGrows
    <3>2. \A m \in Miners : owedBar'[m] + received'[m] = owedBar[m] + received[m]
      BY <2>1, <2>4
    <3> QED
      BY <2>2, <2>3, <3>1, <3>2 DEF Ledger!Next, Ledger!Pay
  <2>5. CASE ~ UNCHANGED credited
    <3>1. PICK m \in Miners, a \in Amounts : Credit(m, a)
      BY <1>2, <2>5, OnlyCreditCredits
    <3>2. UNCHANGED received /\ credited' = [credited EXCEPT ![m] = @ + a]
      BY <3>1 DEF Credit, node
    <3>3. a \in Nat /\ credited \in [Miners -> Nat]
      BY <1>2, ConstantsAssumption DEF IInv, TypeOK
    <3>4. \A n \in Miners \ {m} : owedBar'[n] = owedBar[n]
      BY <2>1, <2>3, <3>2, <3>3
    <3>5. owedBar[m] <= owedBar'[m]
      BY <2>1, <2>3, <3>2, <3>3
    <3>6. owedBar' = [owedBar EXCEPT ![m] = owedBar'[m]]
      BY <2>2, <3>4
    <3> QED
      BY <2>2, <3>2, <3>5, <3>6 DEF Ledger!Next, Ledger!Credit
  <2> QED
    BY <2>4, <2>5
<1> QED
  BY <1>1, <1>2, InvariantHolds, PTL DEF Spec, ImplementsLedger, Ledger!Spec
=============================================================================
