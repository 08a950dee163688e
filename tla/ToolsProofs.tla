---------------------------- MODULE ToolsProofs -----------------------------
(*****************************************************************************)
(* The tools that move money or decide what is believed.                     *)
(*                                                                           *)
(* What reaches the network from the treasury, for any payments, parts,      *)
(* plans, failures and blocks.  A transaction is followed from _plan_part,   *)
(* whose arithmetic it keeps, through files that may be damaged, to the      *)
(* signature, which is where the address and the coins are compared, and     *)
(* to the broadcast, which sends the bytes that were signed.                 *)
(*                                                                           *)
(* The operator's fee, for any number of people who sweep it at once, and    *)
(* the checkpoint that all the hosts that were asked share, for any hosts    *)
(* and any reorganisations above what they call buried.                      *)
(*                                                                           *)
(* Block 0, for any number of threads, nonces and items: the search, whose   *)
(* invariant says who may have stopped and on whose word; the file that is   *)
(* emptied before it is written; and the scripts of the premine, whose       *)
(* unlock times are numbers again when their bytes are read.                 *)
(*****************************************************************************)
EXTENDS TreasurySpend, FeeSweep, Checkpoint, GenesisMiner, SumProofs, FiniteSetTheorems,
        SequenceTheorems, TLAPS

-----------------------------------------------------------------------------
(* The invariant.                                                           *)

\* A transaction has inputs, a payee, an amount and its change.
IsTx(tx) == tx = [ins |-> tx.ins, to |-> tx.to, pays |-> tx.pays, change |-> tx.change]

\* As _plan_part built it: the amount is that of a payment, the rest of its coins is
\* change and the fee.  Only the address may have been damaged since.
Built(tx) ==
  /\ IsTx(tx) /\ Len(tx.ins) \in Nat
  /\ \E p \in DOMAIN Payments :
       tx.pays = Payments[p].amount /\ tx.to \in {Payments[p].to, "elsewhere"}
  /\ LET n == Len(tx.ins)
     IN  n * Reward - tx.pays - tx.change \in n * FeePerInput .. n * FeePerInput + Dust

\* A file has the plan's fields, and the bytes as they were built.
IsFile(f) ==
  /\ f = [part |-> f.part, to |-> f.to, amount |-> f.amount, change |-> f.change,
          fee |-> f.fee, inputSet |-> f.inputSet, total |-> f.total, hex |-> f.hex]
  /\ Built(f.hex)

\* What the checks before the signature say of the bytes.
Checked(tx) == tx.to # "elsewhere" /\ Cardinality(Coins(tx)) = Len(tx.ins)

\* It was signed after the address it pays had been typed.
Approved(tx, as) == Built(tx) /\ Checked(tx) /\ \E a \in as : a.tx = tx /\ a.typed = tx.to

ChainIsFinite ==
  /\ tip \in Nat /\ unspent \subseteq 1 .. tip
  /\ payment \in DOMAIN Payments
  /\ planner.pc \in {"list", "read"} => planner.mature \subseteq 1 .. tip

PlansAreBuilt ==
  /\ plans = [i \in PartSet |-> plans[i]]
  /\ \A i \in PartSet : plans[i] = NoFile \/ IsFile(plans[i])
  /\ planner.pc = "write" =>
       /\ planner = [pc |-> "write", built |-> planner.built, next |-> planner.next,
                     gone |-> planner.gone]
       /\ planner.next \in PartSet /\ \A i \in PartSet : IsFile(planner.built[i])

\* While the key is at hand: one payee, whole files, no coin in two of them.
SignerIsSure ==
  signer.pc = "sign" =>
    /\ signer = [pc |-> "sign", plans |-> signer.plans, next |-> signer.next]
    /\ signer.next \in PartSet
    /\ \A i \in PartSet : IsFile(signer.plans[i]) /\ Checked(signer.plans[i].hex)
                          /\ signer.plans[i].hex.to = signer.plans[1].to
    /\ \A i, j \in PartSet :
         i # j => Coins(signer.plans[i].hex) \cap Coins(signer.plans[j].hex) = {}

SignedIsApproved ==
  /\ signed = [i \in PartSet |-> signed[i]]
  /\ \A i \in PartSet : signed[i] = NoFile \/ (IsFile(signed[i]) /\ Approved(signed[i].hex, approved))

SenderIsInRange ==
  sender.pc \in {"verify", "send"} =>
    /\ sender = [pc |-> sender.pc, parts |-> sender.parts, next |-> sender.next]
    /\ sender.parts \in Seq(PartSet) /\ sender.next \in 1 .. Len(sender.parts)

\* The sitting is what has been signed of the signer's files so far.
SittingIsOfFiles ==
  /\ sitting \in Seq({a.tx : a \in approved})
  /\ signer.pc = "sign" =>
       /\ Len(sitting) = signer.next - 1
       /\ \A k \in 1 .. Len(sitting) : sitting[k] = signer.plans[k].hex
  /\ SittingIsDisjoint

SentIsSigned == \A tx \in mempool \cup mined : Approved(tx, approved)

IInv ==
  /\ ChainIsFinite /\ PlansAreBuilt /\ SignerIsSure /\ SignedIsApproved
  /\ SenderIsInRange /\ SittingIsOfFiles /\ SentIsSigned

-----------------------------------------------------------------------------
(* What _plan_part takes.                                                   *)

\* A part takes no more than there is.
LEMMA TakenIs ==
  ASSUME NEW S, NEW s \in Seq(S), NEW a \in Nat
  PROVE  Taken(s, a) \in 0 .. Len(s)
<1>1. Reward \in Nat \ {0} /\ Over \in Nat /\ Len(s) \in Nat
  BY ConstantsAssumption
<1> DEFINE d == a + Over + Reward - 1
<1>2. d \in Nat
  BY <1>1
<1> HIDE DEF d
<1>3. d \div Reward \in Nat
  BY <1>1, <1>2, SMT
<1> QED
  BY <1>1, <1>3 DEF Taken, Least, d

\* The recursion of Remaining has a solution, and leaves each part a list of outputs.
LEMMA RemainingIs ==
  ASSUME NEW S, NEW pool \in Seq(S), NEW p, p.amount \in Nat
  PROVE  \A i \in PartSet : Remaining(pool, p)[i] \in Seq(S)
<1> DEFINE Step(f, i) == SubSeq(f[i - 1], Taken(f[i - 1], p.amount) + 1, Len(f[i - 1]))
           Leaves(f, n) == /\ f \in [1 .. n -> Seq(S)]
                           /\ \A i \in 1 .. n : f[i] = IF i = 1 THEN pool ELSE Step(f, i)
           Bad == {n \in Nat : n \in PartSet /\ ~ \E f : Leaves(f, n)}
           Unrolled(f) == f = [i \in PartSet |-> IF i = 1 THEN pool ELSE Step(f, i)]
<1>1. Parts \in Nat \ {0} /\ Reward \in Nat \ {0} /\ Over \in Nat
  BY ConstantsAssumption
<1>2. ASSUME NEW s \in Seq(S)
      PROVE  Taken(s, p.amount) \in 0 .. Len(s)
  BY TakenIs
<1>3. ASSUME NEW s \in Seq(S)
      PROVE  SubSeq(s, Taken(s, p.amount) + 1, Len(s)) \in Seq(S)
  <2>1. Taken(s, p.amount) \in 0 .. Len(s) /\ Len(s) \in Nat
    BY <1>2
  <2>2. \A i \in Taken(s, p.amount) + 1 .. Len(s) : s[i] \in S
    BY <2>1
  <2> QED
    BY <2>1, <2>2, SubSeqProperties
<1>4. Bad = {}
  <2> SUFFICES ASSUME Bad # {} PROVE FALSE
    OBVIOUS
  <2>1. PICK n \in Bad : \A m \in Bad : n <= m
    <3>1. Bad \subseteq Nat
      OBVIOUS
    <3> HIDE DEF Bad
    <3> QED
      BY <3>1, HasLeast
  <2>2. CASE n = 1
    <3>1. Leaves([i \in 1 .. 1 |-> pool], 1)
      OBVIOUS
    <3> HIDE DEF Leaves
    <3> QED
      BY <2>2, <3>1
  <2>3. CASE n # 1
    <3>1. n \in Nat /\ n \in 1 .. Parts /\ n - 1 \in 1 .. Parts /\ n - 1 \in Nat
      BY <1>1, <2>3 DEF PartSet
    <3>2. n - 1 \notin Bad
      <4>1. ~(n <= n - 1)
        BY <3>1
      <4> HIDE DEF Bad
      <4> QED
        BY <2>1, <4>1
    <3>3. PICK f : Leaves(f, n - 1)
      BY <3>1, <3>2 DEF PartSet
    <3> DEFINE g == [i \in 1 .. n |-> IF i = n THEN Step(f, n) ELSE f[i]]
    <3>4. Step(f, n) \in Seq(S)
      BY <1>3, <3>1, <3>3
    <3>5. g \in [1 .. n -> Seq(S)]
      BY <3>1, <3>3, <3>4
    <3>6. ASSUME NEW i \in 1 .. n PROVE g[i] = IF i = 1 THEN pool ELSE Step(g, i)
      <4>1. i # 1 => g[i - 1] = f[i - 1]
        BY <3>1
      <4>2. CASE i = n
        BY <2>3, <4>1, <4>2
      <4>3. CASE i # n
        <5>1. i \in 1 .. n - 1 /\ g[i] = f[i]
          BY <3>1, <4>3
        <5>2. f[i] = IF i = 1 THEN pool ELSE Step(f, i)
          BY <3>3, <5>1
        <5> QED
          BY <4>1, <5>1, <5>2
      <4> QED
        BY <4>2, <4>3
    <3>7. Leaves(g, n)
      BY <3>5, <3>6
    <3> HIDE DEF Leaves, g
    <3> QED
      BY <3>7
  <2> QED
    BY <2>2, <2>3
<1>5. PICK f : Leaves(f, Parts)
  <2>1. Parts \in PartSet /\ Parts \in Nat
    BY <1>1 DEF PartSet
  <2> HIDE DEF Leaves
  <2>2. Parts \notin Bad
    BY <1>4, Zenon
  <2> QED
    BY <2>1, <2>2, Zenon
<1>6. Unrolled(f)
  <2>1. f = [i \in PartSet |-> f[i]]
    BY <1>5 DEF PartSet
  <2> QED
    BY <1>5, <2>1 DEF PartSet
<1> DEFINE g == CHOOSE h : Unrolled(h)
<1>7. Remaining(pool, p) = g
  BY Zenon DEF Remaining
<1>8. Unrolled(g)
  <2> HIDE DEF Unrolled
  <2> QED
    BY <1>6
<1> HIDE DEF g
<1> DEFINE Odd == {n \in Nat : n \in PartSet /\ g[n] \notin Seq(S)}
<1>9. Odd = {}
  <2> SUFFICES ASSUME Odd # {} PROVE FALSE
    OBVIOUS
  <2>1. PICK n \in Odd : \A m \in Odd : n <= m
    <3>1. Odd \subseteq Nat
      OBVIOUS
    <3> HIDE DEF Odd
    <3> QED
      BY <3>1, HasLeast
  <2>2. n \in PartSet /\ g[n] \notin Seq(S) /\ n \in 1 .. Parts
    BY DEF PartSet
  <2>3. n # 1
    BY <1>8, <2>2
  <2>4. n - 1 \in PartSet /\ n - 1 \in Nat /\ ~(n <= n - 1)
    BY <1>1, <2>2, <2>3 DEF PartSet
  <2>5. g[n - 1] \in Seq(S)
    BY <2>1, <2>4
  <2>6. g[n] = Step(g, n)
    BY <1>8, <2>2, <2>3
  <2> QED
    BY <1>3, <2>2, <2>5, <2>6
<1> QED
  BY <1>1, <1>7, <1>9 DEF PartSet

\* Amounts are numbers.
LEMMA AmountIsNat ==
  ASSUME NEW p \in DOMAIN Payments
  PROVE  Payments[p].amount \in Nat
<1> DEFINE R == [to : STRING, amount : Nat]
<1>1. Payments \in Seq(R)
  BY ConstantsAssumption
<1> HIDE DEF R
<1>2. Payments[p] \in R
  BY <1>1
<1> QED
  BY <1>2 DEF R

\* A part that covers its amount and its fee is built as it says.
LEMMA PartIsBuilt ==
  ASSUME NEW S, NEW pool \in Seq(S), NEW p \in DOMAIN Payments, NEW i \in PartSet,
         Covered(pool, Payments[p].amount)
  PROVE  IsFile(plan_part(pool, Payments[p], i))
<1> DEFINE n == Taken(pool, Payments[p].amount)
           a == Payments[p].amount
           change == Change(n, a)
           kept == IF change >= Dust THEN change ELSE 0
           tx == [ins |-> SubSeq(pool, 1, n), to |-> Payments[p].to, pays |-> a, change |-> kept]
<1>1. Reward \in Nat \ {0} /\ Over \in Nat /\ FeePerInput \in Nat /\ Dust \in Nat /\ a \in Nat
  BY ConstantsAssumption, AmountIsNat
<1>2. n \in 0 .. Len(pool) /\ Len(pool) \in Nat
  BY <1>1, TakenIs
<1>3. n \in Nat /\ Len(SubSeq(pool, 1, n)) = n
  <2>1. \A k \in 1 .. n : pool[k] \in S
    BY <1>2
  <2> HIDE DEF n
  <2> QED
    BY <1>2, <2>1, SubSeqProperties
<1>4. plan_part(pool, Payments[p], i).hex = tx
  BY DEF plan_part
<1>5. change >= 0
  BY DEF Covered
<1>6. change = n * Reward - a - n * FeePerInput
  BY DEF Change
<1> HIDE DEF n, a, change
<1>7. n * Reward \in Int /\ n * FeePerInput \in Int
  BY <1>1, <1>3, SMT
<1> DEFINE r == n * Reward
           f == n * FeePerInput
<1> HIDE DEF r, f
<1>8. r \in Int /\ f \in Int /\ change = r - a - f
  BY <1>6, <1>7 DEF r, f
<1>9. r - a - kept \in f .. f + Dust
  BY <1>1, <1>5, <1>8
<1>10. Built(tx)
  <2>1. n * Reward - a - kept \in n * FeePerInput .. n * FeePerInput + Dust
    BY <1>9 DEF r, f
  <2>2. IsTx(tx)
    BY DEF IsTx
  <2> HIDE DEF kept
  <2>3. tx.pays = Payments[p].amount /\ tx.to = Payments[p].to /\ tx.change = kept
        /\ Len(tx.ins) = n
    BY <1>3 DEF a
  <2> HIDE DEF tx
  <2> QED
    BY <1>3, <2>1, <2>2, <2>3 DEF Built, a
<1> QED
  BY <1>4, <1>10 DEF IsFile, plan_part

-----------------------------------------------------------------------------
(* The steps.                                                               *)

\* The set that an operator typed the addresses of only grows.
LEMMA ApprovedStays ==
  ASSUME NEW tx, NEW as, NEW more, Approved(tx, as), as \subseteq more
  PROVE  Approved(tx, more)
BY DEF Approved

\* At the start there are no files and nothing has been sent.
LEMMA InitInv == Init => IInv
<1> SUFFICES ASSUME Init PROVE IInv
  OBVIOUS
<1> USE DEF Init
<1>1. ChainIsFinite
  <2>1. 1 \in DOMAIN Payments
    <3> DEFINE R == [to : STRING, amount : Nat]
    <3>1. Payments \in Seq(R) /\ Payments # <<>>
      BY ConstantsAssumption
    <3> HIDE DEF R
    <3>2. Len(Payments) \in Nat /\ Len(Payments) # 0 /\ DOMAIN Payments = 1 .. Len(Payments)
      BY <3>1, EmptySeq
    <3> QED
      BY <3>2
  <2> QED
    BY <2>1, ConstantsAssumption DEF ChainIsFinite, Idle
<1>2. PlansAreBuilt
  BY DEF PlansAreBuilt, Idle
<1>3. SignerIsSure
  BY DEF SignerIsSure, Idle
<1>4. SignedIsApproved
  BY DEF SignedIsApproved
<1>5. SenderIsInRange
  BY DEF SenderIsInRange, Idle
<1>6. SittingIsOfFiles
  <2>1. <<>> \in Seq({a.tx : a \in approved}) /\ DOMAIN <<>> = {}
    OBVIOUS
  <2> QED
    BY <2>1 DEF SittingIsOfFiles, SittingIsDisjoint, Disjoint, Idle
<1>7. SentIsSigned
  BY DEF SentIsSigned
<1> QED
  BY <1>1, <1>2, <1>3, <1>4, <1>5, <1>6, <1>7 DEF IInv

\* What one part of the program keeps while the others run.
LEMMA SigningStays ==
  ASSUME IInv, UNCHANGED <<signed, signer, approved, sitting>>
  PROVE  SignerIsSure' /\ SignedIsApproved' /\ SittingIsOfFiles'
<1>1. SignerIsSure'
  BY DEF IInv, SignerIsSure
<1>2. SignedIsApproved'
  BY DEF IInv, SignedIsApproved
<1>3. SittingIsOfFiles'
  BY DEF IInv, SittingIsOfFiles, SittingIsDisjoint
<1> QED
  BY <1>1, <1>2, <1>3

LEMMA SendingStays ==
  ASSUME IInv, UNCHANGED sender
  PROVE  SenderIsInRange'
BY DEF IInv, SenderIsInRange

LEMMA SentStays ==
  ASSUME IInv, UNCHANGED <<mempool, mined>>, approved \subseteq approved'
  PROVE  SentIsSigned'
BY ApprovedStays DEF IInv, SentIsSigned

LEMMA PlanningStays ==
  ASSUME IInv, UNCHANGED <<plans, planner>>
  PROVE  PlansAreBuilt'
BY DEF IInv, PlansAreBuilt, IsFile, Built, IsTx

LEMMA ChainStays ==
  ASSUME IInv, UNCHANGED <<tip, unspent, payment, planner>>
  PROVE  ChainIsFinite'
BY DEF IInv, ChainIsFinite

-----------------------------------------------------------------------------
(* plan                                                                     *)

LEMMA PlanBeginsKeeps == IInv /\ PlanBegins => IInv'
<1> SUFFICES ASSUME IInv, PlanBegins PROVE IInv'
  OBVIOUS
<1>1. UNCHANGED <<chain, payment, plans, signed, signer, sender, approved, sitting>>
  BY DEF PlanBegins
<1>2. ChainIsFinite'
  BY <1>1 DEF IInv, ChainIsFinite, PlanBegins, chain
<1>3. PlansAreBuilt'
  BY <1>1 DEF IInv, PlansAreBuilt, PlanBegins, IsFile, Built, IsTx
<1> QED
  BY <1>1, <1>2, <1>3, SigningStays, SendingStays, SentStays DEF IInv, chain

LEMMA PlanScansKeeps == IInv /\ PlanScans => IInv'
<1> SUFFICES ASSUME IInv, PlanScans PROVE IInv'
  OBVIOUS
<1>1. UNCHANGED <<chain, payment, plans, signed, signer, sender, approved, sitting>>
  BY DEF PlanScans
<1>2. ChainIsFinite'
  BY <1>1 DEF IInv, ChainIsFinite, PlanScans, chain
<1>3. PlansAreBuilt'
  BY <1>1 DEF IInv, PlansAreBuilt, PlanScans, IsFile, Built, IsTx
<1> QED
  BY <1>1, <1>2, <1>3, SigningStays, SendingStays, SentStays DEF IInv, chain

LEMMA PlanListsKeeps == IInv /\ PlanLists => IInv'
<1> SUFFICES ASSUME IInv, PlanLists PROVE IInv'
  OBVIOUS
<1>1. UNCHANGED <<chain, payment, plans, signed, signer, sender, approved, sitting>>
  BY DEF PlanLists
<1>2. ChainIsFinite'
  BY <1>1 DEF IInv, ChainIsFinite, PlanLists, chain
<1>3. PlansAreBuilt'
  BY <1>1 DEF IInv, PlansAreBuilt, PlanLists, IsFile, Built, IsTx
<1> QED
  BY <1>1, <1>2, <1>3, SigningStays, SendingStays, SentStays DEF IInv, chain

\* Every part is cut from a list of outputs, and covers what it pays.
LEMMA PlanReadsKeeps == IInv /\ PlanReads => IInv'
<1> SUFFICES ASSUME IInv, PlanReads PROVE IInv'
  OBVIOUS
<1> DEFINE held == UNION {Coins(tx) : tx \in planner.listed}
           pool == Oldest(planner.mature \ held)
           left == Remaining(pool, Payments[payment])
           built == [i \in PartSet |-> plan_part(left[i], Payments[payment], i)]
<1>1. UNCHANGED <<chain, payment, plans, signed, signer, sender, approved, sitting>>
  BY DEF PlanReads
<1>2. \/ /\ \A i \in PartSet : Covered(left[i], Payments[payment].amount)
         /\ planner' = [pc |-> "write", built |-> built, next |-> 1, gone |-> (1 .. tip) \ unspent]
      \/ planner' = Idle
  BY DEF PlanReads
<1>3. planner.pc = "read" /\ payment \in DOMAIN Payments /\ tip \in Nat
      /\ planner.mature \subseteq 1 .. tip
  BY DEF PlanReads, IInv, ChainIsFinite
<1>4. planner'.pc \notin {"list", "read"}
  BY <1>2 DEF Idle
<1>5. ChainIsFinite'
  BY <1>1, <1>4 DEF IInv, ChainIsFinite, chain
<1>6. CASE planner' = Idle
  <2>1. PlansAreBuilt'
    BY <1>1, <1>6 DEF IInv, PlansAreBuilt, IsFile, Built, IsTx, Idle
  <2> QED
    BY <1>1, <1>5, <2>1, SigningStays, SendingStays, SentStays DEF IInv, chain
<1>7. CASE /\ \A i \in PartSet : Covered(left[i], Payments[payment].amount)
           /\ planner' = [pc |-> "write", built |-> built, next |-> 1,
                          gone |-> (1 .. tip) \ unspent]
  <2>1. PICK S : pool \in Seq(S)
    <3>1. IsFiniteSet(1 .. tip)
      <4>1. 1 \in Int /\ tip \in Int
        BY <1>3
      <4> QED
        BY <4>1, FS_Interval
    <3>2. IsFiniteSet(planner.mature \ held)
      BY <1>3, <3>1, FS_Subset
    <3> DEFINE c == planner.mature \ held
               nth(i) == CHOOSE x \in c : Cardinality({d \in c : d < x}) = i - 1
               S == {nth(i) : i \in 1 .. Cardinality(c)}
    <3>3. Cardinality(c) \in Nat
      BY <3>2, FS_CardinalityType
    <3>4. pool = [i \in 1 .. Cardinality(c) |-> nth(i)]
      BY DEF Oldest
    <3> HIDE DEF c, nth, pool
    <3>5. pool \in [1 .. Cardinality(c) -> S]
      BY <3>4
    <3>6. pool \in Seq(S)
      BY <3>3, <3>5
    <3> QED
      BY <3>6
  <2>2. Payments[payment].amount \in Nat
    BY <1>3, AmountIsNat
  <2> HIDE DEF pool
  <2>3. \A i \in PartSet : left[i] \in Seq(S)
    BY <2>1, <2>2, RemainingIs
  <2> HIDE DEF left
  <2>4. \A i \in PartSet : IsFile(plan_part(left[i], Payments[payment], i))
    BY <1>3, <1>7, <2>3, PartIsBuilt
  <2>5. 1 \in PartSet
    BY ConstantsAssumption DEF PartSet
  <2>6. \A i \in PartSet : IsFile(built[i])
    BY <2>4
  <2> HIDE DEF built
  <2>7. PlansAreBuilt'
    <3>1. \A i \in PartSet : IsFile(planner'.built[i])
      BY <1>7, <2>6
    <3>2. planner' = [pc |-> "write", built |-> planner'.built, next |-> planner'.next,
                      gone |-> planner'.gone] /\ planner'.next \in PartSet
      BY <1>7, <2>5
    <3>3. plans' = plans /\ PlansAreBuilt
      BY <1>1 DEF IInv
    <3> QED
      BY <3>1, <3>2, <3>3 DEF PlansAreBuilt, IsFile, Built, IsTx
  <2> QED
    BY <1>1, <1>5, <2>7, SigningStays, SendingStays, SentStays DEF IInv, chain
<1> QED
  BY <1>2, <1>6, <1>7

LEMMA PlanWritesKeeps == IInv /\ PlanWrites => IInv'
<1> SUFFICES ASSUME IInv, PlanWrites PROVE IInv'
  OBVIOUS
<1>1. UNCHANGED <<chain, payment, signed, signer, sender, approved, sitting>>
  BY DEF PlanWrites
<1>2. PlansAreBuilt /\ planner.pc = "write"
  BY DEF IInv, PlanWrites
<1>3. plans' = [plans EXCEPT ![planner.next] = planner.built[planner.next]]
      /\ planner' = IF planner.next = Parts THEN Idle ELSE [planner EXCEPT !.next = @ + 1]
  BY DEF PlanWrites
<1>4. planner'.pc \notin {"list", "read"}
  BY <1>2, <1>3 DEF PlansAreBuilt, Idle
<1>5. ChainIsFinite'
  BY <1>1, <1>4 DEF IInv, ChainIsFinite, chain
<1>6. plans' = [i \in PartSet |-> plans'[i]] /\ \A i \in PartSet : plans'[i] = NoFile \/ IsFile(plans'[i])
  BY <1>2, <1>3 DEF PlansAreBuilt
<1>7. CASE planner.next = Parts
  <2>1. planner'.pc # "write"
    BY <1>3, <1>7 DEF Idle
  <2>2. PlansAreBuilt'
    BY <1>6, <2>1 DEF PlansAreBuilt, IsFile, Built, IsTx
  <2> QED
    BY <1>1, <1>5, <2>2, SigningStays, SendingStays, SentStays DEF IInv, chain
<1>8. CASE planner.next # Parts
  <2>1. planner' = [pc |-> "write", built |-> planner.built, next |-> planner.next + 1,
                    gone |-> planner.gone]
    BY <1>2, <1>3, <1>8 DEF PlansAreBuilt
  <2>2. planner.next + 1 \in PartSet
    BY <1>2, <1>8, ConstantsAssumption DEF PlansAreBuilt, PartSet
  <2>3. \A i \in PartSet : IsFile(planner'.built[i])
    BY <1>2, <2>1 DEF PlansAreBuilt
  <2>4. PlansAreBuilt'
    BY <1>6, <2>1, <2>2, <2>3 DEF PlansAreBuilt, IsFile, Built, IsTx
  <2> QED
    BY <1>1, <1>5, <2>4, SigningStays, SendingStays, SentStays DEF IInv, chain
<1> QED
  BY <1>7, <1>8

-----------------------------------------------------------------------------
(* sign                                                                     *)

\* A set that is not empty and has no two elements has one.
LEMMA OneElement ==
  ASSUME NEW S, IsFiniteSet(S), ~(Cardinality(S) > 1), NEW x \in S, NEW y \in S
  PROVE  x = y
<1> SUFFICES ASSUME x # y PROVE FALSE
  OBVIOUS
<1>1. IsFiniteSet({x}) /\ Cardinality({x}) = 1
  BY FS_Singleton
<1>2. IsFiniteSet({x} \cup {y}) /\ Cardinality({x} \cup {y}) = 2
  <2>1. y \notin {x}
    OBVIOUS
  <2>2. Cardinality({x} \cup {y}) = Cardinality({x}) + 1
    BY <1>1, <2>1, FS_AddElement
  <2> QED
    BY <1>1, <2>2, FS_AddElement
<1>3. {x} \cup {y} \subseteq S
  OBVIOUS
<1>4. Cardinality({x} \cup {y}) <= Cardinality(S)
  BY <1>3, FS_Subset
<1>5. Cardinality(S) \in Nat
  BY FS_CardinalityType
<1> QED
  BY <1>2, <1>4, <1>5

\* What the signature waits for: every file whole, one payee, which is the one that
\* is paid, and no output in two of the files.
LEMMA SignableIs ==
  ASSUME IInv, Signable
  PROVE  /\ \A i \in PartSet : IsFile(plans[i]) /\ Checked(plans[i].hex)
                               /\ plans[i].hex.to = plans[1].to
         /\ \A i, j \in PartSet :
              i # j => Coins(plans[i].hex) \cap Coins(plans[j].hex) = {}
<1>1. PlansAreBuilt /\ payment \in DOMAIN Payments
  BY DEF IInv, ChainIsFinite
<1>2. 1 \in PartSet /\ IsFiniteSet(PartSet) /\ DOMAIN plans = PartSet
  <2>1. DOMAIN plans = PartSet
    BY <1>1 DEF PlansAreBuilt
  <2>2. 1 \in 1 .. Parts /\ IsFiniteSet(1 .. Parts)
    BY ConstantsAssumption, FS_Interval
  <2> QED
    BY <2>1, <2>2 DEF PartSet
<1>3. ASSUME NEW i \in PartSet
      PROVE  /\ IsFile(plans[i]) /\ plans[i].hex.to = plans[i].to
             /\ plans[i].hex.ins = plans[i].inputSet
             /\ Cardinality(Coins(plans[i].hex)) = Len(plans[i].hex.ins)
  BY <1>1 DEF PlansAreBuilt, Signable, verify_against_plan
<1>4. \A i \in PartSet : plans[i].to = plans[1].to
  <2> DEFINE to == {plans[i].to : i \in PartSet}
  <2>1. ~(Cardinality(to) > 1)
    BY <1>2 DEF Signable, batch_problem
  <2>2. IsFiniteSet(to)
    <3> DEFINE f == [i \in PartSet |-> plans[i].to]
    <3>1. f \in Surjection(PartSet, to)
      BY DEF Surjection
    <3> HIDE DEF f, to
    <3> QED
      BY <1>2, <3>1, FS_Surjection
  <2>3. \A i \in PartSet : plans[i].to \in to
    OBVIOUS
  <2> HIDE DEF to
  <2> QED
    BY <1>2, <2>1, <2>2, <2>3, OneElement
<1>5. plans[1].to # "elsewhere"
  BY <1>1, DamageAssumption DEF Signable
<1>6. ASSUME NEW i \in PartSet, NEW j \in PartSet, i # j
      PROVE  Coins(plans[i].hex) \cap Coins(plans[j].hex) = {}
  <2>1. {plans[i].inputSet[k] : k \in DOMAIN plans[i].inputSet}
          \cap {plans[j].inputSet[k] : k \in DOMAIN plans[j].inputSet} = {}
    BY <1>2, <1>6 DEF Signable, batch_problem
  <2>2. Coins(plans[i].hex) = {plans[i].inputSet[k] : k \in DOMAIN plans[i].inputSet}
    BY <1>3 DEF Coins
  <2>3. Coins(plans[j].hex) = {plans[j].inputSet[k] : k \in DOMAIN plans[j].inputSet}
    BY <1>3 DEF Coins
  <2> QED
    BY <2>1, <2>2, <2>3
<1> QED
  BY <1>3, <1>4, <1>5, <1>6 DEF Checked

LEMMA SignBeginsKeeps == IInv /\ SignBegins => IInv'
<1> SUFFICES ASSUME IInv, SignBegins PROVE IInv'
  OBVIOUS
<1>1. UNCHANGED <<chain, payment, plans, signed, planner, sender, approved>> /\ Signable
  BY DEF SignBegins
<1>2. signer' = [pc |-> "sign", plans |-> plans, next |-> 1] /\ sitting' = <<>>
  BY DEF SignBegins
<1>3. 1 \in PartSet
  BY ConstantsAssumption DEF PartSet
<1>4. SignerIsSure'
  BY <1>1, <1>2, <1>3, SignableIs DEF SignerIsSure
<1>5. SignedIsApproved'
  BY <1>1 DEF IInv, SignedIsApproved
<1>6. SittingIsOfFiles'
  <2>1. sitting' \in Seq({a.tx : a \in approved'}) /\ DOMAIN sitting' = {} /\ Len(sitting') = 0
    BY <1>2
  <2>2. Disjoint(sitting')
    BY <2>1 DEF Disjoint
  <2> QED
    BY <1>2, <2>1, <2>2 DEF SittingIsOfFiles, SittingIsDisjoint
<1> QED
  BY <1>1, <1>4, <1>5, <1>6, SendingStays, SentStays, PlanningStays, ChainStays DEF IInv, chain

\* One more of the files is signed, for the address that was typed for all of them.
LEMMA SignsKeeps == IInv /\ sign_one => IInv'
<1> SUFFICES ASSUME IInv, sign_one PROVE IInv'
  OBVIOUS
<1> DEFINE n == signer.next
           plan == signer.plans[n]
           a == [tx |-> plan.hex, typed |-> signer.plans[1].to]
<1>1. UNCHANGED <<chain, payment, plans, planner, sender>>
  BY DEF sign_one
<1>2. /\ signed' = [signed EXCEPT ![n] = plan]
      /\ sitting' = Append(sitting, plan.hex)
      /\ approved' = approved \cup {a}
      /\ signer' = IF n = Parts THEN Idle ELSE [signer EXCEPT !.next = @ + 1]
  BY DEF sign_one
<1>3. /\ signer.pc = "sign" /\ n \in PartSet
      /\ signer = [pc |-> "sign", plans |-> signer.plans, next |-> n]
      /\ \A i \in PartSet : IsFile(signer.plans[i]) /\ Checked(signer.plans[i].hex)
                            /\ signer.plans[i].hex.to = signer.plans[1].to
      /\ \A i, j \in PartSet :
           i # j => Coins(signer.plans[i].hex) \cap Coins(signer.plans[j].hex) = {}
  BY DEF IInv, SignerIsSure, sign_one
<1>4. IsFile(plan) /\ Approved(plan.hex, approved')
  <2>1. a \in approved' /\ a.tx = plan.hex /\ a.typed = plan.hex.to
    BY <1>2, <1>3
  <2>2. IsFile(plan) /\ Checked(plan.hex)
    BY <1>3
  <2> QED
    BY <2>1, <2>2 DEF Approved, IsFile
<1>5. approved \subseteq approved'
  BY <1>2
<1>6. n \in Nat /\ n \in 1 .. Parts /\ Parts \in Nat
  BY <1>3, ConstantsAssumption DEF PartSet
<1>7. signer'.pc = "sign" =>
        signer' = [pc |-> "sign", plans |-> signer.plans, next |-> n + 1] /\ n + 1 \in PartSet
  <2>1. CASE n = Parts
    BY <1>2, <2>1 DEF Idle
  <2>2. CASE n # Parts
    <3>1. n + 1 \in PartSet
      BY <1>6, <2>2 DEF PartSet
    <3>2. signer' = [signer EXCEPT !.next = n + 1]
      BY <1>2, <2>2
    <3> HIDE DEF n
    <3> QED
      BY <1>3, <3>1, <3>2
  <2> QED
    BY <2>1, <2>2
<1>8. SignerIsSure'
  BY <1>3, <1>7 DEF SignerIsSure
<1>9. SignedIsApproved'
  <2>1. SignedIsApproved
    BY DEF IInv
  <2> HIDE DEF plan, n
  <2>2. signed' = [i \in PartSet |-> signed'[i]]
    BY <1>2, <2>1 DEF SignedIsApproved
  <2>3. ASSUME NEW i \in PartSet
        PROVE  signed'[i] = NoFile \/ (IsFile(signed'[i]) /\ Approved(signed'[i].hex, approved'))
    <3>1. CASE i = n
      BY <1>2, <1>4, <2>1, <3>1 DEF SignedIsApproved
    <3>2. CASE i # n
      BY <1>2, <1>5, <2>1, <3>2, ApprovedStays DEF SignedIsApproved
    <3> QED
      BY <3>1, <3>2
  <2> QED
    BY <2>2, <2>3 DEF SignedIsApproved
<1>10. SittingIsOfFiles'
  <2>1. SittingIsOfFiles
    BY DEF IInv
  <2> DEFINE T == {b.tx : b \in approved}
             U == {b.tx : b \in approved'}
  <2>2. T \subseteq U /\ plan.hex \in U
    <3>1. a \in approved' /\ a.tx = plan.hex
      BY <1>2
    <3> HIDE DEF a, plan
    <3> QED
      BY <1>5, <3>1
  <2>3. sitting \in Seq(T) /\ Len(sitting) = n - 1
        /\ \A k \in 1 .. Len(sitting) : sitting[k] = signer.plans[k].hex
    BY <1>3, <2>1 DEF SittingIsOfFiles
  <2>4. sitting' = Append(sitting, signer.plans[n].hex)
    BY <1>2
  <2> HIDE DEF T, U, n, plan
  <2>5. sitting \in Seq(U)
    BY <2>2, <2>3
  <2>6. sitting' \in Seq(U) /\ Len(sitting') = n
    BY <1>2, <1>6, <2>2, <2>3, <2>5
  <2>7. DOMAIN sitting' = 1 .. n
    BY <2>6
  <2>8. ASSUME NEW k \in 1 .. n PROVE sitting'[k] = signer.plans[k].hex
    <3>1. CASE k = n
      BY <1>6, <2>3, <2>4, <2>5, <3>1
    <3>2. CASE k # n
      <4>1. k \in 1 .. Len(sitting)
        BY <1>6, <2>3, <3>2
      <4>2. sitting'[k] = sitting[k]
        BY <2>4, <2>5, <4>1
      <4> QED
        BY <2>3, <4>1, <4>2
    <3> QED
      BY <3>1, <3>2
  <2>9. Disjoint(sitting')
    <3>1. 1 .. n \subseteq PartSet
      BY <1>6 DEF PartSet
    <3>2. ASSUME NEW i \in 1 .. n, NEW j \in 1 .. n, i # j
          PROVE  Coins(sitting'[i]) \cap Coins(sitting'[j]) = {}
      BY <1>3, <2>8, <3>1, <3>2
    <3> QED
      BY <2>7, <3>2 DEF Disjoint
  <2>10. signer'.pc = "sign" => Len(sitting') = signer'.next - 1 /\ signer'.plans = signer.plans
    BY <1>6, <1>7, <2>6
  <2>11. sitting' \in Seq({b.tx : b \in approved'})
    BY <2>6 DEF U
  <2> QED
    BY <2>6, <2>8, <2>9, <2>10, <2>11 DEF SittingIsOfFiles, SittingIsDisjoint
<1> QED
  BY <1>1, <1>5, <1>8, <1>9, <1>10, SendingStays, SentStays, PlanningStays, ChainStays
  DEF IInv, chain

-----------------------------------------------------------------------------
(* broadcast                                                                *)

LEMMA SendBeginsKeeps == IInv /\ SendBegins => IInv'
<1> SUFFICES ASSUME IInv, SendBegins PROVE IInv'
  OBVIOUS
<1>1. UNCHANGED <<chain, payment, plans, signed, planner, signer, approved, sitting>>
  BY DEF SendBegins
<1>2. SenderIsInRange'
  <2>1. PICK parts \in {<<i>> : i \in PartSet} \cup {[i \in PartSet |-> i]} :
          sender' = [pc |-> IF Len(parts) = 1 THEN "send" ELSE "verify", parts |-> parts,
                     next |-> 1]
    BY DEF SendBegins
  <2>2. Parts \in Nat \ {0}
    BY ConstantsAssumption
  <2>3. parts \in Seq(PartSet) /\ Len(parts) \in Nat \ {0}
    <3>1. CASE parts \in {<<i>> : i \in PartSet}
      <4>1. PICK i \in PartSet : parts = <<i>>
        BY <3>1
      <4>2. <<i>> \in Seq(PartSet) /\ Len(<<i>>) = 1
        OBVIOUS
      <4> QED
        BY <4>1, <4>2
    <3>2. CASE parts = [i \in PartSet |-> i]
      <4>1. parts \in [1 .. Parts -> PartSet]
        BY <3>2 DEF PartSet
      <4>2. Len(parts) = Parts /\ parts \in Seq(PartSet)
        BY <2>2, <3>2, <4>1 DEF PartSet
      <4> QED
        BY <2>2, <4>2
    <3> QED
      BY <2>1, <3>1, <3>2
  <2>4. 1 \in 1 .. Len(parts)
    BY <2>3
  <2> QED
    BY <2>1, <2>3, <2>4 DEF SenderIsInRange
<1> QED
  BY <1>1, <1>2, SigningStays, SentStays, PlanningStays, ChainStays DEF IInv, chain

\* A sender that goes on stays within its parts.
LEMMA FollowingIs ==
  ASSUME IInv, sender.pc \in {"verify", "send"}, sender' \in {Following, Idle}
  PROVE  SenderIsInRange'
<1>1. /\ sender = [pc |-> sender.pc, parts |-> sender.parts, next |-> sender.next]
      /\ sender.parts \in Seq(PartSet) /\ sender.next \in 1 .. Len(sender.parts)
  BY DEF IInv, SenderIsInRange
<1>2. Len(sender.parts) \in Nat /\ sender.next \in Nat
  BY <1>1
<1>3. CASE sender' = Idle
  BY <1>3 DEF SenderIsInRange, Idle
<1>4. CASE sender.next < Len(sender.parts) /\ sender' = Following
  <2>1. sender' = [pc |-> sender.pc, parts |-> sender.parts, next |-> sender.next + 1]
    BY <1>1, <1>4 DEF Following
  <2>2. sender.next + 1 \in 1 .. Len(sender.parts)
    BY <1>1, <1>2, <1>4
  <2> QED
    BY <1>1, <2>1, <2>2 DEF SenderIsInRange
<1>5. CASE ~(sender.next < Len(sender.parts)) /\ sender.pc = "verify" /\ sender' = Following
  <2>1. sender' = [pc |-> "send", parts |-> sender.parts, next |-> 1]
    BY <1>1, <1>5 DEF Following
  <2>2. 1 \in 1 .. Len(sender.parts)
    BY <1>1, <1>2
  <2> QED
    BY <1>1, <2>1, <2>2 DEF SenderIsInRange
<1> QED
  BY <1>3, <1>4, <1>5 DEF Following

LEMMA SendVerifiesKeeps == IInv /\ SendVerifies => IInv'
<1> SUFFICES ASSUME IInv, SendVerifies PROVE IInv'
  OBVIOUS
<1>1. UNCHANGED <<chain, payment, plans, signed, planner, signer, approved, sitting>>
  BY DEF SendVerifies
<1>2. SenderIsInRange'
  BY FollowingIs DEF SendVerifies
<1> QED
  BY <1>1, <1>2, SigningStays, SentStays, PlanningStays, ChainStays DEF IInv, chain

\* What is sent was signed.
LEMMA BroadcastsKeeps == IInv /\ broadcast_one => IInv'
<1> SUFFICES ASSUME IInv, broadcast_one PROVE IInv'
  OBVIOUS
<1> DEFINE file == signed[sender.parts[sender.next]]
<1>1. UNCHANGED <<tip, unspent, mined, payment, plans, signed, planner, signer, approved, sitting>>
  BY DEF broadcast_one
<1>2. sender' \in {Following, Idle} /\ sender.pc = "send"
  BY DEF broadcast_one
<1>3. \/ UNCHANGED mempool
      \/ file # NoFile /\ mempool' = mempool \cup {file.hex}
  BY DEF broadcast_one, Sendable
<1>4. SentIsSigned'
  <2>1. SentIsSigned /\ SignedIsApproved
    BY DEF IInv
  <2>2. sender.parts[sender.next] \in PartSet
    <3>1. sender.parts \in Seq(PartSet) /\ sender.next \in 1 .. Len(sender.parts)
      BY <1>2 DEF IInv, SenderIsInRange
    <3> QED
      BY <3>1
  <2>3. file # NoFile => Approved(file.hex, approved)
    BY <2>1, <2>2 DEF SignedIsApproved
  <2> HIDE DEF file
  <2> QED
    BY <1>1, <1>3, <2>1, <2>3 DEF SentIsSigned
<1>5. SenderIsInRange'
  BY <1>2, FollowingIs
<1> QED
  BY <1>1, <1>4, <1>5, SigningStays, PlanningStays, ChainStays DEF IInv

-----------------------------------------------------------------------------
(* The world.                                                               *)

LEMMA NewBlockKeeps == IInv /\ NewBlock => IInv'
<1> SUFFICES ASSUME IInv, NewBlock PROVE IInv'
  OBVIOUS
<1>1. UNCHANGED <<payment, plans, signed, planner, signer, sender, approved, sitting>>
  BY DEF NewBlock
<1>2. PICK confirmed \in {{}, mempool} :
        /\ mempool' = mempool \ confirmed /\ mined' = mined \cup confirmed
        /\ unspent' = (unspent \ UNION {Coins(tx) : tx \in confirmed}) \cup {tip + 1}
  BY DEF NewBlock
<1>3. ChainIsFinite'
  <2>1. ChainIsFinite /\ tip' = tip + 1
    BY DEF IInv, NewBlock
  <2>2. tip' \in Nat /\ 1 .. tip \subseteq 1 .. tip' /\ tip + 1 \in 1 .. tip'
    BY <2>1 DEF ChainIsFinite
  <2>3. unspent' \subseteq unspent \cup {tip + 1}
    BY <1>2
  <2> QED
    BY <1>1, <2>1, <2>2, <2>3 DEF ChainIsFinite
<1>4. SentIsSigned'
  <2>1. mempool' \cup mined' \subseteq mempool \cup mined
    BY <1>2
  <2> QED
    BY <1>1, <2>1 DEF IInv, SentIsSigned
<1> QED
  BY <1>1, <1>3, <1>4, SigningStays, SendingStays, PlanningStays DEF IInv

LEMMA TurnKeeps == IInv /\ Turn => IInv'
<1> SUFFICES ASSUME IInv, Turn PROVE IInv'
  OBVIOUS
<1>1. UNCHANGED <<chain, plans, signed, planner, signer, sender, approved, sitting>>
  BY DEF Turn
<1>2. ChainIsFinite'
  BY <1>1 DEF IInv, ChainIsFinite, Turn, chain
<1> QED
  BY <1>1, <1>2, SigningStays, SendingStays, SentStays, PlanningStays DEF IInv, chain

\* Damage leaves a file a file, and the bytes of a signature what they were.
LEMMA DamagedIsFile ==
  ASSUME NEW f, IsFile(f)
  PROVE  /\ \A g \in Damaged(f) : IsFile(g) /\ g.hex = f.hex
         /\ IsFile([f EXCEPT !.hex.to = "elsewhere"])
<1>1. ASSUME NEW g \in Damaged(f) PROVE IsFile(g) /\ g.hex = f.hex
  <2>1. f = [part |-> f.part, to |-> f.to, amount |-> f.amount, change |-> f.change,
             fee |-> f.fee, inputSet |-> f.inputSet, total |-> f.total, hex |-> f.hex]
    BY DEF IsFile
  <2>2. \/ g = [f EXCEPT !.to = "elsewhere"]
        \/ g = [f EXCEPT !.amount = @ + 1]
        \/ g = [f EXCEPT !.inputSet = SubSeq(@, 2, Len(@))]
    BY DEF Damaged
  <2>3. g.hex = f.hex /\ g = [part |-> g.part, to |-> g.to, amount |-> g.amount,
             change |-> g.change, fee |-> g.fee, inputSet |-> g.inputSet, total |-> g.total,
             hex |-> g.hex]
    BY <2>1, <2>2
  <2> QED
    BY <2>3 DEF IsFile
<1>2. IsFile([f EXCEPT !.hex.to = "elsewhere"])
  <2> DEFINE tx == [f.hex EXCEPT !.to = "elsewhere"]
             g == [f EXCEPT !.hex.to = "elsewhere"]
  <2>1. f = [part |-> f.part, to |-> f.to, amount |-> f.amount, change |-> f.change,
             fee |-> f.fee, inputSet |-> f.inputSet, total |-> f.total, hex |-> f.hex]
    BY DEF IsFile
  <2>2. f.hex = [ins |-> f.hex.ins, to |-> f.hex.to, pays |-> f.hex.pays,
                 change |-> f.hex.change]
    BY DEF IsFile, Built, IsTx
  <2>3. tx = [ins |-> f.hex.ins, to |-> "elsewhere", pays |-> f.hex.pays,
              change |-> f.hex.change]
    BY <2>2
  <2>4. g = [f EXCEPT !.hex = tx]
    BY <2>1
  <2> HIDE DEF tx, g
  <2>5. g.hex = tx /\ g = [part |-> g.part, to |-> g.to, amount |-> g.amount,
             change |-> g.change, fee |-> g.fee, inputSet |-> g.inputSet, total |-> g.total,
             hex |-> g.hex]
    BY <2>1, <2>4
  <2>6. Built(tx)
    BY <2>3 DEF IsFile, Built, IsTx
  <2>7. IsFile(g)
    BY <2>5, <2>6 DEF IsFile
  <2> QED
    BY <2>7 DEF g
<1> QED
  BY <1>1, <1>2

LEMMA DamageKeeps == IInv /\ Damage => IInv'
<1> SUFFICES ASSUME IInv, Damage PROVE IInv'
  OBVIOUS
<1>1. UNCHANGED <<chain, payment, planner, signer, sender, approved, sitting>>
  BY DEF Damage
<1>2. PICK i \in PartSet :
        \/ /\ plans[i] # NoFile
           /\ \E p \in Damaged(plans[i]) \cup {[plans[i] EXCEPT !.hex.to = "elsewhere"]} :
                plans' = [plans EXCEPT ![i] = p]
           /\ UNCHANGED signed
        \/ /\ signed[i] # NoFile
           /\ \E p \in Damaged(signed[i]) : signed' = [signed EXCEPT ![i] = p]
           /\ UNCHANGED plans
  BY DEF Damage
<1>3. PlansAreBuilt /\ SignedIsApproved
  BY DEF IInv
<1>4. PlansAreBuilt'
  <2>1. CASE UNCHANGED plans
    BY <1>1, <2>1, PlanningStays
  <2>2. CASE /\ plans[i] # NoFile
             /\ \E p \in Damaged(plans[i]) \cup {[plans[i] EXCEPT !.hex.to = "elsewhere"]} :
                  plans' = [plans EXCEPT ![i] = p]
    <3>1. PICK p : IsFile(p) /\ plans' = [plans EXCEPT ![i] = p]
      BY <1>3, <2>2, DamagedIsFile DEF PlansAreBuilt
    <3>2. plans' = [j \in PartSet |-> plans'[j]]
          /\ \A j \in PartSet : plans'[j] = NoFile \/ IsFile(plans'[j])
      BY <1>3, <3>1 DEF PlansAreBuilt
    <3> QED
      BY <1>1, <1>3, <3>2 DEF PlansAreBuilt
  <2> QED
    BY <1>2, <2>1, <2>2
<1>5. SignedIsApproved'
  <2>1. CASE UNCHANGED signed
    BY <1>1, <1>3, <2>1 DEF SignedIsApproved
  <2>2. CASE /\ signed[i] # NoFile
             /\ \E p \in Damaged(signed[i]) : signed' = [signed EXCEPT ![i] = p]
    <3>1. PICK p : IsFile(p) /\ p.hex = signed[i].hex /\ signed' = [signed EXCEPT ![i] = p]
      BY <1>3, <2>2, DamagedIsFile DEF SignedIsApproved
    <3> QED
      BY <1>1, <1>3, <2>2, <3>1 DEF SignedIsApproved
  <2> QED
    BY <1>2, <2>1, <2>2
<1>6. SignerIsSure' /\ SittingIsOfFiles'
  BY <1>1 DEF IInv, SignerIsSure, SittingIsOfFiles, SittingIsDisjoint
<1> QED
  BY <1>1, <1>4, <1>5, <1>6, SendingStays, SentStays, ChainStays DEF IInv, chain

LEMMA DieKeeps == IInv /\ Die => IInv'
<1> SUFFICES ASSUME IInv, Die PROVE IInv'
  OBVIOUS
<1>1. UNCHANGED <<chain, payment, plans, signed, approved, sitting>>
  BY DEF Die
<1>2. /\ planner' \in {planner, Idle}
      /\ signer' \in {signer, Idle}
      /\ sender' \in {sender, Idle}
  BY DEF Die
<1>3. ChainIsFinite'
  BY <1>1, <1>2 DEF IInv, ChainIsFinite, Idle, chain
<1>4. PlansAreBuilt'
  BY <1>1, <1>2 DEF IInv, PlansAreBuilt, Idle
<1>5. SignerIsSure'
  BY <1>2 DEF IInv, SignerIsSure, Idle
<1>6. SignedIsApproved'
  BY <1>1 DEF IInv, SignedIsApproved
<1>7. SenderIsInRange'
  BY <1>2 DEF IInv, SenderIsInRange, Idle
<1>8. SittingIsOfFiles'
  BY <1>1, <1>2 DEF IInv, SittingIsOfFiles, SittingIsDisjoint, Idle
<1> QED
  BY <1>1, <1>3, <1>4, <1>5, <1>6, <1>7, <1>8, SentStays DEF IInv, chain

LEMMA StepInv == IInv /\ [Next]_vars => IInv'
<1> SUFFICES ASSUME IInv, [Next]_vars PROVE IInv'
  OBVIOUS
<1>1. CASE UNCHANGED vars
  BY <1>1, SigningStays, SendingStays, SentStays, PlanningStays, ChainStays
  DEF IInv, vars, chain
<1>2. CASE Next
  BY <1>2, PlanBeginsKeeps, PlanScansKeeps, PlanListsKeeps, PlanReadsKeeps, PlanWritesKeeps,
     SignBeginsKeeps, SignsKeeps, SendBeginsKeeps, SendVerifiesKeeps, BroadcastsKeeps,
     NewBlockKeeps, TurnKeeps, DamageKeeps, DieKeeps DEF Next
<1> QED
  BY <1>1, <1>2

\* The invariant of the three programs holds of every behaviour.
THEOREM InvariantHolds == Spec => []IInv
<1>1. Init => IInv
  BY InitInv
<1>2. IInv /\ [Next]_vars => IInv'
  BY StepInv
<1> QED
  BY <1>1, <1>2, PTL DEF Spec

-----------------------------------------------------------------------------
(* The theorems.                                                            *)

\* For any payments, in any number of parts, with any plans, failures, damage to the
\* files and blocks: nothing of ours is in the memory pool or in a block but a payment
\* the operator set out to make, to the address he typed before it was signed, for its
\* amount, with a fee of the rate and at most Dust more.
THEOREM SpendsAreApproved == Spec => []SentIsApproved
<1>1. IInv => SentIsApproved
  <2> SUFFICES ASSUME IInv, NEW tx \in mempool \cup mined
               PROVE  /\ \E a \in approved : a.tx = tx /\ a.typed = tx.to
                      /\ \E p \in DOMAIN Payments :
                           tx.to = Payments[p].to /\ tx.pays = Payments[p].amount
                      /\ LET n == Cardinality(Coins(tx))
                         IN  n * Reward - tx.pays - tx.change
                               \in n * FeePerInput .. n * FeePerInput + Dust
    BY DEF SentIsApproved
  <2>1. Approved(tx, approved)
    BY DEF IInv, SentIsSigned
  <2>2. Cardinality(Coins(tx)) = Len(tx.ins) /\ tx.to # "elsewhere"
    BY <2>1 DEF Approved, Checked
  <2>3. \E p \in DOMAIN Payments : tx.to = Payments[p].to /\ tx.pays = Payments[p].amount
    BY <2>1, <2>2 DEF Approved, Built
  <2> QED
    BY <2>1, <2>2, <2>3 DEF Approved, Built
<1> QED
  BY <1>1, InvariantHolds, PTL

\* However the plans of a batch came to be on the stick, one sitting with the key does
\* not sign two transactions that spend the same output.
THEOREM SittingsAreDisjoint == Spec => []SittingIsDisjoint
<1>1. IInv => SittingIsDisjoint
  BY DEF IInv, SittingIsOfFiles
<1> QED
  BY <1>1, InvariantHolds, PTL

-----------------------------------------------------------------------------
(* The operator's fee.                                                      *)

Stages == {"start", "dest", "balance", "send", "count", "swept", "stopped"}

SweepTypes ==
  /\ trusted \in Int /\ immature \in Int /\ owed \in Nat /\ fees \in Int
  /\ sent \in Int /\ counted \in Int /\ lost \in Nat
  /\ at \in [Sweepers -> Stages] /\ calm \in [Sweepers -> BOOLEAN]
  /\ snap \in [Sweepers -> [owed : Nat, accrued : Int, send : BOOLEAN]]

\* What a run that nothing disturbed knows of the wallet at each of its stages.
RunsKnow ==
  \A s \in Sweepers : calm[s] =>
    /\ at[s] \in {"dest", "balance", "send"} => owed <= snap[s].owed
    /\ at[s] = "send" => owed <= Left(snap[s].accrued)
    /\ at[s] = "count" => owed <= trusted + TXFEE

\* What each run has sent and not yet counted.
Uncounted == [s \in Sweepers |-> IF at[s] = "count" THEN snap[s].accrued ELSE 0]
AllUncounted == SumFunctionOnSet(Uncounted, Sweepers)

SendsAreCounted ==
  /\ \A s \in Sweepers : at[s] \in {"send", "count"} => snap[s].accrued > 0
  /\ counted + AllUncounted <= sent
  /\ lost = 0 => counted + AllUncounted = sent

SweepInv == SweepTypes /\ RunsKnow /\ SendsAreCounted

\* What is uncounted is of naturals, and so is their sum.
LEMMA UncountedIs ==
  ASSUME SweepTypes, SendsAreCounted
  PROVE  AllUncounted \in Nat /\ \A s \in Sweepers : Uncounted[s] \in Nat
<1>1. \A s \in Sweepers : Uncounted[s] \in Nat
  BY DEF SweepTypes, SendsAreCounted, Uncounted
<1> QED
  BY <1>1, SumOfNaturals, SweepAssumption DEF AllUncounted

\* Nothing is counted or uncounted by a step that leaves the runs' places.
LEMMA UncountedStays ==
  ASSUME SweepTypes, SendsAreCounted, Uncounted' = Uncounted
  PROVE  AllUncounted' = AllUncounted
BY DEF AllUncounted

\* A run that comes to another place changes the sum by its own term.
LEMMA UncountedMoves ==
  ASSUME SweepTypes, SendsAreCounted, NEW s \in Sweepers, SweepTypes',
         \A t \in Sweepers \ {s} : at'[t] = at[t] /\ snap'[t] = snap[t]
  PROVE  AllUncounted' = AllUncounted + Uncounted'[s] - Uncounted[s]
<1>1. \A t \in Sweepers : Uncounted[t] \in Int
  BY UncountedIs
<1>2. Uncounted'[s] \in Int
  BY DEF SweepTypes, Uncounted
<1>3. \A t \in Sweepers \ {s} : Uncounted'[t] = Uncounted[t]
  BY DEF Uncounted
<1> QED
  BY <1>1, <1>2, <1>3, SumOfChanged, SweepAssumption DEF AllUncounted

LEMMA SweepInvInit == SweepInit => SweepInv
<1> SUFFICES ASSUME SweepInit PROVE SweepInv
  OBVIOUS
<1>1. SweepTypes
  BY DEF SweepInit, SweepTypes, NoSnap, Nobody, Stages
<1>2. RunsKnow
  BY DEF SweepInit, RunsKnow, Nobody
<1>3. \A s \in Sweepers : Uncounted[s] = 0
  BY DEF SweepInit, Uncounted
<1>4. AllUncounted = 0
  BY <1>3, SumOfNothing, SweepAssumption DEF AllUncounted
<1>5. SendsAreCounted
  BY <1>4 DEF SweepInit, SendsAreCounted
<1> QED
  BY <1>1, <1>2, <1>5 DEF SweepInv

\* The pool goes on while the runs stay where they are.
LEMMA PoolKeeps ==
  ASSUME SweepInv, Found \/ Matures \/ Orphaned \/ Pays
  PROVE  SweepInv'
<1> USE SweepAssumption
<1>1. SweepTypes'
  <2>1. CASE Found
    BY <2>1 DEF SweepInv, SweepTypes, Found
  <2>2. CASE Matures
    BY <2>2 DEF SweepInv, SweepTypes, Matures, Nobody
  <2>3. CASE Orphaned
    BY <2>3 DEF SweepInv, SweepTypes, Orphaned
  <2>4. CASE Pays
    BY <2>4 DEF SweepInv, SweepTypes, Pays
  <2> QED
    BY <2>1, <2>2, <2>3, <2>4
<1>2. RunsKnow'
  <2>1. CASE Found
    BY <2>1 DEF SweepInv, SweepTypes, RunsKnow, Found, Left
  <2>2. CASE Matures
    BY <2>2 DEF SweepInv, RunsKnow, Matures, Nobody
  <2>3. CASE Orphaned
    BY <2>3 DEF SweepInv, SweepTypes, RunsKnow, Orphaned, Left
  <2>4. CASE Pays
    BY <2>4 DEF SweepInv, SweepTypes, RunsKnow, Pays, Left
  <2> QED
    BY <2>1, <2>2, <2>3, <2>4
<1>3. /\ at' = at /\ snap' = snap /\ sent' = sent /\ counted' = counted /\ lost' = lost
  BY DEF Found, Matures, Orphaned, Pays
<1>4. SendsAreCounted'
  BY <1>3 DEF SweepInv, SendsAreCounted, AllUncounted, Uncounted
<1> QED
  BY <1>1, <1>2, <1>4 DEF SweepInv

\* The steps of a run that neither sends nor counts.
LEMMA LookKeeps ==
  ASSUME SweepInv, NEW s \in Sweepers,
         \/ \E send \in BOOLEAN : ReadsApi(s, send)
         \/ \E dest \in Dests : ChecksDest(s, dest)
         \/ ReadsBalance(s) \/ Again(s)
  PROVE  SweepInv'
<1> USE SweepAssumption
<1>1. SweepTypes'
  <2>1. CASE \E send \in BOOLEAN : ReadsApi(s, send)
    <3>1. PICK send \in BOOLEAN : ReadsApi(s, send)
      BY <2>1
    <3>2. snap' \in [Sweepers -> [owed : Nat, accrued : Int, send : BOOLEAN]]
      <4>1. [owed |-> owed, accrued |-> fees, send |-> send]
              \in [owed : Nat, accrued : Int, send : BOOLEAN]
        BY DEF SweepInv, SweepTypes
      <4> QED
        BY <3>1, <4>1 DEF SweepInv, SweepTypes, ReadsApi
    <3>3. calm' \in [Sweepers -> BOOLEAN]
      <4>1. calm \in [Sweepers -> BOOLEAN] /\ calm' \in {calm, [calm EXCEPT ![s] = TRUE]}
        BY <3>1 DEF SweepInv, SweepTypes, ReadsApi
      <4> QED
        BY <4>1
    <3>4. at' \in [Sweepers -> Stages]
      BY <3>1 DEF SweepInv, SweepTypes, ReadsApi, NoAnswer, Goes, Stages
    <3>5. lost' \in Nat
      BY <3>1 DEF SweepInv, SweepTypes, ReadsApi, NoAnswer
    <3> QED
      BY <3>1, <3>2, <3>3, <3>4, <3>5 DEF SweepInv, SweepTypes, ReadsApi, wallet
  <2>2. CASE \E dest \in Dests : ChecksDest(s, dest)
    BY <2>2 DEF SweepInv, SweepTypes, ChecksDest, NoAnswer, Goes, Stages, wallet
  <2>3. CASE ReadsBalance(s)
    BY <2>3 DEF SweepInv, SweepTypes, ReadsBalance, NoAnswer, Goes, Stages, wallet
  <2>4. CASE Again(s)
    BY <2>4 DEF SweepInv, SweepTypes, Again, Goes, Stages, wallet, NoSnap
  <2> QED
    BY <2>1, <2>2, <2>3, <2>4
<1>2. RunsKnow'
  <2>1. CASE \E send \in BOOLEAN : ReadsApi(s, send)
    BY <2>1 DEF SweepInv, SweepTypes, RunsKnow, ReadsApi, NoAnswer, Goes, Left, wallet
  <2>2. CASE \E dest \in Dests : ChecksDest(s, dest)
    BY <2>2 DEF SweepInv, SweepTypes, RunsKnow, ChecksDest, NoAnswer, Goes, Left, wallet
  <2>3. CASE ReadsBalance(s)
    BY <2>3 DEF SweepInv, SweepTypes, RunsKnow, ReadsBalance, NoAnswer, Goes, Left, wallet
  <2>4. CASE Again(s)
    BY <2>4 DEF SweepInv, SweepTypes, RunsKnow, Again, Goes, Left, wallet
  <2> QED
    BY <2>1, <2>2, <2>3, <2>4
<1>3. /\ at[s] # "count" /\ at'[s] # "count" /\ sent' = sent /\ counted' = counted
      /\ lost' = lost \/ lost' = lost + 1
      /\ \A t \in Sweepers \ {s} : at'[t] = at[t] /\ snap'[t] = snap[t]
  <2>1. CASE \E send \in BOOLEAN : ReadsApi(s, send)
    BY <2>1 DEF SweepInv, SweepTypes, ReadsApi, NoAnswer, Goes
  <2>2. CASE \E dest \in Dests : ChecksDest(s, dest)
    BY <2>2 DEF SweepInv, SweepTypes, ChecksDest, NoAnswer, Goes
  <2>3. CASE ReadsBalance(s)
    BY <2>3 DEF SweepInv, SweepTypes, ReadsBalance, NoAnswer, Goes
  <2>4. CASE Again(s)
    BY <2>4 DEF SweepInv, SweepTypes, Again, Goes
  <2> QED
    BY <2>1, <2>2, <2>3, <2>4
<1>4. AllUncounted' = AllUncounted
  <2>1. Uncounted[s] = 0 /\ Uncounted'[s] = 0
    BY <1>3 DEF Uncounted
  <2> QED
    BY <1>1, <1>3, <2>1, UncountedMoves, UncountedIs DEF SweepInv
<1>5. \A t \in Sweepers : at'[t] \in {"send", "count"} => snap'[t].accrued > 0
  <2>1. \A t \in Sweepers \ {s} : at'[t] \in {"send", "count"} => snap'[t].accrued > 0
    BY <1>3 DEF SweepInv, SendsAreCounted
  <2>2. at'[s] \in {"send", "count"} => snap'[s].accrued > 0
    <3>1. CASE \E send \in BOOLEAN : ReadsApi(s, send)
      BY <3>1 DEF SweepInv, SweepTypes, ReadsApi, NoAnswer, Goes
    <3>2. CASE \E dest \in Dests : ChecksDest(s, dest)
      BY <3>2 DEF SweepInv, SweepTypes, ChecksDest, NoAnswer, Goes
    <3>3. CASE ReadsBalance(s)
      BY <3>3 DEF SweepInv, SweepTypes, ReadsBalance, NoAnswer, Goes
    <3>4. CASE Again(s)
      BY <3>4 DEF SweepInv, SweepTypes, Again, Goes
    <3> QED
      BY <3>1, <3>2, <3>3, <3>4
  <2> QED
    BY <2>1, <2>2
<1>6. SendsAreCounted'
  BY <1>3, <1>4, <1>5, UncountedIs DEF SweepInv, SweepTypes, SendsAreCounted
<1> QED
  BY <1>1, <1>2, <1>6 DEF SweepInv

\* What leaves is uncounted, until it is counted or its run is lost.
LEMMA SendKeeps ==
  ASSUME SweepInv, NEW s \in Sweepers, Sends(s)
  PROVE  SweepInv'
<1> USE SweepAssumption
<1> DEFINE accrued == snap[s].accrued
<1>0. at[s] = "send" /\ accrued \in Nat /\ accrued > 0
  BY DEF SweepInv, SweepTypes, SendsAreCounted, Sends
<1>1. SweepTypes'
  <2>1. trusted' \in Int /\ sent' \in Int /\ lost' \in Nat
    BY <1>0 DEF SweepInv, SweepTypes, Sends, NoAnswer
  <2>2. at' \in [Sweepers -> Stages]
    BY DEF SweepInv, SweepTypes, Sends, NoAnswer, Goes, Stages
  <2>3. calm' \in [Sweepers -> BOOLEAN]
    BY DEF SweepInv, SweepTypes, Sends
  <2> QED
    BY <2>1, <2>2, <2>3 DEF SweepInv, SweepTypes, Sends
<1>2. RunsKnow'
  <2>1. CASE trusted' = trusted /\ calm' = calm /\ at'[s] = "stopped"
    BY <2>1 DEF SweepInv, SweepTypes, RunsKnow, Sends, NoAnswer, Goes, Left
  <2>2. CASE /\ trusted' = trusted - accrued - TXFEE /\ at'[s] \in {"count", "stopped"}
             /\ calm' = [t \in Sweepers |-> t = s /\ calm[s]]
    <3>1. owed' = owed /\ snap' = snap
      BY DEF Sends
    <3>2. calm[s] => owed <= trusted' + TXFEE
      BY <1>0, <2>2 DEF SweepInv, SweepTypes, RunsKnow, Left
    <3>3. \A t \in Sweepers : calm'[t] => t = s /\ calm[s]
      BY <2>2
    <3> QED
      BY <2>2, <3>1, <3>2, <3>3 DEF RunsKnow
  <2> QED
    BY <2>1, <2>2 DEF Sends, NoAnswer, Goes, SweepInv, SweepTypes
<1>3. /\ snap' = snap /\ counted' = counted
      /\ \A t \in Sweepers \ {s} : at'[t] = at[t]
  BY DEF Sends, NoAnswer, Goes, SweepInv, SweepTypes
<1>4. AllUncounted' = AllUncounted + Uncounted'[s] - Uncounted[s]
  BY <1>1, <1>3, UncountedMoves DEF SweepInv
<1>5. Uncounted[s] = 0 /\ Uncounted'[s] = IF at'[s] = "count" THEN accrued ELSE 0
  BY <1>0, <1>3 DEF Uncounted
<1>6. \/ at'[s] = "count" /\ sent' = sent + accrued /\ lost' = lost
      \/ at'[s] # "count" /\ sent' \in {sent, sent + accrued} /\ lost' = lost + 1
      \/ at'[s] # "count" /\ sent' = sent /\ lost' = lost
  BY DEF Sends, NoAnswer, Goes, SweepInv, SweepTypes
<1>7. counted' + AllUncounted' <= sent' /\ (lost' = 0 => counted' + AllUncounted' = sent')
  BY <1>0, <1>3, <1>4, <1>5, <1>6, UncountedIs DEF SweepInv, SweepTypes, SendsAreCounted
<1>8. \A t \in Sweepers : at'[t] \in {"send", "count"} => snap'[t].accrued > 0
  BY <1>0, <1>3 DEF SweepInv, SendsAreCounted
<1> QED
  BY <1>1, <1>2, <1>7, <1>8 DEF SweepInv, SendsAreCounted

\* A run counts what it has sent and no more.
LEMMA CountKeeps ==
  ASSUME SweepInv, NEW s \in Sweepers, Counts(s)
  PROVE  SweepInv'
<1> USE SweepAssumption
<1> DEFINE accrued == snap[s].accrued
<1>0. at[s] = "count" /\ accrued \in Nat /\ accrued > 0
  BY DEF SweepInv, SweepTypes, SendsAreCounted, Counts
<1>1. SweepTypes'
  BY DEF SweepInv, SweepTypes, Counts, TakenOff, NoAnswer, Goes, Stages, wallet
<1>2. RunsKnow'
  BY DEF SweepInv, SweepTypes, RunsKnow, Counts, NoAnswer, Goes, Left, wallet
<1>3. /\ snap' = snap /\ sent' = sent /\ at'[s] \in {"swept", "stopped"}
      /\ \A t \in Sweepers \ {s} : at'[t] = at[t]
  BY DEF Counts, NoAnswer, Goes, SweepInv, SweepTypes, wallet
<1>4. AllUncounted' = AllUncounted + Uncounted'[s] - Uncounted[s]
  BY <1>1, <1>3, UncountedMoves DEF SweepInv
<1>5. Uncounted[s] = accrued /\ Uncounted'[s] = 0
  BY <1>0, <1>3 DEF Uncounted
<1>6. \/ counted' = counted + accrued /\ lost' \in {lost, lost + 1}
      \/ counted' = counted /\ lost' = lost + 1
  BY DEF Counts, TakenOff, NoAnswer
<1>7. counted' + AllUncounted' <= sent' /\ (lost' = 0 => counted' + AllUncounted' = sent')
  BY <1>0, <1>3, <1>4, <1>5, <1>6, UncountedIs DEF SweepInv, SweepTypes, SendsAreCounted
<1>8. \A t \in Sweepers : at'[t] \in {"send", "count"} => snap'[t].accrued > 0
  BY <1>3 DEF SweepInv, SendsAreCounted
<1> QED
  BY <1>1, <1>2, <1>7, <1>8 DEF SweepInv, SendsAreCounted

LEMMA SweepInvStep == SweepInv /\ [SweepNext]_sweepVars => SweepInv'
<1> SUFFICES ASSUME SweepInv, [SweepNext]_sweepVars PROVE SweepInv'
  OBVIOUS
<1>1. CASE Found \/ Matures \/ Orphaned \/ Pays
  BY <1>1, PoolKeeps
<1>2. ASSUME NEW s \in Sweepers, NEW send \in BOOLEAN, ReadsApi(s, send) PROVE SweepInv'
  BY <1>2, LookKeeps
<1>3. ASSUME NEW s \in Sweepers, NEW dest \in Dests, ChecksDest(s, dest) PROVE SweepInv'
  BY <1>3, LookKeeps
<1>4. ASSUME NEW s \in Sweepers, ReadsBalance(s) \/ Again(s) PROVE SweepInv'
  BY <1>4, LookKeeps
<1>5. ASSUME NEW s \in Sweepers, Sends(s) PROVE SweepInv'
  BY <1>5, SendKeeps
<1>6. ASSUME NEW s \in Sweepers, Counts(s) PROVE SweepInv'
  BY <1>6, CountKeeps
<1>7. CASE UNCHANGED sweepVars
  BY <1>7 DEF sweepVars, SweepInv, SweepTypes, RunsKnow, SendsAreCounted, AllUncounted,
              Uncounted, Left
<1> QED
  BY <1>1, <1>2, <1>3, <1>4, <1>5, <1>6, <1>7 DEF SweepNext

\* sweep_pool_fee.py:30-31: however many sweep and whatever the pool does meanwhile, a
\* sweep that nothing disturbed leaves the wallet able to pay all it owes.
THEOREM FeesAreLast == SweepSpec => []FeeIsPaidLast
<1>1. SweepInv => FeeIsPaidLast
  BY SweepAssumption DEF SweepInv, RunsKnow, SweepTypes, FeeIsPaidLast
<1> QED
  BY <1>1, SweepInvInit, SweepInvStep, PTL DEF SweepSpec

\* sweep_pool_fee.py:36-37: the counter follows the coins, for any number of runs.
THEOREM CountersFollow == SweepSpec => []CounterFollowsCoin
<1>1. SweepInv => CounterFollowsCoin
  <2> SUFFICES ASSUME SweepInv PROVE CounterFollowsCoin
    OBVIOUS
  <2>1. counted <= sent
    BY UncountedIs DEF SweepInv, SweepTypes, SendsAreCounted
  <2>2. ASSUME lost = 0, \A s \in Sweepers : at[s] # "count" PROVE counted = sent
    <3>1. AllUncounted = 0
      BY <2>2, SumOfNothing, SweepAssumption DEF AllUncounted, Uncounted
    <3> QED
      BY <2>2, <3>1 DEF SweepInv, SweepTypes, SendsAreCounted
  <2> QED
    BY <2>1, <2>2 DEF CounterFollowsCoin
<1> QED
  BY <1>1, SweepInvInit, SweepInvStep, PTL DEF SweepSpec

\* Both, of every state of a pool that is swept.
THEOREM FeesGoLast == SweepSpec => []FeeGoesLast
BY FeesAreLast, CountersFollow, PTL DEF FeeGoesLast

-----------------------------------------------------------------------------
(* make_checkpoint.py.                                                      *)

ChainsOk ==
  /\ active \in [Nodes -> Seq(Branches)] /\ lowest \in [Nodes -> Nat]
  /\ \A n \in Nodes : lowest[n] <= Len(active[n])

\* The first `count` hosts of the list have answered.
HaveAnswered(count, answers) == \A i \in 1 .. count : hosts[i] \in DOMAIN answers

AnswersOk ==
  /\ hosts \in Seq(Nodes) /\ next \in Nat \ {0} /\ height \in Nat
  /\ DOMAIN tips \subseteq Nodes /\ DOMAIN hashes \subseteq Nodes
  /\ \A n \in DOMAIN tips : tips[n] \in Nat
  /\ IsFiniteSet(Range(hashes))
  /\ stage \in {"tips", "hashes", "confirm"}
  /\ rc = 0 => stage = "confirm"

\* A height is frozen that every host has buried, and a hash it told is of its
\* chain for as long as the chain was not reorganised below that height.
StageOk ==
  /\ stage = "tips" =>
       hashes = None /\ HaveAnswered(next - 1, tips) /\ next <= Len(hosts) + 1
  /\ stage # "tips" =>
       /\ hosts # <<>> /\ HaveAnswered(Len(hosts), tips)
       /\ \A n \in DOMAIN tips : tips[n] - height >= Bury
       /\ \A n \in DOMAIN hashes :
            lowest[n] >= height => hashes[n] = SubSeq(active[n], 1, height)
  /\ stage = "hashes" => HaveAnswered(next - 1, hashes) /\ next <= Len(hosts) + 1
  /\ stage = "confirm" =>
       /\ HaveAnswered(Len(hosts), hashes)
       /\ \A n, m \in DOMAIN hashes : hashes[n] = hashes[m]

CheckpointInv == ChainsOk /\ AnswersOk /\ StageOk


\* The first blocks of a chain that grows at its end are what they were.
LEMMA SameStart ==
  ASSUME NEW S, NEW s \in Seq(S), NEW t \in Seq(S), NEW h \in Nat,
         h <= Len(s), h <= Len(t), \A i \in 1 .. h : s[i] = t[i]
  PROVE  SubSeq(s, 1, h) = SubSeq(t, 1, h)
<1>1. /\ SubSeq(s, 1, h) \in Seq(S) /\ Len(SubSeq(s, 1, h)) = h
      /\ \A i \in 1 .. h : SubSeq(s, 1, h)[i] = s[i]
  BY SubSeqProperties
<1>2. /\ SubSeq(t, 1, h) \in Seq(S) /\ Len(SubSeq(t, 1, h)) = h
      /\ \A i \in 1 .. h : SubSeq(t, 1, h)[i] = t[i]
  BY SubSeqProperties
<1> QED
  BY <1>1, <1>2, SeqEqual

\* The smaller of two numbers, and the least of some.
LEMMA MinOfTwo ==
  ASSUME NEW a \in Nat, NEW b \in Nat
  PROVE  Min({a, b}) \in Nat /\ Min({a, b}) <= a /\ Min({a, b}) <= b
<1>1. PICK x \in {a, b} : \A y \in {a, b} : x <= y
  OBVIOUS
<1> QED
  BY <1>1 DEF Min

LEMMA MinIsNat ==
  ASSUME NEW T, T \subseteq Nat, T # {}
  PROVE  Min(T) \in Nat
BY HasLeast DEF Min

LEMMA CheckpointInvInit == CheckpointInit => CheckpointInv
<1> SUFFICES ASSUME CheckpointInit PROVE CheckpointInv
  OBVIOUS
<1>1. ChainsOk
  <2>1. \A b \in Branches : <<b>> \in Seq(Branches) /\ Len(<<b>>) = 1
    OBVIOUS
  <2>2. active \in [Nodes -> Seq(Branches)]
    BY <2>1 DEF CheckpointInit
  <2>3. \A n \in Nodes : active[n] \in {<<b>> : b \in Branches}
    BY DEF CheckpointInit
  <2>4. \A n \in Nodes : Len(active[n]) = 1
    BY <2>1, <2>3
  <2> QED
    BY <2>2, <2>4 DEF CheckpointInit, ChainsOk
<1>2. AnswersOk
  <2>1. Range(hashes) = {} /\ DOMAIN tips = {} /\ DOMAIN hashes = {}
    BY DEF CheckpointInit, None, Range
  <2> QED
    BY <2>1, FS_EmptySet DEF CheckpointInit, AnswersOk, Running
<1>3. StageOk
  BY DEF CheckpointInit, StageOk, HaveAnswered
<1> QED
  BY <1>1, <1>2, <1>3 DEF CheckpointInv

\* A block more, on the same chain or on another.
LEMMA ChainStep ==
  ASSUME CheckpointInv, NEW n \in Nodes, NEW b \in Branches,
         Extends(n, b) \/ \E kept \in 0 .. (Len(active[n]) - 1) : Reorganises(n, kept, b)
  PROVE  CheckpointInv'
<1>1. UNCHANGED <<hosts, height, next, stage, tips, hashes, rc>>
  BY DEF Extends, Reorganises
<1>2. PICK longer \in Seq(Branches), low \in Nat :
        /\ active' = [active EXCEPT ![n] = longer] /\ lowest' = [lowest EXCEPT ![n] = low]
        /\ low <= Len(longer) /\ low <= lowest[n]
        /\ \A i \in 1 .. low : longer[i] = active[n][i]
  <2>1. active[n] \in Seq(Branches) /\ lowest[n] \in Nat /\ lowest[n] <= Len(active[n])
    BY DEF CheckpointInv, ChainsOk
  <2>2. CASE Extends(n, b)
    <3>1. /\ Append(active[n], b) \in Seq(Branches)
          /\ Len(Append(active[n], b)) = Len(active[n]) + 1
          /\ \A i \in 1 .. Len(active[n]) : Append(active[n], b)[i] = active[n][i]
      BY <2>1, AppendProperties
    <3>2. active' = [active EXCEPT ![n] = Append(active[n], b)] /\ lowest' = lowest
      BY <2>2 DEF Extends
    <3>3. lowest = [lowest EXCEPT ![n] = lowest[n]]
      BY DEF CheckpointInv, ChainsOk
    <3> HIDE DEF CheckpointInv
    <3> DEFINE longer == Append(active[n], b)
    <3> HIDE DEF longer
    <3>4. /\ longer \in Seq(Branches) /\ lowest[n] <= Len(longer)
          /\ \A i \in 1 .. lowest[n] : longer[i] = active[n][i]
          /\ lowest[n] <= lowest[n]
      BY <2>1, <3>1 DEF longer
    <3>5. active' = [active EXCEPT ![n] = longer] /\ lowest' = [lowest EXCEPT ![n] = lowest[n]]
      BY <3>2, <3>3 DEF longer
    <3> QED
      BY <2>1, <3>4, <3>5, Zenon
  <2>3. CASE \E kept \in 0 .. (Len(active[n]) - 1) : Reorganises(n, kept, b)
    <3>1. PICK kept \in 0 .. (Len(active[n]) - 1) : Reorganises(n, kept, b)
      BY <2>3
    <3> DEFINE start == SubSeq(active[n], 1, kept)
               more == [i \in 1 .. (Len(active[n]) - kept + 1) |-> b]
    <3>2. /\ active' = [active EXCEPT ![n] = start \o more]
          /\ lowest' = [lowest EXCEPT ![n] = Min({lowest[n], kept})]
      BY <3>1 DEF Reorganises
    <3>3. kept \in Nat /\ Min({lowest[n], kept}) \in Nat
          /\ Min({lowest[n], kept}) <= lowest[n] /\ Min({lowest[n], kept}) <= kept
      BY <2>1, MinOfTwo, SMTT(60)
    <3>4. /\ start \in Seq(Branches) /\ Len(start) = kept
          /\ \A i \in 1 .. kept : start[i] = active[n][i]
      BY <2>1, <3>3, SubSeqProperties
    <3>5. more \in Seq(Branches)
      BY <2>1
    <3>10. Len(more) \in Nat
      BY <3>5
    <3> HIDE DEF start, more
    <3>6. /\ start \o more \in Seq(Branches) /\ Len(start \o more) = kept + Len(more)
          /\ Len(more) \in Nat
          /\ \A i \in 1 .. kept + Len(more) :
               (start \o more)[i] = IF i <= kept THEN start[i] ELSE more[i - kept]
      BY <3>4, <3>5, <3>10, ConcatProperties
    <3>7. \A i \in 1 .. kept : (start \o more)[i] = active[n][i]
      BY <3>3, <3>4, <3>6
    <3> DEFINE low == Min({lowest[n], kept})
    <3> HIDE DEF low
    <3>8. /\ low \in Nat /\ low <= lowest[n] /\ low <= kept
          /\ lowest' = [lowest EXCEPT ![n] = low]
      BY <3>2, <3>3 DEF low
    <3>9. low <= Len(start \o more) /\ \A i \in 1 .. low : (start \o more)[i] = active[n][i]
      BY <3>3, <3>6, <3>7, <3>8
    <3> QED
      BY <3>2, <3>6, <3>8, <3>9
  <2> QED
    BY <2>2, <2>3
<1>3. /\ active[n] \in Seq(Branches) /\ lowest[n] \in Nat /\ lowest[n] <= Len(active[n])
      /\ \A m \in Nodes : m # n => active'[m] = active[m] /\ lowest'[m] = lowest[m]
      /\ active'[n] = longer /\ lowest'[n] = low
  BY <1>2 DEF CheckpointInv, ChainsOk
<1>4. ChainsOk'
  BY <1>2, <1>3 DEF CheckpointInv, ChainsOk
<1>5. AnswersOk'
  BY <1>1 DEF CheckpointInv, AnswersOk
<1>6. ASSUME stage # "tips", NEW m \in DOMAIN hashes, lowest'[m] >= height
      PROVE  hashes[m] = SubSeq(active'[m], 1, height)
  <2>1. m \in Nodes /\ height \in Nat
    BY DEF CheckpointInv, AnswersOk
  <2>2. CASE m # n
    BY <1>3, <1>6, <2>1, <2>2 DEF CheckpointInv, StageOk
  <2>3. CASE m = n
    <3>1. height <= low /\ height <= lowest[n]
      BY <1>2, <1>3, <1>6, <2>1, <2>3
    <3>2. hashes[n] = SubSeq(active[n], 1, height)
      BY <1>3, <1>6, <2>1, <2>3, <3>1 DEF CheckpointInv, StageOk
    <3>3. /\ height <= Len(active[n]) /\ height <= Len(longer)
          /\ \A i \in 1 .. height : active[n][i] = longer[i]
      BY <1>2, <1>3, <2>1, <3>1
    <3>4. SubSeq(active[n], 1, height) = SubSeq(longer, 1, height)
      BY <1>3, <2>1, <3>3, SameStart
    <3> QED
      BY <1>3, <2>3, <3>2, <3>4
  <2> QED
    BY <2>2, <2>3
<1>7. StageOk'
  BY <1>1, <1>6 DEF CheckpointInv, StageOk, HaveAnswered
<1> QED
  BY <1>4, <1>5, <1>7 DEF CheckpointInv

LEMMA BeginsKeeps ==
  ASSUME CheckpointInv, NEW list \in Lists, NEW h \in 0 .. MaxHeight, Begins(list, h)
  PROVE  CheckpointInv'
<1>1. /\ hosts = <<>> /\ hosts' = list /\ height' = h /\ rc = Running /\ rc' \in {2, Running}
      /\ UNCHANGED <<active, lowest, next, stage, tips, hashes>>
  BY DEF Begins, nodes
<1>2. list \in Seq(Nodes) /\ h \in Nat
  BY CheckpointAssumption
<1>3. ChainsOk'
  BY <1>1 DEF CheckpointInv, ChainsOk
<1>4. AnswersOk'
  BY <1>1, <1>2 DEF CheckpointInv, AnswersOk, Running
<1>5. CASE stage = "tips"
  <2>1. next = 1 /\ hashes = None
    BY <1>1, <1>5 DEF CheckpointInv, StageOk, AnswersOk
  <2>2. Len(list) \in Nat
    BY <1>2
  <2> QED
    BY <1>1, <1>3, <1>4, <1>5, <2>1, <2>2 DEF CheckpointInv, StageOk, HaveAnswered
<1>6. stage = "tips"
  BY <1>1 DEF CheckpointInv, StageOk
<1> QED
  BY <1>5, <1>6

LEMMA AsksTipKeeps ==
  ASSUME CheckpointInv, AsksTip
  PROVE  CheckpointInv'
<1> DEFINE n == hosts[next]
<1>1. /\ rc = Running /\ stage = "tips" /\ next <= Len(hosts)
      /\ UNCHANGED <<active, hosts, height, stage, hashes>>
      /\ \/ /\ tips' = Answered(tips, n, Len(active[n])) /\ next' = next + 1
            /\ lowest' = [lowest EXCEPT ![n] = Len(active[n])] /\ rc' = rc
         \/ rc' = 1 /\ UNCHANGED <<tips, next, lowest>>
  BY DEF AsksTip
<1>2. /\ n \in Nodes /\ next \in Nat \ {0} /\ hosts \in Seq(Nodes) /\ Len(hosts) \in Nat
      /\ Len(active[n]) \in Nat /\ hashes = None /\ HaveAnswered(next - 1, tips)
  BY <1>1 DEF CheckpointInv, StageOk, AnswersOk, ChainsOk
<1> HIDE DEF n
<1>3. ChainsOk'
  <2>1. CASE lowest' = lowest
    BY <1>1, <2>1 DEF CheckpointInv, ChainsOk
  <2>2. CASE lowest' = [lowest EXCEPT ![n] = Len(active[n])]
    <3>1. \A m \in Nodes : lowest'[m] = IF m = n THEN Len(active[n]) ELSE lowest[m]
      BY <2>2 DEF CheckpointInv, ChainsOk
    <3>2. lowest' \in [Nodes -> Nat]
      BY <1>2, <2>2 DEF CheckpointInv, ChainsOk
    <3>3. \A m \in Nodes : lowest'[m] <= Len(active[m])
      <4> SUFFICES ASSUME NEW m \in Nodes PROVE lowest'[m] <= Len(active[m])
        OBVIOUS
      <4>1. CASE m = n
        BY <1>2, <3>1, <4>1
      <4>2. CASE m # n
        BY <3>1, <4>2 DEF CheckpointInv, ChainsOk
      <4> QED
        BY <4>1, <4>2
    <3> QED
      BY <1>1, <3>2, <3>3 DEF CheckpointInv, ChainsOk
  <2> QED
    BY <1>1, <2>1, <2>2
<1>4. CASE rc' = 1
  <2>1. UNCHANGED <<tips, next, lowest>>
    BY <1>1, <1>4 DEF Running
  <2>2. AnswersOk'
    BY <1>1, <1>4, <2>1 DEF CheckpointInv, AnswersOk
  <2>3. StageOk'
    BY <1>1, <2>1 DEF CheckpointInv, StageOk, HaveAnswered
  <2> QED
    BY <1>3, <2>2, <2>3 DEF CheckpointInv
<1>5. CASE rc' # 1
  <2>1. tips' = Answered(tips, n, Len(active[n])) /\ next' = next + 1 /\ rc' = rc
    BY <1>1, <1>5
  <2>2. DOMAIN tips' = DOMAIN tips \cup {n} /\ \A m \in DOMAIN tips' : tips'[m] \in Nat
    BY <1>2, <2>1 DEF Answered, CheckpointInv, AnswersOk
  <2>3. AnswersOk'
    BY <1>1, <1>2, <2>1, <2>2 DEF CheckpointInv, AnswersOk
  <2>4. \A i \in 1 .. next : hosts[i] \in DOMAIN tips'
    <3> SUFFICES ASSUME NEW i \in 1 .. next PROVE hosts[i] \in DOMAIN tips'
      OBVIOUS
    <3>1. CASE i = next
      BY <2>2, <3>1 DEF n
    <3>2. CASE i # next
      <4>1. i \in 1 .. next - 1
        BY <1>2, <3>2
      <4> QED
        BY <1>2, <2>2, <4>1 DEF HaveAnswered
    <3> QED
      BY <3>1, <3>2
  <2>5. StageOk'
    <3>1. next' - 1 = next /\ next' <= Len(hosts') + 1
      BY <1>1, <1>2, <2>1
    <3> QED
      BY <1>1, <1>2, <2>4, <3>1 DEF StageOk, HaveAnswered
  <2> QED
    BY <1>3, <2>3, <2>5 DEF CheckpointInv
<1> QED
  BY <1>4, <1>5

LEMMA SettlesKeeps ==
  ASSUME CheckpointInv, Settles
  PROVE  CheckpointInv'
<1>1. /\ rc = Running /\ hosts # <<>> /\ stage = "tips" /\ next > Len(hosts)
      /\ UNCHANGED <<active, lowest, hosts, tips, hashes>>
      /\ \/ rc' = 1 /\ UNCHANGED <<height, next, stage>>
         \/ /\ ~(Height < 1) /\ Buried(Height) /\ height' = Height /\ next' = 1
            /\ stage' = "hashes" /\ rc' = rc
  BY DEF Settles, nodes
<1>2. ChainsOk'
  BY <1>1 DEF CheckpointInv, ChainsOk
<1>3. /\ hosts \in Seq(Nodes) /\ Len(hosts) \in Nat \ {0} /\ next = Len(hosts) + 1
      /\ hashes = None /\ HaveAnswered(Len(hosts), tips) /\ height \in Nat
      /\ \A n \in DOMAIN tips : tips[n] \in Nat
  BY <1>1 DEF CheckpointInv, StageOk, AnswersOk
<1>4. CASE rc' = 1
  <2>1. UNCHANGED <<height, next, stage>>
    BY <1>1, <1>4 DEF Running
  <2>2. AnswersOk'
    BY <1>1, <1>4, <2>1 DEF CheckpointInv, AnswersOk
  <2>3. StageOk'
    BY <1>1, <2>1 DEF CheckpointInv, StageOk, HaveAnswered
  <2> QED
    BY <1>2, <2>2, <2>3 DEF CheckpointInv
<1>5. CASE rc' # 1
  <2>1. /\ ~(Height < 1) /\ Buried(Height) /\ height' = Height /\ next' = 1
        /\ stage' = "hashes" /\ rc' = rc
    BY <1>1, <1>5
  <2>2. Height \in Int
    <3>1. Range(tips) \subseteq Nat
      BY <1>3 DEF Range
    <3>2. Range(tips) # {}
      <4>1. hosts[1] \in DOMAIN tips
        BY <1>3 DEF HaveAnswered
      <4> QED
        BY <4>1 DEF Range
    <3> QED
      BY <1>3, <3>1, <3>2, MinIsNat, CheckpointAssumption DEF Height
  <2>3. height' \in Nat /\ \A n \in DOMAIN tips' : tips'[n] - height' >= Bury
    BY <1>1, <2>1, <2>2 DEF Buried
  <2>4. AnswersOk'
    BY <1>1, <2>1, <2>3 DEF CheckpointInv, AnswersOk, Running
  <2>5. DOMAIN hashes' = {}
    BY <1>1, <1>3 DEF None
  <2>6. StageOk'
    BY <1>1, <1>3, <2>1, <2>3, <2>5 DEF StageOk, HaveAnswered
  <2> QED
    BY <1>2, <2>4, <2>6 DEF CheckpointInv
<1> QED
  BY <1>4, <1>5

LEMMA AsksHashKeeps ==
  ASSUME CheckpointInv, AsksHash
  PROVE  CheckpointInv'
<1> DEFINE n == hosts[next]
           hash == SubSeq(active[n], 1, height)
<1>1. /\ rc = Running /\ stage = "hashes" /\ next <= Len(hosts)
      /\ UNCHANGED <<active, lowest, hosts, height, stage, tips>>
      /\ \/ hashes' = Answered(hashes, n, hash) /\ next' = next + 1 /\ rc' = rc
         \/ rc' = 1 /\ UNCHANGED <<hashes, next>>
  BY DEF AsksHash, nodes
<1>2. /\ n \in Nodes /\ next \in Nat \ {0} /\ hosts \in Seq(Nodes) /\ Len(hosts) \in Nat
      /\ HaveAnswered(next - 1, hashes)
  BY <1>1 DEF CheckpointInv, StageOk, AnswersOk
<1>3. ChainsOk'
  BY <1>1 DEF CheckpointInv, ChainsOk
<1>4. CASE rc' = 1
  <2>1. UNCHANGED <<hashes, next>>
    BY <1>1, <1>4 DEF Running
  <2>2. AnswersOk'
    BY <1>1, <1>4, <2>1 DEF CheckpointInv, AnswersOk
  <2>3. StageOk'
    BY <1>1, <2>1 DEF CheckpointInv, StageOk, HaveAnswered
  <2> QED
    BY <1>3, <2>2, <2>3 DEF CheckpointInv
<1>5. CASE rc' # 1
  <2>1. hashes' = Answered(hashes, n, hash) /\ next' = next + 1 /\ rc' = rc
    BY <1>1, <1>5
  <2> HIDE DEF n
  <2>2. /\ DOMAIN hashes' = DOMAIN hashes \cup {n} /\ hashes'[n] = hash
        /\ \A m \in DOMAIN hashes : m # n => hashes'[m] = hashes[m]
    <3> HIDE DEF hash
    <3> QED
      BY <2>1 DEF Answered
  <2>3. IsFiniteSet(Range(hashes'))
    <3>1. IsFiniteSet(Range(hashes) \cup {hash})
      BY FS_AddElement DEF CheckpointInv, AnswersOk
    <3>2. Range(hashes') \subseteq Range(hashes) \cup {hash}
      <4> HIDE DEF hash
      <4> QED
        BY <2>2 DEF Range
    <3> QED
      BY <3>1, <3>2, FS_Subset
  <2>4. AnswersOk'
    BY <1>1, <1>2, <2>1, <2>2, <2>3 DEF CheckpointInv, AnswersOk
  <2>5. \A i \in 1 .. next : hosts[i] \in DOMAIN hashes'
    <3> SUFFICES ASSUME NEW i \in 1 .. next PROVE hosts[i] \in DOMAIN hashes'
      OBVIOUS
    <3>1. CASE i = next
      BY <2>2, <3>1 DEF n
    <3>2. CASE i # next
      <4>1. i \in 1 .. next - 1
        BY <1>2, <3>2
      <4> QED
        BY <1>2, <2>2, <4>1 DEF HaveAnswered
    <3> QED
      BY <3>1, <3>2
  <2>6. ASSUME NEW m \in DOMAIN hashes', lowest[m] >= height
        PROVE  hashes'[m] = SubSeq(active[m], 1, height)
    <3>1. CASE m = n
      BY <2>2, <3>1
    <3>2. CASE m # n
      BY <1>1, <2>2, <2>6, <3>2 DEF CheckpointInv, StageOk
    <3> QED
      BY <3>1, <3>2
  <2>7. next' - 1 = next /\ next' <= Len(hosts') + 1
    BY <1>1, <1>2, <2>1
  <2>8. StageOk'
    BY <1>1, <2>5, <2>6, <2>7 DEF CheckpointInv, StageOk, HaveAnswered
  <2> QED
    BY <1>3, <2>4, <2>8 DEF CheckpointInv
<1> QED
  BY <1>4, <1>5

LEMMA AgreesKeeps ==
  ASSUME CheckpointInv, Agrees
  PROVE  CheckpointInv'
<1>1. /\ rc = Running /\ stage = "hashes" /\ next > Len(hosts)
      /\ UNCHANGED <<active, lowest, hosts, height, next, tips, hashes>>
      /\ \/ rc' = 1 /\ stage' = stage
         \/ Cardinality(Range(hashes)) = 1 /\ stage' = "confirm" /\ rc' = rc
  BY DEF Agrees, nodes
<1>2. ChainsOk'
  BY <1>1 DEF CheckpointInv, ChainsOk
<1>3. AnswersOk'
  BY <1>1 DEF CheckpointInv, AnswersOk, Running
<1>4. CASE stage' = stage
  BY <1>1, <1>2, <1>3, <1>4 DEF CheckpointInv, StageOk, HaveAnswered
<1>5. CASE stage' = "confirm" /\ Cardinality(Range(hashes)) = 1
  <2>1. PICK only : Range(hashes) = {only}
    BY <1>5, FS_Singleton DEF CheckpointInv, AnswersOk
  <2>2. \A n, m \in DOMAIN hashes : hashes[n] = hashes[m]
    BY <2>1 DEF Range
  <2>3. next = Len(hosts) + 1 /\ next - 1 = Len(hosts)
    BY <1>1 DEF CheckpointInv, StageOk, AnswersOk
  <2>4. StageOk'
    BY <1>1, <1>5, <2>2, <2>3 DEF CheckpointInv, StageOk, HaveAnswered
  <2> QED
    BY <1>2, <1>3, <2>4 DEF CheckpointInv
<1> QED
  BY <1>1, <1>4, <1>5

LEMMA ConfirmsKeeps ==
  ASSUME CheckpointInv, Confirms
  PROVE  CheckpointInv'
<1>1. /\ stage = "confirm" /\ rc' \in {0, 1}
      /\ UNCHANGED <<active, lowest, hosts, height, next, stage, tips, hashes>>
  BY DEF Confirms, nodes
<1>2. ChainsOk'
  BY <1>1 DEF CheckpointInv, ChainsOk
<1>3. AnswersOk'
  BY <1>1 DEF CheckpointInv, AnswersOk
<1>4. StageOk'
  BY <1>1 DEF CheckpointInv, StageOk, HaveAnswered
<1> QED
  BY <1>2, <1>3, <1>4 DEF CheckpointInv

LEMMA CheckpointInvStep == CheckpointInv /\ [CheckpointNext]_checkpointVars => CheckpointInv'
<1> SUFFICES ASSUME CheckpointInv, [CheckpointNext]_checkpointVars PROVE CheckpointInv'
  OBVIOUS
<1>1. CASE UNCHANGED checkpointVars
  BY <1>1 DEF checkpointVars, CheckpointInv, ChainsOk, AnswersOk, StageOk, HaveAnswered
<1> QED
  BY <1>1, ChainStep, BeginsKeeps, AsksTipKeeps, SettlesKeeps, AsksHashKeeps, AgreesKeeps,
     ConfirmsKeeps DEF CheckpointNext

LEMMA CheckpointInvShared == CheckpointInv => CheckpointIsShared
<1> SUFFICES ASSUME CheckpointInv, rc = 0, NEW n \in Range(hosts), lowest[n] > tips[n] - Bury,
                    NEW m \in Range(hosts)
             PROVE  SubSeq(active[n], 1, height) = hashes[m]
  BY DEF CheckpointIsShared
<1>1. /\ stage = "confirm" /\ hosts \in Seq(Nodes) /\ height \in Nat
      /\ HaveAnswered(Len(hosts), tips) /\ HaveAnswered(Len(hosts), hashes)
  BY DEF CheckpointInv, StageOk, AnswersOk
<1>2. n \in DOMAIN tips /\ n \in DOMAIN hashes /\ m \in DOMAIN hashes /\ n \in Nodes
  BY <1>1 DEF Range, HaveAnswered
<1>3. hashes[n] = hashes[m] /\ tips[n] - height >= Bury /\ tips[n] \in Nat /\ lowest[n] \in Nat
  BY <1>1, <1>2 DEF CheckpointInv, StageOk, AnswersOk, ChainsOk
<1>4. lowest[n] >= height
  BY <1>1, <1>3, CheckpointAssumption
<1> QED
  BY <1>1, <1>2, <1>3, <1>4 DEF CheckpointInv, StageOk

\* A checkpoint that was printed is on the chain of every host that was asked, as long
\* as none was reorganised below --bury of the tip it told, whatever moved meanwhile.
THEOREM CheckpointsAreShared == CheckpointSpec => []CheckpointIsShared
BY CheckpointInvInit, CheckpointInvStep, CheckpointInvShared, PTL DEF CheckpointSpec

-----------------------------------------------------------------------------
(* genesis/genesis_generator.py.                                            *)

\* How many threads there are.
N == Cardinality(Threads)

LEMMA ThreadsAre == N \in Nat \ {0} /\ Threads = 0 .. N - 1
<1>1. IsFiniteSet(Threads) /\ Threads # {} /\ Threads = 0 .. N - 1
  BY GenesisAssumption DEF N
<1>2. N \in Nat
  BY <1>1, FS_CardinalityType DEF N
<1>3. N # 0
  BY <1>1, FS_EmptySet DEF N
<1> QED
  BY <1>1, <1>2, <1>3

\* The nonces of a thread.
Of(t, m) == \E k \in Nat : m = t + k * N

LEMMA StridesApart ==
  ASSUME NEW t \in Threads, NEW u \in Threads, NEW m \in Nat, Of(t, m), Of(u, m)
  PROVE  t = u
<1>1. PICK k \in Nat : m = t + k * N
  BY DEF Of
<1>2. PICK j \in Nat : m = u + j * N
  BY DEF Of
<1>3. N \in Nat \ {0} /\ t \in 0 .. N - 1 /\ u \in 0 .. N - 1
  BY ThreadsAre
<1>4. \A x, y \in Nat : x > y => x * N >= y * N + N
  <2> SUFFICES ASSUME NEW x \in Nat, NEW y \in Nat, x > y PROVE x * N >= y * N + N
    OBVIOUS
  <2>1. PICK d \in Nat : x = y + 1 + d
    BY SMT
  <2>2. x * N = y * N + N + d * N /\ d * N >= 0
    BY <1>3, <2>1
  <2> QED
    BY <1>3, <2>2
<1>5. k * N \in Nat /\ j * N \in Nat
  BY <1>3
<1>6. ~(k > j) /\ ~(j > k)
  BY <1>1, <1>2, <1>3, <1>4, <1>5
<1>7. k = j
  BY <1>6
<1> QED
  BY <1>1, <1>2, <1>3, <1>5, <1>7

LEMMA EveryNonceIsOf ==
  ASSUME NEW m \in Nat
  PROVE  \E t \in Threads : Of(t, m)
<1>1. N \in Nat \ {0}
  BY ThreadsAre
<1> DEFINE k == m \div N
           t == m - k * N
<1>2. k \in Nat /\ k * N \in Nat /\ k * N <= m /\ m < k * N + N
  BY <1>1, DivIs
<1> HIDE DEF k
<1>3. t \in 0 .. N - 1 /\ m = t + k * N
  BY <1>1, <1>2
<1> QED
  BY <1>2, <1>3, ThreadsAre DEF Of

\* A thread's nonces below its next are those it has had, and they lie a stride apart.
LEMMA StrideIs ==
  ASSUME NEW t \in Threads, NEW m \in Nat, Of(t, m)
  PROVE  /\ m + N \in Nat /\ Of(t, m + N)
         /\ \A b \in Nat : Of(t, b) /\ b < m + N => b < m \/ b = m
<1>1. PICK k \in Nat : m = t + k * N
  BY DEF Of
<1>2. N \in Nat \ {0} /\ t \in 0 .. N - 1
  BY ThreadsAre
<1>3. m + N = t + (k + 1) * N
  BY <1>1, <1>2
<1>4. ASSUME NEW b \in Nat, Of(t, b), b < m + N, ~(b < m) PROVE b = m
  <2>1. PICK j \in Nat : b = t + j * N
    BY <1>4 DEF Of
  <2>2. j * N < k * N + N /\ j * N >= k * N /\ j * N \in Nat /\ k * N \in Nat
    BY <1>1, <1>2, <1>4, <2>1
  <2>3. ~(j > k)
    <3> SUFFICES ASSUME j > k PROVE FALSE
      OBVIOUS
    <3>1. PICK d \in Nat : j = k + 1 + d
      BY SMT
    <3>2. j * N = k * N + N + d * N /\ d * N >= 0
      BY <1>2, <3>1
    <3> QED
      BY <1>2, <2>2, <3>2
  <2>4. ~(k > j)
    <3> SUFFICES ASSUME k > j PROVE FALSE
      OBVIOUS
    <3>1. PICK d \in Nat : k = j + 1 + d
      BY SMT
    <3>2. k * N = j * N + N + d * N /\ d * N >= 0
      BY <1>2, <3>1
    <3> QED
      BY <1>2, <2>2, <3>2
  <2> QED
    BY <1>1, <2>1, <2>3, <2>4
<1> QED
  BY <1>2, <1>3, <1>4 DEF Of

\* The parts of the dataset that the threads fill are all of it, and are apart.
LEMMA PartsAreApart ==
  ASSUME NEW t \in Threads, NEW u \in Threads, t # u
  PROVE  Part(t) \cap Part(u) = {}
<1> DEFINE per == Items \div N
<1>1. N \in Nat \ {0} /\ t \in 0 .. N - 1 /\ u \in 0 .. N - 1 /\ Items \in Nat
  BY ThreadsAre, GenesisAssumption
<1>2. per \in Nat
  BY <1>1
<1> HIDE DEF per
<1>3. \A x \in Threads : Part(x) = (x * per) .. (IF x = N - 1 THEN Items ELSE (x + 1) * per) - 1
  BY Zenon DEF Part, per, N
<1>4. ASSUME NEW x \in 0 .. N - 1, NEW y \in 0 .. N - 1, x < y
      PROVE  Part(x) \cap Part(y) = {}
  <2>1. x # N - 1 /\ x + 1 <= y /\ x \in Threads /\ y \in Threads
    BY <1>1, <1>4, ThreadsAre
  <2>2. PICK d \in Nat : y = x + 1 + d
    BY <1>4, <2>1
  <2>3. y * per = (x + 1) * per + d * per /\ d * per \in Nat /\ (x + 1) * per \in Nat
    BY <1>2, <1>4, <2>2
  <2>4. Part(x) = (x * per) .. (x + 1) * per - 1
    BY <1>3, <2>1
  <2>5. \A z \in Part(y) : z >= y * per
    BY <1>2, <1>3, <2>1, <1>1, <2>3
  <2> QED
    BY <1>2, <2>3, <2>4, <2>5
<1> QED
  BY <1>1, <1>4

LEMMA PartsAreAll == UNION {Part(t) : t \in Threads} = 0 .. Items - 1
<1> DEFINE per == Items \div N
<1>1. N \in Nat \ {0} /\ Items \in Nat
  BY ThreadsAre, GenesisAssumption
<1>2. per \in Nat /\ N * per <= Items
  BY <1>1
<1> HIDE DEF per
<1>3. \A x \in Threads : Part(x) = (x * per) .. (IF x = N - 1 THEN Items ELSE (x + 1) * per) - 1
  BY Zenon DEF Part, per, N
<1>4. ASSUME NEW x \in Threads PROVE Part(x) \subseteq 0 .. Items - 1
  <2>1. x \in 0 .. N - 1
    BY ThreadsAre
  <2>2. PICK d \in Nat : N = x + 1 + d
    BY <1>1, <2>1
  <2>3. N * per = (x + 1) * per + d * per /\ d * per \in Nat /\ (x + 1) * per \in Nat
    BY <1>2, <2>1, <2>2
  <2>4. x * per \in Nat
    BY <1>2, <2>1
  <2>5. (x + 1) * per <= Items
    BY <1>1, <1>2, <2>3
  <2> QED
    BY <1>1, <1>3, <2>3, <2>4, <2>5
<1>5. ASSUME NEW z \in 0 .. Items - 1 PROVE \E x \in Threads : z \in Part(x)
  <2>1. CASE z >= (N - 1) * per
    <3>1. N - 1 \in Threads /\ (N - 1) * per \in Nat
      BY <1>1, <1>2, ThreadsAre
    <3>2. Part(N - 1) = ((N - 1) * per) .. Items - 1
      BY <1>3, <3>1
    <3> QED
      BY <1>1, <1>5, <2>1, <3>1, <3>2
  <2>2. CASE z < (N - 1) * per
    <3> DEFINE x == z \div per
    <3>1. per > 0
      BY <1>1, <1>2, <2>2
    <3>2. x \in Nat /\ x * per <= z /\ z < (x + 1) * per
      BY <1>2, <3>1
    <3> HIDE DEF x
    <3>3. x < N - 1
      <4> SUFFICES ASSUME x >= N - 1 PROVE FALSE
        BY <1>1, <3>2
      <4>1. PICK d \in Nat : x = (N - 1) + d
        BY <1>1, <3>2
      <4>2. x * per = (N - 1) * per + d * per /\ d * per \in Nat /\ (N - 1) * per \in Nat
        BY <1>1, <1>2, <4>1
      <4> QED
        BY <2>2, <3>2, <4>2
    <3>4. x \in Threads /\ x # N - 1 /\ x * per \in Nat /\ (x + 1) * per \in Nat
      BY <1>1, <1>2, <3>2, <3>3, ThreadsAre
    <3>5. z \in Part(x)
      BY <1>3, <3>2, <3>4
    <3> QED
      BY <3>4, <3>5
  <2> QED
    BY <1>1, <1>2, <2>1, <2>2
<1>6. \A z : z \in UNION {Part(t) : t \in Threads} <=> \E x \in Threads : z \in Part(x)
  BY Zenon
<1> QED
  BY <1>4, <1>5, <1>6

-----------------------------------------------------------------------------
\* The invariant.

Networks == DOMAIN NETWORKS

IsSource(file) == file \in [Networks -> {file[net] : net \in Networks}]

\* The run that fills the dataset and searches, its find, and the rewrite of the source.
IsSearching(x) ==
  /\ x.pc \in {"cache", "dataset", "mine", "exhausted"} /\ x.net \in Networks /\ x.full \in BOOLEAN
  /\ x = [pc |-> x.pc, net |-> x.net, full |-> x.full, outputs |-> x.outputs, merkle |-> x.merkle]

IsFound(x, ws) ==
  /\ x.pc = "found" /\ x = [pc |-> "found", net |-> x.net, result |-> x.result]
  /\ x.net \in Networks /\ x.result.nonce \in ws

IsPatching(x) ==
  /\ x.pc \in {"backup", "backing", "write", "writing"}
  /\ x = [pc |-> x.pc, src |-> x.src, text |-> x.text] /\ IsSource(x.src) /\ IsSource(x.text)

SearchTypes ==
  /\ miner = NoRun \/ IsSearching(miner) \/ IsFound(miner, works) \/ IsPatching(miner)
  /\ works \subseteq 0 .. MaxNonce /\ found \in works \cup {NotFound} /\ stop \in BOOLEAN
  /\ workers \in [Threads -> [pc : {"new", "hash", "won", "done", "died"}, nonce : Nat]]
  /\ tried \subseteq Threads \X Nat /\ filled \in [Threads -> SUBSET Int]

\* A thread has tried what it is to try, and nothing that works is behind it.
NothingIsMissed ==
  /\ \A t \in Threads : /\ Of(t, workers[t].nonce)
                        /\ \A m \in works : Of(t, m) => m >= workers[t].nonce
  /\ \A p \in tried : Of(p[1], p[2])

\* Before a find a thread comes to an end only where there are no more nonces.
NobodyStopsEarly ==
  found = NotFound =>
    /\ ~stop
    /\ \A t \in Threads : /\ workers[t].pc # "won"
                          /\ workers[t].pc = "done" => workers[t].nonce > MaxNonce

DatasetIsWhole == miner.pc = "mine" /\ miner.full => \A t \in Threads : filled[t] = Part(t)

ExhaustedIsSearched ==
  miner.pc = "exhausted" /\ (\A t \in Threads : workers[t].pc # "died") => works = {}

SearchInv == SearchTypes /\ NothingIsMissed /\ NobodyStopsEarly /\ DatasetIsWhole /\ ExhaustedIsSearched

\* Each file is torn only while it is written or since a run died there, and the
\* source is not opened before its copy is there.
SourceInv ==
  /\ source = Torn \/ IsSource(source)
  /\ backup \in {Torn, Absent} \/ IsSource(backup)
  /\ broken \in Nat
  /\ miner.pc \in {"backup", "backing", "write"} => source # Torn
  /\ miner.pc \in {"write", "writing"} => backup # Absent
  /\ backup = Torn /\ miner.pc # "backing" => broken >= 1
  /\ source = Torn => backup # Absent
  /\ source = Torn /\ miner.pc # "writing" =>
       broken >= 1 /\ (backup = Torn => broken >= 2)

LEMMA FilesDiffer ==
  /\ Torn # Absent /\ (\A file : IsSource(file) => file # Torn /\ file # Absent)
  /\ \A file, net, result : IsSource(file) /\ net \in Networks => IsSource([file EXCEPT ![net] = result])
<1>1. DOMAIN Torn = {} /\ DOMAIN Absent = {1}
  BY DEF Torn, Absent
<1>2. Networks = {"mainnet", "testnet", "regtest"}
  BY DEF Networks, NETWORKS
<1>3. Networks # {} /\ Networks # {1}
  BY <1>2
<1>4. \A file : IsSource(file) => DOMAIN file = Networks
  BY DEF IsSource
<1>5. ASSUME NEW file, NEW net \in Networks, NEW result, IsSource(file)
      PROVE  IsSource([file EXCEPT ![net] = result])
  BY <1>5 DEF IsSource
<1> QED
  BY <1>1, <1>3, <1>4, <1>5

LEMMA GenesisInvInit == GenesisInit => SearchInv /\ SourceInv
<1> SUFFICES ASSUME GenesisInit PROVE SearchInv /\ SourceInv
  OBVIOUS
<1>1. \A t \in Threads : t \in Nat /\ Of(t, t)
  BY ThreadsAre DEF Of
<1>2. SearchTypes
  BY <1>1 DEF SearchTypes, GenesisInit, NewWorkers, NotFound
<1>3. NothingIsMissed
  BY <1>1 DEF NothingIsMissed, GenesisInit, NewWorkers
<1>4. NobodyStopsEarly /\ DatasetIsWhole /\ ExhaustedIsSearched
  BY DEF NobodyStopsEarly, DatasetIsWhole, ExhaustedIsSearched, GenesisInit, NewWorkers, NoRun
<1>5. SourceInv
  <2>1. IsSource(source)
    BY DEF GenesisInit, IsSource, Networks
  <2> QED
    BY <2>1, FilesDiffer DEF SourceInv, GenesisInit, NoRun
<1> QED
  BY <1>2, <1>3, <1>4, <1>5 DEF SearchInv

-----------------------------------------------------------------------------
\* The steps.

LEMMA NoPcIsTwo ==
  /\ NoRun.pc = "off"
  /\ IsSearching(miner) => miner.pc \in {"cache", "dataset", "mine", "exhausted"}
  /\ IsFound(miner, works) => miner.pc = "found"
  /\ IsPatching(miner) => miner.pc \in {"backup", "backing", "write", "writing"}
BY DEF NoRun, IsSearching, IsFound, IsPatching

LEMMA SearchInvBegins ==
  ASSUME SearchInv, NEW net \in Networks, NEW address \in Addresses, NEW full \in BOOLEAN,
         NEW single \in BOOLEAN, NEW op_true \in BOOLEAN,
         BeginsRun(net, address, full, single, op_true)
  PROVE  SearchInv'
<1>1. \A t \in Threads : t \in Nat /\ Of(t, t)
  BY ThreadsAre DEF Of
<1>2. /\ workers' = [t \in Threads |-> [pc |-> "new", nonce |-> t]]
      /\ found' = NotFound /\ stop' = FALSE /\ tried' = {} /\ filled' = [t \in Threads |-> {}]
      /\ works' \subseteq 0 .. MaxNonce
  BY DEF BeginsRun, NewWorkers, SearchInv, SearchTypes
<1>3. miner' = NoRun \/ (IsSearching(miner') /\ miner'.pc = "cache")
  <2>1. CASE Accepts(address, net)
    <3> DEFINE outs == build_genesis_outputs([i \in 1 .. 20 |-> 7], single \/ op_true, op_true)
               tx == build_coinbase_tx(outs)
    <3>1. miner' = [pc |-> "cache", net |-> net, full |-> full, outputs |-> outs, merkle |-> tx]
      BY <2>1 DEF BeginsRun
    <3> HIDE DEF outs, tx
    <3> QED
      BY <3>1 DEF IsSearching
  <2>2. CASE ~Accepts(address, net)
    <3>1. miner = NoRun
      BY Zenon DEF BeginsRun
    <3>2. miner' = miner
      BY <2>2, Zenon DEF BeginsRun
    <3> QED
      BY <3>1, <3>2
  <2> QED
    BY <2>1, <2>2
<1>4. SearchTypes'
  BY <1>1, <1>2, <1>3 DEF SearchTypes
<1>5. \A t \in Threads, m \in Nat : Of(t, m) => m >= t
  BY ThreadsAre DEF Of
<1>6. NothingIsMissed'
  <2>1. \A m \in works' : m \in Nat
    BY <1>2, GenesisAssumption
  <2>2. \A t \in Threads : workers'[t].nonce = t
    BY <1>2
  <2> QED
    BY <1>1, <1>2, <1>5, <2>1, <2>2 DEF NothingIsMissed
<1>7. NobodyStopsEarly' /\ DatasetIsWhole' /\ ExhaustedIsSearched'
  BY <1>2, <1>3, NoPcIsTwo DEF NobodyStopsEarly, DatasetIsWhole, ExhaustedIsSearched
<1> QED
  BY <1>4, <1>6, <1>7 DEF SearchInv

LEMMA SearchInvAllocate ==
  ASSUME SearchInv, Allocate
  PROVE  SearchInv'
<1>1. IsSearching(miner) /\ UNCHANGED <<works, workers, found, stop, tried, filled>>
  BY NoPcIsTwo DEF Allocate, SearchInv, SearchTypes
<1>2. CASE miner' = NoRun
  BY <1>1, <1>2, NoPcIsTwo DEF SearchInv, SearchTypes, NothingIsMissed, NobodyStopsEarly,
                               DatasetIsWhole, ExhaustedIsSearched
<1>3. CASE miner' = [miner EXCEPT !.pc = IF miner.full THEN "dataset" ELSE "mine"]
  <2>1. IsSearching(miner') /\ miner'.full = miner.full /\ miner'.pc # "exhausted"
        /\ (miner.full => miner'.pc = "dataset")
    BY <1>1, <1>3 DEF IsSearching
  <2> QED
    BY <1>1, <2>1 DEF SearchInv, SearchTypes, NothingIsMissed, NobodyStopsEarly,
                      DatasetIsWhole, ExhaustedIsSearched
<1> QED
  BY <1>2, <1>3 DEF Allocate

LEMMA SearchInvDataset ==
  ASSUME SearchInv, DatasetReady \/ \E t \in Threads : InitDataset(t)
  PROVE  SearchInv'
<1>1. CASE DatasetReady
  <2>1. IsSearching(miner) /\ UNCHANGED <<works, workers, found, stop, tried, filled>>
        /\ \A t \in Threads : filled[t] = Part(t)
    BY <1>1, NoPcIsTwo DEF DatasetReady, SearchInv, SearchTypes
  <2>2. IsSearching(miner') /\ miner'.pc = "mine"
    BY <1>1, <2>1 DEF DatasetReady, IsSearching
  <2> QED
    BY <2>1, <2>2 DEF SearchInv, SearchTypes, NothingIsMissed, NobodyStopsEarly,
                      DatasetIsWhole, ExhaustedIsSearched
<1>2. ASSUME NEW t \in Threads, InitDataset(t) PROVE SearchInv'
  <2>1. miner.pc = "dataset" /\ UNCHANGED <<works, miner, workers, found, stop, tried>>
        /\ filled' = [filled EXCEPT ![t] = Part(t)]
    BY <1>2 DEF InitDataset
  <2>2. Part(t) \in SUBSET Int
    BY ThreadsAre, GenesisAssumption DEF Part
  <2>3. filled' \in [Threads -> SUBSET Int]
    BY <2>1, <2>2 DEF SearchInv, SearchTypes
  <2> QED
    BY <2>1, <2>3 DEF SearchInv, SearchTypes, NothingIsMissed, NobodyStopsEarly,
                      DatasetIsWhole, ExhaustedIsSearched
<1> QED
  BY <1>1, <1>2

LEMMA SearchInvWorkers ==
  ASSUME SearchInv, NEW t \in Threads, new_vm(t) \/ SetsStop(t)
  PROVE  SearchInv'
<1>1. miner.pc = "mine" /\ UNCHANGED <<works, miner, found, tried, filled>>
  BY DEF new_vm, SetsStop
<1>2. PICK pc \in {"hash", "died", "done"} :
        /\ workers' = [workers EXCEPT ![t].pc = pc]
        /\ pc = "done" => workers[t].pc = "won"
        /\ stop' = stop \/ (stop' = TRUE /\ pc = "done")
  <2>1. CASE new_vm(t)
    <3>1. \/ workers' = [workers EXCEPT ![t].pc = "hash"]
          \/ workers' = [workers EXCEPT ![t].pc = "died"]
      BY <2>1, Zenon DEF new_vm
    <3>2. stop' = stop
      BY <2>1, Zenon DEF new_vm
    <3> QED
      BY <3>1, <3>2
  <2>2. CASE SetsStop(t)
    <3>1. /\ workers' = [workers EXCEPT ![t].pc = "done"] /\ workers[t].pc = "won"
          /\ stop' = TRUE
      BY <2>2, Zenon DEF SetsStop
    <3> QED
      BY <3>1
  <2> QED
    BY <2>1, <2>2
<1>3. /\ workers' \in [Threads -> [pc : {"new", "hash", "won", "done", "died"}, nonce : Nat]]
      /\ \A u \in Threads : workers'[u].nonce = workers[u].nonce
      /\ \A u \in Threads : u # t => workers'[u] = workers[u]
      /\ workers'[t].pc = pc
  BY <1>2 DEF SearchInv, SearchTypes
<1>4. SearchTypes'
  BY <1>1, <1>2, <1>3 DEF SearchInv, SearchTypes
<1>5. NothingIsMissed'
  BY <1>1, <1>3 DEF SearchInv, NothingIsMissed
<1>6. NobodyStopsEarly'
  BY <1>1, <1>2, <1>3 DEF SearchInv, NobodyStopsEarly
<1>7. DatasetIsWhole' /\ ExhaustedIsSearched'
  BY <1>1 DEF SearchInv, DatasetIsWhole, ExhaustedIsSearched
<1> QED
  BY <1>4, <1>5, <1>6, <1>7 DEF SearchInv

LEMMA SearchInvHashes ==
  ASSUME SearchInv, NEW t \in Threads, Hashes(t)
  PROVE  SearchInv'
<1> DEFINE w == workers[t].nonce
<1>1. miner.pc = "mine" /\ UNCHANGED <<works, miner, stop, filled>> /\ workers[t].pc = "hash"
  BY DEF Hashes
<1>2. w \in Nat /\ Of(t, w) /\ found \in works \cup {NotFound} /\ works \subseteq 0 .. MaxNonce
  BY DEF SearchInv, SearchTypes, NothingIsMissed
<1>3. SearchTypes /\ NothingIsMissed /\ NobodyStopsEarly
  BY DEF SearchInv
<1>4. DatasetIsWhole' /\ ExhaustedIsSearched'
  BY <1>1 DEF SearchInv, DatasetIsWhole, ExhaustedIsSearched
<1>5. CASE stop \/ w > MaxNonce
  <2>1. workers' = [workers EXCEPT ![t].pc = "done"] /\ UNCHANGED <<tried, found>>
    BY <1>5 DEF Hashes
  <2>2. /\ workers' \in [Threads -> [pc : {"new", "hash", "won", "done", "died"}, nonce : Nat]]
        /\ \A u \in Threads : workers'[u].nonce = workers[u].nonce
        /\ \A u \in Threads : u # t => workers'[u] = workers[u]
        /\ workers'[t].pc = "done"
    BY <1>3, <2>1 DEF SearchTypes
  <2>3. SearchTypes'
    BY <1>1, <1>3, <2>1, <2>2 DEF SearchTypes
  <2>4. NothingIsMissed'
    BY <1>1, <1>3, <2>1, <2>2 DEF NothingIsMissed
  <2>5. NobodyStopsEarly'
    BY <1>1, <1>3, <1>5, <2>1, <2>2 DEF NobodyStopsEarly
  <2> QED
    BY <1>4, <2>3, <2>4, <2>5 DEF SearchInv
<1>6. CASE ~(stop \/ w > MaxNonce)
  <2>1. tried' = tried \cup {<<t, w>>}
    BY <1>6 DEF Hashes
  <2>2. tried' \subseteq Threads \X Nat /\ \A p \in tried' : Of(p[1], p[2])
    BY <1>2, <1>3, <2>1 DEF SearchTypes, NothingIsMissed
  <2>3. CASE w \in works
    <3>1. /\ workers' = [workers EXCEPT ![t].pc = "won"]
          /\ found' = IF found = NotFound THEN w ELSE found
      BY <1>6, <2>3 DEF Hashes
    <3>2. /\ workers' \in [Threads -> [pc : {"new", "hash", "won", "done", "died"}, nonce : Nat]]
          /\ \A u \in Threads : workers'[u].nonce = workers[u].nonce
      BY <1>3, <3>1 DEF SearchTypes
    <3>3. found' \in works /\ found' # NotFound
      BY <1>2, <2>3, <3>1, GenesisAssumption DEF NotFound
    <3>4. SearchTypes'
      BY <1>1, <1>3, <2>2, <3>2, <3>3 DEF SearchTypes
    <3>5. NothingIsMissed' /\ NobodyStopsEarly'
      BY <1>1, <1>3, <2>2, <3>2, <3>3 DEF NothingIsMissed, NobodyStopsEarly
    <3> QED
      BY <1>4, <3>4, <3>5 DEF SearchInv
  <2>4. CASE w \notin works
    <3>1. workers' = [workers EXCEPT ![t].nonce = w + N] /\ found' = found
      BY <1>6, <2>4 DEF Hashes, Stride, N
    <3>2. w + N \in Nat /\ Of(t, w + N) /\ \A b \in Nat : Of(t, b) /\ b < w + N => b < w \/ b = w
      BY <1>2, StrideIs
    <3>3. /\ workers' \in [Threads -> [pc : {"new", "hash", "won", "done", "died"}, nonce : Nat]]
          /\ \A u \in Threads : workers'[u].pc = workers[u].pc
          /\ \A u \in Threads : u # t => workers'[u] = workers[u]
          /\ workers'[t].nonce = w + N
      BY <1>3, <3>1, <3>2 DEF SearchTypes
    <3>4. SearchTypes'
      BY <1>1, <1>3, <2>2, <3>1, <3>3 DEF SearchTypes
    <3>5. \A m \in works : Of(t, m) => m >= w + N
      <4> SUFFICES ASSUME NEW m \in works, Of(t, m) PROVE m >= w + N
        OBVIOUS
      <4>1. m \in Nat /\ m >= w /\ m # w
        BY <1>2, <1>3, <2>4, GenesisAssumption DEF NothingIsMissed
      <4> QED
        BY <1>2, <3>2, <4>1
    <3>6. NothingIsMissed'
      <4>1. \A u \in Threads : /\ Of(u, workers'[u].nonce)
                               /\ \A m \in works : Of(u, m) => m >= workers'[u].nonce
        BY <1>3, <3>2, <3>3, <3>5 DEF NothingIsMissed
      <4> QED
        BY <1>1, <2>2, <4>1 DEF NothingIsMissed
    <3>7. NobodyStopsEarly'
      <4>1. \A u \in Threads : workers'[u].pc = "done" => u # t
        BY <1>1, <3>3
      <4> QED
        BY <1>1, <1>3, <3>1, <3>3, <4>1 DEF NobodyStopsEarly
    <3> QED
      BY <1>4, <3>4, <3>6, <3>7 DEF SearchInv
  <2> QED
    BY <2>3, <2>4
<1> QED
  BY <1>5, <1>6

LEMMA SearchInvJoined ==
  ASSUME SearchInv, Joined
  PROVE  SearchInv'
<1>1. IsSearching(miner) /\ UNCHANGED <<works, workers, found, stop, tried, filled>>
  BY NoPcIsTwo DEF Joined, SearchInv, SearchTypes
<1>2. NothingIsMissed' /\ NobodyStopsEarly'
  BY <1>1 DEF SearchInv, NothingIsMissed, NobodyStopsEarly
<1>3. CASE found = NotFound
  <2>1. IsSearching(miner') /\ miner'.pc = "exhausted"
    BY <1>1, <1>3 DEF Joined, IsSearching
  <2>2. SearchTypes' /\ DatasetIsWhole'
    BY <1>1, <2>1 DEF SearchInv, SearchTypes, DatasetIsWhole
  <2>3. ExhaustedIsSearched'
    <3> SUFFICES ASSUME \A t \in Threads : workers[t].pc # "died" PROVE works = {}
      BY <1>1 DEF ExhaustedIsSearched
    <3>1. \A t \in Threads : workers[t].nonce \in Nat /\ workers[t].nonce > MaxNonce
      BY <1>3 DEF Joined, SearchInv, SearchTypes, NobodyStopsEarly
    <3>2. ASSUME NEW m \in works PROVE FALSE
      <4>1. m \in Nat /\ m <= MaxNonce /\ MaxNonce \in Nat
        BY <3>2, GenesisAssumption DEF SearchInv, SearchTypes
      <4>2. PICK t \in Threads : Of(t, m)
        BY <4>1, EveryNonceIsOf
      <4>3. m >= workers[t].nonce
        BY <3>2, <4>2 DEF SearchInv, NothingIsMissed
      <4> QED
        BY <3>1, <4>1, <4>3
    <3> QED
      BY <3>2
  <2> QED
    BY <1>2, <2>2, <2>3 DEF SearchInv
<1>4. CASE found # NotFound
  <2>1. miner' = [pc |-> "found", net |-> miner.net,
                  result |-> [nonce |-> found, merkle |-> miner.merkle]]
    BY <1>4 DEF Joined
  <2>2. found \in works /\ miner.net \in Networks
    BY <1>1, <1>4 DEF SearchInv, SearchTypes, IsSearching
  <2>3. IsFound(miner', works')
    BY <1>1, <2>1, <2>2 DEF IsFound
  <2>4. SearchTypes' /\ DatasetIsWhole' /\ ExhaustedIsSearched'
    BY <1>1, <2>1, <2>3 DEF SearchInv, SearchTypes, DatasetIsWhole, ExhaustedIsSearched
  <2> QED
    BY <1>2, <2>4 DEF SearchInv
<1> QED
  BY <1>3, <1>4

LEMMA SearchInvAfter ==
  ASSUME SearchInv, UNCHANGED <<works, workers, found, stop, tried, filled>>,
         miner' = NoRun \/ IsPatching(miner')
  PROVE  SearchInv'
<1>1. miner'.pc \notin {"mine", "exhausted"}
  BY DEF NoRun, IsPatching
<1> QED
  BY <1>1 DEF SearchInv, SearchTypes, NothingIsMissed, NobodyStopsEarly, DatasetIsWhole, ExhaustedIsSearched

\* A step that leaves both files alone and starts no rewrite.
LEMMA SourceInvElsewhere ==
  ASSUME SourceInv, UNCHANGED <<source, backup>>, broken' \in {broken, broken + 1},
         miner'.pc \notin {"backup", "backing", "write", "writing"},
         miner.pc \in {"backup", "backing", "write", "writing"} => broken' = broken + 1
  PROVE  SourceInv'
BY DEF SourceInv

LEMMA GenesisReads ==
  ASSUME SearchInv, SourceInv, ReadSource
  PROVE  (miner' = NoRun \/ IsPatching(miner')) /\ SourceInv'
<1>1. IsFound(miner, works) /\ UNCHANGED <<source, backup, broken>>
  BY NoPcIsTwo DEF ReadSource, SearchInv, SearchTypes
<1>2. PICK patch \in BOOLEAN :
        miner' = IF ~patch \/ source = Torn \/ source[miner.net] = miner.result THEN NoRun
                 ELSE [pc |-> IF backup = Absent THEN "backup" ELSE "write", src |-> source,
                       text |-> [source EXCEPT ![miner.net] = miner.result]]
  BY DEF ReadSource
<1>3. CASE ~patch \/ source = Torn \/ source[miner.net] = miner.result
  <2>1. miner' = NoRun
    BY <1>2, <1>3
  <2> QED
    BY <1>1, <2>1, SourceInvElsewhere, NoPcIsTwo DEF IsFound
<1>4. CASE ~(~patch \/ source = Torn \/ source[miner.net] = miner.result)
  <2> DEFINE pc == IF backup = Absent THEN "backup" ELSE "write"
             text == [source EXCEPT ![miner.net] = miner.result]
  <2>1. miner' = [pc |-> pc, src |-> source, text |-> text]
    BY <1>2, <1>4
  <2>2. IsSource(source) /\ IsSource(text)
    BY <1>1, <1>4, FilesDiffer DEF SourceInv, IsFound
  <2>3. /\ pc \in {"backup", "write"} /\ (pc = "write" => backup # Absent)
    OBVIOUS
  <2> HIDE DEF pc, text
  <2>4. IsPatching(miner')
    BY <2>1, <2>2, <2>3 DEF IsPatching
  <2>5. miner'.pc = pc /\ source # Torn
    BY <1>4, <2>1
  <2>6. backup = Torn => broken >= 1
    BY <1>1 DEF SourceInv, IsFound
  <2> QED
    BY <1>1, <2>3, <2>4, <2>5, <2>6 DEF SourceInv
<1> QED
  BY <1>3, <1>4

LEMMA GenesisEmpties ==
  ASSUME SearchInv, SourceInv, Empties
  PROVE  IsPatching(miner') /\ SourceInv'
<1>1. IsPatching(miner) /\ UNCHANGED broken
  BY NoPcIsTwo DEF Empties, SearchInv, SearchTypes
<1>2. CASE miner.pc = "write"
  <2>1. source' = Torn /\ backup' = backup /\ miner' = [miner EXCEPT !.pc = "writing"]
    BY <1>2 DEF Empties
  <2>2. IsPatching(miner') /\ miner'.pc = "writing"
    BY <1>1, <2>1 DEF IsPatching
  <2> QED
    BY <1>1, <1>2, <2>1, <2>2 DEF SourceInv
<1>3. CASE miner.pc = "backup"
  <2>1. source' = source /\ backup' = Torn /\ miner' = [miner EXCEPT !.pc = "backing"]
    BY <1>3 DEF Empties
  <2>2. IsPatching(miner') /\ miner'.pc = "backing"
    BY <1>1, <2>1 DEF IsPatching
  <2> QED
    BY <1>1, <1>3, <2>1, <2>2, FilesDiffer DEF SourceInv
<1> QED
  BY <1>2, <1>3 DEF Empties

LEMMA GenesisFills ==
  ASSUME SearchInv, SourceInv, Fills
  PROVE  (miner' = NoRun \/ IsPatching(miner')) /\ SourceInv'
<1>1. IsPatching(miner) /\ UNCHANGED broken
  BY NoPcIsTwo DEF Fills, SearchInv, SearchTypes
<1>2. CASE miner.pc = "backing"
  <2>1. source' = source /\ backup' = miner.src /\ miner' = [miner EXCEPT !.pc = "write"]
    BY <1>2 DEF Fills
  <2>2. IsPatching(miner') /\ miner'.pc = "write"
    BY <1>1, <2>1 DEF IsPatching
  <2>3. IsSource(backup') /\ source = source'
    BY <1>1, <2>1 DEF IsPatching
  <2>4. IsSource(source) \/ source = Torn
    BY DEF SourceInv
  <2> QED
    BY <1>1, <1>2, <2>1, <2>2, <2>3, <2>4, FilesDiffer DEF SourceInv
<1>3. CASE miner.pc = "writing"
  <2>1. source' = miner.text /\ backup' = backup /\ miner' = NoRun
    BY <1>3 DEF Fills
  <2>2. IsSource(source')
    BY <1>1, <2>1 DEF IsPatching
  <2> QED
    BY <1>1, <1>3, <2>1, <2>2, FilesDiffer, NoPcIsTwo DEF SourceInv
<1> QED
  BY <1>2, <1>3 DEF Fills

LEMMA GenesisInvNext ==
  ASSUME SearchInv, SourceInv, [GenesisNext]_genesisVars
  PROVE  SearchInv' /\ SourceInv'
<1>1. ASSUME NEW net \in Networks, NEW address \in Addresses, NEW full \in BOOLEAN,
             NEW single \in BOOLEAN, NEW op_true \in BOOLEAN,
             BeginsRun(net, address, full, single, op_true)
      PROVE  SearchInv' /\ SourceInv'
  <2>1. SearchInv'
    BY <1>1, SearchInvBegins
  <2>2. UNCHANGED <<source, backup, broken>> /\ miner = NoRun
    BY <1>1 DEF BeginsRun
  <2>3. miner'.pc \in {"off", "cache"}
    <3>1. CASE Accepts(address, net)
      <4> DEFINE outs == build_genesis_outputs([i \in 1 .. 20 |-> 7], single \/ op_true, op_true)
                 tx == build_coinbase_tx(outs)
      <4>1. miner' = [pc |-> "cache", net |-> net, full |-> full, outputs |-> outs, merkle |-> tx]
        BY <1>1, <3>1 DEF BeginsRun
      <4> HIDE DEF outs, tx
      <4> QED
        BY <4>1
    <3>2. CASE ~Accepts(address, net)
      <4>1. miner' = miner
        BY <1>1, <3>2, Zenon DEF BeginsRun
      <4> QED
        BY <2>2, <4>1, NoPcIsTwo
    <3> QED
      BY <3>1, <3>2
  <2> QED
    BY <2>1, <2>2, <2>3, SourceInvElsewhere, NoPcIsTwo
<1>2. CASE Allocate
  <2>1. UNCHANGED <<source, backup>> /\ broken' \in {broken, broken + 1} /\ miner.pc = "cache"
    BY <1>2 DEF Allocate
  <2>2. miner'.pc \in {"off", "dataset", "mine"}
    <3>1. IsSearching(miner)
      BY <2>1, NoPcIsTwo DEF SearchInv, SearchTypes
    <3> QED
      BY <1>2, <3>1, NoPcIsTwo DEF Allocate, IsSearching
  <2> QED
    BY <1>2, <2>1, <2>2, SearchInvAllocate, SourceInvElsewhere
<1>3. CASE DatasetReady
  <2>1. UNCHANGED <<source, backup, broken>> /\ miner.pc = "dataset"
        /\ miner' = [miner EXCEPT !.pc = "mine"]
    BY <1>3 DEF DatasetReady
  <2>2. IsSearching(miner)
    BY <2>1, NoPcIsTwo DEF SearchInv, SearchTypes
  <2>3. miner'.pc = "mine"
    BY <2>1, <2>2 DEF IsSearching
  <2> QED
    BY <1>3, <2>1, <2>3, SearchInvDataset, SourceInvElsewhere
<1>4. ASSUME NEW t \in Threads, InitDataset(t) \/ new_vm(t) \/ Hashes(t) \/ SetsStop(t)
      PROVE  SearchInv' /\ SourceInv'
  <2>1. UNCHANGED <<source, backup, miner>> /\ miner.pc \in {"dataset", "mine"}
        /\ broken' \in {broken, broken + 1}
    BY <1>4 DEF InitDataset, new_vm, Hashes, SetsStop
  <2> QED
    BY <1>4, <2>1, SearchInvDataset, SearchInvWorkers, SearchInvHashes, SourceInvElsewhere
<1>5. CASE Joined
  <2>1. UNCHANGED <<source, backup, broken>> /\ miner.pc = "mine"
    BY <1>5 DEF Joined
  <2>2. IsSearching(miner)
    BY <2>1, NoPcIsTwo DEF SearchInv, SearchTypes
  <2>3. miner'.pc \in {"exhausted", "found"}
    BY <1>5, <2>2 DEF Joined, IsSearching
  <2> QED
    BY <1>5, <2>1, <2>3, SearchInvJoined, SourceInvElsewhere
<1>6. CASE ReadSource
  <2>1. UNCHANGED <<works, workers, found, stop, tried, filled>>
    BY <1>6 DEF ReadSource
  <2> QED
    BY <1>6, <2>1, GenesisReads, SearchInvAfter
<1>7. CASE Empties
  <2>1. UNCHANGED <<works, workers, found, stop, tried, filled>>
    BY <1>7 DEF Empties
  <2> QED
    BY <1>7, <2>1, GenesisEmpties, SearchInvAfter
<1>8. CASE Fills
  <2>1. UNCHANGED <<works, workers, found, stop, tried, filled>>
    BY <1>8 DEF Fills
  <2> QED
    BY <1>8, <2>1, GenesisFills, SearchInvAfter
<1>9. CASE GivesUp
  <2>1. UNCHANGED <<works, workers, found, stop, tried, filled, source, backup, broken>>
        /\ miner.pc = "exhausted" /\ miner' = NoRun
    BY <1>9 DEF GivesUp
  <2> QED
    BY <2>1, SearchInvAfter, SourceInvElsewhere, NoPcIsTwo
<1>10. CASE MinerDies
  <2>1. UNCHANGED <<works, workers, found, stop, tried, filled, source, backup>>
        /\ miner' = NoRun /\ broken' = broken + 1
    BY <1>10 DEF MinerDies
  <2> QED
    BY <2>1, SearchInvAfter, SourceInvElsewhere, NoPcIsTwo
<1>11. CASE UNCHANGED genesisVars
  <2>1. SearchInv'
    BY <1>11 DEF genesisVars, SearchInv, SearchTypes, NothingIsMissed, NobodyStopsEarly,
                 DatasetIsWhole, ExhaustedIsSearched
  <2>2. SourceInv'
    BY <1>11 DEF genesisVars, SourceInv
  <2> QED
    BY <2>1, <2>2
<1> QED
  BY <1>1, <1>2, <1>3, <1>4, <1>5, <1>6, <1>7, <1>8, <1>9, <1>10, <1>11 DEF GenesisNext, Networks

LEMMA GenesisInv == GenesisSpec => [](SearchInv /\ SourceInv)
<1>1. GenesisInit => SearchInv /\ SourceInv
  BY GenesisInvInit
<1>2. (SearchInv /\ SourceInv) /\ [GenesisNext]_genesisVars => (SearchInv /\ SourceInv)'
  BY GenesisInvNext
<1> QED
  BY <1>1, <1>2, PTL DEF GenesisSpec

\* genesis_generator.py and the threads of its search: the search that ends without a
\* nonce had none to find, what it finds works, no nonce is hashed twice, and the
\* dataset it hashes over is whole and was filled once.
THEOREM SearchesAreSound == GenesisSpec => []SearchIsSound
<1>1. SearchInv => SearchIsSound
  <2> SUFFICES ASSUME SearchInv PROVE SearchIsSound
    OBVIOUS
  <2>1. miner.pc = "exhausted" /\ (\A t \in Threads : workers[t].pc # "died") => works = {}
    BY DEF SearchInv, ExhaustedIsSearched
  <2>2. miner.pc = "found" => miner.result.nonce \in works
    BY NoPcIsTwo DEF SearchInv, SearchTypes, IsFound
  <2>3. ASSUME NEW a \in tried, NEW b \in tried, a[2] = b[2] PROVE a = b
    <3>1. /\ a \in Threads \X Nat /\ b \in Threads \X Nat
          /\ Of(a[1], a[2]) /\ Of(b[1], b[2])
      BY DEF SearchInv, SearchTypes, NothingIsMissed
    <3>2. a[1] = b[1]
      BY <2>3, <3>1, StridesApart
    <3> QED
      BY <2>3, <3>1, <3>2
  <2>4. ASSUME miner.pc = "mine", miner.full
        PROVE  /\ UNION {filled[t] : t \in Threads} = 0 .. Items - 1
               /\ \A t, u \in Threads : t # u => filled[t] \cap filled[u] = {}
    <3>1. \A t \in Threads : filled[t] = Part(t)
      BY <2>4 DEF SearchInv, DatasetIsWhole
    <3>2. {filled[t] : t \in Threads} = {Part(t) : t \in Threads}
      BY <3>1
    <3> QED
      BY <3>1, <3>2, PartsAreAll, PartsAreApart
  <2> QED
    BY <2>1, <2>2, <2>3, <2>4 DEF SearchIsSound
<1> QED
  BY <1>1, GenesisInv, PTL

\* patch_chainparams: after a run, and after one failure, chainparams.cpp or the copy
\* that was made of it first is whole.
THEOREM SourcesSurvive == GenesisSpec => []SourceSurvives
<1>1. SourceInv => SourceSurvives
  BY NoPcIsTwo DEF SourceInv, SourceSurvives
<1> QED
  BY <1>1, GenesisInv, PTL

-----------------------------------------------------------------------------
\* The scripts of the premine.

LEMMA PrefixIs ==
  ASSUME NEW x \in Nat, NEW s \in Seq(Nat)
  PROVE  /\ <<x>> \o s \in Seq(Nat) /\ Len(<<x>> \o s) = Len(s) + 1 /\ (<<x>> \o s)[1] = x
         /\ \A i \in 1 .. Len(s) : (<<x>> \o s)[i + 1] = s[i]
<1>1. <<x>> \in Seq(Nat) /\ Len(<<x>>) = 1 /\ <<x>>[1] = x /\ Len(s) \in Nat
  OBVIOUS
<1>2. /\ <<x>> \o s \in Seq(Nat)
      /\ Len(<<x>> \o s) = Len(<<x>>) + Len(s)
      /\ \A i \in 1 .. Len(<<x>>) + Len(s) : (<<x>> \o s)[i] =
                  IF i <= Len(<<x>>) THEN <<x>>[i] ELSE s[i - Len(<<x>>)]
  BY <1>1, ConcatProperties
<1>3. (<<x>> \o s)[1] = x
  BY <1>1, <1>2
<1>4. \A i \in 1 .. Len(s) : (<<x>> \o s)[i + 1] = s[i]
  <2> SUFFICES ASSUME NEW i \in 1 .. Len(s) PROVE (<<x>> \o s)[i + 1] = s[i]
    OBVIOUS
  <2>1. i + 1 \in 1 .. Len(<<x>>) + Len(s) /\ ~(i + 1 <= Len(<<x>>)) /\ i + 1 - Len(<<x>>) = i
    BY <1>1
  <2> QED
    BY <1>2, <2>1
<1> QED
  BY <1>1, <1>2, <1>3, <1>4

\* What goes on with the rest of a number, which is less than it, comes to an end.
LEMMA DigitsExist ==
  ASSUME NEW B \in [Nat -> Nat], NEW R \in [Nat -> Nat], \A n \in Nat : n # 0 => R[n] < n
  PROVE  \E f : f = [n \in Nat |-> IF n = 0 THEN <<>> ELSE <<B[n]>> \o f[R[n]]]
<1> DEFINE S == [Nat -> Seq(Nat)]
           a == [n \in Nat |-> <<>>]
           Deeper(h) == [n \in Nat |-> IF n = 0 THEN <<>> ELSE <<B[n]>> \o h[R[n]]]
           G == [k \in Nat |-> [h \in S |-> Deeper(h)]]
           Unrolled(f) == f = [n \in Nat |-> IF n = 0 THEN <<>> ELSE <<B[n]>> \o f[R[n]]]
<1>1. \A n \in Nat : B[n] \in Nat /\ R[n] \in Nat /\ (n # 0 => R[n] < n)
  OBVIOUS
<1>2. a \in S /\ G \in [Nat -> [S -> S]]
  <2>1. a \in S
    OBVIOUS
  <2>2. ASSUME NEW h \in S PROVE Deeper(h) \in S
    <3>1. \A n \in Nat : <<B[n]>> \o h[R[n]] \in Seq(Nat)
      BY <1>1, PrefixIs
    <3> QED
      BY <3>1
  <2> QED
    BY <2>1, <2>2
<1>3. PICK h \in [Nat -> S] : h[0] = a /\ \A k \in Nat : h[k + 1] = Deeper(h[k])
  <2> HIDE DEF a, S, Deeper
  <2>1. \E h \in [Nat -> S] : Recurses(h, a, G)
    <3> HIDE DEF G
    <3> QED
      BY <1>2, HasRecursion
  <2>2. PICK h \in [Nat -> S] : Recurses(h, a, G)
    BY <2>1
  <2>3. \A k \in Nat : G[k][h[k]] = Deeper(h[k])
    BY <2>2
  <2> QED
    BY <2>2, <2>3 DEF Recurses
<1>4. ASSUME NEW k \in Nat, NEW n \in Nat
      PROVE  /\ n = 0 => h[k + 1][n] = <<>>
             /\ n # 0 => h[k + 1][n] = <<B[n]>> \o h[k][R[n]]
  <2>1. h[k + 1] = [m \in Nat |-> IF m = 0 THEN <<>> ELSE <<B[m]>> \o h[k][R[m]]]
    BY <1>3, Zenon
  <2> QED
    BY <2>1, Zenon
<1>13. \A k, n \in Nat : n # 0 => h[k + 1][n] = <<B[n]>> \o h[k][R[n]]
  <2> SUFFICES ASSUME NEW k \in Nat, NEW n \in Nat, n # 0
               PROVE  h[k + 1][n] = <<B[n]>> \o h[k][R[n]]
    OBVIOUS
  <2>1. h[k + 1] = [m \in Nat |-> IF m = 0 THEN <<>> ELSE <<B[m]>> \o h[k][R[m]]]
    BY <1>3, Zenon
  <2> QED
    BY <2>1, Zenon
<1>5. \A k \in Nat : h[k][0] = <<>>
  <2> SUFFICES ASSUME NEW k \in Nat PROVE h[k][0] = <<>>
    OBVIOUS
  <2>1. CASE k = 0
    BY <1>3, <2>1
  <2>2. CASE k # 0
    <3>1. k - 1 \in Nat /\ (k - 1) + 1 = k
      BY <2>2
    <3>2. h[(k - 1) + 1][0] = <<>>
      BY <1>4, <3>1
    <3> QED
      BY <3>1, <3>2
  <2> QED
    BY <2>1, <2>2
<1> HIDE DEF S, a, Deeper, G
<1>12. ASSUME NEW n \in Nat, n # 0, NEW k \in Nat, k >= n,
              \A m \in Nat : m < n => \A l \in Nat : l >= m => h[l][m] = h[m][m]
       PROVE  h[k][n] = h[n][n]
  <2>1. PICK i \in Nat : n = i + 1
    <3>1. n - 1 \in Nat /\ n = (n - 1) + 1
      BY <1>12
    <3> QED
      BY <3>1
  <2>2. PICK j \in Nat : k = j + 1
    <3>1. k - 1 \in Nat /\ k = (k - 1) + 1
      BY <1>12
    <3> QED
      BY <3>1
  <2>0. n # 0
    BY <1>12
  <2>5. PICK q \in Nat : q = R[n] /\ q < n
    BY <1>1, <2>0, Zenon
  <2>a. h[i + 1][n] = <<B[n]>> \o h[i][R[n]]
    BY <1>13, <2>0, Zenon
  <2>b. h[j + 1][n] = <<B[n]>> \o h[j][R[n]]
    BY <1>13, <2>0, Zenon
  <2>3. h[i + 1][n] = <<B[n]>> \o h[i][q]
    BY <2>a, <2>5, Zenon
  <2>4. h[j + 1][n] = <<B[n]>> \o h[j][q]
    BY <2>b, <2>5, Zenon
  <2>8. q \in Nat /\ q < n
    BY <2>5
  <2>9. k >= n /\ i \in Nat /\ j \in Nat /\ n = i + 1 /\ k = j + 1
    BY <1>12, <2>1, <2>2
  <2>6. i >= q /\ j >= q
    BY <2>8, <2>9
  <2>7. h[i][q] = h[j][q]
    <3>1. h[i][q] = h[q][q]
      BY <1>12, <2>6, <2>8, Zenon
    <3>2. h[j][q] = h[q][q]
      BY <1>12, <2>6, <2>8, Zenon
    <3> QED
      BY <3>1, <3>2, Zenon
  <2> QED
    BY <2>1, <2>2, <2>3, <2>4, <2>7, Zenon
<1>6. \A n, k \in Nat : k >= n => h[k][n] = h[n][n]
  <2> DEFINE Bad == {n \in Nat : \E k \in Nat : k >= n /\ h[k][n] # h[n][n]}
  <2> SUFFICES ASSUME Bad # {} PROVE FALSE
    OBVIOUS
  <2>1. PICK n \in Bad : \A m \in Bad : n <= m
    <3>1. Bad \subseteq Nat
      OBVIOUS
    <3> HIDE DEF Bad
    <3> QED
      BY <3>1, HasLeast
  <2>2. PICK k \in Nat : k >= n /\ h[k][n] # h[n][n]
    BY <2>1
  <2>3. n \in Nat /\ n # 0
    BY <1>5, <2>1, <2>2
  <2>4. \A m \in Nat : m < n => \A l \in Nat : l >= m => h[l][m] = h[m][m]
    <3> SUFFICES ASSUME NEW m \in Nat, m < n, NEW l \in Nat, l >= m, h[l][m] # h[m][m]
                 PROVE  FALSE
      OBVIOUS
    <3>1. m \in Bad
      OBVIOUS
    <3>2. n <= m
      BY <2>1, <3>1, Zenon
    <3> QED
      BY <2>3, <3>2
  <2> QED
    BY <1>12, <2>2, <2>3, <2>4
<1> DEFINE d == [n \in Nat |-> h[n][n]]
<1>7. Unrolled(d)
  <2> SUFFICES ASSUME NEW n \in Nat
               PROVE  h[n][n] = IF n = 0 THEN <<>> ELSE <<B[n]>> \o d[R[n]]
    OBVIOUS
  <2>1. CASE n = 0
    BY <1>5, <2>1
  <2>2. CASE n # 0
    <3>1. PICK i \in Nat : n = i + 1
      <4>1. n - 1 \in Nat /\ n = (n - 1) + 1
        BY <2>2
      <4> QED
        BY <4>1
    <3>2. h[i + 1][n] = <<B[n]>> \o h[i][R[n]]
      BY <1>4, <2>2, <3>1, Zenon
    <3>3. h[i][R[n]] = d[R[n]]
      BY <1>1, <1>6, <2>2, <3>1
    <3> QED
      BY <2>2, <3>1, <3>2, <3>3
  <2> QED
    BY <2>1, <2>2
<1> QED
  BY <1>7

\* The recursion of BytesOf has a solution: n steps are enough for n.
LEMMA BytesRecurse ==
  \A n \in Nat : /\ BytesOf[n] \in Seq(Nat)
                 /\ BytesOf[n] = IF n = 0 THEN <<>> ELSE <<n % 256>> \o BytesOf[n \div 256]
<1> DEFINE Unrolled(f) == f = [n \in Nat |-> IF n = 0 THEN <<>> ELSE <<n % 256>> \o f[n \div 256]]
           B == [n \in Nat |-> n % 256]
           R == [n \in Nat |-> n \div 256]
<1>1. \A n \in Nat : n % 256 \in Nat /\ n \div 256 \in Nat /\ (n # 0 => n \div 256 < n)
  BY SMT
<1>2. B \in [Nat -> Nat] /\ R \in [Nat -> Nat] /\ \A n \in Nat : n # 0 => R[n] < n
  BY <1>1
<1>3. PICK f : f = [n \in Nat |-> IF n = 0 THEN <<>> ELSE <<B[n]>> \o f[R[n]]]
  <2> HIDE DEF B, R
  <2> QED
    BY <1>2, DigitsExist
<1>7. Unrolled(f)
  BY <1>3, ZenonT(60)
<1>8. BytesOf = CHOOSE g : Unrolled(g)
  BY Zenon DEF BytesOf
<1>11. Unrolled(BytesOf)
  <2> HIDE DEF Unrolled
  <2> QED
    BY <1>7, <1>8
<1>9. \A n \in Nat : BytesOf[n] = IF n = 0 THEN <<>> ELSE <<n % 256>> \o BytesOf[n \div 256]
  BY <1>11
<1>10. \A n \in Nat : BytesOf[n] \in Seq(Nat)
  <2> DEFINE Bad == {n \in Nat : BytesOf[n] \notin Seq(Nat)}
  <2> SUFFICES ASSUME Bad # {} PROVE FALSE
    OBVIOUS
  <2>1. PICK n \in Bad : \A m \in Bad : n <= m
    <3>1. Bad \subseteq Nat
      OBVIOUS
    <3> HIDE DEF Bad
    <3> QED
      BY <3>1, HasLeast
  <2>2. n \in Nat /\ n # 0
    <3>1. BytesOf[0] = <<>> /\ 0 \in Nat
      BY <1>9, Zenon
    <3>2. <<>> \in Seq(Nat)
      OBVIOUS
    <3> QED
      BY <2>1, <3>1, <3>2
  <2>3. BytesOf[n \div 256] \in Seq(Nat) /\ n % 256 \in Nat
    BY <1>1, <2>1, <2>2
  <2>4. <<n % 256>> \o BytesOf[n \div 256] \in Seq(Nat)
    BY <2>3, PrefixIs
  <2> QED
    BY <1>9, <2>1, <2>2, <2>4, ZenonT(60)
<1> QED
  BY <1>9, <1>10, ZenonT(60)

\* The number of four bytes, the lowest first.
Four(p, q, r, s) == ((s * 256 + r) * 256 + q) * 256 + p

IsFour(b, p, q, r, s) ==
  b \in Seq(Nat) /\ Len(b) = 4 /\ b[1] = p /\ b[2] = q /\ b[3] = r /\ b[4] = s

\* The four bytes of a number of four bytes.
LEMMA FourBytes ==
  ASSUME NEW p \in 0 .. 255, NEW q \in 0 .. 255, NEW r \in 0 .. 255, NEW s \in 1 .. 255
  PROVE  IsFour(BytesOf[Four(p, q, r, s)], p, q, r, s)
<1> DEFINE n3 == s
           n2 == n3 * 256 + r
           n1 == n2 * 256 + q
           n0 == n1 * 256 + p
<1>4. n3 \in Nat /\ n3 # 0 /\ n3 % 256 = s /\ n3 \div 256 = 0
  OBVIOUS
<1> HIDE DEF n3
<1>3. n2 \in Nat /\ n2 # 0 /\ n2 % 256 = r /\ n2 \div 256 = n3
  BY <1>4
<1> HIDE DEF n2
<1>2. n1 \in Nat /\ n1 # 0 /\ n1 % 256 = q /\ n1 \div 256 = n2
  BY <1>3
<1> HIDE DEF n1
<1>1. n0 \in Nat /\ n0 # 0 /\ n0 % 256 = p /\ n0 \div 256 = n1
  BY <1>2
<1>5. p \in Nat /\ q \in Nat /\ r \in Nat /\ s \in Nat
  OBVIOUS
<1> HIDE DEF n0, n1, n2, n3
<1>6. /\ BytesOf[0] = <<>> /\ BytesOf[n3] = <<s>> \o BytesOf[0] /\ BytesOf[n2] = <<r>> \o BytesOf[n3]
      /\ BytesOf[n1] = <<q>> \o BytesOf[n2] /\ BytesOf[n0] = <<p>> \o BytesOf[n1]
  <2>1. \A n \in Nat : n # 0 => BytesOf[n] = <<n % 256>> \o BytesOf[n \div 256]
    BY BytesRecurse, ZenonT(60)
  <2>2. BytesOf[0] = <<>>
    BY BytesRecurse, Zenon
  <2>3. BytesOf[n3] = <<s>> \o BytesOf[0]
    BY <1>4, <2>1, SMTT(60)
  <2>4. BytesOf[n2] = <<r>> \o BytesOf[n3]
    BY <1>3, <2>1
  <2>5. BytesOf[n1] = <<q>> \o BytesOf[n2]
    BY <1>2, <2>1
  <2>6. BytesOf[n0] = <<p>> \o BytesOf[n1]
    BY <1>1, <2>1
  <2> QED
    BY <2>2, <2>3, <2>4, <2>5, <2>6, Zenon
<1>7. BytesOf[0] \in Seq(Nat) /\ Len(BytesOf[0]) = 0
  <2>1. <<>> \in Seq(Nat) /\ Len(<<>>) = 0
    OBVIOUS
  <2> QED
    BY <1>6, <2>1, Zenon
<1>8. BytesOf[n3] \in Seq(Nat) /\ Len(BytesOf[n3]) = 1 /\ BytesOf[n3][1] = s
  BY <1>5, <1>6, <1>7, PrefixIs
<1>9. BytesOf[n2] \in Seq(Nat) /\ Len(BytesOf[n2]) = 2 /\ BytesOf[n2][1] = r /\ BytesOf[n2][2] = s
  <2>1. /\ BytesOf[n2] \in Seq(Nat) /\ Len(BytesOf[n2]) = Len(BytesOf[n3]) + 1 /\ BytesOf[n2][1] = r
        /\ \A i \in 1 .. Len(BytesOf[n3]) : BytesOf[n2][i + 1] = BytesOf[n3][i]
    BY <1>5, <1>6, <1>8, PrefixIs
  <2>2. BytesOf[n2][1 + 1] = BytesOf[n3][1]
    BY <1>8, <2>1
  <2> QED
    BY <1>8, <2>1, <2>2
<1>10. /\ BytesOf[n1] \in Seq(Nat) /\ Len(BytesOf[n1]) = 3
       /\ BytesOf[n1][1] = q /\ BytesOf[n1][2] = r /\ BytesOf[n1][3] = s
  <2>1. /\ BytesOf[n1] \in Seq(Nat) /\ Len(BytesOf[n1]) = Len(BytesOf[n2]) + 1 /\ BytesOf[n1][1] = q
        /\ \A i \in 1 .. Len(BytesOf[n2]) : BytesOf[n1][i + 1] = BytesOf[n2][i]
    BY <1>5, <1>6, <1>9, PrefixIs
  <2>2. BytesOf[n1][1 + 1] = BytesOf[n2][1] /\ BytesOf[n1][2 + 1] = BytesOf[n2][2]
    BY <1>9, <2>1
  <2> QED
    BY <1>9, <2>1, <2>2
<1>11. /\ BytesOf[n0] \in Seq(Nat) /\ Len(BytesOf[n0]) = 4 /\ BytesOf[n0][1] = p
       /\ BytesOf[n0][2] = q /\ BytesOf[n0][3] = r /\ BytesOf[n0][4] = s
  <2>1. /\ BytesOf[n0] \in Seq(Nat) /\ Len(BytesOf[n0]) = Len(BytesOf[n1]) + 1 /\ BytesOf[n0][1] = p
        /\ \A i \in 1 .. Len(BytesOf[n1]) : BytesOf[n0][i + 1] = BytesOf[n1][i]
    BY <1>5, <1>6, <1>10, PrefixIs
  <2>2. /\ BytesOf[n0][1 + 1] = BytesOf[n1][1] /\ BytesOf[n0][2 + 1] = BytesOf[n1][2]
        /\ BytesOf[n0][3 + 1] = BytesOf[n1][3]
    BY <1>10, <2>1
  <2> QED
    BY <1>10, <2>1, <2>2
<1>12. n0 = Four(p, q, r, s)
  BY DEF n0, n1, n2, n3, Four
<1> QED
  BY <1>11, <1>12 DEF IsFour

\* The number that an interpreter reads from four bytes.
LEMMA NumberOfFour ==
  ASSUME NEW b \in Seq(Nat), Len(b) = 4, b[4] < 128
  PROVE  Number(b) = Four(b[1], b[2], b[3], b[4])
<1> DEFINE Unrolled(f) == f = [i \in 0 .. Len(b) |->
                                 IF i = 0 THEN 0 ELSE f[i - 1] * 256 + b[Len(b) - i + 1]]
           t1 == b[4]
           t2 == b[4] * 256 + b[3]
           t3 == t2 * 256 + b[2]
           t4 == t3 * 256 + b[1]
           g == [i \in 0 .. 4 |-> CASE i = 0 -> 0 [] i = 1 -> t1 [] i = 2 -> t2 [] i = 3 -> t3 [] OTHER -> t4]
           top == CHOOSE f : Unrolled(f)
<1>1. b[1] \in Nat /\ b[2] \in Nat /\ b[3] \in Nat /\ b[4] \in Nat
  <2>1. \A i \in 1 .. Len(b) : b[i] \in Nat
    BY Zenon, ElementOfSeq
  <2> QED
    BY <2>1
<1>2. t1 \in Nat /\ t2 \in Nat /\ t3 \in Nat /\ t4 \in Nat
      /\ t4 = Four(b[1], b[2], b[3], b[4])
      /\ t1 = 0 * 256 + b[4] /\ t2 = t1 * 256 + b[3]
  <2> DEFINE w == b[1]  x == b[2]  y == b[3]  z == b[4]
  <2>1. w \in Nat /\ x \in Nat /\ y \in Nat /\ z \in Nat
    BY <1>1
  <2>2. t1 = z /\ t2 = t1 * 256 + y /\ t3 = t2 * 256 + x /\ t4 = t3 * 256 + w
    OBVIOUS
  <2>4. t4 = Four(w, x, y, z)
    BY DEF Four
  <2> HIDE DEF w, x, y, z, t1, t2, t3, t4
  <2>3. t1 \in Nat /\ t2 \in Nat /\ t3 \in Nat /\ t4 \in Nat
    BY <2>1, <2>2
  <2> USE DEF w, x, y, z
  <2> QED
    BY <2>1, <2>2, <2>3, <2>4
<1>3. t3 = t2 * 256 + b[2] /\ t4 = t3 * 256 + b[1]
  OBVIOUS
<1> HIDE DEF t1, t2, t3, t4
<1>4. g[0] = 0 /\ g[1] = t1 /\ g[2] = t2 /\ g[3] = t3 /\ g[4] = t4
  OBVIOUS
<1>5. Unrolled(g)
  <2>1. ASSUME NEW i \in 0 .. 4, i # 0 PROVE g[i] = g[i - 1] * 256 + b[4 - i + 1]
    <3>1. i = 1 \/ i = 2 \/ i = 3 \/ i = 4
      BY <2>1
    <3> HIDE DEF g
    <3>2. CASE i = 1
      BY <1>2, <1>4, <3>2
    <3>3. CASE i = 2
      BY <1>2, <1>4, <3>3
    <3>4. CASE i = 3
      BY <1>3, <1>4, <3>4
    <3>5. CASE i = 4
      BY <1>3, <1>4, <3>5
    <3> QED
      BY <3>1, <3>2, <3>3, <3>4, <3>5
  <2>2. g = [i \in 0 .. 4 |-> g[i]]
    OBVIOUS
  <2> HIDE DEF g
  <2>3. g = [i \in 0 .. 4 |-> IF i = 0 THEN 0 ELSE g[i - 1] * 256 + b[4 - i + 1]]
    BY <1>4, <2>1, <2>2
  <2> QED
    BY <2>3
<1>6. Unrolled(top)
  <2> HIDE DEF Unrolled, g
  <2> QED
    BY <1>5
<1>7. top[4] = t4
  <2> HIDE DEF top, g
  <2>0. \A i \in 0 .. 4 : top[i] = IF i = 0 THEN 0 ELSE top[i - 1] * 256 + b[4 - i + 1]
    BY <1>6
  <2>1. top[0] = 0
    BY <2>0
  <2>2. top[1] = top[1 - 1] * 256 + b[4 - 1 + 1]
    BY <2>0
  <2>3. top[2] = top[2 - 1] * 256 + b[4 - 2 + 1]
    BY <2>0
  <2>4. top[3] = top[3 - 1] * 256 + b[4 - 3 + 1]
    BY <2>0
  <2>5. top[4] = top[4 - 1] * 256 + b[4 - 4 + 1]
    BY <2>0
  <2>6. top[1] = t1
    BY <1>2, <2>1, <2>2
  <2>7. top[2] = t2
    BY <1>2, <2>3, <2>6
  <2>8. top[3] = t3
    BY <1>3, <2>4, <2>7
  <2> QED
    BY <1>3, <2>5, <2>8
<1>8. Number(b) = IF b[Len(b)] >= 128 THEN -1 ELSE top[Len(b)]
  BY Zenon DEF Number
<1> QED
  <2> HIDE DEF top
  <2> QED
    BY <1>1, <1>2, <1>7, <1>8

\* A script that an interpreter opens at a time.
OpensAt(script, lock) ==
  script[script[1] + 2] = 177 /\ Number(SubSeq(script, 2, script[1] + 1)) = lock

\* The bytes of a lock before the operations that test it.
LEMMA LockedScript ==
  ASSUME NEW p \in 0 .. 255, NEW q \in 0 .. 255, NEW r \in 0 .. 255, NEW s \in 1 .. 127,
         NEW lock, lock = Four(p, q, r, s),
         NEW hash \in Seq(Nat)
  PROVE  OpensAt(timelocked_script(hash, lock), lock)
<1> DEFINE b == BytesOf[lock]
           data == <<4>> \o b
           head == data \o <<177, 117>>
           tail == p2pkh_script(hash)
           script == head \o tail
<1>1. lock \in Nat /\ lock # 0
  BY SMT DEF Four
<1>2. b \in Seq(Nat) /\ Len(b) = 4 /\ b[1] = p /\ b[2] = q /\ b[3] = r /\ b[4] = s
  <2>1. s \in 1 .. 255
    OBVIOUS
  <2>2. IsFour(BytesOf[Four(p, q, r, s)], p, q, r, s)
    BY <2>1, FourBytes
  <2> QED
    BY <2>2 DEF IsFour
<1>3. script_num(lock) = b
  <2>1. b[Len(b)] = s /\ ~(s >= 128)
    <3> HIDE DEF b
    <3>1. Len(b) = 4 /\ b[4] = s
      BY <1>2
    <3> QED
      BY <3>1
  <2>2. ~(b[Len(b)] >= 128)
    BY <2>1
  <2> QED
    BY <1>1, <2>2, Zenon DEF script_num
<1> HIDE DEF b
<1>4. push_data(b) = data
  BY <1>2 DEF push_data
<1>5. timelocked_script(hash, lock) = script
  BY <1>1, <1>3, <1>4, Zenon DEF timelocked_script
<1>6. /\ data \in Seq(Nat) /\ Len(data) = 5 /\ data[1] = 4
      /\ data[2] = p /\ data[3] = q /\ data[4] = r /\ data[5] = s
  <2>1. /\ data \in Seq(Nat) /\ Len(data) = Len(b) + 1 /\ data[1] = 4
        /\ \A i \in 1 .. Len(b) : data[i + 1] = b[i]
    BY <1>2, PrefixIs
  <2>2. data[1 + 1] = b[1] /\ data[2 + 1] = b[2] /\ data[3 + 1] = b[3] /\ data[4 + 1] = b[4]
    BY <1>2, <2>1
  <2> QED
    BY <1>2, <2>1, <2>2
<1> HIDE DEF data
<1>7. /\ head \in Seq(Nat) /\ Len(head) = 7 /\ head[6] = 177
      /\ \A i \in 1 .. 5 : head[i] = data[i]
  <2> DEFINE ops == <<177, 117>>
  <2>1. ops \in Seq(Nat) /\ Len(ops) = 2 /\ ops[1] = 177 /\ head = data \o ops
    OBVIOUS
  <2> HIDE DEF ops, head
  <2>2. /\ data \o ops \in Seq(Nat) /\ Len(data \o ops) = Len(data) + Len(ops)
        /\ \A i \in 1 .. Len(data) + Len(ops) :
             (data \o ops)[i] = IF i <= Len(data) THEN data[i] ELSE ops[i - Len(data)]
    <3>1. data \in Seq(Nat) /\ ops \in Seq(Nat)
      BY <1>6, <2>1
    <3> QED
      BY <3>1, ConcatProperties, Zenon
  <2>3. head \in Seq(Nat) /\ Len(head) = 7
    BY <1>6, <2>1, <2>2
  <2>4. ASSUME NEW i \in 1 .. 7
        PROVE  head[i] = IF i <= 5 THEN data[i] ELSE ops[i - 5]
    <3>1. i \in 1 .. Len(data) + Len(ops) /\ Len(data) = 5
      BY <1>6, <2>1
    <3> QED
      BY <2>1, <2>2, <3>1, ZenonT(60)
  <2>5. head[6] = ops[6 - 5]
    BY <2>4
  <2>6. head[6] = 177
    BY <2>1, <2>5
  <2> QED
    BY <2>3, <2>4, <2>6
<1> HIDE DEF head
<1>8. tail \in Seq(Nat)
  <2>1. <<118, 169, 20>> \in Seq(Nat) /\ <<136, 172>> \in Seq(Nat)
    OBVIOUS
  <2>2. <<118, 169, 20>> \o hash \in Seq(Nat)
    BY <2>1, ConcatProperties
  <2>3. (<<118, 169, 20>> \o hash) \o <<136, 172>> \in Seq(Nat)
    BY <2>1, <2>2, ConcatProperties
  <2> QED
    BY <2>3 DEF p2pkh_script
<1> HIDE DEF tail
<1>9. \A i \in 1 .. 6 : script[i] = head[i]
  <2>1. head \in Seq(Nat) /\ tail \in Seq(Nat) /\ Len(tail) \in Nat /\ Len(head) = 7
    BY <1>7, <1>8
  <2>2. \A i \in 1 .. Len(head) + Len(tail) :
          script[i] = IF i <= Len(head) THEN head[i] ELSE tail[i - Len(head)]
    BY <2>1, ConcatProperties, Zenon
  <2> HIDE DEF script
  <2> SUFFICES ASSUME NEW i \in 1 .. 6 PROVE script[i] = head[i]
    OBVIOUS
  <2>3. i \in 1 .. Len(head) + Len(tail) /\ i <= Len(head)
    BY <2>1
  <2> QED
    BY <2>2, <2>3
<1> HIDE DEF script
<1>10. script[1] = 4 /\ script[6] = 177
       /\ script[2] = p /\ script[3] = q /\ script[4] = r /\ script[5] = s
  BY <1>6, <1>7, <1>9
<1> DEFINE cut == SubSeq(script, 2, 5)
<1>11. cut \in Seq(Nat) /\ Len(cut) = 4 /\ cut[1] = p /\ cut[2] = q /\ cut[3] = r /\ cut[4] = s
  <2>1. ASSUME NEW i \in 2 .. 5 PROVE script[i] \in Nat
    <3>1. i = 2 \/ i = 3 \/ i = 4 \/ i = 5
      OBVIOUS
    <3>2. p \in Nat /\ q \in Nat /\ r \in Nat /\ s \in Nat
      OBVIOUS
    <3> QED
      BY <1>10, <3>1, <3>2
  <2>2. /\ cut \in Seq(Nat) /\ Len(cut) = IF 2 <= 5 THEN 5 - 2 + 1 ELSE 0
        /\ \A i \in 1 .. 5 - 2 + 1 : cut[i] = script[2 + i - 1]
    <3> HIDE DEF cut
    <3>1. \A x \in Seq(Nat) : x \in Seq(Nat)
      OBVIOUS
    <3> QED
      BY <2>1, SubSeqProperties DEF cut
  <2> HIDE DEF cut
  <2>3. cut[1] = script[2 + 1 - 1] /\ cut[2] = script[2 + 2 - 1]
        /\ cut[3] = script[2 + 3 - 1] /\ cut[4] = script[2 + 4 - 1]
    BY <2>2
  <2> QED
    BY <1>10, <2>2, <2>3
<1> HIDE DEF cut
<1>12. Number(cut) = lock
  <2>1. cut[4] < 128
    BY <1>11
  <2>2. Number(cut) = Four(cut[1], cut[2], cut[3], cut[4])
    BY <1>11, <2>1, NumberOfFour
  <2> QED
    BY <1>11, <2>2
<1>13. script[1] + 2 = 6 /\ script[1] + 1 = 5
  BY <1>10
<1> QED
  BY <1>5, <1>10, <1>12, <1>13 DEF cut, OpensAt

\* The times of the premine, in bytes, and none of them a height.
LEMMA UnlockTimes ==
  ASSUME NEW i \in 1 .. 5
  PROVE  /\ PREMINE_UNLOCK_TIMES[i] >= LOCKTIME_THRESHOLD
         /\ \E p, q, r \in 0 .. 255, s \in 1 .. 127 : PREMINE_UNLOCK_TIMES[i] = Four(p, q, r, s)
<1>1. /\ PREMINE_UNLOCK_TIMES[1] = Four(0, 190, 137, 108)
      /\ PREMINE_UNLOCK_TIMES[1] >= LOCKTIME_THRESHOLD
  BY SMT DEF PREMINE_UNLOCK_TIMES, LOCKTIME_THRESHOLD, Four
<1>2. /\ PREMINE_UNLOCK_TIMES[2] = Four(0, 67, 108, 110)
      /\ PREMINE_UNLOCK_TIMES[2] >= LOCKTIME_THRESHOLD
  BY SMT DEF PREMINE_UNLOCK_TIMES, LOCKTIME_THRESHOLD, Four
<1>3. /\ PREMINE_UNLOCK_TIMES[3] = Four(128, 118, 77, 112)
      /\ PREMINE_UNLOCK_TIMES[3] >= LOCKTIME_THRESHOLD
  BY SMT DEF PREMINE_UNLOCK_TIMES, LOCKTIME_THRESHOLD, Four
<1>4. /\ PREMINE_UNLOCK_TIMES[4] = Four(0, 170, 46, 114)
      /\ PREMINE_UNLOCK_TIMES[4] >= LOCKTIME_THRESHOLD
  BY SMT DEF PREMINE_UNLOCK_TIMES, LOCKTIME_THRESHOLD, Four
<1>5. /\ PREMINE_UNLOCK_TIMES[5] = Four(128, 221, 15, 116)
      /\ PREMINE_UNLOCK_TIMES[5] >= LOCKTIME_THRESHOLD
  BY SMT DEF PREMINE_UNLOCK_TIMES, LOCKTIME_THRESHOLD, Four
<1> DEFINE Is(n) == \E p, q, r \in 0 .. 255, s \in 1 .. 127 : n = Four(p, q, r, s)
<1>6. ASSUME NEW p \in 0 .. 255, NEW q \in 0 .. 255, NEW r \in 0 .. 255, NEW s \in 1 .. 127
      PROVE  Is(Four(p, q, r, s))
  BY Zenon
<1> HIDE DEF Is
<1>7. /\ 0 \in 0 .. 255 /\ 190 \in 0 .. 255 /\ 137 \in 0 .. 255 /\ 67 \in 0 .. 255
      /\ 108 \in 0 .. 255 /\ 128 \in 0 .. 255 /\ 118 \in 0 .. 255 /\ 77 \in 0 .. 255
      /\ 170 \in 0 .. 255 /\ 46 \in 0 .. 255 /\ 221 \in 0 .. 255 /\ 15 \in 0 .. 255
      /\ 108 \in 1 .. 127 /\ 110 \in 1 .. 127 /\ 112 \in 1 .. 127 /\ 114 \in 1 .. 127
      /\ 116 \in 1 .. 127
  BY SMT
<1>8. /\ Is(PREMINE_UNLOCK_TIMES[1]) /\ Is(PREMINE_UNLOCK_TIMES[2])
      /\ Is(PREMINE_UNLOCK_TIMES[3]) /\ Is(PREMINE_UNLOCK_TIMES[4])
      /\ Is(PREMINE_UNLOCK_TIMES[5])
  <2>1. Is(Four(0, 190, 137, 108))
    BY <1>6, <1>7, ZenonT(60)
  <2>3. Is(Four(0, 67, 108, 110))
    BY <1>6, <1>7, ZenonT(60)
  <2>4. Is(Four(128, 118, 77, 112))
    BY <1>6, <1>7, ZenonT(60)
  <2>5. Is(Four(0, 170, 46, 114))
    BY <1>6, <1>7, ZenonT(60)
  <2>6. Is(Four(128, 221, 15, 116))
    BY <1>6, <1>7, ZenonT(60)
  <2>2. /\ PREMINE_UNLOCK_TIMES[1] = Four(0, 190, 137, 108)
        /\ PREMINE_UNLOCK_TIMES[2] = Four(0, 67, 108, 110)
        /\ PREMINE_UNLOCK_TIMES[3] = Four(128, 118, 77, 112)
        /\ PREMINE_UNLOCK_TIMES[4] = Four(0, 170, 46, 114)
        /\ PREMINE_UNLOCK_TIMES[5] = Four(128, 221, 15, 116)
    BY <1>1, <1>2, <1>3, <1>4, <1>5
  <2> QED
    BY <2>1, <2>2, <2>3, <2>4, <2>5, <2>6
<1>9. i = 1 \/ i = 2 \/ i = 3 \/ i = 4 \/ i = 5
  BY SMT
<1>10. PREMINE_UNLOCK_TIMES[i] >= LOCKTIME_THRESHOLD /\ Is(PREMINE_UNLOCK_TIMES[i])
  BY <1>1, <1>2, <1>3, <1>4, <1>5, <1>8, <1>9
<1> QED
  BY <1>10 DEF Is

\* Until a run has its dataset its outputs are those it was begun with.
OutputsAre ==
  miner.pc = "cache" =>
    \E single, op_true \in BOOLEAN :
      miner.outputs = build_genesis_outputs([i \in 1 .. 20 |-> 7], single, op_true)

LEMMA TranchesOf ==
  ASSUME OutputsAre
  PROVE  TranchesAreLocked
<1> SUFFICES ASSUME miner.pc = "cache", Len(miner.outputs) > 1
             PROVE  /\ Len(miner.outputs) * PREMINE_TRANCHE_AMOUNT = GENESIS_PREMINE
                    /\ \A i \in DOMAIN miner.outputs :
                         LET script == miner.outputs[i].script
                             lock == Number(SubSeq(script, 2, script[1] + 1))
                         IN  /\ script[script[1] + 2] = 177
                             /\ lock = PREMINE_UNLOCK_TIMES[i] /\ lock >= LOCKTIME_THRESHOLD
  BY Zenon DEF TranchesAreLocked
<1> DEFINE hash == [i \in 1 .. 20 |-> 7]
           five == [i \in 1 .. 5 |-> [value |-> PREMINE_TRANCHE_AMOUNT,
                                      script |-> timelocked_script(hash, PREMINE_UNLOCK_TIMES[i])]]
<1>1. hash \in Seq(Nat)
  OBVIOUS
<1> HIDE DEF hash
<1>2. PICK single \in BOOLEAN, op_true \in BOOLEAN :
        miner.outputs = build_genesis_outputs(hash, single, op_true)
  BY Zenon DEF OutputsAre, hash
<1>3. ~op_true /\ ~single
  <2> SUFFICES ASSUME op_true \/ single PROVE FALSE
    OBVIOUS
  <2>1. \E x : miner.outputs = <<x>>
    BY <1>2, Zenon DEF build_genesis_outputs
  <2>2. PICK x : miner.outputs = <<x>>
    BY <2>1
  <2>3. Len(miner.outputs) = 1
    BY <2>2
  <2> QED
    BY <2>3
<1>4. DOMAIN PREMINE_UNLOCK_TIMES = 1 .. 5
  BY SMT DEF PREMINE_UNLOCK_TIMES
<1>5. miner.outputs = five
  BY <1>2, <1>3, <1>4, Zenon DEF build_genesis_outputs
<1>6. Len(miner.outputs) = 5 /\ DOMAIN miner.outputs = 1 .. 5
  <2>1. five \in Seq({five[i] : i \in 1 .. 5}) /\ DOMAIN five = 1 .. 5
    OBVIOUS
  <2>2. Len(five) = 5
    OBVIOUS
  <2> QED
    BY <1>5, <2>1, <2>2
<1>7. ASSUME NEW i \in 1 .. 5
      PROVE  LET script == miner.outputs[i].script
                 lock == Number(SubSeq(script, 2, script[1] + 1))
             IN  /\ script[script[1] + 2] = 177
                 /\ lock = PREMINE_UNLOCK_TIMES[i] /\ lock >= LOCKTIME_THRESHOLD
  <2>1. PICK p \in 0 .. 255, q \in 0 .. 255, r \in 0 .. 255, s \in 1 .. 127 :
          PREMINE_UNLOCK_TIMES[i] = Four(p, q, r, s)
    BY UnlockTimes
  <2> DEFINE script == timelocked_script(hash, PREMINE_UNLOCK_TIMES[i])
  <2>2. OpensAt(script, PREMINE_UNLOCK_TIMES[i])
    BY <1>1, <2>1, LockedScript
  <2>3. miner.outputs[i].script = script
    BY <1>5 DEF script
  <2>4. PREMINE_UNLOCK_TIMES[i] >= LOCKTIME_THRESHOLD
    BY UnlockTimes
  <2> QED
    BY <2>2, <2>3, <2>4 DEF OpensAt
<1> QED
  <2>1. 5 * PREMINE_TRANCHE_AMOUNT = GENESIS_PREMINE
    BY SMT DEF PREMINE_TRANCHE_AMOUNT, GENESIS_PREMINE
  <2> QED
    BY <1>6, <1>7, <2>1, SMTT(60)

LEMMA OutputsAreKept ==
  ASSUME SearchInv, OutputsAre, [GenesisNext]_genesisVars
  PROVE  OutputsAre'
<1>1. ASSUME NEW net \in Networks, NEW address \in Addresses, NEW full \in BOOLEAN,
             NEW single \in BOOLEAN, NEW op_true \in BOOLEAN,
             BeginsRun(net, address, full, single, op_true)
      PROVE  OutputsAre'
  <2>1. CASE Accepts(address, net)
    <3> DEFINE outs == build_genesis_outputs([i \in 1 .. 20 |-> 7], single \/ op_true, op_true)
               tx == build_coinbase_tx(outs)
    <3>1. miner' = [pc |-> "cache", net |-> net, full |-> full, outputs |-> outs, merkle |-> tx]
      BY <1>1, <2>1 DEF BeginsRun
    <3>2. miner'.outputs = outs
      <4> HIDE DEF outs, tx
      <4> QED
        BY <3>1
    <3>3. (single \/ op_true) \in BOOLEAN
      OBVIOUS
    <3> QED
      BY <3>2, <3>3, Zenon DEF OutputsAre
  <2>2. CASE ~Accepts(address, net)
    <3>1. miner' = miner
      BY <1>1, <2>2, Zenon DEF BeginsRun
    <3> QED
      BY <3>1, Zenon DEF OutputsAre
  <2> QED
    BY <2>1, <2>2
<1>2. ASSUME miner'.pc # "cache" PROVE OutputsAre'
  BY <1>2 DEF OutputsAre
<1>3. ASSUME miner' = miner PROVE OutputsAre'
  BY <1>3, Zenon DEF OutputsAre
<1>4. CASE Allocate \/ DatasetReady \/ Joined
  <2>1. IsSearching(miner)
    BY <1>4, NoPcIsTwo DEF Allocate, DatasetReady, Joined, SearchInv, SearchTypes
  <2>2. miner'.pc # "cache"
    BY <1>4, <2>1, NoPcIsTwo DEF Allocate, DatasetReady, Joined, IsSearching
  <2> QED
    BY <1>2, <2>2
<1>5. CASE ReadSource \/ GivesUp \/ MinerDies
  <2>1. miner'.pc # "cache"
    BY <1>5, NoPcIsTwo DEF ReadSource, GivesUp, MinerDies
  <2> QED
    BY <1>2, <2>1
<1>6. CASE Empties \/ Fills
  <2>1. IsPatching(miner)
    BY <1>6, NoPcIsTwo DEF Empties, Fills, SearchInv, SearchTypes
  <2>2. miner'.pc # "cache"
    BY <1>6, <2>1, NoPcIsTwo DEF Empties, Fills, IsPatching
  <2> QED
    BY <1>2, <2>2
<1>7. CASE \E t \in Threads : InitDataset(t) \/ new_vm(t) \/ Hashes(t) \/ SetsStop(t)
  BY <1>3, <1>7 DEF InitDataset, new_vm, Hashes, SetsStop
<1>8. CASE UNCHANGED genesisVars
  BY <1>3, <1>8 DEF genesisVars
<1> QED
  BY <1>1, <1>4, <1>5, <1>6, <1>7, <1>8 DEF GenesisNext, Networks

\* build_genesis_outputs and the scripts it locks: the premine mined is the whole of it,
\* and each of its tranches opens at its own time, which no interpreter reads as a height.
THEOREM TranchesStayLocked == GenesisSpec => []TranchesAreLocked
<1>1. GenesisInit => OutputsAre
  BY NoPcIsTwo DEF GenesisInit, OutputsAre
<1>2. SearchInv /\ OutputsAre /\ [GenesisNext]_genesisVars => OutputsAre'
  BY OutputsAreKept
<1>3. OutputsAre => TranchesAreLocked
  BY TranchesOf
<1> QED
  BY <1>1, <1>2, <1>3, GenesisInv, PTL DEF GenesisSpec

\* The three of them together, as the run checks them.
THEOREM GenesisStaysSound == GenesisSpec => []GenesisIsSound
<1>1. SearchIsSound /\ TranchesAreLocked /\ SourceSurvives => GenesisIsSound
  BY DEF GenesisIsSound
<1> QED
  BY <1>1, SearchesAreSound, TranchesStayLocked, SourcesSurvive, PTL
=============================================================================
