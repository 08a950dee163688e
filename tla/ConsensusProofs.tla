-------------------------- MODULE ConsensusProofs ---------------------------
(*****************************************************************************)
(* The consensus rules that are arithmetic: the cap on the money, the supply *)
(* that is reported and the treasury's share, for every schedule that halves, *)
(* and the retarget for any window, spacing and clamp, and any digits of the *)
(* compact form.                                                             *)
(*                                                                           *)
(* That issued never passes MaxMoney is not inductive: one block's subsidy   *)
(* may reach beyond it unless what is left is known.  What is left, at the   *)
(* k-th block of epoch e, is at least (2 * Interval - k) * Halved[e]: the    *)
(* rest of this epoch, and as much again for all the epochs after it.        *)
(*                                                                           *)
(* The closed forms are sums over epochs, and a chain grows by blocks: at    *)
(* the k-th block of epoch e each form is the sum of the terms before e      *)
(* and k times what a block of e adds, and where the epoch ends, or the      *)
(* treasury's window does, that is the term of e.                            *)
(*****************************************************************************)
EXTENDS Emission, DarkGravity, SumProofs, SequenceTheorems, TLAPS

-----------------------------------------------------------------------------
(* The money.                                                              *)

\* The terms of the two closed forms, as functions of the epoch.
Epochs == 0..(MaxHalvings - 1)
Issues == [e \in Epochs |-> Interval * Halved[e]]
Shares == [e \in Epochs |-> (Last(e) - First(e) + 1) * GetDevFeeAmount(Halved[e], First(e))]

Before(n) == {e \in Epochs : e < n}

Room == \E e \in Nat, k \in 1..Interval :
          /\ height = e * Interval + k
          /\ e < MaxHalvings => issued + (2 * Interval - k) * Halved[e] <= MaxMoney

CapInv ==
  /\ TypeOK
  /\ minted <= issued /\ issued <= MaxMoney /\ owed <= issued
  /\ height = 0 => issued = Premine
  /\ height > 0 => Room

-----------------------------------------------------------------------------
(* Arithmetic.                                                              *)

LEMMA QuotientOfSum ==
  ASSUME NEW n \in Nat \ {0}, NEW e \in Nat, NEW j \in 0..(n - 1)
  PROVE  (e * n + j) \div n = e
  BY SMT

LEMMA ShareIsPart ==
  ASSUME NEW s \in Nat, NEW p \in 0..100
  PROVE  (s * p) \div 100 \in 0..s
<1>1. s * p \in Nat /\ s * p <= s * 100
  BY SMT
<1> DEFINE m == s * p
<1>2. m \in Nat /\ m <= s * 100
  BY <1>1
<1> HIDE DEF m
<1>3. m \div 100 \in 0..s
  BY <1>2, SMT
<1> QED
  BY <1>3 DEF m

LEMMA HalvedTwice ==
  ASSUME NEW e \in 0..(MaxHalvings - 1)
  PROVE  /\ Halved[e] \in Nat /\ Halved[e + 1] \in Nat
         /\ 2 * Halved[e + 1] <= Halved[e]
<1>1. Halved[e] \in Nat /\ Halved[e + 1] \in Nat
  BY ConstantsAssumption, ShiftAssumption, SMT
<1>2. Halved[e + 1] = Halved[e] \div 2
  BY ShiftAssumption
<1> QED
  BY <1>1, <1>2, SMT
-----------------------------------------------------------------------------
(* The schedule.                                                            *)

LEMMA SubsidyAt ==
  ASSUME NEW e \in Nat, NEW k \in 1..Interval
  PROVE  GetBlockSubsidy(e * Interval + k) = IF e >= MaxHalvings THEN 0 ELSE Halved[e]
<1>1. Interval \in Nat \ {0}
  BY ConstantsAssumption
<1>2. e * Interval \in Nat
  BY <1>1, SMT
<1>3. e * Interval + k # 0 /\ (e * Interval + k) - 1 = e * Interval + (k - 1)
  BY <1>1, <1>2, SMT
<1>4. k - 1 \in 0..(Interval - 1)
  BY <1>1, SMT
<1>5. (e * Interval + (k - 1)) \div Interval = e
  BY <1>1, <1>4, QuotientOfSum
<1> QED
  BY <1>3, <1>5 DEF GetBlockSubsidy, Halvings

\* Where the next block is, and what it pays.
LEMMA NextPlace ==
  ASSUME NEW e \in Nat, NEW k \in 1..Interval
  PROVE  LET h == e * Interval + k IN
         \/ k < Interval /\ h + 1 = e * Interval + (k + 1) /\ k + 1 \in 1..Interval
         \/ k = Interval /\ h + 1 = (e + 1) * Interval + 1 /\ 1 \in 1..Interval
  BY ConstantsAssumption, SMT

LEMMA SubsidyIsNat ==
  ASSUME NEW h \in Nat
  PROVE  GetBlockSubsidy(h) \in Nat
<1>1. CASE h = 0
  BY <1>1, ConstantsAssumption DEF GetBlockSubsidy
<1>2. CASE h # 0 /\ Halvings(h) >= MaxHalvings
  BY <1>2 DEF GetBlockSubsidy
<1>3. CASE h # 0 /\ ~(Halvings(h) >= MaxHalvings)
  <2>1. Halvings(h) \in Nat
    BY <1>3, ConstantsAssumption, SMT DEF Halvings
  <2>2. Halvings(h) \in 0..MaxHalvings
    BY <1>3, <2>1, ConstantsAssumption, SMT
  <2> QED
    BY <1>3, <2>2, ShiftAssumption DEF GetBlockSubsidy
<1> QED
  BY <1>1, <1>2, <1>3

LEMMA ShareOfSubsidy ==
  ASSUME NEW s \in Nat, NEW h \in Nat
  PROVE  GetDevFeeAmount(s, h) \in 0..s
<1>1. Percent \in 0..100
  BY ConstantsAssumption
<1>2. (s * Percent) \div 100 \in 0..s
  BY <1>1, ShareIsPart
<1> QED
  BY <1>2 DEF GetDevFeeAmount

-----------------------------------------------------------------------------

LEMMA CapInit == Init => CapInv
<1> SUFFICES ASSUME Init PROVE CapInv
  OBVIOUS
<1>1. height = 0 /\ issued = Premine /\ minted = Premine /\ owed = 0 /\ treasury = 0
  BY DEF Init, GetBlockSubsidy
<1>2. Premine \in Nat /\ MaxHeight \in Nat
  BY ConstantsAssumption
<1>3. Interval * Initial \in Nat
  BY ConstantsAssumption, SMT
<1>4. Premine <= MaxMoney
  BY <1>2, <1>3, ConstantsAssumption, SMT
<1> QED
  BY <1>1, <1>2, <1>4, SMT DEF CapInv, TypeOK

\* The block after the genesis block.
LEMMA FirstBlock ==
  ASSUME CapInv, height = 0, height' = 1,
         issued' = issued + GetBlockSubsidy(1)
  PROVE  Room' /\ issued' <= MaxMoney
<1> DEFINE n == Interval
<1>1. n \in Nat \ {0} /\ MaxHalvings \in Nat \ {0} /\ Initial \in Nat /\ Premine \in Nat
  BY ConstantsAssumption
<1>2. Halved[0] = Initial
  BY ShiftAssumption
<1>3. 0 * n + 1 = 1 /\ 1 \in 1..n
  BY <1>1, SMT
<1>4. GetBlockSubsidy(1) = Initial
  <2>1. GetBlockSubsidy(0 * Interval + 1) = Halved[0]
    BY <1>1, <1>3, SubsidyAt, SMT
  <2> QED
    BY <2>1, <1>2, <1>3
<1>5. issued' = Premine + Initial
  BY <1>4 DEF CapInv
<1>6. MaxMoney = Premine + 2 * (n * Initial)
  BY ConstantsAssumption
<1>7. issued' + (2 * n - 1) * Initial <= MaxMoney
  BY <1>1, <1>5, <1>6, SMT
<1>8. issued' <= MaxMoney
  <2>1. (2 * n - 1) * Initial \in Nat
    BY <1>1, SMT
  <2> QED
    BY <1>1, <1>5, <1>7, <2>1, ConstantsAssumption, SMT
<1>9. Room'
  <2>1. height' = 0 * Interval + 1
    BY <1>3
  <2>2. issued' + (2 * Interval - 1) * Halved[0] <= MaxMoney
    BY <1>7, <1>2
  <2> QED
    BY <2>1, <2>2, <1>3 DEF Room
<1> QED
  BY <1>8, <1>9
\* A block within an epoch takes one subsidy from the room; the first of the next
\* epoch finds half as much room for blocks that pay half as much.
LEMMA LaterBlock ==
  ASSUME CapInv, height > 0, height' = height + 1,
         issued' = issued + GetBlockSubsidy(height + 1)
  PROVE  Room' /\ issued' <= MaxMoney
<1> DEFINE n == Interval
<1>1. n \in Nat \ {0} /\ MaxHalvings \in Nat \ {0}
  BY ConstantsAssumption
<1>2. PICK e \in Nat, k \in 1..n :
        /\ height = e * n + k
        /\ e < MaxHalvings => issued + (2 * n - k) * Halved[e] <= MaxMoney
  BY DEF CapInv, Room
<1>3. issued \in Nat /\ issued <= MaxMoney /\ MaxMoney \in Int
  <2>1. Interval * Initial \in Nat
    BY ConstantsAssumption, SMT
  <2> QED
    BY <2>1, ConstantsAssumption, SMT DEF CapInv, TypeOK
<1>4. \/ k < n /\ height + 1 = e * n + (k + 1) /\ k + 1 \in 1..n
      \/ k = n /\ height + 1 = (e + 1) * n + 1 /\ 1 \in 1..n
  BY <1>2, NextPlace
<1>5. CASE k < n /\ height + 1 = e * n + (k + 1) /\ k + 1 \in 1..n
  <2>1. GetBlockSubsidy(height + 1) = IF e >= MaxHalvings THEN 0 ELSE Halved[e]
    BY <1>5, SubsidyAt
  <2>2. CASE e >= MaxHalvings
    <3>1. issued' = issued
      BY <2>1, <2>2, <1>3, SMT
    <3>2. ~(e < MaxHalvings)
      BY <2>2, <1>1, SMT
    <3> QED
      BY <3>1, <3>2, <1>3, <1>5 DEF Room
  <2>3. CASE e < MaxHalvings
    <3>1. Halved[e] \in Nat
      BY <2>3, <1>1, ShiftAssumption, SMT
    <3>2. issued' = issued + Halved[e]
      BY <2>1, <2>3, <1>1, SMT
    <3>3. issued' + (2 * n - (k + 1)) * Halved[e] <= MaxMoney
      BY <1>1, <1>2, <1>3, <2>3, <3>1, <3>2, SMT
    <3>4. (2 * n - (k + 1)) * Halved[e] \in Nat
      <4>1. 2 * n - (k + 1) \in Nat
        BY <1>1, <1>5, SMT
      <4> QED
        BY <4>1, <3>1, SMT
    <3>5. issued' <= MaxMoney
      BY <1>3, <3>1, <3>2, <3>3, <3>4, SMT
    <3> QED
      BY <3>3, <3>5, <1>5 DEF Room
  <2> QED
    BY <2>2, <2>3, <1>1, SMT
<1>6. CASE k = n /\ height + 1 = (e + 1) * n + 1 /\ 1 \in 1..n
  <2>1. GetBlockSubsidy(height + 1) = IF e + 1 >= MaxHalvings THEN 0 ELSE Halved[e + 1]
    BY <1>6, SubsidyAt, SMT
  <2>2. CASE e + 1 >= MaxHalvings
    <3>1. issued' = issued
      BY <2>1, <2>2, <1>3, SMT
    <3>2. ~(e + 1 < MaxHalvings) /\ e + 1 \in Nat
      BY <2>2, <1>1, SMT
    <3> QED
      BY <3>1, <3>2, <1>3, <1>6 DEF Room
  <2>3. CASE e + 1 < MaxHalvings
    <3>1. Halved[e] \in Nat /\ Halved[e + 1] \in Nat /\ 2 * Halved[e + 1] <= Halved[e]
      <4>1. e \in 0..(MaxHalvings - 1)
        BY <2>3, <1>1, SMT
      <4> QED
        BY <4>1, HalvedTwice
    <3>2. issued' = issued + Halved[e + 1]
      BY <2>1, <2>3, <1>1, SMT
    <3>3. issued + n * Halved[e] <= MaxMoney
      BY <1>1, <1>2, <1>3, <1>6, <2>3, <3>1, SMT
    <3>4. n * (2 * Halved[e + 1]) <= n * Halved[e]
      BY <1>1, <3>1, SMT
    <3>5. issued' + (2 * n - 1) * Halved[e + 1] <= MaxMoney
      BY <1>1, <1>3, <3>1, <3>2, <3>3, <3>4, SMT
    <3>6. (2 * n - 1) * Halved[e + 1] \in Nat
      BY <1>1, <3>1, SMT
    <3>7. issued' <= MaxMoney
      BY <1>3, <3>1, <3>2, <3>5, <3>6, SMT
    <3> QED
      BY <3>5, <3>7, <1>6 DEF Room
  <2> QED
    BY <2>2, <2>3, <1>1, SMT
<1> QED
  BY <1>4, <1>5, <1>6

LEMMA CapStep == CapInv /\ [Next]_vars => CapInv'
<1> SUFFICES ASSUME CapInv, [Next]_vars PROVE CapInv'
  OBVIOUS
<1>1. CASE UNCHANGED vars
  BY <1>1 DEF CapInv, TypeOK, Room, vars
<1>2. CASE Next
  <2> DEFINE s == GetBlockSubsidy(height + 1)
  <2>1. PICK mint \in Around(s), paid \in Around(GetDevFeeAmount(s, height + 1)) :
          Connect(mint, paid)
    BY <1>2 DEF Next
  <2>2. height \in Nat /\ height + 1 \in Nat /\ MaxHeight \in Nat
    BY ConstantsAssumption, SMT DEF CapInv, TypeOK
  <2>3. s \in Nat /\ GetDevFeeAmount(s, height + 1) \in 0..s
    BY <2>2, SubsidyIsNat, ShareOfSubsidy
  <2>4. mint \in Nat /\ paid \in Nat
    <3>1. Slack \in Nat
      BY ConstantsAssumption
    <3> QED
      BY <2>3, <3>1, SMT DEF Around
  <2>5. height' = height + 1 /\ issued' = issued + s /\ minted' = minted + mint
    BY <2>1 DEF Connect
  <2>6. Room' /\ issued' <= MaxMoney
    <3>1. CASE height = 0
      BY <3>1, <2>5, FirstBlock
    <3>2. CASE height > 0
      BY <3>2, <2>5, LaterBlock
    <3> QED
      BY <3>1, <3>2, <2>2, SMT
  <2>7. TypeOK'
    BY <2>1, <2>2, <2>3, <2>4, SMT DEF Connect, CapInv, TypeOK
  <2>8. minted' <= issued'
    BY <2>1, <2>3, <2>4, SMT DEF Connect, CheckSubsidy, CapInv, TypeOK
  <2>9. owed' <= issued'
    BY <2>1, <2>3, SMT DEF Connect, CapInv, TypeOK
  <2> QED
    BY <2>2, <2>5, <2>6, <2>7, <2>8, <2>9, SMT DEF CapInv
<1> QED
  BY <1>1, <1>2

\* No chain, of any length and whatever its miners claim, holds more money than
\* MaxMoney (the assertion at the end of GetTotalSupplyAtHeight, subsidy.cpp 130).
THEOREM MoneyIsCapped == Spec => []SupplyIsCapped
<1>1. CapInv => SupplyIsCapped
  BY DEF CapInv, SupplyIsCapped
<1> QED
  BY <1>1, CapInit, CapStep, PTL DEF Spec

-----------------------------------------------------------------------------
(* The closed forms.                                                        *)

\* Where the tip is within its epoch.
LEMMA Place ==
  ASSUME NEW h \in Nat \ {0}
  PROVE  \E e \in Nat, k \in 1..Interval : h = e * Interval + k
<1> DEFINE n == Interval
           e == (h - 1) \div n
           k == ((h - 1) % n) + 1
<1>1. n \in Nat \ {0} /\ h - 1 \in Nat
  BY ConstantsAssumption
<1>2. e \in Nat /\ k \in 1..n /\ h = e * n + k
  BY <1>1, SMT
<1> QED
  BY <1>2

\* An epoch that starts earlier ends before a later one starts.
LEMMA EpochsAreOrdered ==
  ASSUME NEW e \in Nat, NEW k \in 1..Interval, NEW d \in Nat
  PROVE  /\ d < e => (d + 1) * Interval <= e * Interval /\ First(d) < e * Interval + k
         /\ d = e => First(d) <= e * Interval + k /\ e * Interval + k <= (d + 1) * Interval
         /\ d > e => First(d) > e * Interval + k
<1> DEFINE n == Interval
<1>1. n \in Nat \ {0}
  BY ConstantsAssumption
<1>2. CASE d < e
  <2>1. (d + 1) * n <= e * n
    BY <1>1, <1>2, SMT
  <2>2. (d + 1) * n = d * n + n /\ d * n \in Nat /\ e * n \in Nat
    BY <1>1, SMT
  <2> QED
    BY <1>1, <1>2, <2>1, <2>2, SMT DEF First
<1>3. CASE d = e
  <2>1. (d + 1) * n = d * n + n /\ d * n \in Nat
    BY <1>1, SMT
  <2> QED
    BY <1>1, <1>3, <2>1, SMT DEF First
<1>4. CASE d > e
  <2>1. (e + 1) * n <= d * n
    BY <1>1, <1>4, SMT
  <2>2. (e + 1) * n = e * n + n /\ d * n \in Nat /\ e * n \in Nat
    BY <1>1, SMT
  <2> QED
    BY <1>1, <1>4, <2>1, <2>2, SMT DEF First
<1> QED
  BY <1>2, <1>3, <1>4, SMT

\* Integers all, so that they can be summed.
LEMMA TermsAreInts ==
  /\ IsFiniteSet(Epochs)
  /\ \A e \in Epochs : Halved[e] \in Nat
  /\ \A e \in Epochs : Issues[e] \in Int
  /\ \A e \in Epochs : First(e) \in Nat /\ Last(e) \in Nat /\ Shares[e] \in Int
<1>1. IsFiniteSet(Epochs)
  BY ConstantsAssumption, FS_Interval DEF Epochs
<1>2. ASSUME NEW e \in Epochs
      PROVE  /\ Halved[e] \in Nat /\ Issues[e] \in Int
             /\ First(e) \in Nat /\ Last(e) \in Nat /\ Shares[e] \in Int
  <2>1. Halved[e] \in Nat /\ e \in Nat /\ Interval \in Nat /\ LastFee \in Nat
    BY ConstantsAssumption, ShiftAssumption, SMT DEF Epochs
  <2>2. Interval * Halved[e] \in Nat /\ First(e) \in Nat /\ (e + 1) * Interval \in Nat
    BY <2>1, SMT DEF First
  <2>3. Last(e) \in {(e + 1) * Interval, LastFee}
    BY <2>1, <2>2 DEF Last, Min
  <2>4. GetDevFeeAmount(Halved[e], First(e)) \in Nat
    <3>1. GetDevFeeAmount(Halved[e], First(e)) \in 0..Halved[e]
      BY <2>1, <2>2, ShareOfSubsidy
    <3> QED
      BY <3>1, <2>1
  <2>5. (Last(e) - First(e) + 1) * GetDevFeeAmount(Halved[e], First(e)) \in Int
    BY <2>1, <2>2, <2>3, <2>4, SMT
  <2> QED
    BY <2>1, <2>2, <2>3, <2>5 DEF Issues, Shares
<1> QED
  BY <1>1, <1>2

\* The sum of GetTotalSupplyAtHeight, over any epochs.
LEMMA IssuesAreSummed ==
  ASSUME NEW S \in SUBSET Epochs
  PROVE  MapThenSumSet(LAMBDA e : Interval * Halved[e], S)
           = SumFunctionOnSet(Issues, S)
<1> DEFINE Term(e) == Interval * Halved[e]
           Sums(f) == f = [s \in SUBSET S |->
                             IF s = {} THEN 0 ELSE Term(Pick(s)) + f[s \ {Pick(s)}]]
           g == CHOOSE f : Sums(f)
<1>1. \A x \in S : Issues[x] = Term(x) /\ Issues[x] \in Int
  BY TermsAreInts DEF Issues
<1>2. IsFiniteSet(S)
  BY TermsAreInts, FS_Subset
<1>3. MapThenSumSet(Term, S) = g[S]
  BY Zenon DEF MapThenSumSet, MapThenFoldSet, Pick
<1>4. ASSUME NEW f PROVE Sums(f) <=> Adds(f, S, Issues)
  <2> HIDE DEF Term
  <2>1. \A s \in SUBSET S : s # {} => Term(Pick(s)) = Issues[Pick(s)]
    BY <1>1, PickIsIn
  <2>2. [s \in SUBSET S |-> IF s = {} THEN 0 ELSE Term(Pick(s)) + f[s \ {Pick(s)}]]
          = [s \in SUBSET S |-> IF s = {} THEN 0 ELSE Issues[Pick(s)] + f[s \ {Pick(s)}]]
    BY <2>1
  <2> QED
    BY <2>2 DEF Adds
<1> HIDE DEF Sums
<1>5. \E f : Sums(f)
  BY <1>1, <1>2, <1>4, SumExists
<1>6. Adds(g, S, Issues)
  BY <1>4, <1>5
<1> HIDE DEF g
<1>7. SumFunctionOnSet(Issues, S) = g[S]
  BY <1>1, <1>2, <1>6, SumWithin
<1> QED
  BY <1>3, <1>7 DEF Term

\* The sum of GetLifetimeDevFee, over any epochs.
LEMMA SharesAreSummed ==
  ASSUME NEW S \in SUBSET Epochs
  PROVE  MapThenSumSet(LAMBDA e : (Last(e) - First(e) + 1) * GetDevFeeAmount(Halved[e], First(e)), S)
           = SumFunctionOnSet(Shares, S)
<1> DEFINE Term(e) == (Last(e) - First(e) + 1) * GetDevFeeAmount(Halved[e], First(e))
           Sums(f) == f = [s \in SUBSET S |->
                             IF s = {} THEN 0 ELSE Term(Pick(s)) + f[s \ {Pick(s)}]]
           g == CHOOSE f : Sums(f)
<1>1. \A x \in S : Shares[x] = Term(x) /\ Shares[x] \in Int
  BY TermsAreInts DEF Shares
<1>2. IsFiniteSet(S)
  BY TermsAreInts, FS_Subset
<1>3. MapThenSumSet(Term, S) = g[S]
  BY Zenon DEF MapThenSumSet, MapThenFoldSet, Pick
<1>4. ASSUME NEW f PROVE Sums(f) <=> Adds(f, S, Shares)
  <2> HIDE DEF Term
  <2>1. \A s \in SUBSET S : s # {} => Term(Pick(s)) = Shares[Pick(s)]
    BY <1>1, PickIsIn
  <2>2. [s \in SUBSET S |-> IF s = {} THEN 0 ELSE Term(Pick(s)) + f[s \ {Pick(s)}]]
          = [s \in SUBSET S |-> IF s = {} THEN 0 ELSE Shares[Pick(s)] + f[s \ {Pick(s)}]]
    BY <2>1
  <2> QED
    BY <2>2 DEF Adds
<1> HIDE DEF Sums
<1>5. \E f : Sums(f)
  BY <1>1, <1>2, <1>4, SumExists
<1>6. Adds(g, S, Shares)
  BY <1>4, <1>5
<1> HIDE DEF g
<1>7. SumFunctionOnSet(Shares, S) = g[S]
  BY <1>1, <1>2, <1>6, SumWithin
<1> QED
  BY <1>3, <1>7 DEF Term

\* A sum over the epochs before one grows by that epoch's term.
LEMMA BeforeGrows ==
  ASSUME NEW w, \A x \in Epochs : w[x] \in Int, NEW e \in Nat
  PROVE  /\ SumFunctionOnSet(w, Before(0)) = 0
         /\ SumFunctionOnSet(w, Before(e)) \in Int
         /\ e < MaxHalvings
              => SumFunctionOnSet(w, Before(e + 1)) = w[e] + SumFunctionOnSet(w, Before(e))
         /\ e >= MaxHalvings => Before(e + 1) = Before(e)
<1>1. MaxHalvings \in Nat \ {0}
  BY ConstantsAssumption
<1>2. /\ SumFunctionOnSet(w, {}) = 0
      /\ \A S \in SUBSET Epochs : SumFunctionOnSet(w, S) \in Int
      /\ \A S \in SUBSET Epochs : \A x \in S :
           SumFunctionOnSet(w, S) = w[x] + SumFunctionOnSet(w, S \ {x})
  BY TermsAreInts, SumIsASum
<1>3. Before(e) \in SUBSET Epochs /\ Before(e + 1) \in SUBSET Epochs
  BY DEF Before
<1>4. Before(0) = {}
  BY DEF Before, Epochs
<1>5. ASSUME e < MaxHalvings
      PROVE  SumFunctionOnSet(w, Before(e + 1)) = w[e] + SumFunctionOnSet(w, Before(e))
  <2>1. e \in Before(e + 1) /\ Before(e + 1) \ {e} = Before(e)
    BY <1>1, <1>5 DEF Before, Epochs
  <2>2. SumFunctionOnSet(w, Before(e + 1)) = w[e] + SumFunctionOnSet(w, Before(e + 1) \ {e})
    BY <1>2, <1>3, <2>1
  <2> QED
    BY <2>1, <2>2
<1>6. ASSUME e >= MaxHalvings
      PROVE  Before(e + 1) = Before(e)
  BY <1>1, <1>6 DEF Before, Epochs
<1>7. SumFunctionOnSet(w, Before(0)) = 0
  BY <1>2, <1>4
<1>8. SumFunctionOnSet(w, Before(e)) \in Int
  BY <1>2, <1>3
<1> QED
  BY <1>5, <1>6, <1>7, <1>8

\* The remainder that GetTotalSupplyAtHeight counts on from the whole epochs.
LEMMA RemainderOfSum ==
  ASSUME NEW n \in Nat \ {0}, NEW e \in Nat, NEW j \in 0..(n - 1)
  PROVE  (e * n + j) % n = j
  BY SMT

\* The closed form at the genesis block is the premine.
LEMMA SupplyAtGenesis == GetTotalSupplyAtHeight(0) = Premine
<1> DEFINE none == {d \in 0..(MaxHalvings - 1) : d < Completed(0)}
           rest == (((0 - 1) % Interval) + 1) * Halved[Completed(0)]
<1>1. none = Before(0) /\ Before(0) \in SUBSET Epochs
  BY DEF Before, Epochs, Completed
<1>2. MapThenSumSet(LAMBDA d : Interval * Halved[d], none) = 0
  <2>1. MapThenSumSet(LAMBDA d : Interval * Halved[d], Before(0))
          = SumFunctionOnSet(Issues, Before(0))
    BY <1>1, IssuesAreSummed
  <2>2. SumFunctionOnSet(Issues, Before(0)) = 0
    BY TermsAreInts, BeforeGrows
  <2> HIDE DEF none
  <2> QED
    BY <1>1, <2>1, <2>2
<1>3. GetTotalSupplyAtHeight(0)
        = Premine + MapThenSumSet(LAMBDA d : Interval * Halved[d], none)
            + (IF 0 >= 1 /\ Completed(0) < MaxHalvings THEN rest ELSE 0)
  BY Zenon DEF GetTotalSupplyAtHeight
<1> HIDE DEF none, rest
<1>4. (IF 0 >= 1 /\ Completed(0) < MaxHalvings THEN rest ELSE 0) = 0
  BY SMT
<1>5. GetTotalSupplyAtHeight(0) = Premine + 0 + 0
  BY <1>2, <1>3, <1>4
<1> QED
  BY <1>5, ConstantsAssumption

\* The closed form at the k-th block of epoch e.
LEMMA SupplyAt ==
  ASSUME NEW e \in Nat, NEW k \in 1..Interval
  PROVE  GetTotalSupplyAtHeight(e * Interval + k)
           = Premine + SumFunctionOnSet(Issues, Before(e))
               + (IF e < MaxHalvings THEN k * Halved[e] ELSE 0)
<1> DEFINE h == e * Interval + k
<1>1. Interval \in Nat \ {0} /\ e * Interval \in Nat
  BY ConstantsAssumption, SMT
<1>2. h >= 1 /\ h - 1 = e * Interval + (k - 1) /\ k - 1 \in 0..(Interval - 1)
  BY <1>1, SMT
<1>3. (h - 1) \div Interval = e /\ (h - 1) % Interval = k - 1
  BY <1>1, <1>2, QuotientOfSum, RemainderOfSum
<1> HIDE DEF h
<1>4. Completed(h) = e
  BY <1>2, <1>3 DEF Completed, Halvings
<1>5. MapThenSumSet(LAMBDA d : Interval * Halved[d],
                    {d \in 0..(MaxHalvings - 1) : d < Completed(h)})
        = SumFunctionOnSet(Issues, Before(e))
  <2>1. {d \in 0..(MaxHalvings - 1) : d < Completed(h)} = Before(e)
    BY <1>4 DEF Before, Epochs
  <2>2. Before(e) \in SUBSET Epochs
    BY DEF Before
  <2>3. MapThenSumSet(LAMBDA d : Interval * Halved[d], Before(e))
          = SumFunctionOnSet(Issues, Before(e))
    BY <2>2, IssuesAreSummed
  <2> QED
    BY <2>1, <2>3
<1>6. GetTotalSupplyAtHeight(h)
        = Premine + SumFunctionOnSet(Issues, Before(e))
            + (IF h >= 1 /\ Completed(h) < MaxHalvings
               THEN (((h - 1) % Interval) + 1) * Halved[Completed(h)] ELSE 0)
  BY <1>5 DEF GetTotalSupplyAtHeight
<1>7. ((h - 1) % Interval) + 1 = k
  BY <1>1, <1>3, SMT
<1>8. GetTotalSupplyAtHeight(h)
        = Premine + SumFunctionOnSet(Issues, Before(e))
            + (IF e < MaxHalvings THEN k * Halved[e] ELSE 0)
  BY <1>2, <1>4, <1>6, <1>7
<1> QED
  BY <1>8 DEF h

\* Each block adds its subsidy to the closed form.
LEMMA SupplyGrows ==
  ASSUME NEW h \in Nat
  PROVE  GetTotalSupplyAtHeight(h + 1) = GetTotalSupplyAtHeight(h) + GetBlockSubsidy(h + 1)
<1> DEFINE n == Interval
           sum(d) == SumFunctionOnSet(Issues, Before(d))
<1>1. n \in Nat \ {0} /\ MaxHalvings \in Nat \ {0} /\ Premine \in Nat
  BY ConstantsAssumption
<1>2. \A d \in Epochs : Issues[d] \in Int
  BY TermsAreInts
<1>3. \A d \in Nat : d < MaxHalvings => Halved[d] \in Nat
  BY <1>1, ShiftAssumption, SMT
<1>4. ASSUME NEW d \in Nat
      PROVE  /\ sum(0) = 0 /\ sum(d) \in Int
             /\ d < MaxHalvings => sum(d + 1) = n * Halved[d] + sum(d)
             /\ d >= MaxHalvings => sum(d + 1) = sum(d)
  <2>1. d < MaxHalvings => Issues[d] = n * Halved[d]
    BY <1>1, SMT DEF Issues, Epochs
  <2> QED
    BY <1>2, <2>1, BeforeGrows
<1>5. CASE h = 0
  <2>1. 0 * n + 1 = 1 /\ 1 \in 1..n
    BY <1>1, SMT
  <2>2. GetTotalSupplyAtHeight(1) = Premine + sum(0) + 1 * Halved[0]
    <3>1. GetTotalSupplyAtHeight(0 * Interval + 1)
            = Premine + sum(0) + (IF 0 < MaxHalvings THEN 1 * Halved[0] ELSE 0)
      BY <2>1, SupplyAt
    <3> QED
      BY <1>1, <2>1, <3>1
  <2>3. GetBlockSubsidy(1) = Halved[0]
    <3>1. GetBlockSubsidy(0 * Interval + 1) = IF 0 >= MaxHalvings THEN 0 ELSE Halved[0]
      BY <2>1, SubsidyAt
    <3> QED
      BY <1>1, <2>1, <3>1
  <2>4. GetTotalSupplyAtHeight(0) = Premine
    BY SupplyAtGenesis
  <2>5. Halved[0] \in Nat
    BY <1>1, <1>3
  <2> HIDE DEF sum
  <2> QED
    BY <1>1, <1>4, <1>5, <2>2, <2>3, <2>4, <2>5
<1>6. CASE h # 0
  <2>1. PICK e \in Nat, k \in 1..n : h = e * n + k
    BY <1>6, Place
  <2>2. GetTotalSupplyAtHeight(h) = Premine + sum(e)
                                      + (IF e < MaxHalvings THEN k * Halved[e] ELSE 0)
    BY <2>1, SupplyAt
  <2>3. \/ k < n /\ h + 1 = e * n + (k + 1) /\ k + 1 \in 1..n
        \/ k = n /\ h + 1 = (e + 1) * n + 1 /\ 1 \in 1..n
    BY <2>1, NextPlace
  <2>4. CASE k < n /\ h + 1 = e * n + (k + 1) /\ k + 1 \in 1..n
    <3>1. GetTotalSupplyAtHeight(h + 1)
            = Premine + sum(e) + (IF e < MaxHalvings THEN (k + 1) * Halved[e] ELSE 0)
      BY <2>4, SupplyAt
    <3>2. GetBlockSubsidy(h + 1) = IF e >= MaxHalvings THEN 0 ELSE Halved[e]
      BY <2>4, SubsidyAt
    <3>3. e < MaxHalvings => (k + 1) * Halved[e] = k * Halved[e] + Halved[e]
                               /\ k * Halved[e] \in Nat
      BY <1>3, SMT
    <3> HIDE DEF sum
    <3>4. CASE e < MaxHalvings
      BY <1>1, <1>3, <1>4, <2>2, <3>1, <3>2, <3>3, <3>4
    <3>5. CASE e >= MaxHalvings
      BY <1>1, <1>3, <1>4, <2>2, <3>1, <3>2, <3>5
    <3> QED
      BY <1>1, <3>4, <3>5
  <2>5. CASE k = n /\ h + 1 = (e + 1) * n + 1 /\ 1 \in 1..n
    <3>0. e + 1 \in Nat
      OBVIOUS
    <3>1. GetTotalSupplyAtHeight(h + 1)
            = Premine + sum(e + 1) + (IF e + 1 < MaxHalvings THEN 1 * Halved[e + 1] ELSE 0)
      BY <2>5, <3>0, SupplyAt
    <3>2. GetBlockSubsidy(h + 1) = IF e + 1 >= MaxHalvings THEN 0 ELSE Halved[e + 1]
      BY <2>5, <3>0, SubsidyAt
    <3>3. e < MaxHalvings => n * Halved[e] \in Nat
      BY <1>1, <1>3, SMT
    <3>4. e + 1 < MaxHalvings => Halved[e + 1] \in Nat
      BY <1>3, <3>0
    <3>5. sum(e) \in Int /\ (e < MaxHalvings => sum(e + 1) = n * Halved[e] + sum(e))
                         /\ (e >= MaxHalvings => sum(e + 1) = sum(e))
      BY <1>4
    <3> HIDE DEF sum
    <3>6. CASE e + 1 < MaxHalvings
      BY <1>1, <2>2, <2>5, <3>1, <3>2, <3>3, <3>4, <3>5, <3>6
    <3>7. CASE e + 1 >= MaxHalvings
      BY <1>1, <2>2, <2>5, <3>1, <3>2, <3>3, <3>5, <3>7
    <3> QED
      BY <1>1, <3>6, <3>7
  <2> QED
    BY <2>3, <2>4, <2>5
<1> QED
  BY <1>5, <1>6

\* What getwaminfo reports (rpc/wam_mining.cpp) is the sum of the subsidies, at every
\* height of every schedule: the closed form takes each block where it belongs.
THEOREM SupplyIsReported == Spec => []SupplyIsExact
<1>1. Init => SupplyIsExact
  <2> SUFFICES ASSUME Init PROVE SupplyIsExact
    OBVIOUS
  <2>1. height = 0 /\ issued = Premine
    BY DEF Init, GetBlockSubsidy
  <2> QED
    BY <2>1, SupplyAtGenesis DEF SupplyIsExact
<1>2. SupplyIsExact /\ TypeOK /\ [Next]_vars => SupplyIsExact'
  <2> SUFFICES ASSUME SupplyIsExact, TypeOK, [Next]_vars PROVE SupplyIsExact'
    OBVIOUS
  <2>1. CASE UNCHANGED vars
    BY <2>1 DEF vars, SupplyIsExact
  <2>2. CASE Next
    <3>1. height' = height + 1 /\ issued' = issued + GetBlockSubsidy(height + 1)
      BY <2>2 DEF Next, Connect
    <3>2. height \in Nat
      BY ConstantsAssumption DEF TypeOK
    <3>3. GetTotalSupplyAtHeight(height + 1)
            = GetTotalSupplyAtHeight(height) + GetBlockSubsidy(height + 1)
      BY <3>2, SupplyGrows
    <3> QED
      BY <3>1, <3>3 DEF SupplyIsExact
  <2> QED
    BY <2>1, <2>2
<1>3. CapInv => TypeOK
  BY DEF CapInv
<1> QED
  BY <1>1, <1>2, <1>3, CapInit, CapStep, PTL DEF Spec

-----------------------------------------------------------------------------
(* The treasury.                                                            *)

\* The share of a block of epoch e.
Share(e) == IF e < MaxHalvings THEN (Halved[e] * Percent) \div 100 ELSE 0

\* What the treasury is owed while its window is open, and once it has closed.
Owed ==
  /\ height = 0 => owed = 0
  /\ height > LastFee => owed = GetLifetimeDevFee
  /\ \A e \in Nat, k \in 1..Interval :
       height = e * Interval + k /\ height <= LastFee
         => owed = SumFunctionOnSet(Shares, Before(e)) + k * Share(e)

\* A share is a natural number, and of the window's blocks each pays its own.
LEMMA ShareAt ==
  ASSUME NEW e \in Nat, NEW k \in 1..Interval
  PROVE  /\ Share(e) \in Nat
         /\ LET h == e * Interval + k IN
            GetDevFeeAmount(GetBlockSubsidy(h), h) = IF h <= LastFee THEN Share(e) ELSE 0
<1> DEFINE h == e * Interval + k
<1>1. /\ MaxHalvings \in Nat /\ Percent \in 0..100 /\ LastFee \in Nat /\ StartFee = 1
      /\ Interval \in Nat \ {0}
  BY ConstantsAssumption
<1>2. h \in Nat /\ h >= 1
  <2>1. e * Interval \in Nat
    BY <1>1, SMT
  <2> QED
    BY <1>1, <2>1
<1>3. GetBlockSubsidy(h) = IF e >= MaxHalvings THEN 0 ELSE Halved[e]
  BY SubsidyAt
<1> HIDE DEF h
<1>4. IsDevFeeActive(h) <=> h <= LastFee
  BY <1>1, <1>2 DEF IsDevFeeActive
<1>5. (0 * Percent) \div 100 = 0
  BY <1>1, SMT
<1>6. CASE e < MaxHalvings
  <2>1. Halved[e] \in Nat
    BY <1>1, <1>6, ShiftAssumption, SMT
  <2>2. (Halved[e] * Percent) \div 100 \in Nat
    BY <1>1, <2>1, ShareIsPart
  <2>3. GetBlockSubsidy(h) = Halved[e]
    BY <1>1, <1>3, <1>6
  <2> QED
    BY <1>4, <1>6, <2>2, <2>3 DEF Share, GetDevFeeAmount, h
<1>7. CASE ~(e < MaxHalvings)
  <2>1. GetBlockSubsidy(h) = 0
    BY <1>1, <1>3, <1>7
  <2> QED
    BY <1>4, <1>5, <1>7, <2>1 DEF Share, GetDevFeeAmount, h
<1> QED
  BY <1>6, <1>7

\* The smaller of an epoch's end and the window's.
LEMMA LastIs ==
  ASSUME NEW e \in Epochs
  PROVE  /\ (e + 1) * Interval <= LastFee => Last(e) = (e + 1) * Interval
         /\ (e + 1) * Interval >= LastFee => Last(e) = LastFee
<1>1. LastFee \in Nat /\ (e + 1) * Interval \in Nat
  <2>1. e \in Nat /\ Interval \in Nat /\ LastFee \in Nat
    BY ConstantsAssumption DEF Epochs
  <2> QED
    BY <2>1, SMT
<1> DEFINE m == (e + 1) * Interval
<1> HIDE DEF m
<1>2. m \in Nat /\ LastFee \in Nat
  BY <1>1 DEF m
<1>3. (m <= LastFee => Min({m, LastFee}) = m) /\ (m >= LastFee => Min({m, LastFee}) = LastFee)
  BY <1>2 DEF Min
<1> QED
  BY <1>3 DEF Last, m

\* The term of an epoch whose blocks all pay, and of the one where the window ends.
LEMMA TermOfEpoch ==
  ASSUME NEW e \in Epochs, NEW k \in 1..Interval, e * Interval + k <= LastFee
  PROVE  /\ k = Interval => Shares[e] = k * Share(e)
         /\ e * Interval + k = LastFee => Shares[e] = k * Share(e)
<1>1. /\ Interval \in Nat \ {0} /\ LastFee \in Nat /\ StartFee = 1 /\ MaxHalvings \in Nat
      /\ e \in Nat /\ e < MaxHalvings
  BY ConstantsAssumption DEF Epochs
<1>2. e * Interval \in Nat /\ (e + 1) * Interval = e * Interval + Interval
  BY <1>1, SMT
<1>3. IsDevFeeActive(First(e))
  BY <1>1, <1>2 DEF IsDevFeeActive, First
<1>4. GetDevFeeAmount(Halved[e], First(e)) = Share(e)
  BY <1>1, <1>3 DEF GetDevFeeAmount, Share
<1>5. Shares[e] = (Last(e) - First(e) + 1) * Share(e)
  BY <1>4 DEF Shares
<1>6. ASSUME k = Interval \/ e * Interval + k = LastFee
      PROVE  Last(e) - First(e) + 1 = k
  <2>1. Last(e) = e * Interval + k
    BY <1>1, <1>2, <1>6, LastIs
  <2> QED
    BY <1>1, <1>2, <2>1 DEF First
<1> QED
  BY <1>5, <1>6

\* When the window's last block has been connected the closed form is what was owed.
LEMMA LifetimeAt ==
  ASSUME NEW e \in Nat, NEW k \in 1..Interval, e * Interval + k = LastFee
  PROVE  GetLifetimeDevFee = SumFunctionOnSet(Shares, Before(e)) + k * Share(e)
<1> DEFINE paying == {d \in 0..(MaxHalvings - 1) : First(d) <= LastFee}
<1>1. MaxHalvings \in Nat \ {0} /\ Interval \in Nat \ {0} /\ LastFee \in Nat
  BY ConstantsAssumption
<1>2. paying = Before(e + 1)
  <2>1. ASSUME NEW d \in Epochs PROVE First(d) <= LastFee <=> d < e + 1
    <3>1. d \in Nat /\ First(d) \in Nat
      BY <1>1, TermsAreInts DEF Epochs
    <3>2. /\ d < e => First(d) < e * Interval + k
          /\ d = e => First(d) <= e * Interval + k
          /\ d > e => First(d) > e * Interval + k
      BY <3>1, EpochsAreOrdered
    <3>3. /\ d < e => First(d) < LastFee
          /\ d = e => First(d) <= LastFee
          /\ d > e => First(d) > LastFee
      BY <3>2
    <3> QED
      BY <1>1, <3>1, <3>3
  <2> QED
    BY <2>1 DEF Before, Epochs
<1>3. Before(e + 1) \in SUBSET Epochs
  BY DEF Before
<1>4. MapThenSumSet(LAMBDA d : (Last(d) - First(d) + 1) * GetDevFeeAmount(Halved[d], First(d)),
                    Before(e + 1))
        = SumFunctionOnSet(Shares, Before(e + 1))
  BY <1>3, SharesAreSummed
<1>5. GetLifetimeDevFee = SumFunctionOnSet(Shares, Before(e + 1))
  <2>1. GetLifetimeDevFee
          = MapThenSumSet(LAMBDA d : (Last(d) - First(d) + 1)
                                       * GetDevFeeAmount(Halved[d], First(d)), paying)
    BY Zenon DEF GetLifetimeDevFee
  <2> HIDE DEF paying
  <2> QED
    BY <1>2, <1>4, <2>1
<1>6. \A d \in Epochs : Shares[d] \in Int
  BY TermsAreInts
<1>7. CASE e < MaxHalvings
  <2>1. e \in Epochs
    BY <1>1, <1>7 DEF Epochs
  <2>2. Shares[e] = k * Share(e)
    BY <1>1, <2>1, TermOfEpoch
  <2>3. SumFunctionOnSet(Shares, Before(e + 1)) = Shares[e] + SumFunctionOnSet(Shares, Before(e))
    BY <1>6, <1>7, BeforeGrows
  <2>4. Shares[e] \in Int /\ SumFunctionOnSet(Shares, Before(e)) \in Int
    BY <1>6, <2>1, BeforeGrows
  <2> QED
    BY <1>5, <2>2, <2>3, <2>4
<1>8. CASE e >= MaxHalvings
  <2>1. Share(e) = 0 /\ k * 0 = 0
    BY <1>1, <1>8, SMT DEF Share
  <2>2. SumFunctionOnSet(Shares, Before(e + 1)) = SumFunctionOnSet(Shares, Before(e))
    BY <1>6, <1>8, BeforeGrows
  <2>3. SumFunctionOnSet(Shares, Before(e)) \in Int
    BY <1>6, BeforeGrows
  <2> QED
    BY <1>5, <2>1, <2>2, <2>3
<1> QED
  BY <1>1, <1>7, <1>8

\* A place determines its epoch and its block there.
LEMMA PlaceIsOne ==
  ASSUME NEW e \in Nat, NEW k \in 1..Interval, NEW d \in Nat, NEW j \in 1..Interval,
         e * Interval + k = d * Interval + j
  PROVE  e = d /\ k = j
<1>1. Interval \in Nat \ {0} /\ k - 1 \in 0..(Interval - 1) /\ j - 1 \in 0..(Interval - 1)
  BY ConstantsAssumption
<1>2. (e * Interval + (k - 1)) \div Interval = e /\ (e * Interval + (k - 1)) % Interval = k - 1
  BY <1>1, QuotientOfSum, RemainderOfSum
<1>3. (d * Interval + (j - 1)) \div Interval = d /\ (d * Interval + (j - 1)) % Interval = j - 1
  BY <1>1, QuotientOfSum, RemainderOfSum
<1>4. e * Interval \in Nat /\ d * Interval \in Nat
  BY <1>1, SMT
<1>5. e * Interval + (k - 1) = d * Interval + (j - 1)
  BY <1>4
<1> QED
  BY <1>2, <1>3, <1>5

\* What is owed one block on.
LEMMA OwedGrows ==
  ASSUME TypeOK, Owed, NEW e \in Nat, NEW k \in 1..Interval,
         height + 1 = e * Interval + k, height + 1 <= LastFee
  PROVE  owed + Share(e) = SumFunctionOnSet(Shares, Before(e)) + k * Share(e)
<1> DEFINE n == Interval
           sum(d) == SumFunctionOnSet(Shares, Before(d))
<1>1. n \in Nat \ {0} /\ MaxHalvings \in Nat \ {0} /\ height \in Nat /\ owed \in Nat
      /\ LastFee \in Nat
  BY ConstantsAssumption DEF TypeOK
<1>2. \A d \in Epochs : Shares[d] \in Int
  BY TermsAreInts
<1>3. sum(0) = 0 /\ sum(e) \in Int /\ Share(e) \in Nat
  BY <1>1, <1>2, BeforeGrows, ShareAt
<1>4. CASE height = 0
  <2>1. 0 * n + 1 = 1 /\ 1 \in 1..n
    BY <1>1, SMT
  <2>2. e = 0 /\ k = 1
    BY <1>4, <2>1, PlaceIsOne
  <2>3. owed = 0
    BY <1>4 DEF Owed
  <2> QED
    BY <1>3, <2>2, <2>3
<1>5. CASE height # 0
  <2>1. PICK d \in Nat, j \in 1..n : height = d * n + j
    BY <1>1, <1>5, Place
  <2>2. owed = sum(d) + j * Share(d)
    BY <1>1, <2>1 DEF Owed
  <2>3. \/ j < n /\ height + 1 = d * n + (j + 1) /\ j + 1 \in 1..n
        \/ j = n /\ height + 1 = (d + 1) * n + 1 /\ 1 \in 1..n
    BY <2>1, NextPlace
  <2>4. CASE j < n /\ height + 1 = d * n + (j + 1) /\ j + 1 \in 1..n
    <3>1. e = d /\ k = j + 1
      BY <2>4, PlaceIsOne
    <3>2. (j + 1) * Share(e) = j * Share(e) + Share(e) /\ j * Share(e) \in Nat
      BY <1>3, SMT
    <3> QED
      BY <1>3, <2>2, <3>1, <3>2
  <2>5. CASE j = n /\ height + 1 = (d + 1) * n + 1 /\ 1 \in 1..n
    <3>1. e = d + 1 /\ k = 1
      <4> DEFINE next == d + 1
      <4>1. next \in Nat
        OBVIOUS
      <4>2. next * n + 1 = e * n + k /\ 1 \in 1 .. n
        BY <2>5
      <4> HIDE DEF next
      <4>3. e = next /\ k = 1
        BY <4>1, <4>2, PlaceIsOne
      <4> QED
        BY <4>3 DEF next
    <3>2. sum(d) \in Int /\ Share(d) \in Nat /\ j * Share(d) \in Nat
      <4>1. sum(d) \in Int /\ Share(d) \in Nat
        BY <1>2, BeforeGrows, ShareAt
      <4> QED
        BY <4>1, SMT
    <3>3. sum(e) = sum(d) + j * Share(d)
      <4>1. CASE d < MaxHalvings
        <5>1. sum(d + 1) = Shares[d] + sum(d)
          BY <1>2, <4>1, BeforeGrows
        <5>2. d \in Epochs
          BY <1>1, <4>1 DEF Epochs
        <5>3. d * n + j <= LastFee
          BY <1>1, <2>1
        <5>4. Shares[d] = j * Share(d)
          BY <2>5, <5>2, <5>3, TermOfEpoch
        <5> QED
          BY <3>1, <3>2, <5>1, <5>4
      <4>2. CASE d >= MaxHalvings
        <5>1. sum(d + 1) = sum(d)
          BY <1>2, <4>2, BeforeGrows
        <5>2. Share(d) = 0 /\ j * 0 = 0
          BY <1>1, <4>2, SMT DEF Share
        <5> QED
          BY <3>1, <3>2, <5>1, <5>2
      <4> QED
        BY <1>1, <4>1, <4>2
    <3> QED
      BY <1>3, <2>2, <3>1, <3>3
  <2> QED
    BY <2>3, <2>4, <2>5
<1> QED
  BY <1>4, <1>5

\* The treasury has had at least what it was owed.
TreasuryInv == Owed /\ treasury >= owed

LEMMA TreasuryInit == Init => TreasuryInv
<1> SUFFICES ASSUME Init PROVE TreasuryInv
  OBVIOUS
<1>1. height = 0 /\ owed = 0 /\ treasury = 0
  BY DEF Init
<1>2. LastFee \in Nat /\ LastFee >= 1
  BY ConstantsAssumption
<1>3. ASSUME NEW e \in Nat, NEW k \in 1..Interval PROVE height # e * Interval + k
  <2>1. e * Interval \in Nat
    BY ConstantsAssumption, SMT
  <2> QED
    BY <1>1, <2>1
<1> QED
  BY <1>1, <1>2, <1>3 DEF TreasuryInv, Owed

LEMMA TreasuryStep == TypeOK /\ TreasuryInv /\ [Next]_vars => TreasuryInv'
<1> SUFFICES ASSUME TypeOK, TreasuryInv, [Next]_vars PROVE TreasuryInv'
  OBVIOUS
<1>1. CASE UNCHANGED vars
  BY <1>1 DEF TreasuryInv, Owed, vars
<1>2. CASE Next
  <2> DEFINE fee == GetDevFeeAmount(GetBlockSubsidy(height + 1), height + 1)
  <2>1. PICK paid \in Around(fee) :
          /\ CheckDevFeeOutput(paid, height + 1) /\ height' = height + 1
          /\ owed' = owed + fee /\ treasury' = treasury + paid
    BY <1>2 DEF Next, Connect
  <2>2. /\ height \in Nat /\ owed \in Nat /\ treasury \in Nat /\ LastFee \in Nat
        /\ Slack \in Nat /\ height + 1 \in Nat \ {0}
    BY ConstantsAssumption DEF TypeOK
  <2>3. PICK e \in Nat, k \in 1..Interval : height + 1 = e * Interval + k
    BY <2>2, Place
  <2>4. Share(e) \in Nat /\ fee = IF height + 1 <= LastFee THEN Share(e) ELSE 0
    BY <2>3, ShareAt
  <2>5. fee \in Nat
    BY <2>4
  <2>6. paid \in Nat
    BY <2>2, <2>5 DEF Around
  <2>7. paid >= fee
    <3>1. IsDevFeeActive(height + 1) \/ fee = 0
      BY DEF GetDevFeeAmount
    <3>2. fee <= 0 \/ paid >= fee \/ fee = 0
      BY <2>1, <3>1 DEF CheckDevFeeOutput
    <3> HIDE DEF fee
    <3> QED
      BY <2>5, <2>6, <3>2
  <2>8. treasury' >= owed'
    <3>1. treasury >= owed
      BY DEF TreasuryInv
    <3> HIDE DEF fee
    <3> QED
      BY <2>1, <2>2, <2>5, <2>6, <2>7, <3>1
  <2>9. Owed
    BY DEF TreasuryInv
  <2>10. CASE height + 1 <= LastFee
    <3>1. owed' = SumFunctionOnSet(Shares, Before(e)) + k * Share(e)
      BY <2>1, <2>3, <2>4, <2>9, <2>10, OwedGrows
    <3>2. ASSUME NEW d \in Nat, NEW j \in 1..Interval, height' = d * Interval + j
          PROVE  owed' = SumFunctionOnSet(Shares, Before(d)) + j * Share(d)
      <4>1. d = e /\ j = k
        BY <2>1, <2>3, <3>2, PlaceIsOne
      <4> QED
        BY <3>1, <4>1
    <3>3. height' # 0 /\ ~(height' > LastFee)
      BY <2>1, <2>2, <2>10
    <3> QED
      BY <2>8, <3>2, <3>3 DEF TreasuryInv, Owed
  <2>11. CASE ~(height + 1 <= LastFee)
    <3>1. owed' = owed
      BY <2>1, <2>2, <2>4, <2>11
    <3>2. owed = GetLifetimeDevFee
      <4>1. CASE height > LastFee
        BY <2>9, <4>1 DEF Owed
      <4>2. CASE height = LastFee
        <5>1. LastFee \in Nat \ {0}
          BY ConstantsAssumption
        <5>2. PICK d \in Nat, j \in 1..Interval : LastFee = d * Interval + j
          BY <5>1, Place
        <5>3. GetLifetimeDevFee = SumFunctionOnSet(Shares, Before(d)) + j * Share(d)
          BY <5>2, LifetimeAt
        <5>4. height <= LastFee
          BY <2>2, <4>2
        <5> QED
          BY <2>9, <4>2, <5>2, <5>3, <5>4 DEF Owed
      <4> QED
        BY <2>2, <2>11, <4>1, <4>2
    <3>3. height' # 0 /\ height' > LastFee
      BY <2>1, <2>2, <2>11
    <3>4. ~(height' <= LastFee)
      BY <2>1, <2>2, <2>11
    <3>5. owed' = GetLifetimeDevFee
      BY <3>1, <3>2
    <3> QED
      BY <2>8, <3>3, <3>4, <3>5 DEF TreasuryInv, Owed
  <2> QED
    BY <2>10, <2>11
<1> QED
  BY <1>1, <1>2

\* Whatever the coinbases pay, the treasury has at least its share of every block, and
\* what it was owed when its window closes is what GetLifetimeDevFee says
\* (CheckDevFeeOutput, devfee.cpp 67-114; subsidy.cpp 67-85).
THEOREM TreasuryHasItsShare == Spec => []TreasuryIsPaid
<1>1. TypeOK /\ TreasuryInv => TreasuryIsPaid
  <2> SUFFICES ASSUME TypeOK, TreasuryInv, height >= LastFee
               PROVE  owed = GetLifetimeDevFee
    BY DEF TreasuryInv, TreasuryIsPaid
  <2>1. LastFee \in Nat \ {0} /\ height \in Nat
    BY ConstantsAssumption DEF TypeOK
  <2>2. PICK d \in Nat, j \in 1..Interval : LastFee = d * Interval + j
    BY <2>1, Place
  <2>3. GetLifetimeDevFee = SumFunctionOnSet(Shares, Before(d)) + j * Share(d)
    BY <2>2, LifetimeAt
  <2>4. CASE height = LastFee
    <3>1. height <= LastFee
      BY <2>1, <2>4
    <3> QED
      BY <2>2, <2>3, <2>4, <3>1 DEF TreasuryInv, Owed
  <2>5. CASE height > LastFee
    BY <2>5 DEF TreasuryInv, Owed
  <2> QED
    BY <2>1, <2>4, <2>5
<1>2. CapInv => TypeOK
  BY DEF CapInv
<1> QED
  BY <1>1, <1>2, TreasuryInit, TreasuryStep, CapInit, CapStep, PTL DEF Spec

-----------------------------------------------------------------------------
(* Division, and powers of the base.                                        *)

\* The recursion of Power has a solution, and only one.
LEMMA PowerIs ==
  /\ Power \in [Nat -> Nat] /\ Power[0] = 1
  /\ \A n \in Nat : Power[n + 1] = Base * Power[n] /\ Power[n] >= 1
<1> DEFINE S == Nat \ {0}
           G == [n \in Nat |-> [x \in S |-> Base * x]]
           Unrolled(f) == f = [i \in Nat |-> IF i = 0 THEN 1 ELSE Base * f[i - 1]]
<1>1. Base \in Nat \ {0}
  BY RetargetAssumption
<1>2. G \in [Nat -> [S -> S]]
  <2>1. \A x \in S : Base * x \in S
    BY <1>1, SMT
  <2> QED
    BY <2>1
<1>3. PICK h \in [Nat -> S] : h[0] = 1 /\ \A n \in Nat : h[n + 1] = G[n][h[n]]
  <2>1. 1 \in S
    OBVIOUS
  <2> HIDE DEF G, S
  <2>2. \E h \in [Nat -> S] : Recurses(h, 1, G)
    BY <1>2, <2>1, HasRecursion
  <2> QED
    BY <2>2 DEF Recurses
<1>4. ASSUME NEW f, Unrolled(f)
      PROVE  f \in [Nat -> S] /\ f[0] = 1 /\ \A n \in Nat : f[n + 1] = Base * f[n]
  <2>1. f[0] = 1 /\ \A n \in Nat : f[n + 1] = Base * f[n]
    BY <1>4
  <2> DEFINE Bad == {n \in Nat : f[n] # h[n]}
  <2>2. Bad = {}
    <3> SUFFICES ASSUME Bad # {} PROVE FALSE
      OBVIOUS
    <3>1. PICK m \in Bad : \A l \in Bad : m <= l
      <4>1. Bad \subseteq Nat
        OBVIOUS
      <4> HIDE DEF Bad
      <4> QED
        BY <4>1, HasLeast
    <3>2. m # 0 /\ m \in Nat
      BY <1>3, <2>1
    <3>3. m - 1 \in Nat /\ ~(m <= m - 1) /\ (m - 1) + 1 = m
      BY <3>2
    <3>4. f[m - 1] = h[m - 1]
      BY <3>1, <3>3
    <3>5. h[(m - 1) + 1] = Base * h[m - 1] /\ f[(m - 1) + 1] = Base * f[m - 1]
      BY <1>3, <2>1, <3>3
    <3> QED
      BY <3>1, <3>3, <3>4, <3>5
  <2>3. f = [i \in Nat |-> f[i]]
    BY <1>4
  <2>4. \A n \in Nat : f[n] \in S
    BY <1>3, <2>2
  <2> QED
    BY <2>1, <2>3, <2>4
<1>5. Unrolled(h)
  <2>1. ASSUME NEW i \in Nat, i # 0 PROVE h[i] = Base * h[i - 1]
    <3>1. i - 1 \in Nat /\ (i - 1) + 1 = i
      BY <2>1
    <3>2. h[(i - 1) + 1] = Base * h[i - 1]
      BY <1>3, <3>1
    <3> QED
      BY <3>1, <3>2
  <2>2. h = [i \in Nat |-> h[i]]
    BY <1>3
  <2> QED
    BY <1>3, <2>1, <2>2
<1>6. Power = CHOOSE f : Unrolled(f)
  BY Zenon DEF Power
<1>7. Unrolled(Power)
  <2> HIDE DEF Unrolled
  <2> QED
    BY <1>5, <1>6
<1>8. Power \in [Nat -> S] /\ Power[0] = 1 /\ \A n \in Nat : Power[n + 1] = Base * Power[n]
  <2> HIDE DEF Unrolled, S
  <2> QED
    BY <1>4, <1>7
<1> QED
  BY <1>8

\* A smaller power divides a larger one.
LEMMA PowerDivides ==
  ASSUME NEW m \in Nat, NEW n \in Nat, m <= n
  PROVE  \E q \in Nat \ {0} : Power[n] = q * Power[m]
<1> DEFINE Holds(k) == \E q \in Nat \ {0} : Power[k] = q * Power[m]
           Bad == {k \in Nat : k >= m /\ ~Holds(k)}
<1>1. ASSUME Bad # {} PROVE FALSE
  <2>1. PICK k \in Bad : \A l \in Bad : k <= l
    <3>1. Bad \subseteq Nat
      OBVIOUS
    <3> HIDE DEF Bad
    <3> QED
      BY <1>1, <3>1, HasLeast
  <2>2. k # m
    <3>1. Power[m] = 1 * Power[m]
      BY PowerIs
    <3> QED
      BY <3>1
  <2>3. k - 1 \in Nat /\ k - 1 >= m /\ ~(k <= k - 1) /\ (k - 1) + 1 = k
    BY <2>2
  <2>4. Holds(k - 1)
    <3> HIDE DEF Holds
    <3> QED
      BY <2>1, <2>3
  <2>5. PICK q \in Nat \ {0} : Power[k - 1] = q * Power[m]
    BY <2>4
  <2>6. Power[k] = Base * (q * Power[m]) /\ Power[m] \in Nat
    BY <2>3, <2>5, PowerIs
  <2>7. Base \in Nat \ {0}
    BY RetargetAssumption
  <2>8. Power[k] = (Base * q) * Power[m] /\ Base * q \in Nat \ {0}
    BY <2>6, <2>7, SMT
  <2>9. Holds(k)
    BY <2>8
  <2> HIDE DEF Holds
  <2> QED
    BY <2>9
<1> QED
  BY <1>1

LEMMA PowerGrows ==
  ASSUME NEW m \in Nat, NEW n \in Nat, m <= n
  PROVE  Power[m] <= Power[n]
<1>1. PICK q \in Nat \ {0} : Power[n] = q * Power[m]
  BY PowerDivides
<1>2. Power[m] \in Nat
  BY PowerIs
<1> QED
  BY <1>1, <1>2, SMT

\* A number is less than the power of it.
LEMMA PowerIsMore == \A n \in Nat : n < Power[n]
<1> DEFINE Bad == {n \in Nat : ~(n < Power[n])}
<1>1. ASSUME Bad # {} PROVE FALSE
  <2>1. PICK k \in Bad : \A l \in Bad : k <= l
    <3>1. Bad \subseteq Nat
      OBVIOUS
    <3> HIDE DEF Bad
    <3> QED
      BY <1>1, <3>1, HasLeast
  <2>2. k # 0
    BY PowerIs
  <2>3. k - 1 \in Nat /\ ~(k <= k - 1) /\ (k - 1) + 1 = k
    BY <2>2
  <2>4. k - 1 < Power[k - 1] /\ Power[k - 1] \in Nat
    BY <2>1, <2>3, PowerIs
  <2>5. Power[k] = Base * Power[k - 1]
    BY <2>3, PowerIs
  <2>6. Base \in Nat /\ Base >= 2
    BY RetargetAssumption
  <2>7. Base * Power[k - 1] >= 2 * Power[k - 1]
    BY <2>4, <2>6, SMT
  <2>8. ~(k < Power[k]) /\ k \in Nat /\ Power[k] >= 2 * Power[k - 1]
    BY <2>5, <2>7
  <2> DEFINE x == Power[k - 1]
             y == Power[k]
  <2>9. x \in Nat /\ y \in Nat /\ k - 1 < x /\ y >= 2 * x /\ ~(k < y)
    BY <2>4, <2>8, PowerIs
  <2> HIDE DEF x, y
  <2> QED
    BY <2>3, <2>9
<1> QED
  BY <1>1

-----------------------------------------------------------------------------
(* The compact form.                                                        *)

\* Size counts the digits.
LEMMA SizeIs ==
  ASSUME NEW t \in Nat
  PROVE  /\ Size(t) \in Nat /\ t < Power[Size(t)]
         /\ Size(t) = 0 \/ t >= Power[Size(t) - 1]
<1> DEFINE Holds(n) == t < Power[n] /\ (n = 0 \/ t >= Power[n - 1])
           Over == {n \in Nat : t < Power[n]}
<1>1. PICK n \in Over : \A m \in Over : n <= m
  <2>1. t \in Over
    BY PowerIsMore
  <2> HIDE DEF Over
  <2>2. Over \subseteq Nat
    BY DEF Over
  <2> QED
    BY <2>1, <2>2, HasLeast
<1>2. n <= t
  BY <1>1, PowerIsMore
<1>3. Holds(n)
  <2>1. CASE n # 0
    <3>1. n - 1 \in Nat /\ ~(n <= n - 1)
      BY <2>1
    <3>2. ~(t < Power[n - 1])
      BY <1>1, <3>1
    <3>3. Power[n - 1] \in Nat
      BY <3>1, PowerIs
    <3> QED
      BY <1>1, <3>2, <3>3
  <2> QED
    BY <1>1, <2>1
<1>4. n \in 0..t
  BY <1>2
<1>5. Size(t) = CHOOSE k \in 0..t : Holds(k)
  BY DEF Size
<1>6. Size(t) \in 0..t /\ Holds(Size(t))
  <2> HIDE DEF Holds
  <2> QED
    BY <1>3, <1>4, <1>5
<1> QED
  BY <1>6

LEMMA SizeIsThe ==
  ASSUME NEW t \in Nat, NEW n \in Nat, t < Power[n], n = 0 \/ t >= Power[n - 1]
  PROVE  Size(t) = n
<1>1. /\ Size(t) \in Nat /\ t < Power[Size(t)]
      /\ Size(t) = 0 \/ t >= Power[Size(t) - 1]
  BY SizeIs
<1>2. ASSUME NEW k \in Nat, NEW l \in Nat, t < Power[k], l = 0 \/ t >= Power[l - 1]
      PROVE  ~(k < l)
  <2> SUFFICES ASSUME k < l PROVE FALSE
    OBVIOUS
  <2>1. l - 1 \in Nat /\ k <= l - 1
    OBVIOUS
  <2>2. Power[k] <= Power[l - 1] /\ Power[k] \in Nat /\ Power[l - 1] \in Nat
    BY <2>1, PowerGrows, PowerIs
  <2> QED
    BY <1>2, <2>1, <2>2
<1> QED
  BY <1>1, <1>2

\* What the last digit that is kept is worth.
Low(t) == IF Signed(t) THEN Unit(Size(t) + 1) ELSE Unit(Size(t))

\* It is a power, and no more than the first digit is worth.
LEMMA LowIs ==
  ASSUME NEW t \in Nat \ {0}
  PROVE  /\ Size(t) - 1 \in Nat /\ t >= Power[Size(t) - 1]
         /\ Low(t) \in Nat \ {0}
         /\ \E q \in Nat \ {0} : Power[Size(t) - 1] = q * Low(t)
<1> DEFINE n == Size(t)
<1>1. n \in Nat /\ t < Power[n] /\ (n = 0 \/ t >= Power[n - 1])
  BY SizeIs
<1>2. n # 0
  BY <1>1, PowerIs
<1>3. Digits \in Nat /\ Digits >= 2
  BY RetargetAssumption
<1> HIDE DEF n
<1>4. PICK e \in Nat : Low(t) = Power[e] /\ e <= n - 1
  <2>1. CASE Signed(t)
    <3>1. n >= Digits
      BY <2>1 DEF Signed, n
    <3>2. Low(t) = Unit(n + 1)
      BY <2>1 DEF Low, n
    <3> QED
      BY <1>1, <1>3, <3>1, <3>2 DEF Unit
  <2>2. CASE ~Signed(t)
    <3>1. Low(t) = Unit(n)
      BY <2>2 DEF Low, n
    <3> QED
      BY <1>1, <1>2, <1>3, <3>1 DEF Unit
  <2> QED
    BY <2>1, <2>2
<1>5. n - 1 \in Nat
  BY <1>1, <1>2
<1>6. \E q \in Nat \ {0} : Power[n - 1] = q * Power[e]
  BY <1>4, <1>5, PowerDivides
<1>7. Power[e] \in Nat \ {0}
  BY PowerIs
<1> QED
  BY <1>1, <1>2, <1>4, <1>5, <1>6, <1>7 DEF n

\* The compact form drops digits, and neither the first of them nor their number.
LEMMA CompactIs ==
  ASSUME NEW t \in Nat \ {0}
  PROVE  /\ Compact(t) = (t \div Low(t)) * Low(t)
         /\ Compact(t) \in Nat \ {0} /\ Compact(t) <= t
         /\ Size(t) - 1 \in Nat /\ Compact(t) >= Power[Size(t) - 1]
         /\ Size(Compact(t)) = Size(t)
<1> DEFINE low == Low(t)
           n == Size(t)
           c == Compact(t)
<1>1. n - 1 \in Nat /\ t >= Power[n - 1] /\ low \in Nat \ {0}
      /\ \E q \in Nat \ {0} : Power[n - 1] = q * low
  BY LowIs
<1>2. c = (t \div low) * low
  BY DEF Compact, Low
<1>3. n \in Nat /\ t < Power[n]
  BY SizeIs
<1>4. c \in Nat /\ c <= t
  <2> HIDE DEF low, c
  <2> QED
    BY <1>1, <1>2, DivIs
<1>5. PICK q \in Nat \ {0} : Power[n - 1] = q * low
  BY <1>1
<1>6. c >= q * low
  <2> HIDE DEF low, c, n
  <2>1. q * low <= t
    BY <1>1, <1>5
  <2>2. q <= t \div low
    BY <1>1, <2>1, DivIsGreatest
  <2>3. t \div low \in Nat
    BY <1>1, DivIs
  <2>4. q * low <= (t \div low) * low
    BY <1>1, <2>2, <2>3, SMT
  <2> QED
    BY <1>2, <2>4
<1>7. Power[n - 1] \in Nat \ {0} /\ Power[n] \in Nat
  BY <1>1, <1>3, PowerIs
<1>8. c \in Nat \ {0} /\ c >= Power[n - 1]
  BY <1>4, <1>5, <1>6, <1>7
<1>9. c < Power[n]
  BY <1>3, <1>4, <1>7
<1>10. Size(c) = n
  <2> HIDE DEF c, n
  <2> QED
    BY <1>3, <1>8, <1>9, SizeIsThe
<1> QED
  BY <1>1, <1>2, <1>4, <1>8, <1>10

LEMMA UnitIs ==
  ASSUME NEW k \in Nat
  PROVE  /\ Unit(k) \in Nat \ {0}
         /\ k >= Digits => Unit(k + 1) = Base * Unit(k)
<1>1. Digits \in Nat
  BY RetargetAssumption
<1>2. (IF k > Digits THEN k - Digits ELSE 0) \in Nat
  BY <1>1
<1>3. Unit(k) \in Nat \ {0}
  BY <1>2, PowerIs DEF Unit
<1>4. CASE k >= Digits
  <2>1. k - Digits \in Nat /\ (k - Digits) + 1 = k + 1 - Digits
    BY <1>1, <1>4
  <2>2. Unit(k) = Power[k - Digits] /\ Unit(k + 1) = Power[(k - Digits) + 1]
    BY <1>1, <1>4 DEF Unit
  <2> QED
    BY <1>3, <2>1, <2>2, PowerIs
<1> QED
  BY <1>3, <1>4

\* Half of the largest leading digits is whole in the shorter form too, so that a
\* number has a sign to hide exactly when it reaches a multiple of what is kept then.
LEMMA SignIs ==
  \E half \in Nat \ {0} : \A t \in Nat \ {0} :
    Size(t) >= Digits => (Signed(t) <=> half * Unit(Size(t) + 1) <= t)
<1> DEFINE b == Base \div 2
           half == b * Power[Digits - 2]
<1>1. Base = 2 * b /\ b \in Nat \ {0} /\ Digits - 2 \in Nat /\ Digits \in Nat /\ Base \in Nat
  BY RetargetAssumption
<1>2. Power[Digits - 2] \in Nat \ {0}
  BY <1>1, PowerIs
<1> HIDE DEF b
<1>3. half \in Nat \ {0}
  BY <1>1, <1>2, SMT
<1>4. Power[Digits] = 2 * (half * Base)
  <2>1. (Digits - 2) + 1 = Digits - 1 /\ (Digits - 1) + 1 = Digits /\ Digits - 1 \in Nat
    BY <1>1
  <2>2. Power[Digits] = Base * (Base * Power[Digits - 2])
    BY <1>1, <2>1, PowerIs
  <2> DEFINE w == Power[Digits - 2]
  <2>3. Base * (Base * w) = 2 * ((b * w) * Base)
    <3> HIDE DEF w
    <3>1. w \in Nat
      BY <1>2 DEF w
    <3> QED
      BY <1>1, <3>1, SMT
  <2> QED
    BY <2>2, <2>3
<1> HIDE DEF half
<1>5. ASSUME NEW t \in Nat \ {0}, Size(t) >= Digits
      PROVE  Signed(t) <=> half * Unit(Size(t) + 1) <= t
  <2> DEFINE u == Unit(Size(t))
             q == t \div u
  <2>1. Size(t) \in Nat /\ u \in Nat \ {0} /\ Unit(Size(t) + 1) = Base * u
    BY <1>5, SizeIs, UnitIs
  <2>2. Signed(t) <=> 2 * q >= 2 * (half * Base)
    BY <1>4, <1>5 DEF Signed
  <2> HIDE DEF u
  <2>3. q \in Nat /\ half * Base \in Nat
    BY <1>1, <1>3, <2>1, DivIs, SMT
  <2>4. (half * Base) * u <= t <=> half * Base <= q
    BY <2>1, <2>3, DivIsGreatest
  <2>5. (half * Base) * u = half * (Base * u)
    BY <1>1, <1>3, <2>1, SMT
  <2> DEFINE m == half * Base
  <2>6. 2 * q >= 2 * m <=> m <= q
    <3>1. m \in Nat
      BY <2>3
    <3> HIDE DEF m, q
    <3> QED
      BY <2>3, <3>1 DEF m, q
  <2> QED
    BY <2>1, <2>2, <2>4, <2>5, <2>6
<1> QED
  BY <1>3, <1>5

LEMMA DivOfProduct ==
  ASSUME NEW k \in Nat, NEW y \in Nat \ {0}
  PROVE  (k * y) \div y = k
<1>1. k * y \in Nat
  BY SMT
<1> DEFINE x == k * y
           q == x \div y
<1> HIDE DEF x
<1>2. q \in Nat /\ q * y <= x /\ x < q * y + y
  BY <1>1, DivIs DEF x
<1> HIDE DEF q
<1>3. k <= q
  <2>1. k * y <= x /\ x \in Nat
    BY <1>1 DEF x
  <2> QED
    BY <2>1, DivIsGreatest DEF q
<1>4. ~(q >= k + 1)
  <2> SUFFICES ASSUME q >= k + 1 PROVE FALSE
    OBVIOUS
  <2>1. q * y >= (k + 1) * y
    BY <1>2, SMT
  <2>2. (k + 1) * y = k * y + y
    BY SMT
  <2>3. q * y \in Nat
    BY <1>2, SMT
  <2> QED
    BY <1>1, <1>2, <2>1, <2>2, <2>3 DEF x
<1>5. q = k
  BY <1>2, <1>3, <1>4
<1> QED
  BY <1>5 DEF q, x

LEMMA CompactOfZero == Compact(0) = 0
<1>1. Size(0) = 0
  BY PowerIs, SizeIsThe
<1>2. ~Signed(0)
  BY <1>1, RetargetAssumption DEF Signed
<1>3. Unit(0) = 1
  BY RetargetAssumption, PowerIs DEF Unit
<1>4. Compact(0) = (0 \div 1) * 1
  BY <1>1, <1>2, <1>3 DEF Compact
<1> QED
  BY <1>4

\* A compact number is its own compact form.
LEMMA CompactIsFixed ==
  ASSUME NEW t \in Nat
  PROVE  Compact(Compact(t)) = Compact(t)
<1>1. CASE t = 0
  BY <1>1, CompactOfZero
<1>2. CASE t # 0
  <2> DEFINE c == Compact(t)
             low == Low(t)
             n == Size(t)
             w == Unit(n + 1)
  <2>1. /\ c = (t \div low) * low /\ c \in Nat \ {0} /\ c <= t /\ Size(c) = n
        /\ low \in Nat \ {0} /\ t \in Nat \ {0} /\ n \in Nat
    BY <1>2, CompactIs, LowIs, SizeIs
  <2>2. w \in Nat \ {0}
    BY <2>1, UnitIs
  <2>3. PICK half \in Nat \ {0} : \A s \in Nat \ {0} :
          Size(s) >= Digits => (Signed(s) <=> half * Unit(Size(s) + 1) <= s)
    BY SignIs
  <2> HIDE DEF c, low, n, w
  <2>4. Signed(c) <=> Signed(t)
    <3>1. CASE n >= Digits
      <4>1. (Signed(t) <=> half * w <= t) /\ (Signed(c) <=> half * w <= c)
        BY <2>1, <2>3, <3>1 DEF n, w
      <4>2. half * w \in Nat
        BY <2>2, SMT
      <4>3. CASE half * w <= t
        <5>1. low = w
          BY <4>1, <4>3 DEF low, Low, w, n
        <5>2. half <= t \div w /\ t \div w \in Nat
          BY <2>1, <2>2, <4>3, DivIsGreatest, DivIs
        <5>3. half * w <= (t \div w) * w
          BY <2>2, <5>2, SMT
        <5> QED
          BY <2>1, <4>1, <4>3, <5>1, <5>3
      <4>4. CASE ~(half * w <= t)
        <5>1. ~(half * w <= c)
          BY <2>1, <4>2, <4>4
        <5> QED
          BY <4>1, <4>4, <5>1
      <4> QED
        BY <4>3, <4>4
    <3>2. CASE ~(n >= Digits)
      BY <2>1, <3>2 DEF Signed, n
    <3> QED
      BY <3>1, <3>2
  <2>5. Low(c) = low
    BY <2>1, <2>4 DEF Low, low, n
  <2>6. Compact(c) = (c \div low) * low
    BY <2>1, <2>5, CompactIs
  <2>7. t \div low \in Nat
    BY <2>1, DivIs
  <2>8. c \div low = t \div low
    BY <2>1, <2>7, DivOfProduct
  <2> QED
    BY <2>1, <2>6, <2>8 DEF c
<1> QED
  BY <1>1, <1>2

\* Of two numbers the greater does not get the smaller compact form.
LEMMA CompactGrows ==
  ASSUME NEW s \in Nat \ {0}, NEW t \in Nat \ {0}, s <= t
  PROVE  Compact(s) <= Compact(t)
<1> DEFINE n == Size(s)
           m == Size(t)
           w == Unit(n + 1)
<1>1. /\ Compact(s) \in Nat /\ Compact(s) <= s /\ n - 1 \in Nat /\ s < Power[n]
      /\ s >= Power[n - 1] /\ n \in Nat /\ Low(s) \in Nat \ {0}
      /\ Compact(s) = (s \div Low(s)) * Low(s)
  BY CompactIs, SizeIs, LowIs
<1>2. /\ Compact(t) \in Nat /\ m - 1 \in Nat /\ t < Power[m] /\ m \in Nat
      /\ Compact(t) >= Power[m - 1]
      /\ Low(t) \in Nat \ {0} /\ Compact(t) = (t \div Low(t)) * Low(t)
  BY CompactIs, SizeIs, LowIs
<1>3. w \in Nat \ {0}
  BY <1>1, UnitIs
<1>4. PICK half \in Nat \ {0} : \A r \in Nat \ {0} :
        Size(r) >= Digits => (Signed(r) <=> half * Unit(Size(r) + 1) <= r)
  BY SignIs
<1> HIDE DEF n, m, w
<1>5. CASE n < m
  <2>1. n <= m - 1
    BY <1>1, <1>2, <1>5
  <2>2. Power[n] <= Power[m - 1] /\ Power[n] \in Nat /\ Power[m - 1] \in Nat
    BY <1>1, <1>2, <2>1, PowerGrows, PowerIs
  <2> QED
    BY <1>1, <1>2, <2>2
<1>6. CASE m < n
  <2>1. m <= n - 1
    BY <1>1, <1>2, <1>6
  <2>2. Power[m] <= Power[n - 1] /\ Power[m] \in Nat /\ Power[n - 1] \in Nat
    BY <1>1, <1>2, <2>1, PowerGrows, PowerIs
  <2> QED
    BY <1>1, <1>2, <2>2
<1>7. CASE n = m /\ Low(s) = Low(t)
  <2> DEFINE low == Low(t)
             p == s \div low
             q == t \div low
  <2>1. p \in Nat /\ p * low <= s /\ p * low \in Nat
    BY <1>2, DivIs
  <2>2. q \in Nat
    BY <1>2, DivIs
  <2>3. p * low <= t
    BY <2>1
  <2>4. p <= q
    BY <1>2, <2>1, <2>3, DivIsGreatest
  <2>5. Compact(s) = p * low /\ Compact(t) = q * low /\ low \in Nat
    BY <1>1, <1>2, <1>7
  <2> HIDE DEF p, q, low
  <2>6. p * low <= q * low
    BY <2>1, <2>2, <2>4, <2>5, SMT
  <2> QED
    BY <2>5, <2>6
<1>8. CASE n = m /\ Low(s) # Low(t)
  <2>1. ~(Signed(s) <=> Signed(t))
    BY <1>8 DEF Low, n, m
  <2>2. n >= Digits
    BY <1>8, <2>1 DEF Signed, n, m
  <2>3. (Signed(s) <=> half * w <= s) /\ (Signed(t) <=> half * w <= t) /\ half * w \in Nat
    <3>1. half * w \in Nat
      BY <1>3, SMT
    <3> QED
      BY <1>4, <1>8, <2>2, <3>1 DEF n, m, w
  <2>4. ~Signed(s) /\ Signed(t) /\ half * w <= t /\ ~(half * w <= s)
    BY <2>1, <2>3
  <2>5. Low(t) = w
    BY <1>8, <2>4 DEF Low, n, m, w
  <2>6. half <= t \div w /\ t \div w \in Nat
    BY <1>3, <2>4, DivIsGreatest, DivIs
  <2>7. half * w <= (t \div w) * w
    BY <1>3, <2>6, SMT
  <2>8. half * w <= Compact(t)
    BY <1>2, <2>5, <2>7
  <2> QED
    BY <1>1, <1>2, <2>3, <2>4, <2>8
<1> QED
  BY <1>1, <1>2, <1>5, <1>6, <1>7, <1>8

-----------------------------------------------------------------------------
(* The mean and the timespan.                                               *)

\* The mean of n - 1 targets becomes that of n.
Weighted(m, n, t) == (m * n + t) \div (n + 1)

\* The recursion of Mean, unrolled.
Means(f, ts) ==
  /\ f \in [1..Len(ts) -> Nat]
  /\ \A n \in 1..Len(ts) :
       f[n] = IF n = 1 THEN ts[1] ELSE Weighted(f[n - 1], n, ts[n])

LEMMA MeanIs ==
  ASSUME NEW ts \in Seq(Nat), ts # <<>>
  PROVE  \E f : Means(f, ts) /\ Mean(ts) = f[Len(ts)]
<1> DEFINE N == Len(ts)
           Step(n, x) == (x * n + ts[n]) \div (n + 1)
           G == [n \in Nat |-> [x \in Nat |-> IF n + 2 \in 1..N THEN Step(n + 2, x) ELSE x]]
           Unrolled(f) == f = [n \in 1..N |-> IF n = 1 THEN ts[1] ELSE Step(n, f[n - 1])]
<1>1. N \in Nat \ {0} /\ \A n \in 1..N : ts[n] \in Nat
  BY EmptySeq
<1>2. ASSUME NEW n \in 1..N, NEW x \in Nat PROVE Step(n, x) \in Nat
  <2>1. x * n \in Nat /\ ts[n] \in Nat /\ n + 1 \in Nat \ {0}
    BY <1>1, SMT
  <2>2. x * n + ts[n] \in Nat
    BY <2>1
  <2> QED
    BY <2>1, <2>2, DivIs
<1>3. G \in [Nat -> [Nat -> Nat]]
  <2> HIDE DEF Step, N
  <2> QED
    BY <1>2
<1>4. PICK h \in [Nat -> Nat] : h[0] = ts[1] /\ \A n \in Nat : h[n + 1] = G[n][h[n]]
  <2>1. ts[1] \in Nat
    BY <1>1
  <2> HIDE DEF G
  <2>2. \E h \in [Nat -> Nat] : Recurses(h, ts[1], G)
    BY <1>3, <2>1, HasRecursion
  <2> QED
    BY <2>2 DEF Recurses
<1> DEFINE g == [n \in 1..N |-> h[n - 1]]
<1>5. Unrolled(g)
  <2>1. ASSUME NEW n \in 1..N, n # 1 PROVE g[n] = Step(n, g[n - 1])
    <3>1. n - 2 \in Nat /\ (n - 2) + 1 = n - 1 /\ (n - 2) + 2 = n /\ n - 1 \in 1..N
      BY <1>1, <2>1
    <3>2. h[(n - 2) + 1] = G[n - 2][h[n - 2]] /\ h[n - 2] \in Nat
      BY <1>4, <3>1
    <3>3. G[n - 2][h[n - 2]] = Step(n, h[n - 2])
      <4> HIDE DEF Step
      <4> QED
        BY <3>1, <3>2
    <3>4. g[n] = h[n - 1] /\ g[n - 1] = h[n - 2]
      BY <3>1
    <3> HIDE DEF Step, G, g
    <3> QED
      BY <3>1, <3>2, <3>3, <3>4
  <2>2. 1 \in 1..N => g[1] = ts[1]
    BY <1>4
  <2>3. g = [n \in 1..N |-> g[n]]
    OBVIOUS
  <2> HIDE DEF Step, g
  <2> QED
    BY <2>1, <2>2, <2>3
<1> DEFINE m == CHOOSE f : Unrolled(f)
<1>6. Mean(ts) = m[N]
  BY Zenon DEF Mean
<1>7. Unrolled(m)
  <2> HIDE DEF Unrolled, g
  <2> QED
    BY <1>5
<1> HIDE DEF m
<1>8. m = [n \in 1..N |-> m[n]] /\ m[1] = ts[1]
      /\ \A n \in 1..N : n # 1 => m[n] = Step(n, m[n - 1])
  <2> HIDE DEF Step
  <2>1. 1 \in 1..N
    BY <1>1
  <2> HIDE DEF N
  <2> QED
    BY <1>7, <2>1
<1> DEFINE Bad == {n \in Nat : n \in 1..N /\ m[n] \notin Nat}
<1>9. Bad = {}
  <2> SUFFICES ASSUME Bad # {} PROVE FALSE
    OBVIOUS
  <2>1. PICK n \in Bad : \A l \in Bad : n <= l
    <3>1. Bad \subseteq Nat
      OBVIOUS
    <3> HIDE DEF Bad
    <3> QED
      BY <3>1, HasLeast
  <2>2. n \in 1..N /\ m[n] \notin Nat /\ n # 1
    BY <1>1, <1>8
  <2>3. n - 1 \in 1..N /\ n - 1 \in Nat /\ ~(n <= n - 1)
    BY <1>1, <2>2
  <2>4. m[n - 1] \in Nat
    BY <2>1, <2>3
  <2> HIDE DEF Step
  <2> QED
    BY <1>2, <1>8, <2>2, <2>4
<1>10. Means(m, ts)
  <2>1. ASSUME NEW n \in 1..N PROVE m[n] \in Nat
    <3>1. n \in Nat
      BY <1>1
    <3> QED
      BY <1>9, <3>1
  <2>2. m \in [1..N -> Nat]
    BY <1>8, <2>1
  <2>3. \A n \in 1..N : m[n] = IF n = 1 THEN ts[1] ELSE Step(n, m[n - 1])
    <3> HIDE DEF Step
    <3> QED
      BY <1>8
  <2> QED
    BY <2>2, <2>3 DEF Means, Weighted
<1> QED
  BY <1>6, <1>10

\* One step of the mean: between what it was and the target that is added, and more
\* than a share of each.
LEMMA MeanStep ==
  ASSUME NEW m \in Nat, NEW t \in Nat, NEW n \in Nat \ {0}, NEW k \in Nat
  PROVE  /\ Weighted(m, n, t) \in Nat
         /\ m >= k /\ t >= k => Weighted(m, n, t) >= k
         /\ m <= k /\ t <= k => Weighted(m, n, t) <= k
         /\ m * n + t < (n + 1) * Weighted(m, n, t) + (n + 1)
<1> DEFINE x == m * n + t
           r == Weighted(m, n, t)
<1>1. m * n \in Nat /\ x \in Nat /\ r = x \div (n + 1)
  <2>1. m * n \in Nat
    BY SMT
  <2> QED
    BY <2>1 DEF Weighted
<1> HIDE DEF r
<1>2. r \in Nat /\ r * (n + 1) <= x /\ x < r * (n + 1) + (n + 1) /\ r * (n + 1) \in Nat
  <2> HIDE DEF x
  <2>1. n + 1 \in Nat \ {0}
    OBVIOUS
  <2> QED
    BY <1>1, <2>1, DivIs
<1>3. r * (n + 1) = (n + 1) * r
  BY <1>2, SMT
<1>4. ASSUME m >= k, t >= k PROVE r >= k
  <2>1. m * n >= k * n
    BY <1>4, SMT
  <2>2. k * (n + 1) = k * n + k /\ k * n \in Nat
    BY SMT
  <2>3. k * (n + 1) <= x
    BY <1>1, <1>4, <2>1, <2>2
  <2> HIDE DEF x
  <2> QED
    BY <1>1, <2>3, DivIsGreatest
<1>5. ASSUME m <= k, t <= k PROVE r <= k
  <2>1. m * n <= k * n
    BY <1>5, SMT
  <2>2. k * (n + 1) = k * n + k /\ k * n \in Nat /\ (k + 1) * (n + 1) = k * (n + 1) + (n + 1)
    BY SMT
  <2>3. x <= k * (n + 1)
    BY <1>1, <1>5, <2>1, <2>2
  <2>4. ~((k + 1) * (n + 1) <= x)
    BY <1>1, <2>2, <2>3
  <2> HIDE DEF x
  <2>5. ~(k + 1 <= r)
    BY <1>1, <2>4, DivIsGreatest
  <2> QED
    BY <1>2, <2>5
<1>6. x < (n + 1) * r + (n + 1)
  BY <1>1, <1>2, <1>3
<1> QED
  BY <1>2, <1>4, <1>5, <1>6 DEF r

\* The mean is between the bounds of what it is of.
LEMMA MeanIsBetween ==
  ASSUME NEW ts \in Seq(Nat), ts # <<>>, NEW lo \in Nat, NEW hi \in Nat,
         \A i \in 1..Len(ts) : lo <= ts[i] /\ ts[i] <= hi
  PROVE  Mean(ts) \in Nat /\ lo <= Mean(ts) /\ Mean(ts) <= hi
<1>1. PICK f : Means(f, ts) /\ Mean(ts) = f[Len(ts)]
  BY MeanIs
<1> DEFINE N == Len(ts)
<1>2. N \in Nat \ {0} /\ \A n \in 1..N : ts[n] \in Nat /\ f[n] \in Nat
  BY <1>1, EmptySeq DEF Means
<1> DEFINE Bad == {n \in Nat : n \in 1..N /\ ~(lo <= f[n] /\ f[n] <= hi)}
<1>3. Bad = {}
  <2> SUFFICES ASSUME Bad # {} PROVE FALSE
    OBVIOUS
  <2>1. PICK n \in Bad : \A l \in Bad : n <= l
    <3>1. Bad \subseteq Nat
      OBVIOUS
    <3> HIDE DEF Bad
    <3> QED
      BY <3>1, HasLeast
  <2>2. n \in 1..N /\ n \in Nat /\ ~(lo <= f[n] /\ f[n] <= hi)
    OBVIOUS
  <2>3. n # 1
    <3>1. n = 1 => f[n] = ts[1]
      BY <1>1, <2>2 DEF Means
    <3> QED
      BY <2>2, <3>1
  <2>4. n - 1 \in 1..N /\ n - 1 \in Nat /\ ~(n <= n - 1) /\ n \in Nat \ {0}
    BY <1>2, <2>2, <2>3
  <2>5. lo <= f[n - 1] /\ f[n - 1] <= hi
    BY <2>1, <2>4
  <2>6. f[n] = Weighted(f[n - 1], n, ts[n])
    BY <1>1, <2>2, <2>3 DEF Means
  <2>7. f[n - 1] \in Nat /\ ts[n] \in Nat /\ lo <= ts[n] /\ ts[n] <= hi /\ f[n] \in Nat
    BY <1>2, <2>2, <2>4
  <2>8. f[n] >= lo
    <3> DEFINE m == f[n - 1]
               t == ts[n]
    <3>1. m \in Nat /\ t \in Nat /\ m >= lo /\ t >= lo
      BY <2>5, <2>7
    <3>2. f[n] = Weighted(m, n, t)
      BY <2>6
    <3> HIDE DEF m, t
    <3> QED
      BY <2>4, <3>1, <3>2, MeanStep
  <2>9. f[n] <= hi
    BY <2>4, <2>5, <2>6, <2>7, MeanStep
  <2> QED
    BY <2>2, <2>7, <2>8, <2>9
<1>4. N \in Nat /\ N \in 1..N /\ N \notin Bad
  BY <1>2, <1>3
<1> QED
  BY <1>1, <1>2, <1>4

\* No target is much more than the mean.
LEMMA MeanIsMuch ==
  ASSUME NEW ts \in Seq(Nat \ {0}), ts # <<>>
  PROVE  \A i \in 1..Len(ts) : ts[i] <= (Len(ts) + 1) * (Mean(ts) + Len(ts))
<1>1. ts \in Seq(Nat)
  <2>1. Nat \ {0} \subseteq Nat
    OBVIOUS
  <2> QED
    BY <2>1, SeqMonotonic
<1>2. PICK f : Means(f, ts) /\ Mean(ts) = f[Len(ts)]
  BY <1>1, MeanIs
<1> DEFINE N == Len(ts)
           Much(n) == \A i \in 1..n : ts[i] <= (n + 1) * (f[n] + n)
           Bad == {n \in Nat : n \in 1..N /\ ~Much(n)}
<1>3. N \in Nat \ {0} /\ \A n \in 1..N : ts[n] \in Nat /\ ts[n] >= 1 /\ f[n] \in Nat
  <2>1. N \in Nat \ {0}
    BY EmptySeq
  <2>2. \A n \in 1..N : ts[n] \in Nat \ {0}
    OBVIOUS
  <2>3. \A n \in 1..N : f[n] \in Nat
    BY <1>2 DEF Means
  <2> QED
    BY <2>1, <2>2, <2>3
<1>4. Bad = {}
  <2> SUFFICES ASSUME Bad # {} PROVE FALSE
    OBVIOUS
  <2>1. PICK n \in Bad : \A l \in Bad : n <= l
    <3>1. Bad \subseteq Nat
      OBVIOUS
    <3> HIDE DEF Bad
    <3> QED
      BY <3>1, HasLeast
  <2>2. n \in 1..N /\ n \in Nat \ {0} /\ ~Much(n)
    OBVIOUS
  <2>3. CASE n = 1
    <3>1. f[1] = ts[1] /\ ts[1] \in Nat
      BY <1>2, <1>3, <2>2, <2>3 DEF Means
    <3>2. Much(1)
      BY <3>1
    <3> QED
      BY <2>2, <2>3, <3>2
  <2>4. CASE n # 1
    <3>1. n - 1 \in 1..N /\ n - 1 \in Nat /\ ~(n <= n - 1)
      BY <1>3, <2>2, <2>4
    <3>2. Much(n - 1)
      <4> HIDE DEF Much
      <4> QED
        BY <2>1, <3>1
    <3> DEFINE m == f[n - 1]
               r == f[n]
    <3>3. r = Weighted(m, n, ts[n])
      BY <1>2, <2>2, <2>4 DEF Means
    <3>4. m \in Nat /\ r \in Nat /\ ts[n] \in Nat /\ ts[n] >= 1
      BY <1>3, <2>2, <3>1
    <3>5. m * n + ts[n] < (n + 1) * r + (n + 1)
      BY <2>2, <3>3, <3>4, MeanStep
    <3>6. /\ (n + 1) * (r + n) = (n + 1) * r + (n + 1) * n
          /\ (n + 1) * n = n * n + n
          /\ ((n - 1) + 1) * (m + (n - 1)) = m * n + n * n - n
          /\ (n + 1) * r \in Nat /\ m * n \in Nat /\ n * n \in Nat
      <4> HIDE DEF m, r
      <4> QED
        BY <2>2, <3>4, SMT
    <3>7. n * n >= n /\ n >= 2
      BY <2>2, <2>4, SMT
    <3> DEFINE a == (n + 1) * r
               b == m * n
               c == n * n
    <3>8. /\ a \in Nat /\ b \in Nat /\ c \in Nat /\ c >= n /\ b + ts[n] < a + (n + 1)
          /\ (n + 1) * (r + n) = a + (c + n)
          /\ ((n - 1) + 1) * (m + (n - 1)) = b + c - n
      BY <3>5, <3>6, <3>7
    <3>9. ASSUME NEW i \in 1..n PROVE ts[i] <= (n + 1) * (r + n)
      <4> DEFINE big == (n + 1) * (r + n)
      <4>0. a \in Nat /\ b \in Nat /\ c \in Nat /\ b + ts[n] < a + (n + 1)
            /\ big = a + (c + n) /\ n \in Nat \ {0}
        BY <2>2, <3>8
      <4>1. CASE i = n
        <5> HIDE DEF m, r, a, b, c, big
        <5>1. ts[i] <= big
          BY <3>4, <4>0, <4>1
        <5> QED
          BY <5>1 DEF big
      <4>2. CASE i # n
        <5>1. i \in 1..n - 1 /\ ts[i] \in Nat
          BY <1>3, <2>2, <4>2
        <5>2. ts[i] <= ((n - 1) + 1) * (m + (n - 1))
          BY <3>2, <5>1
        <5>3. ts[i] <= b + c - n
          BY <3>8, <5>2
        <5> HIDE DEF m, r, a, b, c, big
        <5>4. b < a + n
          BY <3>4, <4>0
        <5>5. b + c - n < a + c /\ big = a + (c + n)
          BY <4>0, <5>4
        <5>6. ts[i] <= big
          BY <4>0, <5>1, <5>3, <5>5, SMTT(60)
        <5> QED
          BY <5>6 DEF big
      <4> QED
        BY <4>1, <4>2
    <3> QED
      BY <2>2, <3>9
  <2> QED
    BY <2>3, <2>4
<1>5. Much(N)
  <2>1. N \in Nat /\ N \in 1..N
    BY <1>3
  <2> HIDE DEF Much, N
  <2> QED
    BY <1>4, <2>1
<1> QED
  BY <1>2, <1>5

\* The time of a window is a number, and that of a window of equal gaps so many times
\* the gap.
LEMMA ElapsedIs ==
  ASSUME NEW gaps \in Seq(Int)
  PROVE  /\ Elapsed(gaps) \in Int
         /\ \A g \in Int : (\A i \in 1..Len(gaps) : gaps[i] = g)
                             => Elapsed(gaps) = Len(gaps) * g
<1> DEFINE N == Len(gaps)
           G == [n \in Nat |-> [x \in Int |-> IF n + 1 \in 1..N THEN x + gaps[n + 1] ELSE x]]
           Unrolled(f) == f = [n \in 0..N |-> IF n = 0 THEN 0 ELSE f[n - 1] + gaps[n]]
<1>1. N \in Nat /\ \A n \in 1..N : gaps[n] \in Int
  OBVIOUS
<1>2. G \in [Nat -> [Int -> Int]]
  <2> HIDE DEF N
  <2> QED
    BY <1>1
<1>3. PICK h \in [Nat -> Int] : h[0] = 0 /\ \A n \in Nat : h[n + 1] = G[n][h[n]]
  <2>1. 0 \in Int
    OBVIOUS
  <2> HIDE DEF G
  <2>2. \E h \in [Nat -> Int] : Recurses(h, 0, G)
    BY <1>2, <2>1, HasRecursion
  <2> QED
    BY <2>2 DEF Recurses
<1> DEFINE k == [n \in 0..N |-> h[n]]
<1>4. Unrolled(k)
  <2>1. ASSUME NEW n \in 0..N, n # 0 PROVE k[n] = k[n - 1] + gaps[n]
    <3>1. n - 1 \in Nat /\ (n - 1) + 1 = n /\ n - 1 \in 0..N /\ n \in 1..N
      BY <1>1, <2>1
    <3>2. h[(n - 1) + 1] = G[n - 1][h[n - 1]] /\ h[n - 1] \in Int
      BY <1>3, <3>1
    <3>3. G[n - 1][h[n - 1]] = h[n - 1] + gaps[n]
      BY <3>1, <3>2
    <3>4. k[n] = h[n] /\ k[n - 1] = h[n - 1]
      BY <3>1
    <3> HIDE DEF G, k
    <3> QED
      BY <3>1, <3>2, <3>3, <3>4
  <2>2. k[0] = 0
    BY <1>1, <1>3
  <2>3. k = [n \in 0..N |-> k[n]]
    OBVIOUS
  <2> HIDE DEF k
  <2> QED
    BY <2>1, <2>2, <2>3
<1> DEFINE t == CHOOSE f : Unrolled(f)
<1>5. Elapsed(gaps) = t[N]
  BY Zenon DEF Elapsed
<1>6. Unrolled(t)
  <2> HIDE DEF Unrolled, k
  <2> QED
    BY <1>4
<1> HIDE DEF t
<1>7. t[0] = 0 /\ \A n \in 1..N : t[n] = t[n - 1] + gaps[n]
  <2>1. 0 \in 0..N /\ \A n \in 1..N : n \in 0..N /\ n # 0
    BY <1>1
  <2> HIDE DEF N
  <2> QED
    BY <1>6, <2>1
<1>8. \A n \in 0..N : t[n] \in Int
  <2> DEFINE Bad == {n \in Nat : n \in 0..N /\ t[n] \notin Int}
  <2>1. ASSUME Bad # {} PROVE FALSE
    <3>1. PICK n \in Bad : \A l \in Bad : n <= l
      <4>1. Bad \subseteq Nat
        OBVIOUS
      <4> HIDE DEF Bad
      <4> QED
        BY <2>1, <4>1, HasLeast
    <3>2. n \in 1..N /\ t[n] \notin Int
      BY <1>1, <1>7
    <3>3. n - 1 \in 0..N /\ n - 1 \in Nat /\ ~(n <= n - 1)
      BY <1>1, <3>2
    <3>4. t[n - 1] \in Int
      BY <3>1, <3>3
    <3> QED
      BY <1>1, <1>7, <3>2, <3>4, SMTT(60)
  <2>2. 0..N \subseteq Nat
    BY <1>1
  <2> QED
    BY <2>1, <2>2
<1>9. ASSUME NEW g \in Int, \A i \in 1..N : gaps[i] = g PROVE t[N] = N * g
  <2> DEFINE Bad == {n \in Nat : n \in 0..N /\ t[n] # n * g}
  <2>1. ASSUME Bad # {} PROVE FALSE
    <3>1. PICK n \in Bad : \A l \in Bad : n <= l
      <4>1. Bad \subseteq Nat
        OBVIOUS
      <4> HIDE DEF Bad
      <4> QED
        BY <2>1, <4>1, HasLeast
    <3>2. n \in 0..N /\ t[n] # n * g
      OBVIOUS
    <3>3. n # 0
      <4>1. 0 * g = 0
        BY SMT
      <4> QED
        BY <1>7, <3>2, <4>1
    <3>4. n - 1 \in 0..N /\ n - 1 \in Nat /\ ~(n <= n - 1) /\ n \in 1..N
      BY <1>1, <3>2, <3>3
    <3>5. t[n - 1] = (n - 1) * g
      BY <3>1, <3>4
    <3>6. (n - 1) * g + g = n * g
      BY <3>4, SMT
    <3> QED
      BY <1>7, <1>9, <3>2, <3>4, <3>5, <3>6
  <2>2. N \in Nat /\ N \in 0..N
    BY <1>1
  <2> QED
    BY <2>1, <2>2
<1>10. N \in 0..N
  BY <1>1
<1> QED
  BY <1>5, <1>8, <1>9, <1>10

-----------------------------------------------------------------------------
(* The retarget.                                                            *)

LEMMA ProductsGrow ==
  ASSUME NEW x \in Nat, NEW y \in Nat, NEW z \in Nat, x <= y
  PROVE  x * z <= y * z /\ z * x <= z * y /\ x * z \in Nat /\ y * z \in Nat
         /\ z * x \in Nat /\ z * y \in Nat
BY SMT

LEMMA TimespanIs ==
  /\ TargetTimespan \in Nat \ {0} /\ ClampFactor \in Nat \ {0}
  /\ TargetTimespan \div ClampFactor \in Nat \ {0}
  /\ (TargetTimespan \div ClampFactor) * ClampFactor = TargetTimespan
<1>1. TargetTimespan \in Nat \ {0}
  BY RetargetAssumption, SMT DEF TargetTimespan
<1> DEFINE low == TargetTimespan \div ClampFactor
<1>2. ClampFactor \in Nat \ {0} /\ low * ClampFactor = TargetTimespan
  BY RetargetAssumption
<1>3. low \in Nat
  BY <1>1, <1>2, DivIs
<1>4. low # 0
  <2> HIDE DEF low
  <2>1. 0 * ClampFactor = 0
    BY <1>2, SMT
  <2> QED
    BY <1>1, <1>2, <2>1
<1> QED
  BY <1>1, <1>2, <1>3, <1>4

LEMMA ClampedIs ==
  ASSUME NEW span \in Int
  PROVE  /\ Clamped(span) \in Nat
         /\ Clamped(span) >= TargetTimespan \div ClampFactor
         /\ Clamped(span) <= TargetTimespan * ClampFactor
         /\ span <= TargetTimespan => Clamped(span) <= TargetTimespan
         /\ span >= TargetTimespan => Clamped(span) >= TargetTimespan
<1> DEFINE T == TargetTimespan
           low == T \div ClampFactor
           high == T * ClampFactor
<1>1. T \in Nat \ {0} /\ low \in Nat \ {0} /\ low * ClampFactor = T /\ ClampFactor \in Nat \ {0}
  BY TimespanIs
<1>2. low <= T /\ T <= high /\ high \in Nat
  <2> HIDE DEF T, low
  <2>1. low * 1 <= low * ClampFactor /\ T * 1 <= T * ClampFactor /\ T * ClampFactor \in Nat
    BY <1>1, ProductsGrow
  <2>2. low * 1 = low /\ T * 1 = T
    BY <1>1, SMT
  <2> QED
    BY <1>1, <2>1, <2>2
<1>3. Clamped(span) = IF span < low THEN low ELSE IF span > high THEN high ELSE span
  BY DEF Clamped
<1> HIDE DEF T, low, high
<1>4. /\ Clamped(span) \in Nat /\ Clamped(span) >= low /\ Clamped(span) <= high
      /\ span <= T => Clamped(span) <= T
      /\ span >= T => Clamped(span) >= T
  BY <1>1, <1>2, <1>3
<1> QED
  BY <1>4 DEF T, low, high

\* The new target before the limit, of a mean m and a timespan.
Retargeted(m, span) == (m * Clamped(span)) \div TargetTimespan

LEMMA RetargetedIs ==
  ASSUME NEW m \in Nat \ {0}, NEW span \in Int
  PROVE  /\ Retargeted(m, span) \in Nat
         /\ Retargeted(m, span) <= m * ClampFactor
         /\ span <= TargetTimespan => Retargeted(m, span) <= m
         /\ span >= TargetTimespan => Retargeted(m, span) >= m
         /\ m >= ClampFactor => Retargeted(m, span) >= 1
         /\ \A t \in Nat : t <= m => Retargeted(m, span) >= t \div ClampFactor
<1> DEFINE T == TargetTimespan
           low == T \div ClampFactor
           high == T * ClampFactor
           k == Clamped(span)
           x == m * k
           new == x \div T
<1>1. T \in Nat \ {0} /\ low \in Nat \ {0} /\ low * ClampFactor = T /\ ClampFactor \in Nat \ {0}
  BY TimespanIs
<1>2. /\ k \in Nat /\ k >= low /\ k <= high
      /\ span <= T => k <= T
      /\ span >= T => k >= T
  BY ClampedIs
<1>3. Retargeted(m, span) = new
  BY DEF Retargeted
<1>4. high \in Nat /\ m * high = (m * ClampFactor) * T /\ m * ClampFactor \in Nat
  <2> HIDE DEF T, low
  <2> QED
    BY <1>1, SMT
<1> HIDE DEF T, low, high, k
<1>5. x \in Nat /\ m * low <= x /\ x <= m * high /\ (k <= T => x <= m * T) /\ (k >= T => m * T <= x)
  BY <1>1, <1>2, <1>4, ProductsGrow
<1> HIDE DEF x
<1>6. new \in Nat /\ new * T <= x /\ x < new * T + T /\ new * T \in Nat
  BY <1>1, <1>5, DivIs
<1>7. ASSUME NEW v \in Nat, v * T <= x PROVE v <= new
  BY <1>1, <1>5, <1>7, DivIsGreatest
<1>8. ASSUME NEW v \in Nat, x <= v * T PROVE new <= v
  <2> SUFFICES ASSUME ~(new <= v) PROVE FALSE
    OBVIOUS
  <2> HIDE DEF new
  <2>1. v + 1 <= new
    BY <1>6
  <2>2. (v + 1) * T <= new * T /\ (v + 1) * T = v * T + T /\ v * T \in Nat
    BY <1>1, <1>6, <2>1, SMT
  <2> QED
    BY <1>1, <1>5, <1>6, <1>8, <2>2
<1> HIDE DEF new
<1>9. new <= m * ClampFactor
  BY <1>4, <1>5, <1>8
<1>10. span <= T => new <= m
  BY <1>2, <1>5, <1>8
<1>11. span >= T => new >= m
  BY <1>2, <1>5, <1>6, <1>7
<1>12. ASSUME m >= ClampFactor PROVE new >= 1
  <2>1. ClampFactor * low <= m * low /\ ClampFactor * low \in Nat /\ m * low \in Nat
    BY <1>1, <1>12, ProductsGrow
  <2>2. ClampFactor * low = T /\ 1 * T = T
    BY <1>1, SMT
  <2>3. 1 * T <= x
    BY <1>1, <1>5, <2>1, <2>2
  <2>4. 1 <= new
    BY <1>7, <2>3
  <2> QED
    BY <1>6, <2>4
<1>13. ASSUME NEW t \in Nat, t <= m PROVE new >= t \div ClampFactor
  <2> DEFINE q == t \div ClampFactor
  <2>1. q \in Nat /\ q * ClampFactor <= t /\ q * ClampFactor \in Nat
    BY <1>1, DivIs
  <2> HIDE DEF q
  <2>2. q * ClampFactor <= m
    BY <1>13, <2>1
  <2>3. (q * ClampFactor) * low <= m * low
    BY <1>1, <2>1, <2>2, ProductsGrow
  <2>4. (q * ClampFactor) * low = q * (low * ClampFactor)
    BY <1>1, <2>1, SMT
  <2>5. q * T \in Nat /\ m * low \in Nat
    BY <1>1, <2>1, SMT
  <2>6. q * T <= x
    BY <1>1, <1>5, <2>3, <2>4, <2>5
  <2>7. q <= new
    BY <1>7, <2>1, <2>6
  <2> QED
    BY <1>6, <2>1, <2>7 DEF q
<1> QED
  BY <1>3, <1>6, <1>9, <1>10, <1>11, <1>12, <1>13 DEF T

-----------------------------------------------------------------------------
(* The chain.                                                               *)

\* A block that could be in a chain.
Blocks == [target : 1..PowLimit, gap : Gaps \cup {0}]

\* Every target in the window is in range and its own compact form, and a block that
\* was mined beyond the hardest target was slow.
IInv ==
  /\ depth \in 0..PastBlocks
  /\ window \in Seq(Blocks)
  /\ Len(window) = IF depth < PastBlocks THEN depth + 1 ELSE PastBlocks
  /\ \A i \in 1..Len(window) :
       /\ Compact(window[i].target) = window[i].target
       /\ window[i].target < Hardest => window[i].gap = Slow

\* A full window: its targets and its time.
LEMMA WindowIs ==
  ASSUME IInv, depth = PastBlocks
  PROVE  /\ Targets \in Seq(Nat \ {0}) /\ Targets # <<>> /\ Len(Targets) = PastBlocks
         /\ \A i \in 1..PastBlocks : Targets[i] \in Seen /\ Targets[i] \in 1..PowLimit
                                     /\ Compact(Targets[i]) = Targets[i]
         /\ \A t \in Seen : \E i \in 1..PastBlocks : t = Targets[i]
         /\ Timespan \in Int
         /\ (\A i \in 1..PastBlocks : Targets[i] < Hardest) => Timespan >= TargetTimespan
<1>1. PastBlocks \in Nat \ {0} /\ PowLimit \in Nat \ {0} /\ Gaps \cup {0} \subseteq Int
      /\ Slow \in Int
  BY RetargetAssumption, WorldAssumption
<1>2. window \in Seq(Blocks) /\ Len(window) = PastBlocks
  BY <1>1 DEF IInv
<1>3. \A i \in 1..PastBlocks : window[i] \in Blocks
  BY <1>2
<1>4. \A i \in 1..PastBlocks : window[i].target \in 1..PowLimit /\ window[i].gap \in Int
  BY <1>1, <1>3 DEF Blocks
<1>5. Targets = [i \in 1..PastBlocks |-> window[i].target]
  BY DEF Targets
<1>6. \A i \in 1..PastBlocks : Targets[i] \in Nat \ {0}
  BY <1>1, <1>4, <1>5
<1>7. Targets \in [1..PastBlocks -> Nat \ {0}]
  BY <1>5, <1>6
<1>8. Targets \in Seq(Nat \ {0}) /\ Len(Targets) = PastBlocks
  BY <1>1, <1>7, SeqDef
<1>9. Targets # <<>>
  BY <1>1, <1>8
<1>10. \A i \in 1..PastBlocks : Targets[i] \in Seen /\ Targets[i] \in 1..PowLimit
                                /\ Compact(Targets[i]) = Targets[i]
  BY <1>2, <1>4, <1>5 DEF Seen, IInv
<1>11. \A t \in Seen : \E i \in 1..PastBlocks : t = Targets[i]
  BY <1>2, <1>5 DEF Seen
<1> DEFINE gaps == [i \in 1..(PastBlocks - 1) |-> window[i].gap]
<1>12. gaps \in Seq(Int) /\ Len(gaps) = PastBlocks - 1
  <2>1. PastBlocks - 1 \in Nat /\ gaps \in [1..(PastBlocks - 1) -> Int]
    BY <1>1, <1>4
  <2> HIDE DEF gaps
  <2> QED
    BY <2>1, SeqDef
<1>13. Timespan = Elapsed(gaps)
  BY DEF Timespan
<1>14. Timespan \in Int
  <2> HIDE DEF gaps
  <2> QED
    BY <1>12, <1>13, ElapsedIs
<1>15. ASSUME \A i \in 1..PastBlocks : Targets[i] < Hardest
       PROVE  Timespan >= TargetTimespan
  <2>1. \A i \in 1..(PastBlocks - 1) : window[i].gap = Slow
    BY <1>1, <1>2, <1>5, <1>15 DEF IInv
  <2>2. \A i \in 1..Len(gaps) : gaps[i] = Slow
    BY <1>12, <2>1
  <2> HIDE DEF gaps
  <2>3. Timespan = (PastBlocks - 1) * Slow
    BY <1>1, <1>12, <1>13, <2>2, ElapsedIs
  <2> QED
    BY <2>3, WorldAssumption
<1> QED
  BY <1>8, <1>9, <1>10, <1>11, <1>14, <1>15

\* What a full window requires next.
LEMMA NextIs ==
  ASSUME IInv, depth = PastBlocks
  PROVE  \E b \in 1..PowLimit :
           /\ GetNextWorkRequired = Compact(b)
           /\ b <= Retargeted(Mean(Targets), Timespan)
           /\ b = PowLimit \/ b = Retargeted(Mean(Targets), Timespan)
           /\ Mean(Targets) \in Nat \ {0}
<1>1. PastBlocks \in Nat \ {0} /\ PowLimit \in Nat \ {0} /\ ClampFactor \in Nat \ {0}
      /\ Hardest \in Nat
  BY RetargetAssumption, WorldAssumption
<1>2. /\ Targets \in Seq(Nat \ {0}) /\ Targets # <<>> /\ Len(Targets) = PastBlocks
      /\ \A i \in 1..PastBlocks : Targets[i] \in 1..PowLimit
      /\ Timespan \in Int
      /\ (\A i \in 1..PastBlocks : Targets[i] < Hardest) => Timespan >= TargetTimespan
  BY WindowIs
<1> DEFINE m == Mean(Targets)
           new == Retargeted(m, Timespan)
           b == IF new > PowLimit THEN PowLimit ELSE new
<1>3. m \in Nat \ {0}
  <2>1. Targets \in Seq(Nat)
    <3>1. Nat \ {0} \subseteq Nat
      OBVIOUS
    <3> QED
      BY <1>2, <3>1, SeqMonotonic
  <2>2. \A i \in 1..Len(Targets) : 1 <= Targets[i] /\ Targets[i] <= PowLimit
    BY <1>1, <1>2
  <2>3. 1 \in Nat /\ PowLimit \in Nat
    BY <1>1
  <2>4. m \in Nat /\ 1 <= m
    BY <1>2, <2>1, <2>2, <2>3, MeanIsBetween
  <2> QED
    BY <2>4
<1>4. new \in Nat /\ (Timespan >= TargetTimespan => new >= m) /\ (m >= ClampFactor => new >= 1)
  <2> HIDE DEF m
  <2> QED
    BY <1>2, <1>3, RetargetedIs
<1>5. new >= 1
  <2>1. CASE m >= ClampFactor
    BY <1>4, <2>1
  <2>2. CASE m < ClampFactor
    <3>1. ASSUME NEW i \in 1..PastBlocks PROVE Targets[i] < Hardest
      <4>1. Targets[i] <= (PastBlocks + 1) * (m + PastBlocks) /\ Targets[i] \in Nat
        BY <1>2, <1>1, MeanIsMuch, SMTT(60)
      <4>2. (PastBlocks + 1) * (m + PastBlocks) <= (PastBlocks + 1) * (PastBlocks + ClampFactor)
            /\ (PastBlocks + 1) * (m + PastBlocks) \in Nat
            /\ (PastBlocks + 1) * (PastBlocks + ClampFactor) \in Nat
        <5>1. m + PastBlocks \in Nat /\ PastBlocks + ClampFactor \in Nat /\ PastBlocks + 1 \in Nat
              /\ m + PastBlocks <= PastBlocks + ClampFactor
          <6> HIDE DEF m
          <6> QED
            BY <1>1, <1>3, <2>2
        <5> QED
          BY <5>1, ProductsGrow
      <4>3. Hardest > (PastBlocks + 1) * (PastBlocks + ClampFactor)
        BY WorldAssumption
      <4> DEFINE p == (PastBlocks + 1) * (m + PastBlocks)
                 q == (PastBlocks + 1) * (PastBlocks + ClampFactor)
      <4>4. Targets[i] <= p /\ p <= q /\ q < Hardest /\ p \in Nat /\ q \in Nat
        BY <4>1, <4>2, <4>3
      <4> HIDE DEF p, q
      <4> QED
        BY <1>1, <4>1, <4>4
    <3>2. new >= m
      BY <1>2, <1>4, <3>1
    <3> HIDE DEF m, new
    <3> QED
      BY <1>3, <1>4, <3>2
  <2> HIDE DEF m
  <2> QED
    BY <1>1, <1>3, <2>1, <2>2
<1>6. GetNextWorkRequired = Compact(b)
  <2>1. ~(depth < PastBlocks)
    BY <1>1
  <2> QED
    BY <2>1 DEF GetNextWorkRequired, DarkGravityWave, Retargeted
<1>7. b \in 1..PowLimit /\ b <= new /\ (b = PowLimit \/ b = new)
  <2> HIDE DEF new
  <2> QED
    BY <1>1, <1>4, <1>5
<1> HIDE DEF b
<1> QED
  BY <1>3, <1>6, <1>7

\* Whatever the depth, the next target is in range and its own compact form.
LEMMA NextIsSound ==
  ASSUME IInv
  PROVE  GetNextWorkRequired \in 1..PowLimit
         /\ Compact(GetNextWorkRequired) = GetNextWorkRequired
<1>1. PowLimit \in Nat \ {0} /\ Compact(PowLimit) = PowLimit /\ PastBlocks \in Nat
  BY RetargetAssumption
<1>2. CASE depth < PastBlocks
  BY <1>1, <1>2 DEF GetNextWorkRequired
<1>3. CASE depth = PastBlocks
  <2>1. PICK b \in 1..PowLimit : GetNextWorkRequired = Compact(b)
    BY <1>3, NextIs
  <2>2. b \in Nat \ {0} /\ b \in Nat
    BY <1>1
  <2>3. Compact(b) \in Nat \ {0} /\ Compact(b) <= b
    BY <2>2, CompactIs
  <2>4. Compact(b) \in 1..PowLimit
    BY <1>1, <2>2, <2>3
  <2>5. Compact(Compact(b)) = Compact(b)
    BY <2>2, CompactIsFixed
  <2> QED
    BY <2>1, <2>4, <2>5
<1> QED
  BY <1>1, <1>2, <1>3 DEF IInv

LEMMA InitInv == RetargetInit => IInv
<1> SUFFICES ASSUME RetargetInit PROVE IInv
  OBVIOUS
<1> DEFINE b == [target |-> PowLimit, gap |-> 0]
<1>1. PowLimit \in Nat \ {0} /\ Compact(PowLimit) = PowLimit /\ PastBlocks \in Nat \ {0}
      /\ Hardest \in Nat /\ Hardest <= PowLimit
  BY RetargetAssumption, WorldAssumption
<1>2. b \in Blocks
  BY <1>1 DEF Blocks
<1>3. depth = 0 /\ window = <<b>>
  BY DEF RetargetInit
<1>4. b.target = PowLimit
  OBVIOUS
<1> HIDE DEF b
<1>5. window \in Seq(Blocks) /\ Len(window) = 1 /\ window[1] = b
  BY <1>2, <1>3
<1>6. \A i \in 1..Len(window) : Compact(window[i].target) = window[i].target
                                /\ ~(window[i].target < Hardest)
  BY <1>1, <1>4, <1>5
<1> QED
  BY <1>1, <1>3, <1>5, <1>6 DEF IInv

LEMMA ExtendKeeps ==
  ASSUME IInv, NEW gap \in Gaps, Extend(gap)
  PROVE  IInv'
<1>1. PastBlocks \in Nat \ {0} /\ PowLimit \in Nat \ {0}
  BY RetargetAssumption
<1> DEFINE next == GetNextWorkRequired
           b == [target |-> next, gap |-> gap]
           all == <<b>> \o window
           n == IF Len(window) < PastBlocks THEN Len(window) + 1 ELSE PastBlocks
<1>2. next \in 1..PowLimit /\ Compact(next) = next
  BY NextIsSound
<1>3. /\ next < Hardest => gap = Slow
      /\ depth' = IF depth < PastBlocks THEN depth + 1 ELSE depth
      /\ window' = SubSeq(all, 1, n)
  BY DEF Extend
<1>4. b \in Blocks /\ b.target = next /\ b.gap = gap
  BY <1>2 DEF Blocks
<1> HIDE DEF next, b
<1>5. /\ depth \in 0..PastBlocks /\ window \in Seq(Blocks)
      /\ Len(window) = IF depth < PastBlocks THEN depth + 1 ELSE PastBlocks
      /\ \A i \in 1..Len(window) :
           /\ Compact(window[i].target) = window[i].target
           /\ window[i].target < Hardest => window[i].gap = Slow
  BY DEF IInv
<1>6. /\ all \in Seq(Blocks) /\ Len(all) = Len(window) + 1 /\ all[1] = b
      /\ \A i \in 2..Len(all) : all[i] = window[i - 1]
  BY <1>4, <1>5
<1>7. n \in 0..Len(all) /\ n \in Nat
  BY <1>1, <1>5, <1>6
<1> HIDE DEF all
<1>8. window' \in Seq(Blocks) /\ Len(window') = n /\ \A i \in 1..n : window'[i] = all[i]
  <2>1. \A i \in 1..n : all[i] \in Blocks
    BY <1>6, <1>7
  <2> HIDE DEF n
  <2> QED
    BY <1>3, <1>6, <1>7, <2>1, SubSeqProperties
<1>9. ASSUME NEW i \in 1..n
      PROVE  /\ Compact(window'[i].target) = window'[i].target
             /\ window'[i].target < Hardest => window'[i].gap = Slow
  <2>1. CASE i = 1
    BY <1>2, <1>3, <1>4, <1>6, <1>8, <2>1
  <2>2. CASE i # 1
    <3>1. Len(window) \in Nat /\ Len(all) = Len(window) + 1 /\ i \in 1..n /\ n <= Len(all)
      BY <1>5, <1>6, <1>7
    <3> HIDE DEF n
    <3>2. i \in 2..Len(all) /\ i - 1 \in 1..Len(window)
      BY <1>7, <2>2, <3>1
    <3>3. window'[i] = window[i - 1]
      BY <1>6, <1>8, <3>2
    <3> QED
      BY <1>5, <3>2, <3>3
  <2> QED
    BY <2>1, <2>2
<1>10. depth' \in 0..PastBlocks
  BY <1>1, <1>3, <1>5
<1>11. n = IF depth' < PastBlocks THEN depth' + 1 ELSE PastBlocks
  BY <1>1, <1>3, <1>5
<1> HIDE DEF n
<1> QED
  BY <1>8, <1>9, <1>10, <1>11 DEF IInv

\* The invariant of the window.
THEOREM InvariantHolds == RetargetSpec => []IInv
<1>1. RetargetInit => IInv
  BY InitInv
<1>2. IInv /\ [RetargetNext]_retargetVars => IInv'
  <2> SUFFICES ASSUME IInv, [RetargetNext]_retargetVars PROVE IInv'
    OBVIOUS
  <2>1. CASE RetargetNext
    BY <2>1, ExtendKeeps DEF RetargetNext
  <2>2. CASE UNCHANGED retargetVars
    BY <2>2 DEF IInv, retargetVars
  <2> QED
    BY <2>1, <2>2
<1> QED
  BY <1>1, <1>2, PTL DEF RetargetSpec

-----------------------------------------------------------------------------
(* The theorems.                                                            *)

\* If every target times f is less than k, the mean is less than k divided by f.
LEMMA MeanIsLess ==
  ASSUME IInv, depth = PastBlocks, NEW k \in Nat \ {0}, NEW f \in Nat \ {0},
         \A t \in Seen : t * f < k
  PROVE  Mean(Targets) * f < k
<1>1. PowLimit \in Nat \ {0}
  BY RetargetAssumption
<1>2. /\ Targets \in Seq(Nat \ {0}) /\ Targets # <<>> /\ Len(Targets) = PastBlocks
      /\ \A i \in 1..PastBlocks : Targets[i] \in Seen /\ Targets[i] \in 1..PowLimit
  BY WindowIs
<1>3. Targets \in Seq(Nat)
  <2>1. Nat \ {0} \subseteq Nat
    OBVIOUS
  <2> QED
    BY <1>2, <2>1, SeqMonotonic
<1> DEFINE hi == (k - 1) \div f
<1>4. k - 1 \in Nat /\ hi \in Nat /\ hi * f <= k - 1 /\ hi * f \in Nat
  <2>1. k - 1 \in Nat
    OBVIOUS
  <2> QED
    BY <2>1, DivIs
<1>5. ASSUME NEW i \in 1..Len(Targets) PROVE 0 <= Targets[i] /\ Targets[i] <= hi
  <2> DEFINE t == Targets[i]
  <2>1. t \in Nat /\ t * f < k
    BY <1>1, <1>2
  <2>2. t * f \in Nat
    BY <2>1, SMT
  <2>3. t * f <= k - 1
    BY <2>1, <2>2
  <2> HIDE DEF t
  <2>4. t <= hi
    BY <1>4, <2>1, <2>3, DivIsGreatest
  <2> QED
    BY <2>1, <2>4 DEF t
<1> HIDE DEF hi
<1>6. Mean(Targets) \in Nat /\ Mean(Targets) <= hi
  <2>1. 0 \in Nat
    OBVIOUS
  <2> QED
    BY <1>2, <1>3, <1>4, <1>5, <2>1, MeanIsBetween
<1>7. Mean(Targets) * f <= hi * f /\ Mean(Targets) * f \in Nat
  BY <1>4, <1>6, ProductsGrow
<1> QED
  BY <1>4, <1>7

\* The mean is not less than every target.
LEMMA MeanIsAbove ==
  ASSUME IInv, depth = PastBlocks
  PROVE  \E t \in Seen : t \in 1..PowLimit /\ Compact(t) = t /\ t <= Mean(Targets)
<1>1. PowLimit \in Nat \ {0} /\ PastBlocks \in Nat \ {0}
  BY RetargetAssumption
<1>2. /\ Targets \in Seq(Nat \ {0}) /\ Targets # <<>> /\ Len(Targets) = PastBlocks
      /\ \A i \in 1..PastBlocks : Targets[i] \in Seen /\ Targets[i] \in 1..PowLimit
                                  /\ Compact(Targets[i]) = Targets[i]
      /\ \A t \in Seen : \E i \in 1..PastBlocks : t = Targets[i]
  BY WindowIs
<1>3. Targets \in Seq(Nat)
  <2>1. Nat \ {0} \subseteq Nat
    OBVIOUS
  <2> QED
    BY <1>2, <2>1, SeqMonotonic
<1>4. Seen \subseteq Nat /\ Seen # {}
  BY <1>1, <1>2
<1>5. PICK t \in Seen : \A u \in Seen : t <= u
  BY <1>4, HasLeast
<1>6. t \in 1..PowLimit /\ Compact(t) = t
  BY <1>2
<1>7. \A i \in 1..Len(Targets) : t <= Targets[i] /\ Targets[i] <= PowLimit
  BY <1>1, <1>2, <1>5
<1>8. t <= Mean(Targets)
  BY <1>1, <1>2, <1>3, <1>4, <1>7, MeanIsBetween
<1> QED
  BY <1>6, <1>8

\* For any window, spacing, clamp and digits, whatever times the blocks carry: the next
\* target of a full window is one that CheckProofOfWork accepts, is at most ClampFactor
\* times as easy as the easiest of the window, and at most as much harder than the
\* hardest of it as the clamp and the compact form allow.
THEOREM RetargetsAreBounded == RetargetSpec => []RetargetIsBounded
<1>1. IInv => RetargetIsBounded
  <2> SUFFICES ASSUME IInv, depth = PastBlocks
               PROVE  /\ InRange(GetNextWorkRequired)
                      /\ \E t \in Seen : GetNextWorkRequired <= t * ClampFactor
                      /\ \E t \in Seen : GetNextWorkRequired >= Compact(t \div ClampFactor)
    BY DEF RetargetIsBounded
  <2>1. PowLimit \in Nat \ {0} /\ ClampFactor \in Nat \ {0}
    BY RetargetAssumption
  <2> DEFINE m == Mean(Targets)
             new == Retargeted(m, Timespan)
             next == GetNextWorkRequired
  <2>2. PICK b \in 1..PowLimit : /\ next = Compact(b) /\ b <= new /\ (b = PowLimit \/ b = new)
                                 /\ m \in Nat \ {0}
    BY NextIs
  <2>3. Timespan \in Int
    BY WindowIs
  <2> HIDE DEF m
  <2>4. /\ new \in Nat /\ new <= m * ClampFactor
        /\ \A t \in Nat : t <= m => new >= t \div ClampFactor
    BY <2>2, <2>3, RetargetedIs
  <2> HIDE DEF new, next
  <2>5. next \in Nat \ {0} /\ next <= b /\ b \in Nat \ {0}
    <3>1. b \in Nat \ {0}
      BY <2>1
    <3> QED
      BY <2>2, <3>1, CompactIs
  <2>6. InRange(next)
    BY <2>1, <2>5 DEF InRange
  <2>7. \E t \in Seen : next <= t * ClampFactor
    <3> SUFFICES ASSUME \A t \in Seen : ~(next <= t * ClampFactor) PROVE FALSE
      OBVIOUS
    <3>1. \A t \in Seen : t * ClampFactor < next
      <4> SUFFICES ASSUME NEW t \in Seen PROVE t * ClampFactor < next
        OBVIOUS
      <4>1. t \in Nat
        BY <2>1, WindowIs
      <4>2. t * ClampFactor \in Nat
        BY <2>1, <4>1, SMT
      <4> QED
        BY <2>5, <4>2
    <3>2. m * ClampFactor < next
      BY <2>1, <2>5, <3>1, MeanIsLess DEF m
    <3>3. m * ClampFactor \in Nat
      BY <2>1, <2>2, SMT
    <3> QED
      BY <2>2, <2>4, <2>5, <3>2, <3>3
  <2>8. \E t \in Seen : next >= Compact(t \div ClampFactor)
    <3>1. PICK t \in Seen : t \in 1..PowLimit /\ t <= m
      BY MeanIsAbove DEF m
    <3> DEFINE q == t \div ClampFactor
    <3>2. t \in Nat /\ q \in Nat /\ q <= t
      <4>1. t \in Nat
        BY <2>1, <3>1
      <4>2. q \in Nat /\ q * ClampFactor <= t
        BY <2>1, <4>1, DivIs
      <4> HIDE DEF q
      <4>3. q * 1 <= q * ClampFactor /\ q * 1 = q /\ q * ClampFactor \in Nat
        BY <2>1, <4>2, SMT
      <4> QED
        BY <4>1, <4>2, <4>3
    <3>3. q <= b
      BY <2>1, <2>2, <2>4, <3>1, <3>2
    <3> HIDE DEF q
    <3>4. CASE q = 0
      BY <2>5, <3>1, <3>4, CompactOfZero DEF q
    <3>5. CASE q # 0
      BY <2>2, <2>5, <3>1, <3>2, <3>3, <3>5, CompactGrows, CompactIs DEF q
    <3> QED
      BY <3>4, <3>5
  <2> QED
    BY <2>6, <2>7, <2>8 DEF next
<1> QED
  BY <1>1, InvariantHolds, PTL

\* A full window that took longer than it should is followed by a target at least as
\* easy as the hardest in it, and one that took less by one at least as hard as the
\* easiest, for any constants of the rule.
THEOREM RetargetsFollowTime == RetargetSpec => []RetargetFollowsTime
<1>1. IInv => RetargetFollowsTime
  <2> SUFFICES ASSUME IInv, depth = PastBlocks
               PROVE  /\ Timespan <= TargetTimespan
                           => \E t \in Seen : GetNextWorkRequired <= t
                      /\ Timespan >= TargetTimespan
                           => \E t \in Seen : GetNextWorkRequired >= t
    BY DEF RetargetFollowsTime
  <2>1. PowLimit \in Nat \ {0}
    BY RetargetAssumption
  <2> DEFINE m == Mean(Targets)
             new == Retargeted(m, Timespan)
             next == GetNextWorkRequired
  <2>2. PICK b \in 1..PowLimit : /\ next = Compact(b) /\ b <= new /\ (b = PowLimit \/ b = new)
                                 /\ m \in Nat \ {0}
    BY NextIs
  <2>3. Timespan \in Int
    BY WindowIs
  <2> HIDE DEF m
  <2>4. /\ new \in Nat
        /\ Timespan <= TargetTimespan => new <= m
        /\ Timespan >= TargetTimespan => new >= m
    BY <2>2, <2>3, RetargetedIs
  <2> HIDE DEF new, next
  <2>5. next \in Nat \ {0} /\ next <= b /\ b \in Nat \ {0}
    <3>1. b \in Nat \ {0}
      BY <2>1
    <3> QED
      BY <2>2, <3>1, CompactIs
  <2>6. ASSUME Timespan <= TargetTimespan PROVE \E t \in Seen : next <= t
    <3> SUFFICES ASSUME \A t \in Seen : ~(next <= t) PROVE FALSE
      OBVIOUS
    <3>1. \A t \in Seen : t * 1 < next
      <4> SUFFICES ASSUME NEW t \in Seen PROVE t * 1 < next
        OBVIOUS
      <4>1. t \in Nat
        BY <2>1, WindowIs
      <4> QED
        BY <2>5, <4>1
    <3>2. m * 1 < next
      BY <2>5, <3>1, MeanIsLess DEF m
    <3> QED
      BY <2>2, <2>4, <2>5, <2>6, <3>2
  <2>7. ASSUME Timespan >= TargetTimespan PROVE \E t \in Seen : next >= t
    <3>1. PICK t \in Seen : t \in 1..PowLimit /\ Compact(t) = t /\ t <= m
      BY MeanIsAbove DEF m
    <3>2. t \in Nat \ {0} /\ t <= b
      BY <2>1, <2>2, <2>4, <2>7, <3>1
    <3>3. Compact(t) <= Compact(b)
      BY <2>5, <3>2, CompactGrows
    <3> QED
      BY <2>2, <2>5, <3>1, <3>2, <3>3
  <2> QED
    BY <2>6, <2>7 DEF next
<1> QED
  BY <1>1, InvariantHolds, PTL
=============================================================================
