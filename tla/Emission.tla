------------------------------ MODULE Emission ------------------------------
(***************************************************************************)
(* The money a chain may create: the subsidy schedule, the treasury's      *)
(* share and the closed forms of src/wam/consensus/subsidy.cpp, and the    *)
(* rule of devfee.cpp that a block must meet to be connected.              *)
(*                                                                         *)
(* One action connects one block.  A chain that is disconnected again goes *)
(* back to a state it was in, so one growing chain stands for all.         *)
(***************************************************************************)
EXTENDS Integers, FiniteSetsExt

CONSTANTS
  Premine,      \* WAM_GENESIS_PREMINE
  Initial,      \* WAM_INITIAL_BLOCK_SUBSIDY
  Interval,     \* nSubsidyHalvingInterval
  MaxHalvings,  \* WAM_MAX_HALVINGS
  Halved,       \* WAM_INITIAL_BLOCK_SUBSIDY >> e, for each e up to MaxHalvings
  Percent,      \* WAM_DEVFEE_PERCENT
  StartFee,     \* WAM_DEVFEE_START_HEIGHT
  LastFee,      \* WAM_DEVFEE_LAST_HEIGHT
  MaxMoney,     \* WAM_MAX_MONEY
  MaxHeight,    \* bound: the chain's height
  Slack         \* bound: how far a coinbase is from what the rules ask for

\* The static_asserts of wam-params.h.
ASSUME ConstantsAssumption ==
  /\ Premine \in Nat /\ Initial \in Nat /\ Interval \in Nat \ {0}
  /\ MaxHalvings \in Nat \ {0} /\ Percent \in 0..100
  /\ StartFee = 1 /\ LastFee \in Nat /\ LastFee >= StartFee
  /\ MaxMoney = Premine + 2 * (Interval * Initial)
  /\ MaxHeight \in Nat /\ Slack \in Nat
\* A right shift halves, and MaxHalvings shifts exhaust the subsidy (93).
ASSUME ShiftAssumption ==
  /\ Halved \in [0..MaxHalvings -> Nat]
  /\ Halved[0] = Initial /\ Halved[MaxHalvings] = 0
  /\ \A e \in 0..(MaxHalvings - 1) : Halved[e + 1] = Halved[e] \div 2

VARIABLES
  height,    \* the tip
  issued,    \* the subsidies up to it
  owed,      \* the treasury's shares of them
  minted,    \* what the coinbases created
  treasury   \* what they paid to the treasury

vars == <<height, issued, owed, minted, treasury>>

TypeOK ==
  /\ height \in 0..MaxHeight
  /\ issued \in Nat /\ owed \in Nat /\ minted \in Nat /\ treasury \in Nat

-----------------------------------------------------------------------------

Halvings(h) == (h - 1) \div Interval

\* Mutant: the first block of an epoch still has the subsidy of the last one.
GetBlockSubsidy_Late(h) ==
  IF h = 0 THEN Premine
  ELSE IF h \div Interval >= MaxHalvings THEN 0
  ELSE Halved[h \div Interval]

GetBlockSubsidy(h) ==
  IF h = 0 THEN Premine
  ELSE IF Halvings(h) >= MaxHalvings THEN 0
  ELSE Halved[Halvings(h)]

IsDevFeeActive(h) == h >= StartFee /\ h <= LastFee

GetDevFeeAmount(subsidy, h) ==
  IF IsDevFeeActive(h) THEN (subsidy * Percent) \div 100 ELSE 0

\* The height of an epoch's first block, and of its last that pays the treasury.
First(e) == e * Interval + 1
Last(e)  == Min({(e + 1) * Interval, LastFee})

GetLifetimeDevFee ==
  MapThenSumSet(LAMBDA e : (Last(e) - First(e) + 1) * GetDevFeeAmount(Halved[e], First(e)),
                {e \in 0..(MaxHalvings - 1) : First(e) <= LastFee})

\* Whole epochs, and then the one the tip is in.
Completed(h) == IF h >= 1 THEN Halvings(h) ELSE 0

GetTotalSupplyAtHeight(h) ==
  Premine
    + MapThenSumSet(LAMBDA e : Interval * Halved[e],
                    {e \in 0..(MaxHalvings - 1) : e < Completed(h)})
    + (IF h >= 1 /\ Completed(h) < MaxHalvings
       THEN (((h - 1) % Interval) + 1) * Halved[Completed(h)] ELSE 0)

\* Mutant: the treasury may be paid less once its share is small.
CheckDevFeeOutput_Lenient(paid, h) ==
  paid >= GetDevFeeAmount(GetBlockSubsidy(h), h) - 1

\* A floor and not a ceiling; nothing is asked outside the window, or when the
\* share truncates to zero.
CheckDevFeeOutput(paid, h) ==
  \/ ~IsDevFeeActive(h)
  \/ GetDevFeeAmount(GetBlockSubsidy(h), h) <= 0
  \/ paid >= GetDevFeeAmount(GetBlockSubsidy(h), h)

\* Mutant: the treasury's share comes on top of the subsidy.
CheckSubsidy_OnTop(mint, h) ==
  mint <= GetBlockSubsidy(h) + GetDevFeeAmount(GetBlockSubsidy(h), h)

\* ConnectBlock: no more than the subsidy is new money.
CheckSubsidy(mint, h) == mint <= GetBlockSubsidy(h)

-----------------------------------------------------------------------------

\* The genesis block is the premine.
Init ==
  /\ height = 0
  /\ issued = GetBlockSubsidy(0) /\ minted = GetBlockSubsidy(0)
  /\ owed = 0 /\ treasury = 0

Around(n) == {k \in (n - Slack)..(n + Slack) : k >= 0}

\* A block whose coinbase creates `mint` and pays the treasury `paid`.
Connect(mint, paid) ==
  /\ height < MaxHeight
  /\ CheckSubsidy(mint, height + 1)
  /\ CheckDevFeeOutput(paid, height + 1)
  /\ height' = height + 1
  /\ issued' = issued + GetBlockSubsidy(height + 1)
  /\ owed' = owed + GetDevFeeAmount(GetBlockSubsidy(height + 1), height + 1)
  /\ minted' = minted + mint
  /\ treasury' = treasury + paid

Next ==
  \E mint \in Around(GetBlockSubsidy(height + 1)),
     paid \in Around(GetDevFeeAmount(GetBlockSubsidy(height + 1), height + 1)) :
    Connect(mint, paid)

Spec == Init /\ [][Next]_vars

-----------------------------------------------------------------------------
(* Properties.                                                              *)

\* The closed form that getwaminfo reports is the sum of the subsidies, at every
\* height and across every epoch boundary.
SupplyIsExact == issued = GetTotalSupplyAtHeight(height)

\* No chain ever exceeds the cap (wam-params.h 68), whatever its miners claim, and
\* the treasury's share is carved out of it and not added (103-104).
SupplyIsCapped == minted <= issued /\ issued <= MaxMoney /\ owed <= issued

\* The treasury has had its share of every block, and after its last block that
\* is what GetLifetimeDevFee says ("lifetime treasury income", wam-params.h 139).
TreasuryIsPaid ==
  /\ treasury >= owed
  /\ height >= LastFee => owed = GetLifetimeDevFee
=============================================================================
