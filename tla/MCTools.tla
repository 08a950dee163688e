------------------------------ MODULE MCTools -------------------------------
(***************************************************************************)
(* The programs that make the source tree, the keys, block 0 and spends,   *)
(* and those that audit the money.  They share nothing: a behaviour        *)
(* exercises one of them.  Those that are proved about are extended, and   *)
(* keep their state in their own variables; of the others the same places  *)
(* hold whichever state it has.                                            *)
(***************************************************************************)
EXTENDS TreasurySpend, FeeSweep, Checkpoint, GenesisMiner

VARIABLES
  machine,   \* the one this behaviour exercises
  s1, s2, s3, s4, s5, s6, s7, s8, s9, s10, s11, s12, s13, s14   \* its state, where it has no variables of its own

places == <<s1, s2, s3, s4, s5, s6, s7, s8, s9, s10, s11, s12, s13, s14>>

\* Two payments, to two people and of two sizes.
Two == <<[to |-> "a", amount |-> 4], [to |-> "b", amount |-> 6]>>

\* One of two nodes is asked, or both, or one of them twice.
AskedNodes == {<<"n1">>, <<"n1", "n2">>, <<"n1", "n1">>}

Drift(kind, file, text) == [kind |-> kind, file |-> file, text |-> text]
Drifts ==
  {Drift("none", "", ""),
   Drift("missing", "src/validation.cpp", "#include <validation.h>"),
   Drift("twice", "src/validation.cpp", "nBits != GetNextWorkRequired"),
   Drift("twice", "src/init/common.cpp", "Using data directory"),
   Drift("missing", "src/common/args.cpp", "pathRet / .bitcoin"),
   Drift("missing", "src/Makefile.am", "BITCOIN_CORE_H"),
   Drift("gone", "src/qt/res/icons/bitcoin.ico", ""),
   Drift("gone", "src/wallet/walletutil.cpp", "")}

Constant(name, times, of) == [name |-> name, times |-> times, of |-> of]
Header ==
  <<Constant("COIN", 4, ""), Constant("PREMINE", 4, "COIN"), Constant("INITIAL", 8, "COIN"),
    Constant("MINING", 32, "COIN"), Constant("MAX_MONEY", 36, "COIN"),
    Constant("INTERVAL", 2, ""), Constant("HALVINGS", 6, ""), Constant("DEVFEE", 25, ""),
    Constant("SUNSET", 3, ""), Constant("TRANCHES", 2, ""), Constant("TRANCHE_AMT", 2, "COIN"),
    Constant("GTIME", 6, "")>>
Edits ==
  [COIN |-> {3, 4}, PREMINE |-> {}, INITIAL |-> {4, 8, 16}, MINING |-> {}, MAX_MONEY |-> {},
   INTERVAL |-> {1, 2, 4}, HALVINGS |-> {5, 6, 7}, DEVFEE |-> {25, 30}, SUNSET |-> {2, 3, 20},
   TRANCHES |-> {}, TRANCHE_AMT |-> {2, 3}, GTIME |-> {6, 7}]

\* Three releases; upstream as it is pinned, or with one thing changed.
Tree == INSTANCE SourceTree WITH
  Drifts <- Drifts, MaxRuns <- 2, tree <- s1, hole <- s2, torn <- s3, at <- s4, dry <- s5,
  outcome <- s6, stamp <- s7, release <- s8, runs <- s9, drift <- s10

\* The curve y^2 = x^3 + 7 over 43, whose order is 31.
Key == INSTANCE KeyCeremony WITH
  Resolvers <- {1}, P <- 43, N <- 31, GX <- 2, GY <- 12, Draws <- {0, 1, 31},
  Places <- {1, 30}, MaxCeremonies <- 2, routes <- s1, ceremony <- s2, paper <- s3,
  addressFile <- s4, verdict <- s5, ceremonies <- s6

\* The self-test's own vectors.
Hash == INSTANCE RipeMD WITH
  vector <- s1, chaining <- s2, left <- s3, right <- s4, offset <- s5, step <- s6

\* A window of two blocks that come early, in time or late.
Dgw == INSTANCE DgwModel WITH
  PastBlocks <- 2, Spacing <- 6, ClampFactor <- 3, PowLimit <- 448, Base <- 4, Digits <- 3,
  Gaps <- {1, 8, 40}, STEP <- 2, Multiple <- 3, PhaseBlocks <- 2, MaxAfter <- 6,
  MaxLength <- 5, MaxReorgs <- 1, MaxLookups <- 2, chain <- s1, reading <- s2, blocks <- s3,
  cache <- s4, moved <- s5, sim <- s6, rc <- s7, reorgs <- s8, lookups <- s9

\* A coin of 4 units and a cap of 36 coins, halved every 2 blocks, and two edits.
Supply == INSTANCE SupplyAudit WITH
  Header <- Header, Edits <- Edits, Unlocks <- {3, 7, 9}, CAP <- 36, PREMINE <- 4,
  DEV0 <- 8, FIRST <- 8, TIMESTAMPS <- 5, SPAN <- 3, Elsewhere <- {"INTERVAL", "SUNSET"},
  FOUNDER_LIMIT <- 60, SHOWN_TOTAL <- 16, SHOWN_OPEN <- 8, SHOWN_ROWS <- 2, MaxEdits <- 2,
  MaxNow <- 8, header <- s1, unlocks <- s2, copies <- s3, now <- s4, audit <- s5,
  shown <- s6, edits <- s7

\* Two spends and two rows, one slip of the pen, one answer that does not come.
Ledger == INSTANCE TreasuryLedger WITH
  K <- [subsidy |-> 16, interval |-> 1, percent |-> 25, start |-> 1, last |-> 5, max_halvings |-> 3],
  Amounts <- {1, 2}, FEE <- 1, Payees <- {"p1", "p2"}, MaxHeight <- 2, MaxSpends <- 2,
  MaxRows <- 2, MaxGifts <- 0, MaxSlips <- 1, MaxUnanswered <- 1, height <- s1,
  spends <- s2, gifts <- s3, rows <- s4, balance <- s5, example <- s6, slips <- s7,
  scan <- s8, asked <- s9, bad <- s10, spent <- s11, by_height <- s12, unanswered <- s13,
  code <- s14

-----------------------------------------------------------------------------
\* Those with variables of their own start as they do, whichever is exercised.
MCInit ==
  /\ \/ /\ machine \in {"Spend", "Sweep", "Freeze", "Genesis"}
        /\ s1 = 0 /\ s2 = 0 /\ s3 = 0 /\ s4 = 0 /\ s5 = 0 /\ s6 = 0 /\ s7 = 0 /\ s8 = 0
        /\ s9 = 0 /\ s10 = 0 /\ s11 = 0 /\ s12 = 0 /\ s13 = 0 /\ s14 = 0
     \/ /\ machine = "Tree" /\ Tree!Init
        /\ s11 = 0 /\ s12 = 0 /\ s13 = 0 /\ s14 = 0
     \/ /\ machine = "Key" /\ Key!KeyInit
        /\ s7 = 0 /\ s8 = 0 /\ s9 = 0 /\ s10 = 0 /\ s11 = 0 /\ s12 = 0 /\ s13 = 0 /\ s14 = 0
     \/ /\ machine = "Hash" /\ Hash!HashInit
        /\ s7 = 0 /\ s8 = 0 /\ s9 = 0 /\ s10 = 0 /\ s11 = 0 /\ s12 = 0 /\ s13 = 0 /\ s14 = 0
     \/ /\ machine = "Dgw" /\ Dgw!DgwInit
        /\ s10 = 0 /\ s11 = 0 /\ s12 = 0 /\ s13 = 0 /\ s14 = 0
     \/ /\ machine = "Supply" /\ Supply!AuditInit
        /\ s8 = 0 /\ s9 = 0 /\ s10 = 0 /\ s11 = 0 /\ s12 = 0 /\ s13 = 0 /\ s14 = 0
     \/ /\ machine = "Ledger" /\ Ledger!LedgerInit
  /\ Init /\ SweepInit /\ CheckpointInit /\ GenesisInit
  /\ (machine # "Freeze" => active = [n \in Nodes |-> <<"a">>])

\* The variables of the others stay as they are.
Still(m) ==
  /\ UNCHANGED machine
  /\ (m # "Spend" => UNCHANGED vars)
  /\ (m # "Sweep" => UNCHANGED sweepVars)
  /\ (m # "Freeze" => UNCHANGED checkpointVars)
  /\ (m # "Genesis" => UNCHANGED genesisVars)

SpendStep == machine = "Spend" /\ Next /\ UNCHANGED places /\ Still("Spend")
SweepStep == machine = "Sweep" /\ SweepNext /\ UNCHANGED places /\ Still("Sweep")
FreezeStep == machine = "Freeze" /\ CheckpointNext /\ UNCHANGED places /\ Still("Freeze")
GenesisStep == machine = "Genesis" /\ GenesisNext /\ UNCHANGED places /\ Still("Genesis")
TreeStep ==
  /\ machine = "Tree" /\ Tree!Next /\ Still("Tree")
  /\ UNCHANGED <<s11, s12, s13, s14>>
KeyStep ==
  /\ machine = "Key" /\ Key!KeyNext /\ Still("Key")
  /\ UNCHANGED <<s7, s8, s9, s10, s11, s12, s13, s14>>
HashStep ==
  /\ machine = "Hash" /\ Hash!HashNext /\ Still("Hash")
  /\ UNCHANGED <<s7, s8, s9, s10, s11, s12, s13, s14>>
DgwStep ==
  /\ machine = "Dgw" /\ Dgw!DgwNext /\ Still("Dgw")
  /\ UNCHANGED <<s10, s11, s12, s13, s14>>
SupplyStep ==
  /\ machine = "Supply" /\ Supply!AuditNext /\ Still("Supply")
  /\ UNCHANGED <<s8, s9, s10, s11, s12, s13, s14>>
LedgerStep ==
  /\ machine = "Ledger" /\ Ledger!LedgerNext /\ Still("Ledger")

MCNext == \/ SpendStep \/ SweepStep \/ FreezeStep \/ GenesisStep \/ TreeStep \/ KeyStep
          \/ HashStep \/ DgwStep \/ SupplyStep \/ LedgerStep

MCSpec == MCInit /\ [][MCNext]_<<machine, places, vars, sweepVars, checkpointVars,
                              genesisVars>>

-----------------------------------------------------------------------------
\* patch_upstream.py, set_version.py, rename_binaries.py, rebrand_qt.py: a run that
\* ends well leaves every change whole, whatever upstream changed and wherever an
\* earlier run died, and the wallet's strings agree with the keys of its translations.
SourceIsWhole == machine = "Tree" => Tree!FinishedIsWhole /\ Tree!KeysInStep

\* What a tool passes is so.  gen_founder_key.py: a copy only if it is of the key of
\* the address, every key that is printed is one, and the hash written out by hand is
\* the published one.  check_treasury_ledger.py, dgw_model.py and verify_supply.py: the
\* books, the model and the header, although chains and files move under them.
PassesAreEarned ==
  /\ machine = "Key" => Key!BackupTellsTruth /\ Key!KeysAreOnTheCurve
  /\ machine = "Hash" => Hash!DigestsAgree
  /\ machine = "Ledger" => Ledger!LedgerIsWhole
  /\ machine = "Dgw" => Dgw!ModelFollowsRule
  /\ machine = "Supply" => Supply!PassMeansCap
=============================================================================
