----------------------------- MODULE PatchTable -----------------------------
(***************************************************************************)
(* The table of changes that scripts/patch_upstream.py makes to a Bitcoin  *)
(* Core tree, in its order.  A text is known by a few words of it.         *)
(*                                                                         *)
(* An edit looks for its anchor in its file.  Replace takes the anchor     *)
(* away, and what `takes` names of it; After leaves it there, which a      *)
(* replacement that contains its own anchor does as well.  The marker is   *)
(* text that the edit brings and by which a later run knows that it is     *)
(* done; `brings` is other text in it that a later edit looks for or that  *)
(* tells the version.                                                      *)
(***************************************************************************)
EXTENDS Sequences

Replace(file, marker, anchor) ==
  [file |-> file, marker |-> marker, anchor |-> anchor,
   takes |-> {}, keeps |-> FALSE, brings |-> {}, required |-> TRUE]

After(file, marker, anchor) == [Replace(file, marker, anchor) EXCEPT !.keeps = TRUE]

Bringing(edit, texts) == [edit EXCEPT !.brings = texts]

\* What an edit inserts, once.
Inserted(edit) == {edit.marker} \cup edit.brings

Change(id, edits) == [id |-> id, copies |-> <<>>, edits |-> edits]

-----------------------------------------------------------------------------
\* Whole files of this repository; the last four exist only once they are made.
WAM_000 == [Change("WAM-000", <<>>) EXCEPT !.copies = <<
  "src/wam/wam-params.h", "src/wam/pow.h", "src/wam/pow.cpp",
  "src/wam/consensus/subsidy.h", "src/wam/consensus/subsidy.cpp",
  "src/wam/consensus/devfee.h", "src/wam/consensus/devfee.cpp",
  "src/wam/crypto/randomx_hash.h", "src/wam/crypto/randomx_hash.cpp",
  "src/wam/rpc/wam_rpc.cpp", "src/kernel/chainparams.cpp", "src/chainparamsseeds.h",
  "src/test/wam_monetary_tests.cpp", "src/test/wam_devfee_tests.cpp",
  "src/test/wam_vesting_tests.cpp",
  "src/qt/res/icons/bitcoin.png", "src/qt/res/icons/bitcoin.ico",
  "src/qt/res/icons/bitcoin_testnet.ico", "src/qt/res/icons/bitcoin.icns",
  "test/functional/feature_wam_devfee.py", "test/functional/feature_wam_genesis.py",
  "test/functional/feature_wam_pow.py", "test/functional/feature_wam_randomx_epoch.py">>]

WAM_001 == Change("WAM-001", <<
  After("src/consensus/params.h", "WAM_CONSENSUS_PATCH", "struct Params {"),
  After("src/consensus/params.h", "// WAM: needed by", "#define BITCOIN_CONSENSUS_PARAMS_H")>>)

WAM_002 == Change("WAM-002", <<
  Replace("src/consensus/amount.h", "WAM_MAX_MONEY_ENFORCED", "MAX_MONEY = 21000000 * COIN")>>)

WAM_003 == Change("WAM-003", <<
  After("src/validation.cpp", "WAM_SUBSIDY_DELEGATED", "CAmount GetBlockSubsidy(...) {"),
  After("src/validation.cpp", "#include <wam/consensus/subsidy.h>", "#include <validation.h>")>>)

WAM_004 == Change("WAM-004", <<
  After("src/validation.cpp", "WAM_DEVFEE_ENFORCED", "if (GetValueOut() > blockReward)")>>)

WAM_005 == Change("WAM-005", <<
  Replace("src/validation.cpp", "WAM_GENESIS_SPENDABLE", "// Special case for the genesis block")>>)

WAM_006 == Change("WAM-006", <<
  After("src/pow.cpp", "WAM_DGW_DELEGATED", "GetNextWorkRequired(...) {"),
  After("src/pow.cpp", "WAM_DGW_TRANSITION_PERMITTED", "PermittedDifficultyTransition(...) {"),
  After("src/pow.cpp", "#include <wam/pow.h>", "#include <pow.h>")>>)

WAM_007 == Change("WAM-007", <<
  After("src/rpc/mining.cpp", "WAM_GBT_DEVFEE", "pushKV(height)"),
  Bringing(After("src/rpc/mining.cpp", "#include <wam/consensus/devfee.h>", "#include <rpc/util.h>"),
           {"#include <wam/consensus/subsidy.h>"})>>)

WAM_010 == Change("WAM-010", <<
  Replace("src/validation.cpp", "WAM_POW_IS_CONTEXTUAL", "CheckBlockHeader with its PoW check"),
  Bringing(After("src/validation.cpp", "WAM_RANDOMX_POW_VERIFIED", "nBits != GetNextWorkRequired"),
           {"{ seed = GetRandomXSeedHash"}),
  Replace("src/node/blockstorage.cpp", "WAM_DISK_POW_CHECK_REMOVED", "// Check the header"),
  After("src/validation.cpp", "#include <wam/pow.h>", "#include <wam/consensus/subsidy.h>")>>)

WAM_019 == Change("WAM-019", <<
  Replace("configure.ac", "AC_INIT([WAM Coin]", "AC_INIT([Bitcoin Core]")>>)

\* A version is [series, build], "0.1" and "9" for 0.1.9, and two lines of configure.ac.
SeriesLine(version) == "_CLIENT_VERSION " \o version.series
BuildLine(version) == "_CLIENT_VERSION_BUILD " \o version.build
UPSTREAM == [series |-> "28.1", build |-> "0"]

VersionEdit(marker, version) ==
  [Replace("configure.ac", marker, SeriesLine(UPSTREAM)) EXCEPT
     !.takes = {BuildLine(UPSTREAM)}, !.brings = {SeriesLine(version), BuildLine(version)}]

\* A mutant: the marker names the family and not the result, as it once did.
WAM_021_Family(version) ==
  Change("WAM-021", <<VersionEdit("_CLIENT_VERSION of WAM", version)>>)

\* The version is WAM_CLIENT_VERSION; the marker of the edit that sets it is the third
\* of its numbers.
WAM_021(version) == Change("WAM-021", <<
  Replace("src/clientversion.cpp", "CLIENT_NAME(WAM)", "CLIENT_NAME(Satoshi)"),
  Replace("src/common/signmessage.cpp", "WAM Coin Signed Message", "Bitcoin Signed Message"),
  Replace("src/clientversion.cpp", "github.com/wamcoin-core-dev", "URL_SOURCE_CODE = bitcoin"),
  VersionEdit(BuildLine(version), version),
  Replace("configure.ac", "HOLDERS_SUBSTITUTION WAM Coin", "HOLDERS_SUBSTITUTION Bitcoin Core"),
  Replace("configure.ac", "_COPYRIGHT_YEAR 2026", "_COPYRIGHT_YEAR 2024"),
  Replace("src/clientversion.cpp", "Copyright (C) year", "Copyright (C) 2009-year"),
  Replace("src/clientversion.cpp", "WAM_BITCOIN_COPYRIGHT_RANGE", "// Make sure copyright is not removed")>>)

WAM_022 == Change("WAM-022", <<
  Replace("src/chainparamsbase.cpp", "9554", "8332"),
  Replace("src/chainparamsbase.cpp", "testnet3 19554", "testnet3 18332"),
  Replace("src/init.cpp", "WAM's test network is its own chain", "testnet3 is deprecated"),
  Replace("src/chainparamsbase.cpp", "testnet4 49554", "testnet4 48332"),
  Replace("src/chainparamsbase.cpp", "signet 39554", "signet 38332"),
  Replace("src/chainparamsbase.cpp", "regtest 29554", "regtest 18443")>>)

WAM_020 == Change("WAM-020", <<
  Replace("src/qt/bitcoinunits.cpp", "long name WAM", "long name BTC"),
  Replace("src/qt/bitcoinunits.cpp", "short name uWAM", "short name bits"),
  Replace("src/qt/utilitydialog.cpp", "URI is a WAM address", "URI is a Bitcoin address"),
  Bringing(Replace("src/qt/bitcoinunits.cpp", "description WAM, Milli-WAM", "description Bitcoins"),
           {"long name WAM"})>>)

WAM_018 == Change("WAM-018", <<
  Replace("test_framework/test_node.py", "WAM_FRAMEWORK_KEYS", "PRIV_KEYS"),
  Replace("test_framework/address.py", "65  # WAM", "version 111"),
  Replace("test_framework/address.py", "128  # WAM", "version 196"),
  Replace("test_framework/address.py", "encode wamrt", "encode bcrt"),
  Replace("test_framework/address.py", "'wamrt']", "hrp not in bc tb bcrt"),
  Replace("test_framework/address.py", "unspendable wamrt1", "unspendable bcrt1"),
  Replace("test_framework/address.py", "OP_TRUE wamrt1", "OP_TRUE bcrt1"),
  Replace("test_framework/address.py", "P2TR wamrt1", "P2TR bcrt1"),
  Replace("test_framework/address.py", "== 65:  # WAM", "if version == 111")>>)

WAM_017 == Change("WAM-017", <<
  Replace("test/functional/test_runner.py", "feature_wam_devfee.py", "BASE_SCRIPTS = [")>>)

WAM_016 == Change("WAM-016", <<
  Replace("src/rpc/mining.cpp", "WAM_GBT_RESULT_DOC", "default_witness_commitment")>>)

WAM_015 == Change("WAM-015", <<
  Replace("src/rpc/mining.cpp", "WAM_COINBASE_VALUE_IS_TOTAL", "pushKV(coinbasevalue) of vout[0]")>>)

WAM_014 == Change("WAM-014", <<
  Replace("src/node/miner.cpp", "WAM_COINBASE_PAYS_TREASURY", "coinbaseTx.vout.resize(1)"),
  After("src/node/miner.cpp", "#include <wam/consensus/devfee.h>", "#include <node/miner.h>")>>)

WAM_013 == Change("WAM-013", <<
  Replace("src/validation.cpp", "pindexPrev, bool fCheckPOW", "ContextualCheckBlockHeader(...)"),
  Replace("src/validation.cpp", "if (fCheckPOW) { seed", "{ seed = GetRandomXSeedHash"),
  Replace("src/validation.cpp", "pindexPrev, fCheckPOW)", "if (!ContextualCheckBlockHeader(...))")>>)

WAM_012 == Change("WAM-012", <<
  Replace("src/rpc/mining.cpp", "WAM_MINER_USES_RANDOMX", "while (max_tries > 0 && ...)"),
  After("src/rpc/mining.cpp", "#include <wam/pow.h>", "#include <wam/consensus/subsidy.h>"),
  Replace("src/validation.cpp", "WAM_PRESYNC_POW_SKIPPED", "HasValidProofOfWork"),
  Replace("src/node/blockstorage.cpp", "WAM_INDEX_POW_CHECK_REMOVED", "CheckProofOfWork(pindexNew)")>>)

WAM_011 == Change("WAM-011", <<
  After("src/rpc/register.h", "void RegisterWamRPCCommands", "void RegisterTxoutProofRPCCommands"),
  After("src/rpc/register.h", "RegisterWamRPCCommands(t)", "RegisterSignMessageRPCCommands(t)")>>)

WAM_009 == Change("WAM-009", <<
  After("src/Makefile.am", "wam/consensus/subsidy.cpp", "libbitcoin_node_a_SOURCES"),
  After("src/Makefile.am", "wam/wam-params.h", "BITCOIN_CORE_H"),
  After("src/Makefile.test.include", "test/wam_monetary_tests.cpp", "BITCOIN_TESTS")>>)

WAM_008 == Change("WAM-008", <<
  [After("src/Makefile.am", "WAM_BINARY_NAMES", "bin_PROGRAMS =") EXCEPT !.required = FALSE]>>)

WAM_023 == Change("WAM-023", <<
  After("src/wallet/walletutil.cpp", "#include <wam/wam-params.h>", "#include <chainparams.h>"),
  Replace("src/wallet/walletutil.cpp", "WAM_BIP44_COIN_TYPE", "// Mainnet derives at 0'")>>)

WAM_024 == Change("WAM-024", <<
  Replace("src/wallet/wallet.h", "WAM: a chain on its first day", "DEFAULT_FALLBACK_FEE = 0")>>)

WAM_025 == Change("WAM-025", <<
  After("src/init/common.cpp", "WAM: say where the old data directory is", "Using data directory")>>)

WAM_026 == Change("WAM-026", <<
  Replace("src/qt/guiutil.cpp", "WAM: the example address", "addr by chain type")>>)

\* In the order they are applied, which is not the order of their numbers.
build_changes(version) == <<
  WAM_000, WAM_001, WAM_002, WAM_003, WAM_004, WAM_005, WAM_006, WAM_007, WAM_010,
  WAM_019, WAM_021(version), WAM_022, WAM_020, WAM_018, WAM_017, WAM_016, WAM_015,
  WAM_014, WAM_013, WAM_012, WAM_011, WAM_009, WAM_008, WAM_023, WAM_024, WAM_025,
  WAM_026>>
=============================================================================
