----------------------------- MODULE BuildSteps -----------------------------
(***************************************************************************)
(* What scripts/rename_binaries.py and scripts/rebrand_qt.py look for and  *)
(* put in its place, and what scripts/fetch-upstream.sh does to a clone,   *)
(* as the sequence of the files that its programs open one after another.  *)
(* A text is known by a few words of it; of the many files whose prose is  *)
(* rewritten the same way, the list is whole and the prose is one text for *)
(* each rule.                                                              *)
(***************************************************************************)
EXTENDS PatchTable, Integers, Bags, SequencesExt

Swap(file, old, new) == [file |-> file, old |-> old, new |-> new]

\* Programs of src/Makefile.am with the variables automake derives from them.
PROGRAMS == <<"bitcoind", "bitcoin-cli", "bitcoin-tx", "bitcoin-util", "bitcoin-wallet">>
WAM_PROGRAMS == <<"wamd", "wam-cli", "wam-tx", "wam-util", "wam-wallet">>

\* Sources of the same names, which must stay.
KeptSources == {"init/bitcoind.cpp", "bitcoin-cli.cpp", "bitcoin-tx.cpp", "bitcoin-util.cpp",
                "bitcoin-wallet.cpp", "bitcoind-res.rc"}

EXACT == <<
  Swap("src/Makefile.qt.include", "bin_PROGRAMS += qt/bitcoin-qt", "bin_PROGRAMS += qt/wam-qt"),
  Swap("src/Makefile.qt.include", "qt/bitcoin-qt$(EXEEXT)", "qt/wam-qt$(EXEEXT)"),
  Swap("src/Makefile.qt.include", "$(qt_bitcoin_qt_OBJECTS)", "$(qt_wam_qt_OBJECTS)"),
  Swap("src/common/args.cpp", "CONF_FILENAME = bitcoin.conf", "CONF_FILENAME = wam.conf"),
  Swap("src/common/args.cpp", "pathRet / .bitcoin", "pathRet / .wam"),
  Swap("src/common/args.cpp", "CSIDL_APPDATA / Bitcoin", "CSIDL_APPDATA / WAM"),
  Swap("src/common/args.cpp", "CSIDL_LOCAL_APPDATA / Bitcoin", "CSIDL_LOCAL_APPDATA / WAM"),
  Swap("src/common/args.cpp", "Application Support/Bitcoin", "Application Support/WAM"),
  Swap("src/common/args.cpp", "// old: Roaming Bitcoin", "// old: Roaming WAM"),
  Swap("src/common/args.cpp", "// new: Local Bitcoin", "// new: Local WAM"),
  Swap("src/common/args.cpp", "// macOS: Bitcoin", "// macOS: WAM"),
  Swap("src/common/args.cpp", "// Unix-like: ~/.bitcoin", "// Unix-like: ~/.wam"),
  Swap("src/init.cpp", "PID_FILENAME = bitcoind.pid", "PID_FILENAME = wamd.pid"),
  Swap("test_framework/test_node.py", "bitcoinconf = bitcoin.conf", "bitcoinconf = wam.conf"),
  Swap("test_framework/util.py", "write_config bitcoin.conf", "write_config wam.conf"),
  Swap("test_framework/util.py", "open a bitcoin.conf", "open a wam.conf"),
  Swap("test_framework/util.py", "isfile bitcoin.conf", "isfile wam.conf"),
  Swap("test_framework/util.py", "open r bitcoin.conf", "open r wam.conf"),
  Swap("test_framework/test_framework.py", "bitcoind: bitcoind", "wamd: bitcoind"),
  Swap("test_framework/test_framework.py", "bitcoind: wamd", "wamd: bitcoind"),
  Swap("test_framework/test_framework.py", "bitcoin-cli: bitcoincli", "wam-cli: bitcoincli"),
  Swap("test_framework/test_framework.py", "bitcoin-util: bitcoinutil", "wam-util: bitcoinutil"),
  Swap("test_framework/test_framework.py", "bitcoin-wallet: bitcoinwallet", "wam-wallet: bitcoinwallet")>>

\* The first spelling of a mistake of the past; no stock tree has it.
NeverUpstream == {"bitcoind: wamd"}

\* The two files that fail silently when one of these is left (check, 379-385).
ConfWriters == {"test_framework/util.py", "test_framework/test_node.py"}
ConfTexts == {"bitcoinconf = bitcoin.conf", "write_config bitcoin.conf", "open a bitcoin.conf",
              "isfile bitcoin.conf", "open r bitcoin.conf"}

MESSAGE_FILES == <<
  "src/bitcoin-cli.cpp", "src/bitcoind.cpp", "src/txdb.cpp", "src/rpc/blockchain.cpp",
  "src/rpc/external_signer.cpp", "src/rpc/node.cpp", "src/rpc/util.cpp", "src/wallet/wallet.cpp",
  "src/wallet/rpc/backup.cpp", "src/wallet/rpc/wallet.cpp",
  "src/wallet/external_signer_scriptpubkeyman.cpp", "src/common/signmessage.cpp",
  "src/rpc/mining.cpp", "src/rpc/output_script.cpp", "src/rpc/rawtransaction.cpp",
  "src/rpc/rawtransaction_util.cpp", "src/rpc/signmessage.cpp", "src/wallet/rpc/addresses.cpp",
  "src/wallet/rpc/coins.cpp", "src/wallet/rpc/encrypt.cpp", "src/wallet/rpc/signmessage.cpp",
  "src/wallet/rpc/spend.cpp", "src/wallet/rpc/transactions.cpp">>

\* Inside a literal; a literal that is a file's or a variable's name is left alone.
MessageText(text) ==
  CASE text = "literal: bitcoind"        -> "literal: wamd"
    [] text = "literal: Bitcoin address" -> "literal: WAM address"
    [] text = "literal: bitcoins"        -> "literal: WAM"
    [] OTHER                             -> text

Messages == {"literal: bitcoind", "literal: Bitcoin address", "literal: bitcoins",
             "literal: bitcoind.h", "#include <bitcoind.h>"}

RC_EDITS == <<
  Swap("*.rc", "CompanyName Bitcoin", "CompanyName WAM Coin"),
  Swap("*.rc", "GUI node for Bitcoin", "graphical wallet and node"),
  Swap("*.rc", "bitcoind (Bitcoin node)", "wamd (WAM node)"),
  Swap("*.rc", "bitcoin-cli (JSON-RPC client)", "wam-cli (JSON-RPC client)"),
  Swap("*.rc", "bitcoin-tx (editor utility)", "wam-tx (editor utility)"),
  Swap("*.rc", "bitcoin-util (CLI utility)", "wam-util (CLI utility)"),
  Swap("*.rc", "bitcoin-wallet (CLI tool)", "wam-wallet (CLI tool)")>>

SCHEME_EDITS == <<
  Swap("src/qt/guiutil.cpp", "uri.scheme() != bitcoin", "uri.scheme() != wam"),
  Swap("src/qt/guiutil.cpp", "ret = bitcoin:%1", "ret = wam:%1"),
  Swap("src/qt/paymentserver.cpp", "IPC_PREFIX bitcoin:", "IPC_PREFIX wam:"),
  Swap("src/qt/intro.cpp", ".arg(2009)", ".arg(2026)"),
  Swap("src/qt/forms/intro.ui", "very demanding", "takes a few minutes")>>

-----------------------------------------------------------------------------
(***************************************************************************)
(* Words of the wallet's screens.  A word for the coin is spelled as the   *)
(* table of phrases or the rule for any case knows it ("Bitcoin"), as the  *)
(* table of other scripts knows it ("script"), or in a way that only       *)
(* sounds like it ("sound").  "plain" does not name the coin.              *)
(***************************************************************************)
PHRASES == {"Bitcoin"}
SCRIPT_NAMES == {"script"}

rewrite(word) == IF word \in PHRASES \cup SCRIPT_NAMES THEN "WAM" ELSE word

rewrite_by_sound(word) ==
  IF word \in PHRASES \cup SCRIPT_NAMES \cup {"sound"} THEN "WAM" ELSE word

still_named(body) == \E w \in body : w \in SCRIPT_NAMES \/ rewrite_by_sound(w) # w

\* A message of a catalogue is its English, the lookup key, and the words of its
\* translation; of one that is not there, none.
foreign_names(key, body) == key = "WAM" /\ body # {} /\ "WAM" \notin body

Rewritten(body) == {rewrite(w) : w \in body}

\* A mutant: only the spellings of the tables are rewritten.
process_ts_Spelled(message) == <<rewrite(message[1]), Rewritten(message[2])>>

process_ts(message) ==
  LET key == rewrite(message[1])
      body == Rewritten(message[2])
  IN  <<key, IF foreign_names(key, body) THEN {rewrite_by_sound(w) : w \in body} ELSE body>>

\* A form and a source, and two catalogues of the words in them.
SCREENS == <<"src/qt/forms/intro.ui", "src/qt/guiutil.cpp">>
LOCALES == <<"src/qt/locale/bitcoin_ar.ts", "src/qt/locale/bitcoin_es.ts">>

English == {"Bitcoin", "plain"}
Bodies == [f \in ToSet(LOCALES) |->
             IF f = LOCALES[1] THEN {{"script"}, {"sound"}, {"plain", "sound"}, {"Bitcoin", "sound"}}
                               ELSE {{}, {"plain"}, {"Bitcoin"}}]

-----------------------------------------------------------------------------
\* The work of one run of fetch-upstream.sh.

\* In the order of releases.
Versions == <<[series |-> "0.1", build |-> "9"], [series |-> "0.2", build |-> "9"],
              [series |-> "0.3", build |-> "0"]>>

Edits(version) == FlattenSeq([i \in DOMAIN build_changes(version) |->
                                build_changes(version)[i].edits])

SwapTable == {EXACT[i] : i \in DOMAIN EXACT} \cup {SCHEME_EDITS[i] : i \in DOMAIN SCHEME_EDITS}
             \cup {RC_EDITS[i] : i \in DOMAIN RC_EDITS}

Makefile == "src/Makefile.am"
QtMakefile == "src/Makefile.qt.include"

Patched == {e.file : e \in ToSet(Edits(Versions[1]))}
Files == Patched \cup {s.file : s \in SwapTable} \cup ToSet(MESSAGE_FILES)
         \cup ToSet(WAM_000.copies) \cup {Makefile, QtMakefile}
         \cup ToSet(SCREENS) \cup ToSet(LOCALES)

\* What the tables expect to find in a file of the pinned tag.
StockOf(file) ==
  LET edits == {e \in ToSet(Edits(Versions[1])) : e.file = file}
  IN  ({e.anchor : e \in edits} \ UNION {Inserted(e) : e \in edits})
      \cup UNION {e.takes : e \in edits}
      \cup {s.old : s \in {s \in SwapTable : s.file = file /\ s.old \notin NeverUpstream}}
      \cup (IF file \in ToSet(MESSAGE_FILES) THEN Messages ELSE {})
      \cup (IF file = Makefile THEN ToSet(PROGRAMS) \cup KeptSources ELSE {})
      \cup (IF file = QtMakefile THEN {"qt_bitcoin_qt_", "init/bitcoin-qt.cpp"} ELSE {})
      \cup (IF file \in ToSet(SCREENS) THEN English ELSE {})

Stock == [f \in Files |-> IF f \in ToSet(LOCALES) THEN English \X Bodies[f] ELSE StockOf(f)]

-----------------------------------------------------------------------------
\* The run as the sequence of the files that its programs open.
Item(op, what) == [op |-> op, what |-> what]

Copies == [i \in DOMAIN WAM_000.copies |-> Item("copy", WAM_000.copies[i])]
EditItems(version) == [i \in DOMAIN Edits(version) |-> Item("edit", Edits(version)[i])]
RenameItems ==
  <<Item("makefile", Makefile), Item("makefile", QtMakefile)>>
  \o [i \in DOMAIN EXACT |-> Item("swap", EXACT[i])]
  \o [i \in DOMAIN MESSAGE_FILES |-> Item("messages", MESSAGE_FILES[i])]
  \o <<Item("rc", "*.rc"), Item("check", "names")>>
RebrandItems ==
  [i \in DOMAIN SCREENS |-> Item("screen", SCREENS[i])]
  \o [i \in DOMAIN LOCALES |-> Item("locale", LOCALES[i])]
  \o [i \in DOMAIN SCHEME_EDITS |-> Item("swap", SCHEME_EDITS[i])]
  \o <<Item("stamp", ".wam-patched")>>

Work(version) == Copies \o EditItems(version) \o RenameItems \o RebrandItems

WorkLists == [r \in DOMAIN Versions |-> Work(Versions[r])]
PatcherEnds == Len(Copies) + Len(Edits(Versions[1]))

-----------------------------------------------------------------------------
\* What the edits make of a file, whatever their order: each text, how often.  The lines
\* of the version are left aside.
VersionFile == "configure.ac"
SeriesLines == {SeriesLine(v) : v \in ToSet(Versions) \cup {UPSTREAM}}
BuildLines == {BuildLine(v) : v \in ToSet(Versions) \cup {UPSTREAM}}

EditsOf == [f \in Patched |-> {e \in ToSet(Edits(Versions[1])) : e.file = f}]
Inserting(file, text) == {e \in EditsOf[file] : text \in Inserted(e)}
Taking(file, text) == {e \in EditsOf[file] : ~e.keeps /\ e.anchor = text}

PatchTexts(file) ==
  UNION {Inserted(e) \cup {e.anchor} : e \in EditsOf[file]} \ (SeriesLines \cup BuildLines)

Intended ==
  [f \in Patched |-> [t \in PatchTexts(f) |->
     (IF t \in Stock[f] THEN 1 ELSE 0) + Cardinality(Inserting(f, t)) - Cardinality(Taking(f, t))]]
=============================================================================
