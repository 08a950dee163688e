# WAM Coin: a verification project

TLA+ models of WAM Coin, the runs of TLC that check them on small instances, and
proofs that TLAPS checks for every instance.  Everything here is read from the
source; line numbers refer to it.

WAM Coin is a Bitcoin Core fork with RandomX proof of work, a five per cent
treasury output and a Dark Gravity retarget; a mining pool in Node.js on Redis
and the node's RPC; a C++ miner; an explorer, an announcement bot; and the
Python programs with which its few operators build, found, spend, audit and
watch it.

## 1. Inventory

### The pool, the node and the miner

| Component | State it keeps | Operations | Talks to | What is hard |
|---|---|---|---|---|
| Payment run (`pool/lib/shareProcessor.js`) | `wam:balances`, `wam:payments`, the marker `wam:payment:inflight`, `paying`, `paused` | `processPayments`, `_settleUnknownPayment`, `startupReconcile`, `start` | wallet RPC, Redis, the operator | lost answers, crash between broadcast and deduction, failed writes |
| Block accounting (same file, `atomic.js`) | `blocks:pending`, `maturing`, `confirmed`, `orphaned`, `round`, `poolfees`, `checking` | `recordBlock`, `checkPendingBlocks`, `_mature`, `_orphan` | node RPC, Redis | pipelines cut in the middle, two checks at once, reorganisations |
| Share and block submission (`jobManager.js`, `blockTemplate.js`, `server.js`) | jobs, claims, the spool `blocks:unsent`, the accounting chain | `processShare`, `_submitBlock`, `drainSpool`, `refreshTemplate`, `recordShare` | stratum, node, Redis | order of record and payout, retries, crash, overtaking answers |
| Verification queue (`jobManager.js`, `native/src/randomx_binding.cc`) | `_inAddon`, `_waiting`, `_verifying`, VMs, seed contexts | `_hashWithOneVm`, `acquire`/`release`, `GetContext` | libuv threads | counts after failures, waiters, eviction |
| Daemon interface (`daemon.js`) | `online` per daemon | `cmd`, `cmdAll`, `_request`, `classifySubmit` | `wamd` | which failures may be repeated elsewhere |
| Rewards (`rewards.js`) | none | PPLNS window, proportional split | block accounting | rounding, empty windows |
| Stratum and vardiff (`stratumServer.js`, `varDiff.js`) | session, difficulty, ban counters | subscribe, authorize, submit, retarget | miners, job manager | difficulty changes in flight |
| Consensus (`src/wam/consensus`, `pow.cpp`) | none | subsidy, treasury, vesting, retarget | validation | boundaries |
| RandomX contexts (`src/wam/crypto/randomx_hash.cpp`) | LRU of contexts | `GetContext`, seed height | validation threads | eviction under a lock |
| Miner (`miner/src`) | job, epochs, submit queue | workers, stratum client, solo loop | pool or node | a job changing under the workers |
| Explorer (`explorer`) | snapshot, block cache | poll, HTTP | node | slow polls, reorganised cache |
| Bots (`bots`) | state file | tick, send | node, Telegram, Discord | crash between send and save |

### The operator's programs

| Programs | State they keep | What is hard |
|---|---|---|
| `fetch-upstream.sh`, `patch_upstream.py`, `rename_binaries.py`, `rebrand_qt.py`, `set_version.py` | the source tree, the marker `.wam-patched` | an order of rewrites in which one change takes away what another looks for; upstream drift; a run that dies half-way and is run again |
| `treasury_spend.py` | a plan file, signed files | three machines, several parts over one scan, blocks and answers in between |
| `gen_founder_key.py` | a paper copy | a copy that is judged only once; a hash written out by hand |
| `genesis_generator.py`, `randomx_ffi.py` | dataset, threads, `chainparams.cpp` | threads over one dataset and one nonce space; a rewrite of a source file |
| `sweep_pool_fee.py` | `wam:poolfees`, the wallet | the wallet also holds what the miners are owed, and the pool goes on |
| `make_checkpoint.py` | none | a chain that moves between its questions to several hosts |
| `check_treasury_ledger.py`, `dgw_model.py`, `verify_supply.py`, `show_vesting.py` | a cache of blocks | what they compare is not of one moment |
| `wamnotify.py`, `login_watch.py`, `unit_alert.py`, `peer_watch.py`, `release_watch.py`, `check_reorg.py` | a state file each, the parked alarms | killed between saying and remembering; two at once; a refused write |
| `ops.py` | the page and its file | two threads, hosts that stop answering half-way |
| `consensus_floor.py`, `check_peer_versions.py` | the tags, the node's journal | rules that change and change back, peers that cannot be read |
| `check_backups.py`, `check_headroom.py`, `check_concentration.py`, `check_pool.py`, `daily_report.py` | samples, a number | a verdict over answers that come one after another |

### How the parts meet

The parts of the pool meet in four places.  A miner's share goes from stratum to
`processShare`, through the accounting chain of `server.js` to `recordShare`; a
block goes the same way and, once the node took it, to `recordBlock`.
`checkPendingBlocks` follows the block on the chain and adds its payouts to
`wam:balances`.  `processPayments` turns balances into transactions.

The operator's programs meet the rest through files, commands and RPC: the build
scripts write the tree the node is compiled from, the genesis generator writes
its block 0, `treasury_spend.py` and `sweep_pool_fee.py` send transactions, and the
checks only read, but they read something that goes on running.

The correctness of the whole is about money: one proof of work is credited once;
a block on the chain is recorded, and once; each of its payees is credited once,
when the coins can be spent; each credit is paid once.  The correctness of the programs around it
is that what they leave behind is whole wherever they die, and that a green
answer is of something that was looked at and was well.

Every hazard this code is exposed to is listed with its line in `PROJECT.json`,
together with the properties that would notice it going wrong.

## 2. Modules

| Module | What it is |
|---|---|
| `PaymentLedger` | abstract: what the pool promises about balances and payments |
| `PoolPayments` | the payment run; implements `PaymentLedger` |
| `PoolPaymentsProofs` | TLAPS proofs about `PoolPayments` |
| `BlockLedger` | abstract: the life of a recorded block |
| `PoolBlocks` | block accounting, command by command; implements `BlockLedger` |
| `PoolBlocksProofs` | TLAPS proofs about `PoolBlocks`, its refinement included |
| `PoolSubmit` | a share or block from `mining.submit` to the round and the payout record |
| `PoolSubmitProofs` | TLAPS proofs about `PoolSubmit` |
| `PoolVerify` | the verification queue in front of the RandomX addon, the addon's threads, contexts and VMs |
| `PoolVerifyProofs` | TLAPS proofs about `PoolVerify` |
| `Emission` | the subsidy schedule, the treasury's share, their closed forms and the rule on a block |
| `DarkGravity` | the retarget and the range of targets that proof of work accepts |
| `ConsensusProofs` | TLAPS proofs of the cap on the money, the reported supply, the treasury's share and the retarget, and the lemmas on powers, compact forms and running means they need |
| `SumProofs` | lemmas several proofs share: least elements, sums over finite sets, what a recursive function is |
| `PatchTable` | what `patch_upstream.py` looks for and puts in its place, entry by entry |
| `BuildSteps` | the renamings, and all tables as one sequence of file rewrites, with what they need of a pinned upstream |
| `SourceTree` | the build of a tree, step by step, with deaths and re-runs |
| `TreasurySpend` | plan, sign, broadcast |
| `ToolsProofs` | TLAPS proofs about `TreasurySpend`, `FeeSweep`, `Checkpoint` and `GenesisMiner` |
| `KeyCeremony`, `RipeMD` | the founder key from the draw to the judged copy; RIPEMD-160 bit by bit |
| `GenesisMiner` | the dataset, the search, the premine's locks, the rewrite of `chainparams.cpp` |
| `FeeSweep`, `Checkpoint` | the operator's fee; a block to freeze |
| `TreasuryLedger`, `DgwModel`, `SupplyAudit` | the audits; `DgwModel` carries `DarkGravity`'s rule with it and is compared with it |
| `Alarms`, `UnitAlert`, `PeerWatch`, `ReleaseWatch`, `ReorgWatch` | how something is noticed and told |
| `OpsPanel`, `FloorWatch`, `HostChecks`, `PoolMonitor`, `MorningReport` | how a verdict is reached |
| `Watchers` | the programs that watch, side by side, and what they promise together |
| `WatchersProofs` | TLAPS proofs about each of them and about `Watchers` |
| `MCPool*` | constants, bounds and symmetry for TLC |
| `MCConsensus` | `Emission` and `DarkGravity`, each on a chain of its own, with their constants |
| `MCTools`, `MCWatchers` | ten of the operator's programs each, with their constants |

The modules of the pool stand beside each other.  `PoolSubmit` ends where `PoolBlocks`
begins, at `recordBlock`, one step in the first and command by command in the second;
`PoolBlocks` ends at a credit, which `PoolPayments` takes as its input `Credit`;
`PoolVerify` is the inside of the step from `Submit` to `Hashed` or
`HashRejected` of `PoolSubmit`.

The operator's programs share nothing with each other.  `MCTools` and `MCWatchers`
hold each of them as a *machine*: a behaviour exercises one, chosen in `MCInit`,
and the others stay as they begin.  Those about which there are proofs are extended
and keep their own variables; of the others the places `s1`, `s2`, ... hold whichever
state the one has (`INSTANCE ... WITH` names them).  The state space is the sum of those of the machines, not their
product, and a conjunct of a property is about one of them.

An operator whose name has an underscore, such as `Tick_Overlaps`, and whose
comment begins with "Mutant", is a deliberately wrong version of the definition
that follows it.  It is not part of the model: it shows that the property it is
paired with in `PROJECT.json` would notice that mistake.

### PoolPayments

One action is the code between two awaits.  An activation of `_processPayments`
is a run `r`, `pc[r]` is the await it is suspended at, and since it makes at most
one transaction, `r` is the transaction as well.

| Action | Code |
|---|---|
| `Tick` | the timer, `paying`, the HGETALL |
| `ReadBalances` | the batch: any prefix of the due balances in any order that fits both caps |
| `CheckWallet`, `Postpone` | the balance call and the postponement record |
| `WriteIntent` | the marker |
| `Build`, `NameIntent`, `Send` | create and sign, txid and hex into the marker, broadcast |
| `Query`, `Resend` | `_settleUnknownPayment` |
| `Clear`, `Drop` | the MULTI of deduction, history and DEL; a definite failure |
| `Start`, `Reconcile`, `Resolve` | start-up pause, reading the marker, the operator |
| `Crash`, `LateArrival`, `Credit` | the process dies; the node executes a request given up on; a block matures |

A Redis write is answered; applied with its answer lost; or, if it is in
`LostWrites`, not applied.  The last two reject the promise.  The node is
idempotent on a transaction it has.  The operator follows the text the pool
prints (202-213): the model assumes that he waits until no request is still on
its way, and repairs with one transaction.

### PoolBlocks

A pipeline is one round trip and not a transaction, so its commands are applied
one by one, with other clients in between, and a crash or a lost connection cuts
it anywhere.  `pipeline().exec()` of ioredis resolves even then; the claim script
of `atomic.js` is one step.  A share stands for the work of one payee, `table[b]`
for the payouts frozen in the record.  The lists' caps and counts are left out.

`Owner` places the checks in processes, `PromptOffers` says that `recordBlock`
is called while its block is young (or already confirmed), `FallbackBehind` that
a second daemon without the block may answer.  A block is reorganised away at
most once and nothing deep is undone; deep is more than `coinbaseMaturity`.

### PoolSubmit

The pool has one connection to Redis, which runs commands in the order they are
sent, so a command belongs to the step that sends it.  `recordBlock` is one step
here: nothing runs beside it in the accounting chain, and `PoolBlocks` has it in
detail.  A job is known by the tip it builds on, because all live jobs share one
tip and one set of claims (`refreshTemplate` clears the others); `holders` are
the attempts whose claim is in that set.

| Action | Code |
|---|---|
| `Poll`, `Template` | the request and the rest of `refreshTemplate` |
| `Submit`, `HashRejected`, `Hashed` | `processShare` up to and after the hash |
| `Retry`, `Verdict` | the loop and the end of `_submitBlock` |
| `Removes` | the `_unspool` nobody awaits |
| `ShareChecked`, `ShareAdded`, `BlockRecorded` | the head of the accounting chain |
| `DrainStarts`, `DrainVerdict`, `DrainRemoves` | `drainSpool` |
| `Crash`, `Restart`, `Rival` | the process; another miner's block |

A Redis command in `LostWrites` may fail; a command not in it is answered.
`MaxChain` bounds the shares that wait in the accounting chain, `MaxPolls` the
template requests on their way, `Retries` the attempts of `_submitBlock`.

Not in the model: the checks of shape and time at the door of `processShare`,
which refuse without changing anything; BUSY is one of the reasons of
`HashRejected`; the contents of a template.

### PoolVerify

JavaScript and the threads of the addon run side by side.  `ready` is the queue
of continuations that Node runs before it takes the next callback, which is what
makes it safe that a woken waiter goes in without looking again.  A share names
the context it built, so two contexts of one seed, one evicted and still in use,
are two things.

| Action | Code |
|---|---|
| `Submit`, `Refuse` | `processShare` up to its await; BUSY |
| `Leave`, `Resume`, `Settle` | the `finally` of `_hashWithOneVm`, the waiter it woke, the `finally` of `processShare` |
| `Dispatch` | libuv gives the oldest worker a thread |
| `GetContext` | the registry under its lock, eviction and a failing constructor included |
| `Acquire`, `Sleep`, `Release`, `Notify` | the condition variable of a context |
| `CallBack` | the promise of `native/index.js` |

`Init` reads the setting `randomxVmCount` as both sides read it: the pool takes
any positive number, the addon takes 4 instead of a number above 128.  With such
a setting workers do wait on a VM inside the addon, which the comment at
`jobManager.js` 77-80 rules out; `NoWorkerWaits` is stated for the others.
`hashSync`, which the pool calls once before it accepts work, is not modelled.

### Emission and DarkGravity

One action of `Emission` connects a block whose coinbase creates and pays as much
as it likes, up to `Slack` around what the rules ask for.  Amounts are scaled;
in the code no product passes 64 bits (`subsidy.cpp` 53-56).  The schedule is a
constant table with the assumption that every entry is half of the one before.

`DarkGravity` keeps of a chain what the next target depends on: the targets of
the last `PastBlocks` blocks and the gaps between their times, which may be
negative.  `Compact` drops digits as `GetCompact` does, in a small base.  A
network slows down when the target passes `Hardest`; without that a target could
shrink to zero, in the model as in the code.  No product reaches 256 bits, since
the limit of the networks that retarget is below 2^236.

### The source tree

A file is a bag of texts, a text is a few words that stand for it: what an edit
looks for (its anchor), what it brings (its marker).  `PatchTable` has the edits
of `build_changes` in their order; `BuildSteps` has the swaps of the two renaming
scripts and joins them.  What the pinned Bitcoin Core must contain is
computed from the tables (`Stock`), because Bitcoin Core is not in the repository.
`Drifts` says what else upstream may be: a text missing, a text twice, a file gone.

`Start`, `CloneAgain` and `Die` are the operator's; `CopyFile`, `apply_edit`, `WriteOut`
are `patch_upstream.py` on one file; `RenameMakefile`, `RenameMessages`, `apply_exact`,
`apply_rc`, `check` are `rename_binaries.py`; `process_screen` and `process_locale` are
`rebrand_qt.py` on one form or source and on one catalogue, whose messages are a key and
the words of its translation; `Stamp` is the marker, `set_version` the next release.
Every file is truncated first and written by a second step (`hole`), and `torn` keeps
the files that a run left empty by dying in between.  A release is its series and its
third number, because an edit of the version looks only for the latter.

### Spending, keys, block 0

`TreasurySpend`: `Plan*`, `Sign*` and `Send*` are the three commands of
`treasury_spend.py` on their machines, `sign_one` and `broadcast_one` one part of a
payment; `NewBlock`, `Damage`, `Die` and `Turn` (the operator begins again) come
between any two.  An output is the height it was paid at.

`KeyCeremony`: `Route` and `offline_gate` are the resolver check, `Draw` the key,
`AddressOut` the file, `Judge` the check of the typed copy, `selftest` the vectors.
Texts keep their length and alphabet, because the checks are about single places
in them; the curve is `y^2 = x^3 + 7` over 43, with 31 points.  `RipeMD` runs both
lines of the compression on words of 32 bits, over the vectors of the self-test.

`GenesisMiner`: the threads of `initialise_dataset` and of `mine` interleave item by
item and nonce by nonce; `Joined`, `ReadSource`, `Empties` and `Fills` are the end of the
run and the rewrite of `chainparams.cpp`; `GivesUp` and `MinerDies` end it early.

`FeeSweep` and `Checkpoint` have one action for each call (`ReadsApi`, `ChecksDest`,
`ReadsBalance`, `Sends`, `Counts`; `AsksTip`, `AsksHash`, `Confirms`) and the pool, or the
chains, between them.

### Audits

`TreasuryLedger` has the author of the table (`WritesRow`, `Slips`, `Restates`), the
chain (`Spends`, `Mines`) and the script (`Scans`, `AsksRow`, `Verdict`).  `DgwModel` reads
its batches (`ReadsBatch`) from a chain that grows and is reorganised, keeps what it
read, validates and simulates.  `SupplyAudit` audits a header between edits of it,
and shows the locks of block 0.

### Alarms and verdicts

Each has one action for each question put, each write and each message, and the
world's actions between them.  In `Alarms` one host has the token and the other
parks (`ParkAppends`, then `ParkReads`, `ParkCuts` and `ParkWrites`, which is the cut of the
file); `collect_parked`, `SaveForwarded` and `Notify` are the run of `login_watch.py`, whose
memory may be unreadable, may be refused by the disk, and drops all but the greatest
hashes; `lapses` counts for each text how often that happened to it.  `ReleaseWatch` has the
timer's run and one by hand beside it, which may be a `--dry-run` and speak on the screen;
`told` says where the alarm that a state stands for was given.  `ReorgWatch`
reads hashes one at a time (`ReadHashes`, `Halve` is the bracket of the fork).
`UnitAlert` has the state and its temporary file as names of inodes, because two
alerters write through one name.  In `OpsPanel` the collector (`Round`, `rsh`, `Cards`,
`CheckBegins`, `run_check`, `WritesState`) and the server share the page.  `FloorWatch`
computes the floor from the values at every tag.  In `HostChecks`, `PoolMonitor` and
`MorningReport` the question is what may be concluded from answers that are not of
one moment; where a script may be wrong about a world that moved, the property
speaks of a world that stood still (`steady`, `still`, `calm`), which a variable keeps.

## 3. What the runs show

| Run | Instance | Shows |
|---|---|---|
| `payments` | 2 miners, 2 runs, all Redis writes but the MULTI may be lost, fair | no debt is paid twice or forgiven, an unfinished run holds payments, `paying` is released, `PaymentLedger` is implemented |
| `blocks` | 2 blocks, 2 payees (not two of both worked and mined at once: `FewEnough`), timer and shutdown check, crashes, a reorganisation per block | credited once, spendable, orphaned only off the chain, `BlockLedger` (with it: never in no state) is implemented |
| `blocks_calm` | 2 blocks, nothing fails | fees match, deep blocks are credited |
| `submit` | 2 blocks, 1 share, 3 attempts, the spool may fail | credited once, told is credited, nothing forgotten |
| `submit_faults` | two submissions of one block, or one of either (one good, one bad: `FewEnough`), silent node, lost Redis writes, one crash, fair | an unanswered block is in the spool, a refused one is kept, every share is answered, the spool empties |
| `verify` | 3 shares, 2 seeds, 1 context kept, queue of 2, any VM setting | places and VMs; every share let in is answered |
| `consensus` | 8 epochs of 3 blocks; a window of 3 blocks | closed forms, cap, treasury; the retarget |
| `tools` | ten programs, below | the tree is whole, what is sent was set out for and typed, no sitting signs twice over one output, a sweep leaves what others are owed, a checkpoint is shared, a copy that passes opens the address, block 0 is the published one, what the audits pass is so |
| `watchers` | ten programs, below | alarms are earned, a rewritten chain is on file, green is of something that was looked at |

The three runs that expect a violation are in section 5.

`SentIsApproved` and `SittingIsDisjoint` are of `TreasurySpend`: only a payment that was set out
for is sent, as it was, and no sitting signs twice over one output; `CheckpointIsShared` is of
`Checkpoint`: a block that is printed is on the chain of every host that was asked and not
reorganised below `--bury`.  The others of `tools` and of `watchers` are mostly conjunctions;
the definitions they name, each in the module of its program, are what is checked.

| Property | Program: what it says |
|---|---|
| `SourceIsWhole` | `FinishedIsWhole`: after a build that ended well, whatever upstream did and wherever an earlier run died, this repository's files are there; a file that is patched has each change once, and one version whose third number is the release's; of what is renamed no old spelling is left and the new one is there, except where upstream dropped the old one or a run died over the file. `KeysInStep`: no screen names the other coin, a key of a translation is a word of a screen, and a translation of a string that names this coin does not name the other one alone |
| `FeeGoesLast` | `FeeIsPaidLast`, `CounterFollowsCoin`: a sweep leaves what the miners are owed, and the counter moves by what left |
| `GenesisIsSound` | `SearchIsSound`, `TranchesAreLocked`, `SourceSurvives`: no nonce is missed or tried twice, the premine is locked as published, the source or its copy survives one failure |
| `PassesAreEarned` | `BackupTellsTruth`, `KeysAreOnTheCurve`: a copy passes if and only if it is the key of the address. `DigestsAgree`: the hash is the published one. `LedgerIsWhole`, `ModelFollowsRule`, `PassMeansCap`: a pass is of a table without a missing spend, a model that predicts the rule, a header that closes |
| `AlarmsAreEarned` | `AlarmIsEarned`, `SilenceIsInformed`, `QuietIsBounded`: a seed that is told to be gone was missed, what is withheld was said where the run that found it speaks, and what is over was said there to have begun; quiet ends within the hour |
| `ChecksAreFair` | `RepeatsAreLapses`, `VerdictIsEarned`, `MonitorIsFair`: an alarm is told again at most once for every time its text was sent and not remembered; a pass of hosts or pool is earned and a finding is true |
| `RewritesAreOnFile` | no recorded hash is replaced before it is in the evidence, unless the run says that it could not write it |
| `VerdictsAreEarned` | `PanelIsHonest`, `FollowersAgree`, `MorningIsHonest` |
| `GreenFollows` | `GreenIsAgreed`: nobody is called safe who does not accept what the newest release accepts |

## 4. Bounds and fairness

Two miners are needed for a batch that pays one and not the other, and for a cap
that binds; two runs for the one in trouble and the one that comes after it.
Two checks are all the program can have at once in a process (timer and
shutdown).  Two blocks let one block's record close the other's round, and the
third submission is the one that finds a claim given back wrongly.  `Retries` is
1 instead of 5: only "one more" and "the last" differ.

For the operator's programs the bounds are in the comments of `MCTools` and
`MCWatchers`, and for `TreasurySpend` in `MCTools.cfg`.  They follow one rule: as many of a thing as two of its steps can
disagree about (two hosts, two parts, two alerters, two threads, three tags so
that a rule can change and change back), one failure of each kind, and one step
of the world more than the program has questions where the state space allows it.
The build runs twice, because what an aborted run leaves is found by the next one;
three releases follow each other, of which two have the same third number and one has that
of upstream, and the tree may begin at any of them.  One hash is remembered for two texts, so
that one of them is forgotten.  A parsed text has one place that is wrong
at most, and both ends of it are tried.

Deadlock is not checked where the bounded instance really runs out of work.

A queue of two is full while a third share arrives; one context kept for two
seeds is the least that evicts, and makes two contexts of one seed.  Eight epochs
reach the last subsidy and three blocks beyond; the sunset falls inside an epoch.
A window of three blocks has a newest, an oldest and one between them.

Fairness: the event loop runs what is ready, and every await ends (RPC has a
timeout, Redis a retry limit), hence weak fairness of each step; timers tick.
Strong fairness is used for one thing: a block offered again and again is
answered one day.  `blocks_calm` assumes in addition, as its `CalmSpec`
says, that nothing fails.  In `PoolVerify` a thread that can take a step takes it.
The operator's programs are checked for safety only: what brings them back is a
timer of the host or a person.

## 5. Disagreements found

Three are runs that TLC finds violated, with the quoted comment in
`PROJECT.json`.

| Run | What the code does |
|---|---|
| `payments_multi_rejected` | a rejected MULTI leaves paid balances and nothing paused; the next tick pays again |
| `blocks_two_processes` | confirmations written back resurrect a block another process has claimed |
| `submit_silent` | accepted with the answer lost, then `duplicate`, then dropped |

The modules show the following too, with the settings named.

- `PoolBlocks`, `PromptOffers = FALSE`: a block that is claimed and not yet in
  the confirmed list is recorded again when it is offered late (`CreditedOnce`).
- `PoolBlocks`, `FallbackBehind = TRUE`: one daemon that lacks the block is
  enough to orphan it (`OrphansLeftTheChain`).
- `PoolSubmit`, `"add"` in `LostWrites`: a pipeline that fails silently is
  answered as a recorded share (`ToldIsCredited`).
- `PoolSubmit`, `MaxCrashes = 1`: a crash after the spool entry is removed and
  before the payout is recorded loses the block (`NoBlockForgotten`).
- `PoolSubmit`, `Reordered = TRUE` and `MaxPolls = 2`: an older template that is
  answered last brings back an old tip with empty claims (`OneCreditPerWork`).
- `PoolSubmit`: a drain that meets `_submitBlock` on the same block may have it
  recorded before the share that found it is in the round.
- `PoolPayments`: a failed write of txid and hex into the marker leads to a
  broadcast without them; the run is then held for the operator.
- `DarkGravity`: a window of n blocks has n - 1 gaps and is compared with n
  spacings, so the retarget settles at a spacing of n / (n - 1) times the target,
  125 seconds with the code's 24 and 120.

Of the operator's programs, and not kept as runs:

The source tree.
- `patch_upstream.py --check` on a stock tree aborts, because an edit looks for what
  an earlier one would have brought (`CheckForetells`; `docs/BUILD.md` 83 offers it as a
  check before patching).
- `patches/README.md` 22, "aborts before writing anything": files are written one by one,
  so an anchor that is missing in the tenth leaves nine patched.
- `.wam-patched` of an earlier run stays when a later run on the same tree aborts.
- The marker of the version is its third number (`patch_upstream.py` 878), although the comment
  above it (875) asks that a marker "describe what the edit produces, not the family it belongs
  to", and 892-893 expect a patched tree to fail loudly.  Upstream has `_BUILD, 0`, so a release
  X.Y.0 leaves the version of upstream; a tree patched for 0.1.9 is taken for 0.2.9
  (`VersionIsTheRelease`).
- "so a partial rename cannot pass silently" (`fetch-upstream.sh` 311): what is looked for are
  old names, and not all of them (`EverySwapIsMade`).  A text that upstream has dropped is a
  warning, and a file that a run emptied by dying over it has no old names: unless the patcher
  edits that file, or has one of the repository to put there, the next run ends well with
  an empty one.
- `rebrand_qt.py` 399 and 426 ask whether a translation has "WAM" in it; one that names the
  other coin as well, in a spelling the tables do not know, is left so.

Spending, keys, block 0.
- An output whose spend is confirmed between the scan and the reading of the
  mempool is planned again (`PlanAvoidsSpent`, `treasury_spend.py` 241); it is refused
  when it is broadcast.
- `gen_founder_key.py`: the mode 0600 of `--out` is given to a new file only.
- `genesis_generator.py`: a thread whose `new_vm` failed leaves its nonces untried, and
  "exhausted the 32-bit nonce space" is said all the same; two failures in a row can
  lose both the source and its copy.
- `sweep_pool_fee.py` leaves the network fee out of its sum (30-31 and 154), and two
  sweeps at once send the fee twice.
- `make_checkpoint.py` takes one host named twice for two, and prints its line although
  the confirming call failed.

Audits.
- `check_treasury_ledger.py`: a `getrawtransaction` without an answer is reported as "the chain
  does not have this transaction" (1 and not 2), a row that is not yet mined is a
  finding, a `getblock` without an answer makes the balance "stale", a balance for a
  height to come is not refused, and a gift hides a spend of its size without a row.
- `dgw_model.py`: a batch torn by a reorganisation is cached and judged again at every
  later run; an exception in a batch ends it with 1, a finding; and the guard at 124
  never fires in `validate`, while `pow.cpp` 24 returns the limit for the first 24 blocks.
- `show_vesting.py` 140 expects the first tranche to be open from the start, when no
  lock is past, and counts a lock that it could not parse as spendable.

Alarms.
- "Deliver, or park it for the host that can. Always." (`wamnotify.py` 122) fails
  (`DeliveredOrWaiting`): the cut of the parked file is not atomic, a text equal to
  an earlier one is never sent on, and the state is saved before the message is sent.
  The units of `release_watch.py` and `peer_watch.py` may write to their own directories only
  (`ProtectSystem=strict`), so what they park in that of the login watch is refused, and
  passed over.
- "A line seen once is never sent twice." (`login_watch.py` 251) fails (`LineSentOnce`).  A write
  of the state that is refused is passed over (81-89) and the lines are sent: as long as
  the disk refuses, at every run.  A file that cannot be read is an empty memory.  Of the
  remembered hashes the greatest 500 are kept and not the newest: once there are so many, a
  new line with a small hash is sent at every run until it is stale.  A run by hand beside
  the timer's sends the same lines (this one is not in the model).
- `release_watch.py --dry-run` prints the alarm and writes `alarmed` into the file like any
  other run (195-200): the runs of the timer are silent from then on, and the telephone is
  told RECOVERED of what it was never told (`RecoveryFollowsAlarm`, against 51).  Two runs
  beside each other both alarm.  `peer_watch.py --dry-run` writes its file in the same way;
  `PeerWatch` has the timer's runs only.
- `check_reorg.py`: a node at height 0 erases the record; a height that cannot be read
  counts as changed in the bracket, and without a common block the depth that is
  told is too small; the name of the alarm file does not have the host in it.
- `peer_watch.py`: a seed that does not know itself watches for itself; a write that is
  refused repeats the alarm at each run.

Verdicts.
- `ops.py`: a garbled `mem` line raises, and a host that answers is shown as
  unreachable, which the comment at 308-321 rules out; the page's time moves on
  without the hosts having been asked again.
- `consensus_floor.py` 124 and 211 call the floor the newest tag at which consensus
  changed.  An exemption takes the field out of the fingerprint of one tag (174), so
  the next release, with the same value, moves the floor (`FloorIsAChange`).  A floor
  that is not known is v0.0.0 in `check_peer_versions.py`, and everybody is green; of two
  connections from one address the last one counts.
- `check_backups.py` passes when the timer of one network is off and that of another on;
  `check_concentration.py` passes over the blocks it could read, and a timeout of its
  `rsh` is a traceback, hence 1.
- `check_pool.py`: a payment between the API's answer and the reading of the wallet looks
  like insolvency; "payouts have stopped" is said when a block matures after a quiet
  time, when all debts together but none alone pass the minimum, and before the
  first payment.
- `daily_report.py` says "DISAGREE" while a block travels, and repeats its number when its
  file cannot be written.

## 6. Proofs

Every theorem is of a specification (`Spec`, `CalmSpec`, `RetargetSpec`) and of every value of
its constants that the named assumptions of its module allow: any miners, runs,
blocks, shares, amounts, payments, schedules, windows.  TLC evaluates those
assumptions in the runs, and checked each property there before it was proved.  What
a theorem assumes beyond them stands in its statement and is given here with its
reason.  Each proof has the same shape: an invariant that holds at first, one lemma
for each action that it is kept, and the property as a consequence.

**`PoolPaymentsProofs`.**  `NoDuplicatePayment` alone is not inductive: it says nothing of
who may still send.  The invariant `IInv` adds that one run at most is active (`OneRun`),
that the marker names it from its writing to its end (`MarkerOfRun`), that only the
marked transaction can be known to the node and not yet deducted, or still on its way
(`OnlyMarkedAtLarge`), that the balances cover it (`Affordable`), and the books themselves
(`Books`).  `IInv`, the types, `NothingForgiven` and `DueHasBatch` need no more than the
constants' assumptions: whatever Redis rejects, nobody loses a credit, and the greedy
loop of `processPayments` finds a batch for any balance that is due and never passes a
cap.  That no debt is paid twice, that an unfinished run holds payments, and that
`PaymentLedger` is implemented, need `"clear" \notin LostWrites`: Redis does not reject the
MULTI while the process lives.  Without it they are false, as the run
`payments_multi_rejected` shows.  The refinement follows because `Books` makes the debt of
the ledger equal to credits minus payments, so a step is a credit, a payment or a stutter.

**`PoolBlocksProofs`.**  `IInv` says that one run of `checkPendingBlocks` is under way at a time
(`OneCheck`), that nothing leaves `blocks:pending` behind its back (`Snapshot`), that a block
still owed has credited nobody (`Unpaid`), and that the pipeline of `_mature` holds
exactly the credits still missing (`Crediting`), which is what makes a pipeline that is
cut half-way harmless.  From it: each payee is credited once, and only for a buried
block.  `NoBlockIsWrittenOff`, `LiveRoundIsSafe`, `BlocksImplementLedger` and `FeesAreExact` each add
what they need (`Left`, `Recording`, `Recorded` and the like).  Assumed: `PromptOffers`, a block is
given to `recordBlock` while it is young and not in hand, or again after it was credited; `OneOwner`, the timer and the shutdown handler
run in one process, or `OneProcess`, there is one pool process; and, where a node's answer
matters, `~FallbackBehind`, `getblock` is not answered by a node that lacks the block.  `OneOwner`
cannot be dropped: `this.checking` guards one process, and `blocks_two_processes` shows the
second credit.

**`PoolSubmitProofs`.**  The invariant has the types and that each share stands once in
the accounting chain, with its SADD under way only at the head (`InLine`).  `RefusedAreKept`
holds whatever is lost or crashes; `UnansweredAreSpooled` if Redis took the HSET that comes
before the offer.  The other three are about one start of the pool (`MaxCrashes = 0`), since
the claims and the accounting chain live in the process and are lost with it.
`CreditIsOnce` also assumes that answers to `getblocktemplate` come in the order of the
questions (`~Reordered`): a job is newer than every claim that was dropped with an earlier one
(`InOrder`, `Claimed`).  `ToldAreCredited` assumes that no command of `recordShare` is lost;
`BlocksAreRemembered` that the node answers each offer and that neither the claim nor the
record is lost.  The first of these cannot be dropped: `submit_silent`.

**`PoolVerifyProofs`.**  `NoVmIsShared` says that two threads never compute on one VM, and
`PlacesAreKept` that
the counts of places and verifications are exact, that a share waits only while
every place is taken or promised, that the registry keeps to its size, and that no
thread waits on a VM as long as the addon takes the setting as it is.
Neither is inductive as it stands.  The invariant `IInv` adds that each queue (the
waiters, libuv's, the ready continuations) holds each share that its step says stands
there, once (`QueuesHold`: `Leave` and `Dispatch` move the *head* of a queue, which must
be a share in that step and not a stale copy); that the places taken and those promised
to a woken waiter are together never more than `vmSlots` (`PlacesAreCounted`), since the
waiter goes in without looking again; and that each busy VM is that of exactly one
computing thread (`VmsAreHeld`).  That nobody waits on a VM is then a pigeonhole
(`VmIsFree`): the computing threads other than this one are at most `vmSlots - 1`, the
busy VMs of a context are an image of these, and there are `vmCount = vmSlots` VMs.
The submissions are finitely many, so that they can be counted; the number is free.

**`ConsensusProofs`, the money.**  The schedule is any in which each epoch pays half of the one
before, and the cap is at least the premine and twice the first epoch.  The cap is not
inductive; `CapInv` adds `Room`, what is left for the epoch the tip is in and those after it.
Within an epoch a block takes one subsidy from the room (`LaterBlock`); at a boundary
the new epoch needs half of what is there, because its blocks pay half.
`SupplyIsReported` and `TreasuryHasItsShare` are about closed forms that are sums over
epochs, while a chain grows by blocks.  Their invariants say what the sum is in the
middle of one: at the k-th block of epoch e, the terms before e and k times what a
block of e adds.  Where the epoch ends that is the term of e; where the treasury's
window ends it is the term that `GetLifetimeDevFee` cuts short, wherever that falls.

**`ConsensusProofs`, the retarget.**  For any number of blocks in the window, any spacing, clamp
and digits.  `RetargetIsBounded` needs that the compact form drops a part of a target that
neither moves it past a target that is smaller (`CompactGrows`) nor drops more the second
time (`CompactIsFixed`): the targets of the window are their own compact forms, so a mean
between them stays between them.  That the next target is never zero rests on the
world (`WorldAssumption`): below `Hardest` no network finds blocks in time.  A mean that is
small makes every target of the window small (`MeanIsMuch`), so all of the window was slow
(`ElapsedIs`), and the target grows.  `RetargetAssumption` is what the code sets: a base whose half
decides the sign bit, so an even one, two digits or more, and a clamp that divides the
target timespan.

**`ToolsProofs`.**  Four programs, each for any sizes.
- *The treasury's spends.*  The invariant follows a transaction from `_plan_part`, which
  builds it (`PlansAreBuilt`), over the file that may be damaged or mixed with others, the
  checks before the signature (`SignerIsSure`), the signed file (`SignedIsApproved`) and the
  sender to the mempool and the chain (`SentIsSigned`).  Any payments, in any number of
  parts.  Assumed: `DamageAssumption`, a damaged address is not by chance that of somebody
  else who is to be paid.
- *The fee.*  `FeesGoLast` for any number of people who sweep at once.  `RunsKnow` says what a
  run that nothing disturbed knows at each stage: what is owed is no more than what it
  read, and then no more than what the send will leave.  `SendsAreCounted` says that what left
  is what was counted and what is on its way to the counter, a sum over the runs
  (`UncountedMoves`), unless an answer was lost.
- *The checkpoint.*  A hash that a host told is of its chain as long as that was not
  reorganised at that height or below (`StageOk`), all hosts buried the height by `--bury` when
  they told their tips, and all hashes are one.  What is printed is therefore shared.
- *Block 0.*  `SearchInv`: the nonces of a thread are those a stride apart from its number
  (`Of`), no working one is behind it, it stops only at a find or at the end of the nonces
  (`NobodyStopsEarly`), and the parts of the dataset that the threads fill are apart and are
  all of it (`PartsAreApart`, `PartsAreAll`).  So a search that ends with nothing had
  nothing to find unless a thread died, which is the disagreement of section 5.  `SourceInv`
  counts the runs that died in the two writes: a torn source has a copy unless two did.
  `TranchesStayLocked` unfolds `BytesOf` (`BytesRecurse`) on the twenty times of the premine: five bytes
  of script that an interpreter reads as that time, and above the limit below which
  a lock is a height.

**`WatchersProofs`.**  Ten programs, and `WatchersSpec`, all of them side by side, each started by
its own timer.  Each proof says what the run under way has read, and what of it is
still so.
- `unit_alert.py`: every text that may ever be in the memory or its temporary file, torn ones
  aside, says of each unit a time at which a message of it was decided (`IsMemory`).  So
  however the alerters' writes cross, quiet is within the cooldown of a decision.
- `peer_watch.py`: unless a write was refused (`forgot`), the memory counts the misses as they
  were, and the lines that wait to be said are of seeds not told of (`MemoryIsTrue`).
- `release_watch.py`: what is on file, what a run has loaded and what it is about to save is
  `Informed`: if it says that the release was called broken, an alarm was given at the place
  it names.  `Remaining` says it of the steps a run has left, so it does not matter who else
  wrote the file meanwhile; `NothingUnbegun` says of each RECOVERED that the alarm it ends
  came before it, at the place that alarm was given, which after a dry run is the screen.
- `check_reorg.py`: what the run calls changed is what differs from the record
  (`IsCheck`), and when it comes to the saving all of it is on file or the run knows that it is
  not (`ChangesAreFiled`).  From it the action property `RewritesAreOnFile`.
- `ops.py`: cards, page and file carry only answers that were given (`IsPage`).
- `consensus_floor.py`, `check_peer_versions.py`: from the floor on no tag decides otherwise
  (`SinceTheFloor`), because each agrees with the one before it, and an exempt field holds what
  it was (`ExemptIsZero`, the rule for an exemption).  `GreenFollows` is an action property
  over `JudgedIsAgreed`.
- `daily_report.py`: what has been wrong since before it was read is among the facts and results
  (`FactsOk`, `ResultsOk`), and numbers grow while they can be written (`NumbersOk`).
- `wamnotify.py`, `login_watch.py`: `AlarmsAreToldAgainForLapses`.  An alarm is at most once in
  the other host's file and in each copy of it that is about to be written back, and is
  there only if its program has appended it (`Gone`, `IsFile`).  It was heard no more often than
  `Allowed`: once for each lapse of its text, and once more if the text is on file
  (`ToldInv`).  What a run is about to send on was heard no more often than its lapses
  until it saves, and may be heard once more afterwards (`Saves`), because a text that is sent and
  then not on file, whether the write was refused or the hash dropped, is a lapse.  For any
  number of texts, and whatever is killed, unreadable or refused.
- `check_backups.py`, `check_headroom.py`, `check_concentration.py`: as long as nothing has changed,
  what was learned is true (`IsTrue`) and enough is known of every host left behind
  (`Complete`, `AtHost`); silence is among what was learned.  For the share of a finder, a
  `k` among `n` blocks is a percentage without rounding, for any window.
- `check_pool.py`: the API's answer is `Now` of a pool that stood still, a good answer so far
  rules out every fault asked about (`FoundGood`), and a bad one has a fault (`FoundBad`).
`AlarmsStayEarned`, `VerdictsStayEarned` and `ChecksStayFair` put them together: no program writes another's
variables, so what holds of each holds of all.

The proof of the last one found a fault in the property that runs with one miner did
not show.  `check_pool.py` 340 compares what *all* miners are owed with the minimum of
*one* payout, so that a pool whose miners each owe less is called late although no one
is due.  `MonitorIsFair` now says of a failed pool that debts together below a payout, or a
fresh postponement, are no failure, the run has two miners, and section 5 has the rest.

**`SumProofs`** has what the others need of finite sets and recursive functions.  The library's
induction theorems take an operator as a parameter, which these provers cannot
instantiate; so an induction is a least counterexample (`HasLeast`, `HasSmallest`), and a recursive
function is one that exists and whose unfolding is proved (`HasRecursion`).

Only model-checked: liveness (TLAPS has no support for ENABLED), and with it
`RunEnds`, `DeepIsCredited`, `EveryShareIsAnswered`, `SpoolDrains` and `EveryShareIsVerified`; and the two
conjunctions `SourceIsWhole` and `PassesAreEarned` of `MCTools`.  The tables of the patches and the
vectors of RIPEMD-160 are one fixed instance, and a run of them is all there is to know.
The key ceremony rests on facts about a curve, whose group law would have to be proved
first; the audits compare closed sums (`SupplyAudit`), a recursive scan
(`TreasuryLedger`) and a second program for the retarget (`DgwModel`), which is an
induction over data for every input.

## 7. Not modelled

- Bytes: coinbase, header and transaction formats, addresses, the curve and hash
  arithmetic other than RIPEMD-160.  They are pure functions with published vectors,
  which the repository's tests hold them to.
- `rewards.js`: a pure split of a round; `stratumServer.js` and `varDiff.js`: one socket's
  session; `daemon.js` with more than one daemon: a deployed pool has one.
- `randomx_hash.cpp`, the node's cache of contexts: one lock around all of it; the registry
  of the pool's addon, of the same shape but with threads inside, is in `PoolVerify`.
- The miner, the explorer and the bots: what they lose, nobody but their user loses.
  The hazards of the bots' state file are those of `Alarms` and `ReleaseWatch`.
- Bitcoin Core itself: its answers are the external actions of the pool's modules, and
  its text is what the tables of the patches say of it.
- The checks of documents, pages and listings among the scripts: each reads texts once
  and compares them, with no steps and nothing beside them.
- Service files, sites, pictures, adapters for exchanges and wallets.
- Liveness of the operator's programs: timers of the host, and people.
