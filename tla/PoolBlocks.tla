----------------------------- MODULE PoolBlocks -----------------------------
(***************************************************************************)
(* The life of a block the pool found, in pool/lib/shareProcessor.js:      *)
(* recordBlock freezes who shares its reward, checkPendingBlocks follows   *)
(* it on the chain, _mature credits it and _orphan drops it.               *)
(*                                                                         *)
(* One action is the code between two awaits.  A Redis pipeline is one     *)
(* round trip and not a transaction: its commands are applied one by one,  *)
(* other clients in between, and a lost connection or a crash cuts it      *)
(* after any prefix.  The claim script of pool/lib/atomic.js is one step.  *)
(*                                                                         *)
(* A share stands for the work of one payee.  The lists' caps, the counts  *)
(* beside them and the amounts are left out; PoolPayments has the amounts. *)
(***************************************************************************)
EXTENDS Integers, FiniteSets

CONSTANTS
  Blocks,         \* blocks the pool may find
  Shares,         \* shares its miners may submit
  Procs,          \* pool processes on one Redis
  Checkers,       \* activations of checkPendingBlocks: the timer, the shutdown
  Owner,          \* the process each of them runs in
  Mode,           \* "pplns" or "prop"
  PromptOffers,   \* recordBlock is only called for young or confirmed blocks
  FallbackBehind, \* getblock may fail over to a node that lacks the block
  None            \* no block

ASSUME ConstantsAssumption ==
  /\ Owner \in [Checkers -> Procs]
  /\ Mode \in {"pplns", "prop"}
  /\ PromptOffers \in BOOLEAN /\ FallbackBehind \in BOOLEAN
  /\ None \notin Blocks
  /\ Shares \cap {"confirm", "unmark"} = {}

VARIABLES
  \* Redis
  round,        \* wam:round, the shares since the last recorded block
  worked,       \* wam:pplns, every share in the buffer
  pending,      \* wam:blocks:pending
  table,        \* the payouts in each block's record
  maturing,     \* wam:blocks:maturing, entries per block
  confirmed,    \* wam:blocks:confirmed:hashes, and the list beside it
  orphaned,     \* wam:blocks:orphaned, entries per block
  failed,       \* wam:blocks:failed
  fees,         \* how often each block's fee is in wam:poolfees
  credits,      \* how often each share of a block went into wam:balances
  \* the node
  chain,        \* where each block is
  \* a pool process
  up,
  checking,     \* this.checking
  rec,          \* recordBlock's await, in the accounting chain
  recBlock,     \* its block
  recTable,     \* the payouts it computed
  recPipe,      \* the commands of its pipeline not applied yet
  \* a run of _checkPendingBlocks
  pc,
  todo,         \* what is left of its snapshot of blocks:pending
  cur,          \* the block in hand
  pipe          \* the commands of _mature's pipeline not applied yet

redis   == <<round, worked, pending, table, maturing, confirmed, orphaned, failed,
             fees, credits>>
chainer == <<rec, recBlock, recTable, recPipe>>
checker == <<pc, todo, cur, pipe>>
vars    == <<redis, chain, up, checking, chainer, checker>>

Places == {"none", "shallow", "stale", "back", "deep"}

Zero == [b \in Blocks |-> 0]

Init ==
  /\ round = {} /\ worked = {} /\ pending = {} /\ confirmed = {} /\ failed = {}
  /\ table = [b \in Blocks |-> {}]
  /\ maturing = Zero /\ orphaned = Zero /\ fees = Zero
  /\ credits = [b \in Blocks |-> [s \in Shares |-> 0]]
  /\ chain = [b \in Blocks |-> "none"]
  /\ up = [p \in Procs |-> TRUE] /\ checking = [p \in Procs |-> FALSE]
  /\ rec = [p \in Procs |-> "idle"] /\ recBlock = [p \in Procs |-> None]
  /\ recTable = [p \in Procs |-> {}] /\ recPipe = [p \in Procs |-> {}]
  /\ pc = [c \in Checkers |-> "idle"] /\ todo = [c \in Checkers |-> {}]
  /\ cur = [c \in Checkers |-> None] /\ pipe = [c \in Checkers |-> {}]

-----------------------------------------------------------------------------
(* The chain.  A block is reorganised away at most once, and may come back. *)
(* Deep is more confirmations than coinbaseMaturity; nothing deep is undone. *)

InHand(b) == \E p \in Procs : rec[p] # "idle" /\ recBlock[p] = b

Moves == {<<"none", "shallow">>, <<"shallow", "stale">>, <<"stale", "back">>,
          <<"shallow", "deep">>, <<"back", "deep">>}

ChainMoves(b) ==
  /\ \E to \in Places : /\ <<chain[b], to>> \in Moves
                        /\ chain' = [chain EXCEPT ![b] = to]
  /\ PromptOffers => ~InHand(b)
  /\ UNCHANGED <<redis, up, checking, chainer, checker>>

-----------------------------------------------------------------------------
(* The accounting chain of server.js: one recordShare or recordBlock at a   *)
(* time in a process.                                                       *)

\* recordShare's pipeline, into the round and the PPLNS buffer.
Work(p, s) ==
  /\ up[p] /\ rec[p] = "idle"
  /\ s \notin worked
  /\ round' = round \cup {s}
  /\ worked' = worked \cup {s}
  /\ UNCHANGED <<pending, table, maturing, confirmed, orphaned, failed, fees, credits,
                 chain, up, checking, chainer, checker>>

\* recordBlock(share): from the 'block' event, or again from the spool drain.
Offer(p, b) ==
  /\ up[p] /\ rec[p] = "idle"
  /\ chain[b] # "none"
  /\ PromptOffers => chain[b] \in {"shallow", "back"} \/ b \in confirmed
  /\ rec' = [rec EXCEPT ![p] = "check"]
  /\ recBlock' = [recBlock EXCEPT ![p] = b]
  /\ UNCHANGED <<redis, chain, up, checking, recTable, recPipe, checker>>

RecEnds(p) == /\ rec' = [rec EXCEPT ![p] = "idle"]
              /\ recBlock' = [recBlock EXCEPT ![p] = None]
              /\ recTable' = [recTable EXCEPT ![p] = {}]
              /\ recPipe' = [recPipe EXCEPT ![p] = {}]

\* Mutant: the record is written without asking whether it exists.
CheckKnown_Trusts(p) ==
  /\ rec[p] = "check"
  /\ rec' = [rec EXCEPT ![p] = "read"] /\ UNCHANGED <<recBlock, recTable, recPipe>>
  /\ UNCHANGED <<redis, chain, up, checking, checker>>

\* Is it accounted for already?  Both answers arrive together.
CheckKnown(p) ==
  /\ rec[p] = "check"
  /\ IF recBlock[p] \in pending \cup confirmed
     THEN RecEnds(p)
     ELSE rec' = [rec EXCEPT ![p] = "read"] /\ UNCHANGED <<recBlock, recTable, recPipe>>
  /\ UNCHANGED <<redis, chain, up, checking, checker>>

\* Who shares the reward: the PPLNS window, or the round when that is empty or
\* the mode is PROP.
Contributors == IF Mode = "pplns" /\ worked # {} THEN worked ELSE round

ReadShares(p) ==
  /\ rec[p] = "read"
  /\ rec' = [rec EXCEPT ![p] = "write"]
  /\ recTable' = [recTable EXCEPT ![p] = Contributors]
  /\ recPipe' = [recPipe EXCEPT ![p] = {"pending", "round", "fee"}]
  /\ UNCHANGED <<redis, chain, up, checking, recBlock, checker>>

\* computeBlockRewards refuses its own result: the block is parked by hand.
Park(p) ==
  /\ rec[p] = "read"
  /\ failed' = failed \cup {recBlock[p]}
  /\ RecEnds(p)
  /\ UNCHANGED <<round, worked, pending, table, maturing, confirmed, orphaned, fees,
                 credits, chain, up, checking, checker>>

\* The pipeline, command by command: HSET pending, DEL the round, INCRBY fees.
Write(p) ==
  /\ rec[p] = "write"
  /\ LET b == recBlock[p] IN
     \/ /\ "pending" \in recPipe[p]
        /\ pending' = pending \cup {b}
        /\ table' = [table EXCEPT ![b] = recTable[p]]
        /\ recPipe' = [recPipe EXCEPT ![p] = @ \ {"pending"}]
        /\ UNCHANGED <<round, fees, rec, recBlock, recTable>>
     \/ /\ "pending" \notin recPipe[p] /\ "round" \in recPipe[p]
        /\ round' = {}
        /\ recPipe' = [recPipe EXCEPT ![p] = @ \ {"round"}]
        /\ UNCHANGED <<pending, table, fees, rec, recBlock, recTable>>
     \/ /\ recPipe[p] = {"fee"}
        /\ fees' = [fees EXCEPT ![b] = @ + 1]
        /\ RecEnds(p)
        /\ UNCHANGED <<round, pending, table>>
  /\ UNCHANGED <<worked, maturing, confirmed, orphaned, failed, credits, chain, up,
                 checking, checker>>

\* An await of recordBlock rejects; what its pipeline had left is lost.
RecFails(p) ==
  /\ rec[p] # "idle"
  /\ RecEnds(p)
  /\ UNCHANGED <<redis, chain, up, checking, checker>>

-----------------------------------------------------------------------------
(* checkPendingBlocks, from the timer and from the shutdown handler.        *)

\* Mutant: checkPendingBlocks before it had a guard.
StartCheck_Overlaps(c) ==
  /\ up[Owner[c]] /\ pc[c] = "idle" /\ pending # {}
  /\ checking' = [checking EXCEPT ![Owner[c]] = TRUE]
  /\ pc' = [pc EXCEPT ![c] = "walk"]
  /\ todo' = [todo EXCEPT ![c] = pending]
  /\ UNCHANGED <<redis, chain, up, chainer, cur, pipe>>

\* The guard, and the snapshot of blocks:pending.
StartCheck(c) ==
  /\ up[Owner[c]] /\ pc[c] = "idle"
  /\ ~checking[Owner[c]]
  /\ pending # {}
  /\ checking' = [checking EXCEPT ![Owner[c]] = TRUE]
  /\ pc' = [pc EXCEPT ![c] = "walk"]
  /\ todo' = [todo EXCEPT ![c] = pending]
  /\ UNCHANGED <<redis, chain, up, chainer, cur, pipe>>

Next1(c, step) == pc' = [pc EXCEPT ![c] = step]

\* The run is over, or an await threw: the finally clears the guard.
CheckEnds(c) == /\ Next1(c, "idle")
                /\ todo' = [todo EXCEPT ![c] = {}]
                /\ cur' = [cur EXCEPT ![c] = None]
                /\ pipe' = [pipe EXCEPT ![c] = {}]
                /\ checking' = [checking EXCEPT ![Owner[c]] = FALSE]

\* Mutant: a block is credited as soon as it is on the chain.
Verdicts_Early(b) ==
  {IF chain[b] = "stale" THEN "orphan" ELSE "mature", "walk"}

\* Mutant: any error of getblock is taken for "not found".
Verdicts_AnyError(b) ==
  {CASE chain[b] = "deep" -> "mature" [] chain[b] = "stale" -> "orphan"
     [] OTHER -> "update", "orphan"}

\* Mutant: the comparison with the maturity never lets a block through.
Verdicts_NeverDeep(b) == {IF chain[b] = "stale" THEN "orphan" ELSE "update", "walk"}

\* What getblock's answer makes the loop do; another error skips the block.
Verdicts(b) ==
  {CASE chain[b] = "deep"  -> "mature"
     [] chain[b] = "stale" -> "orphan"
     [] OTHER              -> "update",
   "walk"} \cup (IF FallbackBehind THEN {"orphan"} ELSE {})

AskNode(c) ==
  /\ pc[c] = "walk"
  /\ \E b \in todo[c] :
       /\ \E v \in Verdicts(b) : Next1(c, v)
       /\ cur' = [cur EXCEPT ![c] = b]
       /\ todo' = [todo EXCEPT ![c] = @ \ {b}]
  /\ UNCHANGED <<redis, chain, up, checking, chainer, pipe>>

Finish(c) ==
  /\ pc[c] = "walk" /\ todo[c] = {}
  /\ CheckEnds(c)
  /\ UNCHANGED <<redis, chain, up, chainer>>

\* Not deep enough: the record is written back with its confirmations.
Update(c) ==
  /\ pc[c] = "update"
  /\ pending' = pending \cup {cur[c]}
  /\ Next1(c, "walk")
  /\ UNCHANGED <<round, worked, table, maturing, confirmed, orphaned, failed, fees,
                 credits, chain, up, checking, chainer, todo, cur, pipe>>

\* Mutant: the two commands, HDEL and then the evidence, that the script replaced;
\* an interruption between them leaves neither.
ClaimMature_TwoSteps(c) ==
  /\ pc[c] = "mature"
  /\ pending' = pending \ {cur[c]}
  /\ \/ CheckEnds(c) /\ UNCHANGED maturing
     \/ /\ maturing' = [maturing EXCEPT ![cur[c]] = @ + 1]
        /\ pc' = [pc EXCEPT ![c] = "credit"]
        /\ pipe' = [pipe EXCEPT ![c] = table[cur[c]] \cup {"confirm", "unmark"}]
        /\ UNCHANGED <<todo, cur, checking>>
  /\ UNCHANGED <<round, worked, table, confirmed, orphaned, failed, fees, credits,
                 chain, up, chainer>>

\* Mutant: the refund does not depend on having won the claim.
ClaimOrphan_Always(c) ==
  /\ pc[c] = "orphan"
  /\ pending' = pending \ {cur[c]}
  /\ orphaned' = [orphaned EXCEPT ![cur[c]] = @ + 1]
  /\ pc' = [pc EXCEPT ![c] = "walk"]
  /\ UNCHANGED <<round, worked, table, maturing, confirmed, failed, fees, credits,
                 chain, up, checking, chainer, todo, cur, pipe>>

\* wamClaimAndRecord: out of pending and into the evidence, or neither.  The
\* answer may be lost after the script ran, which throws out of the whole run.
Claim(c, then) ==
  IF cur[c] \in pending
  THEN /\ pending' = pending \ {cur[c]}
       /\ \/ Next1(c, then)
             /\ pipe' = [pipe EXCEPT ![c] = IF then = "credit"
                           THEN table[cur[c]] \cup {"confirm", "unmark"} ELSE {}]
             /\ UNCHANGED <<todo, cur, checking>>
          \/ CheckEnds(c)
  ELSE Next1(c, "walk") /\ UNCHANGED <<pending, todo, cur, pipe, checking>>

Bump(f, b, yes) == IF yes THEN [f EXCEPT ![b] = @ + 1] ELSE f

\* _orphan: the claim, then the fee goes back.
ClaimOrphan(c) ==
  /\ pc[c] = "orphan"
  /\ Claim(c, "refund")
  /\ orphaned' = Bump(orphaned, cur[c], cur[c] \in pending)
  /\ UNCHANGED <<round, worked, table, maturing, confirmed, failed, fees, credits,
                 chain, up, chainer>>

Refund(c) ==
  /\ pc[c] = "refund"
  /\ fees' = [fees EXCEPT ![cur[c]] = @ - 1]
  /\ Next1(c, "walk")
  /\ UNCHANGED <<round, worked, pending, table, maturing, confirmed, orphaned, failed,
                 credits, chain, up, checking, chainer, todo, cur, pipe>>

\* _mature: the claim with its evidence, then the pipeline of credits.
ClaimMature(c) ==
  /\ pc[c] = "mature"
  /\ Claim(c, "credit")
  /\ maturing' = Bump(maturing, cur[c], cur[c] \in pending)
  /\ UNCHANGED <<round, worked, table, confirmed, orphaned, failed, fees, credits,
                 chain, up, chainer>>

\* HINCRBY for each payee, then confirmed (list, count, set), then LREM maturing.
CreditStep(c) ==
  /\ pc[c] = "credit"
  /\ LET b == cur[c] IN
     \/ \E s \in pipe[c] \cap Shares :
          /\ credits' = [credits EXCEPT ![b][s] = @ + 1]
          /\ pipe' = [pipe EXCEPT ![c] = @ \ {s}]
          /\ UNCHANGED <<confirmed, maturing, pc>>
     \/ /\ pipe[c] = {"confirm", "unmark"}
        /\ confirmed' = confirmed \cup {b}
        /\ pipe' = [pipe EXCEPT ![c] = {"unmark"}]
        /\ UNCHANGED <<credits, maturing, pc>>
     \/ /\ pipe[c] = {"unmark"}
        /\ maturing' = [maturing EXCEPT ![b] = @ - 1]
        /\ pipe' = [pipe EXCEPT ![c] = {}]
        /\ Next1(c, "walk")
        /\ UNCHANGED <<credits, confirmed>>
  /\ UNCHANGED <<round, worked, pending, table, orphaned, failed, fees, chain, up,
                 checking, chainer, todo, cur>>

\* An await of the run rejects before Redis applied (the rest of) it.  A cut
\* pipeline need not throw: ioredis resolves exec() with the errors inside.
CheckFails(c) ==
  /\ pc[c] \notin {"idle", "walk"}
  /\ \/ CheckEnds(c)
     \/ /\ pc[c] \in {"credit", "refund"}
        /\ Next1(c, "walk")
        /\ pipe' = [pipe EXCEPT ![c] = {}]
        /\ UNCHANGED <<todo, cur, checking>>
  /\ UNCHANGED <<redis, chain, up, chainer>>

-----------------------------------------------------------------------------
Crash(p) ==
  /\ up[p]
  /\ up' = [up EXCEPT ![p] = FALSE]
  /\ checking' = [checking EXCEPT ![p] = FALSE]
  /\ RecEnds(p)
  /\ LET Mine == {c \in Checkers : Owner[c] = p} IN
     /\ pc' = [c \in Checkers |-> IF c \in Mine THEN "idle" ELSE pc[c]]
     /\ todo' = [c \in Checkers |-> IF c \in Mine THEN {} ELSE todo[c]]
     /\ cur' = [c \in Checkers |-> IF c \in Mine THEN None ELSE cur[c]]
     /\ pipe' = [c \in Checkers |-> IF c \in Mine THEN {} ELSE pipe[c]]
  /\ UNCHANGED <<redis, chain>>

Restart(p) ==
  /\ ~up[p]
  /\ up' = [up EXCEPT ![p] = TRUE]
  /\ UNCHANGED <<redis, chain, checking, chainer, checker>>

RecStep(p) == CheckKnown(p) \/ ReadShares(p) \/ Park(p) \/ Write(p)

CheckStep(c) == \/ AskNode(c) \/ Finish(c) \/ Update(c) \/ ClaimOrphan(c) \/ Refund(c)
                \/ ClaimMature(c) \/ CreditStep(c)

Next ==
  \/ \E b \in Blocks : ChainMoves(b)
  \/ \E p \in Procs, s \in Shares : Work(p, s)
  \/ \E p \in Procs, b \in Blocks : Offer(p, b)
  \/ \E p \in Procs : RecStep(p) \/ RecFails(p) \/ Crash(p) \/ Restart(p)
  \/ \E c \in Checkers : StartCheck(c) \/ CheckStep(c) \/ CheckFails(c)

Spec == Init /\ [][Next]_vars

\* Weather without failures: no crash, every await answers, the node too.
Calm ==
  /\ \/ \E b \in Blocks : ChainMoves(b)
     \/ \E p \in Procs, s \in Shares : Work(p, s)
     \/ \E p \in Procs, b \in Blocks : Offer(p, b)
     \/ \E p \in Procs : RecStep(p)
     \/ \E c \in Checkers : StartCheck(c) \/ CheckStep(c)
  /\ \A c \in Checkers :
       /\ pc[c] \in {"orphan", "mature"} => pc'[c] # "idle"
       /\ pc[c] = "walk" /\ pc'[c] = "walk" => todo'[c] = todo[c]

CalmSpec == /\ Init /\ [][Calm]_vars
            /\ \A p \in Procs : WF_vars(RecStep(p))
            /\ \A c \in Checkers : WF_vars(CheckStep(c) /\ Calm)
            /\ WF_vars(\E c \in Checkers : StartCheck(c))

-----------------------------------------------------------------------------
(* Properties                                                              *)

\* Each payee of a block is credited for it at most once, whatever is
\* interleaved, cut or restarted (maturation-claim.test.js 163-215).
CreditedOnce == \A b \in Blocks, s \in Shares : credits[b][s] <= 1

\* "Credit when the coin can actually move" (535-555): what is credited comes
\* from a block the chain has buried, never from one it dropped.
CreditsAreSpendable ==
  \A b \in Blocks, s \in Shares : credits[b][s] > 0 => chain[b] = "deep"

\* A block that has never left the chain is not written off as an orphan.
OrphansLeftTheChain == \A b \in Blocks : orphaned[b] > 0 => chain[b] # "shallow"

\* A share leaves the round only into the payout table of a recorded block: a
\* second recordBlock never wipes a live round (395-406).
RoundIsNeverWiped ==
  [][\A s \in round \ round' : \E b \in Blocks : b \in pending' /\ s \in table'[b]]_vars

\* When nothing is in hand, the fee total holds exactly the fees of the blocks
\* that are not orphaned (397, 598-602).  It needs weather without failures.
FeesMatchBlocks ==
  (\A p \in Procs : rec[p] = "idle") /\ (\A c \in Checkers : pc[c] = "idle") =>
    \A b \in Blocks :
      fees[b] = IF b \in pending \cup confirmed \/ maturing[b] > 0 THEN 1 ELSE 0

\* The pool implements the life of a block: one the pool has found is always in
\* some state of it ("always recoverable", crash-window.test.js 23-40), it counts
\* as paid only when every payee is credited, and each of them once.
Life(b) == IF b \in pending THEN "owed"
           ELSE IF b \in confirmed THEN "paid"
           ELSE IF maturing[b] > 0 THEN "crediting"
           ELSE IF orphaned[b] > 0 THEN "orphaned" ELSE "unrecorded"

Ledger == INSTANCE BlockLedger WITH
            Payees <- Shares, life <- [b \in Blocks |-> Life(b)]
ImplementsBlockLedger == Ledger!Spec
=============================================================================
