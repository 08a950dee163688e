----------------------------- MODULE PoolSubmit -----------------------------
(***************************************************************************)
(* A submitted share, from mining.submit to the round, and the block it    *)
(* may have solved, from the spool to the payout record.  processShare,    *)
(* _submitBlock, drainSpool and refreshTemplate of pool/lib/jobManager.js, *)
(* the claims of pool/lib/blockTemplate.js, the verdicts of                *)
(* pool/lib/daemon.js, the accounting chain and the spool of               *)
(* pool/server.js, and recordShare of pool/lib/shareProcessor.js.          *)
(*                                                                         *)
(* One action is the code between two awaits.  The pool has one connection *)
(* to Redis, which runs commands in the order they are sent: a command is  *)
(* part of the step that sends it.  recordBlock is one step here, as the   *)
(* chain runs nothing beside it; PoolBlocks has it command by command.     *)
(*                                                                         *)
(* A job is known by the tip it builds on: jobs on one tip share their set *)
(* of claims, and a new tip clears the other jobs.                         *)
(***************************************************************************)
EXTENDS Naturals, Sequences, SequencesExt

CONSTANTS
  Attempts,     \* calls of processShare (a bound)
  Works,        \* proofs of work, each with its own RandomX hash
  Solves,       \* those that solve a block
  Bad,          \* the blocks the node refuses
  TipOf,        \* the tip each work builds on
  Drains,       \* activations of drainSpool: the timer does not wait for one
  Retries,      \* RETRIES of _submitBlock, 5 in the code
  MaxTip,       \* bound: blocks on the chain
  MaxPolls,     \* bound: template requests on their way at once
  MaxCrashes,   \* bound: crashes of the pool
  MaxChain,     \* bound: accounting tasks waiting when a drain starts
  Reordered,    \* template answers may overtake each other
  LostWrites,   \* the writes that Redis may reject
  NodeSilent    \* a block offered to the node may get no answer

ASSUME ConstantsAssumption ==
  /\ Bad \subseteq Solves /\ Solves \subseteq Works
  /\ Retries \in Nat /\ MaxTip \in Nat /\ MaxPolls \in Nat /\ MaxCrashes \in Nat
  /\ MaxChain \in Nat
  /\ TipOf \in [Works -> 0..(MaxTip - 1)]
  /\ Reordered \in BOOLEAN /\ NodeSilent \in BOOLEAN
  /\ LostWrites \subseteq {"spool", "unspool", "move", "claim", "add", "block"}

VARIABLES
  \* Redis
  round,      \* wam:round and wam:pplns, the works of the round
  pow,        \* wam:round:pow
  credited,   \* how often each work was added to a round, ever
  spool,      \* wam:blocks:unsent
  refused,    \* wam:blocks:refused
  recorded,   \* blocks recordBlock has accounted for
  payees,     \* the round each of them was recorded with
  \* the node
  tip,        \* height of its chain
  blocks,     \* our blocks it has
  onChain,    \* those that extended its chain
  looked,     \* blocks it has answered for
  \* the pool process
  up, crashes,
  answers,    \* getblocktemplate answers on their way, in request order
  jobTip,     \* the tip currentJob builds on
  claims,     \* currentJob.submits
  pc,         \* the await each attempt is suspended at
  work,       \* its work
  holders,    \* attempts whose claim is in currentJob.submits
  tries,      \* the attempt of _submitBlock's loop
  won,        \* share.blockAccepted
  told,       \* works answered `valid`
  chain,      \* server.js's accounting chain
  adding,     \* its head is a share past the SADD, at the pipeline
  removals,   \* refused blocks in an _unspool that _submitBlock does not wait for
  drain       \* the entries each drain has left, and the _unspool it waits for

redis  == <<round, pow, credited, spool, refused, recorded, payees>>
node   == <<tip, blocks, onChain, looked>>
jobs   == <<answers, jobTip, claims, holders>>
share  == <<pc, work, tries, won, told>>
acct   == <<chain, adding>>
vars   == <<redis, node, up, crashes, jobs, share, acct, removals, drain>>

NoDrain == [left |-> {}, leaving |-> {}]

\* start() has awaited its first template and the first shares may come.
Init ==
  /\ round = {} /\ pow = {} /\ spool = {} /\ refused = {} /\ recorded = {}
  /\ credited = [w \in Works |-> 0] /\ payees = [s \in Solves |-> {}]
  /\ tip = 0 /\ blocks = {} /\ onChain = {} /\ looked = {}
  /\ up = TRUE /\ crashes = 0
  /\ answers = <<>> /\ jobTip = 0 /\ claims = {} /\ holders = {}
  /\ pc = [a \in Attempts |-> "new"] /\ work = [a \in Attempts |-> CHOOSE w \in Works : TRUE]
  /\ tries = [a \in Attempts |-> 0] /\ won = [a \in Attempts |-> FALSE] /\ told = {}
  /\ chain = <<>> /\ adding = FALSE /\ removals = {}
  /\ drain = [d \in Drains |-> NoDrain]

-----------------------------------------------------------------------------
(* Templates.                                                               *)

\* Another miner's block.
Rival ==
  /\ tip < MaxTip
  /\ tip' = tip + 1
  /\ UNCHANGED <<redis, blocks, onChain, looked, up, crashes, jobs, share, acct, removals, drain>>

\* The node executes a getblocktemplate, of the poll or of an accepted block.
Poll ==
  /\ up /\ Len(answers) < MaxPolls
  /\ answers' = Append(answers, tip)
  /\ UNCHANGED <<redis, node, up, crashes, jobTip, claims, holders, share, acct, removals, drain>>

\* A template on another tip starts a new set of claims.
NewTip(t) == jobTip' = t /\ claims' = {} /\ holders' = {}

\* Mutant: every template starts a new set of claims.
Template_Fresh(i) ==
  /\ up /\ i \in 1..Len(answers)
  /\ Reordered \/ i = 1
  /\ answers' = RemoveAt(answers, i)
  /\ NewTip(answers[i])
  /\ UNCHANGED <<redis, node, up, crashes, share, acct, removals, drain>>

\* refreshTemplate() past its await.  On the same tip the claims are carried on.
Template(i) ==
  /\ up /\ i \in 1..Len(answers)
  /\ Reordered \/ i = 1
  /\ answers' = RemoveAt(answers, i)
  /\ IF answers[i] # jobTip THEN NewTip(answers[i])
                            ELSE UNCHANGED <<jobTip, claims, holders>>
  /\ UNCHANGED <<redis, node, up, crashes, share, acct, removals, drain>>

-----------------------------------------------------------------------------
(* processShare.                                                            *)

\* A job that is known and a work nobody has claimed; anything else is refused
\* at once and changes nothing.
Submit(a, w) ==
  /\ up /\ pc[a] = "new"
  /\ TipOf[w] = jobTip
  /\ w \notin claims
  /\ claims' = claims \cup {w}
  /\ holders' = holders \cup {a}
  /\ work' = [work EXCEPT ![a] = w]
  /\ pc' = [pc EXCEPT ![a] = "hash"]
  /\ UNCHANGED <<redis, node, up, crashes, answers, jobTip, tries, won, told, acct,
                 removals, drain>>

\* releaseSubmit, in the finally: on the set of the job the share came for.
Release(a) ==
  /\ claims' = IF a \in holders THEN claims \ {work[a]} ELSE claims
  /\ holders' = holders \ {a}

\* BUSY, a failed hash, or a low-difficulty share.
HashRejected(a) ==
  /\ up /\ pc[a] = "hash"
  /\ Release(a)
  /\ pc' = [pc EXCEPT ![a] = "done"]
  /\ UNCHANGED <<redis, node, up, crashes, answers, jobTip, work, tries, won, told, acct,
                 removals, drain>>

\* Mutant: the block is offered before it is written down.
Hashed_Unspooled(a) ==
  /\ up /\ pc[a] = "hash"
  /\ IF work[a] \in Solves
       THEN pc' = [pc EXCEPT ![a] = "offer"] /\ UNCHANGED chain
       ELSE pc' = [pc EXCEPT ![a] = "record"] /\ chain' = Append(chain, <<"share", a>>)
  /\ UNCHANGED <<redis, node, up, crashes, jobs, work, tries, won, told, adding, removals, drain>>

\* Mutant: a share is answered before it is recorded.
Hashed_AnswersEarly(a) ==
  /\ up /\ pc[a] = "hash"
  /\ pc' = [pc EXCEPT ![a] = "record"]
  /\ chain' = Append(chain, <<"share", a>>)
  /\ told' = told \cup {work[a]}
  /\ UNCHANGED <<redis, node, up, crashes, jobs, work, tries, won, adding, removals, drain>>

\* The hash meets the share target.  A block is spooled and then offered, even
\* if it could not be spooled; any other share goes to be recorded.
Hashed(a) ==
  /\ up /\ pc[a] = "hash"
  /\ \/ /\ work[a] \in Solves
        /\ \/ spool' = spool \cup {work[a]}
           \/ "spool" \in LostWrites /\ UNCHANGED spool
        /\ pc' = [pc EXCEPT ![a] = "offer"]
        /\ UNCHANGED chain
     \/ /\ work[a] \notin Solves
        /\ pc' = [pc EXCEPT ![a] = "record"]
        /\ chain' = Append(chain, <<"share", a>>)
        /\ UNCHANGED spool
  /\ UNCHANGED <<round, pow, credited, refused, recorded, payees, node, up, crashes, jobs,
                 work, tries, won, told, adding, removals, drain>>

-----------------------------------------------------------------------------
(* submitblock, and what classifySubmit makes of its answer.                *)

\* What the node would say: taken as its new tip, `duplicate` or
\* `inconclusive`, or a fault.
Says(s) == IF s \in Bad THEN "refused"
           ELSE IF s \notin blocks /\ TipOf[s] = tip THEN "accepted"
           ELSE "already"

Verdicts(s) == {Says(s)} \cup (IF NodeSilent THEN {"unanswered"} ELSE {})

\* The node executes the call.
Takes(s) ==
  /\ blocks' = IF s \in Bad THEN blocks ELSE blocks \cup {s}
  /\ onChain' = IF Says(s) = "accepted" THEN onChain \cup {s} ELSE onChain
  /\ tip' = IF Says(s) = "accepted" THEN tip + 1 ELSE tip

\* The call ends with verdict v: answered, executed unanswered, or never executed.
Offered(s, v) ==
  /\ v \in Verdicts(s)
  /\ \/ v # "unanswered" /\ Takes(s) /\ looked' = looked \cup {s}
     \/ v = "unanswered" /\ Takes(s) /\ UNCHANGED looked
     \/ v = "unanswered" /\ UNCHANGED node

\* Mutant: the count of attempts starts over.
Retry_StartsOver(a) ==
  /\ up /\ pc[a] = "offer"
  /\ Offered(work[a], "unanswered")
  /\ tries' = [tries EXCEPT ![a] = IF tries[a] = Retries THEN 0 ELSE tries[a] + 1]
  /\ UNCHANGED <<redis, up, crashes, jobs, pc, work, won, told, acct, removals, drain>>

\* Nothing answered, and the loop has an attempt left.
Retry(a) ==
  /\ up /\ pc[a] = "offer" /\ tries[a] < Retries
  /\ Offered(work[a], "unanswered")
  /\ tries' = [tries EXCEPT ![a] = tries[a] + 1]
  /\ UNCHANGED <<redis, up, crashes, jobs, pc, work, won, told, acct, removals, drain>>

\* The _unspool of a verdict.  Silence keeps the entry and a refused block is
\* copied first; the HDEL may fail, which is logged.
Unspool(s, v) ==
  \/ /\ v \in {"accepted", "already"}
     /\ \/ spool' = spool \ {s}
        \/ "unspool" \in LostWrites /\ UNCHANGED spool
     /\ UNCHANGED removals
  \/ /\ v = "refused"
     /\ removals' = IF s \in spool THEN removals \cup {<<s, "keep">>} ELSE removals
     /\ UNCHANGED spool
  \/ /\ v = "unanswered"
     /\ UNCHANGED <<spool, removals>>

\* The loop is over: _submitBlock returns and the share joins the chain.
Verdict(a, v) ==
  /\ up /\ pc[a] = "offer"
  /\ v = "unanswered" => tries[a] = Retries
  /\ Offered(work[a], v)
  /\ won' = [won EXCEPT ![a] = (v = "accepted")]
  /\ Unspool(work[a], v)
  /\ pc' = [pc EXCEPT ![a] = "record"]
  /\ chain' = Append(chain, <<"share", a>>)
  /\ UNCHANGED <<round, pow, credited, refused, recorded, payees, up, crashes, jobs, work,
                 tries, told, adding, drain>>

\* Mutant: a refused block is removed before it is copied.
Moves_DropsFirst(s, step) ==
  \/ step = "drop" /\ refused' = refused \cup {s} /\ UNCHANGED spool
  \/ step = "keep" /\ spool' = spool \ {s} /\ UNCHANGED refused

\* remove(hash, reason) past its HGET: the HSET, then the HDEL.
Moves(s, step) ==
  \/ step = "keep" /\ refused' = refused \cup {s} /\ UNCHANGED spool
  \/ step = "drop" /\ spool' = spool \ {s} /\ UNCHANGED refused

\* What the call still has to do.
Onward(s, step) == IF step = "keep" THEN {<<s, "drop">>} ELSE {}

\* A removal nobody waits for goes on; if it fails the rest is not done.
Removes(s, step) ==
  /\ up /\ <<s, step>> \in removals
  /\ \/ /\ Moves(s, step)
        /\ removals' = (removals \ {<<s, step>>}) \cup Onward(s, step)
     \/ /\ "move" \in LostWrites
        /\ removals' = removals \ {<<s, step>>}
        /\ UNCHANGED <<spool, refused>>
  /\ UNCHANGED <<round, pow, credited, recorded, payees, node, up, crashes, jobs, share,
                 acct, drain>>

-----------------------------------------------------------------------------
(* The accounting chain: one task at a time, and a failure does not stop it. *)

Head_(what, x) == up /\ chain # <<>> /\ Head(chain) = <<what, x>>

\* _record rejected: UNAVAILABLE, and the miner may submit the share again.
Unavailable(a) ==
  /\ Release(a)
  /\ pc' = [pc EXCEPT ![a] = "done"]
  /\ chain' = Tail(chain)
  /\ UNCHANGED <<won, told, adding>>

\* _record resolved: the claim is kept, and the block goes to its payout.
Credited(a) ==
  /\ told' = told \cup {work[a]}
  /\ pc' = [pc EXCEPT ![a] = "done"]
  /\ chain' = Tail(chain) \o (IF won[a] THEN <<<<"block", work[a]>>>> ELSE <<>>)
  /\ adding' = FALSE
  /\ UNCHANGED <<claims, holders, won>>

\* recordShare's SADD.
ShareChecked(a) ==
  /\ Head_("share", a) /\ ~adding
  /\ \/ /\ work[a] \notin pow
        /\ pow' = pow \cup {work[a]}
        /\ adding' = TRUE
        /\ UNCHANGED <<chain, claims, holders, pc, won, told>>
     \/ /\ work[a] \in pow
        /\ Credited(a)
        /\ UNCHANGED pow
     \/ /\ "claim" \in LostWrites
        /\ pow' \in {pow, pow \cup {work[a]}}
        /\ Unavailable(a)
  /\ UNCHANGED <<round, credited, spool, refused, recorded, payees, node, up, crashes,
                 answers, jobTip, work, tries, removals, drain>>

\* recordShare's pipeline, whose exec() resolves with the errors of its commands.
ShareAdded(a) ==
  /\ Head_("share", a) /\ adding
  /\ \/ /\ round' = round \cup {work[a]}
        /\ credited' = [credited EXCEPT ![work[a]] = credited[work[a]] + 1]
     \/ "add" \in LostWrites /\ UNCHANGED <<round, credited>>
  /\ Credited(a)
  /\ UNCHANGED <<pow, spool, refused, recorded, payees, node, up, crashes,
                 answers, jobTip, work, tries, removals, drain>>

\* recordBlock: a block already accounted for changes nothing.
BlockRecorded(s) ==
  /\ Head_("block", s)
  /\ \/ /\ s \notin recorded
        /\ recorded' = recorded \cup {s}
        /\ payees' = [payees EXCEPT ![s] = round]
        /\ round' = {} /\ pow' = {}
     \/ /\ s \in recorded \/ "block" \in LostWrites
        /\ UNCHANGED <<recorded, payees, round, pow>>
  /\ chain' = Tail(chain)
  /\ UNCHANGED <<credited, spool, refused, node, up, crashes, jobs, share, adding, removals,
                 drain>>

-----------------------------------------------------------------------------
(* drainSpool.                                                              *)

DrainGoes(d, left, leaving) == drain' = [drain EXCEPT ![d] = [left |-> left, leaving |-> leaving]]

Busy(d) == drain[d] # NoDrain

\* At the start of the process, or the timer: a snapshot of the spool.  A drain
\* that cannot read it, or finds it empty, does nothing.
DrainStarts(d) ==
  /\ up /\ ~Busy(d) /\ spool # {}
  /\ Len(chain) <= MaxChain
  /\ DrainGoes(d, spool, {})
  /\ UNCHANGED <<redis, node, up, crashes, jobs, share, acct, removals>>

\* Mutant: a recovered block is settled without a payout.
Recovered_Silent(v) == FALSE

\* The verdicts whose block is announced for payout.
Recovered(v) == v \in {"accepted", "already"}

\* Mutant: a drain gives up on an entry that nobody answered for.
DrainVerdict_Drops(d, s, v) ==
  /\ up /\ drain[d].leaving = {} /\ s \in drain[d].left
  /\ Offered(s, v)
  /\ chain' = IF Recovered(v) THEN Append(chain, <<"block", s>>) ELSE chain
  /\ spool' = spool \ {s} /\ DrainGoes(d, drain[d].left \ {s}, {})
  /\ UNCHANGED <<round, pow, credited, refused, recorded, payees, up, crashes, jobs, share,
                 adding, removals>>

\* Mutant: an entry the node already has stays for the next drain, for ever.
DrainVerdict_Keeps(d, s, v) ==
  /\ up /\ drain[d].leaving = {} /\ s \in drain[d].left
  /\ Offered(s, v)
  /\ chain' = IF v = "accepted" THEN Append(chain, <<"block", s>>) ELSE chain
  /\ spool' = IF v = "accepted" THEN spool \ {s} ELSE spool
  /\ DrainGoes(d, drain[d].left \ {s}, {})
  /\ UNCHANGED <<round, pow, credited, refused, recorded, payees, up, crashes, jobs, share,
                 adding, removals>>

\* The next entry has been offered.  The drain waits for its _unspool, and a
\* failure there ends the drain.
DrainVerdict(d, s, v) ==
  /\ up /\ drain[d].leaving = {} /\ s \in drain[d].left
  /\ Offered(s, v)
  /\ chain' = IF Recovered(v) THEN Append(chain, <<"block", s>>) ELSE chain
  /\ LET rest == drain[d].left \ {s} IN
     \/ /\ v \in {"accepted", "already"}
        /\ spool' = spool \ {s} /\ DrainGoes(d, rest, {})
     \/ /\ v = "refused"
        /\ DrainGoes(d, rest, IF s \in spool THEN {<<s, "keep">>} ELSE {})
        /\ UNCHANGED spool
     \/ v = "unanswered" /\ DrainGoes(d, rest, {}) /\ UNCHANGED spool
     \/ /\ (IF v = "refused" THEN "move" ELSE "unspool") \in LostWrites /\ v # "unanswered"
        /\ DrainGoes(d, {}, {}) /\ UNCHANGED spool
  /\ UNCHANGED <<round, pow, credited, refused, recorded, payees, up, crashes, jobs, share,
                 adding, removals>>

\* The awaited _unspool of a refused block.
DrainRemoves(d, s, step) ==
  /\ up /\ drain[d].leaving = {<<s, step>>}
  /\ \/ Moves(s, step) /\ DrainGoes(d, drain[d].left, Onward(s, step))
     \/ "move" \in LostWrites /\ DrainGoes(d, {}, {}) /\ UNCHANGED <<spool, refused>>
  /\ UNCHANGED <<round, pow, credited, recorded, payees, node, up, crashes, jobs, share,
                 acct, removals>>

-----------------------------------------------------------------------------
(* The pool process dies between any two steps, and start()s again.         *)

\* Blocks a submitblock has been sent for.
OnTheWire == {work[a] : a \in {b \in Attempts : pc[b] = "offer"}}
               \cup UNION {drain[d].left : d \in {e \in Drains : drain[e].leaving = {}}}

\* The node may still execute a call that was on its way.
Crash ==
  /\ up /\ crashes < MaxCrashes
  /\ up' = FALSE /\ crashes' = crashes + 1
  /\ answers' = <<>> /\ claims' = {} /\ holders' = {}
  /\ pc' = [a \in Attempts |-> IF pc[a] = "new" THEN "new" ELSE "done"]
  /\ chain' = <<>> /\ adding' = FALSE /\ removals' = {}
  /\ drain' = [d \in Drains |-> NoDrain]
  /\ UNCHANGED looked
  /\ \/ UNCHANGED node
     \/ \E s \in OnTheWire : Takes(s)
  /\ UNCHANGED <<redis, jobTip, work, tries, won, told>>

Restart ==
  /\ ~up
  /\ up' = TRUE
  /\ NewTip(tip)
  /\ UNCHANGED <<redis, node, crashes, answers, share, acct, removals, drain>>

-----------------------------------------------------------------------------

ShareSteps(a) ==
  \/ HashRejected(a) \/ Hashed(a) \/ Retry(a)
  \/ \E v \in Verdicts(work[a]) : Verdict(a, v)

ChainSteps == \/ \E a \in Attempts : ShareChecked(a) \/ ShareAdded(a)
              \/ \E s \in Solves : BlockRecorded(s)

DrainSteps(d) ==
  \/ DrainStarts(d)
  \/ \E s \in Solves : \/ \E v \in Verdicts(s) : DrainVerdict(d, s, v)
                       \/ \E step \in {"keep", "drop"} : DrainRemoves(d, s, step)

Next ==
  \/ Rival \/ Poll \/ Crash \/ Restart
  \/ \E i \in 1..MaxPolls : Template(i)
  \/ \E a \in Attempts, w \in Works : Submit(a, w)
  \/ \E a \in Attempts : ShareSteps(a)
  \/ \E s \in Solves, step \in {"keep", "drop"} : Removes(s, step)
  \/ ChainSteps
  \/ \E d \in Drains : DrainSteps(d)

Spec == Init /\ [][Next]_vars

(* The event loop runs what is ready and every await returns; the timer     *)
(* starts drains; a block offered again and again is answered one day.      *)
Fairness ==
  /\ WF_vars(Restart) /\ WF_vars(ChainSteps)
  /\ \A a \in Attempts : WF_vars(ShareSteps(a))
  /\ \A d \in Drains : WF_vars(DrainSteps(d))
  /\ \A s \in Solves : SF_vars(\E d \in Drains : DrainVerdict(d, s, Says(s)))

FairSpec == Spec /\ Fairness

-----------------------------------------------------------------------------
(* Properties.                                                              *)

\* One proof of work is credited once, whichever attempts and jobs carry it and
\* however often the round closes meanwhile (the claims and the SADD).
OneCreditPerWork == \A w \in Works : credited[w] <= 1

\* A share answered `valid` is in a round (processShare records it first).
ToldIsCredited == \A w \in told : credited[w] >= 1

\* A block in the hands of the running process, on its way to recordBlock.
InHand(s) ==
  \/ \E a \in Attempts : /\ work[a] = s
                         /\ pc[a] = "offer" \/ (pc[a] = "record" /\ won[a])
  \/ <<"block", s>> \in ToSet(chain)

\* A block of ours on the chain is recorded, spooled, or on its way.
NoBlockForgotten == \A s \in onChain : s \in recorded \cup spool \/ InHand(s)

\* A block the node has and never answered for is in the spool, whatever crashed
\* (_submitBlock writes it down before it offers it).
UnansweredIsSpooled == blocks \ looked \subseteq spool

\* What leaves the spool has been looked at by a node (drainSpool and _unspool
\* never give up on silence), and a refused block leaves it for the refused
\* blocks, never for nowhere.
RefusedIsKept ==
  [][/\ spool \ spool' \subseteq looked'
     /\ (spool \ spool') \cap Bad \subseteq refused]_vars

\* Every share is answered, whatever fails on the way (the accounting chain
\* outlives a failed task).
EveryShareIsAnswered == \A a \in Attempts : pc[a] # "new" ~> pc[a] = "done"

\* A spooled block is settled once the node answers.
SpoolDrains == \A s \in Solves : s \in spool ~> s \notin spool

=============================================================================
