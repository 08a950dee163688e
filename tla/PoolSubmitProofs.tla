-------------------------- MODULE PoolSubmitProofs --------------------------
(***************************************************************************)
(* Share submission, for any shares, blocks, drains, templates and         *)
(* retries.  The accounting chain stays in order and a block leaves the    *)
(* spool only after an answer whatever crashes and whatever is rejected;   *)
(* the rest is proved of the process between two crashes: a work is        *)
(* credited once, a share answered `valid` is in a round, and a block of   *)
(* ours on the chain is recorded or on its way to recordBlock.             *)
(*                                                                         *)
(* An assumption of a theorem names what the promise is not made against.  *)
(* A lost answer of the node forgets a block (MCPoolSubmitSilent.cfg), and *)
(* the restart of a pool, which starts with no claims, or templates that   *)
(* overtake each other let a work be credited in two rounds.               *)
(***************************************************************************)
EXTENDS PoolSubmit, SequenceTheorems, TLAPS

\* The awaits of processShare an attempt can be suspended at.
Steps == {"new", "hash", "offer", "record", "done"}

-----------------------------------------------------------------------------
(* The invariants.                                                          *)

\* What the accounting chain may hold, and a removal of the spool.
Tasks == ({"share"} \X Attempts) \cup ({"block"} \X Solves)
Entries == Solves \X {"keep", "drop"}

\* Every variable has its type, and only a work that solves a block is offered.
TypeOK ==
  /\ round \subseteq Works /\ pow \subseteq Works /\ credited \in [Works -> Nat]
  /\ spool \subseteq Solves /\ refused \subseteq Solves /\ recorded \subseteq Solves
  /\ payees \in [Solves -> SUBSET Works]
  /\ tip \in Nat /\ blocks \subseteq Solves
  /\ onChain \subseteq Solves /\ looked \subseteq Solves
  /\ up \in BOOLEAN /\ crashes \in Nat
  /\ answers \in Seq(Nat) /\ jobTip \in Nat
  /\ claims \subseteq Works /\ holders \subseteq Attempts
  /\ pc \in [Attempts -> Steps]
  /\ work \in [Attempts -> Works \cup {CHOOSE w \in Works : TRUE}]
  /\ tries \in [Attempts -> Nat] /\ won \in [Attempts -> BOOLEAN] /\ told \subseteq Works
  /\ chain \in Seq(Tasks) /\ adding \in BOOLEAN /\ removals \subseteq Entries
  /\ drain \in [Drains -> [left : SUBSET Solves, leaving : SUBSET Entries]]
  /\ \A a \in Attempts : pc[a] # "new" => work[a] \in Works
  /\ \A a \in Attempts : pc[a] = "offer" => work[a] \in Solves
  /\ \A a \in Attempts : won[a] => work[a] \in Solves /\ pc[a] \in {"record", "done"}

\* A share stands in the accounting chain once, while it waits to be recorded, and
\* the SADD of the one at the head is in round:pow.
InLine ==
  /\ \A a \in Attempts, i \in 1..Len(chain) : chain[i] = <<"share", a>> => pc[a] = "record"
  /\ \A a \in Attempts, i, j \in 1..Len(chain) :
       chain[i] = <<"share", a>> /\ chain[j] = <<"share", a>> => i = j
  /\ adding => chain # <<>> /\ \E a \in Attempts : Head(chain) = <<"share", a>> /\ work[a] \in pow

\* What holds whatever crashes, is lost or is rejected.
IInv == TypeOK /\ InLine

\* An entry on its way out of the spool was looked at, and copied before it goes.
Seen ==
  /\ \A s \in Solves, step \in {"keep", "drop"} :
       <<s, step>> \in removals => s \in looked /\ (step = "drop" => s \in refused)
  /\ \A d \in Drains, s \in Solves, step \in {"keep", "drop"} :
       <<s, step>> \in drain[d].leaving => s \in looked /\ (step = "drop" => s \in refused)

\* What may reach the node is written down, or the node has looked at it.
WrittenDown ==
  /\ \A a \in Attempts : pc[a] = "offer" => work[a] \in spool \cup looked
  /\ \A d \in Drains : drain[d].left \subseteq spool \cup looked
  /\ UnansweredIsSpooled

\* The claim of such an attempt is still needed.
Live(a) == pc[a] \in {"hash", "offer", "record"}

\* The templates come in order, and no job is older than the works in hand.
InOrder ==
  /\ up /\ crashes = 0 /\ jobTip <= tip
  /\ \A i \in 1..Len(answers) : jobTip <= answers[i] /\ answers[i] <= tip
  /\ \A i, j \in 1..Len(answers) : i <= j => answers[i] <= answers[j]
  /\ \A a \in Attempts : pc[a] # "new" => TipOf[work[a]] <= jobTip
  /\ \A w \in Works : credited[w] > 0 => TipOf[w] <= jobTip

\* A work in hand or credited is claimed for as long as its job is known.
Claimed ==
  /\ \A a \in Attempts :
       Live(a) /\ TipOf[work[a]] = jobTip => a \in holders /\ work[a] \in claims
  /\ \A w \in Works : credited[w] > 0 /\ TipOf[w] = jobTip => w \in claims
  /\ \A a \in Attempts : Live(a) => credited[work[a]] = 0
  /\ \A a, b \in Attempts : Live(a) /\ Live(b) /\ work[a] = work[b] => a = b
  /\ OneCreditPerWork

\* The proofs of work of the round are those credited, and the one at the head.
Counted ==
  /\ up /\ crashes = 0
  /\ \A w \in pow : \/ credited[w] >= 1
                    \/ adding /\ \E a \in Attempts : Head(chain) = <<"share", a>> /\ work[a] = w
  /\ ToldIsCredited

\* A block of ours on the chain is recorded, or is on its way there.
Remembered ==
  /\ up /\ crashes = 0
  /\ \A s \in onChain :
       \/ s \in recorded
       \/ \E a \in Attempts : work[a] = s /\ pc[a] = "record" /\ won[a]
       \/ \E i \in 1..Len(chain) : chain[i] = <<"block", s>>

-----------------------------------------------------------------------------
(* The accounting chain as a sequence.                                      *)

\* A task joins the accounting chain at its end.
LEMMA Joins ==
  ASSUME NEW T, NEW q \in Seq(T), NEW t \in T
  PROVE  /\ Append(q, t) \in Seq(T) /\ Len(Append(q, t)) = Len(q) + 1
         /\ \A i \in 1..Len(q) : Append(q, t)[i] = q[i]
         /\ Append(q, t)[Len(q) + 1] = t
         /\ q # <<>> => Append(q, t) # <<>> /\ Head(Append(q, t)) = Head(q)
  OBVIOUS

\* The task at the head leaves.
LEMMA Leaves ==
  ASSUME NEW T, NEW q \in Seq(T), q # <<>>
  PROVE  /\ Tail(q) \in Seq(T) /\ Len(Tail(q)) = Len(q) - 1 /\ Len(q) \in Nat
         /\ \A i \in 1..Len(Tail(q)) : Tail(q)[i] = q[i + 1]
         /\ Head(q) = q[1] /\ 1 \in 1..Len(q)
  OBVIOUS

\* The share at the head is recorded, and its block, if it won one, joins at the end.
LEMMA CreditLine ==
  ASSUME TypeOK, NEW a \in Attempts, chain # <<>>, Head(chain) = <<"share", a>>,
         pc[a] = "record", Credited(a)
  PROVE  /\ chain' \in Seq(Tasks) /\ Len(chain) \in Nat /\ Len(chain) > 0
         /\ chain[1] = <<"share", a>>
         /\ \/ ~won[a] /\ Len(chain') = Len(chain) - 1
            \/ /\ won[a] /\ Len(chain') = Len(chain)
               /\ chain'[Len(chain')] = <<"block", work[a]>>
         /\ \A i \in 1..(Len(chain) - 1) : chain'[i] = chain[i + 1]
<1>1. /\ Tail(chain) \in Seq(Tasks) /\ Len(Tail(chain)) = Len(chain) - 1 /\ Len(chain) \in Nat
      /\ \A i \in 1..Len(Tail(chain)) : Tail(chain)[i] = chain[i + 1]
      /\ Head(chain) = chain[1] /\ 1 \in 1..Len(chain)
  BY Leaves DEF TypeOK
<1>2. CASE won[a]
  <2>1. <<"block", work[a]>> \in Tasks
    BY <1>2 DEF TypeOK, Tasks
  <2>2. chain' = Tail(chain) \o <<<<"block", work[a]>>>>
    BY <1>2 DEF Credited
  <2>3. chain' = Append(Tail(chain), <<"block", work[a]>>)
    BY <1>1, <2>1, <2>2, AppendIsConcat
  <2> HIDE DEF Tasks
  <2> QED
    BY <1>1, <1>2, <2>1, <2>3, Joins
<1>3. CASE ~won[a]
  <2>1. chain' = Tail(chain)
    BY <1>1, <1>3, ConcatEmptySeq DEF Credited
  <2>2. Len(chain') = Len(chain) - 1 /\ Len(chain) > 0 /\ chain[1] = <<"share", a>>
    BY <1>1, <2>1
  <2>3. \A i \in 1..(Len(chain) - 1) : chain'[i] = chain[i + 1]
    BY <1>1, <2>1
  <2> QED
    BY <1>1, <1>3, <2>1, <2>2, <2>3
<1> QED
  BY <1>2, <1>3

\* A template answer taken out of those on their way.
LEMMA TemplateTakes ==
  ASSUME TypeOK, NEW i, Template(i)
  PROVE  answers' \in Seq(Nat) /\ answers[i] \in Nat /\ i \in 1..Len(answers)
<1>1. /\ i \in 1..Len(answers)
      /\ answers' = SubSeq(answers, 1, i - 1) \o SubSeq(answers, i + 1, Len(answers))
  BY DEF Template, RemoveAt
<1>2. answers[i] \in Nat /\ Len(answers) \in Nat
  BY <1>1 DEF TypeOK
<1>3. SubSeq(answers, 1, i - 1) \in Seq(Nat) /\ SubSeq(answers, i + 1, Len(answers)) \in Seq(Nat)
  BY <1>1, <1>2, SubSeqProperties DEF TypeOK
<1> QED
  BY <1>1, <1>2, <1>3, ConcatProperties

-----------------------------------------------------------------------------
(* Types.                                                                   *)

\* What an offer does to the node.
LEMMA OfferType ==
  ASSUME TypeOK, NEW s \in Solves, NEW v, Offered(s, v)
  PROVE  /\ tip' \in Nat /\ tip <= tip'
         /\ blocks' \subseteq Solves /\ onChain' \subseteq Solves /\ looked' \subseteq Solves
         /\ looked \subseteq looked' /\ blocks \subseteq blocks'
         /\ blocks' \ looked' \subseteq (blocks \ looked) \cup {s}
         /\ v # "unanswered" => v = Says(s) /\ s \in looked'
<1>1. v # "unanswered" => v = Says(s) /\ s \in looked'
  BY DEF Offered, Verdicts
<1>2. CASE UNCHANGED node
  BY <1>1, <1>2 DEF TypeOK, node
<1>3. CASE Takes(s) /\ looked' \in {looked, looked \cup {s}}
  <2>1. tip' \in Nat /\ tip <= tip'
    BY <1>3 DEF TypeOK, Takes
  <2>2. /\ blocks' \subseteq blocks \cup {s} /\ blocks \subseteq blocks'
        /\ onChain' \subseteq onChain \cup {s}
    BY <1>3 DEF Takes
  <2> QED
    BY <1>1, <1>3, <2>1, <2>2 DEF TypeOK
<1> QED
  BY <1>2, <1>3 DEF Offered

\* A recorded share keeps the types.
LEMMA CreditType ==
  ASSUME IInv, NEW a \in Attempts, chain # <<>>, Head(chain) = <<"share", a>>, Credited(a)
  PROVE  /\ told' \subseteq Works /\ pc' \in [Attempts -> Steps] /\ chain' \in Seq(Tasks)
         /\ adding' = FALSE /\ UNCHANGED <<claims, holders, won>> /\ pc[a] = "record"
         /\ pc'[a] = "done" /\ \A b \in Attempts \ {a} : pc'[b] = pc[b]
<1>1. chain[1] = <<"share", a>> /\ 1 \in 1..Len(chain)
  BY Leaves DEF IInv, TypeOK
<1>2. pc[a] = "record"
  BY <1>1 DEF IInv, InLine
<1>3. chain' \in Seq(Tasks)
  BY <1>2, CreditLine DEF IInv
<1> QED
  BY <1>2, <1>3 DEF IInv, TypeOK, Credited, Steps

\* A share that could not be recorded keeps the types, and its attempt is over.
LEMMA UnavailableType ==
  ASSUME IInv, NEW a \in Attempts, chain # <<>>, Head(chain) = <<"share", a>>, Unavailable(a)
  PROVE  /\ claims' \subseteq Works /\ holders' \subseteq Attempts /\ chain' = Tail(chain)
         /\ pc' \in [Attempts -> Steps] /\ chain' \in Seq(Tasks) /\ pc[a] = "record"
         /\ pc'[a] = "done" /\ \A b \in Attempts \ {a} : pc'[b] = pc[b]
         /\ UNCHANGED <<won, told, adding>>
<1>1. chain[1] = <<"share", a>> /\ 1 \in 1..Len(chain) /\ Tail(chain) \in Seq(Tasks)
  BY Leaves DEF IInv, TypeOK
<1>2. pc[a] = "record"
  BY <1>1 DEF IInv, InLine
<1> QED
  BY <1>1, <1>2 DEF IInv, TypeOK, Unavailable, Release, Steps

\* Every step of the pool, the node and the crashes keeps the types.
LEMMA TypeStep ==
  ASSUME IInv, [Next]_vars
  PROVE  TypeOK'
<1> USE DEF IInv
<1>1. CASE UNCHANGED vars
  BY <1>1 DEF TypeOK, vars, redis, node, jobs, share, acct
<1>2. CASE Rival
  BY <1>2 DEF TypeOK, Rival, redis, jobs, share, acct
<1>3. CASE Poll
  <2>1. answers' \in Seq(Nat)
    BY <1>3 DEF TypeOK, Poll
  <2> QED
    BY <1>3, <2>1 DEF TypeOK, Poll, redis, node, share, acct
<1>4. ASSUME NEW i \in 1..MaxPolls, Template(i) PROVE TypeOK'
  <2>1. answers' \in Seq(Nat) /\ answers[i] \in Nat
    BY <1>4, TemplateTakes
  <2> QED
    BY <1>4, <2>1 DEF TypeOK, Template, NewTip, redis, node, share, acct
<1>5. ASSUME NEW a \in Attempts, NEW w \in Works, Submit(a, w) PROVE TypeOK'
  BY <1>5 DEF TypeOK, Submit, redis, node, acct, Steps
<1>6. ASSUME NEW a \in Attempts, HashRejected(a) PROVE TypeOK'
  BY <1>6 DEF TypeOK, HashRejected, Release, redis, node, acct, Steps
<1>7. ASSUME NEW a \in Attempts, Hashed(a) PROVE TypeOK'
  <2>1. spool' \subseteq Solves
    BY <1>7 DEF TypeOK, Hashed
  <2>2. chain' \in Seq(Tasks)
    <3>1. <<"share", a>> \in Tasks
      BY DEF Tasks
    <3>2. chain \in Seq(Tasks) /\ (chain' = chain \/ chain' = Append(chain, <<"share", a>>))
      BY <1>7 DEF TypeOK, Hashed
    <3> QED
      BY <3>1, <3>2, Joins, SMTT(60)
  <2>3. /\ pc' \in [Attempts -> Steps] /\ UNCHANGED <<work, won>>
        /\ \A b \in Attempts : /\ pc'[b] # "new" => pc[b] # "new"
                               /\ pc'[b] = "offer" => pc[b] = "offer" \/ work[b] \in Solves
    BY <1>7 DEF TypeOK, Hashed, Steps, jobs
  <2>4. \A b \in Attempts : won'[b] => work'[b] \in Solves /\ pc'[b] \in {"record", "done"}
    BY <1>7 DEF TypeOK, Hashed, Steps, jobs
  <2> QED
    BY <1>7, <2>1, <2>2, <2>3, <2>4 DEF TypeOK, Hashed, node, jobs

<1>8. ASSUME NEW a \in Attempts, Retry(a) PROVE TypeOK'
  <2>1. work[a] \in Solves
    BY <1>8 DEF TypeOK, Retry
  <2>2. /\ tip' \in Nat /\ blocks' \subseteq Solves /\ onChain' \subseteq Solves
        /\ looked' \subseteq Solves
    BY <1>8, <2>1, OfferType DEF Retry
  <2> QED
    BY <1>8, <2>2 DEF TypeOK, Retry, redis, jobs, acct
<1>9. ASSUME NEW a \in Attempts, NEW v \in Verdicts(work[a]), Verdict(a, v) PROVE TypeOK'
  <2>1. work[a] \in Solves /\ pc[a] = "offer"
    BY <1>9 DEF TypeOK, Verdict
  <2>2. /\ tip' \in Nat /\ blocks' \subseteq Solves /\ onChain' \subseteq Solves
        /\ looked' \subseteq Solves
    BY <1>9, <2>1, OfferType DEF Verdict
  <2>3. spool' \subseteq Solves /\ removals' \subseteq Entries
    BY <1>9, <2>1 DEF TypeOK, Verdict, Unspool, Entries
  <2>4. chain' \in Seq(Tasks)
    <3>1. <<"share", a>> \in Tasks
      BY DEF Tasks
    <3>2. chain \in Seq(Tasks) /\ chain' = Append(chain, <<"share", a>>)
      BY <1>9 DEF TypeOK, Verdict
    <3> QED
      BY <3>1, <3>2, Joins
  <2>5. /\ pc' = [pc EXCEPT ![a] = "record"] /\ won' = [won EXCEPT ![a] = (v = "accepted")]
        /\ UNCHANGED work
    BY <1>9 DEF Verdict
  <2>6. /\ pc' \in [Attempts -> Steps] /\ won' \in [Attempts -> BOOLEAN]
        /\ \A b \in Attempts : /\ pc'[b] # "new" => pc[b] # "new"
                               /\ pc'[b] = "offer" => pc[b] = "offer"
        /\ \A b \in Attempts : won'[b] => work'[b] \in Solves /\ pc'[b] \in {"record", "done"}
    BY <2>1, <2>5 DEF TypeOK, Steps
  <2> QED
    BY <1>9, <2>2, <2>3, <2>4, <2>5, <2>6 DEF TypeOK, Verdict, jobs
<1>10. ASSUME NEW s \in Solves, NEW step \in {"keep", "drop"}, Removes(s, step) PROVE TypeOK'
  <2>1. spool' \subseteq Solves /\ refused' \subseteq Solves
    BY <1>10 DEF TypeOK, Removes, Moves
  <2>2. removals' \subseteq Entries
    BY <1>10 DEF TypeOK, Removes, Onward, Entries
  <2> QED
    BY <1>10, <2>1, <2>2 DEF TypeOK, Removes, node, jobs, share, acct
<1>11. ASSUME NEW a \in Attempts, ShareChecked(a) PROVE TypeOK'
  <2>1. chain # <<>> /\ Head(chain) = <<"share", a>> /\ ~adding
    BY <1>11 DEF ShareChecked, Head_
  <2>2. /\ pow' \subseteq Works
        /\ \/ UNCHANGED <<chain, claims, holders, pc, won, told>> /\ adding' = TRUE
           \/ Credited(a)
           \/ Unavailable(a)
    <3>1. work[a] \in Works
      BY <2>1, Leaves DEF TypeOK, InLine
    <3> QED
      BY <1>11, <3>1 DEF TypeOK, ShareChecked
  <2>3. /\ claims' \subseteq Works /\ holders' \subseteq Attempts /\ told' \subseteq Works
        /\ chain' \in Seq(Tasks) /\ adding' \in BOOLEAN /\ pc' \in [Attempts -> Steps]
        /\ UNCHANGED <<won, work>>
        /\ \A b \in Attempts : pc'[b] = pc[b] \/ (pc[b] = "record" /\ pc'[b] = "done")
    BY <1>11, <2>1, <2>2, CreditType, UnavailableType DEF TypeOK, ShareChecked
  <2> QED
    BY <1>11, <2>2, <2>3 DEF TypeOK, ShareChecked, node
<1>12. ASSUME NEW a \in Attempts, ShareAdded(a) PROVE TypeOK'
  <2>1. chain # <<>> /\ Head(chain) = <<"share", a>> /\ Credited(a)
    BY <1>12 DEF ShareAdded, Head_
  <2>2. /\ told' \subseteq Works
        /\ chain' \in Seq(Tasks) /\ adding' \in BOOLEAN /\ pc' \in [Attempts -> Steps]
        /\ UNCHANGED <<won, work, claims, holders>> /\ pc[a] = "record"
        /\ \A b \in Attempts : pc'[b] = pc[b] \/ (pc[b] = "record" /\ pc'[b] = "done")
    BY <1>12, <2>1, CreditType DEF ShareAdded
  <2>3. round' \subseteq Works /\ credited' \in [Works -> Nat]
    BY <1>12, <2>2 DEF TypeOK, ShareAdded
  <2> QED
    BY <1>12, <2>2, <2>3 DEF TypeOK, ShareAdded, node
<1>13. ASSUME NEW s \in Solves, BlockRecorded(s) PROVE TypeOK'
  <2>1. chain' \in Seq(Tasks)
    BY <1>13, Leaves DEF TypeOK, BlockRecorded, Head_
  <2> QED
    BY <1>13, <2>1 DEF TypeOK, BlockRecorded, node, jobs, share
<1>14. ASSUME NEW d \in Drains, DrainStarts(d) PROVE TypeOK'
  BY <1>14 DEF TypeOK, DrainStarts, DrainGoes, redis, node, jobs, share, acct
<1>15. ASSUME NEW d \in Drains, NEW s \in Solves, NEW v \in Verdicts(s), DrainVerdict(d, s, v)
       PROVE  TypeOK'
  <2>1. /\ tip' \in Nat /\ blocks' \subseteq Solves /\ onChain' \subseteq Solves
        /\ looked' \subseteq Solves
    BY <1>15, OfferType DEF DrainVerdict
  <2>2. chain' \in Seq(Tasks)
    <3>1. <<"block", s>> \in Tasks
      BY DEF Tasks
    <3>2. chain \in Seq(Tasks) /\ (chain' = chain \/ chain' = Append(chain, <<"block", s>>))
      BY <1>15 DEF TypeOK, DrainVerdict
    <3>3. Append(chain, <<"block", s>>) \in Seq(Tasks)
      BY <3>1, <3>2, Joins
    <3> QED
      BY <3>2, <3>3
  <2>3. spool' \subseteq Solves
    BY <1>15 DEF TypeOK, DrainVerdict
  <2>4. \E left \in SUBSET Solves, leaving \in SUBSET Entries : DrainGoes(d, left, leaving)
    <3>1. drain[d].left \ {s} \subseteq Solves /\ {<<s, "keep">>} \subseteq Entries
      BY DEF TypeOK, Entries
    <3> QED
      BY <1>15, <3>1 DEF DrainVerdict
  <2>5. drain' \in [Drains -> [left : SUBSET Solves, leaving : SUBSET Entries]]
    BY <2>4 DEF TypeOK, DrainGoes
  <2> QED
    BY <1>15, <2>1, <2>2, <2>3, <2>5 DEF TypeOK, DrainVerdict, jobs, share
<1>16. ASSUME NEW d \in Drains, NEW s \in Solves, NEW step \in {"keep", "drop"},
              DrainRemoves(d, s, step)
       PROVE  TypeOK'
  <2>1. spool' \subseteq Solves /\ refused' \subseteq Solves
    BY <1>16 DEF TypeOK, DrainRemoves, Moves
  <2>2. \E left \in SUBSET Solves, leaving \in SUBSET Entries : DrainGoes(d, left, leaving)
    <3>1. drain[d].left \subseteq Solves /\ {<<s, "drop">>} \subseteq Entries
      BY DEF TypeOK, Entries
    <3> QED
      BY <1>16, <3>1 DEF DrainRemoves, Onward
  <2>3. drain' \in [Drains -> [left : SUBSET Solves, leaving : SUBSET Entries]]
    BY <2>2 DEF TypeOK, DrainGoes
  <2> QED
    BY <1>16, <2>1, <2>3 DEF TypeOK, DrainRemoves, node, jobs, share, acct
<1>17. CASE Crash
  <2>1. /\ tip' \in Nat /\ blocks' \subseteq Solves /\ onChain' \subseteq Solves
        /\ looked' \subseteq Solves
    <3>1. OnTheWire \subseteq Solves
      BY DEF TypeOK, OnTheWire
    <3> QED
      BY <1>17, <3>1 DEF TypeOK, Crash, Takes, node
  <2>2. drain' \in [Drains -> [left : SUBSET Solves, leaving : SUBSET Entries]]
    BY <1>17 DEF Crash, NoDrain
  <2>3. /\ pc' \in [Attempts -> Steps] /\ UNCHANGED <<work, won>>
        /\ \A b \in Attempts : /\ pc'[b] # "new" => pc[b] # "new" /\ pc'[b] = "done"
                               /\ pc[b] # "new" => pc'[b] = "done"
    BY <1>17 DEF TypeOK, Crash, Steps
  <2>4. /\ up' = FALSE /\ crashes' = crashes + 1 /\ adding' = FALSE
        /\ claims' = {} /\ holders' = {} /\ removals' = {}
    BY <1>17 DEF Crash
  <2>7. UNCHANGED <<round, pow, credited, spool, refused, recorded, payees, jobTip, tries, told>>
    BY <1>17 DEF Crash, redis
  <2>8. up' \in BOOLEAN
    BY <2>4
  <2>9. adding' \in BOOLEAN
    BY <2>4
  <2>10. crashes' \in Nat
    BY <2>4 DEF TypeOK
  <2>6. answers' \in Seq(Nat) /\ chain' \in Seq(Tasks)
    BY <1>17, EmptySeq DEF Crash
  <2>5. /\ \A b \in Attempts : pc'[b] # "new" => work'[b] \in Works
        /\ \A b \in Attempts : pc'[b] = "offer" => work'[b] \in Solves
        /\ \A b \in Attempts : won'[b] => work'[b] \in Solves /\ pc'[b] \in {"record", "done"}
    BY <2>3 DEF TypeOK
  <2> QED
    BY <2>1, <2>2, <2>3, <2>4, <2>5, <2>6, <2>7, <2>8, <2>9, <2>10 DEF TypeOK
<1>18. CASE Restart
  BY <1>18 DEF TypeOK, Restart, NewTip, redis, node, share, acct
<1> QED
  BY <1>1, <1>2, <1>3, <1>4, <1>5, <1>6, <1>7, <1>8, <1>9, <1>10, <1>11, <1>12, <1>13, <1>14,
     <1>15, <1>16, <1>17, <1>18 DEF Next, ShareSteps, ChainSteps, DrainSteps

-----------------------------------------------------------------------------
(* The accounting chain.                                                    *)

\* A chain that no share joins or leaves, and attempts that do not stop waiting.
LEMMA LineStands ==
  ASSUME IInv, UNCHANGED <<chain, adding, pow, work>>,
         \A a \in Attempts : pc[a] = "record" => pc'[a] = "record"
  PROVE  InLine'
  BY DEF IInv, InLine

\* A share that was not in the chain joins it at its end.
LEMMA LineGrows ==
  ASSUME IInv, NEW a \in Attempts, pc[a] # "record", chain' = Append(chain, <<"share", a>>),
         pc' = [pc EXCEPT ![a] = "record"], UNCHANGED <<adding, pow, work>>
  PROVE  InLine'
<1>1. /\ TypeOK /\ InLine /\ Len(chain) \in Nat
      /\ \A i \in 1..Len(chain) : chain[i] # <<"share", a>>
  BY LenProperties DEF IInv, TypeOK, InLine
<1>2. /\ Len(chain') = Len(chain) + 1 /\ chain'[Len(chain) + 1] = <<"share", a>>
      /\ \A i \in 1..Len(chain) : chain'[i] = chain[i]
      /\ chain # <<>> => chain' # <<>> /\ Head(chain') = Head(chain)
  <2>1. <<"share", a>> \in Tasks /\ chain \in Seq(Tasks)
    BY <1>1 DEF TypeOK, Tasks
  <2> HIDE DEF Tasks
  <2> QED
    BY <2>1, Joins
<1>3. \A b \in Attempts, i \in 1..Len(chain') :
        chain'[i] = <<"share", b>> =>
          IF i = Len(chain) + 1 THEN b = a
          ELSE i \in 1..Len(chain) /\ b # a /\ chain[i] = <<"share", b>>
  BY <1>1, <1>2
<1>4. \A b \in Attempts : pc'[b] = IF b = a THEN "record" ELSE pc[b]
  BY <1>1 DEF TypeOK
<1>5. \A b \in Attempts, i \in 1..Len(chain') : chain'[i] = <<"share", b>> => pc'[b] = "record"
  BY <1>1, <1>3, <1>4 DEF InLine
<1>6. \A b \in Attempts, i, j \in 1..Len(chain') :
        chain'[i] = <<"share", b>> /\ chain'[j] = <<"share", b>> => i = j
  BY <1>1, <1>3 DEF InLine
<1>7. adding' => /\ chain' # <<>>
                 /\ \E b \in Attempts : Head(chain') = <<"share", b>> /\ work'[b] \in pow'
  BY <1>1, <1>2 DEF InLine
<1> QED
  BY <1>5, <1>6, <1>7 DEF InLine

\* The share at the head has left, and nothing is between its SADD and its pipeline.
LEMMA LineMoves ==
  ASSUME IInv, NEW a \in Attempts, chain # <<>>, Head(chain) = <<"share", a>>, adding' = FALSE,
         \A b \in Attempts \ {a} : pc'[b] = pc[b],
         chain' \in Seq(Tasks),
         \/ Len(chain') = Len(chain) - 1
         \/ /\ Len(chain') = Len(chain)
            /\ \E s \in Solves : chain'[Len(chain')] = <<"block", s>>,
         \A i \in 1..(Len(chain) - 1) : chain'[i] = chain[i + 1]
  PROVE  InLine'
<1>1. /\ InLine /\ Len(chain) \in Nat /\ chain[1] = <<"share", a>> /\ 1 \in 1..Len(chain)
  BY Leaves DEF IInv, TypeOK
<1>2. \A b \in Attempts, i \in 1..Len(chain') :
        chain'[i] = <<"share", b>> =>
          i \in 1..(Len(chain) - 1) /\ chain[i + 1] = <<"share", b>>
  <2> SUFFICES ASSUME NEW b \in Attempts, NEW i \in 1..Len(chain'), chain'[i] = <<"share", b>>
               PROVE  i \in 1..(Len(chain) - 1) /\ chain[i + 1] = <<"share", b>>
    OBVIOUS
  <2>1. CASE i \in 1..(Len(chain) - 1)
    BY <2>1
  <2>2. CASE i \notin 1..(Len(chain) - 1)
    <3>1. i = Len(chain) /\ i = Len(chain')
      BY <1>1, <2>2
    <3>2. PICK s \in Solves : chain'[i] = <<"block", s>>
      BY <1>1, <3>1
    <3>3. <<"block", s>> # <<"share", b>>
      OBVIOUS
    <3> QED
      BY <3>2, <3>3
  <2> QED
    BY <2>1, <2>2
<1>3. \A b \in Attempts, i \in 1..(Len(chain) - 1) :
        chain[i + 1] = <<"share", b>> => b # a /\ i + 1 \in 1..Len(chain)
  BY <1>1 DEF InLine
<1>4. \A b \in Attempts, i \in 1..Len(chain') : chain'[i] = <<"share", b>> => pc'[b] = "record"
  BY <1>1, <1>2, <1>3, ZenonT(60) DEF InLine
<1>5. \A b \in Attempts, i, j \in 1..Len(chain') :
        chain'[i] = <<"share", b>> /\ chain'[j] = <<"share", b>> => i = j
  <2> SUFFICES ASSUME NEW b \in Attempts, NEW i \in 1..Len(chain'), NEW j \in 1..Len(chain'),
                      chain'[i] = <<"share", b>>, chain'[j] = <<"share", b>>
               PROVE  i = j
    OBVIOUS
  <2>1. /\ i + 1 \in 1..Len(chain) /\ chain[i + 1] = <<"share", b>>
        /\ j + 1 \in 1..Len(chain) /\ chain[j + 1] = <<"share", b>>
    BY <1>2, <1>3
  <2> QED
    BY <1>1, <2>1 DEF InLine
<1> QED
  BY <1>4, <1>5 DEF InLine

\* A share that is credited leaves the line, and its block joins it.
LEMMA LineCredits ==
  ASSUME IInv, NEW a \in Attempts, chain # <<>>, Head(chain) = <<"share", a>>, Credited(a)
  PROVE  InLine'
<1>1. /\ pc[a] = "record" /\ adding' = FALSE /\ \A b \in Attempts \ {a} : pc'[b] = pc[b]
      /\ chain' \in Seq(Tasks)
  BY CreditType
<1>2. /\ Len(chain) \in Nat /\ Len(chain) > 0 /\ chain[1] = <<"share", a>>
      /\ \/ Len(chain') = Len(chain) - 1
         \/ /\ won[a] /\ Len(chain') = Len(chain)
            /\ chain'[Len(chain')] = <<"block", work[a]>>
      /\ \A i \in 1..(Len(chain) - 1) : chain'[i] = chain[i + 1]
  BY <1>1, CreditLine DEF IInv
<1>3. won[a] => work[a] \in Solves
  BY DEF IInv, TypeOK
<1>4. \/ Len(chain') = Len(chain) - 1
      \/ /\ Len(chain') = Len(chain)
         /\ \E s \in Solves : chain'[Len(chain')] = <<"block", s>>
  BY <1>2, <1>3
<1> QED
  BY <1>1, <1>2, <1>4, LineMoves

\* Every step keeps the accounting chain in line.
LEMMA LineStep ==
  ASSUME IInv, [Next]_vars
  PROVE  InLine'
<1>1. CASE \/ Rival \/ Poll \/ Restart
           \/ \E i \in 1..MaxPolls : Template(i)
           \/ \E a \in Attempts : Retry(a)
           \/ \E s \in Solves, step \in {"keep", "drop"} : Removes(s, step)
           \/ \E d \in Drains : DrainStarts(d)
           \/ \E d \in Drains, s \in Solves, step \in {"keep", "drop"} : DrainRemoves(d, s, step)
           \/ UNCHANGED vars
  <2>1. UNCHANGED <<chain, adding, pow, work, pc>>
    BY <1>1 DEF Rival, Poll, Restart, Template, Retry, Removes, DrainStarts, DrainRemoves,
      vars, redis,
        share, acct
  <2> QED
    BY <2>1, LineStands
<1>2. ASSUME NEW a \in Attempts, NEW w \in Works, Submit(a, w) PROVE InLine'
  <2>1. /\ \A b \in Attempts \ {a} : work'[b] = work[b]
        /\ \A b \in Attempts : pc[b] = "record" => pc'[b] = "record" /\ b # a
        /\ UNCHANGED <<chain, adding, pow>>
    BY <1>2 DEF IInv, TypeOK, Submit, redis, acct
  <2>2. \A b \in Attempts : chain # <<>> /\ Head(chain) = <<"share", b>> => pc[b] = "record"
    BY Leaves DEF IInv, TypeOK, InLine
  <2> QED
    BY <2>1, <2>2 DEF IInv, InLine
<1>3. ASSUME NEW a \in Attempts, HashRejected(a) PROVE InLine'
  <2>1. \A b \in Attempts : pc[b] = "record" => pc'[b] = "record"
    BY <1>3 DEF IInv, TypeOK, HashRejected
  <2> QED
    BY <1>3, <2>1, LineStands DEF HashRejected, acct, redis
<1>4. ASSUME NEW a \in Attempts, Hashed(a) PROVE InLine'
  <2>1. CASE pc' = [pc EXCEPT ![a] = "offer"] /\ UNCHANGED chain
    <3>1. \A b \in Attempts : pc[b] = "record" => pc'[b] = "record"
      BY <1>4, <2>1 DEF IInv, TypeOK, Hashed
    <3> QED
      BY <1>4, <2>1, <3>1, LineStands DEF Hashed
  <2>2. CASE pc' = [pc EXCEPT ![a] = "record"] /\ chain' = Append(chain, <<"share", a>>)
    BY <1>4, <2>2, LineGrows DEF Hashed
  <2> QED
    BY <1>4, <2>1, <2>2 DEF Hashed
<1>5. ASSUME NEW a \in Attempts, NEW v, Verdict(a, v) PROVE InLine'
  BY <1>5, LineGrows DEF Verdict
<1>6. ASSUME NEW a \in Attempts, ShareChecked(a) PROVE InLine'
  <2>1. /\ chain # <<>> /\ Head(chain) = <<"share", a>> /\ ~adding /\ UNCHANGED work
        /\ Len(chain) \in Nat /\ chain[1] = <<"share", a>> /\ 1 \in 1..Len(chain)
    BY <1>6, Leaves DEF ShareChecked, Head_, IInv, TypeOK
  <2>2. CASE pow' = pow \cup {work[a]} /\ UNCHANGED <<chain, pc>>
    BY <2>1, <2>2 DEF IInv, InLine
  <2>3. CASE Credited(a)
    BY <2>1, <2>3, LineCredits
  <2>4. CASE Unavailable(a)
    <3>1. /\ chain' = Tail(chain) /\ chain' \in Seq(Tasks) /\ adding' = FALSE
          /\ \A b \in Attempts \ {a} : pc'[b] = pc[b]
      BY <2>1, <2>4, UnavailableType DEF IInv, TypeOK
    <3>2. /\ Len(chain') = Len(chain) - 1
          /\ \A i \in 1..(Len(chain) - 1) : chain'[i] = chain[i + 1]
      BY <2>1, <3>1, Leaves DEF IInv, TypeOK
    <3> QED
      BY <2>1, <3>1, <3>2, LineMoves
  <2> QED
    BY <1>6, <2>2, <2>3, <2>4 DEF ShareChecked
<1>7. ASSUME NEW a \in Attempts, ShareAdded(a) PROVE InLine'
  <2>1. chain # <<>> /\ Head(chain) = <<"share", a>> /\ Credited(a)
    BY <1>7 DEF ShareAdded, Head_
  <2> QED
    BY <2>1, LineCredits
<1>8. ASSUME NEW s \in Solves, BlockRecorded(s) PROVE InLine'
  <2>1. /\ chain # <<>> /\ Head(chain) = <<"block", s>> /\ chain' = Tail(chain)
        /\ UNCHANGED <<pc, adding>>
    BY <1>8 DEF BlockRecorded, Head_, share
  <2>2. /\ TypeOK /\ InLine /\ Len(chain) \in Nat /\ Len(chain') = Len(chain) - 1
        /\ \A i \in 1..Len(chain') : chain'[i] = chain[i + 1] /\ i + 1 \in 1..Len(chain)
    BY <2>1, Leaves DEF IInv, TypeOK
  <2>3. ~adding
    <3>1. \A a : <<"share", a>> # <<"block", s>>
      OBVIOUS
    <3> QED
      BY <2>1, <2>2, <3>1 DEF InLine
  <2>4. \A a \in Attempts, i \in 1..Len(chain') : chain'[i] = <<"share", a>> => pc'[a] = "record"
    BY <2>1, <2>2 DEF InLine
  <2>5. \A a \in Attempts, i, j \in 1..Len(chain') :
          chain'[i] = <<"share", a>> /\ chain'[j] = <<"share", a>> => i = j
    <3> SUFFICES ASSUME NEW a \in Attempts, NEW i \in 1..Len(chain'), NEW j \in 1..Len(chain'),
                        chain'[i] = <<"share", a>>, chain'[j] = <<"share", a>>
                 PROVE  i = j
      OBVIOUS
    <3>1. i + 1 = j + 1
      BY <2>2 DEF InLine
    <3> QED
      BY <3>1, <2>2
  <2> QED
    BY <2>1, <2>3, <2>4, <2>5 DEF InLine
<1>9. ASSUME NEW d \in Drains, NEW s \in Solves, NEW v, DrainVerdict(d, s, v) PROVE InLine'
  <2>1. /\ UNCHANGED <<adding, pow, work, pc>>
        /\ chain' = chain \/ chain' = Append(chain, <<"block", s>>)
    BY <1>9 DEF DrainVerdict, share
  <2>2. CASE UNCHANGED chain
    BY <2>1, <2>2, LineStands
  <2>3. CASE chain' = Append(chain, <<"block", s>>)
    <3>1. <<"block", s>> \in Tasks /\ chain \in Seq(Tasks) /\ Len(chain) \in Nat
      BY LenProperties DEF IInv, TypeOK, Tasks
    <3>2. /\ Len(chain') = Len(chain) + 1 /\ chain'[Len(chain) + 1] = <<"block", s>>
          /\ \A i \in 1..Len(chain) : chain'[i] = chain[i]
          /\ chain # <<>> => chain' # <<>> /\ Head(chain') = Head(chain)
      BY <2>3, <3>1, Joins
    <3>3. \A a \in Attempts, i \in 1..Len(chain') :
            chain'[i] = <<"share", a>> => i \in 1..Len(chain) /\ chain[i] = <<"share", a>>
      <4>1. \A a : <<"share", a>> # <<"block", s>>
        OBVIOUS
      <4> QED
        BY <3>1, <3>2, <4>1
    <3> QED
      BY <2>1, <3>2, <3>3 DEF IInv, InLine
  <2> QED
    BY <2>1, <2>2, <2>3
<1>10. CASE Crash
  BY <1>10 DEF Crash, InLine
<1> QED
  BY <1>1, <1>2, <1>3, <1>4, <1>5, <1>6, <1>7, <1>8, <1>9, <1>10
     DEF Next, ShareSteps, ChainSteps, DrainSteps

\* The types and the accounting chain stay in order.
THEOREM InvariantHolds == Spec => []IInv
<1>1. Init => IInv
  <2> SUFFICES ASSUME Init PROVE IInv
    OBVIOUS
  <2>1. answers \in Seq(Nat) /\ chain \in Seq(Tasks)
    BY EmptySeq DEF Init
  <2>2. drain \in [Drains -> [left : SUBSET Solves, leaving : SUBSET Entries]]
    BY DEF Init, NoDrain
  <2>3. TypeOK
    BY <2>1, <2>2 DEF Init, TypeOK, Steps
  <2> QED
    BY <2>3 DEF Init, IInv, InLine
<1>2. IInv /\ [Next]_vars => IInv'
  BY TypeStep, LineStep DEF IInv
<1> QED
  BY <1>1, <1>2, PTL DEF Spec

\* Every variable of the pool, the node and Redis keeps its type.
THEOREM TypeCorrect == Spec => []TypeOK
<1>1. IInv => TypeOK
  BY DEF IInv
<1> QED
  BY <1>1, InvariantHolds, PTL

-----------------------------------------------------------------------------
(* What leaves the spool.                                                   *)

\* What a node has looked at, and what was copied, stays so.
LEMMA NothingIsUnseen ==
  ASSUME IInv, [Next]_vars
  PROVE  looked \subseteq looked' /\ refused \subseteq refused'
<1>1. ASSUME NEW a \in Attempts, Retry(a) \/ \E v : Verdict(a, v)
      PROVE  looked \subseteq looked' /\ refused' = refused
  <2>1. work[a] \in Solves
    BY <1>1 DEF IInv, TypeOK, Retry, Verdict
  <2> QED
    BY <1>1, <2>1, OfferType DEF IInv, Retry, Verdict, redis
<1>2. ASSUME NEW d \in Drains, NEW s \in Solves, NEW v, DrainVerdict(d, s, v)
      PROVE  looked \subseteq looked' /\ refused' = refused
  BY <1>2, OfferType DEF IInv, DrainVerdict
<1>3. CASE \/ \E s \in Solves, step \in {"keep", "drop"} : Removes(s, step)
           \/ \E d \in Drains, s \in Solves, step \in {"keep", "drop"} : DrainRemoves(d, s, step)
  BY <1>3 DEF Removes, DrainRemoves, Moves, node
<1>4. CASE \/ Rival \/ Poll \/ Restart \/ Crash
           \/ \E i \in 1..MaxPolls : Template(i)
           \/ \E a \in Attempts, w \in Works : Submit(a, w)
           \/ \E a \in Attempts : \/ HashRejected(a) \/ Hashed(a) \/ ShareChecked(a)
                                  \/ ShareAdded(a)
           \/ \E s \in Solves : BlockRecorded(s)
           \/ \E d \in Drains : DrainStarts(d)
           \/ UNCHANGED vars
  BY <1>4 DEF Rival, Poll, Restart, Crash, Template, Submit, HashRejected, Hashed, ShareChecked,
     ShareAdded, BlockRecorded, DrainStarts, vars, redis, node
<1> QED
  BY <1>1, <1>2, <1>3, <1>4 DEF Next, ShareSteps, ChainSteps, DrainSteps

\* An entry leaves the spool by a verdict of the node, or at the end of a removal.
LEMMA WhatLeaves ==
  ASSUME IInv, Seen, [Next]_vars, NEW s \in Solves, s \in spool, s \notin spool'
  PROVE  s \in looked' /\ (s \in Bad => s \in refused)
<1>1. looked \subseteq looked'
  BY NothingIsUnseen
<1>2. ASSUME NEW v \in {"accepted", "already"}, Offered(s, v)
      PROVE  s \in looked' /\ s \notin Bad
  BY <1>2 DEF Offered, Verdicts, Says
<1>3. ASSUME NEW a \in Attempts, NEW v, Verdict(a, v)
      PROVE  s \in looked' /\ (s \in Bad => s \in refused)
  BY <1>2, <1>3 DEF Verdict, Unspool
<1>4. ASSUME NEW d \in Drains, NEW t \in Solves, NEW v, DrainVerdict(d, t, v)
      PROVE  s \in looked' /\ (s \in Bad => s \in refused)
  BY <1>2, <1>4 DEF DrainVerdict
<1>5. ASSUME NEW t \in Solves, NEW step \in {"keep", "drop"},
             Removes(t, step) \/ \E d \in Drains : DrainRemoves(d, t, step)
      PROVE  s \in looked' /\ (s \in Bad => s \in refused)
  <2>1. t = s /\ step = "drop"
    BY <1>5 DEF Removes, DrainRemoves, Moves
  <2>2. \/ <<s, step>> \in removals
        \/ \E d \in Drains : <<s, step>> \in drain[d].leaving
    BY <1>5, <2>1 DEF Removes, DrainRemoves
  <2> QED
    BY <1>1, <2>1, <2>2 DEF Seen
<1>6. ASSUME \/ Rival \/ Poll \/ Restart \/ Crash
             \/ \E i \in 1..MaxPolls : Template(i)
             \/ \E a \in Attempts, w \in Works : Submit(a, w)
             \/ \E a \in Attempts : \/ HashRejected(a) \/ Hashed(a) \/ Retry(a) \/ ShareChecked(a)
                                    \/ ShareAdded(a)
             \/ \E t \in Solves : BlockRecorded(t)
             \/ \E d \in Drains : DrainStarts(d)
             \/ UNCHANGED vars
      PROVE  FALSE
  BY <1>6 DEF Rival, Poll, Restart, Crash, Template, Submit, HashRejected, Hashed, Retry,
     ShareChecked, ShareAdded, BlockRecorded, DrainStarts, vars, redis
<1> QED
  BY <1>3, <1>4, <1>5, <1>6 DEF Next, ShareSteps, ChainSteps, DrainSteps

\* Every step keeps what is on its way out of the spool looked at and copied.
LEMMA SeenStep ==
  ASSUME IInv, Seen, [Next]_vars
  PROVE  Seen'
<1>1. looked \subseteq looked' /\ refused \subseteq refused'
  BY NothingIsUnseen
<1>2. CASE removals' \subseteq removals /\ UNCHANGED drain
  BY <1>1, <1>2 DEF Seen
<1>3. ASSUME NEW a \in Attempts, NEW v, Verdict(a, v) PROVE Seen'
  <2>1. work[a] \in Solves /\ Offered(work[a], v) /\ UNCHANGED drain
    BY <1>3 DEF IInv, TypeOK, Verdict
  <2>2. removals' = removals \/ (v = "refused" /\ removals' = removals \cup {<<work[a], "keep">>})
    BY <1>3 DEF Verdict, Unspool
  <2>3. v = "refused" => work[a] \in looked'
    BY <2>1 DEF Offered
  <2> QED
    BY <1>1, <2>1, <2>2, <2>3 DEF Seen
<1>4. ASSUME NEW s \in Solves, NEW step \in {"keep", "drop"}, Removes(s, step) PROVE Seen'
  <2>1. /\ <<s, step>> \in removals /\ UNCHANGED drain
        /\ removals' \subseteq removals \cup Onward(s, step)
        /\ step = "keep" => s \in refused' \/ removals' \subseteq removals
    BY <1>4 DEF Removes, Moves
  <2>2. s \in looked
    BY <2>1 DEF Seen
  <2>3. CASE removals' \subseteq removals
    BY <2>1, <2>3, <1>2
  <2>4. CASE step = "keep" /\ s \in refused' /\ removals' \subseteq removals \cup {<<s, "drop">>}
    BY <1>1, <2>1, <2>2, <2>4 DEF Seen
  <2> QED
    BY <2>1, <2>3, <2>4 DEF Onward
<1>5. ASSUME NEW d \in Drains, NEW s \in Solves, NEW v, DrainVerdict(d, s, v) PROVE Seen'
  <2>1. Offered(s, v) /\ UNCHANGED removals
    BY <1>5 DEF DrainVerdict
  <2>2. \E left, leaving : /\ DrainGoes(d, left, leaving)
                           /\ leaving # {} => leaving = {<<s, "keep">>} /\ v = "refused"
    BY <1>5 DEF DrainVerdict
  <2>3. v = "refused" => s \in looked'
    BY <2>1 DEF Offered
  <2>4. \A e \in Drains : \/ drain'[e].leaving = drain[e].leaving
                          \/ drain'[e].leaving = {}
                          \/ drain'[e].leaving = {<<s, "keep">>} /\ v = "refused"
    BY <2>2 DEF IInv, TypeOK, DrainGoes
  <2> QED
    BY <1>1, <2>1, <2>3, <2>4 DEF Seen
<1>6. ASSUME NEW d \in Drains, NEW s \in Solves, NEW step \in {"keep", "drop"},
             DrainRemoves(d, s, step)
      PROVE  Seen'
  <2>1. <<s, step>> \in drain[d].leaving /\ UNCHANGED removals
    BY <1>6 DEF DrainRemoves
  <2>2. s \in looked
    BY <2>1 DEF Seen
  <2>3. \E left, leaving : /\ DrainGoes(d, left, leaving)
                           /\ leaving # {} => leaving = {<<s, "drop">>} /\ s \in refused'
    BY <1>6 DEF DrainRemoves, Onward, Moves
  <2>4. \A e \in Drains : \/ drain'[e].leaving = drain[e].leaving
                          \/ drain'[e].leaving = {}
                          \/ drain'[e].leaving = {<<s, "drop">>} /\ s \in refused'
    BY <2>3 DEF IInv, TypeOK, DrainGoes
  <2> QED
    BY <1>1, <2>1, <2>2, <2>4 DEF Seen
<1>7. ASSUME NEW d \in Drains, DrainStarts(d) PROVE Seen'
  <2>1. \A e \in Drains : drain'[e].leaving = drain[e].leaving \/ drain'[e].leaving = {}
    BY <1>7 DEF IInv, TypeOK, DrainStarts, DrainGoes
  <2> QED
    BY <1>1, <1>7, <2>1 DEF Seen, DrainStarts
<1>8. CASE Crash
  <2>1. removals' = {} /\ \A d \in Drains : drain'[d].leaving = {}
    BY <1>8 DEF Crash, NoDrain
  <2> QED
    BY <2>1 DEF Seen
<1>9. CASE \/ Rival \/ Poll \/ Restart
           \/ \E i \in 1..MaxPolls : Template(i)
           \/ \E a \in Attempts, w \in Works : Submit(a, w)
           \/ \E a \in Attempts : \/ HashRejected(a) \/ Hashed(a) \/ Retry(a) \/ ShareChecked(a)
                                  \/ ShareAdded(a)
           \/ \E s \in Solves : BlockRecorded(s)
           \/ UNCHANGED vars
  <2>1. UNCHANGED <<removals, drain>>
    BY <1>9 DEF Rival, Poll, Restart, Template, Submit, HashRejected, Hashed, Retry,
      ShareChecked,
       ShareAdded, BlockRecorded, vars
  <2> QED
    BY <2>1, <1>2
<1> QED
  BY <1>3, <1>4, <1>5, <1>6, <1>7, <1>8, <1>9 DEF Next, ShareSteps, ChainSteps, DrainSteps

\* What leaves the spool has been looked at by a node, and a refused block leaves it for
\* wam:blocks:refused (_unspool and drainSpool), whatever Redis rejects and however often
\* the pool crashes.
THEOREM RefusedAreKept == Spec => RefusedIsKept
<1>1. Init => Seen
  BY DEF Init, Seen, NoDrain
<1>2. IInv /\ Seen /\ [Next]_vars => Seen'
  BY SeenStep
<1>3. IInv /\ Seen /\ [Next]_vars =>
        [/\ spool \ spool' \subseteq looked'
         /\ (spool \ spool') \cap Bad \subseteq refused]_vars
  <2> SUFFICES ASSUME IInv, Seen, [Next]_vars
               PROVE  /\ spool \ spool' \subseteq looked'
                      /\ (spool \ spool') \cap Bad \subseteq refused
    OBVIOUS
  <2>1. spool \subseteq Solves
    BY DEF IInv, TypeOK
  <2> QED
    BY <2>1, WhatLeaves
<1> QED
  BY <1>1, <1>2, <1>3, InvariantHolds, PTL DEF Spec, RefusedIsKept

-----------------------------------------------------------------------------
(* What the node may have without an answer.                                *)

\* Every step keeps what may reach the node written down.
LEMMA WrittenStep ==
  ASSUME IInv, Seen, WrittenDown, "spool" \notin LostWrites, [Next]_vars
  PROVE  WrittenDown'
<1>1. looked \subseteq looked'
  BY NothingIsUnseen
<1>2. spool \cup looked \subseteq spool' \cup looked'
  BY <1>1, WhatLeaves DEF IInv, TypeOK
<1>3. CASE /\ blocks' \subseteq blocks
           /\ \A a \in Attempts : pc'[a] = "offer" => pc[a] = "offer" /\ work'[a] = work[a]
           /\ \A d \in Drains : drain'[d].left \subseteq drain[d].left
  BY <1>2, <1>3 DEF WrittenDown, UnansweredIsSpooled
<1>4. ASSUME NEW s \in Solves, s \in spool \cup looked, NEW v, Offered(s, v)
      PROVE  blocks' \ looked' \subseteq spool'
  <2>1. blocks' \ looked' \subseteq (blocks \ looked) \cup {s}
    BY <1>4, OfferType DEF IInv
  <2> QED
    BY <1>2, <1>4, <2>1 DEF WrittenDown, UnansweredIsSpooled
<1>5. ASSUME NEW a \in Attempts, Retry(a) \/ \E v : Verdict(a, v) PROVE WrittenDown'
  <2>1. work[a] \in Solves /\ work[a] \in spool \cup looked /\ \E v : Offered(work[a], v)
    BY <1>5 DEF IInv, TypeOK, WrittenDown, Retry, Verdict
  <2>2. UNCHANGED <<work, drain>> /\ \A b \in Attempts : pc'[b] = "offer" => pc[b] = "offer"
    BY <1>5 DEF IInv, TypeOK, Retry, Verdict
  <2> QED
    BY <1>2, <1>4, <2>1, <2>2 DEF WrittenDown, UnansweredIsSpooled
<1>6. ASSUME NEW d \in Drains, NEW s \in Solves, NEW v, DrainVerdict(d, s, v) PROVE WrittenDown'
  <2>1. s \in spool \cup looked /\ Offered(s, v) /\ UNCHANGED <<pc, work>>
    BY <1>6 DEF WrittenDown, DrainVerdict, share
  <2>2. \A e \in Drains : drain'[e].left \subseteq drain[e].left
    <3>1. \E left, leaving : DrainGoes(d, left, leaving) /\ left \subseteq drain[d].left
      BY <1>6 DEF DrainVerdict
    <3> QED
      BY <3>1 DEF IInv, TypeOK, DrainGoes
  <2> QED
    BY <1>2, <1>4, <2>1, <2>2 DEF WrittenDown, UnansweredIsSpooled
<1>7. ASSUME NEW a \in Attempts, Hashed(a) PROVE WrittenDown'
  <2>1. UNCHANGED <<blocks, work, drain>>
    BY <1>7 DEF Hashed, node
  <2>2. \A b \in Attempts : pc'[b] = "offer" => pc[b] = "offer" \/ work[b] \in spool'
    BY <1>7 DEF IInv, TypeOK, Hashed
  <2> QED
    BY <1>2, <2>1, <2>2 DEF WrittenDown, UnansweredIsSpooled
<1>8. ASSUME NEW d \in Drains, DrainStarts(d) PROVE WrittenDown'
  <2>1. UNCHANGED <<blocks, work, pc, spool>>
    BY <1>8 DEF DrainStarts, node, share, redis
  <2>2. \A e \in Drains : drain'[e].left \in {drain[e].left, spool}
    BY <1>8 DEF IInv, TypeOK, DrainStarts, DrainGoes
  <2> QED
    BY <1>2, <2>1, <2>2 DEF WrittenDown, UnansweredIsSpooled
<1>9. CASE Crash
  <2>1. /\ UNCHANGED <<spool, looked>> /\ \A b \in Attempts : pc'[b] # "offer"
        /\ \A d \in Drains : drain'[d].left = {}
    BY <1>9 DEF Crash, NoDrain, redis
  <2>2. blocks' \subseteq blocks \/ \E s \in OnTheWire : blocks' \subseteq blocks \cup {s}
    BY <1>9 DEF Crash, Takes, node
  <2>3. OnTheWire \subseteq spool \cup looked
    BY DEF OnTheWire, WrittenDown
  <2> QED
    BY <2>1, <2>2, <2>3 DEF WrittenDown, UnansweredIsSpooled
<1>10. ASSUME NEW a \in Attempts, \/ \E w \in Works : Submit(a, w)
                                  \/ HashRejected(a) \/ ShareChecked(a) \/ ShareAdded(a)
       PROVE  WrittenDown'
  <2>1. UNCHANGED <<blocks, drain>>
    BY <1>10 DEF Submit, HashRejected, ShareChecked, ShareAdded, node
  <2>2. \A b \in Attempts : pc'[b] = "offer" => pc[b] = "offer" /\ work'[b] = work[b]
    BY <1>10 DEF IInv, TypeOK, Submit, HashRejected, ShareChecked, ShareAdded, Credited,
      Unavailable
  <2> QED
    BY <2>1, <2>2, <1>3
<1>11. ASSUME NEW d \in Drains, NEW s \in Solves, NEW step \in {"keep", "drop"},
              DrainRemoves(d, s, step)
       PROVE  WrittenDown'
  <2>1. UNCHANGED <<blocks, pc, work>>
    BY <1>11 DEF DrainRemoves, node, share
  <2>2. \A e \in Drains : drain'[e].left \subseteq drain[e].left
    <3>1. \E left, leaving : DrainGoes(d, left, leaving) /\ left \subseteq drain[d].left
      BY <1>11 DEF DrainRemoves
    <3> QED
      BY <3>1 DEF IInv, TypeOK, DrainGoes
  <2> QED
    BY <2>1, <2>2, <1>3
<1>12. CASE \/ Rival \/ Poll \/ Restart
            \/ \E i \in 1..MaxPolls : Template(i)
            \/ \E s \in Solves, step \in {"keep", "drop"} : Removes(s, step)
            \/ \E s \in Solves : BlockRecorded(s)
            \/ UNCHANGED vars
  <2>1. UNCHANGED <<blocks, pc, work, drain>>
    BY <1>12 DEF Rival, Poll, Restart, Template, Removes, BlockRecorded, vars, node, share
  <2> QED
    BY <2>1, <1>3
<1> QED
  BY <1>5, <1>6, <1>7, <1>8, <1>9, <1>10, <1>11, <1>12 DEF Next, ShareSteps, ChainSteps,
    DrainSteps

\* A block that the node has and never answered for is in the spool, whatever crashed
\* (_submitBlock writes it down before it offers it), if Redis took that write.
THEOREM UnansweredAreSpooled ==
  ASSUME "spool" \notin LostWrites
  PROVE  Spec => []UnansweredIsSpooled
<1>1. Init => Seen /\ WrittenDown
  BY DEF Init, Seen, NoDrain, WrittenDown, UnansweredIsSpooled
<1>2. IInv /\ Seen /\ WrittenDown /\ [Next]_vars => Seen' /\ WrittenDown'
  BY SeenStep, WrittenStep
<1>3. WrittenDown => UnansweredIsSpooled
  BY DEF WrittenDown
<1> QED
  BY <1>1, <1>2, <1>3, InvariantHolds, PTL DEF Spec

-----------------------------------------------------------------------------
(* One credit for a proof of work.                                          *)

\* Answers that come in order leave in order.
LEMMA FirstAnswer ==
  ASSUME TypeOK, ~Reordered, NEW i, Template(i)
  PROVE  /\ i = 1 /\ 1 \in 1..Len(answers) /\ Len(answers) \in Nat
         /\ Len(answers') = Len(answers) - 1
         /\ \A j \in 1..Len(answers') : answers'[j] = answers[j + 1]
<1>1. /\ i = 1 /\ 1 \in 1..Len(answers)
      /\ answers' = SubSeq(answers, 1, 0) \o SubSeq(answers, 2, Len(answers))
  <2>1. /\ i = 1 /\ 1 \in 1..Len(answers)
        /\ answers' = SubSeq(answers, 1, i - 1) \o SubSeq(answers, i + 1, Len(answers))
    BY DEF Template, RemoveAt
  <2>2. i - 1 = 0 /\ i + 1 = 2
    BY <2>1
  <2> QED
    BY <2>1, <2>2
<1>2. Len(answers) \in Nat /\ \A j \in 2..Len(answers) : answers[j] \in Nat
  BY <1>1, LenProperties DEF TypeOK
<1>3. SubSeq(answers, 1, 0) = <<>>
  BY SubSeqEmpty
<1>4. /\ SubSeq(answers, 2, Len(answers)) \in Seq(Nat)
      /\ Len(SubSeq(answers, 2, Len(answers))) = Len(answers) - 1
      /\ \A j \in 1..(Len(answers) - 1) : SubSeq(answers, 2, Len(answers))[j] = answers[j + 1]
  <2>1. /\ SubSeq(answers, 2, Len(answers)) \in Seq(Nat)
        /\ Len(SubSeq(answers, 2, Len(answers)))
             = IF 2 <= Len(answers) THEN Len(answers) - 2 + 1 ELSE 0
        /\ \A j \in 1..(Len(answers) - 2 + 1) :
             SubSeq(answers, 2, Len(answers))[j] = answers[2 + j - 1]
    BY <1>2, SubSeqProperties
  <2>2. \A j \in 1..(Len(answers) - 1) : 2 + j - 1 = j + 1 /\ j \in 1..(Len(answers) - 2 + 1)
    BY <1>2
  <2>3. (IF 2 <= Len(answers) THEN Len(answers) - 2 + 1 ELSE 0) = Len(answers) - 1
    <3>1. \A n \in Nat : 1 \in 1..n => (IF 2 <= n THEN n - 2 + 1 ELSE 0) = n - 1
      OBVIOUS
    <3> QED
      BY <1>1, <1>2, <3>1
  <2> QED
    BY <2>1, <2>2, <2>3
<1>5. answers' = SubSeq(answers, 2, Len(answers))
  BY <1>1, <1>3, <1>4, ConcatEmptySeq
<1> QED
  BY <1>1, <1>2, <1>4, <1>5

\* With no crash and answers in order, no step leaves a job older than the works in hand.
LEMMA OrderStep ==
  ASSUME IInv, InOrder, ~Reordered, MaxCrashes = 0, [Next]_vars
  PROVE  InOrder'
<1> USE DEF IInv
<1>1. CASE /\ UNCHANGED <<up, crashes, jobTip, answers>> /\ tip <= tip' /\ tip' \in Nat
           /\ \A a \in Attempts : pc'[a] # "new" => pc[a] # "new" /\ work'[a] = work[a]
           /\ \A w \in Works : credited'[w] > 0 => credited[w] > 0
  <2>1. \A i \in 1..Len(answers) : answers[i] \in Nat
    BY DEF TypeOK
  <2> QED
    BY <1>1, <2>1 DEF TypeOK, InOrder
<1>2. CASE Poll
  <2>1. /\ Len(answers) \in Nat /\ Len(answers') = Len(answers) + 1
        /\ \A i \in 1..Len(answers) : answers'[i] = answers[i] /\ answers[i] \in Nat
        /\ answers'[Len(answers) + 1] = tip
    <3>1. answers' = Append(answers, tip) /\ tip \in Nat /\ answers \in Seq(Nat)
      BY <1>2 DEF Poll, TypeOK
    <3> QED
      BY <3>1, Joins, LenProperties
  <2>2. UNCHANGED <<up, crashes, jobTip, tip, pc, work, credited>>
    BY <1>2 DEF Poll, node, share, redis
  <2>3. \A i \in 1..Len(answers') : jobTip' <= answers'[i] /\ answers'[i] <= tip'
    <3> SUFFICES ASSUME NEW i \in 1..Len(answers')
                 PROVE  jobTip' <= answers'[i] /\ answers'[i] <= tip'
      OBVIOUS
    <3>1. CASE i \in 1..Len(answers)
      BY <2>1, <2>2, <3>1 DEF InOrder
    <3>2. CASE i = Len(answers) + 1
      BY <2>1, <2>2, <3>2 DEF InOrder, TypeOK
    <3> QED
      BY <2>1, <3>1, <3>2
  <2>4. \A i, j \in 1..Len(answers') : i <= j => answers'[i] <= answers'[j]
    <3> SUFFICES ASSUME NEW i \in 1..Len(answers'), NEW j \in 1..Len(answers'), i <= j
                 PROVE  answers'[i] <= answers'[j]
      OBVIOUS
    <3>1. CASE j \in 1..Len(answers)
      BY <2>1, <3>1 DEF InOrder
    <3>2. CASE j = Len(answers) + 1
      BY <2>1, <2>2, <2>3, <3>2
    <3> QED
      BY <2>1, <3>1, <3>2
  <2> QED
    BY <2>2, <2>3, <2>4 DEF InOrder
<1>3. ASSUME NEW i \in 1..MaxPolls, Template(i) PROVE InOrder'
  <2>1. /\ i = 1 /\ 1 \in 1..Len(answers) /\ Len(answers) \in Nat
        /\ Len(answers') = Len(answers) - 1
        /\ \A j \in 1..Len(answers') : answers'[j] = answers[j + 1] /\ j + 1 \in 1..Len(answers)
    BY <1>3, FirstAnswer
  <2>2. /\ UNCHANGED <<up, crashes, tip, pc, work, credited>> /\ jobTip' = answers[1]
    BY <1>3, <2>1 DEF Template, NewTip, node, share, redis
  <2>3. jobTip <= jobTip' /\ jobTip' <= tip /\ jobTip' \in Nat
    BY <2>1, <2>2, TemplateTakes, <1>3 DEF InOrder
  <2>4. \A j \in 1..Len(answers') : jobTip' <= answers'[j] /\ answers'[j] <= tip
    BY <2>1, <2>2 DEF InOrder
  <2>5. \A j, k \in 1..Len(answers') : j <= k => answers'[j] <= answers'[k]
    BY <2>1 DEF InOrder
  <2>6. \A w \in Works : TipOf[w] \in Nat
    BY ConstantsAssumption
  <2>7. \A a \in Attempts : pc[a] # "new" => TipOf[work[a]] <= jobTip'
    BY <2>3, <2>6 DEF InOrder, TypeOK
  <2>8. \A w \in Works : credited[w] > 0 => TipOf[w] <= jobTip'
    BY <2>3, <2>6 DEF InOrder, TypeOK
  <2> QED
    BY <2>2, <2>3, <2>4, <2>5, <2>7, <2>8 DEF InOrder
<1>4. ASSUME NEW a \in Attempts, NEW w \in Works, Submit(a, w) PROVE InOrder'
  <2>1. /\ UNCHANGED <<up, crashes, jobTip, tip, answers, credited>>
        /\ \A b \in Attempts \ {a} : pc'[b] = pc[b] /\ work'[b] = work[b]
        /\ work'[a] = w /\ TipOf[w] = jobTip
    BY <1>4 DEF TypeOK, Submit, node, redis
  <2>2. \A b \in Attempts : pc'[b] # "new" => TipOf[work'[b]] <= jobTip'
    <3> SUFFICES ASSUME NEW b \in Attempts, pc'[b] # "new" PROVE TipOf[work'[b]] <= jobTip'
      OBVIOUS
    <3>1. CASE b = a
      BY <2>1, <3>1 DEF TypeOK
    <3>2. CASE b # a
      BY <2>1, <3>2 DEF InOrder
    <3> QED
      BY <3>1, <3>2
  <2> QED
    BY <2>1, <2>2 DEF InOrder
<1>5. ASSUME NEW a \in Attempts, ShareAdded(a) PROVE InOrder'
  <2>1. /\ UNCHANGED <<up, crashes, jobTip, tip, answers, work>> /\ pc[a] = "record"
        /\ \A b \in Attempts : pc'[b] # "new" => pc[b] # "new"
    BY <1>5, CreditType DEF ShareAdded, Head_, node
  <2>2. \A w \in Works : credited'[w] > 0 => credited[w] > 0 \/ w = work[a]
    BY <1>5 DEF TypeOK, ShareAdded
  <2> QED
    BY <2>1, <2>2 DEF InOrder, TypeOK
<1>6. ASSUME NEW a \in Attempts, Retry(a) \/ \E v : Verdict(a, v) PROVE InOrder'
  <2>1. work[a] \in Solves /\ \E v : Offered(work[a], v)
    BY <1>6 DEF TypeOK, Retry, Verdict
  <2>2. tip <= tip' /\ tip' \in Nat
    BY <2>1, OfferType
  <2>3. /\ UNCHANGED <<up, crashes, jobTip, answers, work, credited>>
        /\ \A b \in Attempts : pc'[b] # "new" => pc[b] # "new"
    BY <1>6 DEF TypeOK, Retry, Verdict, jobs, redis
  <2> QED
    BY <2>2, <2>3, <1>1
<1>7. ASSUME NEW d \in Drains, NEW s \in Solves, NEW v, DrainVerdict(d, s, v) PROVE InOrder'
  <2>1. tip <= tip' /\ tip' \in Nat
    BY <1>7, OfferType DEF DrainVerdict
  <2>2. UNCHANGED <<up, crashes, jobTip, answers, pc, work, credited>>
    BY <1>7 DEF DrainVerdict, jobs, share
  <2> QED
    BY <2>1, <2>2, <1>1
<1>8. ASSUME NEW a \in Attempts, HashRejected(a) \/ Hashed(a) \/ ShareChecked(a) PROVE InOrder'
  <2>1. /\ UNCHANGED <<up, crashes, jobTip, answers, tip, work, credited>>
    BY <1>8 DEF HashRejected, Hashed, ShareChecked, jobs, node, redis
  <2>2. \A b \in Attempts : pc'[b] # "new" => pc[b] # "new"
    <3>1. CASE ShareChecked(a)
      <4>1. chain # <<>> /\ Head(chain) = <<"share", a>>
        BY <3>1 DEF ShareChecked, Head_
      <4>2. CASE UNCHANGED pc
        BY <4>2
      <4>3. CASE Credited(a) \/ Unavailable(a)
        BY <4>1, <4>3, CreditType, UnavailableType
      <4> QED
        BY <3>1, <4>2, <4>3 DEF ShareChecked
    <3> QED
      BY <1>8, <3>1 DEF TypeOK, HashRejected, Hashed
  <2>3. tip <= tip' /\ tip' \in Nat
    BY <2>1 DEF TypeOK
  <2> QED
    BY <2>1, <2>2, <2>3, <1>1
<1>9. CASE \/ Rival
           \/ \E s \in Solves, step \in {"keep", "drop"} : Removes(s, step)
           \/ \E s \in Solves : BlockRecorded(s)
           \/ \E d \in Drains : DrainStarts(d)
           \/ \E d \in Drains, s \in Solves, step \in {"keep", "drop"} : DrainRemoves(d, s, step)
           \/ UNCHANGED vars
  <2>1. UNCHANGED <<up, crashes, jobTip, answers, pc, work, credited>>
    BY <1>9 DEF Rival, Removes, BlockRecorded, DrainStarts, DrainRemoves, vars, jobs, share,
      redis
  <2>2. tip <= tip' /\ tip' \in Nat
    <3>1. tip' = tip \/ tip' = tip + 1
      BY <1>9 DEF Rival, Removes, BlockRecorded, DrainStarts, DrainRemoves, vars, node
    <3> QED
      BY <3>1 DEF TypeOK
  <2> QED
    BY <2>1, <2>2, <1>1
<1>10. ~Crash /\ ~Restart
  BY DEF InOrder, Crash, Restart
<1> QED
  BY <1>2, <1>3, <1>4, <1>5, <1>6, <1>7, <1>8, <1>9, <1>10 DEF Next, ShareSteps, ChainSteps,
    DrainSteps

\* What frees a claim frees only that of the attempt it ends.
LEMMA ReleaseClaimed ==
  ASSUME IInv, Claimed, NEW a \in Attempts, Live(a), Release(a),
         \A b \in Attempts : Live(b)' => Live(b) /\ b # a,
         UNCHANGED <<jobTip, work, credited>>
  PROVE  Claimed'
<1>1. /\ IInv /\ \A b \in Attempts : pc[b] # "new" => work[b] \in Works
      /\ claims \ {work[a]} \subseteq claims' /\ holders' = holders \ {a}
  BY DEF IInv, TypeOK, Release
<1>2. \A b \in Attempts : Live(b)' /\ TipOf[work'[b]] = jobTip' =>
                           b \in holders' /\ work'[b] \in claims'
  BY <1>1 DEF Claimed
<1>3. \A w \in Works : credited'[w] > 0 /\ TipOf[w] = jobTip' => w \in claims'
  <2>1. credited[work[a]] = 0
    BY DEF Claimed
  <2> QED
    BY <1>1, <2>1 DEF Claimed
<1> QED
  BY <1>2, <1>3 DEF Claimed, OneCreditPerWork

\* Attempts that end, or go on, without a credit keep every claim.
LEMMA ClaimsStand ==
  ASSUME Claimed, UNCHANGED <<jobTip, work, credited, claims, holders>>,
         \A a \in Attempts : Live(a)' => Live(a)
  PROVE  Claimed'
  BY DEF Claimed, OneCreditPerWork

\* With no crash and answers in order, a work in hand or credited stays claimed.
LEMMA ClaimStep ==
  ASSUME IInv, InOrder, Claimed, ~Reordered, MaxCrashes = 0, [Next]_vars
  PROVE  Claimed'
<1>1. ASSUME NEW i \in 1..MaxPolls, Template(i) PROVE Claimed'
  <2>1. UNCHANGED <<pc, work, credited>>
    BY <1>1 DEF Template, share, redis
  <2>2. CASE UNCHANGED <<jobTip, claims, holders>>
    BY <2>1, <2>2, ClaimsStand DEF Live
  <2>3. CASE jobTip' # jobTip
    <3>1. jobTip < jobTip' /\ jobTip \in Nat /\ jobTip' \in Nat
      BY <1>1, <2>3, FirstAnswer, TemplateTakes DEF IInv, TypeOK, InOrder, Template, NewTip
    <3>2. \A w \in Works : TipOf[w] \in Nat
      BY ConstantsAssumption
    <3>3. \A a \in Attempts : Live(a)' => Live(a) /\ TipOf[work[a]] # jobTip'
      <4> SUFFICES ASSUME NEW a \in Attempts, Live(a)' PROVE Live(a) /\ TipOf[work[a]] # jobTip'
        OBVIOUS
      <4>1. Live(a) /\ work[a] \in Works /\ TipOf[work[a]] <= jobTip
        BY <2>1 DEF IInv, TypeOK, InOrder, Live
      <4> QED
        BY <3>1, <3>2, <4>1
    <3>4. \A w \in Works : credited[w] > 0 => TipOf[w] # jobTip'
      BY <3>1, <3>2 DEF InOrder
    <3> QED
      BY <2>1, <3>3, <3>4 DEF Claimed, OneCreditPerWork
  <2> QED
    BY <1>1, <2>2, <2>3 DEF Template, NewTip
<1>2. ASSUME NEW a \in Attempts, NEW w \in Works, Submit(a, w) PROVE Claimed'
  <2>1. /\ UNCHANGED <<jobTip, credited>> /\ work'[a] = w /\ TipOf[w] = jobTip /\ w \notin claims
        /\ claims' = claims \cup {w} /\ holders' = holders \cup {a}
        /\ \A b \in Attempts \ {a} : /\ Live(b)' <=> Live(b)
                                      /\ work'[b] = work[b]
    BY <1>2 DEF IInv, TypeOK, Submit, redis, Live
  <2>2. credited[w] = 0 /\ \A b \in Attempts : Live(b) => work[b] # w
    BY <2>1 DEF IInv, TypeOK, Claimed
  <2>3. \A b \in Attempts : Live(b)' /\ TipOf[work'[b]] = jobTip' =>
                             b \in holders' /\ work'[b] \in claims'
    BY <2>1 DEF Claimed
  <2>4. \A b \in Attempts : Live(b)' => credited'[work'[b]] = 0
    BY <2>1, <2>2 DEF Claimed
  <2>5. \A b, d \in Attempts : Live(b)' /\ Live(d)' /\ work'[b] = work'[d] => b = d
    BY <2>1, <2>2 DEF Claimed
  <2>6. \A u \in Works : credited'[u] > 0 /\ TipOf[u] = jobTip' => u \in claims'
    BY <2>1 DEF Claimed
  <2> QED
    BY <2>1, <2>3, <2>4, <2>5, <2>6 DEF Claimed, OneCreditPerWork
<1>3. ASSUME NEW a \in Attempts, HashRejected(a) PROVE Claimed'
  <2>1. /\ Live(a) /\ Release(a) /\ UNCHANGED <<jobTip, work, credited>>
        /\ \A b \in Attempts : Live(b)' => Live(b) /\ b # a
    BY <1>3 DEF IInv, TypeOK, HashRejected, Live, redis
  <2> QED
    BY <2>1, ReleaseClaimed
<1>4. ASSUME NEW a \in Attempts, Hashed(a) \/ Retry(a) \/ \E v : Verdict(a, v) PROVE Claimed'
  <2>1. /\ UNCHANGED <<jobTip, work, credited, claims, holders>>
        /\ \A b \in Attempts : Live(b)' => Live(b)
    BY <1>4 DEF IInv, TypeOK, Hashed, Retry, Verdict, Live, redis, jobs
  <2> QED
    BY <2>1, ClaimsStand
<1>5. ASSUME NEW a \in Attempts, ShareChecked(a) PROVE Claimed'
  <2>1. chain # <<>> /\ Head(chain) = <<"share", a>> /\ UNCHANGED <<jobTip, work, credited>>
    BY <1>5 DEF ShareChecked, Head_
  <2>2. CASE UNCHANGED <<claims, holders, pc>>
    BY <2>1, <2>2, ClaimsStand DEF Live
  <2>3. CASE Credited(a)
    <3>1. UNCHANGED <<claims, holders>> /\ \A b \in Attempts : Live(b)' => Live(b)
      BY <2>1, <2>3, CreditType DEF Live
    <3> QED
      BY <2>1, <3>1, ClaimsStand
  <2>4. CASE Unavailable(a)
    <3>1. Live(a) /\ Release(a) /\ \A b \in Attempts : Live(b)' => Live(b) /\ b # a
      BY <2>1, <2>4, UnavailableType DEF Live, Unavailable
    <3> QED
      BY <2>1, <3>1, ReleaseClaimed
  <2> QED
    BY <1>5, <2>2, <2>3, <2>4 DEF ShareChecked
<1>6. ASSUME NEW a \in Attempts, ShareAdded(a) PROVE Claimed'
  <2>1. chain # <<>> /\ Head(chain) = <<"share", a>> /\ UNCHANGED <<jobTip, work>> /\ Credited(a)
    BY <1>6 DEF ShareAdded, Head_
  <2>2. /\ UNCHANGED <<claims, holders>> /\ Live(a) /\ work[a] \in Works
        /\ \A b \in Attempts : Live(b)' => Live(b) /\ b # a
    BY <2>1, CreditType DEF Live, IInv, TypeOK
  <2>3. credited[work[a]] = 0 /\ \A b \in Attempts : Live(b)' => work[b] # work[a]
    BY <2>2 DEF Claimed
  <2>4. /\ credited'[work[a]] \in {0, 1}
        /\ \A w \in Works \ {work[a]} : credited'[w] = credited[w]
    BY <1>6, <2>2, <2>3 DEF IInv, TypeOK, ShareAdded
  <2>5. \A w \in Works : credited'[w] > 0 /\ TipOf[w] = jobTip' => w \in claims'
    BY <2>1, <2>2, <2>3, <2>4 DEF Claimed
  <2>6. \A b \in Attempts : Live(b)' => credited'[work'[b]] = 0
    BY <2>1, <2>2, <2>3, <2>4 DEF Claimed, IInv, TypeOK, Live
  <2>7. OneCreditPerWork'
    BY <2>4 DEF Claimed, OneCreditPerWork
  <2> QED
    BY <2>1, <2>2, <2>5, <2>6, <2>7 DEF Claimed
<1>7. CASE \/ Rival \/ Poll
           \/ \E s \in Solves, step \in {"keep", "drop"} : Removes(s, step)
           \/ \E s \in Solves : BlockRecorded(s)
           \/ \E d \in Drains : DrainSteps(d)
           \/ UNCHANGED vars
  <2>1. UNCHANGED <<jobTip, work, credited, claims, holders, pc>>
    BY <1>7, ZenonT(60) DEF Rival, Poll, Removes, BlockRecorded, DrainSteps, DrainStarts, DrainVerdict,
       DrainRemoves, vars, jobs, share, redis
  <2> QED
    BY <2>1, ClaimsStand DEF Live
<1>8. ~Crash /\ ~Restart
  BY DEF InOrder, Crash, Restart
<1> QED
  BY <1>1, <1>2, <1>3, <1>4, <1>5, <1>6, <1>7, <1>8 DEF Next, ShareSteps, ChainSteps

\* One proof of work is credited once, whichever attempts and jobs carry it, however
\* often the round closes meanwhile and whatever Redis rejects (the claims of
\* blockTemplate.js and the SADD of recordShare), while the pool runs and its
\* templates come in the order they were asked for.
THEOREM CreditIsOnce ==
  ASSUME MaxCrashes = 0, ~Reordered
  PROVE  Spec => []OneCreditPerWork
<1>1. Init => InOrder /\ Claimed
  BY DEF Init, InOrder, Claimed, Live, OneCreditPerWork
<1>2. IInv /\ InOrder /\ Claimed /\ [Next]_vars => InOrder' /\ Claimed'
  BY OrderStep, ClaimStep
<1>3. Claimed => OneCreditPerWork
  BY DEF Claimed
<1> QED
  BY <1>1, <1>2, <1>3, InvariantHolds, PTL DEF Spec

-----------------------------------------------------------------------------
(* An answer comes after the credit.                                        *)

\* A step that credits nobody, answers nobody and leaves the head of the chain alone.
LEMMA CountStands ==
  ASSUME IInv, Counted, UNCHANGED <<up, crashes, pow, told, credited, adding>>,
         adding => Head(chain') = Head(chain),
         \A a \in Attempts : pc[a] = "record" => work'[a] = work[a]
  PROVE  Counted'
<1>1. \A a \in Attempts : adding /\ Head(chain) = <<"share", a>> => pc[a] = "record"
  BY Leaves DEF IInv, TypeOK, InLine
<1> QED
  BY <1>1 DEF Counted, ToldIsCredited

\* Without crashes and lost commands every step keeps round:pow a list of the credited.
LEMMA CountStep ==
  ASSUME IInv, Counted, MaxCrashes = 0, LostWrites \cap {"claim", "add"} = {}, [Next]_vars
  PROVE  Counted'
<1>1. ASSUME NEW a \in Attempts, NEW w \in Works, Submit(a, w) PROVE Counted'
  <2>1. /\ UNCHANGED <<up, crashes, pow, told, credited, adding, chain>>
        /\ \A b \in Attempts : pc[b] = "record" => work'[b] = work[b]
    BY <1>1 DEF IInv, TypeOK, Submit, redis, acct
  <2> QED
    BY <2>1, CountStands
<1>2. ASSUME NEW a \in Attempts, Hashed(a) \/ \E v : Verdict(a, v) PROVE Counted'
  <2>1. UNCHANGED <<up, crashes, pow, told, credited, adding, work>>
    BY <1>2 DEF Hashed, Verdict
  <2>2. chain' \in {chain, Append(chain, <<"share", a>>)}
    BY <1>2 DEF Hashed, Verdict
  <2>3. <<"share", a>> \in Tasks /\ chain \in Seq(Tasks)
    BY DEF IInv, TypeOK, Tasks
  <2>4. adding => Head(chain') = Head(chain)
    BY <2>2, <2>3, Joins DEF IInv, InLine
  <2> QED
    BY <2>1, <2>4, CountStands
<1>3. ASSUME NEW d \in Drains, NEW s \in Solves, NEW v, DrainVerdict(d, s, v) PROVE Counted'
  <2>1. UNCHANGED <<up, crashes, pow, told, credited, adding, work>>
    BY <1>3 DEF DrainVerdict, share
  <2>2. chain' \in {chain, Append(chain, <<"block", s>>)}
    BY <1>3 DEF DrainVerdict
  <2>3. <<"block", s>> \in Tasks /\ chain \in Seq(Tasks)
    BY DEF IInv, TypeOK, Tasks
  <2>4. adding => Head(chain') = Head(chain)
    BY <2>2, <2>3, Joins DEF IInv, InLine
  <2> QED
    BY <2>1, <2>4, CountStands
<1>4. ASSUME NEW a \in Attempts, ShareChecked(a) PROVE Counted'
  <2>1. /\ Head(chain) = <<"share", a>> /\ ~adding
        /\ UNCHANGED <<up, crashes, credited, work>>
    BY <1>4 DEF ShareChecked, Head_
  <2>2. \A w \in pow : credited[w] >= 1
    BY <2>1 DEF Counted
  <2>3. CASE pow' = pow \cup {work[a]} /\ adding' = TRUE /\ UNCHANGED <<chain, told>>
    BY <2>1, <2>2, <2>3 DEF Counted, ToldIsCredited
  <2>4. CASE work[a] \in pow /\ Credited(a) /\ UNCHANGED pow
    BY <2>1, <2>2, <2>4 DEF Counted, ToldIsCredited, Credited
  <2> QED
    BY <1>4, <2>3, <2>4 DEF ShareChecked
<1>5. ASSUME NEW a \in Attempts, ShareAdded(a) PROVE Counted'
  <2>1. /\ chain # <<>> /\ Head(chain) = <<"share", a>> /\ UNCHANGED <<up, crashes, pow, work>>
        /\ told' = told \cup {work[a]}
        /\ credited' = [credited EXCEPT ![work[a]] = credited[work[a]] + 1]
    BY <1>5 DEF ShareAdded, Head_, Credited
  <2>2. /\ work[a] \in Works /\ pow \subseteq Works /\ told \subseteq Works
        /\ credited \in [Works -> Nat]
    <3>1. chain[1] = <<"share", a>> /\ 1 \in 1..Len(chain)
      BY <2>1, Leaves DEF IInv, TypeOK
    <3>2. pc[a] = "record"
      BY <3>1 DEF IInv, InLine
    <3> QED
      BY <3>2 DEF IInv, TypeOK
  <2>3. /\ credited'[work[a]] >= 1
        /\ \A w \in Works : credited'[w] >= credited[w]
    BY <2>1, <2>2
  <2>4. \A w \in pow : credited'[w] >= 1
    <3> SUFFICES ASSUME NEW w \in pow PROVE credited'[w] >= 1
      OBVIOUS
    <3>1. \A b \in Attempts : Head(chain) = <<"share", b>> => b = a
      BY <2>1
    <3>2. credited[w] >= 1 \/ w = work[a]
      BY <3>1 DEF Counted
    <3>3. credited[w] \in Nat /\ credited'[w] \in Nat /\ w \in Works
      BY <2>1, <2>2
    <3> QED
      BY <2>3, <3>2, <3>3
  <2>5. \A w \in told' : credited'[w] >= 1
    <3> SUFFICES ASSUME NEW w \in told' PROVE credited'[w] >= 1
      OBVIOUS
    <3>1. credited[w] \in Nat /\ credited'[w] \in Nat /\ w \in Works
      BY <2>1, <2>2
    <3>2. credited[w] >= 1 \/ w = work[a]
      BY <2>1 DEF Counted, ToldIsCredited
    <3> QED
      BY <2>3, <3>1, <3>2
  <2> QED
    BY <2>1, <2>4, <2>5 DEF Counted, ToldIsCredited
<1>6. ASSUME NEW s \in Solves, BlockRecorded(s) PROVE Counted'
  <2>1. /\ chain # <<>> /\ Head(chain) = <<"block", s>> /\ pow' \subseteq pow
        /\ UNCHANGED <<up, crashes, credited, work, told, adding>>
    BY <1>6 DEF BlockRecorded, Head_, share
  <2>2. \A a : <<"share", a>> # <<"block", s>>
    OBVIOUS
  <2>3. \A w \in pow : credited[w] >= 1
    BY <2>1, <2>2 DEF Counted
  <2> QED
    BY <2>1, <2>3 DEF Counted, ToldIsCredited
<1>7. CASE \/ Rival \/ Poll
           \/ \E i \in 1..MaxPolls : Template(i)
           \/ \E a \in Attempts : HashRejected(a) \/ Retry(a)
           \/ \E s \in Solves, step \in {"keep", "drop"} : Removes(s, step)
           \/ \E d \in Drains : DrainStarts(d)
           \/ \E d \in Drains, s \in Solves, step \in {"keep", "drop"} : DrainRemoves(d, s, step)
           \/ UNCHANGED vars
  <2>1. UNCHANGED <<up, crashes, pow, told, credited, adding, chain, work>>
    BY <1>7 DEF Rival, Poll, Template, HashRejected, Retry, Removes, DrainStarts,
      DrainRemoves, vars,
       redis, share, acct
  <2> QED
    BY <2>1, CountStands
<1>8. ~Crash /\ ~Restart
  BY DEF Counted, Crash, Restart
<1> QED
  BY <1>1, <1>2, <1>3, <1>4, <1>5, <1>6, <1>7, <1>8 DEF Next, ShareSteps, ChainSteps, DrainSteps

\* A share answered `valid` is in a round (processShare records it before it answers),
\* while the pool runs and no command of recordShare is lost.
THEOREM ToldAreCredited ==
  ASSUME MaxCrashes = 0, LostWrites \cap {"claim", "add"} = {}
  PROVE  Spec => []ToldIsCredited
<1>1. Init => Counted
  BY DEF Init, Counted, ToldIsCredited
<1>2. IInv /\ Counted /\ [Next]_vars => Counted'
  BY CountStep
<1>3. Counted => ToldIsCredited
  BY DEF Counted
<1> QED
  BY <1>1, <1>2, <1>3, InvariantHolds, PTL DEF Spec

-----------------------------------------------------------------------------
(* A block of ours is not forgotten.                                        *)

\* A step that gives the node no block of ours and loses none on its way.
LEMMA NoneForgotten ==
  ASSUME Remembered, UNCHANGED <<up, crashes, onChain>>, recorded \subseteq recorded',
         \A a \in Attempts : pc[a] = "record" /\ won[a] =>
                               pc'[a] = "record" /\ won'[a] /\ work'[a] = work[a],
         \A i \in 1..Len(chain) : \E j \in 1..Len(chain') : chain'[j] = chain[i]
  PROVE  Remembered'
  BY ZenonT(60) DEF Remembered

\* A credited share passes its block on.
LEMMA CreditRemembers ==
  ASSUME IInv, Remembered, NEW a \in Attempts, chain # <<>>, Head(chain) = <<"share", a>>,
         Credited(a), UNCHANGED <<up, crashes, onChain, recorded, work>>
  PROVE  Remembered'
<1>1. /\ pc[a] = "record" /\ UNCHANGED won /\ \A b \in Attempts \ {a} : pc'[b] = pc[b]
      /\ chain' \in Seq(Tasks)
  BY CreditType
<1>2. /\ Len(chain) \in Nat /\ Len(chain) > 0 /\ chain[1] = <<"share", a>>
      /\ \/ ~won[a] /\ Len(chain') = Len(chain) - 1
         \/ /\ won[a] /\ Len(chain') = Len(chain)
            /\ chain'[Len(chain')] = <<"block", work[a]>>
      /\ \A i \in 1..(Len(chain) - 1) : chain'[i] = chain[i + 1]
  BY <1>1, CreditLine DEF IInv
<1>3. \A s : <<"share", a>> # <<"block", s>>
  OBVIOUS
<1>4. ASSUME NEW s, NEW i \in 1..Len(chain), chain[i] = <<"block", s>>
      PROVE  \E j \in 1..Len(chain') : chain'[j] = <<"block", s>>
  <2>1. i # 1
    BY <1>2, <1>3, <1>4
  <2>2. i - 1 \in 1..(Len(chain) - 1) /\ (i - 1) + 1 = i /\ i - 1 \in 1..Len(chain')
    BY <1>2, <2>1
  <2>3. chain'[i - 1] = chain[i]
    BY <1>2, <2>2
  <2> QED
    BY <1>4, <2>2, <2>3
<1>5. won[a] => \E j \in 1..Len(chain') : chain'[j] = <<"block", work[a]>>
  BY <1>2
<1> QED
  BY <1>1, <1>4, <1>5 DEF Remembered

\* While the pool runs, the node answers and recordShare and recordBlock do not fail,
\* every step keeps our blocks on their way.
LEMMA RememberStep ==
  ASSUME IInv, Remembered, MaxCrashes = 0, ~NodeSilent, LostWrites \cap {"claim", "block"} = {},
         [Next]_vars
  PROVE  Remembered'
<1>1. ASSUME NEW s, NEW v, Offered(s, v)
      PROVE  v # "unanswered" /\ onChain' = IF v = "accepted" THEN onChain \cup {s} ELSE onChain
  <2>1. v = Says(s) /\ Says(s) # "unanswered"
    BY <1>1 DEF Offered, Verdicts, Says
  <2> QED
    BY <1>1, <2>1 DEF Offered, Takes
<1>2. ASSUME NEW t \in Tasks, chain' = Append(chain, t)
      PROVE  /\ \A i \in 1..Len(chain) : \E j \in 1..Len(chain') : chain'[j] = chain[i]
             /\ \E j \in 1..Len(chain') : chain'[j] = t
  <2>1. /\ Len(chain) \in Nat /\ Len(chain') = Len(chain) + 1 /\ chain'[Len(chain) + 1] = t
        /\ \A i \in 1..Len(chain) : chain'[i] = chain[i]
    BY <1>2, Joins, LenProperties DEF IInv, TypeOK
  <2>2. /\ Len(chain) + 1 \in 1..Len(chain')
        /\ \A i \in 1..Len(chain) : i \in 1..Len(chain')
    BY <2>1
  <2> QED
    BY <2>1, <2>2
<1>3. ASSUME NEW a \in Attempts, NEW v, Verdict(a, v) PROVE Remembered'
  <2>1. /\ Offered(work[a], v) /\ chain' = Append(chain, <<"share", a>>) /\ pc[a] = "offer"
        /\ pc' = [pc EXCEPT ![a] = "record"] /\ won' = [won EXCEPT ![a] = (v = "accepted")]
        /\ UNCHANGED <<up, crashes, recorded, work>>
    BY <1>3 DEF Verdict
  <2>2. <<"share", a>> \in Tasks
    BY DEF Tasks
  <2>3. \A i \in 1..Len(chain) : \E j \in 1..Len(chain') : chain'[j] = chain[i]
    BY <1>2, <2>1, <2>2
  <2>4. \A b \in Attempts : pc[b] = "record" /\ won[b] => pc'[b] = "record" /\ won'[b]
    BY <2>1 DEF IInv, TypeOK
  <2>5. v = "accepted" => pc'[a] = "record" /\ won'[a]
    BY <2>1 DEF IInv, TypeOK
  <2>6. onChain' = IF v = "accepted" THEN onChain \cup {work[a]} ELSE onChain
    BY <1>1, <2>1
  <2>7. ASSUME NEW s \in onChain'
        PROVE  \/ s \in recorded'
               \/ \E b \in Attempts : work'[b] = s /\ pc'[b] = "record" /\ won'[b]
               \/ \E j \in 1..Len(chain') : chain'[j] = <<"block", s>>
    <3>1. CASE s \in onChain
      <4>1. CASE \E i \in 1..Len(chain) : chain[i] = <<"block", s>>
        BY <2>3, <4>1
      <4> QED
        BY <2>1, <2>4, <3>1, <4>1 DEF Remembered
    <3>2. CASE s \notin onChain
      BY <2>1, <2>5, <2>6, <3>2
    <3> QED
      BY <3>1, <3>2
  <2>8. up' /\ crashes' = 0
    BY <2>1 DEF Remembered
  <2> QED
    BY <2>7, <2>8 DEF Remembered
<1>4. ASSUME NEW d \in Drains, NEW s \in Solves, NEW v, DrainVerdict(d, s, v) PROVE Remembered'
  <2>1. /\ Offered(s, v) /\ UNCHANGED <<up, crashes, recorded, work, pc, won>>
        /\ chain' = IF Recovered(v) THEN Append(chain, <<"block", s>>) ELSE chain
    BY <1>4 DEF DrainVerdict, share
  <2>2. <<"block", s>> \in Tasks
    BY DEF Tasks
  <2>3. /\ \A i \in 1..Len(chain) : \E j \in 1..Len(chain') : chain'[j] = chain[i]
        /\ v = "accepted" => \E j \in 1..Len(chain') : chain'[j] = <<"block", s>>
    BY <1>2, <2>1, <2>2 DEF Recovered
  <2>4. onChain' = IF v = "accepted" THEN onChain \cup {s} ELSE onChain
    BY <1>1, <2>1
  <2>5. ASSUME NEW t \in onChain'
        PROVE  \/ t \in recorded'
               \/ \E b \in Attempts : work'[b] = t /\ pc'[b] = "record" /\ won'[b]
               \/ \E j \in 1..Len(chain') : chain'[j] = <<"block", t>>
    <3>1. CASE t \in onChain
      <4>1. CASE \E i \in 1..Len(chain) : chain[i] = <<"block", t>>
        BY <2>3, <4>1
      <4> QED
        BY <2>1, <3>1, <4>1 DEF Remembered
    <3>2. CASE t \notin onChain
      BY <2>3, <2>4, <3>2
    <3> QED
      BY <3>1, <3>2
  <2>6. up' /\ crashes' = 0
    BY <2>1 DEF Remembered
  <2> QED
    BY <2>5, <2>6 DEF Remembered
<1>5. ASSUME NEW a \in Attempts, HashRejected(a) \/ Hashed(a) \/ \E w \in Works : Submit(a, w)
      PROVE  Remembered'
  <2>1. UNCHANGED <<up, crashes, onChain, recorded, won>>
    BY <1>5 DEF HashRejected, Hashed, Submit, redis, node
  <2>2. \A b \in Attempts : pc[b] = "record" /\ won[b] => pc'[b] = "record" /\ work'[b] = work[b]
    BY <1>5 DEF IInv, TypeOK, HashRejected, Hashed, Submit
  <2>3. chain' = chain \/ chain' = Append(chain, <<"share", a>>)
    BY <1>5 DEF HashRejected, Hashed, Submit, acct
  <2>4. <<"share", a>> \in Tasks
    BY DEF Tasks
  <2>5. \A i \in 1..Len(chain) : \E j \in 1..Len(chain') : chain'[j] = chain[i]
    BY <1>2, <2>3, <2>4
  <2> QED
    BY <2>1, <2>2, <2>5, NoneForgotten
<1>6. ASSUME NEW a \in Attempts, ShareChecked(a) PROVE Remembered'
  <2>1. /\ chain # <<>> /\ Head(chain) = <<"share", a>>
        /\ UNCHANGED <<up, crashes, onChain, recorded, work>>
    BY <1>6 DEF ShareChecked, Head_, node
  <2>2. CASE UNCHANGED <<chain, pc, won>>
    BY <2>1, <2>2, NoneForgotten
  <2>3. CASE Credited(a)
    BY <2>1, <2>3, CreditRemembers
  <2> QED
    BY <1>6, <2>2, <2>3 DEF ShareChecked
<1>7. ASSUME NEW a \in Attempts, ShareAdded(a) PROVE Remembered'
  BY <1>7, CreditRemembers DEF ShareAdded, Head_, node
<1>8. ASSUME NEW s \in Solves, BlockRecorded(s) PROVE Remembered'
  <2>1. /\ chain # <<>> /\ Head(chain) = <<"block", s>> /\ chain' = Tail(chain)
        /\ s \in recorded' /\ recorded \subseteq recorded'
        /\ UNCHANGED <<up, crashes, onChain, pc, won, work>>
    BY <1>8 DEF BlockRecorded, Head_, share, node
  <2>2. /\ Len(chain) \in Nat /\ Len(chain') = Len(chain) - 1 /\ chain[1] = <<"block", s>>
        /\ \A i \in 1..Len(chain') : chain'[i] = chain[i + 1]
    BY <2>1, Leaves DEF IInv, TypeOK
  <2>3. \A i \in 2..Len(chain) : i - 1 \in 1..Len(chain') /\ chain'[i - 1] = chain[i]
    BY <2>2
  <2>4. ASSUME NEW t, NEW i \in 1..Len(chain), chain[i] = <<"block", t>>
        PROVE  t = s \/ \E j \in 1..Len(chain') : chain'[j] = <<"block", t>>
    <3>1. CASE i = 1
      BY <2>2, <2>4, <3>1
    <3>2. CASE i # 1
      BY <2>2, <2>3, <2>4, <3>2
    <3> QED
      BY <3>1, <3>2
  <2> QED
    BY <2>1, <2>4 DEF Remembered
<1>9. \A a \in Attempts : ~Retry(a)
  BY <1>1 DEF Retry
<1>10. CASE \/ Rival \/ Poll
            \/ \E i \in 1..MaxPolls : Template(i)
            \/ \E s \in Solves, step \in {"keep", "drop"} : Removes(s, step)
            \/ \E d \in Drains : DrainStarts(d)
            \/ \E d \in Drains, s \in Solves, step \in {"keep", "drop"} : DrainRemoves(d, s, step)
            \/ UNCHANGED vars
  <2>1. UNCHANGED <<up, crashes, onChain, recorded, pc, won, work, chain>>
    BY <1>10 DEF Rival, Poll, Template, Removes, DrainStarts, DrainRemoves, vars, redis, node,
      share,
       acct
  <2> QED
    BY <2>1, NoneForgotten
<1>11. ~Crash /\ ~Restart
  BY DEF Remembered, Crash, Restart
<1> QED
  BY <1>3, <1>4, <1>5, <1>6, <1>7, <1>8, <1>9, <1>10, <1>11 DEF Next, ShareSteps, ChainSteps,
    DrainSteps

\* A block of ours on the chain is recorded, spooled, or on its way to recordBlock, while
\* the pool runs, the node answers every offer, and recordShare and recordBlock do not fail.
THEOREM BlocksAreRemembered ==
  ASSUME MaxCrashes = 0, ~NodeSilent, LostWrites \cap {"claim", "block"} = {}
  PROVE  Spec => []NoBlockForgotten
<1>1. Init => Remembered
  BY DEF Init, Remembered
<1>2. IInv /\ Remembered /\ [Next]_vars => Remembered'
  BY RememberStep
<1>3. IInv /\ Remembered => NoBlockForgotten
  <2> SUFFICES ASSUME IInv, Remembered, NEW s \in onChain PROVE s \in recorded \/ InHand(s)
    BY DEF NoBlockForgotten
  <2>1. DOMAIN chain = 1..Len(chain)
    BY LenProperties DEF IInv, TypeOK
  <2> QED
    BY <2>1 DEF Remembered, InHand, ToSet
<1> QED
  BY <1>1, <1>2, <1>3, InvariantHolds, PTL DEF Spec

=============================================================================
