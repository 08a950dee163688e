-------------------------- MODULE PoolBlocksProofs --------------------------
(***************************************************************************)
(* Block accounting, for any blocks, shares and payees.  While one process *)
(* checks the pending blocks, each payee is credited once and only for a   *)
(* block that is buried; while one process does all of it, a live round is *)
(* never wiped, the life of a block is that of BlockLedger, and in weather *)
(* without failures the fee total is exact.                                *)
(*                                                                         *)
(* With two processes the first of these is false: MCPoolBlocksTwo.cfg     *)
(* shows it, for this.checking is a guard within one process.              *)
(***************************************************************************)
EXTENDS PoolBlocks, TLAPS

\* Where a run of checkPendingBlocks can be.
Steps == {"idle", "walk", "update", "mature", "orphan", "credit", "refund"}

\* The timer and the shutdown handler run in one process.
OneOwner == \A c, d \in Checkers : Owner[c] = Owner[d]

\* There is one pool process.
OneProcess == \A p, q \in Procs : p = q

-----------------------------------------------------------------------------
(* The invariant.                                                           *)

\* Every variable has its type.
TypeOK ==
  /\ round \subseteq Shares /\ worked \subseteq Shares
  /\ pending \subseteq Blocks /\ confirmed \subseteq Blocks /\ failed \subseteq Blocks
  /\ table \in [Blocks -> SUBSET Shares]
  /\ maturing \in [Blocks -> Nat] /\ orphaned \in [Blocks -> Nat] /\ fees \in [Blocks -> Int]
  /\ credits \in [Blocks -> [Shares -> Nat]]
  /\ chain \in [Blocks -> Places]
  /\ up \in [Procs -> BOOLEAN] /\ checking \in [Procs -> BOOLEAN]
  /\ rec \in [Procs -> {"idle", "check", "read", "write"}]
  /\ recBlock \in [Procs -> Blocks \cup {None}] /\ recTable \in [Procs -> SUBSET Shares]
  /\ recPipe \in [Procs -> SUBSET {"pending", "round", "fee"}]
  /\ pc \in [Checkers -> Steps] /\ todo \in [Checkers -> SUBSET Blocks]
  /\ cur \in [Checkers -> Blocks \cup {None}]
  /\ pipe \in [Checkers -> SUBSET (Shares \cup {"confirm", "unmark"})]

\* The guard holds for as long as a run does, and there is one run at most.
OneCheck ==
  /\ \A c \in Checkers : pc[c] # "idle" => checking[Owner[c]]
  /\ \A c, d \in Checkers : pc[c] # "idle" /\ pc[d] # "idle" => c = d

\* A block that recordBlock works on is young, or paid and about to be refused.
Hands ==
  \A p \in Procs : rec[p] # "idle" =>
    /\ recBlock[p] \in Blocks
    /\ \/ chain[recBlock[p]] \in {"shallow", "back"}
       \/ rec[p] = "check" /\ recBlock[p] \in confirmed

\* Nothing leaves blocks:pending behind the back of the run that walks it.
Snapshot ==
  \A c \in Checkers :
    /\ todo[c] \subseteq pending /\ (pc[c] = "idle" => todo[c] = {})
    /\ pc[c] \notin {"idle", "walk"} => cur[c] \in Blocks \ todo[c]
    /\ pc[c] \in {"update", "mature", "orphan"} => cur[c] \in pending

\* What is credited, or on its way to it, is of a buried block.
Buried ==
  /\ \A c \in Checkers : pc[c] \in {"mature", "credit"} => chain[cur[c]] = "deep"
  /\ \A b \in Blocks :
       b \in confirmed \/ maturing[b] > 0 \/ (\E s \in Shares : credits[b][s] > 0)
         => chain[b] = "deep"

\* An owed block has not been credited to anybody.
Unpaid ==
  \A b \in pending : /\ b \notin confirmed /\ maturing[b] = 0
                     /\ \A s \in Shares : credits[b][s] = 0

\* What the pipeline of credits still holds is what is still missing.
Crediting ==
  \A c \in Checkers : pc[c] = "credit" =>
    /\ cur[c] \notin pending /\ maturing[cur[c]] = 1
    /\ "unmark" \in pipe[c]
    /\ cur[c] \in confirmed <=> "confirm" \notin pipe[c]
    /\ "confirm" \notin pipe[c] => pipe[c] = {"unmark"}
    /\ pipe[c] \cap Shares \subseteq table[cur[c]]
    /\ \A s \in Shares :
         credits[cur[c]][s] = IF s \in table[cur[c]] \ pipe[c] THEN 1 ELSE 0

IInv == /\ TypeOK /\ OneCheck /\ Hands /\ Snapshot
        /\ Buried /\ Unpaid /\ Crediting /\ CreditedOnce

\* A block that is written off, or about to be, is not where it was found.
Left ==
  /\ \A b \in pending : chain[b] # "none"
  /\ \A b \in Blocks : orphaned[b] > 0 => chain[b] \notin {"none", "shallow"}
  /\ \A c \in Checkers : pc[c] = "orphan" => chain[cur[c]] \notin {"none", "shallow"}

\* The payouts are computed from a round that stands still until it is deleted, and
\* their record is written before that.
Recording ==
  /\ round \subseteq worked
  /\ \A p \in Procs :
       /\ rec[p] = "write" => "fee" \in recPipe[p] /\ round \subseteq recTable[p]
       /\ "pending" \in recPipe[p] => "round" \in recPipe[p]
       /\ rec[p] = "read" \/ (rec[p] = "write" /\ "pending" \in recPipe[p])
            => recBlock[p] \notin pending

\* The record stays until the round is deleted.
Recorded ==
  /\ \A p \in Procs : rec[p] = "write" /\ "pending" \notin recPipe[p]
        => recBlock[p] \in pending /\ table[recBlock[p]] = recTable[p]
  /\ \A p \in Procs, c \in Checkers :
        rec[p] \in {"read", "write"} /\ pc[c] = "orphan" => recBlock[p] # cur[c]

-----------------------------------------------------------------------------
(* What a claim, a credit and the end of a run do.                          *)

\* A run that ends leaves every checker idle, for it was the only one.
LEMMA EndsCheck ==
  ASSUME TypeOK, OneCheck, NEW c \in Checkers, pc[c] # "idle", CheckEnds(c)
  PROVE  /\ OneCheck' /\ \A d \in Checkers : pc'[d] = "idle"
         /\ pc' \in [Checkers -> Steps] /\ todo' \in [Checkers -> SUBSET Blocks]
         /\ cur' \in [Checkers -> Blocks \cup {None}]
         /\ pipe' \in [Checkers -> SUBSET (Shares \cup {"confirm", "unmark"})]
         /\ checking' \in [Procs -> BOOLEAN]
         /\ \A d \in Checkers : todo'[d] = {} \/ todo'[d] = todo[d]
<1>1. \A d \in Checkers : pc'[d] = "idle"
  BY DEF TypeOK, OneCheck, CheckEnds, Next1
<1>2. OneCheck'
  BY <1>1 DEF OneCheck
<1>3. checking' \in [Procs -> BOOLEAN]
  BY ConstantsAssumption DEF TypeOK, CheckEnds
<1> QED
  BY <1>1, <1>2, <1>3 DEF TypeOK, CheckEnds, Next1, Steps

\* A run that goes on stays the only one.
LEMMA StepsCheck ==
  ASSUME TypeOK, OneCheck, NEW c \in Checkers, pc[c] # "idle", NEW step \in Steps,
         Next1(c, step), UNCHANGED checking
  PROVE  /\ OneCheck' /\ pc' \in [Checkers -> Steps] /\ pc'[c] = step
         /\ \A d \in Checkers \ {c} : pc[d] = "idle" /\ pc'[d] = "idle"
  BY DEF TypeOK, OneCheck, Next1

\* The claim of a run is won: nothing took the block out of its hands.
LEMMA ClaimIsWon ==
  ASSUME IInv, NEW c \in Checkers, pc[c] \in {"mature", "orphan"},
         NEW then \in {"credit", "refund"}, Claim(c, then)
  PROVE  /\ cur[c] \in pending /\ pending' = pending \ {cur[c]}
         /\ OneCheck' /\ \A d \in Checkers : todo'[d] \in {todo[d], {}}
         /\ pc' \in [Checkers -> Steps] /\ todo' \in [Checkers -> SUBSET Blocks]
         /\ cur' \in [Checkers -> Blocks \cup {None}]
         /\ pipe' \in [Checkers -> SUBSET (Shares \cup {"confirm", "unmark"})]
         /\ checking' \in [Procs -> BOOLEAN]
         /\ \A d \in Checkers : pc'[d] # "idle" =>
              /\ d = c /\ pc'[d] = then /\ cur'[d] = cur[d] /\ todo'[d] = todo[d]
              /\ then = "credit" => pipe'[d] = table[cur[d]] \cup {"confirm", "unmark"}
         /\ \A d \in Checkers : pc'[d] = "idle" => todo'[d] = {}
<1>1. /\ TypeOK /\ OneCheck /\ Snapshot /\ pc[c] # "idle" /\ cur[c] \in pending
      /\ then \in Steps /\ cur[c] \in Blocks
  BY DEF IInv, Snapshot, Steps, TypeOK
<1>2. /\ pending' = pending \ {cur[c]}
      /\ \/ /\ Next1(c, then)
            /\ pipe' = [pipe EXCEPT ![c] = IF then = "credit"
                          THEN table[cur[c]] \cup {"confirm", "unmark"} ELSE {}]
            /\ UNCHANGED <<todo, cur, checking>>
         \/ CheckEnds(c)
  BY <1>1 DEF Claim
<1>3. CASE CheckEnds(c)
  <2>1. /\ OneCheck' /\ \A d \in Checkers : pc'[d] = "idle"
        /\ \A d \in Checkers : todo'[d] = {}
    <3>1. \A d \in Checkers : d # c => pc[d] = "idle"
      BY <1>1 DEF OneCheck
    <3> QED
      BY <1>1, <1>3, <3>1, EndsCheck DEF Snapshot, CheckEnds, TypeOK
  <2> QED
    BY <1>1, <1>2, <1>3, <2>1, EndsCheck
<1>4. CASE /\ Next1(c, then)
           /\ pipe' = [pipe EXCEPT ![c] = IF then = "credit"
                         THEN table[cur[c]] \cup {"confirm", "unmark"} ELSE {}]
           /\ UNCHANGED <<todo, cur, checking>>
  <2>1. /\ OneCheck' /\ pc' \in [Checkers -> Steps] /\ pc'[c] = then
        /\ \A d \in Checkers \ {c} : pc[d] = "idle" /\ pc'[d] = "idle"
    BY <1>1, <1>4, StepsCheck
  <2>2. table[cur[c]] \subseteq Shares
    BY <1>1 DEF TypeOK
  <2>3. pipe' \in [Checkers -> SUBSET (Shares \cup {"confirm", "unmark"})]
    BY <1>1, <1>4, <2>2 DEF TypeOK
  <2>4. then = "credit" => pipe'[c] = table[cur[c]] \cup {"confirm", "unmark"}
    BY <1>1, <1>4 DEF TypeOK
  <2>5. then # "idle"
    OBVIOUS
  <2> QED
    BY <1>1, <1>2, <1>4, <2>1, <2>3, <2>4, <2>5 DEF TypeOK, Snapshot
<1> QED
  BY <1>2, <1>3, <1>4

\* One command of the pipeline of credits.
LEMMA CreditCases ==
  ASSUME IInv, NEW c \in Checkers, CreditStep(c)
  PROVE  LET b == cur[c] IN
         /\ b \in Blocks /\ b \notin pending /\ pending' = pending
         /\ UNCHANGED <<table, cur>>
         /\ \A d \in Blocks \ {b} : credits'[d] = credits[d] /\ maturing'[d] = maturing[d]
         /\ confirmed' \subseteq confirmed \cup {b} /\ confirmed \subseteq confirmed'
         /\ credits' \in [Blocks -> [Shares -> Nat]] /\ maturing' \in [Blocks -> Nat]
         /\ pipe' \in [Checkers -> SUBSET (Shares \cup {"confirm", "unmark"})]
         /\ pc' \in [Checkers -> Steps]
         /\ \A s \in Shares : credits'[b][s] <= 1
         /\ \A d \in Checkers : pc'[d] \in {"mature", "credit"} => pc'[d] = pc[d]
         /\ \A d \in Checkers : pc[d] # "idle" => d = c
         /\ pc'[c] = "credit" =>
              /\ maturing'[b] = 1 /\ "unmark" \in pipe'[c]
              /\ b \in confirmed' <=> "confirm" \notin pipe'[c]
              /\ "confirm" \notin pipe'[c] => pipe'[c] = {"unmark"}
              /\ pipe'[c] \cap Shares \subseteq table[b]
              /\ \A s \in Shares : credits'[b][s] = IF s \in table[b] \ pipe'[c] THEN 1 ELSE 0
<1> DEFINE b == cur[c]
<1>1. /\ TypeOK /\ pc[c] = "credit" /\ b \in Blocks /\ UNCHANGED <<pending, table, cur>>
      /\ \A d \in Checkers : pc[d] # "idle" => d = c
  BY DEF IInv, CreditStep, Snapshot, OneCheck
<1>2. /\ b \notin pending /\ maturing[b] = 1 /\ "unmark" \in pipe[c]
      /\ b \in confirmed <=> "confirm" \notin pipe[c]
      /\ "confirm" \notin pipe[c] => pipe[c] = {"unmark"}
      /\ pipe[c] \cap Shares \subseteq table[b]
      /\ \A s \in Shares : credits[b][s] = IF s \in table[b] \ pipe[c] THEN 1 ELSE 0
  BY <1>1 DEF IInv, Crediting
<1>3. "confirm" \notin Shares /\ "unmark" \notin Shares
  BY ConstantsAssumption
<1>4. CASE /\ \E s \in pipe[c] \cap Shares : /\ credits' = [credits EXCEPT ![b][s] = @ + 1]
                                             /\ pipe' = [pipe EXCEPT ![c] = @ \ {s}]
           /\ UNCHANGED <<confirmed, maturing, pc>>
  <2>1. PICK s \in pipe[c] \cap Shares : /\ credits' = [credits EXCEPT ![b][s] = @ + 1]
                                         /\ pipe' = [pipe EXCEPT ![c] = @ \ {s}]
    BY <1>4
  <2>2. s \in table[b] /\ credits[b][s] = 0 /\ pipe'[c] = pipe[c] \ {s}
    BY <1>1, <1>2, <2>1 DEF TypeOK
  <2>3. /\ credits' \in [Blocks -> [Shares -> Nat]] /\ credits'[b][s] = 1
        /\ \A d \in Blocks \ {b} : credits'[d] = credits[d]
        /\ \A t \in Shares \ {s} : credits'[b][t] = credits[b][t]
    BY <1>1, <2>1, <2>2 DEF TypeOK
  <2>4. "confirm" \in pipe[c]
    BY <1>2, <1>3, <2>1
  <2>5. \A t \in Shares : credits'[b][t] = IF t \in table[b] \ pipe'[c] THEN 1 ELSE 0
    BY <1>2, <2>2, <2>3
  <2>6. /\ "unmark" \in pipe'[c] /\ "confirm" \in pipe'[c]
        /\ pipe' \in [Checkers -> SUBSET (Shares \cup {"confirm", "unmark"})]
    BY <1>1, <1>2, <1>3, <2>1, <2>2, <2>4 DEF TypeOK
  <2>7. \A t \in Shares : credits'[b][t] <= 1
    BY <2>5
  <2>8. b \in confirmed' <=> "confirm" \notin pipe'[c]
    BY <1>2, <1>4, <2>4, <2>6
  <2>9. /\ pc' \in [Checkers -> Steps] /\ maturing' \in [Blocks -> Nat]
        /\ pipe'[c] \cap Shares \subseteq table[b] /\ "confirm" \in pipe'[c]
    BY <1>1, <1>2, <1>4, <2>2, <2>6 DEF TypeOK
  <2> HIDE DEF b
  <2> QED
    BY <1>1, <1>2, <1>4, <2>3, <2>5, <2>6, <2>7, <2>8, <2>9 DEF b
<1>5. CASE /\ pipe[c] = {"confirm", "unmark"}
           /\ confirmed' = confirmed \cup {b} /\ pipe' = [pipe EXCEPT ![c] = {"unmark"}]
           /\ UNCHANGED <<credits, maturing, pc>>
  <2>1. \A s \in Shares : s \notin pipe[c] /\ s \notin {"unmark"}
    BY <1>3, <1>5
  <2>2. pipe'[c] = {"unmark"} /\ "confirm" # "unmark"
        /\ pipe' \in [Checkers -> SUBSET (Shares \cup {"confirm", "unmark"})]
    BY <1>1, <1>5 DEF TypeOK
  <2>3. \A s \in Shares : credits[b][s] <= 1
    BY <1>2
  <2> QED
    BY <1>1, <1>2, <1>5, <2>1, <2>2, <2>3 DEF TypeOK
<1>6. CASE /\ maturing' = [maturing EXCEPT ![b] = @ - 1] /\ pipe' = [pipe EXCEPT ![c] = {}]
           /\ Next1(c, "walk") /\ UNCHANGED <<credits, confirmed>>
  <2>1. maturing' \in [Blocks -> Nat] /\ \A d \in Blocks \ {b} : maturing'[d] = maturing[d]
    BY <1>1, <1>2, <1>6 DEF TypeOK
  <2>2. /\ pc' \in [Checkers -> Steps] /\ pc'[c] = "walk"
        /\ \A d \in Checkers \ {c} : pc'[d] = pc[d]
        /\ pipe' \in [Checkers -> SUBSET (Shares \cup {"confirm", "unmark"})]
    BY <1>1, <1>6 DEF TypeOK, Next1, Steps
  <2>3. \A s \in Shares : credits[b][s] <= 1
    BY <1>2
  <2> QED
    BY <1>1, <1>2, <1>6, <2>1, <2>2, <2>3 DEF TypeOK
<1> QED
  BY <1>4, <1>5, <1>6 DEF CreditStep

-----------------------------------------------------------------------------
(* Every action preserves the invariant.                                    *)

\* The chain does not bury a block that recordBlock works on, so an owed block stays unpaid.
LEMMA ChainMovesInv ==
  ASSUME IInv, PromptOffers, NEW b \in Blocks, ChainMoves(b)
  PROVE  IInv'
<1>1. TypeOK'
  BY DEF IInv, TypeOK, ChainMoves, Places, redis, chainer, checker
<1>2. Hands'
  BY DEF IInv, TypeOK, Hands, InHand, Moves, Buried, Places, ChainMoves, redis, chainer
<1>3. Buried'
  BY DEF IInv, TypeOK, Buried, Snapshot, Moves, Places, ChainMoves, redis, checker
<1>4. OneCheck' /\ Snapshot' /\ Unpaid' /\ Crediting' /\ CreditedOnce'
  BY DEF IInv, OneCheck, Snapshot, Unpaid, Crediting, CreditedOnce, ChainMoves, redis,
      checker
<1> QED
  BY <1>1, <1>2, <1>3, <1>4 DEF IInv

\* recordShare touches no block.
LEMMA WorkInv ==
  ASSUME IInv, NEW p \in Procs, NEW s \in Shares, Work(p, s)
  PROVE  IInv'
<1>1. TypeOK'
  BY DEF IInv, TypeOK, Work, chainer, checker
<1>2. OneCheck' /\ Hands' /\ Snapshot' /\ Buried' /\ Unpaid' /\ Crediting' /\ CreditedOnce'
  BY DEF IInv, OneCheck, Hands, Snapshot, Buried, Unpaid, Crediting, CreditedOnce, Work,
      chainer, checker
<1> QED
  BY <1>1, <1>2 DEF IInv

\* recordBlock is called for a block of the chain that is young, or for one already paid.
LEMMA OfferInv ==
  ASSUME IInv, PromptOffers, NEW p \in Procs, NEW b \in Blocks, Offer(p, b)
  PROVE  IInv'
<1>1. TypeOK'
  BY DEF IInv, TypeOK, Offer, redis, checker
<1>2. Hands'
  BY DEF IInv, TypeOK, Hands, Buried, Offer, redis
<1>3. OneCheck' /\ Snapshot' /\ Buried' /\ Unpaid' /\ Crediting' /\ CreditedOnce'
  BY DEF IInv, OneCheck, Snapshot, Buried, Unpaid, Crediting, CreditedOnce, Offer, redis,
      checker
<1> QED
  BY <1>1, <1>2, <1>3 DEF IInv

\* recordBlock goes on only with a block that is neither pending nor confirmed.
LEMMA CheckKnownInv ==
  ASSUME IInv, NEW p \in Procs, CheckKnown(p)
  PROVE  IInv'
<1>1. TypeOK'
  BY DEF IInv, TypeOK, CheckKnown, RecEnds, redis, checker
<1>2. Hands'
  BY DEF IInv, TypeOK, Hands, CheckKnown, RecEnds, redis
<1>3. OneCheck' /\ Snapshot' /\ Buried' /\ Unpaid' /\ Crediting' /\ CreditedOnce'
  BY DEF IInv, OneCheck, Snapshot, Buried, Unpaid, Crediting, CreditedOnce, CheckKnown,
      redis, checker
<1> QED
  BY <1>1, <1>2, <1>3 DEF IInv

\* The payout table is computed in memory.
LEMMA ReadSharesInv ==
  ASSUME IInv, NEW p \in Procs, ReadShares(p)
  PROVE  IInv'
<1>1. TypeOK'
  BY DEF IInv, TypeOK, ReadShares, Contributors, redis, checker
<1>2. Hands'
  BY DEF IInv, TypeOK, Hands, ReadShares, Contributors, redis
<1>3. OneCheck' /\ Snapshot' /\ Buried' /\ Unpaid' /\ Crediting' /\ CreditedOnce'
  BY DEF IInv, OneCheck, Snapshot, Buried, Unpaid, Crediting, CreditedOnce, ReadShares,
      redis, checker
<1> QED
  BY <1>1, <1>2, <1>3 DEF IInv

\* A refused computation only parks the block.
LEMMA ParkInv ==
  ASSUME IInv, NEW p \in Procs, Park(p)
  PROVE  IInv'
<1>1. TypeOK'
  BY DEF IInv, TypeOK, Park, RecEnds, Hands, checker
<1>2. Hands'
  BY DEF IInv, TypeOK, Hands, Park, RecEnds
<1>3. OneCheck' /\ Snapshot' /\ Buried' /\ Unpaid' /\ Crediting' /\ CreditedOnce'
  BY DEF IInv, OneCheck, Snapshot, Buried, Unpaid, Crediting, CreditedOnce, Park, checker
<1> QED
  BY <1>1, <1>2, <1>3 DEF IInv

\* The pipeline of recordBlock makes a block owed that nobody was credited for.
LEMMA WriteInv ==
  ASSUME IInv, NEW p \in Procs, Write(p)
  PROVE  IInv'
<1>1. TypeOK'
  <2>1. TypeOK /\ recBlock[p] \in Blocks /\ recTable[p] \subseteq Shares
    BY DEF IInv, TypeOK, Hands, Write
  <2>2. /\ pending' \subseteq Blocks /\ round' \subseteq Shares
        /\ table' \in [Blocks -> SUBSET Shares] /\ fees' \in [Blocks -> Int]
    BY <2>1 DEF Write, TypeOK
  <2>3. /\ rec' \in [Procs -> {"idle", "check", "read", "write"}]
        /\ recBlock' \in [Procs -> Blocks \cup {None}] /\ recTable' \in [Procs -> SUBSET Shares]
        /\ recPipe' \in [Procs -> SUBSET {"pending", "round", "fee"}]
    <3>1. CASE RecEnds(p)
      BY <2>1, <3>1 DEF RecEnds, TypeOK
    <3>2. CASE /\ \E x \in {"pending", "round"} : recPipe' = [recPipe EXCEPT ![p] = @ \ {x}]
               /\ UNCHANGED <<rec, recBlock, recTable>>
      BY <2>1, <3>2 DEF TypeOK
    <3> QED
      BY <3>1, <3>2 DEF Write
  <2> QED
    BY <2>1, <2>2, <2>3 DEF Write, TypeOK, checker
<1>2. Hands'
  BY DEF IInv, TypeOK, Hands, Write, RecEnds
<1>3. Snapshot'
  BY DEF IInv, TypeOK, Snapshot, Write, RecEnds, checker
<1>4. Unpaid'
  <2>1. /\ TypeOK /\ Hands /\ Buried /\ Unpaid /\ pending' \subseteq pending \cup {recBlock[p]}
        /\ rec[p] = "write" /\ UNCHANGED <<confirmed, maturing, credits>>
    BY DEF IInv, Write
  <2>2. recBlock[p] \in Blocks /\ chain[recBlock[p]] # "deep"
    BY <2>1 DEF Hands
  <2>3. /\ recBlock[p] \notin confirmed /\ maturing[recBlock[p]] = 0
        /\ \A s \in Shares : credits[recBlock[p]][s] = 0
    BY <2>1, <2>2 DEF Buried, TypeOK
  <2> QED
    BY <2>1, <2>3 DEF Unpaid
<1>5. Crediting'
  <2>1. /\ TypeOK /\ Hands /\ Buried /\ Crediting /\ pending' \subseteq pending \cup {recBlock[p]}
        /\ rec[p] = "write" /\ UNCHANGED <<confirmed, maturing, credits, pc, cur, pipe>>
        /\ table' = table \/ table' = [table EXCEPT ![recBlock[p]] = recTable[p]]
    BY DEF IInv, Write, checker
  <2>2. recBlock[p] \in Blocks /\ chain[recBlock[p]] # "deep"
    BY <2>1 DEF Hands
  <2>3. \A c \in Checkers : pc[c] = "credit" => cur[c] # recBlock[p]
    BY <2>1, <2>2 DEF Buried
  <2>4. \A c \in Checkers : pc[c] = "credit" => cur[c] \in Blocks
    BY DEF IInv, Snapshot
  <2>5. \A c \in Checkers : pc[c] = "credit" => table'[cur[c]] = table[cur[c]]
    BY <2>1, <2>3, <2>4 DEF TypeOK
  <2> QED
    BY <2>1, <2>3, <2>5 DEF Crediting
<1>6. OneCheck' /\ Buried' /\ CreditedOnce'
  BY DEF IInv, OneCheck, Buried, CreditedOnce, Write, checker
<1> QED
  BY <1>1, <1>2, <1>3, <1>4, <1>5, <1>6 DEF IInv

\* An await of recordBlock that rejects leaves what its pipeline had applied.
LEMMA RecFailsInv ==
  ASSUME IInv, NEW p \in Procs, RecFails(p)
  PROVE  IInv'
<1>1. TypeOK'
  BY DEF IInv, TypeOK, RecFails, RecEnds, redis, checker
<1>2. Hands'
  BY DEF IInv, TypeOK, Hands, RecFails, RecEnds, redis
<1>3. OneCheck' /\ Snapshot' /\ Buried' /\ Unpaid' /\ Crediting' /\ CreditedOnce'
  BY DEF IInv, OneCheck, Snapshot, Buried, Unpaid, Crediting, CreditedOnce, RecFails, redis,
      checker
<1> QED
  BY <1>1, <1>2, <1>3 DEF IInv

\* The guard this.checking admits a run only when no other walks the blocks.
LEMMA StartCheckInv ==
  ASSUME IInv, OneOwner, NEW c \in Checkers, StartCheck(c)
  PROVE  IInv'
<1>1. TypeOK'
  BY ConstantsAssumption DEF IInv, TypeOK, StartCheck, Steps, redis, chainer
<1>2. OneCheck'
  <2>1. /\ TypeOK /\ ~checking[Owner[c]] /\ checking' = [checking EXCEPT ![Owner[c]] = TRUE]
        /\ pc' = [pc EXCEPT ![c] = "walk"] /\ Owner[c] \in Procs
    BY ConstantsAssumption DEF IInv, StartCheck
  <2>2. \A d \in Checkers : pc[d] = "idle"
    BY <2>1 DEF IInv, OneCheck, OneOwner
  <2>3. checking'[Owner[c]]
    BY <2>1 DEF TypeOK
  <2> QED
    BY <2>1, <2>2, <2>3 DEF TypeOK, OneCheck
<1>3. Snapshot'
  BY DEF IInv, TypeOK, Snapshot, StartCheck, redis
<1>4. Buried'
  BY DEF IInv, TypeOK, Buried, StartCheck, redis
<1>5. Crediting'
  BY DEF IInv, TypeOK, Crediting, StartCheck, redis
<1>6. Hands' /\ Unpaid' /\ CreditedOnce'
  BY DEF IInv, Hands, Unpaid, CreditedOnce, StartCheck, redis, chainer
<1> QED
  BY <1>1, <1>2, <1>3, <1>4, <1>5, <1>6 DEF IInv

\* The answer for a block decides what the run does with it, and it is still owed.
LEMMA AskNodeInv ==
  ASSUME IInv, OneOwner, NEW c \in Checkers, AskNode(c)
  PROVE  IInv'
<1>1. TypeOK'
  BY DEF IInv, TypeOK, AskNode, Next1, Verdicts, Steps, Snapshot, redis, chainer
<1>2. OneCheck'
  BY ConstantsAssumption DEF IInv, TypeOK, OneCheck, AskNode, Next1, Verdicts
<1>3. Snapshot'
  BY DEF IInv, TypeOK, Snapshot, OneCheck, AskNode, Next1, Verdicts, redis
<1>4. Buried'
  BY DEF IInv, TypeOK, Buried, AskNode, Next1, Verdicts, redis
<1>5. Crediting'
  BY DEF IInv, TypeOK, Crediting, AskNode, Next1, Verdicts, redis
<1>6. Hands' /\ Unpaid' /\ CreditedOnce'
  BY DEF IInv, Hands, Unpaid, CreditedOnce, AskNode, redis, chainer
<1> QED
  BY <1>1, <1>2, <1>3, <1>4, <1>5, <1>6 DEF IInv

\* A run that has walked its snapshot clears the guard.
LEMMA FinishInv ==
  ASSUME IInv, OneOwner, NEW c \in Checkers, Finish(c)
  PROVE  IInv'
<1>1. TypeOK'
  BY ConstantsAssumption DEF IInv, TypeOK, Finish, CheckEnds, Next1, Steps, redis, chainer
<1>2. OneCheck'
  BY ConstantsAssumption DEF IInv, TypeOK, OneCheck, Finish, CheckEnds, Next1
<1>3. Snapshot'
  BY DEF IInv, TypeOK, Snapshot, Finish, CheckEnds, Next1, redis
<1>4. Buried'
  BY DEF IInv, TypeOK, Buried, Finish, CheckEnds, Next1, redis
<1>5. Crediting'
  BY DEF IInv, TypeOK, Crediting, Finish, CheckEnds, Next1, redis
<1>6. Hands' /\ Unpaid' /\ CreditedOnce'
  BY DEF IInv, Hands, Unpaid, CreditedOnce, Finish, redis, chainer
<1> QED
  BY <1>1, <1>2, <1>3, <1>4, <1>5, <1>6 DEF IInv

\* The record that checkPendingBlocks writes back is of a block still owed.
LEMMA UpdateInv ==
  ASSUME IInv, OneOwner, NEW c \in Checkers, Update(c)
  PROVE  IInv'
<1>1. TypeOK'
  BY DEF IInv, TypeOK, Update, Next1, Steps, Snapshot, chainer
<1>2. OneCheck'
  BY ConstantsAssumption DEF IInv, TypeOK, OneCheck, Update, Next1
<1>3. Snapshot'
  BY DEF IInv, TypeOK, Snapshot, Update, Next1
<1>4. Buried'
  BY DEF IInv, TypeOK, Buried, Update, Next1
<1>5. Unpaid'
  BY DEF IInv, TypeOK, Unpaid, Snapshot, Update, Next1
<1>6. Crediting'
  BY DEF IInv, TypeOK, Crediting, OneCheck, OneOwner, Snapshot, Update, Next1
<1>7. Hands' /\ CreditedOnce'
  BY DEF IInv, Hands, CreditedOnce, Update, chainer
<1> QED
  BY <1>1, <1>2, <1>3, <1>4, <1>5, <1>6, <1>7 DEF IInv

\* The claim of _orphan takes an owed block out of pending, credited to nobody.
LEMMA ClaimOrphanInv ==
  ASSUME IInv, OneOwner, NEW c \in Checkers, ClaimOrphan(c)
  PROVE  IInv'
<1>1. TypeOK'
  <2>1. TypeOK /\ pc[c] = "orphan" /\ Claim(c, "refund")
    BY DEF IInv, ClaimOrphan
  <2>2. cur[c] \in pending
    BY <2>1, ClaimIsWon
  <2> QED
    BY <2>1, <2>2, ClaimIsWon DEF TypeOK, ClaimOrphan, Bump, chainer
<1>2. OneCheck'
  BY ClaimIsWon DEF ClaimOrphan
<1>3. Snapshot'
  <2>1. /\ TypeOK /\ OneCheck /\ Snapshot /\ pc[c] = "orphan" /\ Claim(c, "refund")
    BY DEF IInv, ClaimOrphan
  <2>2. \A d \in Checkers \ {c} : todo[d] = {}
    BY <2>1 DEF OneCheck, Snapshot
  <2>3. cur[c] \notin todo[c]
    BY <2>1 DEF Snapshot
  <2> QED
    BY <2>1, <2>2, <2>3, ClaimIsWon DEF Snapshot, TypeOK
<1>4. Buried'
  BY DEF IInv, TypeOK, Buried, ClaimOrphan, Claim, CheckEnds, Next1, Bump
<1>5. Unpaid'
  BY DEF IInv, TypeOK, Unpaid, ClaimOrphan, Claim, CheckEnds, Next1, Bump
<1>6. Crediting'
  BY DEF IInv, TypeOK, Crediting, OneCheck, ClaimOrphan, Claim, CheckEnds, Next1, Bump
<1>7. Hands' /\ CreditedOnce'
  BY DEF IInv, Hands, CreditedOnce, ClaimOrphan, chainer
<1> QED
  BY <1>1, <1>2, <1>3, <1>4, <1>5, <1>6, <1>7 DEF IInv

\* The fee that _orphan gives back touches no credit.
LEMMA RefundInv ==
  ASSUME IInv, OneOwner, NEW c \in Checkers, Refund(c)
  PROVE  IInv'
<1>1. TypeOK'
  BY DEF IInv, TypeOK, Refund, Next1, Steps, Snapshot, chainer
<1>2. OneCheck'
  BY ConstantsAssumption DEF IInv, TypeOK, OneCheck, Refund, Next1
<1>3. Snapshot'
  BY DEF IInv, TypeOK, Snapshot, Refund, Next1
<1>4. Buried'
  BY DEF IInv, TypeOK, Buried, Refund, Next1
<1>5. Crediting'
  BY DEF IInv, TypeOK, Crediting, Refund, Next1
<1>6. Hands' /\ Unpaid' /\ CreditedOnce'
  BY DEF IInv, Hands, Unpaid, CreditedOnce, Refund, chainer
<1> QED
  BY <1>1, <1>2, <1>3, <1>4, <1>5, <1>6 DEF IInv

\* The claim of _mature leaves one entry of evidence and every credit still to come.
LEMMA ClaimMatureInv ==
  ASSUME IInv, OneOwner, NEW c \in Checkers, ClaimMature(c)
  PROVE  IInv'
<1>1. TypeOK'
  <2>1. TypeOK /\ pc[c] = "mature" /\ Claim(c, "credit")
    BY DEF IInv, ClaimMature
  <2>2. cur[c] \in pending
    BY <2>1, ClaimIsWon
  <2> QED
    BY <2>1, <2>2, ClaimIsWon DEF TypeOK, ClaimMature, Bump, chainer
<1>2. OneCheck'
  BY ClaimIsWon DEF ClaimMature
<1>3. Snapshot'
  <2>1. /\ TypeOK /\ OneCheck /\ Snapshot /\ pc[c] = "mature" /\ Claim(c, "credit")
    BY DEF IInv, ClaimMature
  <2>2. \A d \in Checkers \ {c} : todo[d] = {}
    BY <2>1 DEF OneCheck, Snapshot
  <2>3. cur[c] \notin todo[c]
    BY <2>1 DEF Snapshot
  <2> QED
    BY <2>1, <2>2, <2>3, ClaimIsWon DEF Snapshot, TypeOK
<1>4. Buried'
  BY DEF IInv, TypeOK, Buried, Snapshot, ClaimMature, Claim, CheckEnds, Next1, Bump
<1>5. Unpaid'
  BY DEF IInv, TypeOK, Unpaid, Snapshot, ClaimMature, Claim, CheckEnds, Next1, Bump
<1>6. Crediting'
  <2>1. /\ TypeOK /\ Unpaid /\ Snapshot /\ Claim(c, "credit") /\ pc[c] = "mature"
        /\ maturing' = Bump(maturing, cur[c], cur[c] \in pending)
        /\ UNCHANGED <<table, confirmed, credits>>
    BY DEF IInv, ClaimMature
  <2>2. /\ cur[c] \in pending /\ pending' = pending \ {cur[c]}
        /\ \A d \in Checkers : pc'[d] = "credit" =>
             /\ d = c /\ cur'[d] = cur[d]
             /\ pipe'[d] = table[cur[d]] \cup {"confirm", "unmark"}
    BY <2>1, ClaimIsWon
  <2>3. /\ cur[c] \in Blocks /\ cur[c] \notin confirmed /\ maturing[cur[c]] = 0
        /\ \A s \in Shares : credits[cur[c]][s] = 0
    BY <2>1, <2>2 DEF Unpaid, TypeOK
  <2>4. maturing'[cur[c]] = 1
    BY <2>1, <2>2, <2>3 DEF Bump, TypeOK
  <2>5. table[cur[c]] \subseteq Shares
    BY <2>1, <2>3 DEF TypeOK
  <2> QED
    BY ConstantsAssumption, <2>1, <2>2, <2>3, <2>4, <2>5 DEF Crediting
<1>7. Hands' /\ CreditedOnce'
  BY DEF IInv, Hands, CreditedOnce, ClaimMature, chainer
<1> QED
  BY <1>1, <1>2, <1>3, <1>4, <1>5, <1>6, <1>7 DEF IInv

\* A command of _mature's pipeline credits a payee not credited yet, or ends the block.
LEMMA CreditStepInv ==
  ASSUME IInv, OneOwner, NEW c \in Checkers, CreditStep(c)
  PROVE  IInv'
<1>1. TypeOK'
  <2>1. /\ TypeOK
        /\ UNCHANGED <<round, worked, pending, table, orphaned, failed, fees, chain, up, checking,
                       chainer, todo, cur>>
    BY DEF IInv, CreditStep
  <2>2. /\ confirmed' \subseteq Blocks
        /\ credits' \in [Blocks -> [Shares -> Nat]] /\ maturing' \in [Blocks -> Nat]
        /\ pipe' \in [Checkers -> SUBSET (Shares \cup {"confirm", "unmark"})]
        /\ pc' \in [Checkers -> Steps]
    <3>1. cur[c] \in Blocks /\ confirmed' \subseteq confirmed \cup {cur[c]}
      BY CreditCases
    <3> QED
      BY <2>1, <3>1, CreditCases DEF TypeOK
  <2> QED
    BY <2>1, <2>2 DEF TypeOK, chainer
<1>2. OneCheck'
  BY ConstantsAssumption DEF IInv, TypeOK, OneCheck, CreditStep, Next1
<1>3. Hands'
  BY DEF IInv, TypeOK, Hands, Snapshot, Crediting, CreditStep, Next1, chainer
<1>4. Snapshot'
  BY DEF IInv, TypeOK, Snapshot, CreditStep, Next1
<1>5. Buried'
  <2>1. /\ Buried /\ TypeOK /\ pc[c] = "credit" /\ UNCHANGED <<chain, cur>>
        /\ cur[c] \in Blocks
    BY DEF IInv, CreditStep, Snapshot
  <2>2. chain[cur[c]] = "deep"
    BY <2>1 DEF Buried
  <2>3. /\ \A d \in Checkers : pc'[d] \in {"mature", "credit"} => pc[d] = pc'[d]
        /\ \A b \in Blocks \ {cur[c]} : credits'[b] = credits[b] /\ maturing'[b] = maturing[b]
        /\ confirmed' \subseteq confirmed \cup {cur[c]}
    BY <2>1, CreditCases
  <2> QED
    BY <2>1, <2>2, <2>3 DEF Buried
<1>6. Unpaid'
  <2>1. /\ Unpaid /\ TypeOK /\ pending' = pending /\ cur[c] \notin pending
        /\ confirmed' \subseteq confirmed \cup {cur[c]}
        /\ \A b \in Blocks \ {cur[c]} : credits'[b] = credits[b] /\ maturing'[b] = maturing[b]
    BY CreditCases DEF IInv
  <2>2. \A b \in pending : b \in Blocks \ {cur[c]}
    BY <2>1 DEF TypeOK
  <2> QED
    BY <2>1, <2>2 DEF Unpaid
<1>7. Crediting'
  BY CreditCases DEF IInv, Crediting
<1>8. CreditedOnce'
  BY CreditCases DEF IInv, CreditedOnce, TypeOK
<1> QED
  BY <1>1, <1>2, <1>3, <1>4, <1>5, <1>6, <1>7, <1>8 DEF IInv

\* A run whose await rejects leaves the rest of its pipeline undone.
LEMMA CheckFailsInv ==
  ASSUME IInv, OneOwner, NEW c \in Checkers, CheckFails(c)
  PROVE  IInv'
<1>1. TypeOK'
  BY ConstantsAssumption DEF IInv, TypeOK, CheckFails, CheckEnds, Next1, Steps, redis,
      chainer
<1>2. OneCheck'
  <2>1. TypeOK /\ OneCheck /\ pc[c] # "idle"
    BY DEF IInv, CheckFails
  <2> QED
    BY <2>1, EndsCheck, StepsCheck DEF CheckFails, Steps
<1>3. Snapshot'
  <2>1. TypeOK /\ OneCheck /\ Snapshot /\ pc[c] # "idle" /\ UNCHANGED pending
    BY DEF IInv, CheckFails, redis
  <2>2. CASE CheckEnds(c)
    <3>1. \A d \in Checkers : pc'[d] = "idle"
      BY <2>1, <2>2, EndsCheck
    <3>2. \A d \in Checkers : d # c => todo'[d] = todo[d] /\ pc[d] = "idle"
      BY <2>1, <2>2 DEF OneCheck, CheckEnds, TypeOK
    <3>3. todo'[c] = {}
      BY <2>1, <2>2 DEF CheckEnds, TypeOK
    <3> QED
      BY <2>1, <3>1, <3>2, <3>3 DEF Snapshot
  <2>3. CASE Next1(c, "walk") /\ UNCHANGED <<todo, cur>>
    BY <2>1, <2>3 DEF Snapshot, TypeOK, Next1
  <2> QED
    BY <2>2, <2>3 DEF CheckFails
<1>4. Buried'
  BY DEF IInv, TypeOK, Buried, CheckFails, CheckEnds, Next1, redis
<1>5. Crediting'
  BY DEF IInv, TypeOK, Crediting, CheckFails, CheckEnds, Next1, redis
<1>6. Hands' /\ Unpaid' /\ CreditedOnce'
  BY DEF IInv, Hands, Unpaid, CreditedOnce, CheckFails, redis, chainer
<1> QED
  BY <1>1, <1>2, <1>3, <1>4, <1>5, <1>6 DEF IInv

\* A crash forgets the runs of its process and undoes nothing in Redis.
LEMMA CrashInv ==
  ASSUME IInv, NEW p \in Procs, Crash(p)
  PROVE  IInv'
<1>1. TypeOK'
  BY ConstantsAssumption DEF IInv, TypeOK, Crash, RecEnds, Steps, redis
<1>2. OneCheck'
  BY ConstantsAssumption DEF IInv, TypeOK, OneCheck, Crash, RecEnds
<1>3. Hands'
  BY DEF IInv, TypeOK, Hands, Crash, RecEnds, redis
<1>4. Snapshot'
  BY DEF IInv, TypeOK, Snapshot, Crash, RecEnds, redis
<1>5. Buried'
  BY DEF IInv, TypeOK, Buried, Crash, RecEnds, redis
<1>6. Crediting'
  BY DEF IInv, TypeOK, Crediting, Crash, RecEnds, redis
<1>7. Unpaid' /\ CreditedOnce'
  BY DEF IInv, Unpaid, CreditedOnce, Crash, redis
<1> QED
  BY <1>1, <1>2, <1>3, <1>4, <1>5, <1>6, <1>7 DEF IInv

\* A process that comes back has no run under way.
LEMMA RestartInv ==
  ASSUME IInv, NEW p \in Procs, Restart(p)
  PROVE  IInv'
<1>1. TypeOK'
  BY DEF IInv, TypeOK, Restart, redis, chainer, checker
<1>2. OneCheck' /\ Hands' /\ Snapshot' /\ Buried' /\ Unpaid' /\ Crediting' /\ CreditedOnce'
  BY DEF IInv, OneCheck, Hands, Snapshot, Buried, Unpaid, Crediting, CreditedOnce, Restart,
      redis, chainer, checker
<1> QED
  BY <1>1, <1>2 DEF IInv

\* Nothing is found, owed or credited in the beginning.
LEMMA InitInv == Init => IInv
  BY DEF Init, Zero, IInv, TypeOK, Steps, Places, OneCheck, Hands, Snapshot, Buried, Unpaid,
      Crediting, CreditedOnce

\* Every step of the pool, the chain and the crashes preserves the invariant.
LEMMA NextInv ==
  ASSUME PromptOffers, OneOwner
  PROVE  IInv /\ [Next]_vars => IInv'
<1> SUFFICES ASSUME IInv, [Next]_vars PROVE IInv'
  OBVIOUS
<1>1. CASE UNCHANGED vars
  BY <1>1 DEF vars, redis, chainer, checker, IInv, TypeOK, OneCheck, Hands, Snapshot, Buried,
      Unpaid, Crediting, CreditedOnce
<1>2. ASSUME NEW b \in Blocks, ChainMoves(b) PROVE IInv'
  BY <1>2, ChainMovesInv
<1>3. ASSUME NEW p \in Procs, NEW s \in Shares, Work(p, s) PROVE IInv'
  BY <1>3, WorkInv
<1>4. ASSUME NEW p \in Procs, NEW b \in Blocks, Offer(p, b) PROVE IInv'
  BY <1>4, OfferInv
<1>5. ASSUME NEW p \in Procs, RecStep(p) \/ RecFails(p) \/ Crash(p) \/ Restart(p) PROVE IInv'
  BY <1>5, CheckKnownInv, ReadSharesInv, ParkInv, WriteInv, RecFailsInv, CrashInv, RestartInv
      DEF RecStep
<1>6. ASSUME NEW c \in Checkers, StartCheck(c) \/ CheckStep(c) \/ CheckFails(c) PROVE IInv'
  BY <1>6, StartCheckInv, AskNodeInv, FinishInv, UpdateInv, ClaimOrphanInv, RefundInv,
      ClaimMatureInv, CreditStepInv, CheckFailsInv DEF CheckStep
<1> QED
  BY <1>1, <1>2, <1>3, <1>4, <1>5, <1>6 DEF Next

\* The invariant of block accounting: one run of checkPendingBlocks at a time, whose
\* snapshot is still owed and whose pipeline holds exactly the credits still missing.
THEOREM InvariantHolds ==
  ASSUME PromptOffers, OneOwner
  PROVE  Spec => []IInv
<1>1. IInv /\ [Next]_vars => IInv'
  BY NextInv
<1> QED
  BY <1>1, InitInv, PTL DEF Spec

\* Each payee of a block is credited for it at most once, whatever is interleaved, cut
\* or restarted: the claim of atomic.js is won before the pipeline of _mature is sent.
THEOREM CreditIsOnce ==
  ASSUME PromptOffers, OneOwner
  PROVE  Spec => []CreditedOnce
<1>1. IInv => CreditedOnce
  BY DEF IInv
<1> QED
  BY <1>1, InvariantHolds, PTL

\* Only a block buried under coinbaseMaturity credits anybody (_mature).
THEOREM OnlyBuriedIsCredited ==
  ASSUME PromptOffers, OneOwner
  PROVE  Spec => []CreditsAreSpendable
<1>1. IInv => CreditsAreSpendable
  BY DEF IInv, Buried, CreditsAreSpendable
<1> QED
  BY <1>1, InvariantHolds, PTL

-----------------------------------------------------------------------------
\* _orphan is only reached for a block that has left the place where it was found.
LEMMA LeftStep ==
  ASSUME IInv, Left, ~FallbackBehind, [Next]_vars
  PROVE  Left'
<1>1. CASE UNCHANGED <<pending, chain, orphaned, pc, cur>>
  BY <1>1 DEF Left
<1>2. ASSUME NEW b \in Blocks, ChainMoves(b) PROVE Left'
  BY <1>2 DEF IInv, TypeOK, Left, Snapshot, ChainMoves, Moves, redis, checker
<1>3. ASSUME NEW p \in Procs, Write(p) PROVE Left'
  BY <1>3 DEF IInv, TypeOK, Left, Hands, Write, checker
<1>4. ASSUME NEW p \in Procs, Crash(p) PROVE Left'
  BY <1>4 DEF Left, Crash, redis
<1>5. ASSUME NEW c \in Checkers, StartCheck(c) \/ Finish(c) \/ Update(c) \/ Refund(c)
                                 \/ CheckFails(c)
      PROVE  Left'
  BY <1>5, ZenonT(60) DEF IInv, TypeOK, Snapshot, Left, StartCheck, Finish, Update, Refund, CheckFails,
      CheckEnds, Next1, redis
<1>6. ASSUME NEW c \in Checkers, AskNode(c) PROVE Left'
  BY <1>6 DEF IInv, TypeOK, Snapshot, Left, AskNode, Verdicts, Next1, redis
<1>7. ASSUME NEW c \in Checkers, ClaimOrphan(c) PROVE Left'
  <2>1. /\ pc[c] = "orphan" /\ Claim(c, "refund")
        /\ orphaned' = Bump(orphaned, cur[c], cur[c] \in pending) /\ UNCHANGED chain
    BY <1>7 DEF ClaimOrphan
  <2>2. /\ pending' \subseteq pending /\ cur[c] \in Blocks
        /\ \A d \in Checkers : pc'[d] # "orphan"
    BY <2>1, ClaimIsWon DEF IInv, Snapshot
  <2> QED
    BY <2>1, <2>2 DEF IInv, TypeOK, Left, Bump
<1>8. ASSUME NEW c \in Checkers, ClaimMature(c) PROVE Left'
  <2>1. /\ pc[c] = "mature" /\ Claim(c, "credit") /\ UNCHANGED <<chain, orphaned>>
    BY <1>8 DEF ClaimMature
  <2>2. pending' \subseteq pending /\ \A d \in Checkers : pc'[d] # "orphan"
    BY <2>1, ClaimIsWon
  <2> QED
    BY <2>1, <2>2 DEF Left
<1>9. ASSUME NEW c \in Checkers, CreditStep(c) PROVE Left'
  BY <1>9 DEF Left, CreditStep, Next1, IInv, TypeOK
<1>10. CASE \/ \E p \in Procs, s \in Shares : Work(p, s)
            \/ \E p \in Procs, b \in Blocks : Offer(p, b)
            \/ \E p \in Procs : CheckKnown(p) \/ ReadShares(p) \/ Park(p) \/ RecFails(p)
                                \/ Restart(p)
            \/ UNCHANGED vars
  <2>1. UNCHANGED <<pending, chain, orphaned, pc, cur>>
    BY <1>10 DEF Work, Offer, CheckKnown, ReadShares, Park, RecFails, Restart, vars, redis,
        checker
  <2> QED
    BY <2>1, <1>1
<1> QED
  BY <1>2, <1>3, <1>4, <1>5, <1>6, <1>7, <1>8, <1>9, <1>10 DEF Next, RecStep, CheckStep

\* No block that never left the chain is written off by _orphan, if getblock is not
\* answered by a node that lacks the block.
THEOREM NoBlockIsWrittenOff ==
  ASSUME PromptOffers, OneOwner, ~FallbackBehind
  PROVE  Spec => []OrphansLeftTheChain
<1>1. Init => Left
  BY DEF Init, Zero, Left
<1>2. IInv /\ Left /\ [Next]_vars => Left'
  BY LeftStep
<1>3. Left => OrphansLeftTheChain
  BY DEF Left, OrphansLeftTheChain
<1> QED
  BY <1>1, <1>2, <1>3, InvariantHolds, PTL DEF Spec

-----------------------------------------------------------------------------
\* The round does not grow between the read of its shares and the DEL of recordBlock.
LEMMA RecordingStep ==
  ASSUME IInv, Recording, OneProcess, [Next]_vars
  PROVE  Recording'
<1>1. CASE \/ \E b \in Blocks : ChainMoves(b)
           \/ \E p \in Procs : Restart(p)
           \/ \E c \in Checkers : StartCheck(c) \/ AskNode(c) \/ Finish(c) \/ Refund(c)
                                  \/ CreditStep(c) \/ CheckFails(c)
           \/ UNCHANGED vars
  <2>1. UNCHANGED <<round, worked, pending, rec, recBlock, recTable, recPipe>>
    BY <1>1 DEF ChainMoves, Restart, StartCheck, AskNode, Finish, Refund, CreditStep,
        CheckFails, vars, redis, chainer
  <2> QED
    BY <2>1 DEF Recording
<1>2. ASSUME NEW p \in Procs, NEW s \in Shares, Work(p, s) PROVE Recording'
  BY <1>2 DEF Recording, OneProcess, Work, chainer
<1>3. ASSUME NEW p \in Procs, NEW b \in Blocks, Offer(p, b) PROVE Recording'
  BY <1>3 DEF IInv, TypeOK, Recording, Offer, redis
<1>4. ASSUME NEW p \in Procs, CheckKnown(p) PROVE Recording'
  BY <1>4 DEF IInv, TypeOK, Recording, CheckKnown, RecEnds, redis
<1>5. ASSUME NEW p \in Procs, ReadShares(p) PROVE Recording'
  BY <1>5 DEF IInv, TypeOK, Recording, ReadShares, Contributors, redis
<1>6. ASSUME NEW p \in Procs, Park(p) \/ RecFails(p) \/ Crash(p) PROVE Recording'
  <2>1. RecEnds(p) /\ UNCHANGED <<round, worked, pending>>
    BY <1>6 DEF Park, RecFails, Crash, redis
  <2> QED
    BY <2>1 DEF IInv, TypeOK, Recording, RecEnds
<1>7. ASSUME NEW p \in Procs, Write(p) PROVE Recording'
  <2>1. \A q \in Procs : q = p
    BY DEF OneProcess
  <2>2. CASE RecEnds(p) /\ UNCHANGED <<round, worked, pending>>
    BY <2>2 DEF IInv, TypeOK, Recording, RecEnds
  <2>3. CASE /\ recPipe' = [recPipe EXCEPT ![p] = @ \ {"pending"}]
             /\ UNCHANGED <<round, worked, rec, recBlock, recTable>>
    BY <1>7, <2>1, <2>3 DEF IInv, TypeOK, Recording, Write
  <2>4. CASE /\ "pending" \notin recPipe[p] /\ round' = {}
             /\ recPipe' = [recPipe EXCEPT ![p] = @ \ {"round"}]
             /\ UNCHANGED <<worked, pending, rec, recBlock, recTable>>
    BY <1>7, <2>1, <2>4 DEF IInv, TypeOK, Recording, Write
  <2> QED
    BY <1>7, <2>2, <2>3, <2>4 DEF Write
<1>8. ASSUME NEW c \in Checkers, Update(c) \/ ClaimOrphan(c) \/ ClaimMature(c)
      PROVE  Recording'
  <2>1. pending' \subseteq pending
    BY <1>8, ClaimIsWon DEF IInv, Snapshot, Update, ClaimOrphan, ClaimMature
  <2>2. UNCHANGED <<round, worked, rec, recBlock, recTable, recPipe>>
    BY <1>8 DEF Update, ClaimOrphan, ClaimMature, chainer
  <2> QED
    BY <2>1, <2>2 DEF Recording
<1> QED
  BY <1>1, <1>2, <1>3, <1>4, <1>5, <1>6, <1>7, <1>8 DEF Next, RecStep, CheckStep

\* While recordBlock has its DEL to send, the record it wrote is still there.
LEMMA RecordedStep ==
  ASSUME IInv, Recording, Recorded, OneProcess, OneOwner, ~FallbackBehind, [Next]_vars
  PROVE  Recorded'
<1>1. CASE UNCHANGED <<pending, table, rec, recBlock, recTable, recPipe, pc, cur>>
  BY <1>1 DEF Recorded
<1>2. ASSUME NEW p \in Procs, NEW b \in Blocks, Offer(p, b) PROVE Recorded'
  BY <1>2 DEF IInv, TypeOK, Recorded, Offer, redis, checker
<1>3. ASSUME NEW p \in Procs, CheckKnown(p) PROVE Recorded'
  <2>1. CASE RecEnds(p)
    BY <1>3, <2>1 DEF IInv, TypeOK, Recorded, CheckKnown, RecEnds, redis, checker
  <2>2. CASE recBlock[p] \notin pending /\ rec' = [rec EXCEPT ![p] = "read"]
             /\ UNCHANGED <<recBlock, recTable, recPipe>>
    BY <1>3, <2>2 DEF IInv, TypeOK, Snapshot, Recorded, CheckKnown, redis, checker
  <2> QED
    BY <1>3, <2>1, <2>2 DEF CheckKnown
<1>4. ASSUME NEW p \in Procs, ReadShares(p) PROVE Recorded'
  BY <1>4 DEF IInv, TypeOK, Recorded, ReadShares, redis, checker
<1>5. ASSUME NEW p \in Procs, Park(p) \/ RecFails(p) PROVE Recorded'
  <2>1. RecEnds(p) /\ UNCHANGED <<pending, table, pc, cur>>
    BY <1>5 DEF Park, RecFails, redis, checker
  <2> QED
    BY <2>1 DEF IInv, TypeOK, Recorded, RecEnds
<1>6. ASSUME NEW p \in Procs, Crash(p) PROVE Recorded'
  <2>1. RecEnds(p) /\ UNCHANGED <<pending, table>>
    BY <1>6 DEF Crash, redis
  <2>2. \A c \in Checkers : pc'[c] = "orphan" => pc[c] = "orphan" /\ cur'[c] = cur[c]
    BY <1>6 DEF Crash
  <2> QED
    BY <2>1, <2>2 DEF IInv, TypeOK, Recorded, RecEnds
<1>7. ASSUME NEW p \in Procs, Write(p) PROVE Recorded'
  <2>1. \A q \in Procs : q = p
    BY DEF OneProcess
  <2>2. rec[p] = "write" /\ recBlock[p] \in Blocks /\ UNCHANGED <<pc, cur>>
    BY <1>7 DEF Write, checker, IInv, Hands
  <2>3. CASE RecEnds(p) /\ UNCHANGED <<pending, table>>
    BY <2>1, <2>2, <2>3 DEF IInv, TypeOK, Recorded, RecEnds
  <2>4. CASE /\ pending' = pending \cup {recBlock[p]}
             /\ table' = [table EXCEPT ![recBlock[p]] = recTable[p]]
             /\ UNCHANGED <<rec, recBlock, recTable>>
    BY <2>1, <2>2, <2>4 DEF IInv, TypeOK, Recorded
  <2>5. CASE /\ recPipe' = [recPipe EXCEPT ![p] = @ \ {"round"}]
             /\ UNCHANGED <<pending, table, rec, recBlock, recTable>>
    BY <2>1, <2>2, <2>5 DEF IInv, TypeOK, Recorded
  <2> QED
    BY <1>7, <2>3, <2>4, <2>5 DEF Write
<1>8. ASSUME NEW c \in Checkers, StartCheck(c) \/ Finish(c) \/ Refund(c) \/ CheckFails(c)
                                 \/ CreditStep(c)
      PROVE  Recorded'
  <2>1. UNCHANGED <<pending, table, rec, recBlock, recTable, recPipe>>
    BY <1>8 DEF StartCheck, Finish, Refund, CheckFails, CreditStep, redis, chainer
  <2>2. \A d \in Checkers : pc'[d] = "orphan" => pc[d] = "orphan" /\ cur'[d] = cur[d]
    BY <1>8 DEF IInv, TypeOK, StartCheck, Finish, Refund, CheckFails, CreditStep, CheckEnds,
        Next1
  <2> QED
    BY <2>1, <2>2 DEF Recorded
<1>9. ASSUME NEW c \in Checkers, AskNode(c) PROVE Recorded'
  <2>1. UNCHANGED <<pending, table, rec, recBlock, recTable, recPipe>>
    BY <1>9 DEF AskNode, redis, chainer
  <2>2. \A d \in Checkers : pc'[d] = "orphan" =>
          \/ pc[d] = "orphan" /\ cur'[d] = cur[d]
          \/ chain[cur'[d]] = "stale"
    BY <1>9 DEF IInv, TypeOK, AskNode, Verdicts, Next1
  <2>3. \A p \in Procs : rec[p] \in {"read", "write"} => chain[recBlock[p]] # "stale"
    BY DEF IInv, Hands
  <2> QED
    BY <2>1, <2>2, <2>3 DEF Recorded
<1>10. ASSUME NEW c \in Checkers, Update(c) \/ ClaimOrphan(c) \/ ClaimMature(c)
       PROVE  Recorded'
  <2>1. UNCHANGED <<table, rec, recBlock, recTable, recPipe>>
    BY <1>10 DEF Update, ClaimOrphan, ClaimMature, chainer
  <2>2. \A d \in Checkers : pc'[d] = "orphan" => pc[d] = "orphan" /\ cur'[d] = cur[d]
    <3>1. CASE Update(c)
      BY <3>1 DEF IInv, TypeOK, Update, Next1
    <3>2. CASE ClaimOrphan(c) \/ ClaimMature(c)
      BY <3>2, ClaimIsWon DEF ClaimOrphan, ClaimMature
    <3> QED
      BY <1>10, <3>1, <3>2
  <2>3. pending \subseteq pending' \/ pending' = pending \ {cur[c]}
    BY <1>10, ClaimIsWon DEF Update, ClaimOrphan, ClaimMature
  <2>4. pending' = pending \ {cur[c]} =>
          \A p \in Procs : rec[p] = "write" => recBlock[p] # cur[c] \/ recBlock[p] \notin pending
                             \/ pc[c] = "update"
    BY <1>10 DEF Update, ClaimOrphan, ClaimMature, Recorded, IInv, Hands, Buried
  <2>5. pc[c] = "update" => pending \subseteq pending'
    BY <1>10 DEF Update, ClaimOrphan, ClaimMature
  <2> QED
    BY <2>1, <2>2, <2>3, <2>4, <2>5 DEF Recorded
<1>11. CASE \/ \E b \in Blocks : ChainMoves(b)
            \/ \E p \in Procs, s \in Shares : Work(p, s)
            \/ \E p \in Procs : Restart(p)
            \/ UNCHANGED vars
  <2>1. UNCHANGED <<pending, table, rec, recBlock, recTable, recPipe, pc, cur>>
    BY <1>11 DEF ChainMoves, Work, Restart, vars, redis, chainer, checker
  <2> QED
    BY <2>1, <1>1
<1> QED
  BY <1>2, <1>3, <1>4, <1>5, <1>6, <1>7, <1>8, <1>9, <1>10, <1>11 DEF Next, RecStep, CheckStep

\* Only the pipeline's DEL takes shares out of the round.
LEMMA RoundShrinks ==
  ASSUME [Next]_vars
  PROVE  \/ round \subseteq round'
         \/ \E p \in Procs : /\ rec[p] = "write" /\ "pending" \notin recPipe[p]
                             /\ UNCHANGED <<pending, table>>
<1>1. ASSUME NEW p \in Procs, RecStep(p)
      PROVE  \/ round \subseteq round'
             \/ /\ rec[p] = "write" /\ "pending" \notin recPipe[p]
                /\ UNCHANGED <<pending, table>>
  BY <1>1 DEF RecStep, CheckKnown, ReadShares, Park, Write, redis
<1>2. ASSUME NEW c \in Checkers, CheckStep(c) \/ StartCheck(c) \/ CheckFails(c)
      PROVE  round' = round
  BY <1>2 DEF CheckStep, StartCheck, CheckFails, AskNode, Finish, Update, ClaimOrphan, Refund,
      ClaimMature, CreditStep, redis
<1>3. CASE \/ \E b \in Blocks : ChainMoves(b)
           \/ \E p \in Procs, s \in Shares : Work(p, s)
           \/ \E p \in Procs, b \in Blocks : Offer(p, b)
           \/ \E p \in Procs : RecFails(p) \/ Crash(p) \/ Restart(p)
           \/ UNCHANGED vars
  BY <1>3 DEF ChainMoves, Work, Offer, RecFails, Crash, Restart, vars, redis
<1> QED
  BY <1>1, <1>2, <1>3 DEF Next

\* A share leaves the round only into the payout table of a recorded block: recordBlock
\* never wipes a live round.
THEOREM LiveRoundIsSafe ==
  ASSUME PromptOffers, OneProcess, ~FallbackBehind
  PROVE  Spec => RoundIsNeverWiped
<1> DEFINE Kept == \A s \in round \ round' : \E b \in Blocks : b \in pending' /\ s \in table'[b]
<1>1. OneOwner
  BY ConstantsAssumption DEF OneProcess, OneOwner
<1>2. Init => Recording /\ Recorded
  BY DEF Init, Recording, Recorded
<1>3. IInv /\ Recording /\ Recorded /\ [Next]_vars => Recording' /\ Recorded'
  BY <1>1, RecordingStep, RecordedStep
<1>4. IInv /\ Recording /\ Recorded /\ [Next]_vars => [Kept]_vars
  <2> SUFFICES ASSUME IInv, Recording, Recorded, [Next]_vars PROVE Kept
    OBVIOUS
  <2>1. CASE round \subseteq round'
    BY <2>1
  <2>2. ASSUME NEW p \in Procs, rec[p] = "write", "pending" \notin recPipe[p],
               UNCHANGED <<pending, table>>
        PROVE  Kept
    <3>1. /\ recBlock[p] \in Blocks /\ recBlock[p] \in pending
          /\ round \subseteq table[recBlock[p]]
      BY <2>2 DEF IInv, Hands, Recording, Recorded
    <3> QED
      BY <2>2, <3>1
  <2> QED
    BY <2>1, <2>2, RoundShrinks
<1>5. Spec => []IInv
  BY <1>1, InvariantHolds
<1> QED
  BY <1>2, <1>3, <1>4, <1>5, PTL DEF Spec, RoundIsNeverWiped

-----------------------------------------------------------------------------
(* The life of a block.                                                     *)

\* What PoolBlocks puts for the variable life of BlockLedger.
lifeBar == [b \in Blocks |-> Life(b)]

\* A step that moves one block at most moves one life at most.
LEMMA LifeOfOne ==
  ASSUME NEW b \in Blocks,
         \A d \in Blocks \ {b} :
           /\ d \in pending' <=> d \in pending
           /\ d \in confirmed' <=> d \in confirmed
           /\ maturing'[d] = maturing[d] /\ orphaned'[d] = orphaned[d]
  PROVE  lifeBar' = [lifeBar EXCEPT ![b] = Life(b)']
<1>1. \A d \in Blocks \ {b} : Life(d)' = Life(d)
  BY DEF Life
<1> QED
  BY <1>1 DEF lifeBar

\* A step that touches no claim of a block is none of the ledger's business.
LEMMA LifeStands ==
  ASSUME UNCHANGED <<pending, confirmed, maturing, orphaned, table, credits>>
  PROVE  UNCHANGED Ledger!vars
  BY DEF Life, Ledger!vars

\* HSET pending is the record of the ledger; the other two commands are none of its steps.
LEMMA WriteRefines ==
  ASSUME IInv, Recording, NEW p \in Procs, Write(p)
  PROVE  [Ledger!Next]_(Ledger!vars)
<1>0. PICK b \in Blocks : b = recBlock[p]
  BY DEF IInv, Hands, Write
<1>1. /\ TypeOK /\ b \in Blocks /\ rec[p] = "write" /\ chain[b] # "deep"
      /\ recTable[p] \subseteq Shares /\ UNCHANGED <<confirmed, maturing, orphaned, credits>>
  BY <1>0 DEF IInv, TypeOK, Hands, Write
<1>2. CASE UNCHANGED <<pending, table>>
  BY <1>1, <1>2, LifeStands
<1>3. CASE /\ "pending" \in recPipe[p] /\ pending' = pending \cup {b}
           /\ table' = [table EXCEPT ![b] = recTable[p]]
  <2>1. b \notin pending /\ b \notin confirmed /\ ~(maturing[b] > 0)
    BY <1>0, <1>1, <1>3 DEF Recording, IInv, Buried
  <2>2. Life(b) \in {"unrecorded", "orphaned"} /\ Life(b)' = "owed"
    BY <2>1, <1>3 DEF Life
  <2>3. lifeBar' = [lifeBar EXCEPT ![b] = "owed"]
    BY <2>2, <1>1, <1>3, LifeOfOne
  <2>4. /\ table' \in [Blocks -> SUBSET Shares]
        /\ \A d \in Blocks \ {b} : table'[d] = table[d]
    BY <1>1, <1>3 DEF TypeOK
  <2>5. Ledger!Record(b)
    BY <1>1, <2>2, <2>3, <2>4 DEF Ledger!Record, Ledger!Move, lifeBar
  <2> QED
    BY <1>1, <2>5 DEF Ledger!Next
<1> QED
  BY <1>0, <1>2, <1>3 DEF Write

\* The claim of _orphan discards the block.
LEMMA ClaimOrphanRefines ==
  ASSUME IInv, NEW c \in Checkers, ClaimOrphan(c)
  PROVE  [Ledger!Next]_(Ledger!vars)
<1>0. PICK b \in Blocks : b = cur[c]
  BY DEF IInv, Snapshot, ClaimOrphan
<1>1. /\ TypeOK /\ Unpaid /\ pc[c] = "orphan" /\ Claim(c, "refund")
      /\ orphaned' = Bump(orphaned, b, b \in pending)
      /\ UNCHANGED <<table, confirmed, maturing, credits>>
  BY <1>0 DEF IInv, ClaimOrphan
<1>2. b \in pending /\ b \in Blocks /\ pending' = pending \ {b}
  BY <1>0, <1>1, ClaimIsWon
<1>3. /\ b \notin confirmed /\ maturing[b] = 0 /\ orphaned'[b] > 0
      /\ \A d \in Blocks \ {b} : orphaned'[d] = orphaned[d]
  BY <1>1, <1>2 DEF Unpaid, TypeOK, Bump
<1>4. Life(b) = "owed" /\ Life(b)' = "orphaned"
  BY <1>1, <1>2, <1>3 DEF Life
<1>5. lifeBar' = [lifeBar EXCEPT ![b] = "orphaned"]
  BY <1>1, <1>2, <1>3, <1>4, LifeOfOne
<1>6. Ledger!Discard(b)
  BY <1>1, <1>2, <1>4, <1>5 DEF Ledger!Discard, Ledger!Move, lifeBar
<1> QED
  BY <1>2, <1>6 DEF Ledger!Next

\* The claim of _mature is the claim of the ledger.
LEMMA ClaimMatureRefines ==
  ASSUME IInv, NEW c \in Checkers, ClaimMature(c)
  PROVE  [Ledger!Next]_(Ledger!vars)
<1>0. PICK b \in Blocks : b = cur[c]
  BY DEF IInv, Snapshot, ClaimMature
<1>1. /\ TypeOK /\ Unpaid /\ pc[c] = "mature" /\ Claim(c, "credit")
      /\ maturing' = Bump(maturing, b, b \in pending)
      /\ UNCHANGED <<table, confirmed, orphaned, credits>>
  BY <1>0 DEF IInv, ClaimMature
<1>2. b \in pending /\ b \in Blocks /\ pending' = pending \ {b}
  BY <1>0, <1>1, ClaimIsWon
<1>3. /\ b \notin confirmed /\ maturing'[b] > 0
      /\ \A d \in Blocks \ {b} : maturing'[d] = maturing[d]
  BY <1>1, <1>2 DEF Unpaid, TypeOK, Bump
<1>4. Life(b) = "owed" /\ Life(b)' = "crediting"
  BY <1>1, <1>2, <1>3 DEF Life
<1>5. lifeBar' = [lifeBar EXCEPT ![b] = "crediting"]
  BY <1>1, <1>2, <1>3, <1>4, LifeOfOne
<1>6. Ledger!Claim(b)
  BY <1>1, <1>2, <1>4, <1>5 DEF Ledger!Claim, Ledger!Move, lifeBar
<1> QED
  BY <1>2, <1>6 DEF Ledger!Next

\* HINCRBY credits a payee, the SADD finishes the block, and the LREM is a stutter.
LEMMA CreditStepRefines ==
  ASSUME IInv, NEW c \in Checkers, CreditStep(c)
  PROVE  [Ledger!Next]_(Ledger!vars)
<1>0. PICK b \in Blocks : b = cur[c]
  BY CreditCases
<1>1. /\ TypeOK /\ b \in Blocks /\ b \notin pending /\ maturing[b] = 1 /\ "unmark" \in pipe[c]
      /\ b \in confirmed <=> "confirm" \notin pipe[c]
      /\ "confirm" \notin pipe[c] => pipe[c] = {"unmark"}
      /\ pipe[c] \cap Shares \subseteq table[b] /\ table[b] \subseteq Shares
      /\ \A s \in Shares : credits[b][s] = IF s \in table[b] \ pipe[c] THEN 1 ELSE 0
      /\ UNCHANGED <<pending, table, orphaned>>
  BY <1>0, CreditCases DEF IInv, Crediting, CreditStep, TypeOK
<1>2. "confirm" \notin Shares /\ "unmark" \notin Shares
  BY ConstantsAssumption
<1>3. CASE /\ \E s \in pipe[c] \cap Shares : credits' = [credits EXCEPT ![b][s] = @ + 1]
           /\ UNCHANGED <<confirmed, maturing>>
  <2>1. PICK s \in pipe[c] \cap Shares : credits' = [credits EXCEPT ![b][s] = @ + 1]
    BY <1>3
  <2>2. s \in table[b] /\ credits[b][s] = 0 /\ "confirm" \in pipe[c]
    BY <1>1, <1>2, <2>1
  <2>3. credits' = [credits EXCEPT ![b][s] = 1]
    BY <1>1, <2>1, <2>2 DEF TypeOK
  <2>4. lifeBar[b] = "crediting" /\ lifeBar' = lifeBar
    BY <1>1, <1>3, <2>2 DEF lifeBar, Life
  <2>5. Ledger!Credit(b)
    BY <1>1, <2>2, <2>3, <2>4 DEF Ledger!Credit, lifeBar
  <2> QED
    BY <1>1, <2>5 DEF Ledger!Next
<1>4. CASE /\ pipe[c] = {"confirm", "unmark"} /\ confirmed' = confirmed \cup {b}
           /\ UNCHANGED <<credits, maturing>>
  <2>1. \A s \in table[b] : credits[b][s] = 1
    BY <1>1, <1>2, <1>4
  <2>2. Life(b) = "crediting" /\ Life(b)' = "paid"
    BY <1>1, <1>4 DEF Life
  <2>3. lifeBar' = [lifeBar EXCEPT ![b] = "paid"]
    BY <1>1, <1>4, <2>2, LifeOfOne
  <2>4. Ledger!Finish(b)
    BY <1>1, <1>4, <2>1, <2>2, <2>3 DEF Ledger!Finish, Ledger!Move, lifeBar
  <2> QED
    BY <1>1, <2>4 DEF Ledger!Next
<1>5. CASE /\ pipe[c] = {"unmark"} /\ maturing' = [maturing EXCEPT ![b] = @ - 1]
           /\ UNCHANGED <<credits, confirmed>>
  <2>1. Life(b) = "paid" /\ Life(b)' = "paid"
    BY <1>1, <1>5 DEF Life
  <2>2. \A d \in Blocks \ {b} : Life(d)' = Life(d)
    BY <1>1, <1>5 DEF Life, TypeOK
  <2>3. lifeBar' = lifeBar
    BY <2>1, <2>2 DEF lifeBar
  <2> QED
    BY <1>1, <1>5, <2>3 DEF Ledger!vars, lifeBar
<1> QED
  BY <1>0, <1>3, <1>4, <1>5 DEF CreditStep

\* Every step is a step of the ledger or none.
LEMMA NextRefines ==
  ASSUME IInv, Recording, [Next]_vars
  PROVE  [Ledger!Next]_(Ledger!vars)
<1>1. ASSUME NEW c \in Checkers, Update(c)
      PROVE  UNCHANGED <<pending, confirmed, maturing, orphaned, table, credits>>
  BY <1>1 DEF IInv, Snapshot, Update
<1>2. CASE \/ \E b \in Blocks : ChainMoves(b)
           \/ \E p \in Procs, s \in Shares : Work(p, s)
           \/ \E p \in Procs, b \in Blocks : Offer(p, b)
           \/ \E p \in Procs : CheckKnown(p) \/ ReadShares(p) \/ Park(p) \/ RecFails(p)
                               \/ Crash(p) \/ Restart(p)
           \/ \E c \in Checkers : StartCheck(c) \/ AskNode(c) \/ Finish(c) \/ Refund(c)
                                  \/ CheckFails(c)
           \/ UNCHANGED vars
  <2>1. UNCHANGED <<pending, confirmed, maturing, orphaned, table, credits>>
    BY <1>2 DEF ChainMoves, Work, Offer, CheckKnown, ReadShares, Park, RecFails, Crash, Restart,
        StartCheck, AskNode, Finish, Refund, CheckFails, vars, redis
  <2> QED
    BY <2>1, LifeStands
<1> QED
  BY <1>1, <1>2, LifeStands, WriteRefines, ClaimOrphanRefines, ClaimMatureRefines,
      CreditStepRefines DEF Next, RecStep, CheckStep

\* shareProcessor.js implements the life of a block in BlockLedger: recorded, claimed once,
\* credited to all of its payees and then paid, or discarded.
THEOREM BlocksImplementLedger ==
  ASSUME PromptOffers, OneProcess
  PROVE  Spec => ImplementsBlockLedger
<1>1. OneOwner
  BY ConstantsAssumption DEF OneProcess, OneOwner
<1>2. Init => Recording
  BY DEF Init, Recording
<1>3. IInv /\ Recording /\ [Next]_vars => Recording'
  BY RecordingStep
<1>4. Init => Ledger!Init
  <2> SUFFICES ASSUME Init PROVE Ledger!Init
    OBVIOUS
  <2>1. \A b \in Blocks : Life(b) = "unrecorded"
    BY DEF Init, Zero, Life
  <2> QED
    BY <2>1 DEF Init, Ledger!Init
<1>5. IInv /\ Recording /\ [Next]_vars => [Ledger!Next]_(Ledger!vars)
  BY NextRefines
<1>6. Spec => []IInv
  BY <1>1, InvariantHolds
<1> QED
  BY <1>2, <1>3, <1>4, <1>5, <1>6, PTL DEF Spec, ImplementsBlockLedger, Ledger!Spec

-----------------------------------------------------------------------------
(* Fees, in weather without failures.                                       *)

\* recordBlock has written the record of b and not yet counted its fee.
FeeToCome(b) == \E p \in Procs : /\ rec[p] = "write" /\ recBlock[p] = b
                                 /\ "pending" \notin recPipe[p]

\* _orphan has won b and not yet given its fee back.
FeeToGo(b) == \E c \in Checkers : pc[c] = "refund" /\ cur[c] = b

\* The fee of b belongs in the total.
FeeDue(b) == b \in pending \cup confirmed \/ maturing[b] > 0

One(yes) == IF yes THEN 1 ELSE 0

\* A block's fee is counted once it is due, but for the two steps that lag behind.
FeesAddUp ==
  \A b \in Blocks : fees[b] + One(FeeToCome(b)) = One(FeeDue(b)) + One(FeeToGo(b))

\* What recordBlock does to the fees.
LEMMA WriteAddsUp ==
  ASSUME IInv, Recording, OneProcess, FeesAddUp, NEW p \in Procs, Write(p)
  PROVE  FeesAddUp'
<1>0. PICK b \in Blocks : b = recBlock[p]
  BY DEF IInv, Hands, Write
<1>1. /\ TypeOK /\ rec[p] = "write" /\ chain[b] # "deep" /\ \A q \in Procs : q = p
      /\ UNCHANGED <<confirmed, maturing, pc, cur>>
  BY <1>0 DEF IInv, Hands, Write, checker, OneProcess
<1>2. \A d \in Blocks : (FeeToGo(d)' <=> FeeToGo(d))
  BY <1>1 DEF FeeToGo
<1>3. CASE /\ "pending" \in recPipe[p] /\ pending' = pending \cup {b}
           /\ recPipe' = [recPipe EXCEPT ![p] = @ \ {"pending"}]
           /\ UNCHANGED <<fees, rec, recBlock>>
  <2>1. ~FeeDue(b) /\ FeeDue(b)'
    BY <1>0, <1>1, <1>3 DEF Recording, IInv, Buried, FeeDue
  <2>2. ~FeeToCome(b) /\ FeeToCome(b)'
    BY <1>0, <1>1, <1>3 DEF FeeToCome, TypeOK
  <2>3. \A d \in Blocks \ {b} : (FeeDue(d)' <=> FeeDue(d)) /\ (FeeToCome(d)' <=> FeeToCome(d))
    BY <1>0, <1>1, <1>3 DEF FeeDue, FeeToCome
  <2> QED
    BY <1>1, <1>2, <1>3, <2>1, <2>2, <2>3 DEF FeesAddUp, One, TypeOK
<1>4. CASE /\ "pending" \notin recPipe[p]
           /\ recPipe' = [recPipe EXCEPT ![p] = @ \ {"round"}]
           /\ UNCHANGED <<pending, fees, rec, recBlock>>
  <2>1. \A d \in Blocks : (FeeDue(d)' <=> FeeDue(d)) /\ (FeeToCome(d)' <=> FeeToCome(d))
    BY <1>1, <1>4 DEF FeeDue, FeeToCome, TypeOK
  <2> QED
    BY <1>2, <1>4, <2>1 DEF FeesAddUp, One
<1>5. CASE /\ recPipe[p] = {"fee"} /\ fees' = [fees EXCEPT ![b] = @ + 1] /\ RecEnds(p)
           /\ UNCHANGED pending
  <2>1. FeeToCome(b) /\ ~FeeToCome(b)'
    BY <1>0, <1>1, <1>5 DEF FeeToCome, RecEnds, TypeOK
  <2>2. \A d \in Blocks \ {b} : (FeeToCome(d)' <=> FeeToCome(d))
    BY <1>0, <1>1, <1>5 DEF FeeToCome, RecEnds, TypeOK
  <2>3. \A d \in Blocks : (FeeDue(d)' <=> FeeDue(d))
    BY <1>1, <1>5 DEF FeeDue
  <2> QED
    BY <1>1, <1>2, <1>5, <2>1, <2>2, <2>3 DEF FeesAddUp, One, TypeOK
<1> QED
  BY <1>0, <1>3, <1>4, <1>5 DEF Write

\* What a claim that is won, and goes on, does to the fees.
LEMMA ClaimAddsUp ==
  ASSUME IInv, FeesAddUp, NEW c \in Checkers, ClaimOrphan(c) \/ ClaimMature(c),
         pc'[c] # "idle"
  PROVE  FeesAddUp'
<1>0. PICK b \in Blocks : b = cur[c]
  BY DEF IInv, Snapshot, ClaimOrphan, ClaimMature
<1>1. /\ TypeOK /\ Unpaid /\ \A d \in Checkers \ {c} : pc[d] = "idle"
      /\ pc[c] # "refund" /\ UNCHANGED <<rec, recBlock, recPipe, confirmed, fees>>
  BY DEF IInv, OneCheck, ClaimOrphan, ClaimMature, chainer
<1>2. b \in pending /\ pending' = pending \ {b} /\ \A d \in Checkers : pc'[d] # "idle" => d = c
  BY <1>0, ClaimIsWon DEF ClaimOrphan, ClaimMature
<1>3. b \notin confirmed /\ maturing[b] = 0 /\ FeeDue(b)
  BY <1>1, <1>2 DEF Unpaid, FeeDue
<1>4. \A d \in Blocks : (FeeToCome(d)' <=> FeeToCome(d)) /\ ~FeeToGo(d)
  BY <1>1 DEF FeeToCome, FeeToGo
<1>5. CASE ClaimOrphan(c)
  <2>1. pc'[c] = "refund" /\ cur'[c] = b /\ UNCHANGED maturing
    BY <1>0, <1>5, ClaimIsWon DEF ClaimOrphan
  <2>2. ~FeeDue(b)' /\ FeeToGo(b)'
    BY <1>1, <1>2, <1>3, <2>1 DEF FeeDue, FeeToGo
  <2>3. \A d \in Blocks \ {b} : (FeeDue(d)' <=> FeeDue(d)) /\ ~FeeToGo(d)'
    BY <1>1, <1>2, <2>1 DEF FeeDue, FeeToGo
  <2> QED
    BY <1>1, <1>3, <1>4, <2>2, <2>3 DEF FeesAddUp, One, TypeOK
<1>6. CASE ClaimMature(c)
  <2>1. pc'[c] = "credit" /\ maturing' = [maturing EXCEPT ![b] = @ + 1]
    BY <1>0, <1>2, <1>6, ClaimIsWon DEF ClaimMature, Bump
  <2>2. \A d \in Blocks : (FeeDue(d)' <=> FeeDue(d))
    BY <1>1, <1>2, <1>3, <2>1 DEF FeeDue, TypeOK
  <2>3. \A d \in Blocks : ~FeeToGo(d)'
    BY <1>2, <2>1 DEF FeeToGo
  <2> QED
    BY <1>1, <1>4, <2>2, <2>3 DEF FeesAddUp, One
<1> QED
  BY <1>5, <1>6

\* No step without a failure upsets the sum of the fees.
LEMMA CalmAddsUp ==
  ASSUME IInv, Recording, OneOwner, OneProcess, FeesAddUp, [Calm]_vars
  PROVE  FeesAddUp'
<1>1. CASE UNCHANGED <<pending, confirmed, maturing, fees, pc, cur, rec, recBlock, recPipe>>
  <2>1. \A b \in Blocks : FeeDue(b)' <=> FeeDue(b)
    BY <1>1 DEF FeeDue
  <2>2. \A b \in Blocks : FeeToCome(b)' <=> FeeToCome(b)
    BY <1>1 DEF FeeToCome
  <2>3. \A b \in Blocks : FeeToGo(b)' <=> FeeToGo(b)
    BY <1>1 DEF FeeToGo
  <2> QED
    BY <1>1, <2>1, <2>2, <2>3 DEF FeesAddUp, One
<1>2. CASE \/ \E b \in Blocks : ChainMoves(b)
           \/ \E p \in Procs, s \in Shares : Work(p, s)
           \/ UNCHANGED vars
  BY <1>1, <1>2 DEF ChainMoves, Work, vars, redis, chainer, checker
<1>3. ASSUME NEW p \in Procs,
             \/ \E b \in Blocks : Offer(p, b)
             \/ CheckKnown(p) \/ ReadShares(p) \/ Park(p)
      PROVE  FeesAddUp'
  <2>1. UNCHANGED <<pending, confirmed, maturing, fees, pc, cur>>
    BY <1>3 DEF Offer, CheckKnown, ReadShares, Park, redis, checker
  <2>2. \A b \in Blocks : (FeeToCome(b)' <=> FeeToCome(b))
    <3>1. rec[p] # "write"
      BY <1>3 DEF Offer, CheckKnown, ReadShares, Park
    <3>2. /\ \A q \in Procs : q = p
          /\ rec'[p] = "write" => "pending" \in recPipe'[p]
      BY <1>3 DEF IInv, TypeOK, OneProcess, Offer, CheckKnown, ReadShares, Park, RecEnds
    <3> QED
      BY <3>1, <3>2 DEF FeeToCome
  <2> QED
    BY <2>1, <2>2 DEF FeesAddUp, One, FeeDue, FeeToGo
<1>4. ASSUME NEW p \in Procs, Write(p) PROVE FeesAddUp'
  BY <1>4, WriteAddsUp
<1>5. ASSUME NEW c \in Checkers, StartCheck(c) \/ AskNode(c) \/ Finish(c) \/ Update(c)
      PROVE  FeesAddUp'
  <2>1. UNCHANGED <<pending, confirmed, maturing, fees, rec, recBlock, recPipe>>
    BY <1>5 DEF IInv, Snapshot, StartCheck, AskNode, Finish, Update, redis, chainer
  <2>2. \A d \in Checkers : pc[d] # "refund" /\ pc'[d] # "refund"
    <3>1. TypeOK /\ OneCheck
      BY DEF IInv
    <3>2. CASE StartCheck(c)
      BY <3>1, <3>2 DEF TypeOK, OneCheck, OneOwner, StartCheck
    <3>3. CASE AskNode(c)
      <4>1. \E b \in todo[c] : \E v \in Verdicts(b) : Next1(c, v)
        BY <3>3 DEF AskNode
      <4>2. \A b : Verdicts(b) \subseteq {"mature", "orphan", "update", "walk"}
        BY DEF Verdicts
      <4>3. pc[c] = "walk" /\ \E v : v # "refund" /\ Next1(c, v)
        BY <3>3, <4>1, <4>2 DEF AskNode
      <4> QED
        BY <3>1, <4>3 DEF TypeOK, OneCheck, Next1
    <3>4. CASE Finish(c)
      BY <3>1, <3>4 DEF TypeOK, OneCheck, Finish, CheckEnds, Next1
    <3>5. CASE Update(c)
      BY <3>1, <3>5 DEF TypeOK, OneCheck, Update, Next1
    <3> QED
      BY <1>5, <3>2, <3>3, <3>4, <3>5
  <2>3. \A b \in Blocks : FeeDue(b)' <=> FeeDue(b)
    BY <2>1 DEF FeeDue
  <2>4. \A b \in Blocks : FeeToCome(b)' <=> FeeToCome(b)
    BY <2>1 DEF FeeToCome
  <2>5. \A b \in Blocks : FeeToGo(b)' <=> FeeToGo(b)
    BY <2>1, <2>2 DEF FeeToGo
  <2> QED
    BY <2>1, <2>3, <2>4, <2>5 DEF FeesAddUp, One
<1>6. ASSUME NEW c \in Checkers, ClaimOrphan(c) \/ ClaimMature(c) PROVE FeesAddUp'
  <2>1. pc'[c] # "idle"
    BY <1>6 DEF Calm, vars, checker, ClaimOrphan, ClaimMature
  <2> QED
    BY <1>6, <2>1, ClaimAddsUp
<1>7. ASSUME NEW c \in Checkers, Refund(c) PROVE FeesAddUp'
  <2>0. PICK b \in Blocks : b = cur[c]
    BY <1>7 DEF IInv, Snapshot, Refund
  <2>1. /\ TypeOK /\ \A d \in Checkers : pc[d] # "idle" => d = c
        /\ fees' = [fees EXCEPT ![b] = @ - 1] /\ pc[c] = "refund" /\ Next1(c, "walk")
        /\ UNCHANGED <<pending, confirmed, maturing, rec, recBlock, recPipe, cur>>
    BY <1>7, <2>0 DEF IInv, OneCheck, Refund, chainer
  <2>2. FeeToGo(b) /\ \A d \in Blocks : ~FeeToGo(d)' /\ (d # b => ~FeeToGo(d))
    BY <2>0, <2>1 DEF FeeToGo, Next1, TypeOK
  <2>3. \A d \in Blocks : (FeeDue(d)' <=> FeeDue(d)) /\ (FeeToCome(d)' <=> FeeToCome(d))
    BY <2>1 DEF FeeDue, FeeToCome
  <2> QED
    BY <2>1, <2>2, <2>3 DEF FeesAddUp, One, TypeOK
<1>8. ASSUME NEW c \in Checkers, CreditStep(c) PROVE FeesAddUp'
  <2>0. PICK b \in Blocks : b = cur[c]
    BY <1>8, CreditCases
  <2>1. /\ TypeOK /\ pc[c] = "credit" /\ maturing[b] = 1
        /\ UNCHANGED <<pending, fees, rec, recBlock, recPipe, cur>>
    BY <1>8, <2>0 DEF IInv, Crediting, CreditStep, chainer
  <2>2. \A d \in Checkers : pc[d] # "refund" /\ pc'[d] # "refund"
    BY <1>8, <2>1 DEF IInv, OneCheck, TypeOK, CreditStep, Next1
  <2>3. \A d \in Blocks \ {b} : maturing'[d] = maturing[d] /\ (d \in confirmed' <=> d \in confirmed)
    BY <1>8, <2>0, CreditCases
  <2>4. FeeDue(b) /\ FeeDue(b)'
    <3>1. FeeDue(b)
      BY <2>1 DEF FeeDue
    <3>2. CASE UNCHANGED maturing
      BY <2>1, <3>2 DEF FeeDue
    <3>3. CASE pipe[c] = {"unmark"} /\ UNCHANGED confirmed
      BY <1>8, <2>0, <2>1, <3>3 DEF FeeDue, IInv, Crediting
    <3> QED
      BY <1>8, <3>1, <3>2, <3>3 DEF CreditStep
  <2>5. \A d \in Blocks \ {b} : FeeDue(d)' <=> FeeDue(d)
    BY <2>1, <2>3 DEF FeeDue
  <2>6. \A d \in Blocks : (FeeToCome(d)' <=> FeeToCome(d)) /\ (FeeToGo(d)' <=> FeeToGo(d))
    BY <2>1, <2>2 DEF FeeToCome, FeeToGo
  <2> QED
    BY <2>1, <2>4, <2>5, <2>6 DEF FeesAddUp, One
<1> QED
  BY <1>2, <1>3, <1>4, <1>5, <1>6, <1>7, <1>8 DEF Calm, RecStep, CheckStep

\* Without failures, when nothing is in hand, the fee total holds exactly the fees of the
\* blocks that are not orphaned (recordBlock counts one, _orphan gives it back).
THEOREM FeesAreExact ==
  ASSUME PromptOffers, OneProcess
  PROVE  CalmSpec => []FeesMatchBlocks
<1>1. OneOwner
  BY ConstantsAssumption DEF OneProcess, OneOwner
<1>2. Init => IInv /\ Recording /\ FeesAddUp
  BY InitInv DEF Init, Zero, Recording, FeesAddUp, FeeDue, FeeToCome, FeeToGo, One
<1>3. [Calm]_vars => [Next]_vars
  BY DEF Calm, Next
<1>4. IInv /\ Recording /\ FeesAddUp /\ [Calm]_vars => (IInv /\ Recording /\ FeesAddUp)'
  BY <1>1, <1>3, NextInv, RecordingStep, CalmAddsUp
<1>5. FeesAddUp /\ TypeOK => FeesMatchBlocks
  <2> SUFFICES ASSUME FeesAddUp, TypeOK, \A p \in Procs : rec[p] = "idle",
                      \A c \in Checkers : pc[c] = "idle", NEW b \in Blocks
               PROVE  fees[b] = IF FeeDue(b) THEN 1 ELSE 0
    BY DEF FeesMatchBlocks, FeeDue
  <2>1. ~FeeToCome(b) /\ ~FeeToGo(b) /\ fees[b] \in Int
    BY DEF FeeToCome, FeeToGo, TypeOK
  <2> QED
    BY <2>1 DEF FeesAddUp, One
<1>6. IInv => TypeOK
  BY DEF IInv
<1> QED
  BY <1>2, <1>4, <1>5, <1>6, PTL DEF CalmSpec
=============================================================================
