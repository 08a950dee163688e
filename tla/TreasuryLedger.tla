--------------------------- MODULE TreasuryLedger ---------------------------
(***************************************************************************)
(* scripts/check_treasury_ledger.py: the table of spends in                *)
(* docs/TREASURY_LEDGER.md against the chain, which grows while it asks.   *)
(* The author of the table writes rows and restates the balance in between.*)
(***************************************************************************)
EXTENDS Integers, Sequences, Functions

CONSTANTS K,                  \* subsidy, interval, percent, start, last, max_halvings
          Amounts, FEE,       \* of a spend
          Payees,
          MaxHeight, MaxSpends, MaxRows, MaxGifts, MaxSlips, MaxUnanswered   \* bounds

VARIABLES height,             \* of the chain's tip
          spends,             \* [to, amount, fee, h]: h is 0 until it is mined
          gifts,              \* heights at which a stranger paid the treasury 1
          rows,               \* the table: [tx, amount, fee, to]
          balance, example,   \* the prose, as it was last restated
          slips,              \* of the author's pen
          scan,               \* what scantxoutset answered, or none
          asked,              \* rows asked for so far
          bad, spent, by_height,
          unanswered,
          code

ledgerVars == <<height, spends, gifts, rows, balance, example, slips, scan, asked, bad, spent,
                by_height, unanswered, code>>
prose == <<rows, balance, example, slips>>
chain == <<height, spends, gifts>>
check == <<scan, asked, bad, spent, by_height, unanswered, code>>

Running == -1
NoScan == [h |-> -1, held |-> 0]
Total(f) == FoldFunction(+, 0, f)
Lesser(a, b) == IF a < b THEN a ELSE b

\* treasury_at: GetBlockSubsidy and GetDevFeeAmount in the same integer steps.
treasury_at(h) ==
  LET halvings == (h - 1) \div K.interval
  IN  IF h < K.start \/ h > K.last \/ halvings >= K.max_halvings THEN 0
      ELSE ((K.subsidy \div 2^halvings) * K.percent) \div 100

\* A mutant: the last height of an epoch counted into the next.
Epoch_end_Early(h, height_) ==
  Lesser(Lesser(height_, K.last), (h \div K.interval + 1) * K.interval)

Epoch_end(h, height_) ==
  Lesser(Lesser(height_, K.last), ((h - 1) \div K.interval + 1) * K.interval)

\* accrued_through: one multiplication per halving.
accrued_through(height_) ==
  LET From[h \in 1..(K.last + 1)] ==
        IF h > Lesser(height_, K.last) THEN 0
        ELSE LET end == Epoch_end(h, height_)
             IN  treasury_at(h) * (end - h + 1) + From[end + 1]
  IN  From[K.start]

Mined(h) == {i \in DOMAIN spends : spends[i].h \in 1..h}
Left(i) == spends[i].amount + spends[i].fee
Given(h) == Len(SelectSeq(gifts, LAMBDA g : g <= h))
Held == Total([h \in 1..height |-> treasury_at(h)]) + Given(height)
        - Total([i \in Mined(height) |-> Left(i)])

-----------------------------------------------------------------------------
\* The chain: spends are sent, blocks take them in or not yet, strangers pay.
Spends(to, amount) ==
  /\ code = Running /\ Len(spends) < MaxSpends
  /\ amount + FEE <= Held - Total([i \in {j \in DOMAIN spends : spends[j].h = 0} |-> Left(i)])
  /\ spends' = Append(spends, [to |-> to, amount |-> amount, fee |-> FEE, h |-> 0])
  /\ UNCHANGED <<height, gifts, prose, check>>

Mines(taken) ==
  /\ code = Running /\ height < MaxHeight /\ height' = height + 1
  /\ spends' = [i \in DOMAIN spends |->
                  IF i \in taken THEN [spends[i] EXCEPT !.h = height + 1] ELSE spends[i]]
  /\ \/ UNCHANGED gifts
     \/ Len(gifts) < MaxGifts /\ gifts' = Append(gifts, height + 1)
  /\ UNCHANGED <<prose, check>>

\* The author: a row per spend, some with a slip; and the two sums below the table.
Row(tx) == [tx |-> tx, amount |-> spends[tx].amount, fee |-> spends[tx].fee, to |-> spends[tx].to]
Writes(row) ==
  /\ scan = NoScan /\ code = Running /\ Len(rows) < MaxRows
  /\ rows' = Append(rows, row)
  /\ UNCHANGED <<chain, balance, example, check>>

WritesRow(tx) == Writes(Row(tx)) /\ UNCHANGED slips
Slips(tx) ==
  /\ slips < MaxSlips /\ slips' = slips + 1
  /\ \/ \E a \in Amounts : Writes([Row(tx) EXCEPT !.amount = a])
     \/ \E to \in Payees : Writes([Row(tx) EXCEPT !.to = to])
     \/ Writes([Row(tx) EXCEPT !.fee = 0])
     \/ Writes([Row(tx) EXCEPT !.tx = Len(spends) + 1])

AmountsOf == Total([i \in DOMAIN rows |-> rows[i].amount])
FeesOf == Total([i \in DOMAIN rows |-> rows[i].fee])

Restates ==
  /\ scan = NoScan /\ code = Running
  /\ balance' = [h |-> height, said |-> Held]
  /\ example' = [h |-> height, amounts |-> AmountsOf, fees |-> FeesOf,
                 result |-> accrued_through(height) - AmountsOf - FeesOf]
  /\ UNCHANGED <<chain, rows, slips, check>>

-----------------------------------------------------------------------------
\* main: the height is the scan's own.  No row, or no scan, checks nothing.
Scans ==
  /\ scan = NoScan /\ code = Running
  /\ IF rows = <<>> THEN code' = 2 /\ UNCHANGED scan
     ELSE \/ scan' = [h |-> height, held |-> Held] /\ UNCHANGED code
          \/ code' = 2 /\ UNCHANGED scan
  /\ UNCHANGED <<chain, prose, asked, bad, spent, by_height, unanswered>>

\* The fee the node tells: nothing while the transaction is in no block.
FeeOf(t) == IF t.h = 0 THEN 0 ELSE t.fee
Wrong(r, t) ==
  \/ (IF r.to = t.to THEN t.amount ELSE 0) # r.amount
  \/ FeeOf(t) # r.fee
  \/ r.to # t.to

\* A row the node does not have, or does not answer for, is bad and not summed; one
\* whose block it does not answer for is summed and has no height.
AsksRow ==
  /\ scan # NoScan /\ code = Running /\ asked < Len(rows)
  /\ LET r == rows[asked + 1]
         left == r.amount + FeeOf(spends[r.tx])
     IN  \/ /\ r.tx \in DOMAIN spends
            /\ bad' = (bad \/ Wrong(r, spends[r.tx]))
            /\ spent' = spent + left
            /\ \/ /\ spends[r.tx].h # 0
                  /\ by_height' = Append(by_height, [h |-> spends[r.tx].h, v |-> left])
                  /\ UNCHANGED unanswered
               \/ spends[r.tx].h = 0 /\ UNCHANGED <<by_height, unanswered>>
               \/ /\ spends[r.tx].h # 0 /\ unanswered < MaxUnanswered
                  /\ unanswered' = unanswered + 1 /\ UNCHANGED by_height
         \/ /\ r.tx \notin DOMAIN spends
            /\ bad' = TRUE /\ UNCHANGED <<spent, by_height, unanswered>>
         \/ /\ unanswered < MaxUnanswered /\ unanswered' = unanswered + 1
            /\ bad' = TRUE /\ UNCHANGED <<spent, by_height>>
  /\ asked' = asked + 1
  /\ UNCHANGED <<chain, prose, scan, code>>

\* The balance is stale when a row is newer, or when the rows up to its height give
\* another number; the example when it is not the table's.
BalanceIsStale ==
  \/ \E i \in DOMAIN by_height : by_height[i].h > balance.h
  \/ balance.said # accrued_through(balance.h)
                    - Total([i \in {j \in DOMAIN by_height : by_height[j].h <= balance.h} |->
                               by_height[i].v])
ExampleIsStale ==
  \/ example.amounts # AmountsOf \/ example.fees # FeesOf
  \/ example.result # accrued_through(example.h) - AmountsOf - FeesOf

\* The identity: what accrued less what the table says is what the chain holds.
Verdict ==
  /\ scan # NoScan /\ code = Running /\ asked = Len(rows)
  /\ code' = IF \/ bad \/ accrued_through(scan.h) - spent # scan.held
                \/ BalanceIsStale \/ ExampleIsStale THEN 1 ELSE 0
  /\ UNCHANGED <<chain, prose, scan, asked, bad, spent, by_height, unanswered>>

LedgerInit ==
  /\ height = 0 /\ spends = <<>> /\ gifts = <<>> /\ rows = <<>>
  /\ balance = [h |-> 0, said |-> 0]
  /\ example = [h |-> 0, amounts |-> 0, fees |-> 0, result |-> 0]
  /\ slips = 0 /\ scan = NoScan /\ asked = 0 /\ bad = FALSE /\ spent = 0 /\ by_height = <<>>
  /\ unanswered = 0 /\ code = Running

LedgerNext ==
  \/ \E to \in Payees, amount \in Amounts : Spends(to, amount)
  \/ \E taken \in SUBSET {i \in DOMAIN spends : spends[i].h = 0} : Mines(taken)
  \/ \E tx \in DOMAIN spends : WritesRow(tx) \/ Slips(tx)
  \/ Restates \/ Scans \/ AsksRow \/ Verdict

-----------------------------------------------------------------------------
\* "If a coin ever leaves the treasury without a row, this is what finds it"
\* (check_treasury_ledger.py's docstring).  On a pass, each row of a mined
\* transaction is that transaction, the accrual is the sum of what the blocks paid,
\* and, where no stranger paid in and each row is of a transaction of its own that
\* the scan had in a block, no spend the scan saw is without one.
LedgerIsWhole ==
  code = 0 =>
    /\ \A i \in DOMAIN rows : rows[i].tx \in DOMAIN spends /\ rows[i].to = spends[rows[i].tx].to
                              /\ rows[i].amount = spends[rows[i].tx].amount
    /\ accrued_through(scan.h) = Total([h \in 1..scan.h |-> treasury_at(h)])
    /\ (/\ gifts = <<>>
        /\ \A i \in DOMAIN rows : rows[i].tx \in Mined(scan.h)
        /\ \A i, j \in DOMAIN rows : rows[i].tx = rows[j].tx => i = j)
       => Mined(scan.h) = {rows[i].tx : i \in DOMAIN rows}
=============================================================================
