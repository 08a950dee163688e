SPECIFICATION FairSpec
CONSTANTS
  Miners = {m1, m2}
  Runs = {r1, r2}
  NoRun = NoRun
  Threshold = 1
  MaxRecipients = 2
  MaxPerBatch = 2
  MaxCredit = 3
  Amounts <- OneAndThree
  LostWrites <- AllButClear
CHECK_DEADLOCK FALSE
INVARIANTS NoDuplicatePayment NothingForgiven UnfinishedRunHoldsPayments DueHasBatch
PROPERTIES RunEnds ImplementsLedger
