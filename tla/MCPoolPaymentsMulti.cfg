SPECIFICATION Spec
CONSTANTS
  Miners = {m1, m2}
  Runs = {r1, r2}
  NoRun = NoRun
  Threshold = 1
  MaxRecipients = 2
  MaxPerBatch = 2
  MaxCredit = 3
  Amounts <- OneAndThree
  LostWrites <- Writes
CHECK_DEADLOCK FALSE
INVARIANT NoDuplicatePayment
