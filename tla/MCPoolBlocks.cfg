SPECIFICATION FewSpec
CONSTANTS
  p1 = p1
  p2 = p2
  c1 = c1
  c2 = c2
  Blocks = {b1, b2}
  Shares = {s1, s2}
  Procs = {p1}
  Checkers = {c1, c2}
  Owner <- OneProcess
  Mode = "prop"
  PromptOffers = TRUE
  FallbackBehind = FALSE
  None = None
SYMMETRY Symmetry
INVARIANTS CreditedOnce CreditsAreSpendable OrphansLeftTheChain
PROPERTIES RoundIsNeverWiped ImplementsBlockLedger
CHECK_DEADLOCK FALSE
