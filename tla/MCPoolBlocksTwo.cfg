SPECIFICATION Spec
CONSTANTS
  p1 = p1
  p2 = p2
  c1 = c1
  c2 = c2
  Blocks = {b1}
  Shares = {s1}
  Procs = {p1, p2}
  Checkers = {c1, c2}
  Owner <- TwoProcesses
  Mode = "prop"
  PromptOffers = TRUE
  FallbackBehind = FALSE
  None = None
CHECK_DEADLOCK FALSE
INVARIANT CreditedOnce
