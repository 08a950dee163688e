SPECIFICATION CalmSpec
CONSTANTS
  p1 = p1
  p2 = p2
  c1 = c1
  c2 = c2
  Blocks = {b1, b2}
  Shares = {s1}
  Procs = {p1}
  Checkers = {c1, c2}
  Owner <- OneProcess
  Mode = "pplns"
  PromptOffers = TRUE
  FallbackBehind = FALSE
  None = None
CHECK_DEADLOCK FALSE
INVARIANT FeesMatchBlocks
PROPERTY DeepIsCredited
