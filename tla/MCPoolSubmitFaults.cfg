SPECIFICATION FairSpec
CONSTRAINT FewEnough
CONSTANTS
  s1 = s1 s2 = s2 w1 = w1 a1 = a1 a2 = a2 a3 = a3 d1 = d1
  Attempts = {a1, a2}
  Works = {s1, s2}
  Solves = {s1, s2}
  Bad = {s2}
  TipOf <- OneTip
  Drains = {d1}
  Retries = 1
  MaxTip = 1
  MaxPolls = 1
  MaxCrashes = 1
  MaxChain = 1
  Reordered = FALSE
  LostWrites = {"claim", "add", "block"}
  NodeSilent = TRUE
INVARIANT UnansweredIsSpooled
PROPERTIES RefusedIsKept EveryShareIsAnswered SpoolDrains
