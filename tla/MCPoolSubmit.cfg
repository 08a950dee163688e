SPECIFICATION Spec
CONSTANTS
  s1 = s1 s2 = s2 w1 = w1 a1 = a1 a2 = a2 a3 = a3 d1 = d1
  Attempts = {a1, a2, a3}
  Works = {s1, s2, w1}
  Solves = {s1, s2}
  Bad = {}
  TipOf <- ShareLater
  Drains = {d1}
  Retries = 1
  MaxTip = 2
  MaxPolls = 1
  MaxCrashes = 0
  MaxChain = 1
  Reordered = FALSE
  LostWrites = {"spool", "unspool"}
  NodeSilent = FALSE
SYMMETRY Symmetry
INVARIANTS OneCreditPerWork ToldIsCredited NoBlockForgotten
