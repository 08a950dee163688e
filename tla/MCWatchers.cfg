SPECIFICATION MCSpec
CHECK_DEADLOCK FALSE
CONSTANTS
  OFFSETS = {1, 3}
  FORGET_AFTER = 4
  AUDIT_PER_RUN = 1
  MaxHeight = 4
  MaxBranches = 2
  MaxChecks = 3
  MaxTrouble = 1
  Seeds = {"s1", "s2"}
  MISSES_BEFORE_ALARM = 2
  MaxLooks = 6
  MaxPeerFaults = 2
  MaxAsked = 4
  MaxReleaseFaults = 2
  Units = {"u1", "u2"}
  Alerters = {"a1", "a2"}
  COOLDOWN = 2
  MaxClock = 3
  MaxAlerts = 3
  HOSTS <- TwoHosts
  CHECKS <- OneCheck
  Tries = 2
  SLOW_EVERY = 0
  MaxNow = 2
  MaxOpsFaults = 1
  Unassigned = 9
  Fields = {"rule", "bip94", "minwork"}
  NOT_A_VALIDITY_RULE = {"minwork"}
  ASSIGNED_NOT_CHANGED <- SecondIsExempt
  Values <- RuleValues
  Peers = {"p1", "us"}
  Ours = {"us"}
  MaxTags = 3
  MaxJoined = 2
  MACHINES <- TwoMachines
  Faults = {"backup"}
  Checks <- OneAudit
  MaxTip = 1
  MaxReports = 2
  MaxChanges = 2
  MaxDowns = 1
  Texts = {1, 2}
  Repeats = 1
  STALE_HOURS = 1
  KEEP = 2
  FORWARD_PER_RUN = 1
  REMEMBERED = 1
  MaxHours = 1
  MaxAtOnce = 1
  MaxMishaps = 1
  MaxLapses = 2
  CHECKED <- TwoHosts
  Networks = {"mainnet"}
  MAX_AGE = 1
  FLOOR = 2
  Levels = {1, 4}
  SPAN = 1
  WARN_WINDOW = 2
  SAMPLES = 2
  Finders = {"f1", "f2"}
  Window = 3
  MIN_BLOCKS = 2
  FAIL = 50
  MaxMeanwhile = 3
  MaxSilences = 1
  Miners = {"m1", "m2"}
  PORTS <- TwoPorts
  MINIMUM = 2
  Reward = 2
  Fee = 1
  INTERVAL = 1
  RUNS = 1
  LAG = 1
  MaxTime = 4
  MaxBlocks = 2
  MaxPoolFaults = 1
  MaxUnread = 1
INVARIANTS AlarmsAreEarned VerdictsAreEarned ChecksAreFair
PROPERTIES RewritesAreOnFile GreenFollows
