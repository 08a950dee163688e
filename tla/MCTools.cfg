SPECIFICATION MCSpec
CHECK_DEADLOCK FALSE
CONSTANTS
  Payments <- Two
  Parts = 2
  Reward = 5
  COINBASE_MATURITY = 2
  Over = 4
  FeePerInput = 1
  Dust = 2
  FirstTip = 8
  MaxBlocks = 1
  MaxPlans = 2
  MaxFaults = 1
  Sweepers = {1, 2}
  Dests = {"none", "own", "good"}
  ToMiners = 2
  Fee = 1
  MIN = 1
  TXFEE = 1
  MaxFound = 2
  MaxLost = 1
  Nodes = {"n1", "n2"}
  Lists <- AskedNodes
  Branches = {"a", "b"}
  Bury = 1
  MaxHeight = 3
  MaxReorgs = 1
  MaxSilent = 1
  Threads = {0, 1}
  MaxNonce = 2
  Items = 3
  MaxRuns = 2
  MaxBroken = 1
INVARIANTS SentIsApproved SittingIsDisjoint SourceIsWhole FeeGoesLast CheckpointIsShared PassesAreEarned GenesisIsSound
