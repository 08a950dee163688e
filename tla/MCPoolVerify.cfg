SPECIFICATION FairSpec
CONSTANTS
  s1 = s1 s2 = s2 s3 = s3
  Shares = {s1, s2, s3}
  Seeds = {1, 2}
  Configured = {1, 2, 3}
  MostVms = 2
  DefaultVms = 1
  MaxSeeds = 1
  MaxVerifying = 2
  Threads = 2
INVARIANTS VmIsExclusive PlacesAreUsed
PROPERTY EveryShareIsVerified
CHECK_DEADLOCK FALSE
