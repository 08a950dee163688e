SPECIFICATION MCSpec
CONSTANTS
  Premine = 40
  Initial = 100
  Interval = 3
  MaxHalvings = 7
  Halved <- Shifts
  Percent = 5
  StartFee = 1
  LastFee = 5
  MaxMoney = 640
  MaxHeight = 24
  Slack = 1
  PastBlocks = 3
  Spacing = 6
  ClampFactor = 3
  PowLimit = 1792
  Base = 4
  Digits = 3
  Gaps <- Times
  Slow = 40
  Hardest = 60
INVARIANTS SupplyIsExact SupplyIsCapped TreasuryIsPaid RetargetIsBounded RetargetFollowsTime
CHECK_DEADLOCK FALSE
