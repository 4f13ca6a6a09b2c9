\* The scheduler loop on the comment that every future-dated marker is reset.
SPECIFICATION Spec
CONSTANTS
  None = None
  Interval <- MCInterval
  Tolerance = 1
  MarketHours <- MCMarketHours
  CloseCut = 15
  Durations = {0, 3}
  Pauses = {0, 1}
  Skew = 9
  Horizon = 24
  MaxJumps = 2
INVARIANT CycleRecovers
CHECK_DEADLOCK FALSE
