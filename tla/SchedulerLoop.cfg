\* A day around a short session; the clock jumps ahead and back.
SPECIFICATION Spec
CONSTANTS
  None = None
  Interval <- MCInterval
  Tolerance = 1
  MarketHours <- MCMarketHours
  CloseCut = 15
  Durations = {0, 3}
  Pauses = {0, 1}
  Skew = 9
  Horizon = 17
  MaxJumps = 2
INVARIANTS TypeOK CadenceKept NoStarvation
\* Real time is bounded.
CHECK_DEADLOCK FALSE
