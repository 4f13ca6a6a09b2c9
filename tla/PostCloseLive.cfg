SPECIFICATION FairSpec
CONSTANTS
  Symbols = {s1, s2}
  Visitors = {}
  MaxDay = 2
  Weekdays <- MCWeekdays
  Trading <- MCSecondDay
  MinPct = 50
  MaxFaults = 2
  MaxVisits = 0
PROPERTIES
  EventuallyCaptured
CHECK_DEADLOCK FALSE
