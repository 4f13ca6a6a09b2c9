SPECIFICATION Spec
CONSTANTS
  Symbols = {s1, s2}
  Visitors = {v1}
  MaxDay = 2
  Weekdays <- MCWeekdays
  Trading <- MCFirstDay
  MinPct = 50
  MaxFaults = 2
  MaxVisits = 1
SYMMETRY MCSymmetry
INVARIANTS
  TypeOK
  SlowExclusive
  CaptureEvidence
  CapturedInSession
  CompletionDurable
PROPERTIES
  ImplementsLedger
CHECK_DEADLOCK FALSE
