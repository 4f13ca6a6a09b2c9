\* A batch from day 0 on, verdicts on days 2 and 3, two evaluations or an
\* evaluation and a reclassification at once, one finished session rewritten,
\* two faults.
SPECIFICATION Spec
CONSTANTS
  None = None
  Unknown = Unknown
  NoNumber = NoNumber
  Window = 2
  Symbols = {"a", "b"}
  LabelsOf <- MCLabelsOf
  BarsOf <- MCBarsOf
  LastDay = 3
  DetectDays = {0}
  PriceDays = {1, 2}
  DownloadDays = 2
  MaxRewrites = 1
  EvalDays = {2, 3}
  WindowDays = 3
  Patience = 3
  ScanOrder <- MCBatch
  MaxScans = 1
  JobsOf <- MCJobsOf
  MaxFaults = 2
INVARIANTS TypeOK PullbackFaithful RegimeOfOwnDay
INVARIANTS FamilyOrder FollowThroughSound
INVARIANTS GateAndBreakdownAgree
\* The calendar ends.
CHECK_DEADLOCK FALSE
