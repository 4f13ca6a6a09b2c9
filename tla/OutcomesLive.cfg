\* A batch and the live feed over two symbols in opposite orders, two
\* evaluations at once on the last day; one kind of bar, for a verdict of any
\* kind settles a row.
SPECIFICATION Spec
CONSTANTS
  None = None
  Unknown = Unknown
  NoNumber = NoNumber
  Window = 2
  Symbols = {"a", "b"}
  LabelsOf <- MCLabelsOf
  BarsOf <- MCOneBar
  LastDay = 3
  DetectDays = {0}
  PriceDays = {1, 2}
  DownloadDays = 2
  MaxRewrites = 0
  EvalDays = {3}
  WindowDays = 3
  Patience = 3
  ScanOrder <- MCScanOrder
  MaxScans = 2
  JobsOf <- MCJobsOf
  MaxFaults = 0
\* The calendar ends.
CHECK_DEADLOCK FALSE
PROPERTIES ScansEnd EventuallySettled
