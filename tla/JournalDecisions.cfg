\* One request at a time, nothing deleted: the legs of one symbol in order, and the
\* backups and scores of what they make.
SPECIFICATION Spec
CONSTANTS
  None = None
  Clients = {c1}
  Deleters = {}
  MaxTrades = 3
  MaxEvents = 1
  Dates = {1, 2, 3}
  EntryPrices = {2}
  Stops = {}
  ExitPrices = {3}
  Quantities = {1, 2}
  Patches <- MCCorrections
INVARIANTS FlatDecisions BackupRestores FifoMatches ScoreboardsAgree
PROPERTIES PurchaseRegroups
\* Once the ids are used up by requests that failed, nothing can happen.
CHECK_DEADLOCK FALSE
