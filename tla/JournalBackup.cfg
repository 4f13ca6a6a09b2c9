\* One request at a time opens and closes; nothing is deleted or edited.
SPECIFICATION Spec
CONSTANTS
  None = None
  Clients = {c1}
  Deleters = {}
  MaxTrades = 3
  MaxEvents = 0
  Dates = {1, 2}
  EntryPrices = {2}
  Stops = {}
  ExitPrices = {3}
  Quantities = {1, 2}
  Patches = {}
INVARIANT SalesPreserved
CHECK_DEADLOCK FALSE
