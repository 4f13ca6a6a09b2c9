\* A trade is opened with a stop and its request is lost.
SPECIFICATION Spec
CONSTANTS
  None = None
  Clients = {c1}
  Deleters = {c1}
  MaxTrades = 1
  MaxEvents = 2
  Dates = {1}
  EntryPrices = {2}
  Stops = {1, 2}
  ExitPrices = {3}
  Quantities = {1, 2}
  Patches <- MCPatches
INVARIANT InitialLogged
CHECK_DEADLOCK FALSE
