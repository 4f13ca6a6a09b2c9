\* A trade whose stop was moved to break-even is closed in part.
SPECIFICATION Spec
CONSTANTS
  None = None
  Clients = {c1}
  Deleters = {c1}
  MaxTrades = 2
  MaxEvents = 2
  Dates = {1}
  EntryPrices = {2}
  Stops = {1, 2}
  ExitPrices = {3}
  Quantities = {1, 2}
  Patches <- MCTrails
PROPERTY HonestR
CHECK_DEADLOCK FALSE
