\* The representative of a decision is deleted.
SPECIFICATION Spec
CONSTANTS
  None = None
  Clients = {c1}
  Deleters = {c1}
  MaxTrades = 2
  MaxEvents = 2
  Dates = {1}
  EntryPrices = {2}
  Stops = {1, 2}
  ExitPrices = {3}
  Quantities = {1, 2}
  Patches <- MCPatches
INVARIANT RepresentativeExists
CHECK_DEADLOCK FALSE
