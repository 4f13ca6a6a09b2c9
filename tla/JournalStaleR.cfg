\* A part is sold and the stop of the sold part is taken away.
SPECIFICATION Spec
CONSTANTS
  None = None
  Clients = {c1}
  Deleters = {c1}
  MaxTrades = 2
  MaxEvents = 2
  Dates = {1}
  EntryPrices = {2}
  Stops = {1, 2}
  ExitPrices = {3}
  Quantities = {1, 2}
  Patches <- MCPatches
INVARIANT NoRWithoutStop
CHECK_DEADLOCK FALSE
