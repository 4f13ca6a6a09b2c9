\* Two requests at a time on up to two trades.
SPECIFICATION Spec
CONSTANTS
  None = None
  Clients = {c1, c2}
  Deleters = {c1, c2}
  MaxTrades = 2
  MaxEvents = 2
  Dates = {1}
  EntryPrices = {2}
  Stops = {1, 2}
  ExitPrices = {3}
  Quantities = {1, 2}
  Patches <- MCPatches
SYMMETRY MCSymmetry
INVARIANTS TypeOK EditsAreCurrent QuantityKept OutcomesCurrent StopLogChains InitialIsFirstStop
\* Once the ids are used up and every trade is deleted, nothing can happen.
CHECK_DEADLOCK FALSE
