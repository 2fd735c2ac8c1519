SPECIFICATION Spec
CONSTANTS
  Filters <- MCFilters
  Ids = {1, 2, 3}
  MaxCallbacks = 3
  MaxJoins = 3
  MaxQueue = 2
INVARIANTS TypeOK NoCrossTalk ServedIsHeard MismatchIsLate
PROPERTY SubscribedIsBound
CHECK_DEADLOCK FALSE
