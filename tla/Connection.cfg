SPECIFICATION FairSpec
CONSTANTS
  Callers = {a, b}
  MaxRetries = 2
  MaxConns = 3
  MaxLosses = 2
  MaxFailures = 1
INVARIANTS TypeOK OnlyReferredLive ConnectedIsTended NoOrphans
PROPERTY LostIsReplaced
CHECK_DEADLOCK FALSE
