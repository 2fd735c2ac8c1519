SPECIFICATION FairSpec
CONSTANTS
  Messages = {m1, m2, m3}
  Callers = {a}
  MaxRetries = 2
  MaxConns = 3
  MaxFailures = 2
INVARIANTS TypeOK RepeatsNeedReconnect
PROPERTIES ImplementsOutbox ConnectReturns
CHECK_DEADLOCK FALSE
