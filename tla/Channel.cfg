SPECIFICATION Spec
CONSTANTS
  Pushes = {p1}
  MaxRef = 4
  MaxUnsubscribes = 1
  MaxFaults = 1
  MaxServerEvents = 1
  MaxCloses = 1
  Env = {"timeouts", "silence", "refusals", "backpressure"}
INVARIANTS TypeOK ErroredIsRetried RetryOnlyWhileRecovering LeavingIsQuiet
  AcksAreWatched PushesWaitOnce
PROPERTY ImplementsPushLifecycle
CHECK_DEADLOCK FALSE
