SPECIFICATION Spec
CONSTANTS
  Pushes = {}
  MaxRef = 5
  MaxUnsubscribes = 1
  MaxFaults = 1
  MaxServerEvents = 1
  MaxCloses = 1
  Env = {"timeouts", "refusals", "rawjoin"}
INVARIANTS JoiningHasAWayOut 
CHECK_DEADLOCK FALSE
