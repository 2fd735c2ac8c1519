SPECIFICATION Spec
CONSTANTS
  Pushes = {p1}
  MaxRef = 3
  MaxUnsubscribes = 0
  MaxFaults = 0
  MaxServerEvents = 0
  MaxCloses = 0
  Env = {"timeouts"}
INVARIANT KeepsListening
CHECK_DEADLOCK FALSE
