SPECIFICATION Spec
CONSTANTS
  Pushes = {p1}
  MaxRef = 4
  MaxUnsubscribes = 0
  MaxFaults = 1
  MaxServerEvents = 0
  MaxCloses = 0
  Env = {}
INVARIANT KeptUnlessLeft
CHECK_DEADLOCK FALSE
