SPECIFICATION FairSpec
CONSTANTS
  Pushes = {p1}
  MaxRef = 10
  MaxUnsubscribes = 1
  MaxFaults = 1
  MaxServerEvents = 1
  MaxCloses = 1
  Env = {}
PROPERTIES RecoveringSettles LeavingCloses
CHECK_DEADLOCK FALSE
