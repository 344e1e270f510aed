SPECIFICATION FairSpec
CONSTANTS
  Pids = {p1, p2}
  Ports = {a, b}
  Servers = {"s1"}
  None = None
  MaxStarts = 3
  OneCommand = TRUE
CHECK_DEADLOCK FALSE
INVARIANTS ServingIsOnFile TrustLasts
PROPERTIES SavedPinsStay StopEndsProxy
