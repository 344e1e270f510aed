SPECIFICATION FairSpec
CONSTANTS
  Wrappers = {"w1", "w2"}
  Servers = {"s1", "s2"}
  ServerOf <- TwoServers
  Tools = {"t1"}
  Descs = {"d1"}
  Schemas = {"x1", "x2"}
  None = None
  BetweenAction = "warn"
  InjectAction = "warn"
  MaxRequests = 1
  MaxSessions = 2
  CutSaves = TRUE
CHECK_DEADLOCK FALSE
INVARIANTS PinsWereServed NoListUninspected
PROPERTIES ResponsesForwarded
