SPECIFICATION Spec
CONSTANTS
  Wrappers = {"w1"}
  Servers = {"s1"}
  ServerOf <- OneServer
  Tools = {"t1", "t2"}
  Descs = {"d1"}
  Schemas = {"x1", "x2"}
  None = None
  BetweenAction = "warn"
  InjectAction = "warn"
  MaxRequests = 2
  MaxSessions = 3
  CutSaves = FALSE
CHECK_DEADLOCK FALSE
INVARIANTS DriftReported MidSessionReported
