SPECIFICATION Spec
CONSTANTS
  Conns = {"c1", "c2"}
  Ids = {1}
  IdsOf <- SameIds
  Server = "s1"
  PinFiles <- NoneOrPinned
  Closable = {"c1"}
  Servers = {"s1"}
  Tools = {"t1"}
  Descs = {"d1"}
  Schemas = {"x1", "x2"}
  None = None
  MaxRequests = 2
CHECK_DEADLOCK FALSE
INVARIANTS EveryListCompared
