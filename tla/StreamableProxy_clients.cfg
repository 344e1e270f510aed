SPECIFICATION FairSpec
CONSTANTS
  Conns = {"c1", "c2"}
  Ids = {1, 2}
  IdsOf <- OwnIds
  Server = "s1"
  PinFiles <- NoneOrPinned
  Closable = {"c1"}
  Servers = {"s1"}
  Tools = {"t1"}
  Descs = {"d1"}
  Schemas = {"x1", "x2"}
  None = None
  MaxRequests = 3
CHECK_DEADLOCK FALSE
INVARIANTS NothingNewUnrecorded EarlierPinsStick
PROPERTIES RelaysEnd
