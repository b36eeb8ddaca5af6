SPECIFICATION Spec
CONSTANTS
  Gifts = {g1}
  Absent = absent
  Indexers = {p1, p2}
  Legacy = {}
  PageSize = 1
  RpcCursor = TRUE
  MaxLog = 3
  MaxFaults = 1
INVARIANTS
  SeenBeforeCursor
  EventActsOnce
PROPERTIES
  EventsReachStore
