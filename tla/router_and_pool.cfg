SPECIFICATION FairParts
CONSTANTS
  x = x
  y = y
  Id = {x, y}
  Subtree <- Parent
  RoomFor <- SameRoom
  Caller = {m1, m2}
  Job = {j1}
  Kinds = {"idle", "reset", "dispose", "kill", "rebind", "close"}
  ColdStarts = 2
  MaxRuntimes = 1
  None = None
  a = a
  b = b
  c = c
  a1 = a1
  a2 = a2
  na3 = na3
  na4 = na4
  b1 = b1
  b2 = b2
  c1 = c1
  nc2 = nc2
  Room <- ThreeRooms
  Request <- MixedRequests
  RoomOf <- MixedRoomOf
  Nested <- NestedRequests
  Limit = 4
  PerRoom = 2
  MaxWaiting = 4
  Reserved = 2
INVARIANTS
  TypeOK
  RuntimesOwned
  CapacityRespected
  AccountsMatch
  WorkConserving
PROPERTIES
  TeardownTakesAll
  EveryoneAnswered
  OlderFirst
  NestedServed
CHECK_DEADLOCK FALSE
