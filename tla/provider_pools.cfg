SPECIFICATION FairSpec
CONSTANTS
  a = a
  b = b
  a1 = a1
  a2 = a2
  a3 = a3
  b1 = b1
  Provider = {v, w}
  MaxProviders = 1
  Room <- TwoRooms
  Request <- FourRequests
  RoomOf <- FourRoomOf
  Nested = {}
  Limit = 1
  PerRoom = 1
  MaxWaiting = 3
  Reserved = 0
  None = None
INVARIANT RegistrySound
PROPERTY EveryWaiterServed
CHECK_DEADLOCK FALSE
