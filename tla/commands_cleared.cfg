CONSTANTS
  a = a
  b = b
  Command <- TwoCommands
  Session = {a}
  RoomOf <- OwnRoom
  None = None
  QueueLimit = 1
  SteerLimit = 1
  MaxClaims = 2
  Mishaps = 0
SPECIFICATION FairSpec
PROPERTY ClearedIsClosed
CHECK_DEADLOCK FALSE
