CONSTANTS
  a = a
  b = b
  Command <- TwoCommands
  Session = {a, b}
  RoomOf <- OwnRoom
  None = None
  QueueLimit = 1
  SteerLimit = 1
  MaxClaims = 2
  Mishaps = 1
SPECIFICATION FairSpec
INVARIANTS DispatchedOnce AnswerIsTrue
PROPERTIES FifoDispatch SettledFinal Answered
CHECK_DEADLOCK FALSE
