SPECIFICATION Spec
CONSTANTS
  x = x
  y = y
  Id = {x, y}
  Subtree <- Parent
  RoomFor <- SameRoom
  Caller = {c1, c2}
  Job = {j1}
  Kinds = {"idle", "reset", "dispose", "kill", "rebind", "close"}
  ColdStarts = 2
  MaxRuntimes = 1
  None = None
INVARIANT QuiescenceIsLifted
CHECK_DEADLOCK FALSE
