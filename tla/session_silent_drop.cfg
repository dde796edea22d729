SPECIFICATION Spec
CONSTANTS
  m1 = m1
  m2 = m2
  r1 = r1
  r2 = r2
  c1 = c1
  Message = {m1}
  Reminder = {}
  Compact = {c1}
  None = None
  MaxQueue = 1
  Fallbacks = 0
  IdleErrors = FALSE
  Watched = {m1}
INVARIANT NoSilentDrop
CHECK_DEADLOCK FALSE
