SPECIFICATION FairSpec
CONSTANTS
  m1 = m1
  m2 = m2
  r1 = r1
  r2 = r2
  c1 = c1
  Message = {m1, r1, r2}
  Reminder = {r1, r2}
  Compact = {c1}
  None = None
  MaxQueue = 1
  Fallbacks = 1
  IdleErrors = TRUE
  Watched = {r1}
INVARIANTS
  TypeOK
  FinishedXorError
  TurnUndisturbed
PROPERTIES
  LeavesAnswered
  WithdrawnNeverStarts
  DisposedStaysSilent
  ImplementsMailbox
  DisposalCompletes
CHECK_DEADLOCK FALSE
