SPECIFICATION FairParts
CONSTANTS
  Process = {gateway}
  Run = {r1}
  Origin <- OneOrigin
  NoRun = NoRun
  Nobody = Nobody
  Unset = Unset
  MaxAttempts = 1
  Ends = 3
  Runs = 2
  Loops <- Goals
  goal = goal
  NoOrigin = NoOrigin
  First <- Goal
  NoMessage = NoMessage
  Turns = 1
  Mishaps = 1
  MaxCalls = 1
INVARIANTS
  RemindersAreCurrent
  ReservationsCarried
  MemoryIsStored
  RunningIsExecuted
  JobEndsWithRun
  CancelledIsOver
PROPERTIES
  EventuallyTold
  TerminalFinal
CHECK_DEADLOCK FALSE
