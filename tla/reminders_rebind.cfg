SPECIFICATION FairReminders
CONSTANTS
  Runs = 1
  Loops <- Goals
  goal = goal
  NoOrigin = NoOrigin
  First <- Goal
  NoRun = NoRun
  Unset = Unset
  NoMessage = NoMessage
  Turns = 1
  Mishaps = 1
  MaxCalls = 1
INVARIANT RemainsEligible
CHECK_DEADLOCK FALSE
