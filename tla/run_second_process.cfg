CONSTANTS
  Process = {gateway, command}
  Run = {r1}
  Origin <- OneOrigin
  NoRun = NoRun
  Nobody = Nobody
  Unset = Unset
  MaxAttempts = 1
  Ends = 1
SPECIFICATION Spec
PROPERTIES TerminalFinal
CHECK_DEADLOCK FALSE
