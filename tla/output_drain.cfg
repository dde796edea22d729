CONSTANTS
  Process = {p1}
  Key = {k1, k2}
  Nobody = Nobody
  MaxAttempts = 2
  MaxPending = 1
  Handovers = 2
  Ends = 1
  Lapses = 0
SPECIFICATION FairSpec
PROPERTIES EverythingSettles DrainEnds
CHECK_DEADLOCK FALSE
