CONSTANTS
  Process = {p1, p2}
  Key = {k1}
  Nobody = Nobody
  MaxAttempts = 2
  MaxPending = 1
  Handovers = 1
  Ends = 2
  Lapses = 2
SPECIFICATION Spec
INVARIANTS TypeOK NothingLost CheckpointsTrue RepeatedOnlyIfCut
PROPERTIES ProgressKept OnlyOwnerSettles
SYMMETRY Symmetry
CHECK_DEADLOCK FALSE
