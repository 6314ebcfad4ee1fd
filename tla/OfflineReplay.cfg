SPECIFICATION Spec
CONSTANTS
  Docs = {d1, d2}
  MaxSessions = 1
  MaxNow = 3
  MaxAttempts = 2
  Batch = 1
  MaxUpsets = 1
  ServerSells = TRUE
  OnlineSells = TRUE
CHECK_DEADLOCK FALSE
INVARIANTS TypeOK ClosedLeavesNothing LostGoOfflineIsFound
PROPERTIES ReplayInDateOrder SentInsideWindow
SYMMETRY Symmetry
