SPECIFICATION FairSpec
CONSTANTS
  Docs = {d1}
  MaxSessions = 1
  MaxNow = 2
  MaxAttempts = 2
  Batch = 1
  MaxUpsets = 1
  ServerSells = TRUE
  OnlineSells = TRUE
CHECK_DEADLOCK FALSE

PROPERTIES SessionEnds
