SPECIFICATION Spec
CONSTANTS
  Device = {d1}
  Receipt = {r1, r2}
  Code = {c1, c2}
  Nobody = Nobody
  LeaseSize = 2
  MaxAttempts = 2
  Copies = 1
  CodesTarget = 2
  MaxSessions = 1
  MaxUpsets = 2
SYMMETRY Symmetry
CHECK_DEADLOCK FALSE
INVARIANTS PrintedOnce

