CONSTANTS
  t1 = t1
  t2 = t2
  c1 = c1
  c2 = c2
  m1 = m1
  Workers = {t1, c1}
  Crons = {c1}
  Managers = {t1}
  MaxShifts = 2
  MaxRows = 2
  Upsets = {"crash", "toggle", "outside", "lost", "db", "offline"}
  MaxUpsets = 2
SPECIFICATION SellingSpec
INVARIANTS ShiftTypeOK
PROPERTIES ClosingKeepsOwner OverdueShiftIsClosed
CHECK_DEADLOCK FALSE
