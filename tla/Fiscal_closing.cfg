CONSTANTS
  t1 = t1
  t2 = t2
  r1 = r1
  c1 = c1
  m1 = m1
  s1 = s1
  s2 = s2
  NoSale = NoSale
  Workers = {t1, r1, m1}
  Crons = {}
  Managers = {m1}
  Tills = {t1}
  Retriers = {r1}
  Sales = {s1}
  MaxShifts = 1
  MaxRows = 2
  Upsets = {}
  MaxUpsets = 0
  MaxAttempts = 2
  AdoptLimit = 1
  CashierVoids = TRUE
  DoubleSubmit = FALSE
  SlowAbort = TRUE
SPECIFICATION Spec
INVARIANTS DoneIsRegistered ProjectionAgrees OneSender
PROPERTIES DoneStaysDone
