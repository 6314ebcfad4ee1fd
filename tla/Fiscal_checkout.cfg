CONSTANTS
  t1 = t1
  t2 = t2
  r1 = r1
  c1 = c1
  m1 = m1
  s1 = s1
  s2 = s2
  NoSale = NoSale
  Workers = {t1, r1}
  Crons = {}
  Managers = {}
  Tills = {t1}
  Retriers = {r1}
  Sales = {s1}
  MaxShifts = 2
  MaxRows = 3
  Upsets = {"crash", "lost", "outside", "toggle", "db"}
  MaxUpsets = 2
  MaxAttempts = 2
  AdoptLimit = 1
  CashierVoids = FALSE
  DoubleSubmit = FALSE
  SlowAbort = FALSE
SPECIFICATION FairSpec
INVARIANTS TypeOK NoCancelledReceipt
PROPERTIES KeepsPromise VoidedNeverResent EveryDocumentSettles NoOrphanForgotten
