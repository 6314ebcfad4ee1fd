SPECIFICATION Spec
CONSTANTS
  d1 = d1
  g1 = g1
  p1 = p1
  p2 = p2
  Tables = {t1}
  Dishes = {d1, g1}
  Guests = {g1}
  Taps = {w1}
  Payers = {p1, p2}
  Plans <- Splits
  Fiscalises = TRUE
  MaxBills = 1
  MaxRounds = 2
  MaxParts = 2
SYMMETRY Symmetry
CHECK_DEADLOCK FALSE
INVARIANTS RefusalIsUndone

