CONSTANTS
  l1 = l1
  l2 = l2
  l3 = l3
  b1 = b1
  b2 = b2
  Callers = {l1, l2, l3, b1, b2}
  Background = {b1, b2}
  Capacity = 2
  TokenMs = 500
  LiveReserve = 1
  MaxWaitMs = 250
  StepMs = 250
  MaxDebtMs = 1000
SPECIFICATION Spec
INVARIANTS RateTypeOK DrainCostsLittle BurstAndRefill
