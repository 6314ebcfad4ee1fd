SPECIFICATION Spec
CONSTANTS
  Lines = {1, 2}
  Qty <- Pieces
  Total <- Totals
  Amounts = {4}
  Switches = TRUE
  MaxSales = 3
CHECK_DEADLOCK FALSE
INVARIANTS TypeOK JournalAgreesInOrder PaidBySales ChainExpectsOwed WholeChainBack
PROPERTIES ReturnedStaysClosed
