--------------------------- MODULE MCFiscalRateLimit ---------------------------
(* TLC instances of FiscalRateLimit.                                       *)
EXTENDS FiscalRateLimit

CONSTANTS l1, l2, l3, b1, b2
=============================================================================
