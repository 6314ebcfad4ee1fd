----------------------------- MODULE MCFiscalShifts -----------------------------
(* TLC instances of FiscalShifts: tills, a cron, sometimes managers.       *)
EXTENDS FiscalShifts

CONSTANTS t1, t2, c1, c2, m1
=============================================================================
