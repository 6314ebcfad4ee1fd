--------------------------- MODULE MCFiscalDocuments ---------------------------
(* TLC instances of FiscalDocuments.                                       *)
EXTENDS FiscalDocuments

CONSTANTS t1, t2, r1, c1, m1, s1, s2
=============================================================================
