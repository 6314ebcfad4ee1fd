--------------------------------- MODULE MCDebts ---------------------------------
(* Finite instances of Debts.                                                   *)
EXTENDS Debts

\* Three pieces for ten kopecks: their shares are rounded.  One piece for four.
Pieces == <<3, 1>>
Totals == <<10, 4>>
==================================================================================
