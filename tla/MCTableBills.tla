------------------------------- MODULE MCTableBills -------------------------------
(* Finite instances of TableBills.                                             *)
EXTENDS TableBills, TLC

CONSTANTS d1, g1, p1, p2

\* One screen splits: one receipt for everything, or one plate first and the rest
\* after.  The other pays whatever is still owed.
Splits == (p1 :> {<<{}>>, <<{d1}, {}>>}) @@ (p2 :> {<<{}>>})

\* Tables and waiters' taps are interchangeable; a plan names plates, so those are not.
Symmetry == Permutations(Tables) \union Permutations(Taps)
===================================================================================
