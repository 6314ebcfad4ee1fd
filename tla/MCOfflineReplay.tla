----------------------------- MODULE MCOfflineReplay -----------------------------
(* Finite instances of OfflineReplay.                                          *)
EXTENDS OfflineReplay, TLC

\* Sales are interchangeable; nothing compares them.
Symmetry == Permutations(Docs)
==================================================================================
