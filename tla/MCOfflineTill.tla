------------------------------ MODULE MCOfflineTill ------------------------------
(* Finite instances of OfflineTill.                                            *)
EXTENDS OfflineTill, TLC

\* Tills, receipts and codes are interchangeable; nothing compares them.
Symmetry == Permutations(Device) \union Permutations(Receipt) \union Permutations(Code)
==================================================================================
