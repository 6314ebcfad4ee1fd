----------------------------- MODULE FiscalPromise -----------------------------
(***************************************************************************)
(* What fiscalisation promises the owner of a store, whatever fails on the *)
(* way: a receipt is registered for a sale that was really made, at most   *)
(* once, and a sale is cancelled only while the tax service has no receipt *)
(* of it - for good.  FiscalDocuments implements it.                       *)
(***************************************************************************)
CONSTANT Sales

VARIABLES book,  \* what the store's book says of a sale
          tax    \* the tax service has its receipt

Init == /\ book = [s \in Sales |-> "none"]
        /\ tax = [s \in Sales |-> FALSE]

Sell(s) == /\ book[s] = "none"
           /\ book' = [book EXCEPT ![s] = "completed"]
           /\ UNCHANGED tax

Register(s) == /\ book[s] = "completed"
               /\ ~ tax[s]
               /\ tax' = [tax EXCEPT ![s] = TRUE]
               /\ UNCHANGED book

Cancel(s) == /\ book[s] = "completed"
             /\ ~ tax[s]
             /\ book' = [book EXCEPT ![s] = "voided"]
             /\ UNCHANGED tax

Next == \E s \in Sales : Sell(s) \/ Register(s) \/ Cancel(s)

Spec == Init /\ [][Next]_<<book, tax>>
=============================================================================
