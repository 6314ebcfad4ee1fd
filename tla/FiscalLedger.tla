------------------------------ MODULE FiscalLedger ------------------------------
(***************************************************************************)
(* The fiscal ledger, pos_fiscal_receipts (src/pos/fiscal/ledger.ts): one  *)
(* row per fiscal document and the transactions T1-T6 that move it, each   *)
(* an operator from the row before to the row after.  The status 'sent' is *)
(* never written and is left out.                                          *)
(***************************************************************************)
EXTENDS Naturals

CONSTANT MaxAttempts  \* MAX_ATTEMPTS

ASSUME LedgerAssumption == MaxAttempts \in Nat \ {0}

(* shift: shift_id (0: null); payload: request_payload is there; next:     *)
(* next_attempt_at, null, ahead or past; old: created_at is beyond         *)
(* STALE_DOC_AGE_MS.  stamped is no column: it is the provider shift the   *)
(* shift row named when it was written into the document.                  *)
LedgerRow(shifts, stamps) ==
             [status : {"none", "pending", "done", "failed", "abandoned"},
              attempts : Nat, next : {"null", "wait", "due"},
              shift : shifts, stamped : stamps,
              payload : BOOLEAN, old : BOOLEAN]

NoDocument == [status |-> "none", attempts |-> 0, next |-> "null", shift |-> 0,
               stamped |-> 0, payload |-> FALSE, old |-> FALSE]

(* Mutant of ProjectionFor: the ledger's status is copied as it is.        *)
ProjectionVerbatim(status) == status

(* The projection on the sale has no 'abandoned'.                          *)
ProjectionFor(status) ==
  CASE status = "done" -> "done"
    [] status \in {"failed", "abandoned"} -> "failed"
    [] OTHER -> "pending"

(* Mutant of Unfinished: "not abandoned yet" instead of the two statuses.  *)
NotAbandoned(r) == r.status \notin {"none", "abandoned"}

Unfinished(r) == r.status \in {"pending", "failed"}

(* Mutant of OpenDocument: next_attempt_at is now(), without the lease.    *)
OpenUnleased(r, shift, stamped, payload) ==
  IF r.status = "none"
    THEN [status |-> "pending", attempts |-> 1, next |-> "due", shift |-> shift,
          stamped |-> stamped, payload |-> payload, old |-> FALSE]
    ELSE [r EXCEPT !.attempts = r.attempts + 1, !.next = "due"]

(* T1: a new row, or the same request id again.  The status of an existing *)
(* row stays what it is.                                                   *)
OpenDocument(r, shift, stamped, payload) ==
  IF r.status = "none"
    THEN [status |-> "pending", attempts |-> 1, next |-> "wait", shift |-> shift,
          stamped |-> stamped, payload |-> payload, old |-> FALSE]
    ELSE [r EXCEPT !.attempts = r.attempts + 1, !.next = "wait"]

(* T2: no status guard.                                                    *)
MarkDone(r) == [r EXCEPT !.status = "done", !.next = "null"]

OutOfBudget(attempts) == attempts >= MaxAttempts

(* T3: no status guard either; the budget is judged by the caller's copy   *)
(* of the row.                                                             *)
MarkFailed(r, attempts, park) ==
  [r EXCEPT !.status = IF OutOfBudget(attempts) THEN "abandoned" ELSE "failed",
            !.next = IF park \/ OutOfBudget(attempts) THEN "null" ELSE "wait"]

(* T4, T5 and T6 abandon only what is unfinished.                          *)
MarkAbandoned(r) ==
  IF Unfinished(r) THEN [r EXCEPT !.status = "abandoned", !.next = "null"] ELSE r

RestampShift(r, shift, stamped) == [r EXCEPT !.shift = shift, !.stamped = stamped]

Claimable(r) == Unfinished(r) /\ r.next = "due" /\ r.attempts < MaxAttempts

ClaimDue(r) == [r EXCEPT !.attempts = r.attempts + 1, !.next = "wait"]
=============================================================================
