---------------------------- MODULE FiscalDocuments ----------------------------
(***************************************************************************)
(* Fiscalising a store's sales through one register: the checkout request  *)
(* of a till (src/pos/routes/checkout.routes.ts), the document it sends    *)
(* (src/pos/fiscal/fiscal.service.ts), the ledger it is written in         *)
(* (FiscalLedger), the two-minute retry pass, and the shift all of them    *)
(* live in (FiscalShifts).                                                 *)
(*                                                                         *)
(* A sale stands for one client_uuid, which is also the request id of its  *)
(* document, so the provider recognises a second transmission of it.  One  *)
(* await of the source is one boundary between actions.                    *)
(***************************************************************************)
EXTENDS FiscalShifts, FiscalLedger, FiniteSets

CONSTANTS Sales,
          NoSale,
          Tills,         \* workers that serve checkout requests
          Retriers,      \* workers that run retryPendingFiscalDocs
          AdoptLimit,    \* adoptOrphanedSales' limit
          CashierVoids,  \* cashiers cancel receipts by hand
          DoubleSubmit,  \* a till may submit a sale while it is being served
          SlowAbort      \* an abort may outlast the first backoff

ASSUME DocumentsAssumption ==
  /\ NoSale \notin Sales
  /\ IsFiniteSet(Sales)
  /\ Tills \subseteq Workers \ Crons
  /\ Retriers \subseteq Workers \ (Crons \cup Tills)
  /\ AdoptLimit \in Nat \ {0}
  /\ CashierVoids \in BOOLEAN
  /\ DoubleSubmit \in BOOLEAN
  /\ SlowAbort \in BOOLEAN

VARIABLES sale,     \* pos_sales: status, fiscal_status, when it was committed
          doc,      \* pos_fiscal_receipts: the sale's document
          receipt,  \* the provider shift the tax service has it in, 0 for none
          late,     \* transmissions still travelling after their caller gave up
          run,      \* each till's and retrier's progress
          todo      \* the rows a retrier has selected and not yet handled

docVars == <<sale, doc, receipt, late, run, todo>>

vars == <<shiftVars, docVars>>

(* at: the order of the commits; era: the provider shift open last then.   *)
Sale == [status : {"none", "completed", "voided"},
         proj : {"none", "pending", "done", "failed"}, at : Nat, era : Nat]

NoneSold == [status |-> "none", proj |-> "none", at |-> 0, era |-> 0]

Document == LedgerRow(0..MaxRows, 0..MaxShifts)

(* One request's frame: gate.on, the worker's copy of the row (attempts,   *)
(* shift), runDocument's one repair and one pause, and how it failed.      *)
Run == [pc : {"idle", "preflight", "commit", "open", "send", "wire", "resolve",
              "record", "repairClose", "repairOpen", "failing", "void", "abandon",
              "cancel", "stale", "orphans", "adopt", "claim", "batch"},
        sale : Sales \cup {NoSale}, on : BOOLEAN, attempts : Nat, shift : 0..MaxRows,
        repaired : BOOLEAN, slowed : BOOLEAN, mayExist : BOOLEAN, park : BOOLEAN]

NoRun == [pc |-> "idle", sale |-> NoSale, on |-> FALSE, attempts |-> 0, shift |-> 0,
          repaired |-> FALSE, slowed |-> FALSE, mayExist |-> FALSE, park |-> FALSE]

Claim == [sale : Sales, attempts : Nat, shift : 0..MaxRows]

Init ==
  /\ ShiftInit
  /\ sale = [s \in Sales |-> NoneSold]
  /\ doc = [s \in Sales |-> NoDocument]
  /\ receipt = [s \in Sales |-> 0]
  /\ late = {}
  /\ run = [w \in Tills \cup Retriers |-> NoRun]
  /\ todo = [c \in Retriers |-> {}]

At(w, pc) == run[w].pc = pc

Step(w, pc) == run' = [run EXCEPT ![w].pc = pc]

Stop(w) == run' = [run EXCEPT ![w] = NoRun]

(* A retrier goes on with its batch where a till would answer.             *)
Rest(w) == IF w \in Retriers THEN [NoRun EXCEPT !.pc = "batch"] ELSE NoRun

Fail(w, mayExist, park) ==
  run' = [run EXCEPT ![w].pc = "failing", ![w].mayExist = mayExist, ![w].park = park]

(* The row and the projection change in one transaction.                   *)
WriteDocument(s, r) ==
  /\ doc' = [doc EXCEPT ![s] = r]
  /\ sale' = [sale EXCEPT ![s].proj = ProjectionFor(r.status)]

(* Mutant of AbandonAll: the sales' projection is forgotten.               *)
AbandonRows(S) ==
  /\ doc' = [s \in Sales |-> IF s \in S THEN MarkAbandoned(doc[s]) ELSE doc[s]]
  /\ UNCHANGED sale

AbandonAll(S) ==
  LET lost == {s \in S : Unfinished(doc[s])}
  IN  /\ doc' = [s \in Sales |-> IF s \in lost THEN MarkAbandoned(doc[s]) ELSE doc[s]]
      /\ sale' = [s \in Sales |-> IF s \in lost THEN [sale[s] EXCEPT !.proj = "failed"]
                                                ELSE sale[s]]

LiveProv == IF LiveRow = 0 THEN 0 ELSE mirror[LiveRow].prov

----------------------------------------------------------------------------
(* The checkout request: pre-check by client_uuid, pre-flight, the sale's  *)
(* own transaction, the document's row.                                    *)

(* A sale the book already has is answered from it; nothing changes.       *)
Submit(t, s) ==
  /\ At(t, "idle")
  /\ sale[s].status = "none"
  /\ DoubleSubmit \/ \A u \in Tills : run[u].sale # s
  /\ IF enabled
       THEN /\ StartEnsure(t)
            /\ run' = [run EXCEPT ![t].pc = "preflight", ![t].sale = s, ![t].on = TRUE]
       ELSE /\ run' = [run EXCEPT ![t].pc = "commit", ![t].sale = s]
            /\ UNCHANGED task
  /\ UNCHANGED <<pshift, opened, mirror, cached, enabled, offline, upsets>>
  /\ UNCHANGED <<sale, doc, receipt, late, todo>>

(* The gate takes the id of the live row, null when there is none.         *)
Preflight(t) ==
  /\ At(t, "preflight")
  /\ \/ /\ task[t].pc = "ready"
        /\ run' = [run EXCEPT ![t].pc = "commit", ![t].shift = LiveRow]
     \/ task[t].pc = "failed" /\ Stop(t)
  /\ Return(t)
  /\ UNCHANGED <<pshift, opened, mirror, cached, enabled, offline, upsets>>
  /\ UNCHANGED <<sale, doc, receipt, late, todo>>

Sold(on) == [status |-> "completed", proj |-> IF on THEN "pending" ELSE "none",
             at |-> Cardinality({s \in Sales : sale[s].status # "none"}) + 1,
             era |-> opened]

(* completeSale answers with the sale its client_uuid already made,        *)
(* whatever has become of it, or refuses the cart.                         *)
CompleteSale(t) ==
  /\ At(t, "commit")
  /\ LET s == run[t].sale
     IN  \/ /\ sale' = IF sale[s].status = "none"
                         THEN [sale EXCEPT ![s] = Sold(run[t].on)] ELSE sale
            /\ IF run[t].on THEN Step(t, "open") ELSE Stop(t)
         \/ Stop(t) /\ UNCHANGED sale
  /\ UNCHANGED shiftVars
  /\ UNCHANGED <<doc, receipt, late, todo>>

(* The same request id finds its row again; a row adopted under another id *)
(* makes the INSERT fail on the sale's unique index.                       *)
OpenLedgerRow(t) ==
  /\ At(t, "open")
  /\ LET s == run[t].sale
         r == OpenDocument(doc[s], run[t].shift,
                           IF run[t].shift = 0 THEN 0 ELSE mirror[run[t].shift].prov, TRUE)
     IN  IF doc[s].status # "none" /\ ~ doc[s].payload
           THEN Stop(t) /\ UNCHANGED doc
           ELSE /\ doc' = [doc EXCEPT ![s] = r]
                /\ run' = [run EXCEPT ![t].pc = "send", ![t].attempts = r.attempts,
                                      ![t].shift = r.shift]
  /\ UNCHANGED shiftVars
  /\ UNCHANGED <<sale, receipt, late, todo>>

(* A failed statement ends the request: no row ("fiscalisation failed      *)
(* outside the document path"), or no void, or a void without T4.          *)
StatementFails(t) ==
  /\ run[t].pc \in {"open", "void", "abandon", "cancel"}
  /\ Upset("db")
  /\ Stop(t)
  /\ UNCHANGED <<pshift, opened, mirror, cached, enabled, offline, task>>
  /\ UNCHANGED <<sale, doc, receipt, late, todo>>

----------------------------------------------------------------------------
(* runDocument, for tills and retriers alike.                              *)

(* Sign-in and the rate limiter come before the transmission.              *)
Send(w) ==
  /\ At(w, "send")
  /\ Step(w, "wire")
  /\ UNCHANGED shiftVars
  /\ UNCHANGED <<sale, doc, receipt, late, todo>>

NotSent(w) ==
  /\ At(w, "send")
  /\ \E park \in BOOLEAN : Fail(w, FALSE, park)
  /\ UNCHANGED shiftVars
  /\ UNCHANGED <<sale, doc, receipt, late, todo>>

(* The provider registers a document it does not have yet, in its own open *)
(* shift; the answer may be lost.                                          *)
Register(s) ==
  /\ pshift # 0
  /\ receipt[s] = 0
  /\ receipt' = [receipt EXCEPT ![s] = pshift]

Accepted(w) ==
  /\ At(w, "wire")
  /\ Register(run[w].sale)
  /\ Step(w, "record") \/ Fail(w, TRUE, FALSE)
  /\ UNCHANGED shiftVars
  /\ UNCHANGED <<sale, doc, late, todo>>

(* Mutants of NoAnswer: silence is taken for acceptance; silence is taken  *)
(* for "there is no document".                                             *)
SilenceAccepts(w) ==
  /\ At(w, "wire")
  /\ Step(w, "record")
  /\ UNCHANGED shiftVars
  /\ UNCHANGED <<sale, doc, receipt, late, todo>>

SilenceRefuses(w) ==
  /\ At(w, "wire")
  /\ Fail(w, FALSE, FALSE)
  /\ late' = late \cup {run[w].sale}
  /\ UNCHANGED shiftVars
  /\ UNCHANGED <<sale, doc, receipt, todo>>

(* unavailable, unknown: the call never arrived, or has yet to.            *)
NoAnswer(w) ==
  /\ At(w, "wire")
  /\ Fail(w, TRUE, FALSE)
  /\ late' \in {late, late \cup {run[w].sale}}
  /\ cached' \in {cached, FALSE}
  /\ UNCHANGED <<pshift, opened, mirror, enabled, offline, task, upsets>>
  /\ UNCHANGED <<sale, doc, receipt, todo>>

Duplicate(w) ==
  /\ At(w, "wire")
  /\ receipt[run[w].sale] # 0
  /\ Step(w, "resolve")
  /\ UNCHANGED shiftVars
  /\ UNCHANGED <<sale, doc, receipt, late, todo>>

(* resolveDuplicate reads the document; its own call can fail like any     *)
(* other.                                                                  *)
ResolveDuplicate(w) ==
  /\ At(w, "resolve")
  /\ \/ Step(w, "record")
     \/ \E mayExist, park \in BOOLEAN : Fail(w, mayExist, park)
  /\ UNCHANGED shiftVars
  /\ UNCHANGED <<sale, doc, receipt, late, todo>>

(* rejected: validated and refused, so there is no document; auth_rejected *)
(* says nothing of the document.  Both need a human.                       *)
Rejected(w) ==
  /\ At(w, "wire")
  /\ \/ receipt[run[w].sale] = 0 /\ Fail(w, FALSE, TRUE)
     \/ Fail(w, TRUE, TRUE)
  /\ UNCHANGED shiftVars
  /\ UNCHANGED <<sale, doc, receipt, late, todo>>

(* rate_limited and auth_expired, by our own limiter and sign-in or by the *)
(* provider before it processes anything: tried once more each.            *)
TurnedAway(w) ==
  /\ run[w].pc \in {"send", "wire"}
  /\ \/ /\ ~ run[w].slowed
        /\ run' = [run EXCEPT ![w].pc = "send", ![w].slowed = TRUE]
     \/ /\ ~ run[w].repaired
        /\ run' = [run EXCEPT ![w].pc = "send", ![w].repaired = TRUE]
     \/ (run[w].slowed \/ run[w].repaired) /\ Fail(w, FALSE, FALSE)
  /\ UNCHANGED shiftVars
  /\ UNCHANGED <<sale, doc, receipt, late, todo>>

(* shift_closed and shift_expired: repaired once by ensureOpenShift, the   *)
(* expired one after a closeShift; each drops the cached shift.            *)
WrongShift(w) ==
  /\ At(w, "wire")
  /\ cached' = FALSE
  /\ \/ run[w].repaired /\ Fail(w, FALSE, FALSE) /\ UNCHANGED task
     \/ /\ ~ run[w].repaired
        /\ \/ pshift = 0 /\ StartEnsure(w)
              /\ run' = [run EXCEPT ![w].pc = "repairOpen", ![w].repaired = TRUE]
           \/ pshift # 0 /\ StartClose(w)
              /\ run' = [run EXCEPT ![w].pc = "repairClose", ![w].repaired = TRUE]
  /\ UNCHANGED <<pshift, opened, mirror, enabled, offline, upsets>>
  /\ UNCHANGED <<sale, doc, receipt, late, todo>>

RepairClosed(w) ==
  /\ At(w, "repairClose")
  /\ \/ task[w].pc = "closed" /\ Goto(w, "ask") /\ Step(w, "repairOpen")
     \/ /\ task[w].pc \in {"failed", "gone"}
        /\ Return(w)
        /\ \E park \in BOOLEAN : Fail(w, FALSE, park)
  /\ UNCHANGED <<pshift, opened, mirror, cached, enabled, offline, upsets>>
  /\ UNCHANGED <<sale, doc, receipt, late, todo>>

(* The document now belongs to the shift that is live after the repair.    *)
RepairOpened(w) ==
  /\ At(w, "repairOpen")
  /\ \/ /\ task[w].pc = "ready"
        /\ IF LiveRow \in {0, run[w].shift}
             THEN Step(w, "send") /\ UNCHANGED doc
             ELSE /\ doc' = [doc EXCEPT ![run[w].sale] = RestampShift(@, LiveRow, LiveProv)]
                  /\ run' = [run EXCEPT ![w].pc = "send", ![w].shift = LiveRow]
     \/ /\ task[w].pc = "failed"
        /\ \E park \in BOOLEAN : Fail(w, FALSE, park)
        /\ UNCHANGED doc
  /\ Return(w)
  /\ UNCHANGED <<pshift, opened, mirror, cached, enabled, offline, upsets>>
  /\ UNCHANGED <<sale, receipt, late, todo>>

Record(w) ==
  /\ At(w, "record")
  /\ WriteDocument(run[w].sale, MarkDone(doc[run[w].sale]))
  /\ run' = [run EXCEPT ![w] = Rest(w)]
  /\ UNCHANGED shiftVars
  /\ UNCHANGED <<receipt, late, todo>>

(* markDone runs inside the same try: its failed statement is a failed     *)
(* attempt of unknown outcome.  markFailed's own leaves the row leased.    *)
RecordFails(w) ==
  /\ Upset("db")
  /\ \/ At(w, "record") /\ Fail(w, TRUE, FALSE)
     \/ At(w, "failing") /\ run' = [run EXCEPT ![w] = Rest(w)]
  /\ UNCHANGED <<pshift, opened, mirror, cached, enabled, offline, task>>
  /\ UNCHANGED <<sale, doc, receipt, late, todo>>

(* Mutant of RecordFailure: every failure voids the sale.                  *)
RecordAndVoid(w) ==
  /\ At(w, "failing")
  /\ WriteDocument(run[w].sale,
                   MarkFailed(doc[run[w].sale], run[w].attempts, run[w].park))
  /\ IF w \in Tills THEN Step(w, "void") ELSE run' = [run EXCEPT ![w] = Rest(w)]
  /\ UNCHANGED shiftVars
  /\ UNCHANGED <<receipt, late, todo>>

RecordFailure(w) ==
  /\ At(w, "failing")
  /\ WriteDocument(run[w].sale,
                   MarkFailed(doc[run[w].sale], run[w].attempts, run[w].park))
  /\ IF w \in Tills /\ ~ run[w].mayExist
       THEN Step(w, "void") ELSE run' = [run EXCEPT ![w] = Rest(w)]
  /\ UNCHANGED shiftVars
  /\ UNCHANGED <<receipt, late, todo>>

SendingStep(w) ==
  \/ Send(w)
  \/ NotSent(w)
  \/ Accepted(w)
  \/ NoAnswer(w)
  \/ Duplicate(w)
  \/ ResolveDuplicate(w)
  \/ Rejected(w)
  \/ TurnedAway(w)
  \/ WrongShift(w)
  \/ RepairClosed(w)
  \/ RepairOpened(w)
  \/ Record(w)
  \/ RecordFails(w)
  \/ RecordFailure(w)

----------------------------------------------------------------------------
(* abortSale, and the cashier's own void.                                  *)

VoidSale(t, next) ==
  /\ sale' = IF sale[run[t].sale].status = "completed"
               THEN [sale EXCEPT ![run[t].sale].status = "voided"] ELSE sale
  /\ next

Abort(t) ==
  /\ At(t, "void")
  /\ VoidSale(t, Step(t, "abandon"))
  /\ UNCHANGED shiftVars
  /\ UNCHANGED <<doc, receipt, late, todo>>

AbortAbandons(t) ==
  /\ At(t, "abandon")
  /\ AbandonAll({run[t].sale})
  /\ Stop(t)
  /\ UNCHANGED shiftVars
  /\ UNCHANGED <<receipt, late, todo>>

(* The route refuses a document that is done, then cancels.                *)
CheckVoid(t, s) ==
  /\ CashierVoids
  /\ At(t, "idle")
  /\ sale[s].status = "completed"
  /\ doc[s].status # "done"
  /\ run' = [run EXCEPT ![t].pc = "cancel", ![t].sale = s]
  /\ UNCHANGED shiftVars
  /\ UNCHANGED <<sale, doc, receipt, late, todo>>

CancelSale(t) ==
  /\ At(t, "cancel")
  /\ VoidSale(t, Stop(t))
  /\ UNCHANGED shiftVars
  /\ UNCHANGED <<doc, receipt, late, todo>>

----------------------------------------------------------------------------
(* retryPendingFiscalDocs.                                                 *)

SweepVoided(c) ==
  /\ At(c, "idle")
  /\ AbandonAll({s \in Sales : sale[s].status = "voided"})
  /\ Step(c, "stale")
  /\ UNCHANGED shiftVars
  /\ UNCHANGED <<receipt, late, todo>>

(* Mutant of SweepStale: only documents still waiting for an attempt.      *)
SweepWaiting(c) ==
  /\ At(c, "stale")
  /\ AbandonAll({s \in Sales : doc[s].old /\ doc[s].next # "null"})
  /\ Step(c, "orphans")
  /\ UNCHANGED shiftVars
  /\ UNCHANGED <<receipt, late, todo>>

SweepStale(c) ==
  /\ At(c, "stale")
  /\ AbandonAll({s \in Sales : doc[s].old})
  /\ Step(c, "orphans")
  /\ UNCHANGED shiftVars
  /\ UNCHANGED <<receipt, late, todo>>

(* A request takes less than ORPHAN_GRACE_MS, so past it no till is still  *)
(* serving the sale.                                                       *)
Orphans ==
  {s \in Sales : /\ sale[s].status = "completed"
                 /\ sale[s].proj \in {"pending", "failed"}
                 /\ doc[s].status = "none"
                 /\ \A t \in Tills : run[t].sale # s}

FindOrphans(c) ==
  /\ At(c, "orphans")
  /\ LET oldest == {s \in Orphans :
                      Cardinality({u \in Orphans : sale[u].at < sale[s].at}) < AdoptLimit}
     IN  todo' = [todo EXCEPT ![c] =
                    {[sale |-> s, attempts |-> 0, shift |-> 0] : s \in oldest}]
  /\ Step(c, "adopt")
  /\ UNCHANGED shiftVars
  /\ UNCHANGED <<sale, doc, receipt, late>>

InShift(s) == enabled /\ LiveRow # 0 /\ mirror[LiveRow].since <= sale[s].era

(* Mutant of Adopt: an orphan outside its shift is skipped.                *)
AdoptOrSkip(c) ==
  /\ At(c, "adopt")
  /\ \E o \in todo[c] :
       /\ doc' = IF InShift(o.sale)
                   THEN [doc EXCEPT ![o.sale] = OpenDocument(@, LiveRow, LiveProv, FALSE)]
                   ELSE doc
       /\ todo' = [todo EXCEPT ![c] = @ \ {o}]
  /\ UNCHANGED shiftVars
  /\ UNCHANGED <<sale, receipt, late, run>>

(* Adopted without a payload and under a fresh request id, so the claim    *)
(* below parks it; outside its shift only the projection says so.          *)
Adopt(c) ==
  /\ At(c, "adopt")
  /\ \E o \in todo[c] :
       /\ IF InShift(o.sale)
            THEN /\ doc' = [doc EXCEPT ![o.sale] = OpenDocument(@, LiveRow, LiveProv, FALSE)]
                 /\ UNCHANGED sale
            ELSE /\ sale' = [sale EXCEPT ![o.sale].proj = "failed"]
                 /\ UNCHANGED doc
       /\ todo' = [todo EXCEPT ![c] = @ \ {o}]
  /\ UNCHANGED shiftVars
  /\ UNCHANGED <<receipt, late, run>>

AdoptEnds(c) ==
  /\ At(c, "adopt")
  /\ todo[c] = {}
  /\ Step(c, "claim")
  /\ UNCHANGED shiftVars
  /\ UNCHANGED <<sale, doc, receipt, late, todo>>

(* Mutant of DueDocuments: the voided sales are not left out.              *)
DueOrVoided == {s \in Sales : Claimable(doc[s])}

DueDocuments == {s \in Sales : Claimable(doc[s]) /\ sale[s].status # "voided"}

ClaimDueDocuments(c) ==
  /\ At(c, "claim")
  /\ doc' = [s \in Sales |-> IF s \in DueDocuments THEN ClaimDue(doc[s]) ELSE doc[s]]
  /\ todo' = [todo EXCEPT ![c] =
                {[sale |-> s, attempts |-> doc[s].attempts + 1, shift |-> doc[s].shift]
                   : s \in DueDocuments}]
  /\ Step(c, "batch")
  /\ UNCHANGED shiftVars
  /\ UNCHANGED <<sale, receipt, late>>

(* backgroundGate: the document's shift row must still be the live one.    *)
GateOpen(claim) == enabled /\ LiveRow # 0 /\ claim.shift \in {0, LiveRow}

RetryOne(c) ==
  /\ At(c, "batch")
  /\ \E claim \in todo[c] :
       /\ todo' = [todo EXCEPT ![c] = @ \ {claim}]
       /\ IF GateOpen(claim) /\ doc[claim.sale].payload
            THEN /\ run' = [run EXCEPT ![c].pc = "send", ![c].sale = claim.sale,
                                       ![c].attempts = claim.attempts, ![c].shift = claim.shift]
                 /\ UNCHANGED <<sale, doc>>
            ELSE AbandonAll({claim.sale}) /\ UNCHANGED run
  /\ UNCHANGED shiftVars
  /\ UNCHANGED <<receipt, late>>

RetryEnds(c) ==
  /\ At(c, "batch")
  /\ todo[c] = {}
  /\ Stop(c)
  /\ UNCHANGED shiftVars
  /\ UNCHANGED <<sale, doc, receipt, late, todo>>

----------------------------------------------------------------------------
(* The shift service on behalf of everybody; closing abandons what the     *)
(* shift never fiscalised.                                                 *)

SweepShift(w) ==
  /\ Sweep(w)
  /\ AbandonAll({s \in Sales : task[w].live # 0 /\ doc[s].shift = task[w].live})
  /\ UNCHANGED <<receipt, late, run, todo>>

ShiftWork(w) == (ShiftStep(w) /\ UNCHANGED docVars) \/ SweepShift(w)

Others == Workers \ (Tills \cup Retriers)

(* Deadlines matter to the cron alone.                                     *)
OtherWork ==
  /\ \/ \E w \in Others \ Crons : Begin(w) \/ Answer(w)
     \/ \E c \in Crons : CronStep(c) \/ CatchThrows(c)
     \/ Crons # {} /\ \E k \in Rows : ShiftFallsDue(k)
     \/ ClosedOutside
     \/ Toggle
  /\ UNCHANGED docVars

----------------------------------------------------------------------------
(* Time and mishaps.                                                       *)

(* While a till is at work its row is leased for longer than its budget;   *)
(* the abort that follows a failure is over before the first backoff       *)
(* unless SlowAbort.                                                       *)
Leased(s) ==
  \E t \in Tills :
    /\ run[t].sale = s
    /\ run[t].pc \in {"send", "wire", "resolve", "record", "repairClose", "repairOpen",
                      "failing"}
                     \cup (IF SlowAbort THEN {} ELSE {"void", "abandon"})

Elapse(s) ==
  /\ doc[s].next = "wait"
  /\ ~ Leased(s)
  /\ doc' = [doc EXCEPT ![s].next = "due"]
  /\ UNCHANGED shiftVars
  /\ UNCHANGED <<sale, receipt, late, run, todo>>

Age(s) ==
  /\ doc[s].status # "none"
  /\ ~ doc[s].old
  /\ doc' = [doc EXCEPT ![s].old = TRUE]
  /\ UNCHANGED shiftVars
  /\ UNCHANGED <<sale, receipt, late, run, todo>>

(* A transmission nobody waits for any more reaches the provider.          *)
ArriveLate(s) ==
  /\ s \in late
  /\ late' = late \ {s}
  /\ Register(s) \/ UNCHANGED receipt
  /\ UNCHANGED shiftVars
  /\ UNCHANGED <<sale, doc, run, todo>>

ProcessCrash ==
  /\ Crash
  /\ run' = [w \in Tills \cup Retriers |-> NoRun]
  /\ todo' = [c \in Retriers |-> {}]
  /\ UNCHANGED <<sale, doc, receipt, late>>

----------------------------------------------------------------------------
TillStep(t) ==
  \/ Preflight(t)
  \/ CompleteSale(t)
  \/ OpenLedgerRow(t)
  \/ StatementFails(t)
  \/ Abort(t)
  \/ AbortAbandons(t)
  \/ CancelSale(t)

RetrierStep(c) ==
  \/ SweepVoided(c)
  \/ SweepStale(c)
  \/ FindOrphans(c)
  \/ Adopt(c)
  \/ AdoptEnds(c)
  \/ ClaimDueDocuments(c)
  \/ RetryOne(c)
  \/ RetryEnds(c)

Next ==
  \/ \E t \in Tills, s \in Sales : Submit(t, s) \/ CheckVoid(t, s)
  \/ \E t \in Tills : TillStep(t)
  \/ \E c \in Retriers : RetrierStep(c)
  \/ \E w \in Tills \cup Retriers : SendingStep(w)
  \/ \E w \in Workers : ShiftWork(w)
  \/ \E s \in Sales : Elapse(s) \/ Age(s) \/ ArriveLate(s)
  \/ OtherWork
  \/ ProcessCrash

Spec == Init /\ [][Next]_vars

(* A request that has begun runs to its answer, the retry pass ticks, and  *)
(* time passes.  Nothing is assumed of the provider, the owner, the shift  *)
(* cron or of further requests.                                            *)
Fairness ==
  /\ \A t \in Tills : WF_vars(TillStep(t) \/ SendingStep(t) \/ ShiftWork(t))
  /\ \A c \in Retriers : WF_vars(RetrierStep(c) \/ SendingStep(c) \/ ShiftWork(c))
  /\ \A s \in Sales : WF_vars(Elapse(s)) /\ WF_vars(Age(s))

FairSpec == Spec /\ Fairness

----------------------------------------------------------------------------
(* PROPERTIES                                                              *)

(* Every variable has its type.                                            *)
TypeOK ==
  /\ ShiftTypeOK
  /\ sale \in [Sales -> Sale]
  /\ doc \in [Sales -> Document]
  /\ receipt \in [Sales -> 0..MaxShifts]
  /\ late \subseteq Sales
  /\ run \in [Tills \cup Retriers -> Run]
  /\ todo \in [Retriers -> SUBSET Claim]

(* The ledger says done only of a document the tax service has.            *)
DoneIsRegistered ==
  \A s \in Sales : doc[s].status = "done" => receipt[s] # 0

(* A sale the tax service has a receipt of is never a cancelled one: the   *)
(* abort after a failed fiscalisation, the answers lost on the way and the *)
(* retry pass together never void what was, or will be, registered         *)
(* (fiscal.service.ts:525-529, checkout.routes.ts:363-365).                *)
NoCancelledReceipt ==
  \A s \in Sales : sale[s].status = "voided" => receipt[s] = 0

(* Seen through the book and the tax service alone, all of this is the     *)
(* promise of FiscalPromise.                                               *)
Promise == INSTANCE FiscalPromise
             WITH book <- [s \in Sales |-> sale[s].status],
                  tax <- [s \in Sales |-> receipt[s] # 0]

(* The detailed system implements the promise: no receipt for a sale that  *)
(* was not made or was cancelled, never two, no cancelling of a sale the   *)
(* tax service knows (fiscal.service.ts:7-16).                             *)
KeepsPromise == Promise!Spec

InFlight(w, s) ==
  /\ run[w].sale = s
  /\ run[w].pc \in {"send", "wire", "resolve", "record", "repairClose", "repairOpen",
                    "failing"}

(* One transmission of a document at a time: the lease keeps the retry     *)
(* pass away from a document a till is sending (ledger.ts:143-149).        *)
OneSender ==
  \A s \in Sales : \A v, w \in Tills \cup Retriers :
    InFlight(v, s) /\ InFlight(w, s) => v = w

(* done wins over every sweep, abandonment and late failure                *)
(* (ledger.ts:312-317).                                                    *)
DoneStaysDone ==
  [][\A s \in Sales : doc[s].status = "done" => doc'[s].status = "done"]_vars

(* The projection the till and the owner read says what the ledger says.   *)
ProjectionAgrees ==
  \A s \in Sales : doc[s].status # "none" => sale[s].proj = ProjectionFor(doc[s].status)

(* The retry pass never transmits the document of a voided sale            *)
(* (ledger.ts:623).                                                        *)
VoidedNeverResent ==
  [][\A c \in Retriers : At(c, "send") /\ run'[c].pc = "wire"
       => sale[run[c].sale].status # "voided"]_vars

(* A document is retried only while the register is still in the provider  *)
(* shift it was made in (fiscal.service.ts:1777-1780).                     *)
RetriedInItsShift ==
  [][\A c \in Retriers : At(c, "batch") /\ run'[c].pc = "send"
       => doc[run'[c].sale].stamped \in {0, LiveProv}]_vars

(* Every document that is not done has a bounded life (ledger.ts:507-509). *)
EveryDocumentSettles ==
  \A s \in Sales : Unfinished(doc[s]) ~> ~ Unfinished(doc[s])

(* A sale that waits for a document nobody is going to make is found: it   *)
(* gets a row or is shown as failed (fiscal.service.ts:1879-1887).         *)
NoOrphanForgotten ==
  \A s \in Sales :
    (sale[s].status = "completed" /\ sale[s].proj = "pending" /\ doc[s].status = "none")
      ~> ~ (sale[s].status = "completed" /\ sale[s].proj = "pending" /\ doc[s].status = "none")
=============================================================================
