-------------------------- MODULE FiscalPromiseProofs --------------------------
(* FiscalDocuments keeps the promise of FiscalPromise, for any number of   *)
(* sales, tills, retry workers, shifts and mishaps.                        *)
EXTENDS FiscalDocumentsProofs

----------------------------------------------------------------------------
(* No cancelled receipt.  Proved of a store where cashiers do not cancel   *)
(* receipts by hand, a till does not submit one sale twice at a time, and  *)
(* an abort is over before the first backoff; the README tells what        *)
(* happens without each.                                                   *)

Careful == ~ CashierVoids /\ ~ DoubleSubmit /\ ~ SlowAbort

(* Nothing can register the document of s any more, or yet: the tax        *)
(* service does not have it, nothing is on its way there, no retry pass    *)
(* has it in hand.                                                         *)
Quiet(s) ==
  /\ receipt[s] = 0
  /\ s \notin late
  /\ \A c \in Retriers : run[c].sale # s /\ \A o \in todo[c] : o.sale # s

Unsold == \A s \in Sales : sale[s].status = "none" => doc[s].status = "none" /\ Quiet(s)

Cancelled == \A s \in Sales : sale[s].status = "voided" => Quiet(s)

OneTill == \A t, u \in Tills : run[t].sale = run[u].sale /\ run[t].sale # NoSale => t = u

(* Until its transmission may have arrived, a document is in the hands of  *)
(* its till alone.                                                         *)
Early(t) == \/ run[t].pc \in {"send", "wire", "repairClose", "repairOpen", "void"}
            \/ run[t].pc = "failing" /\ ~ run[t].mayExist

Stage(t) ==
  /\ run[t].pc \in {"idle", "preflight", "commit", "open", "send", "wire", "record",
                    "repairClose", "repairOpen", "failing", "void", "abandon"}
  /\ run[t].pc \in {"preflight", "commit"} => sale[run[t].sale].status = "none"
  /\ run[t].pc \notin {"idle", "preflight", "commit"} => sale[run[t].sale].status # "none"
  /\ run[t].pc = "open" => /\ sale[run[t].sale].status = "completed"
                           /\ doc[run[t].sale].status = "none"
                           /\ Quiet(run[t].sale)
  /\ Early(t) => /\ sale[run[t].sale].status = "completed"
                 /\ doc[run[t].sale].status # "none"
                 /\ doc[run[t].sale].next # "due"
                 /\ Quiet(run[t].sale)

CarefulInv ==
  /\ TypeOK
  /\ Busy
  /\ Unsold
  /\ Cancelled
  /\ OneTill
  /\ \A t \in Tills : Stage(t)

(* What no retry pass may pick up, and no till is transmitting, stays      *)
(* quiet.                                                                  *)
LEMMA QuietStep ==
  ASSUME TypeOK, Busy, [Next]_vars, NEW s \in Sales, Quiet(s),
         s \notin Orphans, s \notin DueDocuments,
         \A t \in Tills : run[t].sale = s => ~ (Accepted(t) \/ NoAnswer(t))
  PROVE  Quiet(s)'
<1>0. \A w \in Senders : run[w].sale = s => ~ (Accepted(w) \/ NoAnswer(w))
  BY DEF Quiet, Senders
<1>1. receipt'[s] = 0
  <2>1. ASSUME NEW w \in Senders, Accepted(w) PROVE receipt'[s] = 0
    BY <1>0, <2>1 DEF Accepted, Register, Quiet, TypeOK
  <2>2. ASSUME NEW u \in Sales, ArriveLate(u), Register(u) PROVE receipt'[s] = 0
    BY <2>2 DEF ArriveLate, Register, Quiet, TypeOK
  <2>3. QED
    BY <2>1, <2>2, ReceiptChanges DEF ReceiptChange, Quiet
<1>2. s \notin late'
  <2>1. ASSUME NEW w \in Senders, NoAnswer(w) PROVE s \notin late'
    <3>1. run[w].sale # s
      BY <1>0, <2>1
    <3>2. QED
      BY <2>1, <3>1 DEF NoAnswer, Quiet
  <2>2. CASE late' \subseteq late
    BY <2>2 DEF Quiet
  <2>3. ASSUME NEW w \in Senders, SendingStep(w), ~ NoAnswer(w) PROVE UNCHANGED late
    BY <2>3 DEF SendingStep, Send, NotSent, Accepted, Duplicate,
       ResolveDuplicate, Rejected, TurnedAway, WrongShift, RepairClosed, RepairOpened, Record,
       RecordFails, RecordFailure
  <2>4. ASSUME NEW t, \/ TillStep(t)
                      \/ \E u \in Sales : Submit(t, u) \/ CheckVoid(t, u)
                      \/ RetrierStep(t)
                      \/ ShiftWork(t)
        PROVE  UNCHANGED late
    BY <2>4 DEF TillStep, Submit, CheckVoid, Preflight, CompleteSale, OpenLedgerRow,
       StatementFails, Abort, AbortAbandons, CancelSale, RetrierStep, SweepVoided,
       SweepStale, FindOrphans, Adopt, AdoptEnds, ClaimDueDocuments, RetryOne, RetryEnds,
       ShiftWork, SweepShift, docVars
  <2>5. ASSUME \/ \E u \in Sales : Elapse(u) \/ Age(u) \/ ArriveLate(u)
               \/ OtherWork \/ ProcessCrash \/ UNCHANGED vars
        PROVE  late' \subseteq late
    BY <2>5 DEF Elapse, Age, ArriveLate, OtherWork, ProcessCrash, docVars, vars
  <2>6. QED
    BY <2>1, <2>2, <2>3, <2>4, <2>5 DEF Next, Senders
<1>3. Unheld(s)'
  BY UnheldStep DEF Quiet, Unheld
<1>4. QED
  BY <1>1, <1>2, <1>3 DEF Quiet, Unheld

(* The book changes when a till completes a sale or voids one.             *)
BookChange ==
  \/ \A s \in Sales : sale'[s].status = sale[s].status
  \/ \E t \in Tills :
       /\ CompleteSale(t)
       /\ run[t].sale \in Sales
       /\ sale[run[t].sale].status = "none"
       /\ sale' = [sale EXCEPT ![run[t].sale] = Sold(run[t].on)]
  \/ \E t \in Tills :
       /\ Abort(t) \/ CancelSale(t)
       /\ run[t].sale \in Sales
       /\ sale[run[t].sale].status = "completed"
       /\ sale' = [sale EXCEPT ![run[t].sale].status = "voided"]

(* Nothing else changes the status of a sale.                              *)
LEMMA BookChanges ==
  ASSUME TypeOK, Busy, [Next]_vars, \A t \in Tills : ~ At(t, "cancel")
  PROVE  BookChange
<1> DEFINE Same == \A s \in Sales : sale'[s].status = sale[s].status
<1>0. sale \in [Sales -> Sale]
  BY DEF TypeOK
<1>1. ASSUME NEW S, AbandonAll(S) PROVE Same
  BY <1>0, <1>1 DEF AbandonAll, Sale
<1>2. ASSUME NEW u, NEW r, WriteDocument(u, r) PROVE Same
  BY <1>0, <1>2 DEF WriteDocument, Sale
<1>3. ASSUME NEW w \in Senders, SendingStep(w) PROVE Same
  BY <1>2, <1>3 DEF SendingStep, Send, NotSent, Accepted, NoAnswer, Duplicate,
     ResolveDuplicate, Rejected, TurnedAway, WrongShift, RepairClosed, RepairOpened, Record,
     RecordFails, RecordFailure
<1>4. ASSUME NEW t \in Tills, \/ TillStep(t)
                              \/ \E u \in Sales : Submit(t, u) \/ CheckVoid(t, u)
      PROVE  BookChange
  <2>1. CASE CompleteSale(t)
    <3>1. run[t].sale \in Sales
      BY <2>1 DEF CompleteSale, At, Busy, Senders
    <3>2. QED
      BY <2>1, <3>1 DEF CompleteSale, BookChange
  <2>2. CASE Abort(t)
    <3>1. run[t].sale \in Sales
      BY <2>2 DEF Abort, At, Busy, Senders
    <3>2. QED
      BY <2>2, <3>1 DEF Abort, VoidSale, BookChange
  <2>3. CASE AbortAbandons(t)
    BY <1>1, <2>3 DEF AbortAbandons, BookChange
  <2>4. CASE CancelSale(t)
    BY <2>4 DEF CancelSale
  <2>5. CASE UNCHANGED sale
    BY <2>5 DEF BookChange
  <2>6. QED
    BY <1>4, <2>1, <2>2, <2>3, <2>4, <2>5 DEF TillStep, Submit, CheckVoid, Preflight,
       OpenLedgerRow, StatementFails
<1>5. ASSUME NEW c \in Retriers, RetrierStep(c) PROVE Same
  <2>1. CASE Adopt(c)
    <3>1. PICK o \in todo[c] : \/ sale' = [sale EXCEPT ![o.sale].proj = "failed"]
                               \/ UNCHANGED sale
      BY <2>1 DEF Adopt
    <3>2. QED
      BY <1>0, <3>1 DEF Sale
  <2>2. ASSUME NEW S, AbandonAll(S) PROVE Same
    BY <1>1, <2>2
  <2>3. CASE UNCHANGED sale
    BY <2>3
  <2>4. QED
    BY <1>5, <2>1, <2>2, <2>3 DEF RetrierStep, SweepVoided, SweepStale, FindOrphans, AdoptEnds,
       ClaimDueDocuments, RetryOne, RetryEnds
<1>6. ASSUME \/ \E w \in Workers : ShiftWork(w)
             \/ \E u \in Sales : Elapse(u) \/ Age(u) \/ ArriveLate(u)
             \/ OtherWork \/ ProcessCrash \/ UNCHANGED vars
      PROVE  Same
  <2>1. ASSUME NEW w \in Workers, SweepShift(w) PROVE Same
    BY <1>1, <2>1 DEF SweepShift
  <2>2. CASE UNCHANGED sale
    BY <2>2
  <2>3. QED
    BY <1>6, <2>1, <2>2 DEF ShiftWork, Elapse, Age, ArriveLate, OtherWork, ProcessCrash,
       docVars, vars
<1>7. QED
  BY <1>3, <1>4, <1>5, <1>6 DEF Next, Senders, BookChange

(* What a sale's status may do.                                            *)
LEMMA StatusChange ==
  ASSUME TypeOK, BookChange, NEW s \in Sales
  PROVE  \/ sale'[s].status = sale[s].status
         \/ /\ sale[s].status = "none"
            /\ sale'[s].status = "completed"
            /\ \E t \in Tills : CompleteSale(t) /\ run[t].sale = s
         \/ /\ sale[s].status = "completed"
            /\ sale'[s].status = "voided"
            /\ \E t \in Tills : (Abort(t) \/ CancelSale(t)) /\ run[t].sale = s
<1>0. sale \in [Sales -> Sale]
  BY DEF TypeOK
<1>1. ASSUME NEW t \in Tills, CompleteSale(t), run[t].sale \in Sales,
             sale[run[t].sale].status = "none",
             sale' = [sale EXCEPT ![run[t].sale] = Sold(run[t].on)]
      PROVE  IF run[t].sale = s THEN sale'[s].status = "completed" ELSE sale'[s] = sale[s]
  BY <1>0, <1>1 DEF Sold
<1>2. ASSUME NEW t \in Tills, run[t].sale \in Sales,
             sale[run[t].sale].status = "completed",
             sale' = [sale EXCEPT ![run[t].sale].status = "voided"]
      PROVE  IF run[t].sale = s THEN sale'[s].status = "voided" ELSE sale'[s] = sale[s]
  BY <1>0, <1>2 DEF Sale
<1>3. QED
  BY <1>1, <1>2 DEF BookChange

----------------------------------------------------------------------------
(* The careful store, step by step.  A document in the hands of its till   *)
(* stays there until the till has transmitted it or given the sale up.     *)

(* A voided sale keeps its peace, and so does one nobody has made yet.     *)
LEMMA UnsoldCancelledStep ==
  ASSUME Careful, CarefulInv, [Next]_vars
  PROVE  Unsold' /\ Cancelled'
<1>0. TypeOK /\ Busy /\ BookChange /\ \A t \in Tills : Stage(t) /\ t \in Senders
  BY BookChanges DEF CarefulInv, Stage, At, Senders
<1>1. ASSUME NEW s \in Sales, sale'[s].status = "none" PROVE doc'[s].status = "none" /\ Quiet(s)'
  <2>1. sale[s].status = "none" /\ doc[s].status = "none" /\ Quiet(s)
    BY <1>0, <1>1, StatusChange DEF CarefulInv, Unsold
  <2>2. \A t \in Tills : run[t].sale = s => run[t].pc \in {"idle", "preflight", "commit"}
    BY <1>0, <2>1 DEF Stage
  <2>3. s \notin Orphans /\ s \notin DueDocuments
    BY <2>1 DEF Orphans, DueDocuments, Claimable, Unfinished
  <2>4. \A t \in Tills : run[t].sale = s => ~ (Accepted(t) \/ NoAnswer(t))
    BY <2>2 DEF Accepted, NoAnswer, At
  <2>5. Quiet(s)'
    BY <1>0, <2>1, <2>3, <2>4, QuietStep
  <2>6. ~ \E t \in Tills : OpenLedgerRow(t) /\ run[t].sale = s
    BY <2>2 DEF OpenLedgerRow, At
  <2>7. ~ \E w \in Senders : run[w].pc \in Sending /\ run[w].sale = s
    BY <2>1, <2>2 DEF Senders, Quiet, Sending
  <2>8. QED
    BY <1>0, <2>1, <2>5, <2>6, <2>7, RowChanges, RowEffects DEF Quiet
<1>2. ASSUME NEW s \in Sales, sale'[s].status = "voided" PROVE Quiet(s)'
  <2>1. CASE sale[s].status = "voided"
    <3>1. Quiet(s)
      BY <2>1 DEF CarefulInv, Cancelled
    <3>2. s \notin Orphans /\ s \notin DueDocuments
      BY <2>1 DEF Orphans, DueDocuments
    <3>3. \A t \in Tills : run[t].sale = s => ~ (Accepted(t) \/ NoAnswer(t))
      BY <1>0, <2>1 DEF Stage, Early, Accepted, NoAnswer, At
    <3>4. QED
      BY <1>0, <3>1, <3>2, <3>3, QuietStep
  <2>2. CASE sale[s].status # "voided"
    <3>1. PICK t \in Tills : (Abort(t) \/ CancelSale(t)) /\ run[t].sale = s
      BY <1>0, <1>2, <2>2, StatusChange
    <3>2. run[t].pc = "void"
      BY <1>0, <3>1 DEF Abort, CancelSale, At, Stage
    <3>3. doc[s].status # "none" /\ doc[s].next # "due" /\ Quiet(s)
      BY <1>0, <3>1, <3>2 DEF Stage, Early
    <3>4. s \notin Orphans /\ s \notin DueDocuments
      BY <3>3 DEF Orphans, DueDocuments, Claimable
    <3>5. \A u \in Tills : run[u].sale = s => ~ (Accepted(u) \/ NoAnswer(u))
      <4>1. \A u \in Tills : run[u].sale = s => u = t
        BY <3>1, DocumentsAssumption DEF CarefulInv, OneTill
      <4>2. QED
        BY <3>2, <4>1 DEF Accepted, NoAnswer, At
    <3>6. QED
      BY <1>0, <3>3, <3>4, <3>5, QuietStep
  <2>3. QED
    BY <2>1, <2>2
<1>3. QED
  BY <1>1, <1>2 DEF Unsold, Cancelled

(* A sale about to get its document, or whose document is in its till's    *)
(* hands, stays as it is through the steps of everybody else.              *)
LEMMA HandsOff ==
  ASSUME Careful, CarefulInv, [Next]_vars, NEW t \in Tills, NEW s \in Sales, run[t].sale = s,
         sale[s].status = "completed", Quiet(s),
         ~ (Accepted(t) \/ NoAnswer(t) \/ Abort(t) \/ CancelSale(t)),
         doc[s].status = "none" \/ doc[s].next # "due"
  PROVE  sale'[s].status = "completed" /\ Quiet(s)'
<1>0. TypeOK /\ Busy /\ BookChange
  BY BookChanges DEF CarefulInv, Stage, At
<1>1. \A u \in Tills : run[u].sale = s => u = t
  BY DocumentsAssumption DEF CarefulInv, OneTill
<1>2. sale'[s].status = "completed"
  BY <1>0, <1>1, StatusChange
<1>3. s \notin Orphans /\ s \notin DueDocuments
  BY DEF Orphans, DueDocuments, Claimable, Unfinished
<1>4. QED
  BY <1>0, <1>1, <1>2, <1>3, QuietStep

(* So does the sale of a till that has yet to write the document: nobody   *)
(* writes it first.                                                        *)
LEMMA OpenKept ==
  ASSUME Careful, CarefulInv, [Next]_vars, NEW t \in Tills, NEW s \in Sales, run[t].sale = s,
         run[t].pc = "open"
  PROVE  /\ sale'[s].status = "completed"
         /\ Quiet(s)'
         /\ ~ OpenLedgerRow(t) => doc'[s].status = "none"
<1>0. TypeOK /\ Busy /\ Stage(t)
  BY DEF CarefulInv
<1>1. sale[s].status = "completed" /\ doc[s].status = "none" /\ Quiet(s)
  BY <1>0 DEF Stage
<1>2. ~ (Accepted(t) \/ NoAnswer(t) \/ Abort(t) \/ CancelSale(t))
  BY DEF Accepted, NoAnswer, Abort, CancelSale, At
<1>3. sale'[s].status = "completed" /\ Quiet(s)'
  BY <1>0, <1>1, <1>2, HandsOff
<1>4. \A u \in Tills : run[u].sale = s => u = t
  BY <1>0, DocumentsAssumption DEF CarefulInv, OneTill
<1>5. ASSUME ~ OpenLedgerRow(t) PROVE doc'[s].status = "none"
  <2>1. ~ \E u \in Tills : OpenLedgerRow(u) /\ run[u].sale = s
    BY <1>4, <1>5
  <2>2. ~ \E w \in Senders : run[w].pc \in Sending /\ run[w].sale = s
    BY <1>1, <1>4 DEF Senders, Quiet, Sending
  <2>3. ~ \E c \in Retriers : \E o \in todo[c] : o.sale = s
    BY <1>1 DEF Quiet
  <2>4. QED
    BY <1>0, <1>1, <2>1, <2>2, <2>3, RowChanges, RowEffects
<1>6. QED
  BY <1>3, <1>5

(* And so does the document in its till's hands: neither the clock nor a   *)
(* retry pass takes it away (the lease, ledger.ts:143-149).                *)
LEMMA EarlyKept ==
  ASSUME Careful, CarefulInv, [Next]_vars, NEW t \in Tills, NEW s \in Sales, run[t].sale = s,
         Early(t), ~ (Accepted(t) \/ NoAnswer(t) \/ Abort(t))
  PROVE  /\ sale'[s].status = "completed"
         /\ doc'[s].status # "none"
         /\ doc'[s].next # "due"
         /\ Quiet(s)'
<1>0. TypeOK /\ Busy /\ Stage(t)
  BY DEF CarefulInv
<1>1. /\ sale[s].status = "completed"
      /\ doc[s].status # "none"
      /\ doc[s].next # "due"
      /\ Quiet(s)
  BY <1>0 DEF Stage
<1>2. ~ CancelSale(t)
  BY DEF CancelSale, At, Early
<1>3. sale'[s].status = "completed" /\ Quiet(s)'
  BY <1>0, <1>1, <1>2, HandsOff
<1>4. Leased(s)
  BY DEF Leased, Early, Careful
<1>5. ~ Elapse(s)
  BY <1>4 DEF Elapse
<1>6. QED
  BY <1>0, <1>1, <1>3, <1>5, RowChanges, RowEffects

(* Only from the hands of its till can a document come into them, a fresh  *)
(* row apart.                                                              *)
LEMMA EarlyFromEarly ==
  ASSUME Careful, CarefulInv, NEW t \in Tills, SendingStep(t), Early(t)'
  PROVE  Early(t) /\ ~ (Accepted(t) \/ NoAnswer(t) \/ Abort(t))
<1>0. TypeOK /\ Busy /\ Stage(t) /\ t \in Senders
  BY DEF CarefulInv, Senders
<1>1. ASSUME NEW park, Fail(t, TRUE, park) PROVE FALSE
  <2>1. run'[t].pc = "failing" /\ run'[t].mayExist = TRUE
    BY <1>0, <1>1, FailFields
  <2>2. QED
    BY <2>1 DEF Early
<1>2. ~ Step(t, "record")
  BY <1>0, StepFields DEF Early
<1>3. ~ (run' = [run EXCEPT ![t] = Rest(t)])
  BY <1>0, StopFields DEF Early
<1>4. ~ (Accepted(t) \/ NoAnswer(t) \/ RecordFails(t) \/ Record(t))
  BY <1>1, <1>2, <1>3 DEF Accepted, NoAnswer, RecordFails, Record
<1>5. ~ (Duplicate(t) \/ ResolveDuplicate(t) \/ Abort(t))
  <2>1. run[t].pc # "resolve"
    BY <1>0 DEF Stage
  <2>2. run[t].pc = "wire" => receipt[run[t].sale] = 0
    BY <1>0 DEF Stage, Early, Quiet
  <2>3. run[t].pc # "void"
    BY <1>0, SendingFields DEF Sending
  <2>4. QED
    BY <2>1, <2>2, <2>3 DEF Duplicate, ResolveDuplicate, Abort, At
<1>6. CASE RecordFailure(t)
  BY <1>3, <1>4, <1>5, <1>6 DEF RecordFailure, Early, At
<1>7. QED
  BY <1>4, <1>5, <1>6 DEF SendingStep, Send, NotSent, Rejected, TurnedAway, WrongShift,
     RepairClosed, RepairOpened, Early, At

(* A till's frame changes by the till's own step, or a crash empties it.   *)
LEMMA TillMoves ==
  ASSUME Careful, TypeOK, [Next]_vars, NEW t \in Tills
  PROVE  \/ run'[t] = run[t]
            /\ ~ (OpenLedgerRow(t) \/ Accepted(t) \/ NoAnswer(t) \/ Abort(t) \/ CompleteSale(t))
         \/ TillStep(t)
         \/ SendingStep(t)
         \/ \E s \in Sales : Submit(t, s)
         \/ run'[t].pc = "idle" /\ run'[t].sale = NoSale
<1>0. t \in Senders /\ t \notin Retriers
  BY DocumentsAssumption DEF Senders
<1>1. \A s \in Sales : ~ CheckVoid(t, s)
  BY DEF CheckVoid, Careful
<1>2. ProcessCrash => run'[t].pc = "idle" /\ run'[t].sale = NoSale
  BY <1>0 DEF ProcessCrash, NoRun, Senders
<1>3. \/ run'[t] = run[t]
      \/ TillStep(t)
      \/ SendingStep(t)
      \/ \E s \in Sales : Submit(t, s)
      \/ ProcessCrash
  BY <1>0, <1>1, OwnFrame, NoFrame DEF Next, Senders
<1>4. OpenLedgerRow(t) \/ Abort(t) \/ CompleteSale(t) => TillStep(t)
  BY DEF TillStep
<1>5. Accepted(t) \/ NoAnswer(t) => SendingStep(t)
  BY DEF SendingStep
<1>6. QED
  BY <1>2, <1>3, <1>4, <1>5

(* A till takes up a sale only when no other till has it.                  *)
LEMMA OneTillStep ==
  ASSUME Careful, CarefulInv, [Next]_vars
  PROVE  OneTill'
<1>0. TypeOK
  BY DEF CarefulInv
<1>1. ASSUME NEW t \in Tills
      PROVE  \/ run'[t].sale \in {run[t].sale, NoSale}
             \/ \E s \in Sales : Submit(t, s) /\ run'[t].sale = s
  <2>0. t \in Senders
    BY DEF Senders
  <2>1. ASSUME NEW s \in Sales, Submit(t, s) PROVE run'[t].sale = s
    BY <1>0, <2>0, <2>1, RunTypes DEF Submit, TypeOK, Senders, Run
  <2>2. TillStep(t) => run'[t].sale \in {run[t].sale, NoSale}
    BY <1>0, TillFields
  <2>3. SendingStep(t) => run'[t].sale \in {run[t].sale, NoSale}
    BY <1>0, <2>0, SendingFields
  <2>4. QED
    BY <1>0, <2>1, <2>2, <2>3, TillMoves
<1>2. ASSUME NEW t \in Tills, NEW u \in Tills, NEW s \in Sales, t # u, Submit(t, s),
             run'[t].sale = s
      PROVE  run'[u].sale # s
  <2>1. run[u].sale # s
    BY <1>2 DEF Submit, Careful
  <2>2. run'[u] = run[u]
    BY <1>0, <1>2, OwnFrame DEF Senders
  <2>3. QED
    BY <2>1, <2>2
<1>3. ASSUME NEW t \in Tills, NEW u \in Tills, t # u, run'[t].sale = run'[u].sale,
             run'[t].sale # NoSale
      PROVE  FALSE
  BY <1>1, <1>2, <1>3 DEF CarefulInv, OneTill
<1>4. QED
  BY <1>3 DEF OneTill

(* Every till is where its request has brought it.                         *)
LEMMA StageStep ==
  ASSUME Careful, CarefulInv, [Next]_vars, NEW t \in Tills
  PROVE  Stage(t)'
<1>0. TypeOK /\ Busy /\ BookChange /\ Stage(t) /\ t \in Senders /\ t \notin Retriers
  BY BookChanges, DocumentsAssumption DEF CarefulInv, Stage, At, Senders
<1>1. CASE run'[t].pc = "idle"
  BY <1>1 DEF Stage, Early
<1>2. CASE \E s \in Sales : Submit(t, s)
  <2>1. PICK s \in Sales : Submit(t, s)
    BY <1>2
  <2>2. run'[t].sale = s /\ run'[t].pc \in {"preflight", "commit"}
    BY <1>0, <2>1, RunTypes DEF Submit, TypeOK, Senders, Run
  <2>3. sale'[s].status = "none"
    BY <2>1 DEF Submit
  <2>4. QED
    BY <2>2, <2>3 DEF Stage, Early
<1>3. ASSUME run[t].pc # "idle", run'[t].sale = run[t].sale, run'[t].pc # "idle",
             \/ /\ run'[t] = run[t]
                /\ ~ (OpenLedgerRow(t) \/ Accepted(t) \/ NoAnswer(t) \/ Abort(t)
                      \/ CompleteSale(t))
             \/ SendingStep(t)
             \/ TillStep(t)
      PROVE  Stage(t)'
  <2>1. PICK s \in Sales : run[t].sale = s
    BY <1>0, <1>3 DEF Busy, Stage
  <2>2. \A u \in Tills : run[u].sale = s => u = t
    BY <2>1, DocumentsAssumption DEF CarefulInv, OneTill
  <2>3. sale[s].status # "none" => sale'[s].status # "none"
    BY <1>0, StatusChange
  <2>4. CASE /\ run'[t] = run[t]
             /\ ~ (OpenLedgerRow(t) \/ Accepted(t) \/ NoAnswer(t) \/ Abort(t) \/ CompleteSale(t))
    <3>1. sale[s].status = "none" => sale'[s].status = "none"
      BY <1>0, <2>2, <2>4, StatusChange
    <3>2. run[t].pc = "open" => /\ sale'[s].status = "completed"
                                /\ doc'[s].status = "none"
                                /\ Quiet(s)'
      BY <2>1, <2>4, OpenKept
    <3>3. Early(t) => /\ sale'[s].status = "completed"
                      /\ doc'[s].status # "none"
                      /\ doc'[s].next # "due"
                      /\ Quiet(s)'
      BY <2>1, <2>4, EarlyKept
    <3>4. Early(t)' <=> Early(t)
      BY <2>4 DEF Early
    <3>5. run'[t].sale = s /\ run'[t].pc = run[t].pc
      BY <2>1, <2>4
    <3>6. QED
      BY <1>0, <2>1, <2>3, <3>1, <3>2, <3>3, <3>4, <3>5 DEF Stage, Quiet
  <2>5. CASE SendingStep(t)
    <3>1. run[t].pc \in Sending \ {"resolve"} /\ sale[s].status # "none"
      BY <1>0, <2>1, <2>5, SendingFields DEF Stage, Sending
    <3>2. run'[t].pc \in Sending \cup {"void"}
      BY <1>0, <1>3, <2>5, SendingFields
    <3>3. run'[t].pc # "resolve"
      <4>1. ~ (Duplicate(t) \/ ResolveDuplicate(t))
        BY <1>0, <3>1 DEF Duplicate, ResolveDuplicate, At, Stage, Early, Quiet
      <4>2. ASSUME Accepted(t) PROVE run'[t].pc # "resolve"
        <5>1. ASSUME NEW park, Fail(t, TRUE, park) PROVE run'[t].pc = "failing"
          BY <1>0, <5>1, FailFields
        <5>2. Step(t, "record") => run'[t].pc = "record"
          BY <1>0, StepFields
        <5>3. Step(t, "record") \/ Fail(t, TRUE, FALSE)
          BY <4>2 DEF Accepted
        <5>4. QED
          BY <5>1, <5>2, <5>3
      <4>3. QED
        BY <1>0, <2>5, <4>1, <4>2, SendingFields
    <3>4. Early(t)' => /\ sale'[s].status = "completed"
                       /\ doc'[s].status # "none"
                       /\ doc'[s].next # "due"
                       /\ Quiet(s)'
      BY <2>1, <2>5, EarlyFromEarly, EarlyKept
    <3>5. run'[t].sale = s
      BY <1>3, <2>1
    <3>6. QED
      BY <2>3, <3>1, <3>2, <3>3, <3>4, <3>5 DEF Stage, Quiet, Sending
  <2>6. CASE TillStep(t)
    <3>1. run'[t].sale = s
      BY <1>3, <2>1
    <3>2. CASE Preflight(t)
      <4>1. run[t].pc = "preflight" /\ run'[t].pc = "commit" /\ sale' = sale
        <5>1. run' = [run EXCEPT ![t].pc = "commit", ![t].shift = LiveRow]
          BY <1>0, <1>3, <3>2, StopFields DEF Preflight
        <5>2. run'[t].pc = "commit"
          BY <1>0, <5>1, RunTypes DEF TypeOK, Senders, Run
        <5>3. QED
          BY <3>2, <5>2 DEF Preflight, At
      <4>2. QED
        BY <1>0, <2>1, <3>1, <4>1 DEF Stage, Early
    <3>3. CASE CompleteSale(t)
      <4>1. run[t].pc = "commit" /\ run'[t].pc = "open" /\ doc' = doc
        <5>1. Step(t, "open") \/ Stop(t)
          BY <3>3 DEF CompleteSale
        <5>2. QED
          BY <1>0, <1>3, <3>3, <5>1, StepFields, StopFields DEF CompleteSale, At
      <4>2. sale[s].status = "none" /\ doc[s].status = "none" /\ Quiet(s)
        BY <1>0, <2>1, <4>1 DEF Stage, CarefulInv, Unsold
      <4>3. sale'[s].status = "completed"
        BY <1>0, <1>3, <2>1, <3>3, <4>1, <4>2, StopFields DEF CompleteSale, Sold, TypeOK
      <4>4. Quiet(s)'
        <5>1. s \notin Orphans /\ s \notin DueDocuments
          BY <4>2 DEF Orphans, DueDocuments, Claimable, Unfinished
        <5>2. \A u \in Tills : run[u].sale = s => ~ (Accepted(u) \/ NoAnswer(u))
          BY <2>2, <4>1 DEF Accepted, NoAnswer, At
        <5>3. QED
          BY <1>0, <4>2, <5>1, <5>2, QuietStep
      <4>5. QED
        BY <3>1, <4>1, <4>2, <4>3, <4>4 DEF Stage, Early, Quiet
    <3>4. CASE OpenLedgerRow(t)
      <4>1. run[t].pc = "open"
        BY <3>4 DEF OpenLedgerRow, At
      <4>2. sale'[s].status = "completed" /\ Quiet(s)' /\ doc[s].status = "none"
        BY <1>0, <2>1, <4>1, OpenKept DEF Stage
      <4>3. run'[t].pc = "send"
        <5>1. run'[t].pc \in {"commit", "open", "send", "abandon"} /\ ~ Stop(t)
          BY <1>0, <1>3, <2>6, TillFields, StopFields
        <5>2. PICK r : run' = [run EXCEPT ![t].pc = "send", ![t].attempts = r.attempts,
                                          ![t].shift = r.shift]
          BY <3>4, <5>1 DEF OpenLedgerRow
        <5>3. run' = [run EXCEPT ![t] = [run[t] EXCEPT !.pc = "send", !.attempts = r.attempts,
                                                   !.shift = r.shift]]
          BY <5>2
        <5>4. run'[t] = [run[t] EXCEPT !.pc = "send", !.attempts = r.attempts,
                                      !.shift = r.shift]
          BY <1>0, <5>3 DEF TypeOK, Senders
        <5>5. QED
          BY <1>0, <5>4, RunTypes DEF Run
      <4>4. doc'[s].status # "none" /\ doc'[s].next # "due"
        <5>1. PICK p : doc' = [doc EXCEPT ![s] = OpenDocument(doc[s], run[t].shift, p, TRUE)]
          BY <1>0, <2>1, <3>4, <4>2 DEF OpenLedgerRow
        <5>2. doc'[s] = OpenDocument(doc[s], run[t].shift, p, TRUE)
          BY <1>0, <5>1 DEF TypeOK
        <5>3. QED
          BY <4>2, <5>2 DEF OpenDocument
      <4>5. QED
        BY <3>1, <4>2, <4>3, <4>4 DEF Stage, Early, Quiet
    <3>5. CASE Abort(t)
      <4>1. run[t].pc = "void" /\ run'[t].pc = "abandon"
        BY <1>0, <3>5, StepFields DEF Abort, VoidSale, At
      <4>2. sale[s].status # "none"
        BY <1>0, <2>1, <4>1 DEF Stage
      <4>3. QED
        BY <2>3, <3>1, <4>1, <4>2 DEF Stage, Early
    <3>6. ~ (StatementFails(t) \/ AbortAbandons(t) \/ CancelSale(t))
      BY <1>0, <1>3, StopFields DEF StatementFails, AbortAbandons, CancelSale, VoidSale
    <3>7. QED
      BY <2>6, <3>2, <3>3, <3>4, <3>5, <3>6 DEF TillStep
  <2>7. QED
    BY <1>3, <2>4, <2>5, <2>6
<1>4. QED
  BY <1>0, <1>1, <1>2, <1>3, TillMoves, TillFields, SendingFields DEF Sending

(* The strengthening is inductive.                                         *)
LEMMA CarefulStep ==
  ASSUME Careful, CarefulInv, [Next]_vars
  PROVE  CarefulInv'
BY TypedStep, BusyStep, UnsoldCancelledStep, OneTillStep, StageStep DEF CarefulInv

(* And holds at the start.                                                 *)
LEMMA CarefulInit == Init => CarefulInv
<1> SUFFICES ASSUME Init PROVE CarefulInv
  OBVIOUS
<1>1. \A t \in Tills : run[t] = NoRun
  BY DEF Init
<1>2. OneTill /\ \A t \in Tills : Stage(t)
  BY <1>1 DEF NoRun, OneTill, Stage, Early
<1>3. \A c \in Retriers : run[c].sale = NoSale /\ todo[c] = {}
  BY DEF Init, NoRun
<1>4. \A s \in Sales : s # NoSale /\ receipt[s] = 0 /\ late = {}
                        /\ sale[s].status = "none" /\ doc[s].status = "none"
  BY DocumentsAssumption DEF Init, NoneSold, NoDocument
<1>5. \A s \in Sales : Quiet(s)
  BY <1>3, <1>4 DEF Quiet
<1>6. Unsold /\ Cancelled
  BY <1>4, <1>5 DEF Unsold, Cancelled
<1>7. QED
  BY <1>2, <1>6, InitTyped DEF CarefulInv

(* In a careful store, whatever fails, crashes or arrives late, a sale the *)
(* tax service has a receipt of is never a cancelled one.                  *)
THEOREM NoReceiptOfACancelledSale ==
  ASSUME Careful
  PROVE  Spec => []NoCancelledReceipt
<1>1. CarefulInv /\ [Next]_vars => CarefulInv'
  BY CarefulStep
<1>2. CarefulInv => NoCancelledReceipt
  BY DEF CarefulInv, Cancelled, Quiet, NoCancelledReceipt
<1>3. QED
  BY <1>1, <1>2, CarefulInit, PTL DEF Spec

(* The retry pass never transmits the document of a voided sale: the void  *)
(* comes while the lease still keeps the document from it.                 *)
THEOREM VoidedNeverResentHolds ==
  ASSUME Careful
  PROVE  Spec => VoidedNeverResent
<1>1. ASSUME CarefulInv, NEW c \in Retriers, At(c, "send")
      PROVE  sale[run[c].sale].status # "voided"
  <2>1. run[c].sale \in Sales
    BY <1>1 DEF CarefulInv, Busy, At, Senders
  <2>2. QED
    BY <1>1, <2>1 DEF CarefulInv, Cancelled, Quiet
<1>2. CarefulInv => [\A c \in Retriers : At(c, "send") /\ run'[c].pc = "wire"
                                         => sale[run[c].sale].status # "voided"]_vars
  BY <1>1
<1>3. Careful /\ CarefulInv /\ [Next]_vars => CarefulInv'
  BY CarefulStep
<1>4. QED
  BY <1>2, <1>3, CarefulInit, PTL DEF Spec, VoidedNeverResent

----------------------------------------------------------------------------
(* The promise.                                                            *)

Book == [s \in Sales |-> sale[s].status]

Tax == [s \in Sales |-> receipt[s] # 0]

(* Whatever is on its way to the tax service is the receipt of a sale that *)
(* was made and not cancelled.                                             *)
LEMMA OnlySalesRegister ==
  ASSUME CarefulInv, NEW s \in Sales,
         s \in late \/ \E w \in Senders : run[w].pc = "wire" /\ run[w].sale = s
  PROVE  sale[s].status = "completed"
<1>1. sale[s].status \in {"none", "completed", "voided"}
  BY DEF CarefulInv, TypeOK, Sale
<1>2. CASE Quiet(s)
  <2>1. PICK t \in Tills : run[t].pc = "wire" /\ run[t].sale = s
    BY <1>2 DEF Quiet, Senders
  <2>2. QED
    BY <2>1 DEF CarefulInv, Stage, Early
<1>3. CASE ~ Quiet(s)
  BY <1>1, <1>3 DEF CarefulInv, Unsold, Cancelled
<1>4. QED
  BY <1>2, <1>3

(* Each step is a sale, a registration, a cancellation, or nothing the     *)
(* owner's book and the tax service can tell.                              *)
LEMMA PromiseStep ==
  ASSUME Careful, CarefulInv, [Next]_vars
  PROVE  [Promise!Next]_<<Book, Tax>>
<1>0. TypeOK /\ BookChange
  BY BookChanges DEF CarefulInv, Stage, At
<1>1. ASSUME NEW s \in Sales, Register(s), UNCHANGED sale,
             s \in late \/ \E w \in Senders : run[w].pc = "wire" /\ run[w].sale = s
      PROVE  Promise!Register(s)
  <2>1. Book[s] = "completed" /\ Book' = Book
    BY <1>1, OnlySalesRegister DEF Book
  <2>2. ~ Tax[s]
    BY <1>1 DEF Register, Tax
  <2>3. Tax' = [Tax EXCEPT ![s] = TRUE]
    BY <1>0, <1>1 DEF Register, Tax, TypeOK
  <2>4. QED
    BY <2>1, <2>2, <2>3 DEF Promise!Register, Book, Tax
<1>2. CASE UNCHANGED receipt
  <2>1. Tax' = Tax
    BY <1>2 DEF Tax
  <2>2. CASE \A s \in Sales : sale'[s].status = sale[s].status
    BY <2>1, <2>2 DEF Book
  <2>3. ASSUME NEW t \in Tills, NEW s \in Sales, run[t].sale = s, sale[s].status = "none",
               sale' = [sale EXCEPT ![s] = Sold(run[t].on)]
        PROVE  Promise!Next
    <3>1. Book' = [Book EXCEPT ![s] = "completed"]
      BY <1>0, <2>3 DEF Book, Sold, TypeOK
    <3>2. Promise!Sell(s)
      BY <2>1, <2>3, <3>1 DEF Promise!Sell, Book, Tax
    <3>3. QED
      BY <3>2 DEF Promise!Next
  <2>4. ASSUME NEW t \in Tills, Abort(t) \/ CancelSale(t), NEW s \in Sales, run[t].sale = s,
               sale[s].status = "completed", sale' = [sale EXCEPT ![s].status = "voided"]
        PROVE  Promise!Next
    <3>1. receipt[s] = 0
      BY <2>4 DEF CarefulInv, Stage, Early, Quiet, Abort, CancelSale, At
    <3>2. Book' = [Book EXCEPT ![s] = "voided"]
      BY <1>0, <2>4 DEF Book, Sale, TypeOK
    <3>3. Promise!Cancel(s)
      BY <2>1, <2>4, <3>1, <3>2 DEF Promise!Cancel, Book, Tax
    <3>4. QED
      BY <3>3 DEF Promise!Next
  <2>5. QED
    BY <1>0, <2>2, <2>3, <2>4 DEF BookChange
<1>3. ASSUME NEW w \in Senders, Accepted(w) PROVE Promise!Next
  <2>1. run[w].pc = "wire" /\ run[w].sale \in Sales
    BY <1>3 DEF Accepted, At, CarefulInv, Busy
  <2>2. QED
    BY <1>1, <1>3, <2>1 DEF Accepted, Promise!Next
<1>4. ASSUME NEW s \in Sales, ArriveLate(s), Register(s) PROVE Promise!Next
  BY <1>1, <1>4 DEF ArriveLate, Promise!Next
<1>5. QED
  BY <1>2, <1>3, <1>4, ReceiptChanges DEF ReceiptChange

(* In a careful store the checkout, its retries and repairs, crashes and   *)
(* late answers implement FiscalPromise.                                   *)
THEOREM ImplementsPromise ==
  ASSUME Careful
  PROVE  Spec => KeepsPromise
<1>1. Init => Promise!Init
  <2> SUFFICES ASSUME Init PROVE Promise!Init
    OBVIOUS
  <2>1. \A s \in Sales : sale[s].status = "none" /\ receipt[s] = 0
    BY DEF Init, NoneSold
  <2>2. QED
    BY <2>1 DEF Promise!Init
<1>2. CarefulInv /\ [Next]_vars => CarefulInv'
  BY CarefulStep
<1>3. CarefulInv /\ [Next]_vars => [Promise!Next]_<<Book, Tax>>
  BY PromiseStep
<1>4. QED
  BY <1>1, <1>2, <1>3, CarefulInit, PTL DEF Spec, KeepsPromise, Promise!Spec, Book, Tax
=============================================================================
