------------------------- MODULE FiscalDocumentsProofs -------------------------
(* Theorems about FiscalDocuments, for any number of sales, tills, retry   *)
(* workers, shifts and mishaps.                                            *)
EXTENDS FiscalDocuments, FiscalShiftsProofs, FiniteSetTheorems

Senders == Tills \cup Retriers

(* Who is past the first step of a request is about a sale.                *)
Busy == \A w \in Senders :
          run[w].pc \in {"preflight", "commit", "open", "send", "wire", "resolve", "record",
                         "repairClose", "repairOpen", "failing", "void", "abandon"}
            => run[w].sale \in Sales

----------------------------------------------------------------------------
(* Types.                                                                  *)

(* Whatever the ledger writes into a row, it stays a row of the ledger.    *)
LEMMA LedgerTypes ==
  ASSUME NEW r \in Document, NEW shift \in 0..MaxRows, NEW stamped \in 0..MaxShifts,
         NEW payload \in BOOLEAN, NEW attempts \in Nat, NEW park \in BOOLEAN
  PROVE  /\ NoDocument \in Document
         /\ OpenDocument(r, shift, stamped, payload) \in Document
         /\ MarkDone(r) \in Document
         /\ MarkFailed(r, attempts, park) \in Document
         /\ MarkAbandoned(r) \in Document
         /\ RestampShift(r, shift, stamped) \in Document
         /\ ClaimDue(r) \in Document
<1>1. NoDocument \in Document
  BY ShiftsAssumption DEF NoDocument, Document, LedgerRow
<1>2. r.attempts + 1 \in Nat
  BY DEF Document, LedgerRow
<1>3. MarkDone(r) \in Document /\ MarkAbandoned(r) \in Document
  BY DEF MarkDone, MarkAbandoned, Document, LedgerRow
<1>4. MarkFailed(r, attempts, park) \in Document
  BY DEF MarkFailed, Document, LedgerRow
<1>5. RestampShift(r, shift, stamped) \in Document
  BY DEF RestampShift, Document, LedgerRow
<1>6. ClaimDue(r) \in Document
  BY <1>2 DEF ClaimDue, Document, LedgerRow
<1>7. OpenDocument(r, shift, stamped, payload) \in Document
  <2>1. CASE r.status = "none"
    BY <2>1 DEF OpenDocument, Document, LedgerRow
  <2>2. CASE r.status # "none"
    BY <1>2, <2>2 DEF OpenDocument, Document, LedgerRow
  <2>3. QED
    BY <2>1, <2>2
<1>8. QED
  BY <1>1, <1>3, <1>4, <1>5, <1>6, <1>7

(* The projection on the sale knows three outcomes.                        *)
LEMMA ProjectionType ==
  ASSUME NEW status PROVE ProjectionFor(status) \in {"pending", "done", "failed"}
BY DEF ProjectionFor

(* The statements shared by many actions keep the types.                   *)
LEMMA WriteTypes ==
  ASSUME TypeOK, NEW s \in Sales, NEW r \in Document, WriteDocument(s, r)
  PROVE  doc' \in [Sales -> Document] /\ sale' \in [Sales -> Sale]
BY ProjectionType DEF TypeOK, WriteDocument, Sale

(* A sweep keeps the types, whichever documents it is about.               *)
LEMMA AbandonTypes ==
  ASSUME TypeOK, NEW S, AbandonAll(S)
  PROVE  doc' \in [Sales -> Document] /\ sale' \in [Sales -> Sale]
<1>1. ASSUME NEW s \in Sales PROVE MarkAbandoned(doc[s]) \in Document
  <2>1. doc[s] \in Document
    BY DEF TypeOK
  <2>2. QED
    BY <2>1 DEF MarkAbandoned, Document, LedgerRow
<1>2. doc' \in [Sales -> Document]
  BY <1>1 DEF AbandonAll, TypeOK
<1>3. sale' \in [Sales -> Sale]
  BY DEF AbandonAll, TypeOK, Sale
<1>4. QED
  BY <1>2, <1>3

Pcs == {"idle", "preflight", "commit", "open", "send", "wire", "resolve",
        "record", "repairClose", "repairOpen", "failing", "void", "abandon",
        "cancel", "stale", "orphans", "adopt", "claim", "batch"}

(* A request's frame stays one whatever field is written.                  *)
LEMMA FramePc ==
  ASSUME NEW r \in Run, NEW pc \in Pcs PROVE [r EXCEPT !.pc = pc] \in Run
BY DEF Run, Pcs

(* A frame after a failed attempt.                                         *)
LEMMA FrameFail ==
  ASSUME NEW r \in Run, NEW mayExist \in BOOLEAN, NEW park \in BOOLEAN
  PROVE  [r EXCEPT !.pc = "failing", !.mayExist = mayExist, !.park = park] \in Run
BY DEF Run

(* A frame that takes up a sale, at any step.                              *)
LEMMA FrameSale ==
  ASSUME NEW r \in Run, NEW s \in Sales, NEW pc \in Pcs
  PROVE  [r EXCEPT !.pc = pc, !.sale = s] \in Run
BY DEF Run, Pcs

(* A frame that has submitted a sale to a store with fiscalisation on.     *)
LEMMA FrameSubmit ==
  ASSUME NEW r \in Run, NEW s \in Sales
  PROVE  [r EXCEPT !.pc = "preflight", !.sale = s, !.on = TRUE] \in Run
BY DEF Run

(* A frame that learns the live shift row.                                 *)
LEMMA FrameShift ==
  ASSUME NEW r \in Run, NEW pc \in Pcs, NEW k \in 0..MaxRows
  PROVE  [r EXCEPT !.pc = pc, !.shift = k] \in Run
BY DEF Run, Pcs

(* A frame that holds its document's row.                                  *)
LEMMA FrameOpen ==
  ASSUME NEW r \in Run, NEW n \in Nat, NEW k \in 0..MaxRows
  PROVE  [r EXCEPT !.pc = "send", !.attempts = n, !.shift = k] \in Run
BY DEF Run

(* A frame that takes a claimed row from its batch.                        *)
LEMMA FrameClaim ==
  ASSUME NEW r \in Run, NEW s \in Sales, NEW n \in Nat, NEW k \in 0..MaxRows
  PROVE  [r EXCEPT !.pc = "send", !.sale = s, !.attempts = n, !.shift = k] \in Run
BY DEF Run

(* A frame after the one pause.                                            *)
LEMMA FrameSlowed ==
  ASSUME NEW r \in Run PROVE [r EXCEPT !.pc = "send", !.slowed = TRUE] \in Run
BY DEF Run

(* A frame after the one repair.                                           *)
LEMMA FrameRepaired ==
  ASSUME NEW r \in Run, NEW pc \in Pcs PROVE [r EXCEPT !.pc = pc, !.repaired = TRUE] \in Run
BY DEF Run, Pcs

(* Writing one worker's frame keeps everybody's.                           *)
LEMMA RunUpdate ==
  ASSUME TypeOK, NEW w \in Senders, NEW r \in Run, run' = [run EXCEPT ![w] = r]
  PROVE  run' \in [Senders -> Run]
BY DEF TypeOK, Senders

(* What Step, Fail, Stop and the end of a document write are frames.       *)
LEMMA RunTypes ==
  ASSUME TypeOK, NEW w \in Senders
  PROVE  /\ run[w] \in Run
         /\ \A pc \in Pcs : Step(w, pc) => run' \in [Senders -> Run]
         /\ \A mayExist, park \in BOOLEAN :
              Fail(w, mayExist, park) => run' \in [Senders -> Run]
         /\ Stop(w) => run' \in [Senders -> Run]
         /\ run' = [run EXCEPT ![w] = Rest(w)] => run' \in [Senders -> Run]
<1>0. run[w] \in Run
  BY DEF TypeOK, Senders
<1>1. NoRun \in Run
  BY ShiftsAssumption DEF NoRun, Run
<1>2. Rest(w) \in Run
  <2>1. [NoRun EXCEPT !.pc = "batch"] \in Run
    BY <1>1, FramePc DEF Pcs
  <2>2. QED
    BY <1>1, <2>1 DEF Rest
<1>3. ASSUME NEW pc \in Pcs, Step(w, pc) PROVE run' \in [Senders -> Run]
  <2>1. [run[w] EXCEPT !.pc = pc] \in Run
    BY <1>0, FramePc
  <2>2. QED
    BY <1>3, <2>1, RunUpdate DEF Step
<1>4. ASSUME NEW mayExist \in BOOLEAN, NEW park \in BOOLEAN, Fail(w, mayExist, park)
      PROVE  run' \in [Senders -> Run]
  <2>1. [run[w] EXCEPT !.pc = "failing", !.mayExist = mayExist, !.park = park] \in Run
    BY <1>0, FrameFail
  <2>2. run' = [run EXCEPT ![w] = [run[w] EXCEPT !.pc = "failing", !.mayExist = mayExist,
                                              !.park = park]]
    BY <1>4 DEF Fail
  <2>3. QED
    BY <2>1, <2>2, RunUpdate
<1>5. QED
  BY <1>0, <1>1, <1>2, <1>3, <1>4, RunUpdate DEF Stop

(* The live row and the shift it names.                                    *)
LEMMA LiveTypes ==
  ASSUME TypeOK
  PROVE  LiveRow \in 0..MaxRows /\ LiveProv \in 0..MaxShifts
<1>1. LiveRow \in 0..MaxRows
  BY LiveRowType
<1>2. LiveRow # 0 => mirror[LiveRow].prov \in 0..MaxShifts
  BY <1>1, ShiftsAssumption DEF TypeOK, ShiftTypeOK, MirrorRow, Rows
<1>3. QED
  BY <1>1, <1>2, ShiftsAssumption DEF LiveProv

(* A till's own steps keep the types.                                      *)
LEMMA TillType ==
  ASSUME TypeOK, Busy, NEW t \in Tills,
         TillStep(t) \/ \E s \in Sales : Submit(t, s) \/ CheckVoid(t, s)
  PROVE  TypeOK'
<1>0. t \in Senders /\ t \in Workers /\ NoTask \in Task
  BY DocumentsAssumption, ShiftsAssumption DEF Senders, NoTask, Task
<1>1. ShiftTypeOK'
  <2>1. task' \in [Workers -> Task]
    <3>1. CASE StartEnsure(t) \/ Return(t)
      BY <1>0, <3>1 DEF TypeOK, ShiftTypeOK, Task, StartEnsure, Goto, Return
    <3>2. CASE UNCHANGED task
      BY <3>2 DEF TypeOK, ShiftTypeOK
    <3>3. QED
      BY <3>1, <3>2 DEF TillStep, Submit, CheckVoid, Preflight, CompleteSale, OpenLedgerRow,
         StatementFails, Abort, AbortAbandons, CancelSale, shiftVars
  <2>2. UNCHANGED <<pshift, opened, mirror, cached, enabled, offline>>
    BY DEF TillStep, Submit, CheckVoid, Preflight, CompleteSale, OpenLedgerRow,
       StatementFails, Abort, AbortAbandons, CancelSale, shiftVars
  <2>3. upsets' = upsets \/ (upsets < MaxUpsets /\ upsets' = upsets + 1)
    BY DEF TillStep, Submit, CheckVoid, Preflight, CompleteSale, OpenLedgerRow,
       StatementFails, Abort, AbortAbandons, CancelSale, shiftVars, Upset
  <2>4. upsets' \in 0..MaxUpsets
    BY <2>3, ShiftsAssumption DEF TypeOK, ShiftTypeOK
  <2>5. QED
    BY <2>1, <2>2, <2>4 DEF TypeOK, ShiftTypeOK
<1>2. sale' \in [Sales -> Sale]
  <2>1. CASE CompleteSale(t)
    <3>1. Sold(run[t].on) \in Sale
      <4>1. Cardinality({s \in Sales : sale[s].status # "none"}) + 1 \in Nat
        <5>1. IsFiniteSet({s \in Sales : sale[s].status # "none"})
          BY DocumentsAssumption, FS_Subset
        <5>2. QED
          BY <5>1, FS_CardinalityType
      <4>2. opened \in Nat
        BY ShiftsAssumption DEF TypeOK, ShiftTypeOK
      <4>3. QED
        BY <4>1, <4>2 DEF Sold, Sale
    <3>2. QED
      BY <2>1, <3>1 DEF CompleteSale, TypeOK
  <2>2. CASE AbortAbandons(t)
    BY <2>2, AbandonTypes DEF AbortAbandons
  <2>3. CASE Abort(t) \/ CancelSale(t)
    BY <2>3 DEF Abort, CancelSale, VoidSale, TypeOK, Sale
  <2>4. CASE UNCHANGED sale
    BY <2>4 DEF TypeOK
  <2>5. QED
    BY <2>1, <2>2, <2>3, <2>4 DEF TillStep, Submit, CheckVoid, Preflight, OpenLedgerRow,
       StatementFails
<1>3. doc' \in [Sales -> Document]
      /\ (OpenLedgerRow(t) => run' \in [Senders -> Run])
  <2>1. CASE OpenLedgerRow(t)
    <3>1. PICK r : /\ r = OpenDocument(doc[run[t].sale], run[t].shift,
                           IF run[t].shift = 0 THEN 0 ELSE mirror[run[t].shift].prov, TRUE)
                   /\ \/ Stop(t) /\ UNCHANGED doc
                      \/ /\ doc' = [doc EXCEPT ![run[t].sale] = r]
                         /\ run' = [run EXCEPT ![t].pc = "send", ![t].attempts = r.attempts,
                                               ![t].shift = r.shift]
      BY <2>1 DEF OpenLedgerRow
    <3>2. r \in Document
      <4>1. doc[run[t].sale] \in Document
        BY <1>0, <2>1 DEF OpenLedgerRow, At, Busy, TypeOK
      <4>2. run[t].shift \in 0..MaxRows
        BY <1>0 DEF TypeOK, Run, Senders
      <4>3. TRUE \in BOOLEAN
        OBVIOUS
      <4>4. (IF run[t].shift = 0 THEN 0 ELSE mirror[run[t].shift].prov) \in 0..MaxShifts
        BY <4>2, ShiftsAssumption DEF TypeOK, ShiftTypeOK, MirrorRow, Rows
      <4>5. QED
        BY <3>1, <4>1, <4>2, <4>3, <4>4, LedgerTypes
    <3>3. r.attempts \in Nat /\ r.shift \in 0..MaxRows
      BY <3>2 DEF Document, LedgerRow
    <3>4. doc' \in [Sales -> Document]
      BY <3>1, <3>2 DEF TypeOK
    <3>5. ASSUME run' = [run EXCEPT ![t].pc = "send", ![t].attempts = r.attempts,
                                   ![t].shift = r.shift]
          PROVE  run' \in [Senders -> Run]
      <4>1. [run[t] EXCEPT !.pc = "send", !.attempts = r.attempts, !.shift = r.shift] \in Run
        BY <1>0, <3>3, RunTypes, FrameOpen
      <4>2. run' = [run EXCEPT ![t] = [run[t] EXCEPT !.pc = "send", !.attempts = r.attempts,
                                                   !.shift = r.shift]]
        BY <3>5
      <4>3. QED
        BY <1>0, <4>1, <4>2, RunUpdate
    <3>6. QED
      BY <1>0, <3>1, <3>4, <3>5, RunTypes
  <2>2. CASE AbortAbandons(t)
    BY <2>2, AbandonTypes DEF AbortAbandons, OpenLedgerRow, At
  <2>3. CASE UNCHANGED doc /\ ~ OpenLedgerRow(t)
    BY <2>3 DEF TypeOK
  <2>4. QED
    BY <2>1, <2>2, <2>3 DEF TillStep, Submit, CheckVoid, Preflight, CompleteSale,
       StatementFails, Abort, CancelSale
<1>4. run' \in [Senders -> Run]
  <2>1. LiveRow \in 0..MaxRows
    BY LiveTypes
  <2>2. CASE Preflight(t)
    <3>1. [run[t] EXCEPT !.pc = "commit", !.shift = LiveRow] \in Run
      BY <1>0, <2>1, RunTypes, FrameShift DEF Pcs
    <3>2. CASE run' = [run EXCEPT ![t].pc = "commit", ![t].shift = LiveRow]
      <4>1. run' = [run EXCEPT ![t] = [run[t] EXCEPT !.pc = "commit", !.shift = LiveRow]]
        BY <3>2
      <4>2. QED
        BY <1>0, <3>1, <4>1, RunUpdate
    <3>3. QED
      BY <1>0, <2>2, <3>2, RunTypes DEF Preflight
  <2>3. ASSUME NEW s \in Sales, Submit(t, s) \/ CheckVoid(t, s) PROVE run' \in [Senders -> Run]
    <3>1. ASSUME NEW pc \in Pcs, run' = [run EXCEPT ![t].pc = pc, ![t].sale = s]
          PROVE  run' \in [Senders -> Run]
      <4>1. [run[t] EXCEPT !.pc = pc, !.sale = s] \in Run
        BY <1>0, RunTypes, FrameSale
      <4>2. run' = [run EXCEPT ![t] = [run[t] EXCEPT !.pc = pc, !.sale = s]]
        BY <3>1
      <4>3. QED
        BY <1>0, <4>1, <4>2, RunUpdate
    <3>2. CASE run' = [run EXCEPT ![t].pc = "preflight", ![t].sale = s, ![t].on = TRUE]
      <4>1. [run[t] EXCEPT !.pc = "preflight", !.sale = s, !.on = TRUE] \in Run
        BY <1>0, RunTypes, FrameSubmit
      <4>2. run' = [run EXCEPT ![t] = [run[t] EXCEPT !.pc = "preflight", !.sale = s,
                                                   !.on = TRUE]]
        BY <3>2
      <4>3. QED
        BY <1>0, <4>1, <4>2, RunUpdate
    <3>3. CASE CheckVoid(t, s)
      BY <3>1, <3>3 DEF CheckVoid, Pcs
    <3>4. CASE Submit(t, s)
      BY <3>1, <3>2, <3>4 DEF Submit, Pcs
    <3>5. QED
      BY <2>3, <3>3, <3>4
  <2>4. CASE CompleteSale(t) \/ StatementFails(t) \/ Abort(t) \/ AbortAbandons(t)
             \/ CancelSale(t)
    BY <1>0, <2>4, RunTypes DEF CompleteSale, StatementFails, Abort, AbortAbandons,
       CancelSale, VoidSale, Pcs
  <2>5. QED
    BY <1>3, <2>2, <2>3, <2>4 DEF TillStep
<1>5. UNCHANGED <<receipt, late, todo>>
  BY DEF TillStep, Submit, CheckVoid, Preflight, CompleteSale, OpenLedgerRow,
     StatementFails, Abort, AbortAbandons, CancelSale
<1>6. QED
  BY <1>1, <1>2, <1>3, <1>4, <1>5 DEF TypeOK, Senders

(* So do the steps of runDocument.                                         *)
LEMMA SendingType ==
  ASSUME TypeOK, Busy, NEW w \in Senders, SendingStep(w)
  PROVE  TypeOK'
<1>0. w \in Workers /\ NoTask \in Task
  BY DocumentsAssumption, ShiftsAssumption DEF Senders, NoTask, Task
<1>1. ShiftTypeOK'
  <2>1. task' \in [Workers -> Task]
    <3>1. ASSUME NEW pc \in {"ask", "toOpen"}, Goto(w, pc) PROVE task' \in [Workers -> Task]
      BY <1>0, <3>1 DEF TypeOK, ShiftTypeOK, Task, Goto
    <3>2. CASE StartClose(w)
      BY <1>0, <3>2, LiveTypes DEF TypeOK, ShiftTypeOK, Task, StartClose
    <3>3. CASE Return(w)
      BY <1>0, <3>3 DEF TypeOK, ShiftTypeOK, Return
    <3>4. CASE UNCHANGED task
      BY <3>4 DEF TypeOK, ShiftTypeOK
    <3>5. QED
      BY <3>1, <3>2, <3>3, <3>4 DEF SendingStep, Send, NotSent, Accepted, NoAnswer, Duplicate,
         ResolveDuplicate, Rejected, TurnedAway, WrongShift, RepairClosed, RepairOpened, Record,
         RecordFails, RecordFailure, StartEnsure, shiftVars
  <2>2. UNCHANGED <<pshift, opened, mirror, enabled, offline>> /\ cached' \in {cached, FALSE}
    BY DEF SendingStep, Send, NotSent, Accepted, NoAnswer, Duplicate, ResolveDuplicate,
       Rejected, TurnedAway, WrongShift, RepairClosed, RepairOpened, Record, RecordFails,
       RecordFailure, shiftVars
  <2>3. upsets' = upsets \/ (upsets < MaxUpsets /\ upsets' = upsets + 1)
    BY DEF SendingStep, Send, NotSent, Accepted, NoAnswer, Duplicate, ResolveDuplicate,
       Rejected, TurnedAway, WrongShift, RepairClosed, RepairOpened, Record, RecordFails,
       RecordFailure, shiftVars, Upset
  <2>4. upsets' \in 0..MaxUpsets
    BY <2>3, ShiftsAssumption DEF TypeOK, ShiftTypeOK
  <2>5. cached' \in BOOLEAN
    BY <2>2 DEF TypeOK, ShiftTypeOK
  <2>6. QED
    BY <2>1, <2>2, <2>4, <2>5 DEF TypeOK, ShiftTypeOK
<1>2. doc' \in [Sales -> Document] /\ sale' \in [Sales -> Sale]
  <2>1. ASSUME Record(w) \/ RecordFailure(w) \/ RepairOpened(w)
        PROVE  run[w].sale \in Sales /\ doc[run[w].sale] \in Document /\ run[w] \in Run
    BY <2>1, RunTypes DEF Record, RecordFailure, RepairOpened, At, Busy, TypeOK
  <2>2. CASE Record(w)
    <3>1. MarkDone(doc[run[w].sale]) \in Document
      BY <2>1, <2>2 DEF MarkDone, Document, LedgerRow
    <3>2. QED
      BY <2>1, <2>2, <3>1, WriteTypes DEF Record
  <2>3. CASE RecordFailure(w)
    <3>1. MarkFailed(doc[run[w].sale], run[w].attempts, run[w].park) \in Document
      BY <2>1, <2>3 DEF MarkFailed, Document, LedgerRow
    <3>2. QED
      BY <2>1, <2>3, <3>1, WriteTypes DEF RecordFailure
  <2>4. CASE RepairOpened(w)
    <3>1. RestampShift(doc[run[w].sale], LiveRow, LiveProv) \in Document
      BY <2>1, <2>4, LiveTypes DEF RestampShift, Document, LedgerRow
    <3>2. QED
      BY <2>1, <2>4, <3>1 DEF RepairOpened, TypeOK
  <2>5. CASE UNCHANGED <<sale, doc>>
    BY <2>5 DEF TypeOK
  <2>6. QED
    BY <2>2, <2>3, <2>4, <2>5 DEF SendingStep, Send, NotSent, Accepted, NoAnswer, Duplicate,
       ResolveDuplicate, Rejected, TurnedAway, WrongShift, RepairClosed, RecordFails
<1>3. receipt' \in [Sales -> 0..MaxShifts]
  BY DEF TypeOK, ShiftTypeOK, SendingStep, Send, NotSent, Accepted, NoAnswer, Duplicate,
     ResolveDuplicate, Rejected, TurnedAway, WrongShift, RepairClosed, RepairOpened, Record,
     RecordFails, RecordFailure, Register
<1>4. late' \subseteq Sales
  <2>1. CASE NoAnswer(w)
    BY <2>1 DEF NoAnswer, At, Busy, TypeOK
  <2>2. CASE UNCHANGED late
    BY <2>2 DEF TypeOK
  <2>3. QED
    BY <2>1, <2>2 DEF SendingStep, Send, NotSent, Accepted, Duplicate, ResolveDuplicate,
       Rejected, TurnedAway, WrongShift, RepairClosed, RepairOpened, Record, RecordFails,
       RecordFailure
<1>5. run' \in [Senders -> Run]
  <2>1. ASSUME NEW pc \in Pcs, run' = [run EXCEPT ![w].pc = pc, ![w].repaired = TRUE]
        PROVE  run' \in [Senders -> Run]
    <3>1. [run[w] EXCEPT !.pc = pc, !.repaired = TRUE] \in Run
      BY RunTypes, FrameRepaired
    <3>2. run' = [run EXCEPT ![w] = [run[w] EXCEPT !.pc = pc, !.repaired = TRUE]]
      BY <2>1
    <3>3. QED
      BY <3>1, <3>2, RunUpdate
  <2>2. ASSUME run' = [run EXCEPT ![w].pc = "send", ![w].slowed = TRUE]
        PROVE  run' \in [Senders -> Run]
    <3>1. [run[w] EXCEPT !.pc = "send", !.slowed = TRUE] \in Run
      BY RunTypes, FrameSlowed
    <3>2. run' = [run EXCEPT ![w] = [run[w] EXCEPT !.pc = "send", !.slowed = TRUE]]
      BY <2>2
    <3>3. QED
      BY <3>1, <3>2, RunUpdate
  <2>3. ASSUME run' = [run EXCEPT ![w].pc = "send", ![w].shift = LiveRow]
        PROVE  run' \in [Senders -> Run]
    <3>1. [run[w] EXCEPT !.pc = "send", !.shift = LiveRow] \in Run
      BY RunTypes, FrameShift, LiveTypes DEF Pcs
    <3>2. run' = [run EXCEPT ![w] = [run[w] EXCEPT !.pc = "send", !.shift = LiveRow]]
      BY <2>3
    <3>3. QED
      BY <3>1, <3>2, RunUpdate
  <2>4. CASE Send(w) \/ NotSent(w) \/ Accepted(w) \/ NoAnswer(w) \/ Duplicate(w)
             \/ ResolveDuplicate(w) \/ Rejected(w)
    BY <2>4, RunTypes DEF Send, NotSent, Accepted, NoAnswer, Duplicate, ResolveDuplicate,
       Rejected, Pcs
  <2>5. CASE TurnedAway(w)
    BY <2>1, <2>2, <2>5, RunTypes DEF TurnedAway, Pcs
  <2>6. CASE WrongShift(w)
    BY <2>1, <2>6, RunTypes DEF WrongShift, Pcs
  <2>7. CASE RepairClosed(w)
    BY <2>7, RunTypes DEF RepairClosed, Pcs
  <2>8. CASE RepairOpened(w)
    BY <2>3, <2>8, RunTypes DEF RepairOpened, Pcs
  <2>9. CASE Record(w) \/ RecordFails(w) \/ RecordFailure(w)
    BY <2>9, RunTypes DEF Record, RecordFails, RecordFailure, Pcs
  <2>10. QED
    BY <2>4, <2>5, <2>6, <2>7, <2>8, <2>9 DEF SendingStep
<1>6. UNCHANGED todo
  BY DEF SendingStep, Send, NotSent, Accepted, NoAnswer, Duplicate, ResolveDuplicate,
     Rejected, TurnedAway, WrongShift, RepairClosed, RepairOpened, Record, RecordFails,
     RecordFailure
<1>7. QED
  BY <1>1, <1>2, <1>3, <1>4, <1>5, <1>6 DEF TypeOK, Senders

(* So does the retry pass.                                                 *)
LEMMA RetrierType ==
  ASSUME TypeOK, NEW c \in Retriers, RetrierStep(c)
  PROVE  TypeOK'
<1>0. c \in Senders /\ c \notin Tills /\ 0 \in 0..MaxRows
  BY DocumentsAssumption, ShiftsAssumption DEF Senders
<1>1. ShiftTypeOK' /\ UNCHANGED <<receipt, late>>
  <2>1. UNCHANGED shiftVars /\ UNCHANGED <<receipt, late>>
    BY DEF RetrierStep, SweepVoided, SweepStale, FindOrphans, Adopt, AdoptEnds,
       ClaimDueDocuments, RetryOne, RetryEnds
  <2>2. QED
    BY <2>1 DEF TypeOK, ShiftTypeOK, shiftVars
<1>2. doc' \in [Sales -> Document] /\ sale' \in [Sales -> Sale]
  <2>1. CASE SweepVoided(c)
    BY <2>1, AbandonTypes DEF SweepVoided
  <2>2. CASE SweepStale(c)
    BY <2>2, AbandonTypes DEF SweepStale
  <2>3. CASE RetryOne(c)
    <3>1. CASE UNCHANGED <<sale, doc>>
      BY <3>1 DEF TypeOK
    <3>2. ASSUME NEW s, AbandonAll({s})
          PROVE  doc' \in [Sales -> Document] /\ sale' \in [Sales -> Sale]
      BY <3>2, AbandonTypes
    <3>3. QED
      BY <2>3, <3>1, <3>2 DEF RetryOne
  <2>4. CASE Adopt(c)
    <3>1. PICK o \in todo[c] :
            \/ /\ doc' = [doc EXCEPT ![o.sale] = OpenDocument(@, LiveRow, LiveProv, FALSE)]
               /\ UNCHANGED sale
            \/ sale' = [sale EXCEPT ![o.sale].proj = "failed"] /\ UNCHANGED doc
      BY <2>4 DEF Adopt
    <3>2. o.sale \in Sales
      BY DEF TypeOK, Claim
    <3>3. OpenDocument(doc[o.sale], LiveRow, LiveProv, FALSE) \in Document
      <4>1. doc[o.sale] \in Document
        BY <3>2 DEF TypeOK
      <4>2. FALSE \in BOOLEAN /\ TRUE \in BOOLEAN /\ 0 \in Nat
        OBVIOUS
      <4>3. QED
        BY <4>1, <4>2, LiveTypes, LedgerTypes
    <3>4. doc' \in [Sales -> Document]
      BY <3>1, <3>2, <3>3 DEF TypeOK
    <3>5. sale' \in [Sales -> Sale]
      <4>1. [sale[o.sale] EXCEPT !.proj = "failed"] \in Sale
        BY <3>2 DEF TypeOK, Sale
      <4>2. \/ UNCHANGED sale
            \/ sale' = [sale EXCEPT ![o.sale] = [sale[o.sale] EXCEPT !.proj = "failed"]]
        BY <3>1
      <4>3. QED
        BY <3>2, <4>1, <4>2 DEF TypeOK
    <3>6. QED
      BY <3>4, <3>5
  <2>5. CASE ClaimDueDocuments(c)
    <3>1. ASSUME NEW s \in Sales PROVE ClaimDue(doc[s]) \in Document
      <4>1. doc[s] \in Document
        BY DEF TypeOK
      <4>2. doc[s].attempts + 1 \in Nat
        BY <4>1 DEF Document, LedgerRow
      <4>3. QED
        BY <4>1, <4>2 DEF ClaimDue, Document, LedgerRow
    <3>2. QED
      BY <2>5, <3>1 DEF ClaimDueDocuments, TypeOK
  <2>6. CASE UNCHANGED <<sale, doc>>
    BY <2>6 DEF TypeOK
  <2>7. QED
    BY <2>1, <2>2, <2>3, <2>4, <2>5, <2>6 DEF RetrierStep, FindOrphans, AdoptEnds, RetryEnds
<1>3. todo' \in [Retriers -> SUBSET Claim]
  <2>1. CASE FindOrphans(c)
    <3>1. \A s \in Sales : [sale |-> s, attempts |-> 0, shift |-> 0] \in Claim
      BY <1>0 DEF Claim
    <3>2. Orphans \subseteq Sales
      BY DEF Orphans
    <3>3. QED
      BY <2>1, <3>1, <3>2 DEF FindOrphans, TypeOK
  <2>2. CASE ClaimDueDocuments(c)
    <3>1. \A s \in Sales : [sale |-> s, attempts |-> doc[s].attempts + 1, shift |-> doc[s].shift]
                           \in Claim
      BY DEF Claim, TypeOK, Document, LedgerRow
    <3>2. DueDocuments \subseteq Sales
      BY DEF DueDocuments
    <3>3. QED
      BY <2>2, <3>1, <3>2 DEF ClaimDueDocuments, TypeOK
  <2>3. CASE Adopt(c) \/ RetryOne(c)
    BY <2>3 DEF Adopt, RetryOne, TypeOK
  <2>4. CASE UNCHANGED todo
    BY <2>4 DEF TypeOK
  <2>5. QED
    BY <2>1, <2>2, <2>3, <2>4 DEF RetrierStep, SweepVoided, SweepStale, AdoptEnds, RetryEnds
<1>4. run' \in [Senders -> Run]
  <2>1. CASE RetryOne(c)
    <3>1. PICK claim \in todo[c] :
            \/ run' = [run EXCEPT ![c].pc = "send", ![c].sale = claim.sale,
                                  ![c].attempts = claim.attempts, ![c].shift = claim.shift]
            \/ UNCHANGED run
      BY <2>1 DEF RetryOne
    <3>2. claim.sale \in Sales /\ claim.attempts \in Nat /\ claim.shift \in 0..MaxRows
      BY DEF TypeOK, Claim
    <3>3. [run[c] EXCEPT !.pc = "send", !.sale = claim.sale, !.attempts = claim.attempts,
                         !.shift = claim.shift] \in Run
      BY <1>0, <3>2, RunTypes, FrameClaim
    <3>4. CASE run' = [run EXCEPT ![c].pc = "send", ![c].sale = claim.sale,
                              ![c].attempts = claim.attempts, ![c].shift = claim.shift]
      <4>1. run' = [run EXCEPT ![c] = [run[c] EXCEPT !.pc = "send", !.sale = claim.sale,
                                 !.attempts = claim.attempts, !.shift = claim.shift]]
        BY <3>4
      <4>2. QED
        BY <1>0, <3>3, <4>1, RunUpdate
    <3>5. CASE UNCHANGED run
      BY <3>5 DEF TypeOK, Senders
    <3>6. QED
      BY <3>1, <3>4, <3>5
  <2>2. CASE Adopt(c)
    BY <2>2 DEF Adopt, TypeOK, Senders
  <2>3. QED
    BY <1>0, <2>1, <2>2, RunTypes DEF RetrierStep, SweepVoided, SweepStale, FindOrphans,
       AdoptEnds, ClaimDueDocuments, RetryEnds, Pcs
<1>5. QED
  BY <1>1, <1>2, <1>3, <1>4 DEF TypeOK, Senders

(* So do the shift service, the other requests, time and every mishap.     *)
LEMMA OtherType ==
  ASSUME TypeOK,
         \/ \E w \in Workers : ShiftWork(w)
         \/ \E s \in Sales : Elapse(s) \/ Age(s) \/ ArriveLate(s)
         \/ OtherWork
         \/ ProcessCrash
  PROVE  TypeOK'
<1>1. ASSUME NEW w \in Workers, ShiftWork(w) PROVE TypeOK'
  <2>1. CASE ShiftStep(w) /\ UNCHANGED docVars
    BY <2>1, ShiftStepType DEF TypeOK, docVars
  <2>2. CASE SweepShift(w)
    <3>1. ShiftTypeOK'
      BY <2>2, ShiftOtherType DEF SweepShift, TypeOK
    <3>2. QED
      BY <2>2, <3>1, AbandonTypes DEF SweepShift, TypeOK
  <2>3. QED
    BY <1>1, <2>1, <2>2 DEF ShiftWork
<1>2. ASSUME NEW s \in Sales, Elapse(s) \/ Age(s) PROVE TypeOK'
  <2>1. [doc[s] EXCEPT !.next = "due"] \in Document /\ [doc[s] EXCEPT !.old = TRUE] \in Document
    <3>1. doc[s] \in Document
      BY DEF TypeOK
    <3>2. QED
      BY <3>1 DEF Document, LedgerRow
  <2>2. UNCHANGED <<pshift, opened, mirror, cached, enabled, offline, task, upsets, sale, receipt, late,
                    run, todo>>
    BY <1>2 DEF Elapse, Age, shiftVars
  <2>3. doc' \in [Sales -> Document]
    BY <1>2, <2>1 DEF Elapse, Age, TypeOK
  <2>4. QED
    BY <2>2, <2>3 DEF TypeOK, ShiftTypeOK
<1>3. ASSUME NEW s \in Sales, ArriveLate(s) PROVE TypeOK'
  <2>1. UNCHANGED <<pshift, opened, mirror, cached, enabled, offline, task, upsets, sale, doc, run, todo>>
    BY <1>3 DEF ArriveLate, shiftVars
  <2>2. late' \subseteq Sales /\ receipt' \in [Sales -> 0..MaxShifts]
    BY <1>3 DEF ArriveLate, Register, TypeOK, ShiftTypeOK
  <2>3. QED
    BY <2>1, <2>2 DEF TypeOK, ShiftTypeOK
<1>4. CASE OtherWork
  <2>1. ShiftTypeOK'
    BY <1>4, CronStepType, ShiftOtherType DEF OtherWork, Others, TypeOK
  <2>2. QED
    BY <1>4, <2>1 DEF OtherWork, docVars, TypeOK
<1>5. CASE ProcessCrash
  <2>1. ShiftTypeOK'
    BY <1>5, ShiftOtherType DEF ProcessCrash, TypeOK
  <2>2. NoRun \in Run
    BY ShiftsAssumption DEF NoRun, Run
  <2>3. QED
    BY <1>5, <2>1, <2>2 DEF ProcessCrash, TypeOK
<1>6. QED
  BY <1>1, <1>2, <1>3, <1>4, <1>5

(* A worker's step is about its own frame; the rest of the system touches  *)
(* none, short of a crash.                                                 *)
LEMMA OwnFrame ==
  ASSUME TypeOK, NEW w \in Senders, NEW u \in Senders, u # w,
         \/ w \in Tills /\ (TillStep(w) \/ \E s \in Sales : Submit(w, s) \/ CheckVoid(w, s))
         \/ w \in Retriers /\ RetrierStep(w)
         \/ SendingStep(w)
  PROVE  run'[u] = run[u]
<1>1. CASE SendingStep(w)
  BY <1>1 DEF SendingStep, Send, NotSent, Accepted, NoAnswer, Duplicate, ResolveDuplicate,
     Rejected, TurnedAway, WrongShift, RepairClosed, RepairOpened, Record, RecordFails,
     RecordFailure, Step, Fail, TypeOK, Senders
<1>2. CASE w \in Tills /\ (TillStep(w) \/ \E s \in Sales : Submit(w, s) \/ CheckVoid(w, s))
  BY <1>2 DEF TillStep, Submit, CheckVoid, Preflight, CompleteSale, OpenLedgerRow,
     StatementFails, Abort, AbortAbandons, CancelSale, VoidSale, Step, Stop, TypeOK, Senders
<1>3. CASE w \in Retriers /\ RetrierStep(w)
  BY <1>3 DEF RetrierStep, SweepVoided, SweepStale, FindOrphans, Adopt, AdoptEnds,
     ClaimDueDocuments, RetryOne, RetryEnds, Step, Stop, TypeOK, Senders
<1>4. QED
  BY <1>1, <1>2, <1>3

(* The shift service, time, the provider and idle steps touch no frame.    *)
LEMMA NoFrame ==
  ASSUME \/ \E w \in Workers : ShiftWork(w)
         \/ \E s \in Sales : Elapse(s) \/ Age(s) \/ ArriveLate(s)
         \/ OtherWork
         \/ UNCHANGED vars
  PROVE  run' = run
BY DEF ShiftWork, SweepShift, Elapse, Age, ArriveLate, OtherWork, docVars, vars

(* What a step writes into its own frame.                                  *)
LEMMA StepFields ==
  ASSUME TypeOK, NEW w \in Senders, NEW pc, Step(w, pc)
  PROVE  /\ run'[w].pc = pc
         /\ run'[w].sale = run[w].sale
         /\ run'[w].mayExist = run[w].mayExist
<1>1. run'[w] = [run[w] EXCEPT !.pc = pc]
  BY DEF Step, TypeOK, Senders
<1>2. QED
  BY <1>1, RunTypes DEF Run

(* A failed attempt remembers whether the document may exist.              *)
LEMMA FailFields ==
  ASSUME TypeOK, NEW w \in Senders, NEW mayExist, NEW park, Fail(w, mayExist, park)
  PROVE  /\ run'[w].pc = "failing"
         /\ run'[w].sale = run[w].sale
         /\ run'[w].mayExist = mayExist
<1>1. run'[w] = [run[w] EXCEPT !.pc = "failing", !.mayExist = mayExist, !.park = park]
  BY DEF Fail, TypeOK, Senders
<1>2. QED
  BY <1>1, RunTypes DEF Run

(* The end of a request, and of one document of a batch, lets its sale go. *)
LEMMA StopFields ==
  ASSUME TypeOK, NEW w \in Senders
  PROVE  /\ Stop(w) => run'[w].pc = "idle" /\ run'[w].sale = NoSale
         /\ run' = [run EXCEPT ![w] = Rest(w)] =>
              /\ run'[w].pc \in {"idle", "batch"} /\ run'[w].sale = NoSale
              /\ w \in Tills => run'[w].pc = "idle"
              /\ w \in Retriers => run'[w].pc = "batch"
<1>1. Stop(w) => run'[w].pc = "idle" /\ run'[w].sale = NoSale
  BY DEF Stop, NoRun, TypeOK, Senders
<1>2. /\ Rest(w).pc \in {"idle", "batch"} /\ Rest(w).sale = NoSale
      /\ w \in Tills => Rest(w).pc = "idle"
      /\ w \in Retriers => Rest(w).pc = "batch"
  BY DocumentsAssumption DEF Rest, NoRun
<1>3. QED
  BY <1>1, <1>2 DEF TypeOK, Senders

Sending == {"send", "wire", "resolve", "record", "repairClose", "repairOpen", "failing"}

(* runDocument keeps to its sale until it is done with it, and only an     *)
(* acceptance or a duplicate leads to a receipt to record.                 *)
LEMMA SendingFields ==
  ASSUME TypeOK, NEW w \in Senders, SendingStep(w)
  PROVE  /\ run[w].pc \in Sending
         /\ \/ /\ run'[w].sale = NoSale /\ run'[w].pc \in {"idle", "batch"}
               /\ w \in Tills => run'[w].pc = "idle"
               /\ w \in Retriers => run'[w].pc = "batch"
            \/ /\ run'[w].sale = run[w].sale /\ run'[w].pc \in Sending \cup {"void"}
               /\ run'[w].pc = "void" => w \in Tills
         /\ run'[w].pc \in {"resolve", "record"} =>
              Accepted(w) \/ Duplicate(w) \/ ResolveDuplicate(w)
<1>1. run[w].pc \in Sending
  BY DEF SendingStep, Send, NotSent, Accepted, NoAnswer, Duplicate, ResolveDuplicate,
     Rejected, TurnedAway, WrongShift, RepairClosed, RepairOpened, Record, RecordFails,
     RecordFailure, At, Sending
<1>2. CASE Send(w) \/ NotSent(w) \/ Accepted(w) \/ NoAnswer(w) \/ Duplicate(w)
           \/ ResolveDuplicate(w) \/ Rejected(w) \/ RecordFails(w)
  <2>1. \/ Step(w, "wire")
        \/ /\ Step(w, "record") \/ Step(w, "resolve")
           /\ Accepted(w) \/ Duplicate(w) \/ ResolveDuplicate(w)
        \/ \E mayExist, park : Fail(w, mayExist, park)
        \/ run' = [run EXCEPT ![w] = Rest(w)]
    BY <1>2 DEF Send, NotSent, Accepted, NoAnswer, Duplicate, ResolveDuplicate, Rejected,
       RecordFails
  <2>2. QED
    BY <1>1, <2>1, StepFields, FailFields, StopFields DEF Sending
<1>3. CASE TurnedAway(w)
  <2>1. ASSUME run' = [run EXCEPT ![w].pc = "send", ![w].slowed = TRUE]
        PROVE  run'[w].sale = run[w].sale /\ run'[w].pc = "send"
    BY <2>1, RunTypes DEF TypeOK, Senders, Run
  <2>2. ASSUME run' = [run EXCEPT ![w].pc = "send", ![w].repaired = TRUE]
        PROVE  run'[w].sale = run[w].sale /\ run'[w].pc = "send"
    BY <2>2, RunTypes DEF TypeOK, Senders, Run
  <2>3. QED
    BY <1>1, <1>3, <2>1, <2>2, FailFields DEF TurnedAway, Sending
<1>4. CASE WrongShift(w)
  <2>1. ASSUME NEW pc, run' = [run EXCEPT ![w].pc = pc, ![w].repaired = TRUE]
        PROVE  run'[w].sale = run[w].sale /\ run'[w].pc = pc
    BY <2>1, RunTypes DEF TypeOK, Senders, Run
  <2>2. QED
    <3>1. /\ run'[w].sale = run[w].sale
          /\ run'[w].pc \in {"repairOpen", "repairClose", "failing"}
      BY <1>4, <2>1, FailFields DEF WrongShift
    <3>2. QED
      BY <1>1, <3>1 DEF Sending
<1>5. CASE RepairClosed(w)
  <2>1. run'[w].sale = run[w].sale /\ run'[w].pc \in {"repairOpen", "failing"}
    BY <1>5, StepFields, FailFields DEF RepairClosed
  <2>2. QED
    BY <1>1, <2>1 DEF Sending
<1>6. CASE RepairOpened(w)
  <2>1. ASSUME run' = [run EXCEPT ![w].pc = "send", ![w].shift = LiveRow]
        PROVE  run'[w].sale = run[w].sale /\ run'[w].pc = "send"
    BY <2>1, RunTypes DEF TypeOK, Senders, Run
  <2>2. QED
    <3>1. run'[w].sale = run[w].sale /\ run'[w].pc \in {"send", "failing"}
      BY <1>6, <2>1, StepFields, FailFields DEF RepairOpened
    <3>2. QED
      BY <1>1, <3>1 DEF Sending
<1>7. CASE Record(w) \/ RecordFailure(w)
  BY <1>1, <1>7, StepFields, StopFields DEF Record, RecordFailure, Sending
<1>8. QED
  BY <1>1, <1>2, <1>3, <1>4, <1>5, <1>6, <1>7 DEF SendingStep

(* A till keeps to its sale until its request ends.                        *)
LEMMA TillFields ==
  ASSUME TypeOK, NEW t \in Tills, TillStep(t)
  PROVE  \/ run'[t].pc = "idle" /\ run'[t].sale = NoSale
         \/ /\ run[t].pc \in {"preflight", "commit", "open", "void"}
            /\ run'[t].pc \in {"commit", "open", "send", "abandon"}
            /\ run'[t].sale = run[t].sale
<1>0. t \in Senders
  BY DEF Senders
<1>1. CASE Preflight(t)
  <2>1. ASSUME run' = [run EXCEPT ![t].pc = "commit", ![t].shift = LiveRow]
        PROVE  run'[t].sale = run[t].sale /\ run'[t].pc = "commit"
    BY <1>0, <2>1, RunTypes DEF TypeOK, Senders, Run
  <2>2. QED
    BY <1>0, <1>1, <2>1, StopFields DEF Preflight, At
<1>2. CASE OpenLedgerRow(t)
  <2>1. PICK r : \/ Stop(t)
                 \/ run' = [run EXCEPT ![t].pc = "send", ![t].attempts = r.attempts,
                                       ![t].shift = r.shift]
    BY <1>2 DEF OpenLedgerRow
  <2>2. CASE ~ Stop(t)
    <3>1. run' = [run EXCEPT ![t] = [run[t] EXCEPT !.pc = "send", !.attempts = r.attempts,
                                               !.shift = r.shift]]
      BY <2>1, <2>2
    <3>2. run'[t] = [run[t] EXCEPT !.pc = "send", !.attempts = r.attempts, !.shift = r.shift]
      BY <1>0, <3>1 DEF TypeOK, Senders
    <3>3. run'[t].pc = "send" /\ run'[t].sale = run[t].sale
      BY <1>0, <3>2, RunTypes DEF Run
    <3>4. QED
      BY <1>2, <3>3 DEF OpenLedgerRow, At
  <2>3. QED
    BY <1>0, <2>2, StopFields
<1>3. CASE CompleteSale(t) \/ StatementFails(t) \/ Abort(t) \/ AbortAbandons(t)
           \/ CancelSale(t)
  BY <1>0, <1>3, StepFields, StopFields DEF CompleteSale, StatementFails, Abort,
     AbortAbandons, CancelSale, VoidSale, At
<1>4. QED
  BY <1>1, <1>2, <1>3 DEF TillStep

(* A retry pass takes up a sale only from the rows it has selected.        *)
LEMMA RetrierFields ==
  ASSUME TypeOK, NEW c \in Retriers, RetrierStep(c)
  PROVE  \/ run'[c] = run[c]
         \/ /\ run'[c].sale \in {run[c].sale, NoSale}
            /\ run'[c].pc \in {"stale", "orphans", "adopt", "claim", "batch", "idle"}
         \/ /\ RetryOne(c)
            /\ run'[c].pc = "send"
            /\ \E claim \in todo[c] : run'[c].sale = claim.sale
<1>0. c \in Senders
  BY DEF Senders
<1>1. CASE RetryOne(c)
  <2>1. PICK claim \in todo[c] :
          \/ run' = run
          \/ run' = [run EXCEPT ![c].pc = "send", ![c].sale = claim.sale,
                                ![c].attempts = claim.attempts, ![c].shift = claim.shift]
    BY <1>1 DEF RetryOne
  <2>2. CASE run' # run
    <3>1. run' = [run EXCEPT ![c] = [run[c] EXCEPT !.pc = "send", !.sale = claim.sale,
                             !.attempts = claim.attempts, !.shift = claim.shift]]
      BY <2>1, <2>2
    <3>2. run'[c] = [run[c] EXCEPT !.pc = "send", !.sale = claim.sale,
                                  !.attempts = claim.attempts, !.shift = claim.shift]
      BY <1>0, <3>1 DEF TypeOK, Senders
    <3>3. QED
      BY <1>0, <1>1, <3>2, RunTypes DEF Run
  <2>3. QED
    BY <2>2
<1>2. CASE ~ RetryOne(c)
  BY <1>0, <1>2, StepFields, StopFields DEF RetrierStep, SweepVoided, SweepStale, FindOrphans,
     Adopt, AdoptEnds, ClaimDueDocuments, RetryEnds
<1>3. QED
  BY <1>1, <1>2

(* Whoever is past the first step of a request keeps its sale until the    *)
(* request ends.                                                           *)
LEMMA BusyStep ==
  ASSUME TypeOK, Busy, [Next]_vars
  PROVE  Busy'
<1> DEFINE busy == {"preflight", "commit", "open", "send", "wire", "resolve", "record",
                    "repairClose", "repairOpen", "failing", "void", "abandon"}
<1> SUFFICES ASSUME NEW u \in Senders, run'[u].pc \in busy
             PROVE  run'[u].sale \in Sales
  BY DEF Busy
<1>0. run[u] \in Run /\ (run[u].pc \in busy => run[u].sale \in Sales)
  BY RunTypes DEF Busy
<1>1. CASE SendingStep(u)
  BY <1>0, <1>1, SendingFields DEF Sending
<1>2. CASE u \in Tills /\ TillStep(u)
  BY <1>0, <1>2, TillFields
<1>3. CASE u \in Tills /\ \E s \in Sales : Submit(u, s) \/ CheckVoid(u, s)
  BY <1>3 DEF Submit, CheckVoid, TypeOK, Senders, Run
<1>4. CASE u \in Retriers /\ RetrierStep(u)
  <2>1. \A claim \in todo[u] : claim.sale \in Sales
    BY <1>4 DEF TypeOK, Claim
  <2>2. QED
    BY <1>0, <1>4, <2>1, RetrierFields
<1>5. CASE run'[u] = run[u]
  BY <1>0, <1>5
<1>6. CASE ProcessCrash
  BY <1>6 DEF ProcessCrash, NoRun, Senders
<1>7. QED
  BY <1>1, <1>2, <1>3, <1>4, <1>5, <1>6, OwnFrame, NoFrame DEF Next, Senders

(* Each step keeps the types.                                              *)
LEMMA TypedStep ==
  ASSUME TypeOK, Busy, [Next]_vars
  PROVE  TypeOK'
<1>1. CASE Next
  BY <1>1, TillType, SendingType, RetrierType, OtherType DEF Next, Senders
<1>2. CASE UNCHANGED vars
  BY <1>2 DEF vars, shiftVars, docVars, TypeOK, ShiftTypeOK
<1>3. QED
  BY <1>1, <1>2

(* The initial state is well typed and nobody is at work.                  *)
LEMMA InitTyped == Init => TypeOK /\ Busy
<1> SUFFICES ASSUME Init PROVE TypeOK /\ Busy
  OBVIOUS
<1>1. ShiftTypeOK
  BY ShiftInitType DEF Init
<1>2. NoneSold \in Sale /\ NoDocument \in Document /\ NoRun \in Run
  BY ShiftsAssumption DEF NoneSold, Sale, NoDocument, Document, LedgerRow, NoRun, Run
<1>3. receipt \in [Sales -> 0..MaxShifts]
  BY ShiftsAssumption DEF Init
<1>4. Busy
  BY DEF Init, Busy, NoRun, Senders
<1>5. QED
  BY <1>1, <1>2, <1>3, <1>4 DEF Init, TypeOK

(* Every reachable state is well typed: no sequence of requests, retries,  *)
(* repairs, crashes and failed statements leaves a row, a projection or a  *)
(* request in a state the code has no word for (ledger.ts:84-103).         *)
THEOREM TypeCorrect == Spec => []TypeOK
<1>1. TypeOK /\ Busy /\ [Next]_vars => TypeOK' /\ Busy'
  BY TypedStep, BusyStep
<1>2. QED
  BY <1>1, InitTyped, PTL DEF Spec

----------------------------------------------------------------------------
(* The ledger's done is the tax service's.  To be inductive it needs what  *)
(* a request about to record the receipt knows.                            *)

Witnessed ==
  /\ \A w \in Senders : run[w].pc \in {"resolve", "record"} => receipt[run[w].sale] # 0
  /\ DoneIsRegistered

(* The tax service hears of a document from whoever is sending it, or late. *)
ReceiptChange ==
  \/ UNCHANGED receipt
  \/ \E w \in Senders : Accepted(w)
  \/ \E s \in Sales : ArriveLate(s) /\ Register(s)

(* Nothing else makes a receipt.                                           *)
LEMMA ReceiptChanges ==
  ASSUME [Next]_vars
  PROVE  ReceiptChange
<1>1. ASSUME NEW w \in Senders, SendingStep(w) PROVE ReceiptChange
  BY <1>1 DEF SendingStep, Send, NotSent, NoAnswer, Duplicate, ResolveDuplicate, Rejected,
     TurnedAway, WrongShift, RepairClosed, RepairOpened, Record, RecordFails, RecordFailure,
     ReceiptChange
<1>2. ASSUME NEW t, \/ TillStep(t)
                    \/ \E u \in Sales : Submit(t, u) \/ CheckVoid(t, u)
                    \/ RetrierStep(t)
                    \/ ShiftWork(t)
      PROVE  UNCHANGED receipt
  BY <1>2 DEF TillStep, Submit, CheckVoid, Preflight, CompleteSale, OpenLedgerRow,
     StatementFails, Abort, AbortAbandons, CancelSale, RetrierStep, SweepVoided, SweepStale,
     FindOrphans, Adopt, AdoptEnds, ClaimDueDocuments, RetryOne, RetryEnds, ShiftWork,
     SweepShift, docVars
<1>3. ASSUME \/ \E u \in Sales : Elapse(u) \/ Age(u)
             \/ OtherWork \/ ProcessCrash \/ UNCHANGED vars
      PROVE  UNCHANGED receipt
  BY <1>3 DEF Elapse, Age, OtherWork, ProcessCrash, docVars, vars
<1>4. ASSUME NEW u \in Sales, ArriveLate(u) PROVE ReceiptChange
  BY <1>4 DEF ArriveLate, ReceiptChange
<1>5. QED
  BY <1>1, <1>2, <1>3, <1>4 DEF Next, Senders, ReceiptChange

(* A receipt is for good.                                                  *)
LEMMA ReceiptsStay ==
  ASSUME TypeOK, [Next]_vars, NEW s \in Sales, receipt[s] # 0
  PROVE  receipt'[s] = receipt[s]
<1>1. ASSUME NEW u, Register(u) PROVE receipt'[s] = receipt[s]
  BY <1>1 DEF Register, TypeOK
<1>2. QED
  BY <1>1, ReceiptChanges DEF ReceiptChange, Accepted

(* What one step may do to a document's row.                               *)
RowChange(s) ==
  \/ doc'[s] \in {doc[s], MarkAbandoned(doc[s]), ClaimDue(doc[s]), [doc[s] EXCEPT !.old = TRUE]}
  \/ Elapse(s) /\ doc'[s] = [doc[s] EXCEPT !.next = "due"]
  \/ \E w \in Senders :
       /\ run[w].sale = s
       /\ \/ Record(w) /\ doc'[s] = MarkDone(doc[s])
          \/ RecordFailure(w) /\ \E n, park : doc'[s] = MarkFailed(doc[s], n, park)
          \/ RepairOpened(w) /\ \E k, p : doc'[s] = RestampShift(doc[s], k, p)
  \/ \E t \in Tills :
       /\ OpenLedgerRow(t)
       /\ run[t].sale = s
       /\ \E k, p : doc'[s] = OpenDocument(doc[s], k, p, TRUE)
  \/ \E c \in Retriers : \E o \in todo[c] :
       /\ o.sale = s
       /\ \E k, p : doc'[s] = OpenDocument(doc[s], k, p, FALSE)

(* Every step does one of these to a document's row.                       *)
LEMMA RowChanges ==
  ASSUME TypeOK, Busy, [Next]_vars, NEW s \in Sales
  PROVE  RowChange(s)
<1>0. doc[s] \in Document /\ doc \in [Sales -> Document]
  BY DEF TypeOK
<1>1. ASSUME NEW S, AbandonAll(S) PROVE doc'[s] \in {doc[s], MarkAbandoned(doc[s])}
  BY <1>0, <1>1 DEF AbandonAll
<1>2. ASSUME NEW w \in Senders, SendingStep(w) PROVE RowChange(s)
  <2>1. CASE Record(w)
    BY <1>0, <2>1 DEF Record, WriteDocument, RowChange
  <2>2. CASE RecordFailure(w)
    <3>1. doc' = [doc EXCEPT ![run[w].sale] =
                   MarkFailed(doc[run[w].sale], run[w].attempts, run[w].park)]
      BY <2>2 DEF RecordFailure, WriteDocument
    <3>2. CASE run[w].sale = s
      <4>1. doc'[s] = MarkFailed(doc[s], run[w].attempts, run[w].park)
        BY <1>0, <3>1, <3>2
      <4>2. QED
        BY <2>2, <3>2, <4>1 DEF RowChange
    <3>3. CASE run[w].sale # s
      BY <1>0, <3>1, <3>3 DEF RowChange
    <3>4. QED
      BY <3>2, <3>3
  <2>3. CASE RepairOpened(w)
    <3>1. \/ doc' = doc
          \/ doc' = [doc EXCEPT ![run[w].sale] = RestampShift(@, LiveRow, LiveProv)]
      BY <2>3 DEF RepairOpened
    <3>2. CASE run[w].sale = s /\ doc' # doc
      <4>1. doc'[s] = RestampShift(doc[s], LiveRow, LiveProv)
        BY <1>0, <3>1, <3>2
      <4>2. QED
        BY <2>3, <3>2, <4>1 DEF RowChange
    <3>3. CASE run[w].sale # s \/ doc' = doc
      BY <1>0, <3>1, <3>3 DEF RowChange
    <3>4. QED
      BY <3>2, <3>3
  <2>4. CASE UNCHANGED doc
    BY <2>4 DEF RowChange
  <2>5. QED
    BY <1>2, <2>1, <2>2, <2>3, <2>4 DEF SendingStep, Send, NotSent, Accepted, NoAnswer,
       Duplicate, ResolveDuplicate, Rejected, TurnedAway, WrongShift, RepairClosed, RecordFails
<1>3. ASSUME NEW t \in Tills, \/ TillStep(t)
                              \/ \E u \in Sales : Submit(t, u) \/ CheckVoid(t, u)
      PROVE  RowChange(s)
  <2>1. CASE OpenLedgerRow(t)
    <3>1. \/ doc' = doc
          \/ \E p : doc' = [doc EXCEPT ![run[t].sale] =
                                OpenDocument(doc[run[t].sale], run[t].shift, p, TRUE)]
      BY <2>1 DEF OpenLedgerRow
    <3>2. CASE run[t].sale = s /\ doc' # doc
      <4>1. PICK p : doc'[s] = OpenDocument(doc[s], run[t].shift, p, TRUE)
        BY <1>0, <3>1, <3>2
      <4>2. QED
        BY <2>1, <3>2, <4>1 DEF RowChange
    <3>3. CASE run[t].sale # s \/ doc' = doc
      BY <1>0, <3>1, <3>3 DEF RowChange
    <3>4. QED
      BY <3>2, <3>3
  <2>2. CASE AbortAbandons(t)
    BY <1>1, <2>2 DEF AbortAbandons, RowChange
  <2>3. CASE UNCHANGED doc
    BY <2>3 DEF RowChange
  <2>4. QED
    BY <1>3, <2>1, <2>2, <2>3 DEF TillStep, Submit, CheckVoid, Preflight, CompleteSale,
       StatementFails, Abort, CancelSale
<1>4. ASSUME NEW c \in Retriers, RetrierStep(c) PROVE RowChange(s)
  <2>1. CASE Adopt(c)
    <3>1. PICK o \in todo[c] :
            \/ doc' = [doc EXCEPT ![o.sale] = OpenDocument(@, LiveRow, LiveProv, FALSE)]
            \/ UNCHANGED doc
      BY <2>1 DEF Adopt
    <3>2. CASE o.sale = s /\ doc' # doc
      <4>1. doc'[s] = OpenDocument(doc[s], LiveRow, LiveProv, FALSE)
        BY <1>0, <3>1, <3>2
      <4>2. QED
        BY <3>2, <4>1 DEF RowChange
    <3>3. CASE o.sale # s \/ doc' = doc
      BY <1>0, <3>1, <3>3 DEF RowChange
    <3>4. QED
      BY <3>2, <3>3
  <2>2. CASE ClaimDueDocuments(c)
    BY <1>0, <2>2 DEF ClaimDueDocuments, RowChange
  <2>3. ASSUME NEW S, AbandonAll(S) PROVE RowChange(s)
    BY <1>1, <2>3 DEF RowChange
  <2>4. CASE UNCHANGED doc
    BY <2>4 DEF RowChange
  <2>5. QED
    BY <1>4, <2>1, <2>2, <2>3, <2>4 DEF RetrierStep, SweepVoided, SweepStale, FindOrphans,
       AdoptEnds, RetryOne, RetryEnds
<1>5. ASSUME \/ \E w \in Workers : ShiftWork(w)
             \/ \E u \in Sales : Elapse(u) \/ Age(u) \/ ArriveLate(u)
             \/ OtherWork \/ ProcessCrash \/ UNCHANGED vars
      PROVE  RowChange(s)
  <2>1. ASSUME NEW u \in Sales, Elapse(u) \/ Age(u) PROVE RowChange(s)
    BY <1>0, <2>1 DEF Elapse, Age, RowChange
  <2>2. ASSUME NEW w \in Workers, SweepShift(w) PROVE RowChange(s)
    BY <1>1, <2>2 DEF SweepShift, RowChange
  <2>3. CASE UNCHANGED doc
    BY <2>3 DEF RowChange
  <2>4. QED
    BY <1>5, <2>1, <2>2, <2>3 DEF ShiftWork, ArriveLate, OtherWork, ProcessCrash, docVars, vars
<1>6. QED
  BY <1>2, <1>3, <1>4, <1>5 DEF Next, Senders

(* Only markDone makes a document done; a row is never unwritten, becomes  *)
(* due by the passing of time alone, and is first written by its till, by  *)
(* a retry pass that adopts it or by whoever is sending it.                *)
LEMMA RowEffects ==
  ASSUME TypeOK, NEW s \in Sales, RowChange(s)
  PROVE  /\ doc'[s].status = "done" =>
              \/ doc[s].status = "done"
              \/ \E w \in Senders : run[w].pc = "record" /\ run[w].sale = s
         /\ doc[s].status # "none" => doc'[s].status # "none"
         /\ doc'[s].next = "due" => doc[s].next = "due" \/ Elapse(s)
         /\ doc[s].status = "none" =>
              \/ doc'[s].status = "none"
              \/ \E t \in Tills : OpenLedgerRow(t) /\ run[t].sale = s
              \/ \E w \in Senders : run[w].pc \in Sending /\ run[w].sale = s
              \/ \E c \in Retriers : \E o \in todo[c] : o.sale = s
<1> DEFINE r == doc[s]
           Kept(q) == /\ q.status = "done" => r.status = "done"
                      /\ r.status # "none" => q.status # "none"
                      /\ q.next = "due" => r.next = "due"
<1>0. r \in Document
  BY DEF TypeOK
<1>1. /\ Kept(r)
      /\ Kept(MarkAbandoned(r)) /\ (r.status = "none" => MarkAbandoned(r).status = "none")
      /\ Kept(ClaimDue(r)) /\ (r.status = "none" => ClaimDue(r).status = "none")
      /\ Kept([r EXCEPT !.old = TRUE])
      /\ r.status = "none" => [r EXCEPT !.old = TRUE].status = "none"
  BY <1>0 DEF MarkAbandoned, Unfinished, ClaimDue, Document, LedgerRow
<1>2. [r EXCEPT !.next = "due"].status = r.status
  BY <1>0 DEF Document, LedgerRow
<1>3. MarkDone(r).status # "none" /\ MarkDone(r).next # "due"
  BY <1>0 DEF MarkDone, Document, LedgerRow
<1>4. ASSUME NEW n, NEW park PROVE Kept(MarkFailed(r, n, park))
  BY <1>0 DEF MarkFailed, Document, LedgerRow
<1>5. ASSUME NEW k, NEW p PROVE Kept(RestampShift(r, k, p))
  BY <1>0 DEF RestampShift, Document, LedgerRow
<1>6. ASSUME NEW k, NEW p, NEW payload PROVE Kept(OpenDocument(r, k, p, payload))
  BY <1>0 DEF OpenDocument, Document, LedgerRow
<1>7. ASSUME NEW w \in Senders, Record(w) \/ RecordFailure(w) \/ RepairOpened(w)
      PROVE  /\ run[w].pc \in Sending
             /\ Record(w) => run[w].pc = "record"
  BY <1>7 DEF Record, RecordFailure, RepairOpened, At, Sending
<1>8. CASE doc'[s] \in {r, MarkAbandoned(r), ClaimDue(r), [r EXCEPT !.old = TRUE]}
  BY <1>1, <1>8
<1>9. CASE Elapse(s) /\ doc'[s] = [r EXCEPT !.next = "due"]
  BY <1>2, <1>9
<1>10. ASSUME NEW w \in Senders, run[w].sale = s,
              \/ Record(w) /\ doc'[s] = MarkDone(r)
              \/ RecordFailure(w) /\ \E n, park : doc'[s] = MarkFailed(r, n, park)
              \/ RepairOpened(w) /\ \E k, p : doc'[s] = RestampShift(r, k, p)
       PROVE  /\ run[w].pc \in Sending
              /\ run[w].pc = "record" \/ Kept(doc'[s])
              /\ r.status # "none" => doc'[s].status # "none"
              /\ doc'[s].next = "due" => r.next = "due"
  <2>1. CASE Record(w) /\ doc'[s] = MarkDone(r)
    BY <1>3, <1>7, <2>1
  <2>2. CASE RecordFailure(w) /\ \E n, park : doc'[s] = MarkFailed(r, n, park)
    <3>1. Kept(doc'[s])
      BY <1>4, <2>2
    <3>2. QED
      BY <1>7, <2>2, <3>1
  <2>3. CASE RepairOpened(w) /\ \E k, p : doc'[s] = RestampShift(r, k, p)
    <3>1. Kept(doc'[s])
      BY <1>5, <2>3
    <3>2. QED
      BY <1>7, <2>3, <3>1
  <2>4. QED
    BY <1>10, <2>1, <2>2, <2>3
<1>11. CASE \E w \in Senders :
              /\ run[w].sale = s
              /\ \/ Record(w) /\ doc'[s] = MarkDone(r)
                 \/ RecordFailure(w) /\ \E n, park : doc'[s] = MarkFailed(r, n, park)
                 \/ RepairOpened(w) /\ \E k, p : doc'[s] = RestampShift(r, k, p)
  BY <1>10, <1>11
<1>12. CASE \/ \E t \in Tills :
                 /\ OpenLedgerRow(t)
                 /\ run[t].sale = s
                 /\ \E k, p : doc'[s] = OpenDocument(r, k, p, TRUE)
            \/ \E c \in Retriers : \E o \in todo[c] :
                 /\ o.sale = s
                 /\ \E k, p : doc'[s] = OpenDocument(r, k, p, FALSE)
  <2>1. Kept(doc'[s])
    BY <1>6, <1>12
  <2>2. QED
    BY <1>12, <2>1
<1>13. QED
  BY <1>8, <1>9, <1>11, <1>12 DEF RowChange

(* Who comes to record a receipt has seen the provider have it.            *)
LEMMA WitnessedStep ==
  ASSUME TypeOK, Busy, Witnessed, [Next]_vars
  PROVE  Witnessed'
<1>1. ASSUME NEW u \in Senders, run'[u].pc \in {"resolve", "record"}
      PROVE  receipt'[run'[u].sale] # 0
  <2>1. CASE run'[u] = run[u]
    <3>1. run[u].sale \in Sales /\ receipt[run[u].sale] # 0
      BY <1>1, <2>1 DEF Witnessed, Busy
    <3>2. QED
      BY <2>1, <3>1, ReceiptsStay
  <2>2. CASE SendingStep(u)
    <3>0. ~ \E mayExist, park : Fail(u, mayExist, park)
      BY <1>1, FailFields
    <3>1. CASE Accepted(u)
      <4>1. run[u].sale \in Sales
        BY <3>1 DEF Accepted, At, Busy
      <4>2. run'[u].sale = run[u].sale
        BY <3>0, <3>1, StepFields DEF Accepted
      <4>3. QED
        BY <3>1, <4>1, <4>2 DEF Accepted, Register, TypeOK
    <3>2. CASE Duplicate(u)
      <4>1. run'[u].sale = run[u].sale
        BY <3>2, StepFields DEF Duplicate
      <4>2. QED
        BY <3>2, <4>1 DEF Duplicate
    <3>3. CASE ResolveDuplicate(u)
      <4>1. run'[u].sale = run[u].sale
        BY <3>0, <3>3, StepFields DEF ResolveDuplicate
      <4>2. QED
        BY <3>3, <4>1 DEF ResolveDuplicate, Witnessed, At
    <3>4. QED
      BY <1>1, <2>2, <3>1, <3>2, <3>3, SendingFields
  <2>3. CASE u \in Tills /\ TillStep(u)
    BY <1>1, <2>3, TillFields
  <2>4. CASE u \in Tills /\ \E s \in Sales : Submit(u, s) \/ CheckVoid(u, s)
    BY <1>1, <2>4 DEF Submit, CheckVoid, TypeOK, Senders, Run
  <2>5. CASE u \in Retriers /\ RetrierStep(u)
    BY <1>1, <2>1, <2>5, RetrierFields
  <2>6. CASE ProcessCrash
    BY <1>1, <2>6 DEF ProcessCrash, NoRun, Senders
  <2>7. QED
    BY <2>1, <2>2, <2>3, <2>4, <2>5, <2>6, OwnFrame, NoFrame DEF Next, Senders
<1>2. DoneIsRegistered'
  <2>1. ASSUME NEW s \in Sales, doc'[s].status = "done" PROVE receipt'[s] # 0
    <3>1. receipt[s] # 0
      BY <2>1, RowChanges, RowEffects DEF Witnessed, DoneIsRegistered
    <3>2. QED
      BY <3>1, ReceiptsStay
  <2>2. QED
    BY <2>1 DEF DoneIsRegistered
<1>3. QED
  BY <1>1, <1>2 DEF Witnessed

(* Whatever is lost, repeated or crashes, and however many requests and    *)
(* cashiers collide, the ledger never shows a receipt nobody registered.   *)
THEOREM DoneHasReceipt == Spec => []DoneIsRegistered
<1>1. Init => Witnessed
  BY DEF Init, Witnessed, DoneIsRegistered, NoRun, NoDocument, Senders
<1>2. TypeOK /\ Busy /\ Witnessed /\ [Next]_vars => TypeOK' /\ Busy' /\ Witnessed'
  BY TypedStep, BusyStep, WitnessedStep
<1>3. Witnessed => DoneIsRegistered
  BY DEF Witnessed
<1>4. QED
  BY <1>1, <1>2, <1>3, InitTyped, PTL DEF Spec

----------------------------------------------------------------------------
(* One sender at a time.  The lease keeps the retry pass off a document    *)
(* its till is sending, the batch is worked off by one pass, and a till    *)
(* serves one request of a sale.                                           *)

(* No retry pass has selected the document of s or is sending it.          *)
Unheld(s) == \A c \in Retriers : run[c].sale # s /\ \A o \in todo[c] : o.sale # s

(* A selection is made of orphans or of due documents; it only shrinks     *)
(* after that.                                                             *)
LEMMA SelectionChanges ==
  ASSUME TypeOK, [Next]_vars, NEW c \in Retriers
  PROVE  \/ todo'[c] \subseteq todo[c]
         \/ /\ FindOrphans(c)
            /\ \A o \in todo'[c] : o.sale \in Orphans
            /\ \A o, p \in todo'[c] : o.sale = p.sale => o = p
         \/ /\ ClaimDueDocuments(c)
            /\ \A o \in todo'[c] : o.sale \in DueDocuments
            /\ \A o, p \in todo'[c] : o.sale = p.sale => o = p
<1>1. CASE FindOrphans(c)
  <2>1. PICK S \in SUBSET Orphans :
               todo' = [todo EXCEPT ![c] = {[sale |-> u, attempts |-> 0, shift |-> 0] : u \in S}]
    BY <1>1 DEF FindOrphans
  <2>2. todo'[c] = {[sale |-> u, attempts |-> 0, shift |-> 0] : u \in S}
    BY <2>1 DEF TypeOK
  <2>3. \A o \in todo'[c] : \E u \in S : o = [sale |-> u, attempts |-> 0, shift |-> 0] /\ o.sale = u
    BY <2>2
  <2>4. QED
    BY <1>1, <2>3
<1>2. CASE ClaimDueDocuments(c)
  <2>1. todo'[c] = {[sale |-> s, attempts |-> doc[s].attempts + 1, shift |-> doc[s].shift]
                      : s \in DueDocuments}
    BY <1>2 DEF ClaimDueDocuments, TypeOK
  <2>2. \A o \in todo'[c] : \E s \in DueDocuments :
          o = [sale |-> s, attempts |-> doc[s].attempts + 1, shift |-> doc[s].shift] /\ o.sale = s
    BY <2>1
  <2>3. QED
    BY <1>2, <2>2
<1>3. ASSUME NEW d \in Retriers, d # c, FindOrphans(d) \/ ClaimDueDocuments(d)
      PROVE  todo'[c] = todo[c]
  BY <1>3 DEF FindOrphans, ClaimDueDocuments, TypeOK
<1>4. ASSUME NEW d \in Retriers, Adopt(d) \/ RetryOne(d) PROVE todo'[c] \subseteq todo[c]
  BY <1>4 DEF Adopt, RetryOne, TypeOK
<1>5. ASSUME NEW d \in Retriers, RetrierStep(d), ~ FindOrphans(d), ~ ClaimDueDocuments(d)
      PROVE todo'[c] \subseteq todo[c]
  BY <1>4, <1>5 DEF RetrierStep, SweepVoided, SweepStale, AdoptEnds, RetryEnds
<1>6. ASSUME NEW w, \/ SendingStep(w)
                    \/ TillStep(w)
                    \/ \E u \in Sales : Submit(w, u) \/ CheckVoid(w, u)
                    \/ ShiftWork(w)
      PROVE  UNCHANGED todo
  BY <1>6 DEF TillStep, Submit, CheckVoid, Preflight, CompleteSale, OpenLedgerRow,
     StatementFails, Abort, AbortAbandons, CancelSale, ShiftWork, SweepShift, docVars,
     SendingStep, Send, NotSent, Accepted, NoAnswer, Duplicate, ResolveDuplicate, Rejected,
     TurnedAway, WrongShift, RepairClosed, RepairOpened, Record, RecordFails, RecordFailure
<1>7. ASSUME \/ \E u \in Sales : Elapse(u) \/ Age(u) \/ ArriveLate(u)
             \/ OtherWork \/ ProcessCrash \/ UNCHANGED vars
      PROVE  todo'[c] \subseteq todo[c]
  BY <1>7 DEF Elapse, Age, ArriveLate, OtherWork, ProcessCrash, docVars, vars
<1>8. QED
  BY <1>1, <1>2, <1>3, <1>5, <1>6, <1>7 DEF Next

(* What a retry pass does to its frame.                                    *)
LEMMA RetrierMoves ==
  ASSUME TypeOK, [Next]_vars, NEW c \in Retriers
  PROVE  \/ run'[c] = run[c] /\ ~ SendingStep(c) /\ ~ RetryOne(c)
         \/ RetrierStep(c)
         \/ SendingStep(c)
         \/ run'[c].pc = "idle" /\ run'[c].sale = NoSale /\ todo'[c] = {} /\ UNCHANGED doc
<1>0. c \in Senders /\ c \notin Tills
  BY DocumentsAssumption DEF Senders
<1>1. ProcessCrash => run'[c].pc = "idle" /\ run'[c].sale = NoSale /\ todo'[c] = {} /\ UNCHANGED doc
  BY <1>0 DEF ProcessCrash, NoRun, Senders
<1>2. \/ run'[c] = run[c]
      \/ RetrierStep(c)
      \/ SendingStep(c)
      \/ ProcessCrash
  BY <1>0, OwnFrame, NoFrame DEF Next, Senders
<1>3. RetryOne(c) => RetrierStep(c)
  BY DEF RetrierStep
<1>4. QED
  BY <1>1, <1>2, <1>3

(* What no retry pass may pick up, none does.                              *)
LEMMA UnheldStep ==
  ASSUME TypeOK, [Next]_vars, NEW s \in Sales, Unheld(s), s \notin Orphans, s \notin DueDocuments
  PROVE  Unheld(s)'
<1>0. NoSale # s
  BY DocumentsAssumption
<1>1. ASSUME NEW c \in Retriers PROVE run'[c].sale # s
  <2>1. c \in Senders /\ run[c].sale # s /\ \A o \in todo[c] : o.sale # s
    BY DEF Unheld, Senders
  <2>2. QED
    BY <1>0, <2>1, RetrierMoves, RetrierFields, SendingFields
<1>2. ASSUME NEW c \in Retriers, NEW o \in todo'[c] PROVE o.sale # s
  BY <1>2, SelectionChanges DEF Unheld
<1>3. QED
  BY <1>1, <1>2 DEF Unheld

(* What one step may do to a sale's document and to what the sale says of  *)
(* it: nothing; a sale is made; a row is opened, adopted, recorded or      *)
(* abandoned; an orphan is shown as failed.                                *)
Untouched(s) == /\ doc'[s].status = doc[s].status
                /\ sale'[s].proj = sale[s].proj
                /\ (sale'[s].status = "none") <=> (sale[s].status = "none")

Made(s) == /\ UNCHANGED doc
           /\ \E t \in Tills : /\ CompleteSale(t) /\ run[t].sale = s
                               /\ sale[s].status = "none" /\ sale'[s] = Sold(run[t].on)

RowOpened(s) ==
  /\ UNCHANGED sale
  /\ doc'[s].status = IF doc[s].status = "none" THEN "pending" ELSE doc[s].status

Opened(s) == \E t \in Tills : OpenLedgerRow(t) /\ run[t].sale = s /\ RowOpened(s)

AdoptedOrParked(s) ==
  \E c \in Retriers : \E o \in todo[c] :
    /\ At(c, "adopt") /\ o.sale = s /\ o \notin todo'[c]
    /\ \/ RowOpened(s)
       \/ /\ doc'[s].status = doc[s].status
          /\ sale'[s].proj = "failed" /\ sale'[s].status = sale[s].status

Recorded(s) ==
  /\ \E w \in Senders : /\ run[w].sale = s
                        /\ Record(w) \/ RecordFailure(w)
                        /\ doc'[s].status = "done" => Record(w)
  /\ doc'[s].status \in {"done", "failed", "abandoned"}
  /\ sale'[s].proj = ProjectionFor(doc'[s].status) /\ sale'[s].status = sale[s].status

Abandoned(s) ==
  /\ Unfinished(doc[s]) /\ doc'[s].status = "abandoned"
  /\ sale'[s].proj = "failed" /\ sale'[s].status = sale[s].status

Move(s) == \/ Untouched(s) \/ Made(s) \/ Opened(s) \/ AdoptedOrParked(s) \/ Recorded(s)
           \/ Abandoned(s)

(* A sweep abandons a document or leaves it.                               *)
LEMMA SweepMoves ==
  ASSUME TypeOK, NEW S, AbandonAll(S), NEW s \in Sales
  PROVE  Move(s)
<1>1. doc[s] \in Document /\ sale[s] \in Sale
  BY DEF TypeOK
<1>2. CASE s \in S /\ Unfinished(doc[s])
  <2>1. doc'[s] = MarkAbandoned(doc[s]) /\ sale'[s] = [sale[s] EXCEPT !.proj = "failed"]
    BY <1>2 DEF AbandonAll
  <2>2. doc'[s].status = "abandoned"
    BY <1>1, <1>2, <2>1 DEF MarkAbandoned, Document, LedgerRow
  <2>3. sale'[s].proj = "failed" /\ sale'[s].status = sale[s].status
    BY <1>1, <2>1 DEF Sale
  <2>4. QED
    BY <1>2, <2>2, <2>3 DEF Move, Abandoned
<1>3. CASE ~ (s \in S /\ Unfinished(doc[s]))
  <2>1. doc'[s] = doc[s] /\ sale'[s] = sale[s]
    BY <1>3 DEF AbandonAll
  <2>2. QED
    BY <2>1 DEF Move, Untouched
<1>4. QED
  BY <1>2, <1>3

(* The end of a transmission is written into row and sale at once.         *)
LEMMA RecordMoves ==
  ASSUME TypeOK, Busy, NEW w \in Senders, Record(w) \/ RecordFailure(w), NEW s \in Sales
  PROVE  Move(s)
<1>0. doc[s] \in Document /\ sale[s] \in Sale /\ doc \in [Sales -> Document] /\ sale \in [Sales -> Sale]
  BY DEF TypeOK
<1>1. run[w].sale \in Sales
  BY DEF Record, RecordFailure, At, Busy
<1>2. PICK r : /\ WriteDocument(run[w].sale, r)
               /\ \/ Record(w) /\ r = MarkDone(doc[run[w].sale])
                  \/ RecordFailure(w)
                     /\ r = MarkFailed(doc[run[w].sale], run[w].attempts, run[w].park)
  BY DEF Record, RecordFailure
<1>3. CASE run[w].sale # s
  <2>1. doc'[s] = doc[s] /\ sale'[s] = sale[s]
    BY <1>0, <1>2, <1>3 DEF WriteDocument
  <2>2. QED
    BY <2>1 DEF Move, Untouched
<1>4. CASE run[w].sale = s
  <2>1. doc'[s] = r /\ sale'[s] = [sale[s] EXCEPT !.proj = ProjectionFor(r.status)]
    BY <1>0, <1>2, <1>4 DEF WriteDocument
  <2>2. sale'[s].proj = ProjectionFor(r.status) /\ sale'[s].status = sale[s].status
    BY <1>0, <2>1 DEF Sale
  <2>3. \/ Record(w) /\ r.status = "done"
        \/ RecordFailure(w) /\ r.status \in {"failed", "abandoned"}
    BY <1>0, <1>2, <1>4 DEF MarkDone, MarkFailed, Document, LedgerRow
  <2>4. QED
    BY <1>4, <2>1, <2>2, <2>3 DEF Move, Recorded
<1>5. QED
  BY <1>3, <1>4

(* A row that is opened or opened again.                                   *)
LEMMA OpenedStatus ==
  ASSUME NEW s \in Sales, NEW r \in Document, r = doc[s], UNCHANGED sale,
         \E k, p : \/ doc'[s] = OpenDocument(r, k, p, FALSE)
                   \/ doc'[s] = OpenDocument(r, k, p, TRUE)
  PROVE  RowOpened(s)
<1>1. CASE r.status = "none"
  BY <1>1 DEF RowOpened, OpenDocument
<1>2. CASE r.status # "none"
  BY <1>2 DEF RowOpened, OpenDocument, Document, LedgerRow
<1>3. QED
  BY <1>1, <1>2

(* Adoption opens a row, or shows the orphan as failed.                    *)
LEMMA AdoptMoves ==
  ASSUME TypeOK, NEW c \in Retriers, Adopt(c), NEW s \in Sales
  PROVE  Move(s)
<1>0. doc[s] \in Document /\ sale[s] \in Sale /\ doc \in [Sales -> Document] /\ sale \in [Sales -> Sale]
  BY DEF TypeOK
<1>1. PICK o \in todo[c] :
        /\ \/ /\ doc' = [doc EXCEPT ![o.sale] = OpenDocument(@, LiveRow, LiveProv, FALSE)]
              /\ UNCHANGED sale
           \/ /\ sale' = [sale EXCEPT ![o.sale].proj = "failed"]
              /\ UNCHANGED doc
        /\ todo' = [todo EXCEPT ![c] = @ \ {o}]
  BY DEF Adopt
<1>5. o \notin todo'[c]
  BY <1>1 DEF TypeOK
<1>2. CASE o.sale # s
  <2>1. doc'[s] = doc[s] /\ sale'[s] = sale[s]
    BY <1>0, <1>1, <1>2
  <2>2. QED
    BY <2>1 DEF Move, Untouched
<1>3. CASE o.sale = s
  <2>1. CASE doc' = [doc EXCEPT ![s] = OpenDocument(@, LiveRow, LiveProv, FALSE)] /\ UNCHANGED sale
    <3>1. doc'[s] = OpenDocument(doc[s], LiveRow, LiveProv, FALSE)
      BY <1>0, <2>1
    <3>2. RowOpened(s)
      BY <1>0, <2>1, <3>1, OpenedStatus
    <3>3. QED
      BY <1>3, <1>5, <3>2 DEF Adopt, Move, AdoptedOrParked
  <2>2. CASE sale' = [sale EXCEPT ![s].proj = "failed"] /\ UNCHANGED doc
    <3>1. sale'[s].proj = "failed" /\ sale'[s].status = sale[s].status
      BY <1>0, <2>2 DEF Sale
    <3>2. QED
      BY <1>3, <1>5, <2>2, <3>1 DEF Adopt, Move, AdoptedOrParked
  <2>3. QED
    BY <1>1, <1>3, <2>1, <2>2
<1>4. QED
  BY <1>2, <1>3

(* A till makes a sale, opens its row, voids it or abandons it.            *)
LEMMA TillMakesMoves ==
  ASSUME TypeOK, Busy, NEW t \in Tills, NEW s \in Sales,
         TillStep(t) \/ \E u \in Sales : Submit(t, u) \/ CheckVoid(t, u)
  PROVE  Move(s)
<1>0. doc[s] \in Document /\ sale[s] \in Sale /\ doc \in [Sales -> Document] /\ sale \in [Sales -> Sale]
  BY DEF TypeOK
<1>1. CASE CompleteSale(t)
  <2>1. run[t].sale \in Sales /\ UNCHANGED doc
    BY <1>1 DEF CompleteSale, At, Busy, Senders
  <2>2. \/ sale' = [sale EXCEPT ![run[t].sale] = Sold(run[t].on)] /\ sale[run[t].sale].status = "none"
        \/ UNCHANGED sale
    BY <1>1 DEF CompleteSale
  <2>3. CASE sale'[s] = sale[s]
    BY <2>1, <2>3 DEF Move, Untouched
  <2>4. CASE sale'[s] # sale[s]
    <3>1. run[t].sale = s /\ sale[s].status = "none" /\ sale'[s] = Sold(run[t].on)
      BY <1>0, <2>1, <2>2, <2>4
    <3>2. QED
      BY <1>1, <2>1, <3>1 DEF Move, Made
  <2>5. QED
    BY <2>3, <2>4
<1>2. CASE OpenLedgerRow(t)
  <2>1. \/ doc' = doc
        \/ \E p : doc' = [doc EXCEPT ![run[t].sale] =
                              OpenDocument(doc[run[t].sale], run[t].shift, p, TRUE)]
    BY <1>2 DEF OpenLedgerRow
  <2>2. UNCHANGED sale
    BY <1>2 DEF OpenLedgerRow
  <2>3. CASE doc'[s] = doc[s]
    BY <2>2, <2>3 DEF Move, Untouched
  <2>4. CASE doc'[s] # doc[s]
    <3>1. PICK p : doc'[s] = OpenDocument(doc[s], run[t].shift, p, TRUE)
      BY <1>0, <2>1, <2>4
    <3>2. run[t].sale = s
      BY <1>0, <2>1, <2>4
    <3>3. RowOpened(s)
      BY <1>0, <2>2, <3>1, OpenedStatus
    <3>4. QED
      BY <1>2, <3>2, <3>3 DEF Move, Opened
  <2>5. QED
    BY <2>3, <2>4
<1>3. CASE AbortAbandons(t)
  BY <1>3, SweepMoves DEF AbortAbandons
<1>4. CASE Abort(t) \/ CancelSale(t)
  <2>1. UNCHANGED doc /\ \/ UNCHANGED sale
                         \/ /\ sale[run[t].sale].status = "completed"
                            /\ sale' = [sale EXCEPT ![run[t].sale].status = "voided"]
    BY <1>4 DEF Abort, CancelSale, VoidSale
  <2>2. CASE run[t].sale = s /\ sale' # sale
    <3>1. sale[s].status = "completed" /\ sale'[s].status = "voided" /\ sale'[s].proj = sale[s].proj
      BY <1>0, <2>1, <2>2 DEF Sale
    <3>2. QED
      BY <2>1, <3>1 DEF Move, Untouched
  <2>3. CASE ~ (run[t].sale = s /\ sale' # sale)
    <3>1. sale'[s] = sale[s]
      BY <1>0, <2>1, <2>3
    <3>2. QED
      BY <2>1, <3>1 DEF Move, Untouched
  <2>4. QED
    BY <2>2, <2>3
<1>5. CASE UNCHANGED <<sale, doc>>
  BY <1>5 DEF Move, Untouched
<1>6. QED
  BY <1>1, <1>2, <1>3, <1>4, <1>5 DEF TillStep, Submit, CheckVoid, Preflight, StatementFails

(* Every step makes one of these moves with every sale.                    *)
LEMMA Moves ==
  ASSUME TypeOK, Busy, [Next]_vars, NEW s \in Sales
  PROVE  Move(s)
<1>0. doc[s] \in Document /\ doc \in [Sales -> Document]
  BY DEF TypeOK
<1>1. ASSUME UNCHANGED sale, doc'[s].status = doc[s].status PROVE Move(s)
  BY <1>1 DEF Move, Untouched
<1>2. ASSUME NEW w \in Senders, SendingStep(w) PROVE Move(s)
  <2>1. CASE Record(w) \/ RecordFailure(w)
    BY <2>1, RecordMoves
  <2>2. CASE RepairOpened(w)
    <3>1. \/ doc' = doc
          \/ doc' = [doc EXCEPT ![run[w].sale] = RestampShift(@, LiveRow, LiveProv)]
      BY <2>2 DEF RepairOpened
    <3>2. CASE doc'[s] = doc[s]
      BY <1>1, <2>2, <3>2 DEF RepairOpened
    <3>3. CASE doc'[s] # doc[s]
      <4>1. doc'[s] = RestampShift(doc[s], LiveRow, LiveProv)
        BY <1>0, <3>1, <3>3
      <4>2. doc'[s].status = doc[s].status
        BY <1>0, <4>1 DEF RestampShift, Document, LedgerRow
      <4>3. QED
        BY <1>1, <2>2, <4>2 DEF RepairOpened
    <3>4. QED
      BY <3>2, <3>3
  <2>3. CASE UNCHANGED <<sale, doc>>
    BY <1>1, <2>3
  <2>4. QED
    BY <1>2, <2>1, <2>2, <2>3 DEF SendingStep, Send, NotSent, Accepted, NoAnswer,
       Duplicate, ResolveDuplicate, Rejected, TurnedAway, WrongShift, RepairClosed, RecordFails
<1>3. ASSUME NEW c \in Retriers, RetrierStep(c) PROVE Move(s)
  <2>1. CASE Adopt(c)
    BY <2>1, AdoptMoves
  <2>2. CASE ClaimDueDocuments(c)
    <3>1. doc'[s].status = doc[s].status
      BY <1>0, <2>2 DEF ClaimDueDocuments, ClaimDue, Document, LedgerRow
    <3>2. QED
      BY <1>1, <2>2, <3>1 DEF ClaimDueDocuments
  <2>3. ASSUME NEW S, AbandonAll(S) PROVE Move(s)
    BY <2>3, SweepMoves
  <2>4. CASE UNCHANGED <<sale, doc>>
    BY <1>1, <2>4
  <2>5. QED
    BY <1>3, <2>1, <2>2, <2>3, <2>4 DEF RetrierStep, SweepVoided, SweepStale, FindOrphans,
       AdoptEnds, RetryOne, RetryEnds
<1>4. ASSUME \/ \E w \in Workers : ShiftWork(w)
             \/ \E u \in Sales : Elapse(u) \/ Age(u) \/ ArriveLate(u)
             \/ OtherWork \/ ProcessCrash \/ UNCHANGED vars
      PROVE  Move(s)
  <2>1. ASSUME NEW u \in Sales, Elapse(u) \/ Age(u) PROVE Move(s)
    <3>1. doc'[s].status = doc[s].status
      BY <1>0, <2>1 DEF Elapse, Age, Document, LedgerRow
    <3>2. QED
      BY <1>1, <2>1, <3>1 DEF Elapse, Age
  <2>2. ASSUME NEW w \in Workers, SweepShift(w) PROVE Move(s)
    BY <2>2, SweepMoves DEF SweepShift
  <2>3. CASE UNCHANGED <<sale, doc>>
    BY <1>1, <2>3
  <2>4. QED
    BY <1>4, <2>1, <2>2, <2>3 DEF ShiftWork, ArriveLate, OtherWork, ProcessCrash, docVars, vars
<1>5. QED
  BY <1>2, <1>3, <1>4, TillMakesMoves DEF Next, Senders

(* Proved of a store where a till does not submit a sale it is being       *)
(* served with; one retry pass runs at a time (retryRunning,               *)
(* fiscal.service.ts:1435).                                                *)
Serial == ~ DoubleSubmit /\ \A c, d \in Retriers : c = d

(* A till at work on a sale, until the outcome of its document is known.   *)
Working == {"preflight", "commit", "open"} \cup Sending

TillAt(t) ==
  LET s == run[t].sale IN
  /\ run[t].pc \in {"preflight", "commit"} => sale[s].status = "none"
  /\ run[t].pc = "open" => /\ sale[s].status # "none"
                           /\ sale[s].proj = "pending"
                           /\ doc[s].status = "none"
  /\ run[t].pc \in Sending => /\ sale[s].status # "none"
                              /\ doc[s].status \notin {"none", "done"}
                              /\ doc[s].next # "due"
  /\ run[t].pc \in {"open"} \cup Sending => Unheld(s)

RetrierAt(c) ==
  /\ todo[c] # {} => run[c].pc \in {"adopt", "batch"} \cup Sending
  /\ run[c].pc \notin Sending => run[c].sale = NoSale
  /\ run[c].pc \in Sending => doc[run[c].sale].status \notin {"none", "done"}
  /\ run[c].pc = "adopt" => \A o \in todo[c] : /\ sale[o.sale].proj \in {"pending", "failed"}
                                               /\ doc[o.sale].status = "none"
  /\ run[c].pc # "adopt" => \A o \in todo[c] : /\ doc[o.sale].status \notin {"none", "done"}
                                               /\ o.sale # run[c].sale
  /\ \A o, p \in todo[c] : o.sale = p.sale => o = p

(* Nothing is known of a sale nobody has made.                             *)
Fresh == \A s \in Sales : sale[s].status = "none" => doc[s].status = "none" /\ Unheld(s)

OneTurn == \A t, u \in Tills :
             run[t].pc \in Working /\ run[u].pc \in Working /\ run[t].sale = run[u].sale => t = u

SerialInv == /\ TypeOK
             /\ Busy
             /\ Fresh
             /\ OneTurn
             /\ \A t \in Tills : TillAt(t)
             /\ \A c \in Retriers : RetrierAt(c)

(* The way of a till's frame, step by step.                                *)
LEMMA TillGoes ==
  ASSUME TypeOK, [Next]_vars, NEW t \in Tills
  PROVE  \/ run'[t].pc \notin Working
         \/ \E s \in Sales : /\ Submit(t, s) /\ run'[t].sale = s
                             /\ run'[t].pc \in {"preflight", "commit"}
         \/ /\ run'[t].sale = run[t].sale
            /\ \/ run'[t].pc = run[t].pc /\ ~ CompleteSale(t) /\ ~ OpenLedgerRow(t)
               \/ run[t].pc = "preflight" /\ run'[t].pc = "commit"
               \/ CompleteSale(t) /\ run'[t].pc = "open" /\ run[t].on
               \/ OpenLedgerRow(t) /\ run'[t].pc = "send"
               \/ run[t].pc \in Sending /\ run'[t].pc \in Sending
<1>0. t \in Senders /\ t \notin Retriers
  BY DocumentsAssumption DEF Senders
<1>1. CASE run'[t].pc = "idle"
  BY <1>1 DEF Working, Sending
<1>2. ASSUME NEW s \in Sales, Submit(t, s)
      PROVE  run'[t].sale = s /\ run'[t].pc \in {"preflight", "commit"}
  BY <1>0, <1>2, RunTypes DEF Submit, TypeOK, Senders, Run
<1>3. ASSUME NEW s \in Sales, CheckVoid(t, s) PROVE run'[t].pc \notin Working
  BY <1>0, <1>3, RunTypes DEF CheckVoid, TypeOK, Senders, Run, Working, Sending
<1>4. CASE SendingStep(t)
  <2>1. \/ run'[t].pc \in {"idle", "batch", "void"}
        \/ run'[t].sale = run[t].sale /\ run'[t].pc \in Sending /\ run[t].pc \in Sending
    BY <1>0, <1>4, SendingFields
  <2>2. QED
    BY <2>1 DEF Working, Sending
<1>5. CASE Preflight(t)
  <2>1. ASSUME run' = [run EXCEPT ![t].pc = "commit", ![t].shift = LiveRow]
        PROVE  run'[t].pc = "commit" /\ run'[t].sale = run[t].sale
    BY <1>0, <2>1, RunTypes DEF TypeOK, Senders, Run
  <2>2. QED
    BY <1>0, <1>1, <1>5, <2>1, StopFields DEF Preflight, At
<1>6. CASE CompleteSale(t)
  BY <1>0, <1>1, <1>6, StepFields, StopFields DEF CompleteSale
<1>7. CASE OpenLedgerRow(t)
  <2>1. ASSUME NEW n, NEW k,
               run' = [run EXCEPT ![t].pc = "send", ![t].attempts = n, ![t].shift = k]
        PROVE  run'[t].pc = "send" /\ run'[t].sale = run[t].sale
    BY <1>0, <2>1, RunTypes DEF TypeOK, Senders, Run
  <2>2. PICK r : \/ Stop(t)
                 \/ run' = [run EXCEPT ![t].pc = "send", ![t].attempts = r.attempts,
                                       ![t].shift = r.shift]
    BY <1>7 DEF OpenLedgerRow
  <2>3. QED
    BY <1>0, <1>1, <1>7, <2>1, <2>2, StopFields
<1>8. CASE StatementFails(t) \/ AbortAbandons(t) \/ CancelSale(t)
  BY <1>0, <1>1, <1>8, StopFields DEF StatementFails, AbortAbandons, CancelSale, VoidSale
<1>9. CASE Abort(t)
  <2>1. run'[t].pc = "abandon"
    BY <1>0, <1>9, StepFields DEF Abort, VoidSale
  <2>2. QED
    BY <2>1 DEF Working, Sending
<1>10. CASE ProcessCrash
  BY <1>0, <1>1, <1>10 DEF ProcessCrash, NoRun, Senders
<1>11. CASE run'[t] = run[t] /\ ~ CompleteSale(t) /\ ~ OpenLedgerRow(t)
  BY <1>11
<1>12. QED
  BY <1>0, <1>2, <1>3, <1>4, <1>5, <1>6, <1>7, <1>8, <1>9, <1>10, <1>11, OwnFrame, NoFrame
     DEF Next, Senders, TillStep

(* What is known of a request's sale is known while the request works on   *)
(* it: no other till interferes, and no retry pass.                        *)
LEMMA TillAtStep ==
  ASSUME Serial, SerialInv, [Next]_vars, NEW t \in Tills
  PROVE  TillAt(t)'
<1>0. TypeOK /\ Busy /\ TillAt(t) /\ t \in Senders /\ t \notin Retriers
  BY DocumentsAssumption DEF SerialInv, Senders
<1>1. CASE run'[t].pc \notin Working
  BY <1>1 DEF TillAt, Working
<1>2. ASSUME NEW s \in Sales, Submit(t, s), run'[t].sale = s,
             run'[t].pc \in {"preflight", "commit"}
      PROVE  TillAt(t)'
  <2>1. sale'[s].status = "none"
    BY <1>2 DEF Submit
  <2>2. QED
    BY <1>2, <2>1 DEF TillAt, Sending
<1>3. ASSUME run[t].pc \in Working, run'[t].sale = run[t].sale,
             \/ run'[t].pc = run[t].pc /\ ~ CompleteSale(t) /\ ~ OpenLedgerRow(t)
             \/ run[t].pc = "preflight" /\ run'[t].pc = "commit"
             \/ CompleteSale(t) /\ run'[t].pc = "open" /\ run[t].on
             \/ OpenLedgerRow(t) /\ run'[t].pc = "send"
             \/ run[t].pc \in Sending /\ run'[t].pc \in Sending
      PROVE  TillAt(t)'
  <2>0. PICK s \in Sales : run[t].sale = s
    BY <1>0, <1>3 DEF Busy, Working, Sending
  <2>1. Move(s)
    BY <1>0, Moves
  <2>2. \A u \in Tills : run[u].sale = s /\ run[u].pc \in Working => u = t
    BY <1>3, <2>0 DEF SerialInv, OneTurn
  <2>3. \A u \in Tills : /\ CompleteSale(u) \/ OpenLedgerRow(u) => run[u].pc \in {"commit", "open"}
                         /\ run[u].pc \in {"commit", "open"} \cup Sending => run[u].pc \in Working
    BY DEF CompleteSale, OpenLedgerRow, At, Working
  <2>4. \A w \in Senders : Record(w) \/ RecordFailure(w) => run[w].pc \in {"record", "failing"}
    BY DEF Record, RecordFailure, At
  <2>5. CASE run'[t].pc \in {"preflight", "commit"}
    <3>1. sale[s].status = "none" /\ ~ CompleteSale(t)
      BY <1>0, <1>3, <2>0, <2>5 DEF TillAt, CompleteSale, At, Sending
    <3>2. sale'[s].status = "none"
      BY <2>1, <2>2, <2>3, <3>1 DEF Move, Untouched, Made, Opened, RowOpened, AdoptedOrParked,
         Recorded, Abandoned
    <3>3. QED
      BY <1>3, <2>0, <2>5, <3>2 DEF TillAt, Sending
  <2>6. CASE run'[t].pc \in {"open"} \cup Sending
    <3>1. Unheld(s) /\ s \notin DueDocuments /\ s \notin Orphans
      <4>1. run[t].pc = "commit" => sale[s].status = "none" /\ doc[s].status = "none" /\ Unheld(s)
        BY <1>0, <2>0 DEF TillAt, SerialInv, Fresh
      <4>2. run[t].pc \in {"open"} \cup Sending =>
              Unheld(s) /\ (doc[s].status = "none" \/ doc[s].next # "due")
        BY <1>0, <2>0 DEF TillAt
      <4>3. run[t].pc \in {"commit", "open"} \cup Sending
        BY <1>3, <2>3, <2>6 DEF Working, Sending
      <4>4. QED
        BY <2>0, <4>1, <4>2, <4>3 DEF DueDocuments, Claimable, Unfinished, Orphans
    <3>2. Unheld(s)'
      BY <1>0, <3>1, UnheldStep
    <3>3. ~ AdoptedOrParked(s) /\ \A c \in Retriers : run[c].sale # s
      BY <3>1 DEF Unheld, AdoptedOrParked
    <3>4. CASE CompleteSale(t) /\ run'[t].pc = "open" /\ run[t].on
      <4>1. sale[s].status = "none" /\ doc[s].status = "none"
        BY <1>0, <2>0, <3>4 DEF TillAt, CompleteSale, At, SerialInv, Fresh
      <4>2. UNCHANGED doc /\ (sale' = [sale EXCEPT ![s] = Sold(TRUE)] \/ Stop(t))
        BY <2>0, <3>4, <4>1 DEF CompleteSale
      <4>3. ~ Stop(t)
        BY <1>0, <3>4, StopFields
      <4>4. sale'[s] = Sold(TRUE)
        BY <1>0, <4>2, <4>3 DEF TypeOK
      <4>5. sale'[s].status # "none" /\ sale'[s].proj = "pending" /\ doc'[s].status = "none"
        BY <4>1, <4>2, <4>4 DEF Sold
      <4>6. QED
        BY <1>3, <2>0, <3>2, <3>4, <4>5 DEF TillAt, Sending
    <3>5. CASE OpenLedgerRow(t) /\ run'[t].pc = "send"
      <4>1. sale[s].status # "none" /\ doc[s].status = "none" /\ doc[s] \in Document
        BY <1>0, <2>0, <3>5 DEF TillAt, OpenLedgerRow, At, TypeOK
      <4>2. ~ Stop(t) /\ UNCHANGED sale
        BY <1>0, <3>5, StopFields DEF OpenLedgerRow
      <4>3. PICK k, p : doc' = [doc EXCEPT ![s] = OpenDocument(doc[s], k, p, TRUE)]
        BY <2>0, <3>5, <4>2 DEF OpenLedgerRow
      <4>4. doc'[s] = OpenDocument(doc[s], k, p, TRUE)
        BY <1>0, <4>3 DEF TypeOK
      <4>5. doc'[s].status = "pending" /\ doc'[s].next = "wait"
        BY <4>1, <4>4 DEF OpenDocument
      <4>6. QED
        BY <1>3, <2>0, <3>2, <3>5, <4>1, <4>2, <4>5 DEF TillAt, Sending
    <3>6. CASE run[t].pc = "open" /\ run'[t].pc = "open" /\ ~ OpenLedgerRow(t)
      <4>1. sale[s].status # "none" /\ sale[s].proj = "pending" /\ doc[s].status = "none"
        BY <1>0, <2>0, <3>6 DEF TillAt
      <4>2. Untouched(s)
        <5>1. ~ Made(s) /\ ~ Abandoned(s)
          BY <4>1 DEF Made, Abandoned, Unfinished
        <5>2. ~ Opened(s)
          BY <2>2, <2>3, <3>6 DEF Opened
        <5>3. ~ Recorded(s)
          BY <2>2, <2>4, <3>3, <3>6 DEF Recorded, Senders, Working, Sending
        <5>4. QED
          BY <2>1, <3>3, <5>1, <5>2, <5>3 DEF Move
      <4>3. QED
        BY <1>3, <2>0, <3>2, <3>6, <4>1, <4>2 DEF TillAt, Untouched, Sending
    <3>7. CASE run[t].pc \in Sending /\ run'[t].pc \in Sending
      <4>1. /\ sale[s].status # "none" /\ doc[s].status \notin {"none", "done"}
            /\ doc[s].next # "due"
        BY <1>0, <2>0, <3>7 DEF TillAt
      <4>2. ~ Record(t) /\ ~ RecordFailure(t)
        <5>1. ASSUME Record(t) \/ RecordFailure(t) PROVE FALSE
          <6>1. run'[t].pc \in {"void", "idle"}
            BY <1>0, <5>1, StepFields, StopFields DEF Record, RecordFailure
          <6>2. QED
            BY <3>7, <6>1 DEF Sending
        <5>2. QED
          BY <5>1
      <4>3. ~ Made(s) /\ ~ Opened(s) /\ ~ Recorded(s)
        <5>1. ~ Made(s)
          BY <4>1 DEF Made
        <5>2. ~ Opened(s)
          BY <2>2, <2>3, <3>7 DEF Opened, OpenLedgerRow, At, Sending
        <5>3. ASSUME NEW w \in Senders, run[w].sale = s, Record(w) \/ RecordFailure(w)
              PROVE  FALSE
          BY <2>2, <2>4, <3>3, <4>2, <5>3 DEF Senders, Working, Sending
        <5>4. QED
          BY <5>1, <5>2, <5>3 DEF Recorded
      <4>4. sale'[s].status # "none" /\ doc'[s].status \notin {"none", "done"}
        BY <2>1, <3>3, <4>1, <4>3 DEF Move, Untouched, Abandoned
      <4>5. ~ Elapse(s)
        BY <2>0, <3>7 DEF Elapse, Leased, Sending
      <4>6. doc'[s].next # "due"
        BY <1>0, <4>1, <4>5, RowChanges, RowEffects
      <4>7. QED
        BY <1>3, <2>0, <3>2, <3>7, <4>4, <4>6 DEF TillAt, Sending
    <3>8. QED
      BY <1>3, <2>6, <3>4, <3>5, <3>6, <3>7 DEF Working, Sending
  <2>7. QED
    BY <1>1, <2>5, <2>6 DEF Working
<1>4. QED
  <2>1. ASSUME run'[t].sale = run[t].sale, run'[t].pc = run[t].pc, run'[t].pc \in Working
        PROVE  run[t].pc \in Working
    BY <2>1
  <2>2. CompleteSale(t) \/ OpenLedgerRow(t) => run[t].pc \in Working
    BY DEF CompleteSale, OpenLedgerRow, At, Working
  <2>3. run[t].pc \in {"preflight"} \cup Sending => run[t].pc \in Working
    BY DEF Working
  <2>4. QED
    BY <1>0, <1>1, <1>2, <1>3, <2>1, <2>2, <2>3, TillGoes

(* A turn is taken by submitting, and only a sale no till is served with.  *)
LEMMA OneTurnStep ==
  ASSUME Serial, SerialInv, [Next]_vars
  PROVE  OneTurn'
<1>0. TypeOK
  BY DEF SerialInv
<1>1. ASSUME NEW t \in Tills, run'[t].pc \in Working
      PROVE  \/ run[t].pc \in Working /\ run'[t].sale = run[t].sale
             \/ \E s \in Sales : Submit(t, s) /\ run'[t].sale = s
  <2>1. CompleteSale(t) \/ OpenLedgerRow(t) => run[t].pc \in Working
    BY DEF CompleteSale, OpenLedgerRow, At, Working
  <2>2. run[t].pc \in {"preflight"} \cup Sending => run[t].pc \in Working
    BY DEF Working
  <2>3. QED
    BY <1>0, <1>1, <2>1, <2>2, TillGoes
<1>2. ASSUME NEW t \in Tills, NEW u \in Tills, NEW s \in Sales, t # u, Submit(t, s),
             run'[t].sale = s
      PROVE  run'[u].sale # s
  <2>1. run[u].sale # s
    BY <1>2 DEF Submit, Serial
  <2>2. run'[u] = run[u]
    BY <1>0, <1>2, OwnFrame DEF Senders
  <2>3. QED
    BY <2>1, <2>2
<1>3. ASSUME NEW t \in Tills, NEW u \in Tills, t # u, run'[t].sale = run'[u].sale,
             run'[t].pc \in Working, run'[u].pc \in Working
      PROVE  FALSE
  <2>1. CASE run[t].pc \in Working /\ run'[t].sale = run[t].sale
             /\ run[u].pc \in Working /\ run'[u].sale = run[u].sale
    BY <1>3, <2>1 DEF SerialInv, OneTurn
  <2>2. QED
    BY <1>1, <1>2, <1>3, <2>1
<1>4. QED
  BY <1>3 DEF OneTurn

(* A sale nobody has made stays unknown to ledger and retry pass.          *)
LEMMA FreshStep ==
  ASSUME Serial, SerialInv, [Next]_vars
  PROVE  Fresh'
<1>1. ASSUME NEW s \in Sales, sale'[s].status = "none" PROVE doc'[s].status = "none" /\ Unheld(s)'
  <2>0. TypeOK /\ Busy /\ Move(s)
    BY Moves DEF SerialInv
  <2>1. sale[s].status = "none"
    BY <1>1, <2>0 DEF Move, Untouched, Made, Sold, Opened, RowOpened, AdoptedOrParked, Recorded,
       Abandoned
  <2>2. doc[s].status = "none" /\ Unheld(s)
    BY <2>1 DEF SerialInv, Fresh
  <2>3. s \notin Orphans /\ s \notin DueDocuments
    BY <2>1, <2>2 DEF Orphans, DueDocuments, Claimable, Unfinished
  <2>4. Unheld(s)'
    BY <2>0, <2>2, <2>3, UnheldStep
  <2>5. \A t \in Tills : run[t].sale = s => run[t].pc \notin {"open"} \cup Sending
    BY <2>1 DEF SerialInv, TillAt
  <2>6. ~ Opened(s)
    BY <2>5 DEF Opened, OpenLedgerRow, At
  <2>7. ~ AdoptedOrParked(s)
    BY <2>2 DEF AdoptedOrParked, Unheld
  <2>8. ~ Recorded(s)
    BY <2>2, <2>5 DEF Recorded, Record, RecordFailure, At, Unheld, Senders, Sending
  <2>9. doc'[s].status = "none"
    BY <2>0, <2>2, <2>6, <2>7, <2>8 DEF Move, Untouched, Made, Abandoned, Unfinished
  <2>10. QED
    BY <2>4, <2>9
<1>2. QED
  BY <1>1 DEF Fresh

(* The way of a retry pass, step by step.                                  *)
LEMMA RetrierGoes ==
  ASSUME TypeOK, [Next]_vars, NEW c \in Retriers, RetrierAt(c)
  PROVE  \/ run'[c] = run[c] /\ todo'[c] \subseteq todo[c]
         \/ /\ todo'[c] = {}
            /\ run'[c].pc \in {"idle", "stale", "orphans", "claim"}
            /\ run'[c].sale = NoSale
         \/ /\ FindOrphans(c) /\ run'[c].pc = "adopt" /\ run'[c].sale = NoSale
            /\ \A o \in todo'[c] : o.sale \in Orphans
         \/ /\ ClaimDueDocuments(c) /\ run'[c].pc = "batch" /\ run'[c].sale = NoSale
            /\ \A o \in todo'[c] : o.sale \in DueDocuments
         \/ /\ UNCHANGED doc
            /\ \E claim \in todo[c] : /\ todo'[c] = todo[c] \ {claim}
                                      /\ run'[c].pc = "send" /\ run'[c].sale = claim.sale
                                      /\ At(c, "batch")
         \/ /\ todo'[c] = todo[c] /\ run[c].pc \in Sending
            /\ \/ run'[c].pc = "batch" /\ run'[c].sale = NoSale
               \/ run'[c].pc \in Sending /\ run'[c].sale = run[c].sale
<1>0. c \in Senders /\ c \notin Tills
  BY DocumentsAssumption DEF Senders
<1>1. CASE FindOrphans(c)
  <2>1. run[c].sale = NoSale
    BY <1>1 DEF FindOrphans, At, RetrierAt, Sending
  <2>2. run'[c].pc = "adopt" /\ run'[c].sale = NoSale
    BY <1>0, <1>1, <2>1, StepFields DEF FindOrphans
  <2>3. todo[c] = {}
    BY <1>1 DEF FindOrphans, At, RetrierAt, Sending
  <2>4. \A o \in todo'[c] : o.sale \in Orphans
    BY <1>1, <2>3, SelectionChanges DEF FindOrphans, ClaimDueDocuments, At
  <2>5. QED
    BY <1>1, <2>2, <2>4
<1>2. CASE ClaimDueDocuments(c)
  <2>1. run[c].sale = NoSale /\ todo[c] = {}
    BY <1>2 DEF ClaimDueDocuments, At, RetrierAt, Sending
  <2>2. run'[c].pc = "batch" /\ run'[c].sale = NoSale
    BY <1>0, <1>2, <2>1, StepFields DEF ClaimDueDocuments
  <2>3. \A o \in todo'[c] : o.sale \in DueDocuments
    BY <1>2, <2>1, SelectionChanges DEF FindOrphans, ClaimDueDocuments, At
  <2>4. QED
    BY <1>2, <2>2, <2>3
<1>3. CASE RetryOne(c)
  <2>1. PICK claim \in todo[c] :
               /\ todo' = [todo EXCEPT ![c] = @ \ {claim}]
               /\ \/ /\ run' = [run EXCEPT ![c].pc = "send", ![c].sale = claim.sale,
                                    ![c].attempts = claim.attempts, ![c].shift = claim.shift]
                     /\ UNCHANGED doc
                  \/ UNCHANGED run
    BY <1>3 DEF RetryOne
  <2>2. todo'[c] = todo[c] \ {claim}
    BY <2>1 DEF TypeOK
  <2>3. CASE UNCHANGED run
    BY <2>2, <2>3
  <2>4. CASE /\ run' = [run EXCEPT ![c].pc = "send", ![c].sale = claim.sale,
                                   ![c].attempts = claim.attempts, ![c].shift = claim.shift]
             /\ UNCHANGED doc
    <3>1. run'[c].pc = "send" /\ run'[c].sale = claim.sale
      BY <1>0, <2>4, RunTypes DEF TypeOK, Senders, Run
    <3>2. QED
      BY <1>3, <2>2, <2>4, <3>1 DEF RetryOne
  <2>5. QED
    BY <2>1, <2>3, <2>4
<1>4. CASE Adopt(c)
  BY <1>4 DEF Adopt, TypeOK
<1>5. CASE SweepVoided(c) \/ SweepStale(c)
  <2>1. run[c].sale = NoSale /\ todo[c] = {}
    BY <1>5 DEF SweepVoided, SweepStale, At, RetrierAt, Sending
  <2>2. run'[c].pc \in {"stale", "orphans"} /\ run'[c].sale = NoSale
    BY <1>0, <1>5, <2>1, StepFields DEF SweepVoided, SweepStale
  <2>3. QED
    BY <1>5, <2>1, <2>2 DEF SweepVoided, SweepStale
<1>6. CASE AdoptEnds(c) \/ RetryEnds(c)
  <2>1. run[c].sale = NoSale /\ todo[c] = {} /\ UNCHANGED todo
    BY <1>6 DEF AdoptEnds, RetryEnds, At, RetrierAt, Sending
  <2>2. run'[c].pc \in {"claim", "idle"} /\ run'[c].sale = NoSale
    BY <1>0, <1>6, <2>1, StepFields, StopFields DEF AdoptEnds, RetryEnds
  <2>3. QED
    BY <2>1, <2>2
<1>7. CASE SendingStep(c)
  <2>1. todo'[c] = todo[c]
    BY <1>7 DEF SendingStep, Send, NotSent, Accepted, NoAnswer, Duplicate, ResolveDuplicate,
       Rejected, TurnedAway, WrongShift, RepairClosed, RepairOpened, Record, RecordFails,
       RecordFailure
  <2>2. QED
    BY <1>0, <1>7, <2>1, SendingFields
<1>8. QED
  <2>1. CASE run'[c] = run[c] /\ ~ FindOrphans(c) /\ ~ ClaimDueDocuments(c)
    BY <2>1, SelectionChanges
  <2>2. QED
    BY <1>1, <1>2, <1>3, <1>4, <1>5, <1>6, <1>7, <2>1, RetrierMoves DEF RetrierStep

(* What a retry pass has in hand keeps its status, but for the pass' own   *)
(* record of it.                                                           *)
LEMMA HeldKept ==
  ASSUME Serial, SerialInv, [Next]_vars, NEW c \in Retriers, NEW s \in Sales,
         run[c].sale = s \/ \E o \in todo[c] : o.sale = s,
         doc[s].status \notin {"none", "done"},
         ~ (Record(c) /\ run[c].sale = s)
  PROVE  doc'[s].status \notin {"none", "done"}
<1>1. Move(s)
  BY Moves DEF SerialInv
<1>2. ~ Unheld(s)
  BY DEF Unheld
<1>3. \A w \in Senders : ~ (Record(w) /\ run[w].sale = s)
  <2>1. \A t \in Tills : ~ (Record(t) /\ run[t].sale = s)
    BY <1>2 DEF SerialInv, TillAt, Record, At, Sending
  <2>2. QED
    BY <2>1 DEF Serial, Senders
<1>4. QED
  BY <1>1, <1>3 DEF Move, Untouched, Made, Opened, RowOpened, AdoptedOrParked, Recorded,
     Abandoned

(* An orphan a retry pass has found stays one until the pass has dealt     *)
(* with it.                                                                *)
LEMMA OrphanKept ==
  ASSUME Serial, SerialInv, [Next]_vars, NEW c \in Retriers, run[c].pc = "adopt",
         NEW o \in todo[c], o \in todo'[c]
  PROVE  sale'[o.sale].proj \in {"pending", "failed"} /\ doc'[o.sale].status = "none"
<1>0. TypeOK /\ RetrierAt(c)
  BY DEF SerialInv
<1>1. PICK s \in Sales : o.sale = s
  BY <1>0 DEF TypeOK, Claim
<1>2. Move(s)
  BY Moves DEF SerialInv
<1>3. sale[s].proj \in {"pending", "failed"} /\ doc[s].status = "none" /\ ~ Unheld(s)
  BY <1>0, <1>1 DEF RetrierAt, Unheld
<1>4. ~ Made(s)
  BY <1>3 DEF Made, SerialInv, Fresh
<1>5. ~ Opened(s)
  BY <1>3 DEF Opened, OpenLedgerRow, At, SerialInv, TillAt
<1>6. ~ Recorded(s)
  <2>1. ASSUME NEW t \in Tills, run[t].sale = s, Record(t) \/ RecordFailure(t) PROVE FALSE
    BY <1>3, <2>1 DEF Record, RecordFailure, At, SerialInv, TillAt, Sending
  <2>2. ASSUME NEW d \in Retriers, Record(d) \/ RecordFailure(d) PROVE FALSE
    BY <2>2 DEF Record, RecordFailure, At, Serial
  <2>3. QED
    BY <2>1, <2>2 DEF Recorded, Senders
<1>7. AdoptedOrParked(s) => sale'[s].proj = "failed" /\ doc'[s].status = "none"
  <2>1. ASSUME NEW d \in Retriers, NEW p \in todo[d], p.sale = s, p \notin todo'[d] PROVE FALSE
    BY <1>0, <1>1, <2>1 DEF Serial, RetrierAt
  <2>2. QED
    BY <2>1 DEF AdoptedOrParked
<1>8. ~ Abandoned(s)
  BY <1>3 DEF Abandoned, Unfinished
<1>9. QED
  BY <1>1, <1>2, <1>3, <1>4, <1>5, <1>6, <1>7, <1>8 DEF Move, Untouched

(* What a retry pass knows of its selection and of the document it sends.  *)
LEMMA RetrierAtStep ==
  ASSUME Serial, SerialInv, [Next]_vars, NEW c \in Retriers
  PROVE  RetrierAt(c)'
<1>0. TypeOK /\ TypeOK' /\ RetrierAt(c) /\ c \in Senders /\ NoSale \notin Sales
  BY TypedStep, DocumentsAssumption DEF SerialInv, Senders
<1>1. \A o, p \in todo'[c] : o.sale = p.sale => o = p
  BY <1>0, SelectionChanges DEF RetrierAt
<1>2. \A o \in todo[c] \cup todo'[c] : o.sale \in Sales
  BY <1>0 DEF TypeOK, Claim
<1>3. ASSUME run'[c] = run[c], todo'[c] \subseteq todo[c]
      PROVE  RetrierAt(c)'
  <2>1. ~ (Record(c) /\ run[c].pc \in Sending)
    BY <1>0, <1>3, StopFields DEF Record, At, Sending
  <2>2. ASSUME NEW s \in Sales, run[c].sale = s \/ \E o \in todo[c] : o.sale = s,
               doc[s].status \notin {"none", "done"}
        PROVE  doc'[s].status \notin {"none", "done"}
    BY <2>1, <2>2, HeldKept DEF Record, At, Sending
  <2>3. run[c].pc \in Sending => run[c].sale \in Sales
    BY <1>0 DEF SerialInv, Busy, Sending
  <2>4. run'[c].pc = "adopt" => \A o \in todo'[c] : /\ sale'[o.sale].proj \in {"pending", "failed"}
                                                    /\ doc'[o.sale].status = "none"
    BY <1>3, OrphanKept
  <2>5. run'[c].pc # "adopt" => \A o \in todo'[c] : /\ doc'[o.sale].status \notin {"none", "done"}
                                                    /\ o.sale # run'[c].sale
    BY <1>0, <1>2, <1>3, <2>2 DEF RetrierAt
  <2>6. run'[c].pc \in Sending => doc'[run'[c].sale].status \notin {"none", "done"}
    BY <1>0, <1>3, <2>2, <2>3 DEF RetrierAt
  <2>7. QED
    BY <1>0, <1>1, <1>3, <2>4, <2>5, <2>6 DEF RetrierAt
<1>4. ASSUME todo'[c] = {}, run'[c].pc \in {"idle", "stale", "orphans", "claim"},
             run'[c].sale = NoSale
      PROVE  RetrierAt(c)'
  BY <1>4 DEF RetrierAt, Sending
<1>5. ASSUME FindOrphans(c), run'[c].pc = "adopt", run'[c].sale = NoSale,
             \A o \in todo'[c] : o.sale \in Orphans
      PROVE  RetrierAt(c)'
  <2>1. UNCHANGED <<sale, doc>>
    BY <1>5 DEF FindOrphans
  <2>2. QED
    BY <1>1, <1>5, <2>1 DEF RetrierAt, Sending, Orphans
<1>6. ASSUME ClaimDueDocuments(c), run'[c].pc = "batch", run'[c].sale = NoSale,
             \A o \in todo'[c] : o.sale \in DueDocuments
      PROVE  RetrierAt(c)'
  <2>1. ASSUME NEW s \in DueDocuments PROVE doc'[s].status \notin {"none", "done"} /\ s # NoSale
    <3>1. s \in Sales /\ Unfinished(doc[s]) /\ doc[s] \in Document
      BY <1>0, <2>1 DEF DueDocuments, Claimable, TypeOK
    <3>2. doc'[s] = ClaimDue(doc[s])
      BY <1>6, <2>1, <3>1 DEF ClaimDueDocuments
    <3>3. doc'[s].status = doc[s].status
      BY <3>1, <3>2 DEF ClaimDue, Document, LedgerRow
    <3>4. QED
      BY <1>0, <3>1, <3>3 DEF Unfinished
  <2>2. QED
    BY <1>1, <1>6, <2>1 DEF RetrierAt, Sending
<1>7. ASSUME UNCHANGED doc, NEW claim \in todo[c], todo'[c] = todo[c] \ {claim},
             run'[c].pc = "send", run'[c].sale = claim.sale, At(c, "batch")
      PROVE  RetrierAt(c)'
  <2>1. \A o \in todo[c] : doc'[o.sale].status \notin {"none", "done"}
    BY <1>0, <1>7 DEF RetrierAt, At
  <2>2. \A o \in todo'[c] : o.sale # claim.sale
    BY <1>0, <1>7 DEF RetrierAt
  <2>3. QED
    BY <1>1, <1>7, <2>1, <2>2 DEF RetrierAt, Sending
<1>8. ASSUME todo'[c] = todo[c], run[c].pc \in Sending,
             \/ run'[c].pc = "batch" /\ run'[c].sale = NoSale
             \/ run'[c].pc \in Sending /\ run'[c].sale = run[c].sale
      PROVE  RetrierAt(c)'
  <2>1. run[c].sale \in Sales
    BY <1>0, <1>8 DEF SerialInv, Busy, Sending
  <2>2. ASSUME NEW o \in todo[c]
        PROVE  doc'[o.sale].status \notin {"none", "done"} /\ o.sale # run'[c].sale
    <3>1. doc[o.sale].status \notin {"none", "done"} /\ o.sale # run[c].sale /\ o.sale \in Sales
      BY <1>0, <1>2, <1>8 DEF RetrierAt, Sending
    <3>2. QED
      BY <1>0, <1>8, <3>1, HeldKept
  <2>3. ASSUME run'[c].pc \in Sending, run'[c].sale = run[c].sale
        PROVE  doc'[run[c].sale].status \notin {"none", "done"}
    <3>1. ~ Record(c)
      BY <1>0, <2>3, StopFields DEF Record, Sending
    <3>2. doc[run[c].sale].status \notin {"none", "done"}
      BY <1>0, <1>8 DEF RetrierAt
    <3>3. QED
      BY <2>1, <3>1, <3>2, HeldKept
  <2>4. run'[c].pc # "adopt" /\ run'[c].pc \in {"adopt", "batch"} \cup Sending
        /\ (run'[c].pc \notin Sending => run'[c].sale = NoSale)
    BY <1>8 DEF Sending
  <2>5. run'[c].pc \in Sending => doc'[run'[c].sale].status \notin {"none", "done"}
    BY <1>8, <2>3 DEF Sending
  <2>6. QED
    BY <1>1, <1>8, <2>2, <2>4, <2>5 DEF RetrierAt
<1>9. QED
  BY <1>0, <1>3, <1>4, <1>5, <1>6, <1>7, <1>8, RetrierGoes

LEMMA SerialStep ==
  ASSUME Serial, SerialInv, [Next]_vars
  PROVE  SerialInv'
<1>1. TypeOK' /\ Busy'
  BY TypedStep, BusyStep DEF SerialInv
<1>2. QED
  BY <1>1, FreshStep, OneTurnStep, TillAtStep, RetrierAtStep DEF SerialInv

LEMMA SerialInit == Init => SerialInv
<1> SUFFICES ASSUME Init PROVE SerialInv
  OBVIOUS
<1>1. TypeOK /\ Busy
  BY InitTyped
<1>2. /\ \A w \in Senders : run[w].pc = "idle" /\ run[w].sale = NoSale
      /\ \A c \in Retriers : todo[c] = {} /\ c \in Senders
      /\ \A t \in Tills : t \in Senders
      /\ \A s \in Sales : doc[s].status = "none" /\ s # NoSale
  BY DocumentsAssumption DEF Init, NoRun, NoDocument, Senders
<1>3. \A t \in Tills : TillAt(t)
  BY <1>2 DEF TillAt, Sending
<1>4. \A c \in Retriers : RetrierAt(c)
  BY <1>2 DEF RetrierAt, Sending
<1>5. Fresh /\ OneTurn
  BY <1>2 DEF Fresh, OneTurn, Unheld, Working, Sending
<1>6. QED
  BY <1>1, <1>3, <1>4, <1>5 DEF SerialInv

(* Tills, retry pass, clock and crashes never put two transmissions of one *)
(* document on their way at once.                                          *)
THEOREM OneSenderHolds ==
  ASSUME Serial
  PROVE  Spec => []OneSender
<1>1. SerialInv => OneSender
  <2> SUFFICES ASSUME SerialInv, NEW s \in Sales, NEW v \in Senders, NEW w \in Senders,
                      InFlight(v, s), InFlight(w, s)
               PROVE  v = w
    BY DEF OneSender, Senders
  <2>1. /\ run[v].pc \in Sending /\ run[v].sale = s
        /\ run[w].pc \in Sending /\ run[w].sale = s
    BY DEF InFlight, Sending
  <2>2. CASE v \in Tills /\ w \in Tills
    BY <2>1, <2>2 DEF SerialInv, OneTurn, Working
  <2>3. CASE v \in Tills /\ w \in Retriers
    BY <2>1, <2>3 DEF SerialInv, TillAt, Unheld
  <2>4. CASE v \in Retriers /\ w \in Tills
    BY <2>1, <2>4 DEF SerialInv, TillAt, Unheld
  <2>5. CASE v \in Retriers /\ w \in Retriers
    BY <2>5 DEF Serial
  <2>6. QED
    BY <2>2, <2>3, <2>4, <2>5 DEF Senders
<1>2. SerialInv /\ [Next]_vars => SerialInv'
  BY SerialStep
<1>3. QED
  BY <1>1, <1>2, SerialInit, PTL DEF Spec

(* Nobody is at work on a document that is done, so nobody can write a     *)
(* late failure over it.                                                   *)
LEMMA RecordedUnfinished ==
  ASSUME SerialInv, NEW s \in Sales, Recorded(s)
  PROVE  doc[s].status \notin {"none", "done"}
<1>1. PICK w \in Senders : run[w].sale = s /\ run[w].pc \in Sending
  BY DEF Recorded, Record, RecordFailure, At, Sending
<1>2. CASE w \in Tills
  BY <1>1, <1>2 DEF SerialInv, TillAt
<1>3. CASE w \in Retriers
  BY <1>1, <1>3 DEF SerialInv, RetrierAt
<1>4. QED
  BY <1>2, <1>3 DEF Senders

(* done is the end of a document, whatever fails, is retried or swept      *)
(* after it.                                                               *)
THEOREM DoneStaysDoneHolds ==
  ASSUME Serial
  PROVE  Spec => DoneStaysDone
<1>1. ASSUME SerialInv, [Next]_vars, NEW s \in Sales, doc[s].status = "done"
      PROVE  doc'[s].status = "done"
  <2>1. Move(s) /\ ~ Recorded(s)
    BY <1>1, Moves, RecordedUnfinished DEF SerialInv
  <2>2. QED
    BY <1>1, <2>1 DEF Move, Untouched, Made, Opened, RowOpened, AdoptedOrParked, Abandoned,
       Unfinished
<1>2. SerialInv /\ [Next]_vars => [\A s \in Sales : doc[s].status = "done"
                                                      => doc'[s].status = "done"]_vars
  BY <1>1
<1>3. SerialInv /\ [Next]_vars => SerialInv'
  BY SerialStep
<1>4. QED
  BY <1>2, <1>3, SerialInit, PTL DEF Spec, DoneStaysDone

(* An orphan that was shown as failed gets a row after all: the shift of   *)
(* its era is the live one again.                                          *)
LateAdoption ==
  \E s \in Sales : doc[s].status = "none" /\ doc'[s].status # "none" /\ sale[s].proj = "failed"

(* Row and sale are written together and tell the same, until an orphan    *)
(* already shown as failed is adopted: adoptOrphanedSales opens a pending  *)
(* row and leaves the sale's fiscal_status as it is.                       *)
THEOREM ProjectionAgreesHolds ==
  ASSUME Serial
  PROVE  Spec /\ [][~ LateAdoption]_vars => []ProjectionAgrees
<1>1. ASSUME SerialInv, ProjectionAgrees, [Next]_vars, [~ LateAdoption]_vars
      PROVE  ProjectionAgrees'
  <2> SUFFICES ASSUME NEW s \in Sales, doc'[s].status # "none"
               PROVE  sale'[s].proj = ProjectionFor(doc'[s].status)
    BY DEF ProjectionAgrees
  <2>0. Move(s) /\ (doc[s].status # "none" => sale[s].proj = ProjectionFor(doc[s].status))
    BY <1>1, Moves DEF SerialInv, ProjectionAgrees
  <2>1. CASE Untouched(s)
    BY <2>0, <2>1 DEF Untouched
  <2>2. CASE Made(s)
    BY <1>1, <2>0, <2>2 DEF Made, SerialInv, Fresh
  <2>3. CASE Opened(s)
    <3>1. doc[s].status = "none" /\ sale[s].proj = "pending"
      BY <1>1, <2>3 DEF Opened, OpenLedgerRow, At, SerialInv, TillAt
    <3>2. QED
      BY <2>3, <3>1 DEF Opened, RowOpened, ProjectionFor
  <2>4. CASE AdoptedOrParked(s)
    <3>1. doc[s].status = "none" /\ sale[s].proj \in {"pending", "failed"}
      BY <1>1, <2>4 DEF AdoptedOrParked, At, SerialInv, RetrierAt
    <3>2. RowOpened(s)
      BY <2>4, <3>1 DEF AdoptedOrParked
    <3>3. ~ UNCHANGED vars
      <4>1. doc' # doc
        BY <3>1
      <4>2. QED
        BY <4>1 DEF vars, docVars
    <3>4. sale[s].proj = "pending"
      BY <1>1, <3>1, <3>3 DEF LateAdoption
    <3>5. QED
      BY <3>1, <3>2, <3>4 DEF RowOpened, ProjectionFor
  <2>5. CASE Recorded(s)
    BY <2>5 DEF Recorded
  <2>6. CASE Abandoned(s)
    BY <2>6 DEF Abandoned, ProjectionFor
  <2>7. QED
    BY <2>0, <2>1, <2>2, <2>3, <2>4, <2>5, <2>6 DEF Move
<1>2. Init => ProjectionAgrees
  BY DEF Init, ProjectionAgrees, NoDocument
<1>3. SerialInv /\ [Next]_vars => SerialInv'
  BY SerialStep
<1>4. QED
  BY <1>1, <1>2, <1>3, SerialInit, PTL DEF Spec
=============================================================================
