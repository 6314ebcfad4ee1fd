----------------------------- MODULE TableBillsProofs -----------------------------
(* Theorems about TableBills, for every set of tables, plates, guests, taps and *)
(* screens and every plan a screen may send.                                    *)
EXTENDS TableBills, TLAPS, SequenceTheorems, FiniteSetTheorems, WellFoundedInduction

\* A call never has more receipts left than its bound.
FrameInv ==
    \A p \in Payers :
        /\ pay[p].step \in {"gate", "ring"} => pay[p].part + Len(pay[p].plan) <= MaxParts + 1
        /\ pay[p].step \in {"file", "undo"} => pay[p].part + Len(pay[p].plan) <= MaxParts

\* A row is fired only on a bill and paid only when fired; its round was made for it.
LineInv ==
    \A d \in Dishes :
        /\ line[d].bill = 0 => line[d].round = 0
        /\ line[d].round = 0 => line[d].sale = NoSale
        /\ line[d].round # 0 => round[line[d].round].st # "none"

\* An order's uuid fires only after it was taken, and is about to only once accepted.
OrderInv ==
    \A g \in Guests :
        /\ Fired(g) => order[g].st \in {"accepted", "sent"}
        /\ firing[g] # 0 => order[g].st = "accepted"

IInv == /\ TypeOK /\ FrameInv /\ LineInv /\ OrderInv
        /\ PaidOnce /\ ChargedIsFired /\ AnsweredOnce /\ CancelledHoldsNothing
----------------------------------------------------------------------------------
(* Types                                                                           *)

(* The bill a table gets, and what the rounds' transaction writes, have their types. *)
LEMMA SeatedType ==
  ASSUME TypeOK, NEW t \in Tables \union {0}, NEW b \in Bills, Seated(t, b)
  PROVE  bill' \in [Bills -> Bill]
BY DEF TypeOK, Seated, Bill

LEMMA RowType == NoLine \in Line /\ \A b \in Bills : [NoLine EXCEPT !.bill = b] \in Line
BY TableAssumption DEF NoLine, Line, Bills

LEMMA FireType ==
  ASSUME TypeOK, NEW b \in Bills, NEW t \in Taps \union Guests, NEW items \in SUBSET Dishes,
         NEW rows \in [Dishes -> Line], FireRoundTx(b, t, items, rows)
  PROVE  /\ round' \in [Rounds -> Round]
         /\ line' \in [Dishes -> Line]
<1>1. CASE line' = rows /\ UNCHANGED round
  BY <1>1 DEF TypeOK
<1>2. CASE Fires(b, t, items, rows)
  <2>1. PICK r \in Rounds :
          /\ round' = [round EXCEPT ![r] = [st |-> "live", bill |-> b, served |-> FALSE, tap |-> t]]
          /\ line' = [d \in Dishes |-> IF d \in items THEN [rows[d] EXCEPT !.round = r] ELSE rows[d]]
    BY <1>2 DEF Fires, NextRound
  <2>2. [st |-> "live", bill |-> b, served |-> FALSE, tap |-> t] \in Round
    BY DEF Round, Bills
  <2>3. \A d \in Dishes : [rows[d] EXCEPT !.round = r] \in Line
    BY DEF Line, Rounds
  <2>4. QED
    BY <2>1, <2>2, <2>3 DEF TypeOK
<1>3. QED
  BY <1>1, <1>2 DEF FireRoundTx

(* A frame stays one, and within its bound, whatever step it takes.                *)
LEMMA IdleType == Idle \in Frame
BY TableAssumption, EmptySeq DEF Idle, Frame, Parts

FrameOK(f) ==
    /\ f \in Frame
    /\ f.step \in {"gate", "ring"} => f.plan # <<>> /\ f.part + Len(f.plan) <= MaxParts + 1
    /\ f.step \in {"file", "undo"} => f.part + Len(f.plan) <= MaxParts

LEMMA FramesOK == TypeOK /\ FrameInv => \A p \in Payers : FrameOK(pay[p])
BY DEF TypeOK, FrameInv, FrameOK

LEMMA EndsOK ==
  ASSUME TypeOK, FrameInv, NEW p \in Payers, Ends(p)
  PROVE  \A q \in Payers : FrameOK(pay'[q])
<1>1. FrameOK(Idle)
  BY IdleType DEF FrameOK, Idle
<1>2. QED
  BY <1>1, FramesOK DEF Ends, TypeOK

LEMMA OnwardOK ==
  ASSUME TypeOK, FrameInv, NEW p \in Payers, NEW plan \in Seq(SUBSET Dishes),
         pay[p].part + Len(plan) <= MaxParts, Onward(p, plan)
  PROVE  \A q \in Payers : FrameOK(pay'[q])
<1>. DEFINE g == [Idle EXCEPT !.step = "settle", !.bill = pay[p].bill]
<1>1. pay[p] \in Frame /\ Len(plan) \in Nat /\ MaxParts \in Nat
  BY LenProperties, TableAssumption DEF TypeOK
<1>2. CASE plan # <<>>
  <2>1. Len(plan) >= 1 /\ pay[p].part \in Nat
    BY <1>1, <1>2, EmptySeq DEF Frame, Parts
  <2>2. pay[p].part + 1 \in Parts
    BY <2>1, <1>1 DEF Frame, Parts
  <2>3. /\ pay'[p] = [pay[p] EXCEPT !.step = "gate", !.part = pay[p].part + 1, !.plan = plan]
        /\ \A q \in Payers : q # p => pay'[q] = pay[q]
    BY <1>2 DEF Onward, TypeOK
  <2>4. /\ pay'[p] \in Frame /\ pay'[p].step = "gate"
        /\ pay'[p].part = pay[p].part + 1 /\ pay'[p].plan = plan
    BY <2>2, <2>3, <1>1 DEF Frame
  <2>5. pay'[p].part + Len(pay'[p].plan) <= MaxParts + 1
    BY <2>4, <2>1, <1>1
  <2>6. FrameOK(pay'[p])
    BY <2>4, <2>5, <1>2 DEF FrameOK
  <2>7. QED
    BY <2>6, <2>3, FramesOK
<1>3. CASE plan = <<>>
  <2>1. FrameOK(g)
    BY <1>1, IdleType DEF FrameOK, Frame, Idle
  <2>2. QED
    BY <2>1, <1>3, FramesOK DEF Onward, TypeOK
<1>4. QED
  BY <1>2, <1>3

LEMMA ToOK ==
  ASSUME TypeOK, FrameInv, NEW p \in Payers, NEW step, To(p, step),
         \/ pay[p].step = "gate" /\ step = "ring"
         \/ pay[p].step = "file" /\ step = "undo"
         \/ step = "close"
  PROVE  \A q \in Payers : FrameOK(pay'[q])
<1>1. FrameOK(pay[p])
  BY FramesOK
<1>2. FrameOK([pay[p] EXCEPT !.step = step])
  BY <1>1 DEF FrameOK, Frame
<1>3. QED
  BY <1>2, FramesOK DEF To, TypeOK

LEMMA RungOK ==
  ASSUME TypeOK, FrameInv, NEW p \in Payers, NEW doc, pay[p].step = "ring", Rung(p, doc)
  PROVE  \A q \in Payers : FrameOK(pay'[q])
<1>. DEFINE rest == Tail(pay[p].plan)
<1>1. /\ pay[p] \in Frame /\ pay[p].plan # <<>> /\ pay[p].plan \in Seq(SUBSET Dishes)
      /\ pay[p].part + Len(pay[p].plan) <= MaxParts + 1
      /\ pay[p].part \in Nat /\ MaxParts \in Nat
  BY TableAssumption DEF TypeOK, FrameInv, Frame, Parts
<1>2. rest \in Seq(SUBSET Dishes) /\ Len(rest) = Len(pay[p].plan) - 1 /\ Len(pay[p].plan) \in Nat
  BY <1>1, HeadTailProperties, LenProperties
<1>3. pay[p].part + Len(rest) <= MaxParts
  BY <1>1, <1>2
<1>4. CASE Fiscalises /\ doc # "done"
  <2>1. /\ pay'[p] = [pay[p] EXCEPT !.step = "file", !.plan = rest]
        /\ \A q \in Payers : q # p => pay'[q] = pay[q]
    BY <1>4 DEF Rung, TypeOK
  <2>2. pay'[p] \in Frame /\ pay'[p].step = "file" /\ pay'[p].part = pay[p].part /\ pay'[p].plan = rest
    BY <2>1, <1>1, <1>2 DEF Frame
  <2>3. FrameOK(pay'[p])
    BY <2>2, <1>3 DEF FrameOK
  <2>4. QED
    BY <2>1, <2>3, FramesOK
<1>5. CASE ~(Fiscalises /\ doc # "done")
  BY <1>2, <1>3, <1>5, OnwardOK DEF Rung
<1>6. QED
  BY <1>4, <1>5

FramesStay ==
    /\ pay' \in [Payers -> Frame] /\ FrameInv'
    /\ \A p \in Payers : pay'[p].step \in {"gate", "ring"} => pay'[p].plan # <<>>

LEMMA FramesBack ==
  ASSUME pay' = [q \in Payers |-> pay'[q]], \A q \in Payers : FrameOK(pay'[q])
  PROVE  FramesStay
BY DEF FrameInv, FrameOK, FramesStay

LEMMA FramesSame == TypeOK /\ FrameInv /\ UNCHANGED pay => FramesStay
BY DEF TypeOK, FrameInv, FramesStay

(* A screen's step keeps its frames.                                               *)
LEMMA PayingFrames ==
  ASSUME TypeOK, FrameInv, NEW p \in Payers, Paying(p)
  PROVE  FramesStay
<1>. USE TableAssumption
<1>1. ASSUME NEW b \in Bills, NEW plan \in Plans[p], PlanBillReceipts(p, b, plan) PROVE FramesStay
  <2>1. plan \in Seq(SUBSET Dishes) /\ Len(plan) \in 1..MaxParts
    BY <1>1
  <2>2. FrameOK([step |-> "gate", bill |-> b, part |-> 1, plan |-> plan])
    <3>1. plan # <<>>
      BY <2>1, EmptySeq
    <3>3. [step |-> "gate", bill |-> b, part |-> 1, plan |-> plan] \in Frame
      BY <2>1 DEF Frame, Bills, Parts
    <3>4. 1 + Len(plan) <= MaxParts + 1
      BY <2>1
    <3>5. QED
      BY <3>1, <3>3, <3>4 DEF FrameOK
  <2>3. QED
    BY <2>2, <1>1, FramesOK, FramesBack DEF PlanBillReceipts, TypeOK
<1>2. CASE Gate(p)
  BY <1>2, EndsOK, ToOK, FramesBack DEF Gate, Ends, To, TypeOK
<1>3. CASE Ring(p)
  <2>1. \/ \E doc : pay[p].step = "ring" /\ Rung(p, doc)
        \/ Ends(p)
    BY <1>3 DEF Ring, Replayed, CompleteSale
  <2>2. \A q \in Payers : FrameOK(pay'[q])
    BY <2>1, RungOK, EndsOK
  <2>3. pay' = [q \in Payers |-> pay'[q]]
    BY <2>1 DEF Rung, Onward, Ends, TypeOK
  <2>4. QED
    BY <2>2, <2>3, FramesBack
<1>4. ASSUME NEW answer \in {"done", "refused", "unknown"}, File(p, answer) PROVE FramesStay
  <2>1. /\ pay[p].plan \in Seq(SUBSET Dishes) /\ pay[p].part + Len(pay[p].plan) <= MaxParts
    BY <1>4 DEF File, TypeOK, FrameInv, Frame
  <2>2. \A q \in Payers : FrameOK(pay'[q])
    BY <2>1, <1>4, ToOK, OnwardOK DEF File
  <2>3. pay' = [q \in Payers |-> pay'[q]]
    BY <1>4 DEF File, To, Onward, TypeOK
  <2>4. QED
    BY <2>2, <2>3, FramesBack
<1>5. CASE AbortSale(p)
  <2>1. /\ pay[p].plan \in Seq(SUBSET Dishes) /\ pay[p].part + Len(pay[p].plan) <= MaxParts
    BY <1>5 DEF AbortSale, TypeOK, FrameInv, Frame
  <2>2. Ends(p) \/ Onward(p, pay[p].plan)
    BY <1>5 DEF AbortSale
  <2>3. \A q \in Payers : FrameOK(pay'[q])
    BY <2>1, <2>2, EndsOK, OnwardOK
  <2>4. pay' = [q \in Payers |-> pay'[q]]
    BY <2>2 DEF Ends, Onward, TypeOK
  <2>5. QED
    BY <2>3, <2>4, FramesBack
<1>6. CASE Settle(p)
  BY <1>6, EndsOK, ToOK, FramesBack DEF Settle, Ends, To, TypeOK
<1>7. CASE Close(p)
  BY <1>7, EndsOK, FramesBack DEF Close, Ends, TypeOK
<1>8. QED
  BY <1>1, <1>2, <1>3, <1>4, <1>5, <1>6, <1>7 DEF Paying

(* The other variables keep their types.                                           *)
LEMMA TableType ==
  ASSUME TypeOK, AtTable
  PROVE  bill' \in [Bills -> Bill] /\ line' \in [Dishes -> Line]
<1>1. ASSUME NEW t \in Tables, NEW b \in Bills, OpenBill(t, b)
      PROVE  bill' \in [Bills -> Bill] /\ line' \in [Dishes -> Line]
  BY <1>1, SeatedType DEF OpenBill, TypeOK
<1>2. ASSUME NEW t \in Tables, NEW b \in Bills, MoveBill(b, t)
      PROVE  bill' \in [Bills -> Bill] /\ line' \in [Dishes -> Line]
  BY <1>2 DEF MoveBill, TypeOK, Bill
<1>3. ASSUME NEW d \in Dishes, NEW b \in Bills, AddDraftItem(d, b)
      PROVE  bill' \in [Bills -> Bill] /\ line' \in [Dishes -> Line]
  BY <1>3, RowType DEF AddDraftItem, OnBill, TypeOK
<1>4. ASSUME NEW d \in Dishes, RemoveDraftItem(d)
      PROVE  bill' \in [Bills -> Bill] /\ line' \in [Dishes -> Line]
  BY <1>4, RowType DEF RemoveDraftItem, TypeOK
<1>5. ASSUME NEW b \in Bills, CancelBill(b)
      PROVE  bill' \in [Bills -> Bill] /\ line' \in [Dishes -> Line]
  BY <1>5, RowType DEF CancelBill, TypeOK, Bill
<1>6. QED
  BY <1>1, <1>2, <1>3, <1>4, <1>5 DEF AtTable

LEMMA KitchenType ==
  ASSUME TypeOK, InKitchen
  PROVE  round' \in [Rounds -> Round] /\ line' \in [Dishes -> Line]
<1>1. ASSUME NEW b \in Bills, NEW t \in Taps, FireRound(b, t)
      PROVE  round' \in [Rounds -> Round] /\ line' \in [Dishes -> Line]
  BY <1>1, FireType DEF FireRound, Drafts, TypeOK
<1>2. ASSUME NEW r \in Rounds, CancelRound(r) \/ SetRoundPrep(r)
      PROVE  round' \in [Rounds -> Round] /\ line' \in [Dishes -> Line]
  BY <1>2 DEF CancelRound, SetRoundPrep, TypeOK, Round
<1>3. QED
  BY <1>1, <1>2 DEF InKitchen

LEMMA GuestsType ==
  ASSUME TypeOK, ByGuests
  PROVE  /\ bill' \in [Bills -> Bill] /\ line' \in [Dishes -> Line]
         /\ round' \in [Rounds -> Round] /\ order' \in [Guests -> Order]
         /\ firing' \in [Guests -> 0..MaxBills]
<1>. USE TableAssumption
<1>1. ASSUME NEW g \in Guests, NEW t \in Tables, AskWaiter(g, t)
      PROVE  order' \in [Guests -> Order]
  BY <1>1 DEF AskWaiter, TypeOK, Order
<1>2. ASSUME NEW g \in Guests, NEW t \in Tables, NEW b \in Bills, AutoSend(g, t, b)
      PROVE  /\ bill' \in [Bills -> Bill] /\ line' \in [Dishes -> Line]
             /\ round' \in [Rounds -> Round] /\ order' \in [Guests -> Order]
  <2>1. [line EXCEPT ![g] = [NoLine EXCEPT !.bill = b]] \in [Dishes -> Line]
    BY RowType DEF TypeOK
  <2>2. round' \in [Rounds -> Round] /\ line' \in [Dishes -> Line]
    BY <1>2, <2>1, FireType DEF AutoSend
  <2>3. order' \in [Guests -> Order]
    BY <1>2 DEF AutoSend, TypeOK, Order
  <2>4. QED
    BY <2>2, <2>3, <1>2, SeatedType DEF AutoSend
<1>3. ASSUME NEW g \in Guests, NEW b \in Bills, AcceptOrder(g, b)
      PROVE  /\ bill' \in [Bills -> Bill] /\ line' \in [Dishes -> Line]
             /\ order' \in [Guests -> Order] /\ firing' \in [Guests -> 0..MaxBills]
  <2>1. bill' \in [Bills -> Bill]
    <3>1. order[g].table \in Tables \union {0}
      BY DEF TypeOK, Order
    <3>2. QED
      BY <3>1, <1>3, SeatedType DEF AcceptOrder
  <2>2. line' \in [Dishes -> Line]
    BY <1>3, RowType DEF AcceptOrder, OnBill, TypeOK
  <2>3. order' \in [Guests -> Order]
    BY <1>3 DEF AcceptOrder, TypeOK, Order
  <2>4. firing' \in [Guests -> 0..MaxBills]
    BY <1>3 DEF AcceptOrder, TypeOK, Bills
  <2>5. QED
    BY <2>1, <2>2, <2>3, <2>4
<1>4. ASSUME NEW g \in Guests, AcceptFires(g)
      PROVE  /\ line' \in [Dishes -> Line] /\ round' \in [Rounds -> Round]
             /\ firing' \in [Guests -> 0..MaxBills]
  <2>1. firing' \in [Guests -> 0..MaxBills]
    BY <1>4 DEF AcceptFires, TypeOK
  <2>2. firing[g] \in Bills
    BY <1>4 DEF AcceptFires, TypeOK, Bills
  <2>3. line' \in [Dishes -> Line] /\ round' \in [Rounds -> Round]
    BY <1>4, <2>2, FireType DEF AcceptFires, Drafts, TypeOK
  <2>4. QED
    BY <2>1, <2>3
<1>5. ASSUME NEW g \in Guests, DropOrder(g)
      PROVE  order' \in [Guests -> Order]
  BY <1>5 DEF DropOrder, TypeOK, Order
<1>6. QED
  BY <1>1, <1>2, <1>3, <1>4, <1>5
     DEF ByGuests, TypeOK, AskWaiter, AutoSend, AcceptOrder, AcceptFires, DropOrder, billing

LEMMA NowType == TypeOK => \A p \in Payers : Now(p) \in Sales
BY DEF TypeOK, Now, Sales, Frame

LEMMA VoidType ==
  ASSUME TypeOK, NEW s \in Sales, VoidSale(s)
  PROVE  line' \in [Dishes -> Line] /\ sale' \in [Sales -> Sale]
BY DEF TypeOK, VoidSale, Released, Line, Sale

LEMMA ReceiptsType ==
  ASSUME TypeOK, OfReceipts
  PROVE  line' \in [Dishes -> Line] /\ sale' \in [Sales -> Sale]
<1>1. ASSUME NEW s \in Sales, CashierVoids(s)
      PROVE  line' \in [Dishes -> Line] /\ sale' \in [Sales -> Sale]
  BY <1>1, VoidType DEF CashierVoids
<1>2. ASSUME NEW s \in Sales, RetryRegisters(s)
      PROVE  line' \in [Dishes -> Line] /\ sale' \in [Sales -> Sale]
  BY <1>2 DEF RetryRegisters, TypeOK, Sale
<1>3. ASSUME NEW s \in Sales, NEW d \in Dishes, Refund(s, d)
      PROVE  line' \in [Dishes -> Line] /\ sale' \in [Sales -> Sale]
  <2>1. sale[s] \in Sale /\ sale[s].back \union {d} \in SUBSET Dishes
    BY DEF TypeOK, Sale
  <2>2. PICK st \in {"completed", "refunded"} :
          sale' = [sale EXCEPT ![s] = [sale[s] EXCEPT !.back = sale[s].back \union {d}, !.st = st]]
    BY <1>3, Zenon DEF Refund
  <2>3. [sale[s] EXCEPT !.back = sale[s].back \union {d}, !.st = st] \in Sale
    BY <2>1 DEF Sale
  <2>4. QED
    BY <1>3, <2>2, <2>3 DEF Refund, TypeOK
<1>4. QED
  BY <1>1, <1>2, <1>3 DEF OfReceipts

LEMMA PayingType ==
  ASSUME TypeOK, NEW p \in Payers, Paying(p)
  PROVE  /\ bill' \in [Bills -> Bill] /\ line' \in [Dishes -> Line]
         /\ sale' \in [Sales -> Sale]
<1>1. CASE Ring(p)
  <2>1. bill' = bill
    BY <1>1 DEF Ring
  <2>2. CASE UNCHANGED <<line, sale>>
    BY <2>1, <2>2 DEF TypeOK
  <2>3. CASE CompleteSale(p) /\ ~UNCHANGED <<line, sale>>
    <3>. DEFINE b == pay[p].bill
                plates == Charged(b, Head(pay[p].plan))
                new == [st |-> "completed", bill |-> b, lines |-> plates, back |-> {},
                        doc |-> IF Fiscalises THEN "waiting" ELSE "none"]
    <3>1. line' = Attached(Now(p), plates) /\ sale' = [sale EXCEPT ![Now(p)] = new]
      BY <2>3 DEF CompleteSale
    <3>2. plates \subseteq Dishes
      BY DEF Charged, Named, Owed
    <3>3. new \in Sale
      BY <3>2 DEF Sale, TypeOK, Frame
    <3>4. Attached(Now(p), plates) \in [Dishes -> Line]
      BY NowType DEF Attached, TypeOK, Line
    <3>5. QED
      BY <3>1, <3>3, <3>4, <2>1 DEF TypeOK
  <2>4. QED
    BY <1>1, <2>2, <2>3 DEF Ring, Replayed
<1>2. ASSUME NEW answer \in {"done", "refused", "unknown"}, File(p, answer)
      PROVE  /\ bill' \in [Bills -> Bill] /\ line' \in [Dishes -> Line]
             /\ sale' \in [Sales -> Sale]
  BY <1>2 DEF File, TypeOK, Sale
<1>3. CASE AbortSale(p)
  BY <1>3, NowType, VoidType DEF AbortSale, TypeOK
<1>4. CASE Close(p)
  BY <1>4 DEF Close, TypeOK, Bill
<1>5. QED
  BY <1>1, <1>2, <1>3, <1>4 DEF Paying, PlanBillReceipts, Gate, Settle, TypeOK

LEMMA TypeInit == Init => TypeOK /\ FrameInv
<1>. SUFFICES ASSUME Init PROVE TypeOK /\ FrameInv
  OBVIOUS
<1>1. bill \in [Bills -> Bill] /\ round \in [Rounds -> Round] /\ order \in [Guests -> Order]
  BY TableAssumption DEF Init, Bill, Round, Order
<1>2. line \in [Dishes -> Line] /\ sale \in [Sales -> Sale] /\ firing \in [Guests -> 0..MaxBills]
  BY TableAssumption, RowType DEF Init, Sale
<1>3. pay \in [Payers -> Frame] /\ \A p \in Payers : pay[p].step = "idle"
  BY IdleType DEF Init, Idle
<1>4. QED
  BY <1>1, <1>2, <1>3 DEF TypeOK, FrameInv

LEMMA TypeNext == TypeOK /\ FrameInv /\ [Next]_vars => TypeOK' /\ FrameInv'
<1>. SUFFICES ASSUME TypeOK, FrameInv, [Next]_vars PROVE TypeOK' /\ FrameInv'
  OBVIOUS
<1>1. CASE AtTable
  BY <1>1, TableType, FramesSame
     DEF AtTable, OpenBill, MoveBill, AddDraftItem, RemoveDraftItem, CancelBill, serving, billing,
         TypeOK, FramesStay
<1>2. CASE InKitchen
  BY <1>2, KitchenType, FramesSame
     DEF InKitchen, FireRound, CancelRound, SetRoundPrep, billing, TypeOK, FramesStay
<1>3. CASE ByGuests
  <2>1. UNCHANGED billing
    BY <1>3 DEF ByGuests, AskWaiter, AutoSend, AcceptOrder, AcceptFires, DropOrder
  <2>2. QED
    BY <1>3, <2>1, GuestsType, FramesSame DEF billing, TypeOK, FramesStay
<1>4. CASE OfReceipts
  BY <1>4, ReceiptsType, FramesSame
     DEF OfReceipts, CashierVoids, RetryRegisters, Refund, serving, TypeOK, FramesStay
<1>5. CASE \E p \in Payers : Paying(p)
  <2>1. UNCHANGED serving
    BY <1>5 DEF Paying, PlanBillReceipts, Gate, Ring, File, AbortSale, Settle, Close
  <2>2. QED
    BY <1>5, <2>1, PayingType, PayingFrames DEF serving, TypeOK, FramesStay
<1>6. CASE Crash
  <2>1. FramesStay
    BY <1>6, IdleType DEF Crash, FramesStay, FrameInv, Idle
  <2>2. firing' \in [Guests -> 0..MaxBills]
    BY <1>6, TableAssumption DEF Crash
  <2>3. QED
    BY <1>6, <2>1, <2>2 DEF Crash, TypeOK, FramesStay
<1>7. CASE UNCHANGED vars
  BY <1>7, FramesSame DEF vars, TypeOK, FramesStay
<1>8. QED
  BY <1>1, <1>2, <1>3, <1>4, <1>5, <1>6, <1>7 DEF Next

----------------------------------------------------------------------------------
(* Plates, receipts and orders                                                     *)

DataInv == /\ LineInv /\ OrderInv /\ PaidOnce /\ ChargedIsFired
           /\ AnsweredOnce /\ CancelledHoldsNothing

\* What a receipt is for does not change, nor whether it stands.
SalesStand ==
    \A s \in Sales : /\ sale'[s].st \in {"completed", "refunded"} <=> Standing(s)
                     /\ sale'[s].lines = sale[s].lines /\ sale'[s].bill = sale[s].bill

\* No bill becomes a cancelled one.
NoneCancelled == \A b \in Bills : bill'[b].st = "cancelled" => bill[b].st = "cancelled"

LEMMA NoSaleIsNone == NoSale \notin Sales
BY DEF NoSale, Sales

LEMMA LinesAreDishes == TypeOK => \A s \in Sales : sale[s].lines \subseteq Dishes
BY DEF TypeOK, Sale

(* Steps that touch neither the rows nor the rounds nor the orders.                *)
LEMMA RowsStay ==
  ASSUME TypeOK, DataInv, SalesStand, NoneCancelled,
         UNCHANGED <<line, round, order>>, \A g \in Guests : firing'[g] # 0 => firing[g] # 0
  PROVE  DataInv'
<1>1. LineInv' /\ AnsweredOnce' /\ OrderInv'
  BY DEF DataInv, LineInv, AnsweredOnce, OrderInv, Fired
<1>2. PaidOnce' /\ ChargedIsFired'
  <2>1. \A d \in Dishes : line[d].sale # NoSale => line[d].sale \in Sales
    BY DEF TypeOK, Line
  <2>2. \A s \in Sales : Standing(s)' <=> Standing(s)
    BY DEF SalesStand, Standing
  <2>3. PaidOnce'
    BY <2>1, <2>2 DEF DataInv, PaidOnce, SalesStand, Standing
  <2>4. ChargedIsFired'
    BY <2>2 DEF DataInv, ChargedIsFired, SalesStand
  <2>5. QED
    BY <2>3, <2>4
<1>3. CancelledHoldsNothing'
  BY DEF DataInv, CancelledHoldsNothing, NoneCancelled, Drafts, Live
<1>4. QED
  BY <1>1, <1>2, <1>3 DEF DataInv

\* A row that changes is not fired, before or after, and is on a bill not cancelled.
DraftsChange ==
    \A d \in Dishes : line'[d] # line[d] =>
        /\ line[d].round = 0 /\ line'[d].round = 0 /\ line'[d].sale = NoSale
        /\ line'[d].bill \in Bills => bill'[line'[d].bill].st # "cancelled"

\* A bill that becomes cancelled holds nothing.
CancelsClean ==
    \A b \in Bills : bill'[b].st = "cancelled" =>
        \/ bill[b].st = "cancelled"
        \/ /\ \A d \in Dishes : line'[d].bill = b => line'[d].round # 0
           /\ \A r \in Rounds : Live(r) => round[r].bill # b

(* Steps that add or take off drafts.                                              *)
LEMMA DraftsMove ==
  ASSUME TypeOK, DataInv, DraftsChange, CancelsClean,
         UNCHANGED <<sale, round>>, OrderInv', AnsweredOnce'
  PROVE  DataInv'
<1>1. LineInv'
  BY DEF DataInv, LineInv, DraftsChange
<1>3. \A d \in Dishes, s \in Sales : Standing(s) /\ d \in sale[s].lines => line'[d] = line[d]
  BY NoSaleIsNone DEF DataInv, PaidOnce, LineInv, DraftsChange
<1>4. PaidOnce'
  <2>1. ASSUME NEW d \in Dishes, line'[d] = line[d]
        PROVE  /\ line'[d].sale # NoSale => Standing(line'[d].sale)
               /\ \A s \in Sales : Standing(s) => (d \in sale[s].lines <=> line'[d].sale = s)
    BY <2>1 DEF DataInv, PaidOnce
  <2>2. ASSUME NEW d \in Dishes, line'[d] # line[d]
        PROVE  /\ line'[d].sale # NoSale => Standing(line'[d].sale)
               /\ \A s \in Sales : Standing(s) => (d \in sale[s].lines <=> line'[d].sale = s)
    <3>1. line'[d].sale = NoSale
      BY <2>2 DEF DraftsChange
    <3>2. QED
      BY <3>1, <2>2, <1>3, NoSaleIsNone
  <2>3. QED
    BY <2>1, <2>2 DEF PaidOnce, Standing
<1>5. ChargedIsFired'
  BY <1>3, LinesAreDishes DEF DataInv, ChargedIsFired, Standing
<1>6. CancelledHoldsNothing'
  <2>1. ASSUME NEW b \in Bills, bill'[b].st = "cancelled"
        PROVE  Drafts(b)' = {} /\ \A r \in Rounds : Live(r) => round[r].bill # b
    <3>1. CASE bill[b].st = "cancelled"
      <4>1. Drafts(b) = {} /\ \A r \in Rounds : Live(r) => round[r].bill # b
        BY <3>1 DEF DataInv, CancelledHoldsNothing
      <4>2. QED
        BY <4>1, <2>1 DEF Drafts, DraftsChange
    <3>2. CASE bill[b].st # "cancelled"
      BY <2>1, <3>2 DEF CancelsClean, Drafts
    <3>3. QED
      BY <3>1, <3>2
  <2>2. QED
    BY <2>1 DEF CancelledHoldsNothing, Live
<1>7. QED
  BY <1>1, <1>4, <1>5, <1>6 DEF DataInv

\* What firing does: drafts of b become the new round r's, under the tap t.
Fire(b, t, items, r) ==
    /\ round[r].st = "none"
    /\ round' = [round EXCEPT ![r] = [st |-> "live", bill |-> b, served |-> FALSE, tap |-> t]]
    /\ \A d \in Dishes :
          /\ d \in items => /\ line[d].round = 0 /\ line[d].sale = NoSale
                            /\ line'[d].bill = b /\ line'[d].round = r /\ line'[d].sale = NoSale
          /\ d \notin items => line'[d] = line[d]

(* Firing keeps the invariant when the order's own side of it is kept.             *)
LEMMA FireKeeps ==
  ASSUME TypeOK, DataInv, NEW b \in Bills, NEW t, NEW items \in SUBSET Dishes, NEW r \in Rounds,
         Fire(b, t, items, r), NoneCancelled, bill'[b].st # "cancelled", UNCHANGED sale,
         OrderInv', AnsweredOnce'
  PROVE  DataInv'
<1>1. \A q \in Rounds : q # r => round'[q] = round[q]
  BY DEF Fire, TypeOK
<1>2. round'[r].st = "live" /\ round'[r].bill = b /\ r # 0
  BY DEF Fire, TypeOK, Rounds
<1>3. LineInv'
  <2>1. ASSUME NEW d \in Dishes, d \in items
        PROVE  /\ line'[d].bill # 0 /\ line'[d].round # 0
               /\ round'[line'[d].round].st # "none"
    BY <2>1, <1>2 DEF Fire, Bills
  <2>2. ASSUME NEW d \in Dishes, d \notin items, line[d].round # 0
        PROVE  round'[line[d].round].st # "none"
    <3>1. line[d].round \in Rounds
      BY <2>2 DEF TypeOK, Line, Rounds
    <3>2. line[d].round # r
      BY <2>2 DEF DataInv, LineInv, Fire
    <3>3. QED
      BY <3>1, <3>2, <1>1, <2>2 DEF DataInv, LineInv
  <2>3. QED
    BY <2>1, <2>2 DEF DataInv, LineInv, Fire
<1>5. \A d \in Dishes : line'[d].sale = line[d].sale
  BY DEF Fire
<1>6. PaidOnce'
  BY <1>5 DEF DataInv, PaidOnce, Standing
<1>7. ChargedIsFired'
  <2>1. \A d \in Dishes, s \in Sales : Standing(s) /\ d \in sale[s].lines => d \notin items
    BY NoSaleIsNone DEF DataInv, PaidOnce, Fire
  <2>2. QED
    BY <2>1, LinesAreDishes DEF DataInv, ChargedIsFired, Fire, Standing
<1>8. CancelledHoldsNothing'
  <2>1. ASSUME NEW c \in Bills, bill'[c].st = "cancelled"
        PROVE  Drafts(c)' = {} /\ \A q \in Rounds : Live(q)' => round'[q].bill # c
    <3>1. bill[c].st = "cancelled" /\ c # b
      BY <2>1 DEF NoneCancelled
    <3>2. Drafts(c) = {} /\ \A q \in Rounds : Live(q) => round[q].bill # c
      BY <3>1 DEF DataInv, CancelledHoldsNothing
    <3>3. Drafts(c)' = {}
      BY <3>2, <1>2 DEF Drafts, Fire
    <3>4. QED
      BY <3>1, <3>2, <3>3, <1>1, <1>2 DEF Live
  <2>2. QED
    BY <2>1 DEF CancelledHoldsNothing
<1>9. QED
  BY <1>3, <1>6, <1>7, <1>8 DEF DataInv

(* Opening, adding, removing, moving, cancelling.                                  *)
LEMMA SeatedOpens ==
  ASSUME TypeOK, NEW t, NEW b \in Bills, Seated(t, b)
  PROVE  NoneCancelled /\ bill'[b].st = "open"
BY DEF Seated, OpenAt, Open, NoneCancelled, TypeOK

LEMMA TableStep == TypeOK /\ DataInv /\ AtTable => DataInv'
<1>. SUFFICES ASSUME TypeOK, DataInv, AtTable PROVE DataInv'
  OBVIOUS
<1>0. UNCHANGED sale => SalesStand
  BY DEF SalesStand, Standing
<1>1. ASSUME NEW t \in Tables, NEW b \in Bills, OpenBill(t, b) PROVE DataInv'
  BY <1>0, <1>1, SeatedOpens, RowsStay DEF OpenBill, serving, billing
<1>2. ASSUME NEW t \in Tables, NEW b \in Bills, MoveBill(b, t) PROVE DataInv'
  <2>1. NoneCancelled
    BY <1>2 DEF MoveBill, NoneCancelled, TypeOK, Open
  <2>2. QED
    BY <1>0, <1>2, <2>1, RowsStay DEF MoveBill, serving, billing
<1>3. ASSUME NEW d \in Dishes, NEW b \in Bills, AddDraftItem(d, b) PROVE DataInv'
  <2>1. /\ line' = [line EXCEPT ![d] = [NoLine EXCEPT !.bill = b]]
        /\ UNCHANGED <<bill, round, order, firing, sale>> /\ d \notin Guests
        /\ line[d].bill = 0 /\ bill[b].st = "open"
    BY <1>3 DEF AddDraftItem, OnBill, serving, billing, Open
  <2>2. DraftsChange /\ CancelsClean
    BY <2>1 DEF DraftsChange, CancelsClean, TypeOK, NoLine, DataInv, LineInv
  <2>3. OrderInv' /\ AnsweredOnce'
    BY <2>1, TableAssumption DEF DataInv, OrderInv, AnsweredOnce, Fired, TypeOK
  <2>4. QED
    BY <2>1, <2>2, <2>3, DraftsMove
<1>4. ASSUME NEW d \in Dishes, RemoveDraftItem(d) PROVE DataInv'
  <2>1. /\ line' = [line EXCEPT ![d] = NoLine] /\ line[d].round = 0
        /\ UNCHANGED <<bill, round, order, firing, sale>>
    BY <1>4 DEF RemoveDraftItem, serving, billing
  <2>2. DraftsChange /\ CancelsClean
    BY <2>1 DEF DraftsChange, CancelsClean, TypeOK, NoLine, Bills
  <2>3. OrderInv' /\ AnsweredOnce'
    BY <2>1, TableAssumption DEF DataInv, OrderInv, AnsweredOnce, Fired, TypeOK, NoLine
  <2>4. QED
    BY <2>1, <2>2, <2>3, DraftsMove
<1>5. ASSUME NEW b \in Bills, CancelBill(b) PROVE DataInv'
  <2>1. /\ line' = [d \in Dishes |-> IF d \in Drafts(b) THEN NoLine ELSE line[d]]
        /\ bill' = [bill EXCEPT ![b].st = "cancelled"] /\ NothingFired(b)
        /\ UNCHANGED <<round, order, firing, sale>>
    BY <1>5 DEF CancelBill, serving, billing
  <2>2. DraftsChange
    <3>1. ASSUME NEW d \in Dishes, line'[d] # line[d]
          PROVE  line[d].round = 0 /\ line'[d].round = 0 /\ line'[d].sale = NoSale /\ line'[d].bill = 0
      BY <2>1, <3>1 DEF Drafts, NoLine
    <3>2. QED
      BY <3>1 DEF DraftsChange, Bills
  <2>3. CancelsClean
    BY <2>1 DEF CancelsClean, TypeOK, Drafts, NoLine, NothingFired, Bills
  <2>4. OrderInv'
    BY <2>1 DEF DataInv, OrderInv, Fired
  <2>5. AnsweredOnce'
    BY <2>1, TableAssumption DEF DataInv, AnsweredOnce, Drafts, NoLine
  <2>6. QED
    BY <2>1, <2>2, <2>3, <2>4, <2>5, DraftsMove
<1>6. QED
  BY <1>1, <1>2, <1>3, <1>4, <1>5 DEF AtTable

(* Firing: which uuids have fired, and what it leaves of the orders sent before.   *)
LEMMA FireTaps ==
  ASSUME TypeOK, DataInv, NEW b, NEW t, NEW items \in SUBSET Dishes, NEW r \in Rounds,
         Fire(b, t, items, r), NEW g \in Guests
  PROVE  /\ Fired(g)' => Fired(g) \/ g = t
         /\ line[g].round # 0 => line'[g] = line[g] /\ round'[line[g].round] = round[line[g].round]
<1>1. \A q \in Rounds : q # r => round'[q] = round[q]
  BY DEF Fire, TypeOK
<1>2. round'[r].tap = t
  BY DEF Fire, TypeOK
<1>3. Fired(g)' => Fired(g) \/ g = t
  BY <1>1, <1>2 DEF Fired
<1>4. ASSUME line[g].round # 0
      PROVE  line'[g] = line[g] /\ round'[line[g].round] = round[line[g].round]
  <2>1. g \in Dishes /\ line[g].round \in Rounds
    BY <1>4, TableAssumption DEF TypeOK, Line, Rounds
  <2>2. line[g].round # r
    BY <2>1, <1>4 DEF DataInv, LineInv, Fire
  <2>3. QED
    BY <1>1, <1>4, <2>1, <2>2 DEF Fire
<1>5. QED
  BY <1>3, <1>4

LEMMA FiresIsFire ==
  ASSUME TypeOK, DataInv, NEW b, NEW t, NEW items \in SUBSET Dishes, NEW rows \in [Dishes -> Line],
         Fires(b, t, items, rows),
         \A d \in items : rows[d].bill = b /\ rows[d].sale = NoSale /\ line[d].round = 0,
         \A d \in Dishes \ items : rows[d] = line[d]
  PROVE  \E r \in Rounds : Fire(b, t, items, r)
<1>1. PICK r \in NextRound :
        /\ round' = [round EXCEPT ![r] = [st |-> "live", bill |-> b, served |-> FALSE, tap |-> t]]
        /\ line' = [d \in Dishes |-> IF d \in items THEN [rows[d] EXCEPT !.round = r] ELSE rows[d]]
  BY DEF Fires
<1>2. r \in Rounds /\ round[r].st = "none"
  BY DEF NextRound
<1>3. ASSUME NEW d \in Dishes, d \in items
      PROVE  /\ line[d].round = 0 /\ line[d].sale = NoSale
             /\ line'[d].bill = b /\ line'[d].round = r /\ line'[d].sale = NoSale
  <2>1. rows[d] \in Line /\ rows[d].bill = b /\ rows[d].sale = NoSale /\ line[d].round = 0
    BY <1>3
  <2>2. line'[d] = [rows[d] EXCEPT !.round = r]
    BY <1>1, <1>3
  <2>3. line'[d].bill = b /\ line'[d].round = r /\ line'[d].sale = NoSale
    BY <2>1, <2>2 DEF Line
  <2>4. QED
    BY <2>1, <2>3 DEF DataInv, LineInv
<1>4. \A d \in Dishes : d \notin items => line'[d] = line[d]
  BY <1>1
<1>5. Fire(b, t, items, r)
  BY <1>1, <1>2, <1>3, <1>4 DEF Fire
<1>6. QED
  BY <1>2, <1>5

(* What becomes of the orders when drafts of one bill are fired.                   *)
LEMMA FireAnswers ==
  ASSUME TypeOK, DataInv, NEW b \in Bills, NEW t,
         Fires(b, t, Drafts(b), line), UNCHANGED order,
         \A g \in Guests : g = t => order[g].st = "accepted"
  PROVE  \E q \in Rounds : /\ Fire(b, t, Drafts(b), q) /\ AnsweredOnce'
                           /\ \A g \in Guests : Fired(g)' => Fired(g) \/ g = t
<1>1. Drafts(b) \in SUBSET Dishes /\ line \in [Dishes -> Line]
  BY DEF Drafts, TypeOK
<1>2. \A d \in Drafts(b) : line[d].bill = b /\ line[d].sale = NoSale /\ line[d].round = 0
  BY DEF Drafts, DataInv, LineInv
<1>3. PICK q \in Rounds : Fire(b, t, Drafts(b), q)
  BY <1>1, <1>2, FiresIsFire
<1>4. \A g \in Guests : /\ Fired(g)' => Fired(g) \/ g = t
                        /\ line[g].round # 0 => line'[g] = line[g]
                                             /\ round'[line[g].round] = round[line[g].round]
  BY <1>1, <1>3, FireTaps
<1>5. AnsweredOnce'
  <2>1. ASSUME NEW g \in Guests, order[g].st \in {"none", "pending", "gone"}
        PROVE  line'[g].bill = 0
    BY <2>1, <1>3, TableAssumption DEF DataInv, AnsweredOnce, Fire, Drafts, Bills
  <2>2. ASSUME NEW g \in Guests, order[g].st = "sent"
        PROVE  line'[g].round # 0 /\ round'[line'[g].round].tap = g
    BY <2>2, <1>4 DEF DataInv, AnsweredOnce
  <2>3. QED
    BY <2>1, <2>2 DEF AnsweredOnce
<1>6. QED
  BY <1>3, <1>4, <1>5

(* Steps that only cancel or serve rounds.                                         *)
LEMMA RoundsEnd ==
  ASSUME TypeOK, DataInv, UNCHANGED <<bill, line, order, firing, sale>>,
         \A q \in Rounds : /\ round'[q].tap = round[q].tap /\ round'[q].bill = round[q].bill
                           /\ round'[q].st = "live" => round[q].st = "live"
                           /\ round'[q].st = "none" => round[q].st = "none"
  PROVE  DataInv'
<1>1. \A d \in Dishes : line[d].round # 0 => line[d].round \in Rounds
  BY TableAssumption DEF TypeOK, Line, Rounds
<1>2. LineInv'
  BY <1>1 DEF DataInv, LineInv
<1>3. OrderInv'
  BY DEF DataInv, OrderInv, Fired
<1>4. AnsweredOnce'
  BY <1>1, TableAssumption DEF DataInv, AnsweredOnce
<1>5. CancelledHoldsNothing'
  BY DEF DataInv, CancelledHoldsNothing, Drafts, Live
<1>6. PaidOnce' /\ ChargedIsFired'
  BY DEF DataInv, PaidOnce, ChargedIsFired, Standing
<1>7. QED
  BY <1>2, <1>3, <1>4, <1>5, <1>6 DEF DataInv

LEMMA KitchenStep == TypeOK /\ DataInv /\ InKitchen => DataInv'
<1>. SUFFICES ASSUME TypeOK, DataInv, InKitchen PROVE DataInv'
  OBVIOUS
<1>1. ASSUME NEW b \in Bills, NEW t \in Taps, FireRound(b, t) PROVE DataInv'
  <2>1. /\ bill[b].st = "open" /\ UNCHANGED <<bill, order, firing, sale>>
        /\ FireRoundTx(b, t, Drafts(b), line)
    BY <1>1 DEF FireRound, Open, billing
  <2>2. CASE line' = line /\ UNCHANGED round
    BY <2>1, <2>2, RowsStay DEF NoneCancelled, SalesStand, Standing
  <2>3. CASE Fires(b, t, Drafts(b), line)
    <3>1. \A g \in Guests : g # t
      BY TableAssumption
    <3>2. PICK q \in Rounds : /\ Fire(b, t, Drafts(b), q) /\ AnsweredOnce'
                              /\ \A g \in Guests : Fired(g)' => Fired(g) \/ g = t
      BY <2>1, <2>3, <3>1, FireAnswers
    <3>3. OrderInv'
      BY <2>1, <3>1, <3>2 DEF DataInv, OrderInv
    <3>4. Drafts(b) \in SUBSET Dishes /\ NoneCancelled /\ bill'[b].st # "cancelled"
      BY <2>1 DEF Drafts, NoneCancelled
    <3>5. QED
      BY <2>1, <3>2, <3>3, <3>4, FireKeeps
  <2>4. QED
    BY <2>1, <2>2, <2>3 DEF FireRoundTx
<1>2. ASSUME NEW r \in Rounds, CancelRound(r) \/ SetRoundPrep(r) PROVE DataInv'
  <2>1. /\ UNCHANGED <<bill, line, order, firing, sale>> /\ round[r].st = "live"
        /\ \/ round' = [round EXCEPT ![r].st = "cancelled"]
           \/ round' = [round EXCEPT ![r].served = TRUE]
    BY <1>2 DEF CancelRound, SetRoundPrep, billing, Live
  <2>2. ASSUME NEW q \in Rounds
        PROVE  /\ round'[q].tap = round[q].tap /\ round'[q].bill = round[q].bill
               /\ round'[q].st = "live" => round[q].st = "live"
               /\ round'[q].st = "none" => round[q].st = "none"
    <3>1. round[q] \in Round /\ q \in DOMAIN round
      BY DEF TypeOK
    <3>2. CASE q # r
      BY <2>1, <3>1, <3>2
    <3>3. CASE q = r
      BY <2>1, <3>1, <3>3 DEF Round
    <3>4. QED
      BY <3>2, <3>3
  <2>3. QED
    BY <2>1, <2>2, RoundsEnd
<1>3. QED
  BY <1>1, <1>2 DEF InKitchen

(* Guests' orders: an order nobody has taken has no row and no round.              *)
LEMMA Untaken ==
  ASSUME TypeOK, DataInv, NEW g \in Guests, order[g].st \in {"none", "pending", "gone"}
  PROVE  /\ ~Fired(g) /\ firing[g] = 0
         /\ line[g].bill = 0 /\ line[g].round = 0 /\ line[g].sale = NoSale
<1>1. ~Fired(g) /\ firing[g] = 0
  BY DEF DataInv, OrderInv
<1>2. line[g].bill = 0
  BY DEF DataInv, AnsweredOnce
<1>3. QED
  BY <1>1, <1>2, TableAssumption DEF DataInv, LineInv

(* An order moves between the states in which it is on no bill.                    *)
LEMMA OrderWaits ==
  ASSUME TypeOK, DataInv, NEW g \in Guests, order[g].st \in {"none", "pending", "gone"},
         order'[g].st \in {"none", "pending", "gone"},
         \A h \in Guests : h # g => order'[h] = order[h],
         UNCHANGED <<bill, line, round, firing, sale>>
  PROVE  DataInv'
<1>1. OrderInv'
  BY Untaken DEF DataInv, OrderInv, Fired
<1>2. AnsweredOnce'
  BY Untaken DEF DataInv, AnsweredOnce
<1>3. DraftsChange /\ CancelsClean
  BY DEF DraftsChange, CancelsClean
<1>4. QED
  BY <1>1, <1>2, <1>3, DraftsMove

LEMMA GuestsStep == TypeOK /\ DataInv /\ ByGuests => DataInv'
<1>. SUFFICES ASSUME TypeOK, DataInv, ByGuests PROVE DataInv'
  OBVIOUS
<1>1. ASSUME NEW g \in Guests, NEW t \in Tables, AskWaiter(g, t) PROVE DataInv'
  <2>1. /\ order[g].st = "none" /\ order'[g].st = "pending"
        /\ \A h \in Guests : h # g => order'[h] = order[h]
        /\ UNCHANGED <<bill, line, round, firing, sale>>
    BY <1>1 DEF AskWaiter, billing, TypeOK
  <2>2. QED
    BY <2>1, OrderWaits
<1>2. ASSUME NEW g \in Guests, DropOrder(g) PROVE DataInv'
  <2>1. /\ order[g].st = "pending" /\ order'[g].st = "gone"
        /\ \A h \in Guests : h # g => order'[h] = order[h]
        /\ UNCHANGED <<bill, line, round, firing, sale>>
    BY <1>2 DEF DropOrder, Waiting, billing, TypeOK
  <2>2. QED
    BY <2>1, OrderWaits
<1>3. ASSUME NEW g \in Guests, NEW t \in Tables, NEW b \in Bills, AutoSend(g, t, b) PROVE DataInv'
  <2> DEFINE rows == [line EXCEPT ![g] = [NoLine EXCEPT !.bill = b]]
  <2>1. /\ order[g].st = "none" /\ Seated(t, b) /\ FireRoundTx(b, g, {g}, rows)
        /\ order' = [order EXCEPT ![g].st = "sent"] /\ UNCHANGED <<firing, sale>>
    BY <1>3 DEF AutoSend, billing
  <2>2. ~Fired(g) /\ firing[g] = 0 /\ line[g].round = 0
    BY <2>1, Untaken
  <2>3. Fires(b, g, {g}, rows)
    BY <2>1, <2>2 DEF FireRoundTx
  <2>4. rows \in [Dishes -> Line] /\ {g} \in SUBSET Dishes
    BY RowType, TableAssumption DEF TypeOK
  <2>5. rows[g].bill = b /\ rows[g].sale = NoSale
    BY TableAssumption DEF TypeOK, NoLine
  <2>6. \A d \in Dishes \ {g} : rows[d] = line[d]
    BY DEF TypeOK
  <2>7. PICK r \in Rounds : Fire(b, g, {g}, r)
    <3>1. \A d \in {g} : rows[d].bill = b /\ rows[d].sale = NoSale /\ line[d].round = 0
      BY <2>2, <2>5
    <3>. HIDE DEF rows
    <3>2. QED
      BY <2>3, <2>4, <2>6, <3>1, FiresIsFire
  <2>8. /\ order'[g].st = "sent"
        /\ \A h \in Guests : h # g => order'[h] = order[h]
    BY <2>1 DEF TypeOK
  <2>9. \A h \in Guests : /\ Fired(h)' => Fired(h) \/ h = g
                          /\ line[h].round # 0 => line'[h] = line[h]
                                               /\ round'[line[h].round] = round[line[h].round]
    BY <2>4, <2>7, FireTaps
  <2>10. OrderInv'
    BY <2>1, <2>2, <2>8, <2>9 DEF DataInv, OrderInv
  <2>11. AnsweredOnce'
    <3>1. line'[g].round = r /\ r # 0 /\ round'[r].tap = g
      BY <2>7, TableAssumption DEF Fire, TypeOK, Rounds
    <3>2. \A h \in Guests : h # g => line'[h] = line[h]
      BY <2>7, TableAssumption DEF Fire
    <3>3. ASSUME NEW h \in Guests, h # g
          PROVE  /\ order'[h].st \in {"none", "pending", "gone"} => line'[h].bill = 0
                 /\ order'[h].st = "sent" => line'[h].round # 0 /\ round'[line'[h].round].tap = h
      BY <2>8, <2>9, <3>2, <3>3 DEF DataInv, AnsweredOnce
    <3>4. QED
      BY <2>8, <3>1, <3>3 DEF AnsweredOnce
  <2>12. NoneCancelled /\ bill'[b].st # "cancelled"
    BY <2>1, SeatedOpens
  <2>13. QED
    BY <2>1, <2>4, <2>7, <2>10, <2>11, <2>12, FireKeeps
<1>4. ASSUME NEW g \in Guests, NEW b \in Bills, AcceptOrder(g, b) PROVE DataInv'
  <2>1. /\ order[g].st = "pending" /\ Seated(order[g].table, b) /\ UNCHANGED <<round, sale>>
        /\ line' = [line EXCEPT ![g] = [NoLine EXCEPT !.bill = b]]
        /\ order' = [order EXCEPT ![g] = [st |-> "accepted", table |-> 0]]
        /\ \A h \in Guests : h # g => firing'[h] = firing[h]
    BY <1>4 DEF AcceptOrder, Waiting, OnBill, billing, TypeOK
  <2>2. NoneCancelled /\ bill'[b].st = "open"
    BY <2>1, SeatedOpens
  <2>3. line[g].round = 0
    BY <2>1, Untaken
  <2>4. /\ \A d \in Dishes : d # g => line'[d] = line[d]
        /\ line'[g].bill = b /\ line'[g].round = 0 /\ line'[g].sale = NoSale
    BY <2>1, TableAssumption DEF TypeOK, NoLine
  <2>5. DraftsChange
    BY <2>2, <2>3, <2>4 DEF DraftsChange
  <2>6. CancelsClean
    BY <2>2 DEF CancelsClean, NoneCancelled
  <2>7. /\ order'[g].st = "accepted"
        /\ \A h \in Guests : h # g => order'[h] = order[h]
    BY <2>1 DEF TypeOK
  <2>8. OrderInv'
    BY <2>1, <2>7 DEF DataInv, OrderInv, Fired
  <2>9. AnsweredOnce'
    BY <2>1, <2>4, <2>7, TableAssumption DEF DataInv, AnsweredOnce
  <2>10. QED
    BY <2>1, <2>5, <2>6, <2>8, <2>9, DraftsMove
<1>5. ASSUME NEW g \in Guests, AcceptFires(g) PROVE DataInv'
  <2>1. /\ firing[g] \in Bills /\ order[g].st = "accepted" /\ UNCHANGED <<bill, order, sale>>
        /\ \A h \in Guests : firing'[h] # 0 => firing[h] # 0
    BY <1>5, TableAssumption DEF AcceptFires, billing, DataInv, OrderInv, TypeOK, Bills
  <2>2. CASE UNCHANGED <<round, line>>
    BY <2>1, <2>2, RowsStay DEF NoneCancelled, SalesStand, Standing
  <2>3. CASE Open(firing[g]) /\ Fires(firing[g], g, Drafts(firing[g]), line)
    <3>1. PICK q \in Rounds : /\ Fire(firing[g], g, Drafts(firing[g]), q) /\ AnsweredOnce'
                              /\ \A h \in Guests : Fired(h)' => Fired(h) \/ h = g
      BY <2>1, <2>3, FireAnswers
    <3>2. OrderInv'
      BY <2>1, <3>1 DEF DataInv, OrderInv
    <3>3. Drafts(firing[g]) \in SUBSET Dishes /\ NoneCancelled /\ bill'[firing[g]].st # "cancelled"
      BY <2>1, <2>3 DEF Drafts, NoneCancelled, Open
    <3>4. QED
      BY <2>1, <3>1, <3>2, <3>3, FireKeeps
  <2>4. QED
    BY <1>5, <2>2, <2>3 DEF AcceptFires, FireRoundTx
<1>6. QED
  BY <1>1, <1>2, <1>3, <1>4, <1>5 DEF ByGuests

(* Receipts: rung, voided, refunded, registered.                                   *)
LEMMA SalesMove ==
  ASSUME TypeOK, DataInv, UNCHANGED <<bill, round, order, firing>>,
         \A d \in Dishes : /\ line'[d].bill = line[d].bill /\ line'[d].round = line[d].round
                           /\ line[d].round = 0 => line'[d].sale = NoSale,
         PaidOnce', ChargedIsFired'
  PROVE  DataInv'
<1>1. LineInv'
  BY DEF DataInv, LineInv
<1>2. OrderInv'
  BY DEF DataInv, OrderInv, Fired
<1>3. AnsweredOnce'
  BY TableAssumption DEF DataInv, AnsweredOnce
<1>4. CancelledHoldsNothing'
  BY DEF DataInv, CancelledHoldsNothing, Drafts, Live
<1>5. QED
  BY <1>1, <1>2, <1>3, <1>4 DEF DataInv

LEMMA VoidKeeps ==
  ASSUME TypeOK, DataInv, NEW s \in Sales, VoidSale(s), UNCHANGED <<bill, serving>>
  PROVE  DataInv'
<1>1. /\ UNCHANGED <<bill, round, order, firing>> /\ s \in Sales
      /\ line' = Released(s) /\ sale' = [sale EXCEPT ![s].st = "voided"]
  BY DEF serving, VoidSale
<1>2. ASSUME NEW d \in Dishes
      PROVE  /\ line'[d].bill = line[d].bill /\ line'[d].round = line[d].round
             /\ line'[d].sale = IF line[d].sale = s THEN NoSale ELSE line[d].sale
  BY <1>1 DEF Released, TypeOK, Line
<1>3. /\ sale'[s].st = "voided"
      /\ \A q \in Sales : q # s => sale'[q] = sale[q]
  BY <1>1 DEF TypeOK, Sale
<1>4. \A d \in Dishes : line[d].sale # NoSale => line[d].sale \in Sales
  BY DEF TypeOK, Line
<1>5. PaidOnce'
  <2>1. ASSUME NEW d \in Dishes, line'[d].sale # NoSale
        PROVE  sale'[line'[d].sale].st \in {"completed", "refunded"}
    BY <2>1, <1>2, <1>3, <1>4 DEF DataInv, PaidOnce, Standing
  <2>2. ASSUME NEW d \in Dishes, NEW q \in Sales, sale'[q].st \in {"completed", "refunded"}
        PROVE  d \in sale'[q].lines <=> line'[d].sale = q
    <3>1. q # s /\ sale'[q] = sale[q] /\ q # NoSale
      BY <2>2, <1>3, NoSaleIsNone
    <3>2. d \in sale[q].lines <=> line[d].sale = q
      BY <2>2, <3>1 DEF DataInv, PaidOnce, Standing
    <3>3. QED
      BY <3>1, <3>2, <1>2
  <2>3. QED
    BY <2>1, <2>2 DEF PaidOnce, Standing
<1>6. ChargedIsFired'
  BY <1>2, <1>3, LinesAreDishes DEF DataInv, ChargedIsFired, Standing
<1>7. QED
  BY <1>1, <1>2, <1>5, <1>6, SalesMove DEF DataInv, LineInv

LEMMA ReceiptsStep == TypeOK /\ DataInv /\ OfReceipts => DataInv'
<1>. SUFFICES ASSUME TypeOK, DataInv, OfReceipts PROVE DataInv'
  OBVIOUS
<1>1. ASSUME NEW s \in Sales, CashierVoids(s) PROVE DataInv'
  BY <1>1, VoidKeeps DEF CashierVoids
<1>2. ASSUME NEW s \in Sales, RetryRegisters(s) PROVE DataInv'
  <2>1. SalesStand
    BY <1>2 DEF RetryRegisters, SalesStand, Standing, TypeOK, Sale
  <2>2. QED
    BY <1>2, <2>1, RowsStay DEF RetryRegisters, serving, NoneCancelled
<1>3. ASSUME NEW s \in Sales, NEW d \in Dishes, Refund(s, d) PROVE DataInv'
  <2>1. PICK st \in {"completed", "refunded"} :
          sale' = [sale EXCEPT ![s] = [sale[s] EXCEPT !.back = sale[s].back \union {d}, !.st = st]]
    BY <1>3 DEF Refund
  <2>2. /\ sale'[s].st = st /\ sale'[s].lines = sale[s].lines /\ sale'[s].bill = sale[s].bill
        /\ \A q \in Sales : q # s => sale'[q] = sale[q]
    BY <2>1 DEF TypeOK, Sale
  <2>3. SalesStand
    BY <1>3, <2>2 DEF Refund, SalesStand, Standing
  <2>4. QED
    BY <1>3, <2>3, RowsStay DEF Refund, NoneCancelled
<1>4. QED
  BY <1>1, <1>2, <1>3 DEF OfReceipts

LEMMA RingKeeps ==
  ASSUME TypeOK, DataInv, NEW s \in Sales, NEW b \in Bills, NEW plates \in SUBSET Owed(b),
         sale[s].st = "none", line' = Attached(s, plates), UNCHANGED <<bill, serving>>,
         sale'[s].st = "completed", sale'[s].bill = b, sale'[s].lines = plates,
         \A q \in Sales : q # s => sale'[q] = sale[q]
  PROVE  DataInv'
<1>1. ASSUME NEW d \in Dishes
      PROVE  /\ line'[d].bill = line[d].bill /\ line'[d].round = line[d].round
             /\ line'[d].sale = IF d \in plates THEN s ELSE line[d].sale
  BY DEF Attached, TypeOK, Line
<1>2. ASSUME NEW d \in plates
      PROVE  d \in Dishes /\ line[d].bill = b /\ line[d].sale = NoSale /\ line[d].round # 0
  BY <1>2 DEF Owed, Live, Rounds
<1>3. \A d \in Dishes : line[d].sale # NoSale => line[d].sale \in Sales
  BY DEF TypeOK, Line
<1>4. \A d \in Dishes : line[d].sale # s
  BY NoSaleIsNone DEF DataInv, PaidOnce, Standing
<1>5. PaidOnce'
  <2>1. ASSUME NEW d \in Dishes, line'[d].sale # NoSale
        PROVE  sale'[line'[d].sale].st \in {"completed", "refunded"}
    BY <2>1, <1>1, <1>3, <1>4 DEF DataInv, PaidOnce, Standing
  <2>2. ASSUME NEW d \in Dishes, NEW q \in Sales, sale'[q].st \in {"completed", "refunded"}
        PROVE  d \in sale'[q].lines <=> line'[d].sale = q
    <3>1. CASE q = s
      BY <3>1, <1>1, <1>4
    <3>2. CASE q # s
      <4>1. d \in sale[q].lines <=> line[d].sale = q
        BY <2>2, <3>2 DEF DataInv, PaidOnce, Standing
      <4>2. d \in plates => line[d].sale # q
        BY <1>2, NoSaleIsNone
      <4>3. QED
        BY <3>2, <4>1, <4>2, <1>1
    <3>3. QED
      BY <3>1, <3>2
  <2>3. QED
    BY <2>1, <2>2 DEF PaidOnce, Standing
<1>6. ChargedIsFired'
  BY <1>1, <1>2, LinesAreDishes DEF DataInv, ChargedIsFired, Standing
<1>7. UNCHANGED <<bill, round, order, firing>>
  BY DEF serving
<1>8. \A d \in Dishes : line[d].round = 0 => line'[d].sale = NoSale
  BY <1>1, <1>2 DEF DataInv, LineInv
<1>9. QED
  BY <1>1, <1>5, <1>6, <1>7, <1>8, SalesMove

LEMMA CompleteKeeps ==
  ASSUME TypeOK, DataInv, NEW p \in Payers, pay[p].step = "ring", CompleteSale(p),
         UNCHANGED <<bill, serving>>
  PROVE  DataInv'
<1> DEFINE b == pay[p].bill
           names == Head(pay[p].plan)
           plates == Charged(b, names)
<1>1. Now(p) \in Sales /\ sale[Now(p)].st = "none" /\ b \in 0..MaxBills
  BY DEF CompleteSale, Now, Sales, TypeOK, Frame
<1>2. CASE UNCHANGED <<line, sale>>
  BY <1>2, RowsStay DEF serving, NoneCancelled, SalesStand, Standing
<1>3. CASE /\ ~Refused(b, names) /\ line' = Attached(Now(p), plates)
           /\ sale' = [sale EXCEPT ![Now(p)] =
                  [st |-> "completed", bill |-> b, lines |-> plates, back |-> {},
                   doc |-> IF Fiscalises THEN "waiting" ELSE "none"]]
  <2>1. plates \in SUBSET Owed(b)
    BY DEF Charged, Named
  <2>2. b \in Bills
    <3>1. PICK d \in Owed(b) : TRUE
      BY <1>3, <2>1 DEF Refused
    <3>2. line[d].bill = b /\ line[d].round # 0 /\ d \in Dishes
      BY <3>1 DEF Owed, Live, Rounds
    <3>3. QED
      BY <1>1, <3>2, TableAssumption DEF DataInv, LineInv, Bills
  <2>3. /\ sale'[Now(p)].st = "completed" /\ sale'[Now(p)].bill = b
        /\ sale'[Now(p)].lines = plates
        /\ \A q \in Sales : q # Now(p) => sale'[q] = sale[q]
    <3>. HIDE DEF b, plates
    <3>1. QED
      BY <1>1, <1>3 DEF TypeOK
  <2>. HIDE DEF b, plates
  <2>4. QED
    BY <1>1, <1>3, <2>1, <2>2, <2>3, RingKeeps
<1>4. QED
  BY <1>2, <1>3 DEF CompleteSale

LEMMA PayingStep == TypeOK /\ DataInv /\ (\E p \in Payers : Paying(p)) => DataInv'
<1>. SUFFICES ASSUME TypeOK, DataInv, NEW p \in Payers, Paying(p) PROVE DataInv'
  OBVIOUS
<1>1. UNCHANGED bill => NoneCancelled
  BY DEF NoneCancelled
<1>2. UNCHANGED sale => SalesStand
  BY DEF SalesStand, Standing
<1>3. CASE UNCHANGED <<bill, line, sale, serving>>
  BY <1>1, <1>2, <1>3, RowsStay DEF serving
<1>4. CASE Ring(p)
  BY <1>3, <1>4, CompleteKeeps DEF Ring, Replayed
<1>5. ASSUME NEW answer \in {"done", "refused", "unknown"}, File(p, answer) PROVE DataInv'
  <2>1. SalesStand
    <3>1. PICK doc : sale' = [sale EXCEPT ![Now(p)].doc = doc]
      BY <1>5 DEF File
    <3>2. ASSUME NEW s \in Sales
          PROVE  sale'[s].st = sale[s].st /\ sale'[s].lines = sale[s].lines
                 /\ sale'[s].bill = sale[s].bill
      BY <3>1 DEF TypeOK, Sale
    <3>3. QED
      BY <3>2 DEF SalesStand, Standing
  <2>2. QED
    BY <1>1, <1>5, <2>1, RowsStay DEF File, serving
<1>6. CASE AbortSale(p)
  <2>1. Now(p) \in Sales
    BY DEF Now, Sales, TypeOK, Frame
  <2>2. QED
    BY <1>3, <1>6, <2>1, VoidKeeps DEF AbortSale, serving
<1>7. CASE Close(p)
  <2>1. NoneCancelled
    BY <1>7 DEF Close, NoneCancelled, Open, TypeOK, Bill
  <2>2. QED
    BY <1>2, <1>7, <2>1, RowsStay DEF Close, serving
<1>8. QED
  BY <1>3, <1>4, <1>5, <1>6, <1>7 DEF Paying, PlanBillReceipts, Gate, Settle

LEMMA DataInit == Init => DataInv
<1>. SUFFICES ASSUME Init PROVE DataInv
  OBVIOUS
<1>1. \A d \in Dishes : line[d].bill = 0 /\ line[d].round = 0 /\ line[d].sale = NoSale
  BY DEF Init, NoLine
<1>2. \A s \in Sales : ~Standing(s)
  BY DEF Init, Standing
<1>3. \A g \in Guests : ~Fired(g) /\ firing[g] = 0 /\ order[g].st = "none"
  BY TableAssumption DEF Init, Fired
<1>4. \A b \in Bills : bill[b].st = "none"
  BY DEF Init
<1>5. LineInv /\ OrderInv /\ AnsweredOnce
  BY <1>1, <1>3, TableAssumption DEF LineInv, OrderInv, AnsweredOnce
<1>6. PaidOnce /\ ChargedIsFired /\ CancelledHoldsNothing
  BY <1>1, <1>2, <1>4, NoSaleIsNone DEF PaidOnce, ChargedIsFired, CancelledHoldsNothing
<1>7. QED
  BY <1>5, <1>6 DEF DataInv

LEMMA DataNext == TypeOK /\ DataInv /\ [Next]_vars => DataInv'
<1>. SUFFICES ASSUME TypeOK, DataInv, [Next]_vars PROVE DataInv'
  OBVIOUS
<1>1. CASE Crash
  BY <1>1, RowsStay DEF Crash, NoneCancelled, SalesStand, Standing
<1>2. CASE UNCHANGED vars
  BY <1>2, RowsStay DEF vars, NoneCancelled, SalesStand, Standing
<1>3. QED
  BY <1>1, <1>2, TableStep, KitchenStep, GuestsStep, ReceiptsStep, PayingStep DEF Next

LEMMA Inductive == Spec => []IInv
<1>1. Init => IInv
  BY TypeInit, DataInit DEF IInv, DataInv
<1>2. IInv /\ [Next]_vars => IInv'
  BY TypeNext, DataNext DEF IInv, DataInv
<1>3. QED
  BY <1>1, <1>2, PTL DEF Spec

----------------------------------------------------------------------------------
(* Theorems                                                                        *)

\* Bills, rows, rounds, orders, receipts and calls keep their types: no call runs past
\* the receipts it planned, whatever is refused, undone or repeated on the way.
THEOREM TypeCorrect == Spec => []TypeOK
<1>1. IInv => TypeOK
  BY DEF IInv
<1>2. QED
  BY <1>1, Inductive, PTL

\* No plate is on two receipts that stand, and its row names the one it is on, for any
\* number of screens, plates and plans (attachPaidLine, releasePaidLines).
THEOREM PaidOnceHolds == Spec => []PaidOnce
<1>1. IInv => PaidOnce
  BY DEF IInv
<1>2. QED
  BY <1>1, Inductive, PTL

\* Every plate on a receipt that stands was fired, on the receipt's own bill
\* (lockedBillLines).
THEOREM ChargedIsFiredHolds == Spec => []ChargedIsFired
<1>1. IInv => ChargedIsFired
  BY DEF IInv
<1>2. QED
  BY <1>1, Inductive, PTL

\* A cancelled bill has no draft and no live round (cancelBill, fireRoundTx).
THEOREM CancelledHoldsNothingHolds == Spec => []CancelledHoldsNothing
<1>1. IInv => CancelledHoldsNothing
  BY DEF IInv
<1>2. QED
  BY <1>1, Inductive, PTL

\* An order not taken is on no bill, and one sent straight to the kitchen is the round
\* of its own uuid (tryAutoSend, acceptInTransaction).
THEOREM AnsweredOnceHolds == Spec => []AnsweredOnce
<1>1. IInv => AnsweredOnce
  BY DEF IInv
<1>2. QED
  BY <1>1, Inductive, PTL

(* A row that gets a round was not fired before, and its round is new.             *)
LEMMA SendsOnce ==
  ASSUME TypeOK, DataInv, [Next]_vars, NEW d \in Dishes, line[d].round = 0, line'[d].round # 0
  PROVE  ~Fired(round'[line'[d].round].tap)
<1>1. ASSUME NEW b, NEW t, NEW items, NEW rows, FireRoundTx(b, t, items, rows),
             rows \in [Dishes -> Line], rows[d].round = 0
      PROVE  ~Fired(round'[line'[d].round].tap)
  <2>1. CASE line' = rows
    BY <1>1, <2>1
  <2>2. CASE ~Fired(t) /\ Fires(b, t, items, rows)
    <3>1. PICK r \in Rounds :
            /\ round' = [round EXCEPT ![r] = [st |-> "live", bill |-> b, served |-> FALSE, tap |-> t]]
            /\ line' = [e \in Dishes |-> IF e \in items THEN [rows[e] EXCEPT !.round = r] ELSE rows[e]]
      BY <2>2 DEF Fires, NextRound
    <3>2. line'[d] = IF d \in items THEN [rows[d] EXCEPT !.round = r] ELSE rows[d]
      BY <3>1
    <3>3. rows[d] \in Line
      BY <1>1
    <3>4. line'[d].round = r
      BY <1>1, <3>2, <3>3 DEF Line
    <3>5. round'[r].tap = t
      BY <3>1 DEF TypeOK
    <3>6. QED
      BY <2>2, <3>4, <3>5
  <2>3. QED
    BY <1>1, <2>1, <2>2 DEF FireRoundTx
<1>2. line \in [Dishes -> Line]
  BY DEF TypeOK
<1>3. ASSUME NEW b \in Bills, NEW t \in Taps, FireRound(b, t)
      PROVE  ~Fired(round'[line'[d].round].tap)
  BY <1>1, <1>2, <1>3 DEF FireRound
<1>4. ASSUME NEW g \in Guests, NEW t \in Tables, NEW b \in Bills, AutoSend(g, t, b)
      PROVE  ~Fired(round'[line'[d].round].tap)
  <2> DEFINE rows == [line EXCEPT ![g] = [NoLine EXCEPT !.bill = b]]
  <2>1. rows \in [Dishes -> Line] /\ rows[d].round = 0 /\ FireRoundTx(b, g, {g}, rows)
    BY <1>2, <1>4, RowType, TableAssumption DEF AutoSend, NoLine
  <2>. HIDE DEF rows
  <2>2. QED
    BY <1>1, <2>1
<1>5. ASSUME NEW g \in Guests, AcceptFires(g)
      PROVE  ~Fired(round'[line'[d].round].tap)
  BY <1>1, <1>2, <1>5 DEF AcceptFires
<1>6. ASSUME line'[d].round = line[d].round \/ line'[d].round = 0
      PROVE  ~Fired(round'[line'[d].round].tap)
  BY <1>6
<1>7. CASE AtTable
  BY <1>6, <1>7 DEF AtTable, OpenBill, MoveBill, AddDraftItem, OnBill, RemoveDraftItem, CancelBill,
                    NoLine, TypeOK
<1>8. ASSUME NEW g \in Guests, NEW b \in Bills, AcceptOrder(g, b)
      PROVE  ~Fired(round'[line'[d].round].tap)
  BY <1>6, <1>8 DEF AcceptOrder, OnBill, NoLine, TypeOK
<1>9. CASE OfReceipts
  <2>1. ASSUME NEW s \in Sales, VoidSale(s) PROVE ~Fired(round'[line'[d].round].tap)
    BY <1>6, <2>1 DEF VoidSale, Released, TypeOK, Line
  <2>2. QED
    BY <1>6, <1>9, <2>1 DEF OfReceipts, CashierVoids, Refund, RetryRegisters
<1>10. CASE \E p \in Payers : Paying(p)
  BY <1>6, <1>10 DEF Paying, PlanBillReceipts, Gate, Ring, Replayed, CompleteSale, Attached, File,
                     AbortSale, VoidSale, Released, Settle, Close, TypeOK, Line
<1>11. ASSUME UNCHANGED line
       PROVE  ~Fired(round'[line'[d].round].tap)
  BY <1>11
<1>12. QED
  BY <1>3, <1>4, <1>5, <1>7, <1>8, <1>9, <1>10, <1>11
     DEF Next, InKitchen, ByGuests, CancelRound, SetRoundPrep, AskWaiter, DropOrder, Crash, vars

\* Once a tap's uuid has fired, no later step sends another plate under it, however the
\* tap, the guest's order and the process behave (fireRoundTx).
THEOREM TapSendsOnceHolds == Spec => TapSendsOnce
<1>1. IInv /\ [Next]_vars =>
        \A d \in Dishes : line[d].round = 0 /\ line'[d].round # 0
           => ~Fired(round'[line'[d].round].tap)
  BY SendsOnce DEF IInv, DataInv
<1>2. QED
  BY <1>1, Inductive, PTL DEF Spec, TapSendsOnce

----------------------------------------------------------------------------------
(* What a fold adds up.  Induction is on numbers: a set of naturals that is not    *)
(* empty has a least one, and the first number a fact fails at is refuted.         *)

LEMMA LeastNat ==
  ASSUME NEW T \in SUBSET Nat, T # {}
  PROVE  \E n \in T : \A m \in T : n <= m
<1>1. PICK n \in T : \A m \in T : ~ (<<m, n>> \in OpToRel(<, Nat))
  BY NatLessThanWellFounded, WFMin
<1>2. \A m \in T : ~ (m < n)
  BY <1>1 DEF OpToRel
<1>3. QED
  BY <1>2

\* The equation a fold over the subsets of S solves: g adds the terms of f.
Pick(T) == CHOOSE i \in T : TRUE
Term(g, f, T) == IF T = {} THEN 0 ELSE g[T \ {Pick(T)}] + f[Pick(T)]
Folded(g, f, S) == [T \in SUBSET S |-> Term(g, f, T)]
Adds(g, f, S) == \A T \in SUBSET S : g[T] = Term(g, f, T)

LEMMA SizeLess ==
  ASSUME NEW T, IsFiniteSet(T), NEW i \in T
  PROVE  /\ IsFiniteSet(T \ {i}) /\ Cardinality(T \ {i}) = Cardinality(T) - 1
         /\ Cardinality(T) \in Nat \ {0} /\ Cardinality(T \ {i}) \in Nat
BY FS_RemoveElement, FS_CardinalityType, FS_EmptySet

\* It has a solution.
LEMMA AddsExists ==
  ASSUME NEW S, IsFiniteSet(S), NEW f
  PROVE  \E g : g = Folded(g, f, S)
<1> DEFINE Upto(g, n) == \A T \in SUBSET S : Cardinality(T) <= n => g[T] = Term(g, f, T)
           Bad == {n \in Nat : ~ \E g : Upto(g, n)}
<1>1. \A T \in SUBSET S : IsFiniteSet(T) /\ Cardinality(T) \in Nat
  BY FS_Subset, FS_CardinalityType
<1>2. \A T \in SUBSET S : T # {} => /\ Pick(T) \in T /\ T \ {Pick(T)} \in SUBSET S
                                    /\ Cardinality(T \ {Pick(T)}) = Cardinality(T) - 1
                                    /\ Cardinality(T) # 0
  BY <1>1, SizeLess DEF Pick
<1>3. 0 \notin Bad
  <2> DEFINE g == [T \in SUBSET S |-> 0]
  <2>1. \A T \in SUBSET S : Cardinality(T) <= 0 => T = {}
    <3> SUFFICES ASSUME NEW T \in SUBSET S, T # {} PROVE ~ (Cardinality(T) <= 0)
      OBVIOUS
    <3>1. Cardinality(T) \in Nat /\ Cardinality(T) # 0
      BY <1>1, <1>2
    <3>2. QED
      BY <3>1
  <2>2. \A T \in SUBSET S : g[T] = 0
    OBVIOUS
  <2>3. Upto(g, 0)
    <3> HIDE DEF g
    <3>1. QED
      BY <2>1, <2>2 DEF Term
  <2> HIDE DEF Upto
  <2>4. QED
    BY <2>3
<1>4. ASSUME NEW n \in Bad, \A m \in Bad : n <= m PROVE FALSE
  <2>1. n - 1 \in Nat /\ n - 1 \notin Bad
    <3>1. n \in Nat /\ n # 0
      BY <1>3
    <3>2. n - 1 \in Nat /\ ~ (n <= n - 1)
      BY <3>1
    <3> HIDE DEF Bad
    <3>3. QED
      BY <1>4, <3>2
  <2>2. PICK g : Upto(g, n - 1)
    BY <2>1
  <2> DEFINE h == [T \in SUBSET S |-> IF Cardinality(T) <= n - 1 THEN g[T] ELSE Term(g, f, T)]
  <2>3. \A T \in SUBSET S : Cardinality(T) <= n - 1 => h[T] = g[T]
    OBVIOUS
  <2>4. \A T \in SUBSET S : Cardinality(T) <= n => Term(h, f, T) = Term(g, f, T)
    <3> HIDE DEF h
    <3> SUFFICES ASSUME NEW T \in SUBSET S, Cardinality(T) <= n, T # {}
                 PROVE  h[T \ {Pick(T)}] = g[T \ {Pick(T)}]
      BY DEF Term
    <3>1. QED
      BY <1>1, <1>2, <2>3
  <2>5. \A T \in SUBSET S : Cardinality(T) <= n => h[T] = Term(g, f, T)
    BY <2>2
  <2>6. Upto(h, n)
    <3> HIDE DEF h
    <3>1. QED
      BY <2>4, <2>5
  <2> HIDE DEF Upto
  <2>7. QED
    BY <2>6
<1>5. Bad = {}
  <2>1. Bad \in SUBSET Nat
    OBVIOUS
  <2> HIDE DEF Bad
  <2>2. QED
    BY <1>4, <2>1, LeastNat
<1>6. PICK g : Upto(g, Cardinality(S))
  BY <1>1, <1>5
<1>7. \A T \in SUBSET S : g[T] = Term(g, f, T)
  BY <1>1, <1>6, FS_Subset
<1> DEFINE h == [T \in SUBSET S |-> g[T]]
<1>8. \A T \in SUBSET S : h[T] = g[T] /\ Term(h, f, T) = Term(g, f, T)
  BY <1>2 DEF Term
<1>9. h = [T \in SUBSET S |-> h[T]]
  OBVIOUS
<1> HIDE DEF h
<1>10. h = Folded(h, f, S)
  BY <1>7, <1>8, <1>9 DEF Folded
<1>11. QED
  BY <1>10

\* Its sums are integers, whichever element goes first, and there is one of them.
LEMMA AddsInt ==
  ASSUME NEW S, IsFiniteSet(S), NEW f, \A i \in S : f[i] \in Int, NEW g, Adds(g, f, S)
  PROVE  g[S] \in Int
<1> DEFINE Bad == {n \in Nat : \E T \in SUBSET S : Cardinality(T) = n /\ g[T] \notin Int}
<1>1. \A T \in SUBSET S : IsFiniteSet(T) /\ Cardinality(T) \in Nat
  BY FS_Subset, FS_CardinalityType
<1>2. ASSUME NEW n \in Bad, \A m \in Bad : n <= m PROVE FALSE
  <2>1. PICK T \in SUBSET S : Cardinality(T) = n /\ g[T] \notin Int
    OBVIOUS
  <2>2. T # {} /\ g[T] = g[T \ {Pick(T)}] + f[Pick(T)]
    <3>1. T = {} => g[T] = 0
      BY DEF Adds, Term
    <3>2. T # {}
      BY <2>1, <3>1
    <3>3. QED
      BY <3>2 DEF Adds, Term
  <2>3. Pick(T) \in T
    BY <2>2 DEF Pick
  <2>4. Cardinality(T \ {Pick(T)}) = n - 1 /\ n - 1 \in Nat
    BY <1>1, <2>1, <2>3, SizeLess
  <2>5. n - 1 \notin Bad
    BY <1>2, <2>4
  <2>6. g[T \ {Pick(T)}] \in Int
    BY <2>4, <2>5
  <2>7. QED
    BY <2>1, <2>2, <2>3, <2>6
<1>3. Bad = {}
  <2>1. Bad \in SUBSET Nat
    OBVIOUS
  <2> HIDE DEF Bad
  <2>2. QED
    BY <1>2, <2>1, LeastNat
<1>4. QED
  BY <1>1, <1>3

LEMMA AddsAny ==
  ASSUME NEW S, IsFiniteSet(S), NEW f, \A i \in S : f[i] \in Int, NEW g, Adds(g, f, S),
         NEW last \in S
  PROVE  g[S] = g[S \ {last}] + f[last]
<1> DEFINE Good(T) == \A i \in T : g[T] = g[T \ {i}] + f[i]
           Bad == {n \in Nat : \E T \in SUBSET S : Cardinality(T) = n /\ ~ Good(T)}
<1>1. \A T \in SUBSET S : IsFiniteSet(T) /\ Cardinality(T) \in Nat /\ g[T] \in Int
  <2> SUFFICES ASSUME NEW T \in SUBSET S PROVE IsFiniteSet(T) /\ Cardinality(T) \in Nat /\ g[T] \in Int
    OBVIOUS
  <2>1. IsFiniteSet(T) /\ Cardinality(T) \in Nat
    BY FS_Subset, FS_CardinalityType
  <2>2. (\A i \in T : f[i] \in Int) /\ Adds(g, f, T)
    BY DEF Adds
  <2>3. QED
    BY <2>1, <2>2, AddsInt
<1>2. ASSUME NEW n \in Bad, \A m \in Bad : n <= m PROVE FALSE
  <2>1. PICK T \in SUBSET S : Cardinality(T) = n /\ ~ Good(T)
    OBVIOUS
  <2>2. PICK i \in T : g[T] # g[T \ {i}] + f[i]
    BY <2>1
  <2> DEFINE k == Pick(T)
  <2>3. k \in T /\ g[T] = g[T \ {k}] + f[k]
    BY <2>2 DEF Adds, Term, Pick
  <2> HIDE DEF k
  <2>4. k # i
    BY <2>2, <2>3
  <2>5. Cardinality(T \ {k}) = n - 1 /\ Cardinality(T \ {i}) = n - 1 /\ n - 1 \in Nat
    BY <1>1, <2>1, <2>2, <2>3, SizeLess
  <2>6. n - 1 \notin Bad
    BY <1>2, <2>5
  <2>7. Good(T \ {k}) /\ Good(T \ {i})
    BY <2>5, <2>6
  <2>8. i \in T \ {k} /\ k \in T \ {i} /\ (T \ {k}) \ {i} = (T \ {i}) \ {k}
    BY <2>2, <2>3, <2>4
  <2>9. g[T \ {k}] = g[(T \ {i}) \ {k}] + f[i] /\ g[T \ {i}] = g[(T \ {i}) \ {k}] + f[k]
    BY <2>7, <2>8
  <2>10. g[(T \ {i}) \ {k}] \in Int /\ f[i] \in Int /\ f[k] \in Int
    BY <1>1, <2>2, <2>3
  <2>11. QED
    BY <2>2, <2>3, <2>9, <2>10
<1>3. Bad = {}
  <2>1. Bad \in SUBSET Nat
    OBVIOUS
  <2> HIDE DEF Bad
  <2>2. QED
    BY <1>2, <2>1, LeastNat
<1>4. Good(S)
  BY <1>1, <1>3
<1>5. QED
  BY <1>4

LEMMA AddsOne ==
  ASSUME NEW S, IsFiniteSet(S), NEW f, NEW e, \A i \in S : e[i] = f[i], NEW g, Adds(g, f, S), NEW h, Adds(h, e, S)
  PROVE  g[S] = h[S]
<1> DEFINE Bad == {n \in Nat : \E T \in SUBSET S : Cardinality(T) = n /\ g[T] # h[T]}
<1>1. \A T \in SUBSET S : IsFiniteSet(T) /\ Cardinality(T) \in Nat
  BY FS_Subset, FS_CardinalityType
<1>2. ASSUME NEW n \in Bad, \A m \in Bad : n <= m PROVE FALSE
  <2>1. PICK T \in SUBSET S : Cardinality(T) = n /\ g[T] # h[T]
    OBVIOUS
  <2>2. T # {}
    BY <2>1 DEF Adds, Term
  <2>3. /\ Pick(T) \in T
        /\ g[T] = g[T \ {Pick(T)}] + f[Pick(T)] /\ h[T] = h[T \ {Pick(T)}] + e[Pick(T)]
    BY <2>2 DEF Pick, Adds, Term
  <2>4. Cardinality(T \ {Pick(T)}) = n - 1 /\ n - 1 \in Nat
    BY <1>1, <2>1, <2>3, SizeLess
  <2>5. n - 1 \notin Bad
    BY <1>2, <2>4
  <2>6. g[T \ {Pick(T)}] = h[T \ {Pick(T)}]
    BY <2>4, <2>5
  <2>7. QED
    BY <2>1, <2>3, <2>6
<1>3. Bad = {}
  <2>1. Bad \in SUBSET Nat
    OBVIOUS
  <2> HIDE DEF Bad
  <2>2. QED
    BY <1>2, <2>1, LeastNat
<1>4. QED
  BY <1>1, <1>3

\* SumTo adds the terms one after the other.
LEMMA SumToAdds ==
  ASSUME NEW n \in Nat, NEW f
  PROVE  \E g : Adds(g, f, 1..n) /\ SumTo(f, n) = g[1..n]
<1> DEFINE Step(g) == [T \in SUBSET (1..n) |->
              IF T = {} THEN 0 ELSE g[T \ {CHOOSE i \in T : TRUE}] + f[CHOOSE i \in T : TRUE]]
           g == CHOOSE h : h = Step(h)
<1>1. SumTo(f, n) = g[1..n]
  BY DEF SumTo, FoldSet, MapThenFoldSet
<1>2. \A h : Step(h) = Folded(h, f, 1..n)
  BY DEF Folded, Term, Pick
<1>3. IsFiniteSet(1..n)
  BY FS_Interval
<1>4. \E h : h = Folded(h, f, 1..n)
  <2> DEFINE S == 1..n
  <2>1. IsFiniteSet(S)
    BY <1>3
  <2> HIDE DEF S
  <2>2. \E h : h = Folded(h, f, S)
    BY <2>1, AddsExists
  <2>3. QED
    BY <2>2 DEF S
<1> HIDE DEF Step
<1>5. \E h : h = Step(h)
  BY <1>2, <1>4
<1>6. g = Step(g)
  BY <1>5
<1> HIDE DEF g
<1>7. Adds(g, f, 1..n)
  BY <1>2, <1>6 DEF Adds, Folded
<1>8. QED
  BY <1>1, <1>7

LEMMA SumToNext ==
  ASSUME NEW n \in Nat, NEW f, \A i \in 1..n : f[i] \in Int
  PROVE  /\ SumTo(f, n) \in Int /\ SumTo(f, 0) = 0
         /\ n # 0 => SumTo(f, n) = SumTo(f, n - 1) + f[n]
<1>1. PICK g : Adds(g, f, 1..n) /\ SumTo(f, n) = g[1..n]
  BY SumToAdds
<1>2. IsFiniteSet(1..n)
  BY FS_Interval
<1>3. SumTo(f, n) \in Int
  BY <1>1, <1>2, AddsInt
<1>4. SumTo(f, 0) = 0
  <2>1. PICK h : Adds(h, f, 1..0) /\ SumTo(f, 0) = h[1..0]
    BY SumToAdds
  <2>2. 1..0 = {}
    OBVIOUS
  <2>3. QED
    BY <2>1, <2>2 DEF Adds, Term
<1>5. ASSUME n # 0 PROVE SumTo(f, n) = SumTo(f, n - 1) + f[n]
  <2>1. n - 1 \in Nat /\ n \in 1..n /\ (1..n) \ {n} = 1..(n - 1) /\ 1..(n - 1) \in SUBSET (1..n)
    BY <1>5
  <2>2. PICK h : Adds(h, f, 1..(n - 1)) /\ SumTo(f, n - 1) = h[1..(n - 1)]
    BY <2>1, SumToAdds
  <2>3. g[1..n] = g[1..(n - 1)] + f[n]
    <3> DEFINE S == 1..n
    <3>1. IsFiniteSet(S) /\ Adds(g, f, S) /\ \A i \in S : f[i] \in Int
      BY <1>1, <1>2
    <3>2. n \in S /\ S \ {n} = 1..(n - 1)
      BY <2>1
    <3> HIDE DEF S
    <3>3. g[S] = g[S \ {n}] + f[n]
      BY <3>1, <3>2, AddsAny
    <3>4. QED
      BY <3>2, <3>3 DEF S
  <2>4. Adds(g, f, 1..(n - 1)) /\ IsFiniteSet(1..(n - 1))
    <3>1. \A T \in SUBSET (1..(n - 1)) : T \in SUBSET (1..n)
      BY <2>1
    <3>2. IsFiniteSet(1..(n - 1))
      BY <2>1, FS_Interval
    <3>3. QED
      BY <1>1, <3>1, <3>2 DEF Adds
  <2>5. g[1..(n - 1)] = h[1..(n - 1)]
    BY <2>2, <2>4, AddsOne
  <2>6. QED
    BY <1>1, <2>2, <2>3, <2>5
<1>6. QED
  BY <1>3, <1>4, <1>5

\* Each share is no more than its total, and times the sum no more than its part of the whole.
LEMMA Spread ==
  ASSUME NEW a \in Nat, NEW b \in Int, NEW c \in Int
  PROVE  a * (b + c) = a * b + a * c /\ a * b \in Int /\ a * c \in Int
OBVIOUS

LEMMA BothUp ==
  ASSUME NEW m \in Nat, NEW s \in Nat, NEW a \in Int, NEW b \in Int, NEW c \in Int, NEW d \in Int,
         s * a <= m * b, s * c <= m * d
  PROVE  s * (a + c) <= m * (b + d)
<1>1. /\ s * (a + c) = s * a + s * c /\ s * a \in Int /\ s * c \in Int
      /\ m * (b + d) = m * b + m * d /\ m * b \in Int /\ m * d \in Int
  BY Spread
<1>2. QED
  BY <1>1

LEMMA Scaled ==
  ASSUME NEW a \in Nat, NEW b \in Int, NEW c \in Int, b <= c
  PROVE  a * b <= a * c
<1> DEFINE d == c - b
<1>1. d \in Nat /\ c = b + d
  OBVIOUS
<1> HIDE DEF d
<1>2. a * d \in Nat /\ a * b \in Int
  BY <1>1
<1>3. a * (b + d) = a * b + a * d
  BY <1>1
<1>4. QED
  BY <1>1, <1>2, <1>3

LEMMA Quotient ==
  ASSUME NEW m \in Nat, NEW s \in Nat \ {0}, m <= s, NEW t \in Nat
  PROVE  /\ (m * t) \div s \in 0..t
         /\ s * ((m * t) \div s) <= m * t
<1> DEFINE a == m * t
           q == a \div s
<1>1. a \in Nat
  OBVIOUS
<1>2. a <= s * t
  <2>1. t * m <= t * s
    BY Scaled
  <2>2. t * m = m * t /\ t * s = s * t
    OBVIOUS
  <2>3. QED
    BY <2>1, <2>2
<1>3. q \in Nat /\ s * q <= a
  <2> HIDE DEF a
  <2>1. QED
    BY <1>1
<1>4. q <= t
  <2> HIDE DEF a, q
  <2>1. s * q <= s * t
    BY <1>1, <1>2, <1>3
  <2>2. ASSUME q >= t + 1 PROVE FALSE
    <3>1. s * (t + 1) <= s * q
      BY <1>3, <2>2, Scaled
    <3>2. s * (t + 1) = s * t + s
      OBVIOUS
    <3>3. s * t \in Nat /\ s * q \in Nat
      BY <1>3
    <3>4. QED
      BY <2>1, <3>1, <3>2, <3>3
  <2>3. QED
    BY <1>3, <2>2
<1>5. QED
  BY <1>3, <1>4

LEMMA TotalsLen ==
  ASSUME NEW n \in Nat, NEW totals \in [1..n -> Nat]
  PROVE  Len(totals) = n
<1>1. totals \in Seq(Nat)
  OBVIOUS
<1>2. Len(totals) \in Nat /\ 1..Len(totals) = 1..n
  BY <1>1, LenProperties
<1>3. QED
  BY <1>2

LEMMA SharesFit ==
  ASSUME NEW n \in Nat, NEW totals \in [1..n -> Nat], NEW whole \in Nat
  PROVE  LET sum == SumTo(totals, n)
             shares == Shares(totals, whole)
         IN  /\ sum \in Nat /\ shares \in [1..n -> Nat]
             /\ \A i \in 1..n : shares[i] <= totals[i]
             /\ SumTo(shares, n) \in Int /\ SumTo(shares, n) <= Lesser(whole, sum)
<1> DEFINE sum == SumTo(totals, n)
           shares == Shares(totals, whole)
           m == Lesser(whole, sum)
<1>1. Len(totals) = n
  BY TotalsLen
<1>2. \A k \in 0..n : /\ SumTo(totals, k) \in Int /\ SumTo(totals, 0) = 0
                      /\ k # 0 => SumTo(totals, k) = SumTo(totals, k - 1) + totals[k]
  <2> SUFFICES ASSUME NEW k \in 0..n
               PROVE  /\ SumTo(totals, k) \in Int /\ SumTo(totals, 0) = 0
                      /\ k # 0 => SumTo(totals, k) = SumTo(totals, k - 1) + totals[k]
    OBVIOUS
  <2>1. k \in Nat /\ \A i \in 1..k : totals[i] \in Int
    OBVIOUS
  <2>2. QED
    BY <2>1, SumToNext
<1>3. \A k \in 0..n : SumTo(totals, k) >= 0
  <2> DEFINE Bad == {k \in 0..n : ~ (SumTo(totals, k) >= 0)}
  <2>1. ASSUME NEW k \in Bad, \A j \in Bad : k <= j PROVE FALSE
    <3>1. k \in 0..n /\ k # 0
      BY <1>2
    <3>2. k - 1 \in 0..n /\ ~ (k <= k - 1) /\ totals[k] \in Nat
      BY <3>1
    <3>3. SumTo(totals, k - 1) >= 0
      BY <2>1, <3>2
    <3>4. SumTo(totals, k) >= 0
      BY <1>2, <3>1, <3>2, <3>3
    <3>5. QED
      BY <3>4
  <2>2. Bad \in SUBSET Nat
    OBVIOUS
  <2> HIDE DEF Bad
  <2>3. Bad = {}
    BY <2>1, <2>2, LeastNat
  <2>4. QED
    BY <2>3 DEF Bad
<1>4. sum \in Nat
  BY <1>2, <1>3
<1>5. m \in Nat /\ m <= sum
  BY <1>4 DEF Lesser
<1>6. shares = [i \in 1..n |-> IF sum = 0 THEN 0 ELSE (m * totals[i]) \div sum]
  BY <1>1 DEF Shares
<1> HIDE DEF shares, sum, m
<1>7. \A i \in 1..n : shares[i] \in 0..totals[i] /\ sum * shares[i] <= m * totals[i]
  <2> SUFFICES ASSUME NEW i \in 1..n
               PROVE  shares[i] \in 0..totals[i] /\ sum * shares[i] <= m * totals[i]
    OBVIOUS
  <2>1. totals[i] \in Nat
    OBVIOUS
  <2>2. CASE sum = 0
    <3>1. shares[i] = 0 /\ m = 0
      BY <1>5, <1>6, <2>2
    <3>2. QED
      BY <2>1, <2>2, <3>1
  <2>3. CASE sum # 0
    <3>1. shares[i] = (m * totals[i]) \div sum
      BY <1>6, <2>3
    <3>2. QED
      BY <1>4, <1>5, <2>1, <2>3, <3>1, Quotient
  <2>4. QED
    BY <2>2, <2>3
<1>8. shares \in [1..n -> Nat] /\ \A i \in 1..n : shares[i] <= totals[i]
  <2>1. shares = [i \in 1..n |-> shares[i]]
    BY <1>6
  <2>2. \A i \in 1..n : shares[i] \in Nat /\ shares[i] <= totals[i]
    BY <1>7
  <2>3. QED
    BY <2>1, <2>2
<1>9. \A k \in 0..n : /\ SumTo(shares, k) \in Int /\ SumTo(shares, 0) = 0
                      /\ k # 0 => SumTo(shares, k) = SumTo(shares, k - 1) + shares[k]
  <2> SUFFICES ASSUME NEW k \in 0..n
               PROVE  /\ SumTo(shares, k) \in Int /\ SumTo(shares, 0) = 0
                      /\ k # 0 => SumTo(shares, k) = SumTo(shares, k - 1) + shares[k]
    OBVIOUS
  <2>1. k \in Nat /\ \A i \in 1..k : shares[i] \in Int
    BY <1>8
  <2>2. QED
    BY <2>1, SumToNext
<1>10. \A k \in 0..n : sum * SumTo(shares, k) <= m * SumTo(totals, k)
  <2> DEFINE Bad == {k \in 0..n : ~ (sum * SumTo(shares, k) <= m * SumTo(totals, k))}
  <2>1. ASSUME NEW k \in Bad, \A j \in Bad : k <= j PROVE FALSE
    <3>1. k \in 0..n /\ k # 0
      <4>1. sum * SumTo(shares, 0) = 0 /\ m * SumTo(totals, 0) = 0
        BY <1>2, <1>4, <1>5, <1>9
      <4>2. QED
        BY <4>1
    <3>2. k - 1 \in 0..n /\ ~ (k <= k - 1) /\ k \in 1..n
      BY <3>1
    <3>3. sum * SumTo(shares, k - 1) <= m * SumTo(totals, k - 1)
      BY <2>1, <3>2
    <3>4. sum * shares[k] <= m * totals[k]
      BY <1>7, <3>2
    <3>5. /\ SumTo(shares, k) = SumTo(shares, k - 1) + shares[k]
          /\ SumTo(totals, k) = SumTo(totals, k - 1) + totals[k]
          /\ SumTo(shares, k - 1) \in Int /\ SumTo(totals, k - 1) \in Int
          /\ shares[k] \in Int /\ totals[k] \in Int
      BY <1>2, <1>8, <1>9, <3>1, <3>2
    <3>6. sum * (SumTo(shares, k - 1) + shares[k]) <= m * (SumTo(totals, k - 1) + totals[k])
      BY <1>4, <1>5, <3>3, <3>4, <3>5, BothUp
    <3>7. sum * SumTo(shares, k) <= m * SumTo(totals, k)
      BY <3>5, <3>6
    <3>8. QED
      BY <3>7
  <2>2. Bad \in SUBSET Nat
    OBVIOUS
  <2> HIDE DEF Bad
  <2>3. Bad = {}
    BY <2>1, <2>2, LeastNat
  <2>4. QED
    BY <2>3 DEF Bad
<1>11. SumTo(shares, n) <= m
  <2>1. sum * SumTo(shares, n) <= m * sum /\ SumTo(shares, n) \in Int
    BY <1>9, <1>10 DEF sum
  <2>2. CASE sum = 0
    <3>1. \A k \in 0..n : k # 0 => shares[k] = 0
      BY <1>6, <2>2
    <3> DEFINE Bad == {k \in 0..n : SumTo(shares, k) # 0}
    <3>2. ASSUME NEW k \in Bad, \A j \in Bad : k <= j PROVE FALSE
      <4>1. k \in 0..n /\ k # 0
        BY <1>9
      <4>2. k - 1 \in 0..n /\ ~ (k <= k - 1)
        BY <4>1
      <4>3. SumTo(shares, k - 1) = 0
        BY <3>2, <4>2
      <4>4. SumTo(shares, k) = SumTo(shares, k - 1) + shares[k] /\ shares[k] = 0
        BY <1>9, <3>1, <4>1
      <4>5. SumTo(shares, k) # 0
        OBVIOUS
      <4>6. QED
        BY <4>3, <4>4, <4>5
    <3>3. Bad \in SUBSET Nat
      OBVIOUS
    <3> HIDE DEF Bad
    <3>4. Bad = {}
      BY <3>2, <3>3, LeastNat
    <3>5. SumTo(shares, n) = 0
      BY <3>4 DEF Bad
    <3>6. QED
      BY <1>5, <3>5
  <2>3. CASE sum # 0
    <3> DEFINE u == SumTo(shares, n)
    <3>1. u \in Int /\ sum * u <= m * sum
      BY <2>1
    <3> HIDE DEF u
    <3>2. ASSUME u >= m + 1 PROVE FALSE
      <4>1. sum * (m + 1) <= sum * u
        <5>1. m + 1 \in Int /\ m + 1 <= u
          BY <1>5, <3>1, <3>2
        <5>2. QED
          BY <1>4, <3>1, <5>1, Scaled
      <4>2. sum * (m + 1) = m * sum + sum
        BY <1>4, <1>5
      <4>3. sum * u \in Int /\ m * sum \in Int
        BY <1>4, <1>5, <3>1
      <4>4. QED
        BY <1>4, <2>3, <3>1, <4>1, <4>2, <4>3
    <3>3. u <= m
      BY <1>5, <3>1, <3>2
    <3>4. QED
      BY <3>3 DEF u
  <2>4. QED
    BY <2>2, <2>3
<1>12. QED
  BY <1>4, <1>8, <1>9, <1>11 DEF shares, sum, m

\* What RestBefore computes, from the last part down.
LeftAfter(g, f, rest, n, i) == IF i = n THEN rest ELSE g[i + 1] - Lesser(g[i + 1], f[i + 1])
Passed(g, f, rest, n) == [i \in 0..n |-> LeftAfter(g, f, rest, n, i)]

LEMMA PassedExists ==
  ASSUME NEW n \in Nat, NEW f, NEW rest
  PROVE  \E g : g = Passed(g, f, rest, n)
<1> DEFINE Upto(g, k) == \A i \in 0..n : n - i <= k => g[i] = LeftAfter(g, f, rest, n, i)
           Bad == {k \in Nat : ~ \E g : Upto(g, k)}
<1>1. 0 \notin Bad
  <2> DEFINE g == [i \in 0..n |-> rest]
  <2>1. \A i \in 0..n : n - i <= 0 => i = n
    OBVIOUS
  <2>2. Upto(g, 0)
    BY <2>1 DEF LeftAfter
  <2> HIDE DEF Upto
  <2>3. QED
    BY <2>2
<1>2. ASSUME NEW k \in Bad, \A j \in Bad : k <= j PROVE FALSE
  <2>1. k - 1 \in Nat /\ k - 1 \notin Bad
    <3>1. k \in Nat /\ k # 0
      BY <1>1
    <3>2. k - 1 \in Nat /\ ~ (k <= k - 1)
      BY <3>1
    <3> HIDE DEF Bad
    <3>3. QED
      BY <1>2, <3>2
  <2>2. PICK g : Upto(g, k - 1)
    BY <2>1
  <2> DEFINE h == [i \in 0..n |-> IF n - i <= k - 1 THEN g[i] ELSE LeftAfter(g, f, rest, n, i)]
  <2>3. \A i \in 0..n : n - i <= k - 1 => h[i] = g[i]
    OBVIOUS
  <2>4. \A i \in 0..n : n - i <= k => LeftAfter(h, f, rest, n, i) = LeftAfter(g, f, rest, n, i)
    <3> HIDE DEF h
    <3> SUFFICES ASSUME NEW i \in 0..n, n - i <= k, i # n
                 PROVE  h[i + 1] = g[i + 1]
      BY DEF LeftAfter
    <3>1. i + 1 \in 0..n /\ n - (i + 1) <= k - 1
      BY <2>1
    <3>2. QED
      BY <2>3, <3>1
  <2>5. \A i \in 0..n : n - i <= k => h[i] = LeftAfter(g, f, rest, n, i)
    BY <2>2
  <2>6. Upto(h, k)
    <3> HIDE DEF h
    <3>1. QED
      BY <2>4, <2>5
  <2> HIDE DEF Upto
  <2>7. QED
    BY <2>6
<1>3. Bad = {}
  <2>1. Bad \in SUBSET Nat
    OBVIOUS
  <2> HIDE DEF Bad
  <2>2. QED
    BY <1>2, <2>1, LeastNat
<1>4. PICK g : Upto(g, n)
  BY <1>3
<1>5. \A i \in 0..n : g[i] = LeftAfter(g, f, rest, n, i)
  BY <1>4
<1> DEFINE h == [i \in 0..n |-> g[i]]
<1>6. \A i \in 0..n : h[i] = g[i] /\ LeftAfter(h, f, rest, n, i) = LeftAfter(g, f, rest, n, i)
  BY DEF LeftAfter
<1>7. h = [i \in 0..n |-> h[i]]
  OBVIOUS
<1> HIDE DEF h
<1>8. h = Passed(h, f, rest, n)
  BY <1>5, <1>6, <1>7 DEF Passed
<1>9. QED
  BY <1>8

Falls(left, totals, shares, rest, n) ==
    /\ left[n] = rest
    /\ \A i \in 0..n : i # n =>
         left[i] = left[i + 1] - Lesser(left[i + 1], totals[i + 1] - shares[i + 1])

LEMMA RestSteps ==
  ASSUME NEW n \in Nat, NEW totals \in [1..n -> Nat], NEW shares \in [1..n -> Nat], NEW rest \in Nat,
         NEW left, left = RestBefore(totals, shares, rest)
  PROVE  Falls(left, totals, shares, rest, n)
<1> DEFINE Step(g) == [i \in 0..n |-> IF i = n THEN rest
                                      ELSE g[i + 1] - Lesser(g[i + 1], totals[i + 1] - shares[i + 1])]
           down == CHOOSE g : g = Step(g)
           room == [i \in 1..n |-> totals[i] - shares[i]]
<1>1. Len(totals) = n
  BY TotalsLen
<1>2. left = down
  BY <1>1 DEF RestBefore
<1>3. \A g : Step(g) = Passed(g, room, rest, n)
  <2> SUFFICES ASSUME NEW g, NEW i \in 0..n, i # n
               PROVE  totals[i + 1] - shares[i + 1] = room[i + 1]
    BY DEF Passed, LeftAfter
  <2>1. i + 1 \in 1..n
    OBVIOUS
  <2>2. QED
    BY <2>1
<1>4. \E g : g = Passed(g, room, rest, n)
  BY PassedExists
<1> HIDE DEF Step
<1>5. \E g : g = Step(g)
  BY <1>3, <1>4
<1>6. down = Step(down)
  BY <1>5
<1> HIDE DEF down
<1>7. QED
  BY <1>2, <1>6 DEF Step, Falls

LEMMA SumToSteps ==
  ASSUME NEW n \in Nat, NEW f, \A i \in 1..n : f[i] \in Int
  PROVE  \A k \in 0..n : /\ SumTo(f, k) \in Int /\ SumTo(f, 0) = 0
                         /\ k # 0 => SumTo(f, k) = SumTo(f, k - 1) + f[k]
<1> SUFFICES ASSUME NEW k \in 0..n
             PROVE  /\ SumTo(f, k) \in Int /\ SumTo(f, 0) = 0
                    /\ k # 0 => SumTo(f, k) = SumTo(f, k - 1) + f[k]
  OBVIOUS
<1>1. k \in Nat /\ \A i \in 1..k : f[i] \in Int
  OBVIOUS
<1>2. QED
  BY <1>1, SumToNext

\* What the parts have room for takes the remainder to nothing.
LEMMA RestPasses ==
  ASSUME NEW n \in Nat, NEW totals \in [1..n -> Nat], NEW shares \in [1..n -> Nat],
         \A i \in 1..n : shares[i] <= totals[i],
         NEW rest \in Nat, rest + SumTo(shares, n) <= SumTo(totals, n)
  PROVE  LET left == RestBefore(totals, shares, rest)
         IN  /\ left[0] = 0 /\ left[n] = rest
             /\ \A i \in 0..n : left[i] \in Nat
             /\ \A i \in 1..n : left[i] - left[i - 1] \in 0..(totals[i] - shares[i])
<1> DEFINE left == RestBefore(totals, shares, rest)
<1>1. /\ left[n] = rest
      /\ \A i \in 0..n : i # n => left[i] = left[i + 1] - Lesser(left[i + 1], totals[i + 1] - shares[i + 1])
  <2>1. left = RestBefore(totals, shares, rest)
    OBVIOUS
  <2> HIDE DEF left
  <2>2. Falls(left, totals, shares, rest, n)
    BY <2>1, RestSteps
  <2>3. QED
    BY <2>2 DEF Falls
<1>2. /\ \A k \in 0..n : /\ SumTo(totals, k) \in Int /\ SumTo(totals, 0) = 0
                         /\ k # 0 => SumTo(totals, k) = SumTo(totals, k - 1) + totals[k]
      /\ \A k \in 0..n : /\ SumTo(shares, k) \in Int /\ SumTo(shares, 0) = 0
                         /\ k # 0 => SumTo(shares, k) = SumTo(shares, k - 1) + shares[k]
  <2>1. \A i \in 1..n : totals[i] \in Int /\ shares[i] \in Int
    OBVIOUS
  <2>2. QED
    BY <2>1, SumToSteps
<1> DEFINE R(k) == SumTo(totals, k) - SumTo(shares, k)
           Good(i) == left[i] \in Nat /\ (left[i] = 0 \/ left[i] = rest - (R(n) - R(i)))
           Bad == {j \in 0..n : ~ Good(n - j)}
<1> HIDE DEF left
<1>3. \A k \in 0..n : R(k) \in Int /\ (k # 0 => R(k) = R(k - 1) + (totals[k] - shares[k]))
  <2> SUFFICES ASSUME NEW k \in 0..n
               PROVE  R(k) \in Int /\ (k # 0 => R(k) = R(k - 1) + (totals[k] - shares[k]))
    OBVIOUS
  <2>1. SumTo(totals, k) \in Int /\ SumTo(shares, k) \in Int
    BY <1>2
  <2>2. ASSUME k # 0 PROVE R(k) = R(k - 1) + (totals[k] - shares[k])
    <3>1. k - 1 \in 0..n /\ totals[k] \in Int /\ shares[k] \in Int
      BY <2>2
    <3>2. SumTo(totals, k - 1) \in Int /\ SumTo(shares, k - 1) \in Int
      BY <1>2, <3>1
    <3>3. SumTo(totals, k) = SumTo(totals, k - 1) + totals[k] /\ SumTo(shares, k) = SumTo(shares, k - 1) + shares[k]
      BY <1>2, <2>2
    <3>4. QED
      BY <3>1, <3>2, <3>3
  <2>3. QED
    BY <2>1, <2>2
<1>4. R(0) = 0 /\ rest <= R(n) /\ R(n) \in Int
  <2>1. SumTo(totals, 0) = 0 /\ SumTo(shares, 0) = 0 /\ SumTo(totals, n) \in Int /\ SumTo(shares, n) \in Int
    BY <1>2
  <2>2. QED
    BY <2>1
<1> HIDE DEF R
\* One part's step.
<1>5. ASSUME NEW i \in 0..n, i # n, Good(i + 1)
      PROVE  Good(i) /\ left[i + 1] - left[i] \in 0..(totals[i + 1] - shares[i + 1])
  <2> DEFINE room == totals[i + 1] - shares[i + 1]
             a == left[i + 1]
  <2>1. room \in Nat /\ a \in Nat /\ (a = 0 \/ a = rest - (R(n) - R(i + 1)))
    BY <1>5
  <2>2. left[i] = a - Lesser(a, room)
    BY <1>1, <1>5
  <2>3. R(i + 1) = R(i) + room /\ R(i) \in Int /\ R(i + 1) \in Int
    <3>1. i + 1 \in 0..n /\ i + 1 # 0 /\ (i + 1) - 1 = i
      BY <1>5
    <3>2. QED
      BY <1>3, <3>1
  <2> HIDE DEF room, a
  <2>4. CASE a < room
    <3>1. left[i] = 0
      BY <2>1, <2>2, <2>4 DEF Lesser
    <3>2. a - left[i] \in 0..room
      BY <2>1, <2>4, <3>1
    <3>3. QED
      BY <3>1, <3>2 DEF room, a
  <2>5. CASE ~ (a < room)
    <3>1. left[i] = a - room
      BY <2>2, <2>5 DEF Lesser
    <3>2. left[i] \in Nat /\ a - left[i] \in 0..room
      BY <2>1, <2>5, <3>1
    <3>3. a = 0 => left[i] = 0
      BY <2>1, <2>5, <3>1
    <3>4. ASSUME a = rest - (R(n) - R(i + 1)) PROVE left[i] = rest - (R(n) - R(i))
      <4>1. \A x, y \in Int, z \in Nat : rest - (x - (y + z)) - z = rest - (x - y)
        OBVIOUS
      <4>2. left[i] = rest - (R(n) - (R(i) + room)) - room
        BY <2>3, <3>1, <3>4
      <4>3. QED
        BY <1>4, <2>1, <2>3, <4>1, <4>2
    <3>5. QED
      BY <2>1, <3>2, <3>3, <3>4 DEF room, a
  <2>6. QED
    BY <2>4, <2>5
<1>6. Bad = {}
  <2>1. ASSUME NEW j \in Bad, \A k \in Bad : j <= k PROVE FALSE
    <3>1. j \in 0..n /\ j # 0
      <4>1. Good(n)
        BY <1>1, <1>4
      <4>2. n - 0 = n
        OBVIOUS
      <4> HIDE DEF Good
      <4>3. QED
        BY <4>1, <4>2
    <3>2. j - 1 \in 0..n /\ ~ (j <= j - 1)
      BY <3>1
    <3>3. Good(n - (j - 1))
      BY <2>1, <3>2
    <3>4. n - j \in 0..n /\ n - j # n /\ n - (j - 1) = (n - j) + 1
      BY <3>1
    <3> HIDE DEF Good
    <3>5. Good(n - j)
      BY <1>5, <3>3, <3>4
    <3>6. QED
      BY <3>5
  <2>2. Bad \in SUBSET Nat
    OBVIOUS
  <2> HIDE DEF Bad
  <2>3. QED
    BY <2>1, <2>2, LeastNat
<1>7. \A i \in 0..n : Good(i)
  <2> SUFFICES ASSUME NEW i \in 0..n PROVE Good(i)
    OBVIOUS
  <2>1. n - i \in 0..n /\ n - (n - i) = i
    OBVIOUS
  <2> HIDE DEF Good
  <2>2. QED
    BY <1>6, <2>1
<1>8. left[0] = 0
  <2>1. Good(0)
    BY <1>7
  <2>2. left[0] = rest - (R(n) - R(0)) => left[0] <= 0
    BY <1>4
  <2>3. QED
    BY <2>1, <2>2
<1>9. \A i \in 1..n : left[i] - left[i - 1] \in 0..(totals[i] - shares[i])
  <2> SUFFICES ASSUME NEW i \in 1..n
               PROVE  left[i] - left[i - 1] \in 0..(totals[i] - shares[i])
    OBVIOUS
  <2>1. i - 1 \in 0..n /\ i - 1 # n /\ (i - 1) + 1 = i /\ i \in 0..n
    OBVIOUS
  <2> HIDE DEF Good
  <2>2. left[(i - 1) + 1] - left[i - 1] \in 0..(totals[(i - 1) + 1] - shares[(i - 1) + 1])
    BY <1>5, <1>7, <2>1
  <2>3. QED
    BY <2>1, <2>2
<1>10. QED
  BY <1>1, <1>7, <1>8, <1>9 DEF left

(* The parts of a discount add up to it, or to the bill when it is larger, and   *)
(* no receipt is discounted below nothing, for any number of receipts, any       *)
(* totals and any discount (shareDiscount).                                      *)
THEOREM DiscountShared ==
  ASSUME NEW n \in Nat, NEW totals \in [1..n -> Nat], NEW whole \in Nat
  PROVE  LET shares == ShareDiscount(totals, whole)
         IN  /\ SumTo(shares, n) = Lesser(whole, SumTo(totals, n))
             /\ \A i \in 1..n : shares[i] \in 0..totals[i]
<1> DEFINE sum == SumTo(totals, n)
           floor == Shares(totals, whole)
           m == Lesser(whole, sum)
           rest == m - SumTo(floor, n)
           left == RestBefore(totals, floor, rest)
           shares == [i \in 1..n |-> floor[i] + (left[i] - left[i - 1])]
<1>1. ShareDiscount(totals, whole) = shares
  <2>1. Len(totals) = n
    BY TotalsLen
  <2>2. QED
    BY <2>1 DEF ShareDiscount
<1>2. /\ sum \in Nat /\ floor \in [1..n -> Nat]
      /\ \A i \in 1..n : floor[i] <= totals[i]
      /\ SumTo(floor, n) \in Int /\ SumTo(floor, n) <= m
  BY SharesFit
<1>3. m \in Nat /\ m <= sum
  BY <1>2 DEF Lesser
<1>4. rest \in Nat /\ rest + SumTo(floor, n) = m
  BY <1>2, <1>3
<1> HIDE DEF floor, m, rest
<1>5. /\ left[0] = 0 /\ left[n] = rest
      /\ \A i \in 0..n : left[i] \in Nat
      /\ \A i \in 1..n : left[i] - left[i - 1] \in 0..(totals[i] - floor[i])
  BY <1>2, <1>3, <1>4, RestPasses
<1> HIDE DEF left
<1>6. \A i \in 1..n : shares[i] = floor[i] + (left[i] - left[i - 1])
  OBVIOUS
<1> HIDE DEF shares
<1>7. \A i \in 1..n : shares[i] \in 0..totals[i]
  <2> SUFFICES ASSUME NEW i \in 1..n PROVE shares[i] \in 0..totals[i]
    OBVIOUS
  <2>1. floor[i] \in Nat /\ totals[i] \in Nat /\ floor[i] <= totals[i]
    BY <1>2
  <2>2. left[i] - left[i - 1] \in 0..(totals[i] - floor[i])
    BY <1>5
  <2>3. shares[i] = floor[i] + (left[i] - left[i - 1])
    BY <1>6
  <2>4. QED
    BY <2>1, <2>2, <2>3
<1>8. /\ \A k \in 0..n : /\ SumTo(floor, k) \in Int /\ SumTo(floor, 0) = 0
                         /\ k # 0 => SumTo(floor, k) = SumTo(floor, k - 1) + floor[k]
      /\ \A k \in 0..n : /\ SumTo(shares, k) \in Int /\ SumTo(shares, 0) = 0
                         /\ k # 0 => SumTo(shares, k) = SumTo(shares, k - 1) + shares[k]
  <2>1. \A i \in 1..n : floor[i] \in Int /\ shares[i] \in Int
    BY <1>2, <1>7
  <2>2. QED
    BY <2>1, SumToSteps
<1> DEFINE Good(k) == SumTo(shares, k) = SumTo(floor, k) + left[k]
           Bad == {k \in 0..n : ~ Good(k)}
<1>9. Bad = {}
  <2>1. ASSUME NEW k \in Bad, \A j \in Bad : k <= j PROVE FALSE
    <3>1. k \in 0..n /\ k # 0
      BY <1>5, <1>8
    <3>2. k - 1 \in 0..n /\ ~ (k <= k - 1) /\ k \in 1..n
      BY <3>1
    <3>3. Good(k - 1)
      BY <2>1, <3>2
    <3>4. /\ SumTo(floor, k) = SumTo(floor, k - 1) + floor[k]
          /\ SumTo(shares, k) = SumTo(shares, k - 1) + shares[k]
          /\ SumTo(floor, k - 1) \in Int
      BY <1>8, <3>1, <3>2
    <3>5. shares[k] = floor[k] + (left[k] - left[k - 1]) /\ floor[k] \in Int
      BY <1>2, <1>6, <3>2
    <3>6. left[k] \in Int /\ left[k - 1] \in Int
      BY <1>5, <3>1, <3>2
    <3>7. Good(k)
      BY <3>3, <3>4, <3>5, <3>6
    <3>8. QED
      BY <3>7
  <2>2. Bad \in SUBSET Nat
    OBVIOUS
  <2> HIDE DEF Bad
  <2>3. QED
    BY <2>1, <2>2, LeastNat
<1>10. SumTo(shares, n) = m
  <2>1. Good(n)
    BY <1>9
  <2>2. SumTo(floor, n) \in Int
    BY <1>2
  <2>3. QED
    BY <1>4, <1>5, <2>1, <2>2
<1>11. QED
  BY <1>1, <1>7, <1>10 DEF m

\* At every bill's gate, whatever is planned there.
THEOREM SharesAddUpHolds == Spec => []SharesAddUp
<1>1. IInv => SharesAddUp
  <2> SUFFICES ASSUME IInv, NEW p \in Payers, pay[p].step = "gate"
               PROVE  FairShares[Len(pay[p].plan)]
    BY DEF SharesAddUp
  <2> DEFINE n == Len(pay[p].plan)
  <2>1. n \in Parts
    <3>1. pay[p].part \in Nat \ {0} /\ pay[p].plan \in Seq(SUBSET Dishes) /\ pay[p].plan # <<>>
      BY DEF IInv, TypeOK, Frame, Parts
    <3>2. n \in Nat \ {0}
      BY <3>1, LenProperties, EmptySeq
    <3>3. pay[p].part + n <= MaxParts + 1
      BY DEF IInv, FrameInv
    <3>4. MaxParts \in Nat
      BY TableAssumption
    <3>5. QED
      <4>1. n \in Nat /\ n >= 1 /\ n <= MaxParts
        BY <3>1, <3>2, <3>3, <3>4
      <4>2. QED
        BY <4>1, <3>4 DEF Parts
  <2> HIDE DEF n
  <2>2. n \in Nat
    BY <2>1, TableAssumption DEF Parts
  <2>3. \A totals \in [1..n -> 0..7], whole \in 0..16 :
          LET shares == ShareDiscount(totals, whole)
          IN  /\ SumTo(shares, n) = Lesser(whole, SumTo(totals, n))
              /\ \A i \in 1..n : shares[i] \in 0..totals[i]
    <3> SUFFICES ASSUME NEW totals \in [1..n -> 0..7], NEW whole \in 0..16
                 PROVE  LET shares == ShareDiscount(totals, whole)
                        IN  /\ SumTo(shares, n) = Lesser(whole, SumTo(totals, n))
                            /\ \A i \in 1..n : shares[i] \in 0..totals[i]
      OBVIOUS
    <3>1. totals \in [1..n -> Nat] /\ whole \in Nat
      OBVIOUS
    <3>2. QED
      BY <2>2, <3>1, DiscountShared
  <2>4. FairShares[n] = \A totals \in [1..n -> 0..7], whole \in 0..16 :
          LET shares == ShareDiscount(totals, whole)
          IN  /\ SumTo(shares, n) = Lesser(whole, SumTo(totals, n))
              /\ \A i \in 1..n : shares[i] \in 0..totals[i]
    BY <2>1 DEF FairShares
  <2>5. QED
    BY <2>3, <2>4 DEF n
<1>2. QED
  BY <1>1, Inductive, PTL
===================================================================================
