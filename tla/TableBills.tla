-------------------------------- MODULE TableBills --------------------------------
(* An open bill on a table, its rounds and the receipts that pay it             *)
(* (src/pos/bills.service.ts, rounds.service.ts, bill-payment.service.ts,       *)
(* guest-orders.service.ts, and the bill's part of sales.service.ts).           *)
(* Each database transaction is one action.  What is not in one transaction is  *)
(* several: a guest's order is accepted and then fired, a payment is planned,   *)
(* asked, rung, filed, undone and settled step by step, and any other waiter,   *)
(* guest or till may act in between.                                            *)
EXTENDS Integers, Sequences, FiniteSets, FiniteSetsExt

CONSTANTS
    Tables,
    Dishes,      \* rows of bills: one plate each
    Guests,      \* the plates guests ask for from their phones: an order is its plate
    Taps,        \* the client_uuids of the waiters' own taps on «На кухню»
    Payers,      \* payment screens; one repeats its call with the same client_uuids
    Plans,       \* what a screen's calls ask: the receipts in order, each the plates it
                 \* names (none: everything still owed)
    Fiscalises,  \* the store registers its receipts
    MaxBills,    \* bills (bound)
    MaxRounds,   \* rounds (bound)
    MaxParts     \* receipts of one call (bound)

ASSUME TableAssumption ==
    /\ Guests \subseteq Dishes
    /\ Guests \intersect Taps = {} /\ 0 \notin Guests \union Taps
    /\ Plans \in [Payers -> SUBSET Seq(SUBSET Dishes)]
    /\ \A p \in Payers : \A plan \in Plans[p] : Len(plan) \in 1..MaxParts
    /\ Fiscalises \in BOOLEAN /\ MaxBills \in Nat /\ MaxRounds \in Nat /\ MaxParts \in Nat \ {0}

VARIABLES
    bill,      \* pos_bills
    line,      \* pos_bill_items: the bill, the round (0: a draft) and the receipt that paid it
    round,     \* pos_bill_rounds
    order,     \* pos_guest_orders
    firing,    \* acceptGuestOrder after its transaction: the bill it will fire, or 0
    sale,      \* pos_sales of the bills, by client_uuid
    pay        \* payBill's frame of each screen

vars == <<bill, line, round, order, firing, sale, pay>>
billing == <<sale, pay>>
serving == <<round, order, firing>>

Bills == 1..MaxBills
Rounds == 1..MaxRounds
Parts == 1..MaxParts
Sales == Payers \X Parts
NoSale == <<>>

Bill == [st : {"none", "open", "paid", "cancelled"}, table : Tables \union {0}]
Line == [bill : 0..MaxBills, round : 0..MaxRounds, sale : Sales \union {NoSale}]
Round == [st : {"none", "live", "cancelled"}, bill : 0..MaxBills,
          served : BOOLEAN, tap : Taps \union Guests \union {0}]
Order == [st : {"none", "pending", "accepted", "sent", "gone"}, table : Tables \union {0}]
Sale == [st : {"none", "completed", "voided", "refunded"}, bill : 0..MaxBills,
         lines : SUBSET Dishes, back : SUBSET Dishes,
         doc : {"none", "waiting", "done"}]
Frame == [step : {"idle", "gate", "ring", "file", "undo", "settle", "close"},
          bill : 0..MaxBills, part : Parts, plan : Seq(SUBSET Dishes)]

TypeOK ==
    /\ bill \in [Bills -> Bill]
    /\ line \in [Dishes -> Line]
    /\ round \in [Rounds -> Round]
    /\ order \in [Guests -> Order]
    /\ firing \in [Guests -> 0..MaxBills]
    /\ sale \in [Sales -> Sale]
    /\ pay \in [Payers -> Frame]
    /\ \A p \in Payers : pay[p].step \in {"gate", "ring"} => pay[p].plan # <<>>

NoLine == [bill |-> 0, round |-> 0, sale |-> NoSale]
Idle == [step |-> "idle", bill |-> 0, part |-> 1, plan |-> <<>>]

Init ==
    /\ bill = [b \in Bills |-> [st |-> "none", table |-> 0]]
    /\ line = [d \in Dishes |-> NoLine]
    /\ round = [r \in Rounds |-> [st |-> "none", bill |-> 0, served |-> FALSE, tap |-> 0]]
    /\ order = [g \in Guests |-> [st |-> "none", table |-> 0]]
    /\ firing = [g \in Guests |-> 0]
    /\ sale = [s \in Sales |-> [st |-> "none", bill |-> 0, lines |-> {}, back |-> {}, doc |-> "none"]]
    /\ pay = [p \in Payers |-> Idle]

Open(b) == b \in Bills /\ bill[b].st = "open"
Drafts(b) == {d \in Dishes : line[d].bill = b /\ line[d].round = 0}
Live(r) == r \in Rounds /\ round[r].st = "live"
\* Mutant of Owed: the rounds are not joined.
Unpaid(b) == {d \in Dishes : line[d].bill = b /\ line[d].sale = NoSale}
\* Fired, not taken back, not paid for: what billBalance counts and lockedBillLines locks.
Owed(b) == {d \in Dishes : line[d].bill = b /\ Live(line[d].round) /\ line[d].sale = NoSale}
Settled(b) == Owed(b) = {} /\ Drafts(b) = {}

----------------------------------------------------------------------------------
(* Opening, the draft, moving, cancelling                                          *)

OpenAt(t) == {b \in Bills : Open(b) /\ bill[b].table = t}

\* openBillTx: the bill already open on the table, or the next one.
Seated(t, b) ==
    \/ b \in OpenAt(t) /\ UNCHANGED bill
    \/ /\ OpenAt(t) = {}
       /\ bill[b].st = "none" /\ \A c \in 1..(b - 1) : bill[c].st # "none"
       /\ bill' = [bill EXCEPT ![b] = [st |-> "open", table |-> t]]

OpenBill(t, b) ==
    /\ Seated(t, b)
    /\ UNCHANGED <<line, serving, billing>>

OnBill(d, b) == line' = [line EXCEPT ![d] = [NoLine EXCEPT !.bill = b]]

AddDraftItem(d, b) ==
    /\ Open(b) /\ d \notin Guests /\ line[d].bill = 0
    /\ OnBill(d, b)
    /\ UNCHANGED <<bill, serving, billing>>

RemoveDraftItem(d) ==
    /\ Open(line[d].bill) /\ line[d].round = 0
    /\ line' = [line EXCEPT ![d] = NoLine]
    /\ UNCHANGED <<bill, serving, billing>>

\* The partial unique index refuses a table that has an open bill.
MoveBill(b, t) ==
    /\ Open(b) /\ OpenAt(t) = {}
    /\ bill' = [bill EXCEPT ![b].table = t]
    /\ UNCHANGED <<line, serving, billing>>

\* Mutant of NothingFired: a round whose plates are paid for no longer counts.
NothingOwed(b) == Owed(b) = {}
NothingFired(b) == \A r \in Rounds : Live(r) => round[r].bill # b

CancelBill(b) ==
    /\ Open(b) /\ NothingFired(b)
    /\ line' = [d \in Dishes |-> IF d \in Drafts(b) THEN NoLine ELSE line[d]]
    /\ bill' = [bill EXCEPT ![b].st = "cancelled"]
    /\ UNCHANGED <<serving, billing>>

----------------------------------------------------------------------------------
(* Rounds                                                                          *)

Fired(t) == \E r \in Rounds : round[r].tap = t
NextRound == {r \in Rounds : round[r].st = "none" /\ \A q \in 1..(r - 1) : round[q].st # "none"}

\* The items become one round: they are locked in it and their stock leaves the shelf.
Fires(b, t, items, rows) ==
    /\ items # {}
    /\ \E r \in NextRound :
          /\ round' = [round EXCEPT ![r] = [st |-> "live", bill |-> b, served |-> FALSE, tap |-> t]]
          /\ line' = [d \in Dishes |-> IF d \in items THEN [rows[d] EXCEPT !.round = r] ELSE rows[d]]

\* Mutant of FireRoundTx: the tap's own client_uuid is not looked up.
FireAgain(b, t, items, rows) == Fires(b, t, items, rows)

\* A tap that already fired answers with the round it made.  rows: the caller's
\* own changes of the items in the same transaction.
FireRoundTx(b, t, items, rows) ==
    \/ Fired(t) /\ line' = rows /\ UNCHANGED round
    \/ ~Fired(t) /\ Fires(b, t, items, rows)

FireRound(b, t) ==
    /\ Open(b)
    /\ FireRoundTx(b, t, Drafts(b), line)
    /\ UNCHANGED <<bill, order, firing, billing>>

\* Only the round is locked and only the round is asked: not the bill's state, and
\* not who paid for its plates.
CancelRound(r) ==
    /\ Live(r) /\ ~round[r].served
    /\ round' = [round EXCEPT ![r].st = "cancelled"]
    /\ UNCHANGED <<bill, line, order, firing, billing>>

\* The last tap, from ready to served; whether a plate is ready changes nothing here.
SetRoundPrep(r) ==
    /\ Live(r) /\ ~round[r].served
    /\ round' = [round EXCEPT ![r].served = TRUE]
    /\ UNCHANGED <<bill, line, order, firing, billing>>

----------------------------------------------------------------------------------
(* Guests' orders                                                                  *)

\* createGuestOrder without auto-send, or when a dish could not go: it waits.
AskWaiter(g, t) ==
    /\ order[g].st = "none"
    /\ order' = [order EXCEPT ![g] = [st |-> "pending", table |-> t]]
    /\ UNCHANGED <<bill, line, round, firing, billing>>

\* tryAutoSend: the bill, the guest's own row and its round in one transaction.
AutoSend(g, t, b) ==
    /\ order[g].st = "none"
    /\ Seated(t, b)
    /\ FireRoundTx(b, g, {g}, [line EXCEPT ![g] = [NoLine EXCEPT !.bill = b]])
    /\ order' = [order EXCEPT ![g].st = "sent"]
    /\ UNCHANGED <<firing, billing>>

\* Mutant of Waiting: what a waiter already took may still be answered.
WaitingOrTaken(g) == order[g].st \in {"pending", "accepted"}
Waiting(g) == order[g].st = "pending"

\* acceptInTransaction: the lines join the draft; the round is the next transaction's.
AcceptOrder(g, b) ==
    /\ Waiting(g)
    /\ Seated(order[g].table, b)
    /\ OnBill(g, b)
    /\ order' = [order EXCEPT ![g] = [st |-> "accepted", table |-> 0]]
    /\ firing' = [firing EXCEPT ![g] = IF Drafts(b) = {} THEN b ELSE 0]
    /\ UNCHANGED <<round, billing>>

\* fireRound of the whole draft, under the order's own uuid; a refusal is a warning.
AcceptFires(g) ==
    /\ firing[g] # 0
    /\ firing' = [firing EXCEPT ![g] = 0]
    /\ \/ Open(firing[g]) /\ FireRoundTx(firing[g], g, Drafts(firing[g]), line)
       \/ ~Open(firing[g]) /\ UNCHANGED <<round, line>>
       \/ Drafts(firing[g]) = {} /\ UNCHANGED <<round, line>>
    /\ UNCHANGED <<bill, order, billing>>

\* rejectGuestOrder, cancelOwnGuestOrder, expireStaleGuestOrders.
DropOrder(g) ==
    /\ Waiting(g)
    /\ order' = [order EXCEPT ![g] = [st |-> "gone", table |-> 0]]
    /\ UNCHANGED <<bill, line, round, firing, billing>>

----------------------------------------------------------------------------------
(* Receipts                                                                        *)

\* lockedBillLines: no names means everything still owed.
Named(b, names) == IF names = {} THEN Owed(b) ELSE Owed(b) \intersect names

\* attachPaidLine of each.
Attached(s, ls) == [d \in Dishes |-> IF d \in ls THEN [line[d] EXCEPT !.sale = s] ELSE line[d]]

\* voidSale of a bill's part: releasePartLines, then the status.  It throws on a
\* sale with refunds and on a bill no longer open.
MayVoid(s) == sale[s].st = "completed" /\ sale[s].back = {} /\ Open(sale[s].bill)

Released(s) == [d \in Dishes |-> IF line[d].sale = s THEN [line[d] EXCEPT !.sale = NoSale] ELSE line[d]]

VoidSale(s) ==
    /\ MayVoid(s)
    /\ line' = Released(s)
    /\ sale' = [sale EXCEPT ![s].st = "voided"]

\* The route: a receipt the provider registered is refunded, never voided.
CashierVoids(s) ==
    /\ sale[s].doc # "done"
    /\ VoidSale(s)
    /\ UNCHANGED <<bill, pay, serving>>

\* refundSaleTx of one plate: the goods go back by the sale's copy of the snapshot.
Refund(s, d) ==
    /\ sale[s].st = "completed" /\ d \in sale[s].lines \ sale[s].back
    /\ \E st \in {"completed", "refunded"} :
          /\ st = "refunded" <=> sale[s].lines = sale[s].back \union {d}
          /\ sale' = [sale EXCEPT ![s] = [sale[s] EXCEPT !.back = sale[s].back \union {d}, !.st = st]]
    /\ UNCHANGED <<bill, line, round, order, firing, pay>>

\* retryPendingFiscalDocs registers what a payment left unregistered.
RetryRegisters(s) ==
    /\ sale[s].st = "completed" /\ sale[s].doc = "waiting"
    /\ sale' = [sale EXCEPT ![s].doc = "done"]
    /\ UNCHANGED <<bill, line, pay, serving>>

----------------------------------------------------------------------------------
(* payBill, one screen's call                                                      *)

Now(p) == <<p, pay[p].part>>
To(p, step) == pay' = [pay EXCEPT ![p].step = step]
Ends(p) == pay' = [pay EXCEPT ![p] = Idle]

\* planBillReceipts: the bill is open and owes something, and nothing is in the draft.
PlanBillReceipts(p, b, plan) ==
    /\ pay[p].step = "idle"
    /\ Open(b) /\ Owed(b) # {} /\ Drafts(b) = {}
    /\ pay' = [pay EXCEPT ![p] = [step |-> "gate", bill |-> b, part |-> 1, plan |-> plan]]
    /\ UNCHANGED <<bill, line, sale, serving>>

\* The pre-flight of this receipt, before anything of it is written.
Gate(p) ==
    /\ pay[p].step = "gate"
    /\ To(p, "ring") \/ (Fiscalises /\ Ends(p))
    /\ UNCHANGED <<bill, line, sale, serving>>

\* Mutant of Onward: the end of the call is not seen.
OnAndOn(p, plan) ==
    pay' = [pay EXCEPT ![p].step = "gate", ![p].part = @ + 1, ![p].plan = plan]
\* The receipt after this one, or the end of the call; plan is what is left to ring.
Onward(p, plan) ==
    IF plan # <<>>
    THEN pay' = [pay EXCEPT ![p].step = "gate", ![p].part = @ + 1, ![p].plan = plan]
    ELSE pay' = [pay EXCEPT ![p] = [Idle EXCEPT !.step = "settle", !.bill = pay[p].bill]]

\* completeSale found a sale under the call's client_uuid, which it compares with
\* nothing else of the request, or has just written one.
Rung(p, doc) ==
    IF Fiscalises /\ doc # "done"
    THEN pay' = [pay EXCEPT ![p].step = "file", ![p].plan = Tail(@)]
    ELSE Onward(p, Tail(pay[p].plan))

Replayed(p) ==
    /\ sale[Now(p)].st # "none"
    /\ IF sale[Now(p)].st = "completed" THEN Rung(p, sale[Now(p)].doc) ELSE Ends(p)
    /\ UNCHANGED <<line, sale>>

\* Mutant of Charged: the rows are locked but not asked whether they are paid.
ChargedTwice(b, names) == {d \in Dishes : line[d].bill = b /\ Live(line[d].round) /\ (names = {} \/ d \in names)}
Charged(b, names) == Named(b, names)

\* completeSaleTx's bill part.  Only a cancelled bill is refused; so is a named
\* plate still in the draft, and a receipt with nothing left to pay.
Refused(b, names) ==
    \/ bill[b].st = "cancelled"
    \/ Drafts(b) \intersect names # {}
    \/ Charged(b, names) = {}

CompleteSale(p) ==
    LET b == pay[p].bill
        names == Head(pay[p].plan)
        plates == Charged(b, names)
    IN  /\ sale[Now(p)].st = "none"
        /\ \/ Refused(b, names) /\ Ends(p) /\ UNCHANGED <<line, sale>>
           \/ /\ ~Refused(b, names)
              /\ line' = Attached(Now(p), plates)
              /\ sale' = [sale EXCEPT ![Now(p)] =
                     [st |-> "completed", bill |-> b, lines |-> plates, back |-> {},
                      doc |-> IF Fiscalises THEN "waiting" ELSE "none"]]
              /\ Rung(p, "none")

Ring(p) ==
    /\ pay[p].step = "ring"
    /\ Replayed(p) \/ CompleteSale(p)
    /\ UNCHANGED <<bill, serving>>

\* fiscalizeSale: registered, refused for good, or nobody knows (a warning, and on).
File(p, answer) ==
    /\ pay[p].step = "file"
    /\ sale' = [sale EXCEPT ![Now(p)].doc = IF answer = "done" THEN answer ELSE @]
    /\ IF answer = "refused" THEN To(p, "undo") ELSE Onward(p, pay[p].plan)
    /\ UNCHANGED <<bill, line, serving>>

\* abortSale: the receipt is voided (or was already) and the call ends; when the
\* void throws, the sale stands and the call goes on.
AbortSale(p) ==
    /\ pay[p].step = "undo"
    /\ \/ VoidSale(Now(p)) /\ Ends(p)
       \/ sale[Now(p)].st = "voided" /\ Ends(p) /\ UNCHANGED <<line, sale>>
       \/ /\ sale[Now(p)].st # "voided" /\ ~MayVoid(Now(p))
          /\ Onward(p, pay[p].plan) /\ UNCHANGED <<line, sale>>
    /\ UNCHANGED <<bill, serving>>

\* closeIfSettled reads the balance outside any transaction...
Settle(p) ==
    /\ pay[p].step = "settle"
    /\ IF Settled(pay[p].bill) THEN To(p, "close") ELSE Ends(p)
    /\ UNCHANGED <<bill, line, sale, serving>>

\* ... and then closes the bill if it is still open.
Close(p) ==
    /\ pay[p].step = "close"
    /\ bill' = IF Open(pay[p].bill) THEN [bill EXCEPT ![pay[p].bill].st = "paid"] ELSE bill
    /\ Ends(p)
    /\ UNCHANGED <<line, sale, serving>>

\* The process dies: every request in flight is lost, everything committed stays.
Crash ==
    /\ pay' = [p \in Payers |-> Idle]
    /\ firing' = [g \in Guests |-> 0]
    /\ UNCHANGED <<bill, line, round, order, sale>>

----------------------------------------------------------------------------------

AtTable ==
    \/ \E t \in Tables, b \in Bills : OpenBill(t, b) \/ MoveBill(b, t)
    \/ \E d \in Dishes, b \in Bills : AddDraftItem(d, b)
    \/ \E d \in Dishes : RemoveDraftItem(d)
    \/ \E b \in Bills : CancelBill(b)

InKitchen ==
    \/ \E b \in Bills, t \in Taps : FireRound(b, t)
    \/ \E r \in Rounds : CancelRound(r) \/ SetRoundPrep(r)

ByGuests ==
    \/ \E g \in Guests, t \in Tables : AskWaiter(g, t)
    \/ \E g \in Guests, t \in Tables, b \in Bills : AutoSend(g, t, b)
    \/ \E g \in Guests, b \in Bills : AcceptOrder(g, b)
    \/ \E g \in Guests : AcceptFires(g) \/ DropOrder(g)

OfReceipts ==
    \/ \E s \in Sales : CashierVoids(s) \/ RetryRegisters(s)
    \/ \E s \in Sales, d \in Dishes : Refund(s, d)

Paying(p) ==
    \/ \E b \in Bills, plan \in Plans[p] : PlanBillReceipts(p, b, plan)
    \/ Gate(p) \/ Ring(p)
    \/ \E answer \in {"done", "refused", "unknown"} : File(p, answer)
    \/ AbortSale(p) \/ Settle(p) \/ Close(p)

Next == AtTable \/ InKitchen \/ ByGuests \/ OfReceipts \/ (\E p \in Payers : Paying(p)) \/ Crash

Spec == Init /\ [][Next]_vars

----------------------------------------------------------------------------------
(* Properties                                                                      *)

Standing(s) == sale[s].st \in {"completed", "refunded"}

\* Two tills split one bill, repeat their calls and have their receipts voided, and
\* still every plate is on at most one receipt that stands, and the bill's row
\* names exactly that receipt: "FOR UPDATE on the rows is what stops two tills
\* splitting one bill from both claiming the same plate" (bills.service.ts).
PaidOnce ==
    \A d \in Dishes :
        /\ line[d].sale # NoSale => Standing(line[d].sale)
        /\ \A s \in Sales : Standing(s) => (d \in sale[s].lines <=> line[d].sale = s)

\* A receipt that stands is for plates the kitchen was told about, of its own bill,
\* whatever was fired, moved, taken off or accepted while it was being planned.
ChargedIsFired ==
    \A s \in Sales : Standing(s) =>
        \A d \in sale[s].lines : line[d].bill = sale[s].bill /\ line[d].round # 0

\* A cancelled bill keeps nothing cooking and nothing typed: whoever fires, adds or
\* accepts while it is being cancelled is either before it (and it is refused) or after.
CancelledHoldsNothing ==
    \A b \in Bills : bill[b].st = "cancelled" =>
        /\ Drafts(b) = {}
        /\ \A r \in Rounds : Live(r) => round[r].bill # b

\* "«На кухню» tapped twice on a bad connection must not write off dinner twice"
\* (rounds.service.ts): once a tap has fired, no repeat of it, however late and
\* whatever was typed in the meantime, sends a plate more.
TapSendsOnce ==
    [][\A d \in Dishes : line[d].round = 0 /\ line'[d].round # 0
          => ~Fired(round'[line'[d].round].tap)]_vars

\* A guest's request nobody took, or that was turned down, cancelled or expired, is on
\* no bill; and one that went straight to the kitchen is a round of its own.
AnsweredOnce ==
    \A g \in Guests :
        /\ order[g].st \in {"none", "pending", "gone"} => line[g].bill = 0
        /\ order[g].st = "sent" => line[g].round # 0 /\ round[line[g].round].tap = g

\* "ПРРО's refusal never meets this: it undoes a part while the bill is still being
\* paid, and the bill closes only after every part went through" (sales.service.ts).
RefusalIsUndone == \A p \in Payers : pay[p].step = "undo" => bill[pay[p].bill].st # "paid"

\* "Crediting it back would invent goods" (sales.service.ts): what left the shelf for a
\* plate comes back once, with its round or with its refund.
GoodsNotInvented ==
    \A s \in Sales : \A d \in sale[s].back : Live(line[d].round)

\* A bill is closed when its last line is paid, so a closed bill owes nothing.
PaidIsSettled == \A b \in Bills : bill[b].st = "paid" => Settled(b)

\* The round an accepted request fires sends nothing of what a waiter is typing.
NothingTypedIsSent ==
    \A r \in Rounds : round[r].tap \in Guests =>
        \A d \in Dishes : line[d].round = r => d = round[r].tap

----------------------------------------------------------------------------------
(* shareDiscount                                                                   *)

SumTo(totals, n) == FoldSet(LAMBDA i, a : a + totals[i], 0, 1..n)
Lesser(a, b) == IF a < b THEN a ELSE b

\* The proportional shares, rounded down.
Shares(totals, whole) ==
    LET sum == SumTo(totals, Len(totals))
    IN  [i \in 1..Len(totals) |-> IF sum = 0 THEN 0 ELSE (Lesser(whole, sum) * totals[i]) \div sum]

\* What of the remainder is left when the parts after i have taken what they have room for.
RestBefore(totals, shares, rest) ==
    LET n == Len(totals)
        left[i \in 0..n] ==
            IF i = n THEN rest ELSE left[i + 1] - Lesser(left[i + 1], totals[i + 1] - shares[i + 1])
    IN  left

\* Mutant of ShareDiscount: nobody takes the remainder.
ShareRounded(totals, whole) == Shares(totals, whole)

ShareDiscount(totals, whole) ==
    LET n == Len(totals)
        shares == Shares(totals, whole)
        rest == Lesser(whole, SumTo(totals, n)) - SumTo(shares, n)
        left == RestBefore(totals, shares, rest)
    IN  [i \in 1..n |-> shares[i] + (left[i] - left[i - 1])]

\* n parts share a discount fairly: it all goes, and no part is discounted below nothing.
FairShares ==
    [n \in Parts |-> \A totals \in [1..n -> 0..7], whole \in 0..16 :
        LET shares == ShareDiscount(totals, whole)
        IN  /\ SumTo(shares, n) = Lesser(whole, SumTo(totals, n))
            /\ \A i \in 1..n : shares[i] \in 0..totals[i]]

\* However many receipts a call plans, their shares of the discount add up to the bill's
\* discount (or to the bill, when the discount is larger): "so the parts add up to the
\* bill's discount exactly" (bill-payment.service.ts).
SharesAddUp == \A p \in Payers : pay[p].step = "gate" => FairShares[Len(pay[p].plan)]
===================================================================================
