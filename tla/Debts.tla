---------------------------------- MODULE Debts ----------------------------------
(* Goods one customer took «під запис», and the receipts that pay for them      *)
(* (src/pos/debts.service.ts, debt-lines.service.ts, debt-payment.service.ts,   *)
(* debt-chain.service.ts, the debt's part of sales.service.ts).                 *)
(* Every write to the debt locks the customer's row, so each transaction is one *)
(* action; what a request does outside it (the document at the provider, its    *)
(* answer, the undoing of a refused one) is an action of its own, and any other *)
(* till may act in between.  A request planned on a stale statement is checked  *)
(* again by the transaction, so any plan may come: the actions take all of them.*)
(* So is ПРРО's setting, which the owner may change at any time: where it is    *)
(* switched at all, a request finds it either way.                              *)
(* Its several documents are several actions; with ПРРО off a receipt and its   *)
(* «внесок» commit together in the code, and one after the other here.          *)
EXTENDS Integers, FiniteSets, FiniteSetsExt

CONSTANTS
    Lines,        \* pos_debt_items, numbered in the order the goods were handed over
    Qty,          \* pieces given on each
    Total,        \* its locked total, in kopecks
    Amounts,      \* sums customers bring as «внесок»
    Switches,     \* whether the owner ever turns ПРРО off and on again
    MaxSales      \* receipts and «внески» (bound)

ASSUME DebtAssumption ==
    /\ IsFiniteSet(Lines) /\ Lines \subseteq Nat \ {0}
    /\ Qty \in [Lines -> Nat \ {0}] /\ Total \in [Lines -> Nat]
    /\ Amounts \subseteq Nat \ {0}
    /\ Switches \in BOOLEAN /\ MaxSales \in Nat

VARIABLES
    line,      \* pos_debt_items
    journal,   \* what pos_debt_entries say of each line: their sum is the balance
    sale,      \* pos_sales that repay the debt; of the chains' their ПРРО document too
    sold,      \* how many of them there are
    chains,    \* the chains at the provider, by line and attempt
    giving     \* the return documents of a chain given back

vars == <<line, journal, sale, sold, chains, giving>>

Sales == 1..MaxSales
Chain == 1..MaxSales            \* fiscal_chain_attempts; 0: no chain
NoLine == 0

Line == [given : BOOLEAN, returned : Nat, paid : Nat,
         prepaid : Int,          \* prepaid_cents
         chained : Int,          \* the part of it the «внески» of the present chain make
         closer : 0..MaxSales, off : BOOLEAN, chain : 0..MaxSales, attempts : Nat,
         last : 0..MaxSales]     \* receipts there were when goods last came back

Sale == [st : {"none", "completed", "voided", "part", "refunded"},
         kind : {"receipt", "close", "prepay"},
         units : [Lines -> Nat], cents : [Lines -> Int],
         pre : [Lines -> Int],   \* debt_prepaid_cents
         line : Lines \union {NoLine}, chain : 0..MaxSales,
         owed : Int,             \* what its chain document says is left to pay
         doc : {"none", "new", "sent", "due", "parked", "done"}, filed : BOOLEAN]

Nothing == [l \in Lines |-> 0]
NoDebt == [given |-> FALSE, returned |-> 0, paid |-> 0, prepaid |-> 0, chained |-> 0,
           closer |-> 0, off |-> FALSE, chain |-> 0, attempts |-> 0, last |-> 0]
NoSale == [st |-> "none", kind |-> "receipt", units |-> Nothing, cents |-> Nothing, pre |-> Nothing,
           line |-> NoLine, chain |-> 0, owed |-> 0, doc |-> "none", filed |-> FALSE]

Init ==
    /\ line = [l \in Lines |-> NoDebt]
    /\ journal = [l \in Lines |-> 0]
    /\ sale = [s \in Sales |-> NoSale]
    /\ sold = 0
    /\ chains = [l \in Lines |-> [c \in Chain |-> [st |-> "none", left |-> 0]]]
    /\ giving = [l \in Lines |-> [c \in Chain |-> "none"]]

----------------------------------------------------------------------------
(* What a line is worth.                                                      *)

(* The share of `u` pieces of the line: Math.round of a running total.        *)
Cum(l, u) == (2 * Total[l] * u + Qty[l]) \div (2 * Qty[l])

Left(l) == line[l].returned + line[l].paid
Remaining(l) == Qty[l] - Left(l)
Owed(l) == Total[l] - Cum(l, Left(l)) - line[l].prepaid
UnitsCents(l, n) == Cum(l, Left(l) + n) - Cum(l, Left(l))

Open(l) == /\ line[l].given /\ line[l].closer = 0 /\ ~ line[l].off
           /\ Left(l) < Qty[l]

(* W are the oldest open lines.                                               *)
Oldest(W) == \A l \in W : Open(l) /\ \A k \in Lines \ W : Open(k) => l < k

(* l is the next one after them.                                              *)
Next1(W, l) == /\ l \notin W /\ Open(l)
               /\ \A k \in Lines \ (W \union {l}) : Open(k) => l < k

InChain(s, l, c) == sale[s].line = l /\ sale[s].chain = c

ChainSettled(l, c) ==
    \A s \in Sales : InChain(s, l, c) /\ sale[s].st = "completed" => sale[s].doc = "done"

----------------------------------------------------------------------------
(* Goods given, brought back, forgiven.                                       *)

(* A handover written without a network reaches the book after later ones.    *)
Issue(l) ==
    /\ ~ line[l].given
    /\ line' = [line EXCEPT ![l].given = TRUE]
    /\ journal' = [journal EXCEPT ![l] = Total[l]]
    /\ UNCHANGED <<sale, sold, chains, giving>>

Return(l, n) ==
    /\ Open(l) /\ line[l].prepaid <= 0 /\ n \in 1..Remaining(l)
    /\ line' = [line EXCEPT ![l].returned = @ + n, ![l].last = sold]
    /\ journal' = [journal EXCEPT ![l] = @ - UnitsCents(l, n)]
    /\ UNCHANGED <<sale, sold, chains, giving>>

WriteOff(W) ==
    /\ \A l \in W : Open(l)
    /\ \E l \in W : Owed(l) > 0
    /\ line' = [l \in Lines |-> [line[l] EXCEPT !.off = @ \/ l \in W]]
    /\ journal' = [l \in Lines |-> IF l \in W THEN journal[l] - Owed(l) ELSE journal[l]]
    /\ UNCHANGED <<sale, sold, chains, giving>>

----------------------------------------------------------------------------
(* Repayments.                                                                *)

(* The receipt `record`ed under the next number pays pieces of lines.         *)
Ring(kind, W, part, n, l0, c) ==
    LET units == [l \in Lines |-> IF l \in W THEN Remaining(l) ELSE IF l = part THEN n ELSE 0]
        cents == [l \in Lines |-> IF l \in W THEN Owed(l) ELSE IF l = part THEN UnitsCents(l, n) ELSE 0]
    IN /\ sold < MaxSales /\ sold' = sold + 1
       /\ \E l \in Lines : cents[l] > 0
       /\ sale' = [sale EXCEPT ![sold + 1] =
            [NoSale EXCEPT !.st = "completed", !.kind = kind, !.units = units, !.cents = cents,
                           !.pre = [l \in Lines |-> IF l \in W THEN line[l].prepaid ELSE 0],
                           !.line = l0, !.chain = c, !.doc = IF c = 0 THEN "none" ELSE "new",
                           !.owed = IF c = 0 THEN 0 ELSE cents[l0]]]
       /\ line' = [l \in Lines |-> [line[l] EXCEPT !.paid = @ + units[l],
                                                   !.closer = IF l \in W THEN sold + 1 ELSE @]]
       /\ journal' = [l \in Lines |-> journal[l] - cents[l]]
       /\ UNCHANGED <<chains, giving>>

(* An ordinary receipt: the oldest lines whole, or pieces of the next.  Only  *)
(* where ПРРО was off may one of them be in a chain.                          *)
PayReceipt(W, part, n) ==
    /\ Oldest(W)
    /\ \/ part = NoLine /\ n = 0 /\ W # {}
       \/ /\ part # NoLine /\ Next1(W, part) /\ n \in 1..Remaining(part) - 1
          /\ line[part].prepaid <= 0
    /\ Switches \/ \A l \in W : line[l].chain = 0
    /\ Ring("receipt", W, part, n, NoLine, 0)

(* The receipt that closes a line through its chain: alone, and once every    *)
(* earlier document of the chain is registered.                               *)
CloseChain(l) ==
    /\ Oldest({l}) /\ line[l].chain # 0
    /\ ChainSettled(l, line[l].chain)
    /\ Ring("close", {l}, NoLine, 0, l, line[l].chain)

(* A «внесок» toward the oldest line.                                         *)
Prepaid(l, a, c, into) ==
    /\ Oldest({l}) /\ a < Owed(l)
    /\ sold < MaxSales /\ sold' = sold + 1
    /\ sale' = [sale EXCEPT ![sold + 1] =
         [NoSale EXCEPT !.st = "completed", !.kind = "prepay", !.cents = [Nothing EXCEPT ![l] = a],
                        !.line = l, !.chain = c, !.doc = IF c = 0 THEN "none" ELSE "new",
                        !.owed = IF c = 0 THEN 0 ELSE Owed(l)]]
    /\ line' = [line EXCEPT ![l] = [into EXCEPT !.prepaid = @ + a, !.chain = c,
                                                !.chained = IF c = 0 THEN 0 ELSE @ + a]]
    /\ journal' = [journal EXCEPT ![l] = @ - a]
    /\ UNCHANGED <<chains, giving>>

(* Not fiscalised: the line leaves a chain the provider would not hear of.    *)
PrepayPlain(l, a) ==
    /\ Switches
    /\ Prepaid(l, a, 0, line[l])

(* The first one opens the line's chain under a new number, the next join it. *)
PrepayChain(l, a) ==
    \/ /\ line[l].chain = 0
       /\ LET c == line[l].attempts + 1
          IN c \in Chain /\ Prepaid(l, a, c, [line[l] EXCEPT !.attempts = c, !.chained = 0])
    \/ /\ line[l].chain # 0 /\ ChainSettled(l, line[l].chain)
       /\ Prepaid(l, a, line[l].chain, line[l])

----------------------------------------------------------------------------
(* Undoing a repayment.                                                       *)

Touches(s, l) == sale[s].units[l] > 0 \/ (sale[s].kind = "prepay" /\ sale[s].line = l)

(* assertNothingBuiltOn: its «later» counts goods that came back after the    *)
(* payment and receipts that still stand whole.                               *)
\* Mutant of LaterOn: only receipts count.
LaterReceipts(s, l) == \E t \in Sales : t > s /\ sale[t].st = "completed" /\ sale[t].units[l] > 0

LaterOn(s, l) ==
    \/ line[l].last >= s
    \/ \E t \in Sales : t > s /\ sale[t].st = "completed" /\ sale[t].units[l] > 0

\* Mutant of NothingBuiltOn: the chain opened since does not stand in the way.
NothingClosedOn(s) ==
    \A l \in Lines : Touches(s, l) =>
      /\ ~ line[l].off /\ line[l].closer \in {0, s}
      /\ sale[s].units[l] > 0 => ~ LaterOn(s, l)

NothingBuiltOn(s) ==
    \A l \in Lines : Touches(s, l) =>
      /\ ~ line[l].off
      /\ line[l].chain = 0 \/ (sale[s].line = l /\ sale[s].chain = line[l].chain)
      /\ line[l].closer \in {0, s}
      /\ sale[s].units[l] > 0 => ~ LaterOn(s, l)

(* Only sale of its chain: the line leaves it.                                *)
LastOfChain(s, l) ==
    /\ sale[s].kind = "prepay" /\ InChain(s, l, line[l].chain) /\ sale[s].chain # 0
    /\ \A t \in Sales \ {s} : InChain(t, l, sale[s].chain) => sale[t].st # "completed"

ReleasedLine(s, l) ==
    LET money == IF sale[s].kind = "prepay" THEN sale[s].cents[l] ELSE 0
        chained == IF money # 0 /\ sale[s].chain # 0 /\ sale[s].chain = line[l].chain THEN money ELSE 0
    IN [line[l] EXCEPT !.paid = @ - sale[s].units[l],
                       !.closer = IF @ = s THEN 0 ELSE @,
                       !.prepaid = @ - money,
                       !.chained = @ - chained,
                       !.chain = IF LastOfChain(s, l) THEN 0 ELSE @]

(* voidSale of a repayment: releaseDebtLinesForSale, then the sale's status.  *)
Released(s) ==
    /\ line' = [l \in Lines |-> IF Touches(s, l) THEN ReleasedLine(s, l) ELSE line[l]]
    /\ journal' = [l \in Lines |-> journal[l] + sale[s].cents[l]]

\* Mutant of CanVoid: a void that is repeated releases the lines again.
CanVoidAgain(s) == sale[s].st \in {"completed", "voided"} /\ NothingBuiltOn(s)
CanVoid(s) == sale[s].st = "completed" /\ NothingBuiltOn(s)

(* The void route.  Of an ordinary receipt the document is FiscalDocuments'   *)
(* business.  A chain's may not be voided once it is registered, nor while    *)
(* ПРРО is still on it; one it gave up on only by the owner, who has seen     *)
(* that the provider has no such receipt.  A sale that has no ledger row yet  *)
(* has no document to ask about.                                              *)
MayAskVoid(s) ==
    \/ sale[s].doc \in {"none", "new"}
    \/ sale[s].doc = "parked" /\ ~ sale[s].filed

Void(s) ==
    /\ MayAskVoid(s) /\ CanVoid(s)
    /\ Released(s)
    /\ sale' = [sale EXCEPT ![s].st = "voided"]
    /\ UNCHANGED <<sold, chains, giving>>

(* A refund of an ordinary receipt: paid goods come back, the debt does not.  *)
(* Goods that a «внесок» paid for do not come back this way.                  *)
\* Mutant of Refundable: the goods of a chain may come back by an ordinary refund.
RefundableAll(s) == {l \in Lines : sale[s].units[l] > 0}
Refundable(s) == {l \in Lines : sale[s].units[l] > 0 /\ sale[s].pre[l] <= 0}

Refund(s) ==
    /\ sale[s].st \in {"completed", "part"} /\ Refundable(s) # {}
    /\ \/ /\ \/ \E l \in Lines : sale[s].units[l] > 1
             \/ \E k, l \in Lines : k # l /\ sale[s].units[k] > 0 /\ sale[s].units[l] > 0
          /\ sale' = [sale EXCEPT ![s].st = "part"]
       \/ /\ \A l \in Lines : sale[s].units[l] > 0 => l \in Refundable(s)
          /\ sale' = [sale EXCEPT ![s].st = "refunded"]
    /\ UNCHANGED <<line, journal, sold, chains, giving>>

----------------------------------------------------------------------------
(* A chain given back whole: «Скасувати внески» of an open line, or the goods *)
(* of the line it closed.                                                     *)

Standing(l, c) == {s \in Sales : InChain(s, l, c) /\ sale[s].st \notin {"none", "voided"}}

GiveBack(l, S) ==
    /\ line[l].chain # 0
    /\ Standing(l, line[l].chain) = S
    /\ \E s \in S : sale[s].kind = "prepay"
    /\ \A s \in S : sale[s].st = "completed" /\ sale[s].doc = "done"
    /\ sale' = [s \in Sales |-> IF s \in S THEN [sale[s] EXCEPT !.st = "refunded"] ELSE sale[s]]
    /\ giving' = [giving EXCEPT ![l][line[l].chain] = "due"]

\* Mutant of Unchained: the line loses what was paid without ПРРО too.
UnchainedAll(l) == [line[l] EXCEPT !.prepaid = 0, !.chained = 0, !.chain = 0]
Unchained(l) == [line[l] EXCEPT !.prepaid = @ - line[l].chained, !.chained = 0, !.chain = 0]

CancelPrepayments(l) ==
    /\ Open(l)
    /\ \E S \in SUBSET Sales : GiveBack(l, S) /\ \A s \in S : sale[s].kind = "prepay"
    /\ line' = [line EXCEPT ![l] = Unchained(l)]
    /\ journal' = [journal EXCEPT ![l] = @ + line[l].chained]
    /\ UNCHANGED <<sold, chains>>

ReturnChainGoods(l) ==
    /\ line[l].closer # 0
    /\ \E S \in SUBSET Sales :
         /\ GiveBack(l, S) /\ line[l].closer \in S
         /\ \A s \in S : sale[s].kind = "prepay" \/ s = line[l].closer
    /\ UNCHANGED <<line, journal, sold, chains>>

----------------------------------------------------------------------------
(* The documents of the chains.                                               *)

First(s) == \A t \in Sales : t < s => ~ InChain(t, sale[s].line, sale[s].chain)

(* What the provider takes: an opening below what is owed, a further document *)
(* that declares what the chain expects.                                      *)
Fits(s) ==
    LET at == chains[sale[s].line][sale[s].chain]
        sum == sale[s].cents[sale[s].line]
    IN IF First(s) THEN at.st = "none" /\ sum < sale[s].owed
                   ELSE at = [st |-> "open", left |-> sale[s].owed] /\ sum <= at.left

File(s) ==
    LET left == sale[s].owed - sale[s].cents[sale[s].line]
    IN /\ Fits(s)
       /\ chains' = [chains EXCEPT ![sale[s].line][sale[s].chain] =
                       [st |-> IF left = 0 THEN "paid" ELSE "open", left |-> left]]

(* openDocument and the request: neither looks at the sale's status.          *)
Send(s) ==
    /\ sale[s].doc = "new"
    /\ sale' = [sale EXCEPT ![s].doc = "sent"]
    /\ UNCHANGED <<line, journal, sold, chains, giving>>

Accepted(s) ==
    /\ sale[s].doc = "sent" /\ File(s)
    /\ sale' = [sale EXCEPT ![s].doc = "done", ![s].filed = TRUE]
    /\ UNCHANGED <<line, journal, sold, giving>>

Unanswered(s) ==
    /\ sale[s].doc = "sent"
    /\ \/ File(s) /\ sale' = [sale EXCEPT ![s].doc = "due", ![s].filed = TRUE]
       \/ sale' = [sale EXCEPT ![s].doc = "due"] /\ UNCHANGED chains
    /\ UNCHANGED <<line, journal, sold, giving>>

(* The document cannot exist: abortSale undoes the sale, unless something was *)
(* built on it or the process stops; what it does late is the owner's Void.   *)
Refused(s) ==
    /\ sale[s].doc = "sent"
    /\ \/ CanVoid(s) /\ Released(s) /\ sale' = [sale EXCEPT ![s].doc = "parked", ![s].st = "voided"]
       \/ sale' = [sale EXCEPT ![s].doc = "parked"] /\ UNCHANGED <<line, journal>>
    /\ UNCHANGED <<sold, chains, giving>>

(* The retry: it never sends a voided sale's document again, asks the         *)
(* provider before it sends one, and gives up at last.                        *)
Retry(s) ==
    /\ sale[s].doc = "due"
    /\ \/ sale[s].st # "voided" /\ sale[s].filed
          /\ sale' = [sale EXCEPT ![s].doc = "done"] /\ UNCHANGED chains
       \/ sale[s].st # "voided" /\ ~ sale[s].filed /\ File(s)
          /\ sale' = [sale EXCEPT ![s].doc = "done", ![s].filed = TRUE]
       \/ sale' = [sale EXCEPT ![s].doc = "parked"] /\ UNCHANGED chains
    /\ UNCHANGED <<line, journal, sold, giving>>

(* One call returns every document of the chain; the retry may repeat it.     *)
RegisterReturn(l, c) ==
    /\ giving[l][c] = "due"
    /\ \/ chains' = [chains EXCEPT ![l][c] = [st |-> "returned", left |-> 0]]
          /\ giving' = [giving EXCEPT ![l][c] = "done"]
       \/ giving' = [giving EXCEPT ![l][c] = "parked"] /\ UNCHANGED chains
    /\ UNCHANGED <<line, journal, sale, sold>>

----------------------------------------------------------------------------
Repay ==
    \/ \E W \in SUBSET Lines, part \in Lines \union {NoLine} :
         \E n \in 0..(IF part = NoLine THEN 0 ELSE Qty[part]) : PayReceipt(W, part, n)
    \/ \E l \in Lines : CloseChain(l)
    \/ \E l \in Lines, a \in Amounts : PrepayPlain(l, a) \/ PrepayChain(l, a)

Notebook ==
    \/ \E l \in Lines : Issue(l)
    \/ \E l \in Lines : \E n \in 1..Qty[l] : Return(l, n)
    \/ \E W \in SUBSET Lines : WriteOff(W)

Undo ==
    \/ \E s \in Sales : Void(s) \/ Refund(s)
    \/ \E l \in Lines : CancelPrepayments(l) \/ ReturnChainGoods(l)

Document ==
    \/ \E s \in Sales : Send(s) \/ Accepted(s) \/ Unanswered(s) \/ Refused(s) \/ Retry(s)
    \/ \E l \in Lines, c \in Chain : RegisterReturn(l, c)

Next == Repay \/ Notebook \/ Undo \/ Document

Spec == Init /\ [][Next]_vars

----------------------------------------------------------------------------
(* PROPERTIES                                                                 *)

TypeOK ==
    /\ line \in [Lines -> Line]
    /\ journal \in [Lines -> Int]
    /\ sale \in [Sales -> Sale]
    /\ sold \in 0..MaxSales
    /\ chains \in [Lines -> [Chain -> [st : {"none", "open", "paid", "returned"}, left : Int]]]
    /\ giving \in [Lines -> [Chain -> {"none", "due", "parked", "done"}]]

Was(s, sts) == sale[s].st \in sts

(* What every open line still owes is what the journal says of it, and of a   *)
(* closed one it says nothing: «balance = the journal's sum = what the open   *)
(* lines still owe» after every write (debts.service.ts, rule 4).             *)
JournalAgrees ==
    \A l \in Lines : journal[l] = IF Open(l) THEN Owed(l) ELSE 0

(* A receipt was undone under a later one whose goods had come back.          *)
Undercut(l) ==
    \E s, t \in Sales : /\ s < t /\ Was(s, {"voided"}) /\ Was(t, {"part", "refunded"})
                        /\ sale[s].units[l] > 0 /\ sale[t].units[l] > 0

(* The journal and the lines never differ by a kopeck, whatever pieces are    *)
(* returned, paid for, refunded and undone in whatever order, with that one   *)
(* exception (assertNothingBuiltOn).                                          *)
JournalAgreesInOrder ==
    \A l \in Lines : Undercut(l) \/ journal[l] = IF Open(l) THEN Owed(l) ELSE 0

(* What a line carries is what the standing receipts and «внески» brought: a  *)
(* void takes back exactly its own, a chain given back all of the chain's and *)
(* nothing of another chain or of a «внесок» without ПРРО                     *)
(* (releaseDebtLinesForSale, giveBackChain).                                  *)
PaidBySales ==
    \A l \in Lines :
      LET c == line[l].chain
          here == {s \in Sales : sale[s].kind = "prepay" /\ sale[s].line = l
                                /\ (Was(s, {"completed"})
                                     \/ (Was(s, {"refunded"}) /\ c # 0 /\ sale[s].chain = c))}
      IN /\ line[l].paid = MapThenSumSet(LAMBDA s : sale[s].units[l], {s \in Sales : ~ Was(s, {"none", "voided"})})
         /\ line[l].prepaid = MapThenSumSet(LAMBDA s : sale[s].cents[l], here)
         /\ line[l].chained = MapThenSumSet(LAMBDA s : sale[s].cents[l], {s \in here : c # 0 /\ sale[s].chain = c})

(* A voided document of the chain that ПРРО has, or may yet get: the void     *)
(* came before its ledger row.                                                *)
Loose(l, c) ==
    \E s \in Sales : /\ InChain(s, l, c) /\ Was(s, {"voided"})
                     /\ (sale[s].filed \/ sale[s].doc \in {"new", "sent", "due"})

(* «The chain expects exactly what is owed»: once its documents are           *)
(* registered, the provider would take the receipt that closes the line now,  *)
(* whatever was returned, undone or paid elsewhere (assertChainSettled,       *)
(* assertNothingBuiltOn).                                                     *)
ChainExpectsOwed ==
    \A l \in Lines : LET c == line[l].chain IN
      Open(l) /\ c # 0 /\ ChainSettled(l, c) /\ ~ Loose(l, c)
        => chains[l][c] = [st |-> "open", left |-> Owed(l)]

(* A chain is given back whole and once: no document of it stands beside one  *)
(* whose money went back, here or at the provider (chainToGiveBack).          *)
WholeChainBack ==
    \A l \in Lines, c \in Chain :
      /\ giving[l][c] # "none" => \A s \in Sales : InChain(s, l, c) => Was(s, {"refunded", "voided"})
      /\ giving[l][c] = "none" => \A s \in Sales : InChain(s, l, c) => ~ Was(s, {"part", "refunded"})
      /\ chains[l][c].st = "returned" => giving[l][c] = "done"

(* A line whose last piece came back, or that was written off, never asks for *)
(* money again, whatever receipt for its other pieces is undone               *)
(* (assertNothingBuiltOn).                                                    *)
ForGood(l) == line[l].off \/ (line[l].given /\ Left(l) = Qty[l] /\ line[l].closer = 0)
ReturnedStaysClosed == [][\A l \in Lines : ForGood(l) => ForGood(l)']_vars
=============================================================================
