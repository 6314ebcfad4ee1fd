# The Live Shop: TLA+ models of the store back end

The repository is a Fastify and PostgreSQL back end in TypeScript with two
products: sales in TikTok LIVE broadcasts (`src/reservations.ts`,
`src/parser.ts`, `src/orders.ts`, ...) and a point of sale (`src/pos`, with its
till application in `pos/src`). This directory models the part of it whose
mistakes are the most expensive and the hardest to test. First the fiscalisation of
sales (ПРРО, `src/pos/fiscal`), where a store's own book, a ledger of fiscal
documents, a remote tax service that may not answer, several tills, background
jobs and restarts have to agree on which receipts exist; with it the selling with no
network, where a till prints receipts on its own and files them later
(`pos/src/offline`, `src/pos/fiscal/offline`). Then the open bills of a restaurant's
tables, which waiters, guests, the kitchen and two payment screens change at once; and the notebook of goods
given «під запис», whose repayments are chained documents at the tax service.

`PROJECT.json` lists the components, the runs, the mutants each property
is tried against, the source lines of every definition, the findings, the hazards and the
theorems. Paths there start with `src/`, the root of the repository; in this
file they are relative to that root.

## 1. The system

| Component | State it keeps | Operations | What makes it correct |
|---|---|---|---|
| Fiscal ledger `src/pos/fiscal/ledger.ts` | a row per fiscal document in `pos_fiscal_receipts`, and its projection `pos_sales.fiscal_status` | T1 open, T2 done, T3 failed, T4-T6 abandon, claim of due rows, restamp of the shift | *done* only of what is registered, and for good; the projection agrees; every document comes to an end |
| Orchestration `src/pos/fiscal/fiscal.service.ts` | nothing but the frame of each request | pre-flight, runDocument with its repairs, abort, retry pass (sweeps, adoption of orphans, retries) | a sale is cancelled only while the tax service has no receipt of it; one sender per document; no orphan is forgotten |
| Shift service `src/pos/fiscal/shifts.service.ts`, `runtime.ts` | mirror rows `pos_fiscal_shifts`, a cached reading | ensure, open, close, the five-minute cron | an overdue shift is closed, but not before its register's offline session is over; no row is stranded in *closing* |
| Rate limiter `rateLimit.ts` | a token bucket per register | reserve, wait, abort; two priorities | the backlog never starves the tills; the provider's burst is bounded |
| Checkout and void routes `routes/checkout.routes.ts` | - | pre-check, commit, fiscalise; cancel | see orchestration |
| Sales service `sales.service.ts` | `pos_sales` | completeSale (idempotent by client_uuid), voidSale, refunds | one sale per client_uuid |
| Providers `fiscal/providers/*`, `errors.ts` | tokens | register, find, open and close a shift | error kinds say truthfully whether a document may exist |
| Offline codes `fiscal/offline/{pool,lease,holder,limits}.ts` | fiscal codes, the register's holder | refill, lease, use, hand-over, forced hand-over | a code is used once; one device holds a register |
| Offline sessions `fiscal/offline/session.ts` | sessions open, replaying, closed, stuck | go offline, stamp, replay | replay in the order of fiscal dates; a go-offline precedes its receipts |
| Till outbox `pos/src/offline/*` | queued sales on the device | stamp, upload, retry, give up | every queued sale is in the book once, with its receipt |
| Table bills, rounds, split payment `bills.service.ts`, `rounds.service.ts`, `bill-payment.service.ts` | `pos_bills`, `pos_bill_items`, `pos_bill_rounds`; the frame of a payment | open, type, fire, take back, move, cancel, plan, ring, undo, close | what is paid is what was ordered, once; a cancelled bill holds nothing; a tap sends once |
| Guest orders and the kitchen `guest-orders.service.ts`, `kitchen.service.ts` | `pos_guest_orders` | ask, auto-send, accept, refuse, expire; serve | an unanswered request is on no bill |
| Debts and repayment chains `debts.service.ts`, `debt-lines.service.ts`, `debt-payment.service.ts`, `debt-chain.service.ts` | `pos_debt_items`, `pos_debt_entries`, the sales that repay them, chains at the provider | hand over, take back, write off; receipts and «внески»; void, refund, give a chain back | the journal is what the lines owe, to the kopeck; the chain expects what is owed; it goes back whole |
| Stock and stock documents | quantities | receive, write off, count | single row-locked transactions |
| QR payments | pending payments | create, poll, expire, reconcile | paid once, never lost |
| Pre-orders, waiter calls | one row each | state changes under a row lock | legal order of states |
| Parked carts, bottles, bench, markdowns, modifiers | quantities and prices | single transactions | totals add up |
| LIVE reservations `src/reservations.ts`, `orders.ts` | reservations of a broadcast | reserve, expire, confirm | never more reserved than there is |
| LIVE comment sessions `src/sessions/*` | running broadcasts | start, stop, reconnect, resume at start-up | one stream per broadcast |
| Licences and module delivery `src/pos/license` | activations | activate, verify, deliver | no more activations than sold |
| Delivery, messaging, CRM, users | rows, external calls | - | - |
| Catalogue, verticals, public menu, GTIN lookup, admin, site, desktop shell | configuration | reads and edits | - |

How the modelled parts interact:

```
 till ──POST /sales──▶ checkout route ──▶ pre-flight ──▶ shift service ──▶ provider
                            │                                  ▲   (mirror rows)  ▲
                            ├─▶ completeSale (transaction)     │                  │
                            └─▶ openDocument ─▶ runDocument ───┴──▶ rate limiter ─┘
                                      │  done / failed / abandoned      ▲
                                      ▼                                 │
                    pos_fiscal_receipts ◀── retry pass, every 2 min ────┘
                                      ▲
 manager, cron every 5 min ──▶ closeShift ── sweep of the shift's documents
```

```
 till, no network ──takeStamp──▶ outbox ──upload, repeat──▶ completeDeviceStampedSale
      ▲ lease of codes                                          │ code used, document stamped
      └──── holder, hand-over, code pool ◀── refill             ▼
                         cron ──▶ replayOneSession: go-offline, receipts by date, go-online
```

```
 waiter, guest ──▶ draft ──«На кухню»──▶ round ──▶ kitchen
                     │ bill                 │ taken back
 screens ──plan──▶ ring (bill_part) ──▶ file ──▶ undo | next ──▶ close the bill if settled
```

```
 notebook ──hand over, return, write off──▶ lines, journal ◀──void, refused, chain given back──┐
 customer ──receipt, «внесок», closing receipt──▶ sale ──document──▶ chain at the provider ────┘
```

Hard about it:

* **A lost answer is not a refusal.** After a timeout the receipt may exist, or
  may come to exist when the request finally arrives. What the code does next
  (keep the sale, retry with the same request id, never void) has to be right in every
  interleaving with the retry pass.
* **Several writers of one row, two of them without a status guard.** A till, the retry
  pass, the shift sweep and the stale sweep all write the document; leases, `FOR
  UPDATE SKIP LOCKED` and the order of statements are what keeps them apart.
* **State read before an await and used after it**: the shift pre-flight saw,
  the live row read before the provider's close, the sale's status at the claim,
  the cached shift reading.
* **Nothing but a queue between the paper and the book.** A receipt printed with no network is in
  the customer's hand; the till's row, its spent code, the server's sale and its stamp are
  four writes of two machines, each of which may stop or hear no answer.
* **A chain read by its dates.** The tax office takes an offline session only in the order of
  its dates, while receipts of it are still being uploaded and online ones are in flight.
* **A payment of several transactions.** A split bill is planned, rung, filed, undone and closed part by part,
  and anybody else may act on the bill in between.
* **Four writers of one amount.** What a line owes is counted from returns, receipts, «внески» and write-offs, its shares are
  rounded, every one of them but a return can be undone later, and the provider keeps a count of its own.
* **Restarts** between any two statements: between the sale's commit and its
  document, between the void and the abandonment, between the cron's claim and
  its close.
* **Liveness with no supervisor**: documents and shifts are finished by crons
  that find their work by a WHERE clause; whatever no clause matches stays.

Production runs one replica (`TechDocs/POS_SINGLE_INSTANCE.md`), so the retry pass
guards itself by a flag of the process and overlaps nothing; the models assume
the same.

## 2. The modules

| Module | Models | Extends / implements |
|---|---|---|
| `FiscalShifts` | `shifts.service.ts`, the cached reading of `runtime.ts`, the shift cron of `src/index.ts`, the provider's shift | - |
| `FiscalLedger` | the transactions of `ledger.ts`, as operators from a row to a row | - |
| `FiscalDocuments` | checkout, runDocument, abort, cashier's void, retry pass; composes shifts and ledger | extends both; implements `FiscalPromise` |
| `FiscalPromise` | the abstract specification: what fiscalisation promises the owner | - |
| `FiscalRateLimit` | `rateLimit.ts` | - |
| `OfflineTill` | the till's reserve and outbox; composed with the server's side of it: device-stamped sales, leases, holder, pool, sessions as far as a stamp sees them | - |
| `OfflineReplay` | offline sessions, their dates and the replay; composed with the tills', the server's and the online sales and the tax office | - |
| `TableBills` | bills, rounds, guest orders, payment of a bill in parts; composed with the bill's part of sales, voids, refunds and the retry pass | - |
| `Debts` | lines, journal, repayments, their undoing, and the chains' documents up to the provider's count | - |
| `*Proofs` | the theorems of each | extend the module and `TLAPS` |
| `MC*` | the names TLC's configurations use | extend the module |

Actions are the stretches of code between two awaits: one SQL statement or
transaction, one call to the provider, or the computation between them.

**FiscalShifts.** `pshift` and `opened` are the provider's own state; `mirror`
the rows of `pos_fiscal_shifts` of one register (`status`, `provider_shift_id`,
`opened_at`, "past `auto_close_due_at`"); `cached` the process's reading; `enabled`
stands for resolveContext finding a usable configuration; `offline` that a session of the register is
open or being replayed, which keeps the cron and a manager from closing the shift; `task` is the frame of
each worker inside ensureOpenShift, openShift or closeShift. `AskShift`,
`HearShift`, `OpenAtProvider`, `MirrorOpen` are the way in,
`StartClose`, `CloseAtProvider`, `CloseFindsNone`, `MirrorClosed`, `Sweep` the
way out, each with its failures. `ClaimDueShift`, `ResolveClaim`,
`FinishDueShift` are the cron around it, `CatchThrows` its catch when the UPDATE there fails: the error leaves
closeDueShifts, and neither this row nor the others of the tick are put back. A row keeps its id when the provider
opens another shift while it is live, and mirrorClosedShift updates by register and not by id; both
are modelled because both matter.

**FiscalLedger.** `OpenDocument` is T1, `MarkDone` T2, `MarkFailed` T3,
`MarkAbandoned` T4, T5 and T6. `next` abstracts `next_attempt_at` to null, ahead, past.
The status `sent` is never written by the code.

**FiscalDocuments.** `sale` is `pos_sales` (status, projection, the order and the
shift of the commit), `doc` the ledger row, `receipt` what the tax service has,
`late` the transmissions whose caller gave up while they still travel, `run`
the frame of each till and of the retry pass, `todo` the rows the retry pass has selected.
The till: `Submit`, `Preflight`, `CompleteSale`, `OpenLedgerRow`, then
runDocument; runDocument is shared with the retry pass, and `Accepted`, `NoAnswer`,
`Duplicate`, `Rejected`, `TurnedAway`, `WrongShift` are the ways a call can end
(the kinds of `errors.ts`), followed by the one repair, the one pause, and
`Record` or `RecordFailure`. `Abort` and `AbortAbandons` are abortSale, `CheckVoid` and
`CancelSale` the cashier's void. The retry pass: `SweepVoided`, `SweepStale`,
`FindOrphans`, `Adopt`, `ClaimDueDocuments`, `RetryOne`.

**FiscalPromise.** For each sale, what the book says and whether the tax service
has it: a receipt is registered only of a completed sale and at most once, and only a
sale without a receipt is cancelled.

**FiscalRateLimit.** `level` is the bucket, in milliseconds of refill, so a token is `TokenMs` and
nothing is a fraction; `call` what each caller is doing. `alone` is no state of
the code: it is the bucket as it would be had only live calls ever been made, the
reference the retry pass's cost is measured against.

**OfflineTill.** `lease` is the till's StoredLease (codes, spent, blocked), `row` and
`attempts` its outbox rows, by receipt; `stamp` what is printed on the paper. `sync` is
runSync's frame: the rows it read before its loop (`todo`), the request it waits for, and the
count and the spent codes it read before asking for a lease (`pending`, `read`). `sale`, `doc`, `code`,
`holder`, `ask`, `session` are the server's tables; `req` its requests, of which a
receipt may have several at once after a timeout, `job` its lease requests, `move` a
hand-over between its statements, `refill` a list of codes not yet written. `Precheck`,
`Gate`, `JoinSession`, `CommitSale`, `OpenDocument`, `StampDevice` or `ParkDocument` are
completeDeviceStampedSale await by await; `Reply` is what its answer does to the row. `LeaseHolder`, `LeaseTake`,
`LeaseList` are leaseCodes with the till's merge; `MoveFrees`, `MoveEnds` releaseRegister and confirmHandover;
`ForceSticks`, `ForceBurns`, `ForceEnds` forceHandover.

**OfflineReplay.** What matters is time, so it has a clock. `doc` is a sale (where its document is, the date
it carries, its session), `session` a row of `pos_fiscal_offline_sessions` with its
go-offline date (`start`), whether a till's receipts are in it and whether that till has reported empty,
`office` what the tax office has: the date of the last thing it took, whether it has the
register offline, the receipts, the go-offlines. `rep` is the cron's frame. `PickSession` to
`CloseSession` are replayOneSession await by await; of a document, `ClaimDocument` counts the attempt, `DocumentArrives`
is the office taking it, and `SendDocument`, `DocumentRefused` or `DocumentFails` is what is recorded, each a step of its
own, with restarts and failed statements (`ReplayThrows`) in between. `ClaimDue` and `BatchEnds` the retry
batch that follows it in the same tick; `JoinSession` and `DeviceStart` date a till's
session, `CheckFloor` compares it with what the book knows was delivered.

**TableBills.** Each database transaction is one action. `line` is a plate: its bill, its round
(0 is a draft) and the receipt that paid it; `round`, `order`, `bill`, `sale` are rows; `firing` is
acceptGuestOrder between its two transactions, `pay` the frame of payBill of each screen. `PlanBillReceipts`,
`Gate`, `Ring`, `File`, `AbortSale`, `Settle`, `Close` are payBill in its order; `Ring` is completeSale
with its bill part, by client_uuid. `Owed` is what billBalance counts and lockedBillLines locks. `ShareDiscount` is the
arithmetic of shareDiscount, compared with its two promises over small totals.

**Debts.** Every transaction on a debt locks the customer's row and is one action. `line` is a row of
`pos_debt_items` (pieces returned and paid for, `prepaid`, the part of it in the present chain, the receipt that closed it, written
off or not, its chain), `journal` the sum of its entries, `sale` a receipt or «внесок» with the ПРРО document of one that
is in a chain, `chains` what the provider has, `giving` the documents of a return. `Issue`, `Return`, `WriteOff` are the
notebook; `PayReceipt` an ordinary repayment, oldest goods first; `PrepayPlain`, `PrepayChain`, `CloseChain` the «внески»
and the receipt that closes a line through its chain. `Send`, `Accepted`, `Unanswered`, `Refused`, `Retry` are a chain
document's way through runDocument and the retry pass. `Void` is voidSale with releaseDebtLinesForSale behind
the route's questions, `Refund` an ordinary refund of paid goods, `CancelPrepayments` and `ReturnChainGoods` are giveBackChain,
`RegisterReturn` its document.

### Abstractions

* One register of one store. Registers share no state but the store's switch.
* One `client_uuid` is one sale and, as the code derives it, one request id:
  the provider recognises a repeated transmission.
* A lease lasts 90 s and a request's budget 9 s, so while a till is at work its row
  is not due (`Leased`); the same of the orphan scan's grace period (`Orphans`) and of the abort of a
  failed checkout, which is over before the first backoff of two seconds unless
  `SlowAbort`.
* A deadline is 23.5 hours away and a job lasts seconds: none passes in the middle
  of a job (`ShiftFallsDue`).
* LIMIT 20 of the orphan scan is the constant `AdoptLimit`. The claim's LIMIT 20
  (RETRY_BATCH) is above the sales of any instance, and taking all due rows at once is
  what the code then does; the rows are retried in any order, which allows more than the code does.
* The provider's effect and the local continuation are one action when nothing
  can come between them that matters; a lost answer is a separate outcome.
* A failed statement is the mishap `db`: in the routes, in runDocument, in the mirrors and in the
  shift cron, its catch included. One that fails in the retry pass's own sweeps ends the tick as a crash
  of the process would, with less lost, and is not repeated as an action.
* A refused sandbox configuration, an unusable key or the like is `enabled` being FALSE.
* FiscalShifts knows of an offline session only that there is one: it opens at any moment (`SessionOpens`, a
  mishap) and ends (`SessionEnds`). In FiscalDocuments the register stays online (`offline` is FALSE
  there): the gates of an offline sale are OfflineTill's and OfflineReplay's.
* OfflineTill: a connection comes and goes between any two steps, so it is no variable. A
  receipt's rows of customers, its number and its stretch id are left out; what the session knows of
  dates is OfflineReplay's. The provider's list of unspent codes is any set of
  codes. One register, so one latest session.
* OfflineReplay: a date is a tick of the clock. The office's go-offline and its receipts are refused when they are
  dated before the last thing it took, an online document is dated by its own clock.
  An outage of the provider is every call being free to fail. What has been transmitted arrives before its caller
  gives up, or not at all. The repairs within one runDocument are one attempt, as they are in the code.
* TableBills: a row of a bill is one plate, and a guest's request one plate. Second register, rounding, pours, stamps,
  printing and the board's screens are left out; "ready" is not told apart
  from "new". A refund takes one plate at a time. What left the shelf and came back is derived from rounds and refunds.
* Debts: one customer, and one provider that keeps chains. Refusals that leave no trace (credit limit, block, stop list), stock,
  cash rounding, goods by weight and repeats by client_uuid are left out. A plan of a request may be stale and is checked
  again by its transaction, so any plan may come; ПРРО's switch is found either way where `Switches` allows it. Several documents of one
  request are several actions. The void route's question and the void are one action; documents of ordinary receipts are
  FiscalDocuments' business, so such a receipt may be refused, and undone, at any moment by `Void`. A refund leaves a receipt
  refunded in part or whole. voidSale locks sale, then customer, and giveBackChain the other way: Postgres breaks that deadlock by aborting one.
* `Upsets` names the mishaps a configuration allows and `MaxUpsets` bounds them:
  `crash`, `lost` (the provider acts, the answer is lost), `outside` (the shift is
  closed in the provider's cabinet), `toggle` (the owner switches fiscalisation off or
  on), `db`, `offline` (an offline session opens). Failures the code must always expect (provider unavailable, refusal,
  declined by the limiter, a late arrival of a document) are not bounded.

## 3. What the runs check

| Run | Instance | Checks | Shows |
|---|---|---|---|
| `FiscalShifts_cron` | a till that may also close by hand, a cron; 2 shifts, 2 rows; two mishaps of any kind, an offline session included; the store goes on selling | `ShiftTypeOK`, `ClosingKeepsOwner`, `OverdueShiftIsClosed` | nothing but a crash and a failed UPDATE of the cron's own catch strands a row in *closing*; the cron, helped after either by the next look at the shift, gets every overdue shift closed or parked, an offline session over |
| `Fiscal_checkout` | a till, the retry pass; 2 shifts, 3 rows; two mishaps of any kind | `TypeOK`, `NoCancelledReceipt`, `KeepsPromise`, `VoidedNeverResent`, `EveryDocumentSettles`, `NoOrphanForgotten` | no checkout cancels what is or will be registered; the retry pass sends nothing of a voided sale; the code implements the promise; every document and every orphan comes to an end, with a crash between any two steps |
| `Fiscal_closing` | a till, the retry pass and a manager who closes and opens the shift at any moment; cashier's voids and slow aborts allowed | `DoneIsRegistered`, `ProjectionAgrees`, `OneSender`, `DoneStaysDone` | whatever races, the ledger is right about done, for good, the projection follows it, and lease and claim keep till and retry pass from sending one document at once |
| `FiscalRate_drain` | three live callers, two of the retry pass; the constants of `rateLimit.ts` | `RateTypeOK`, `DrainCostsLittle`, `BurstAndRefill` | the backlog costs a live checkout at most 750 ms; a second sees at most the burst and the refill |
| `OfflineTill` | two tills, two receipts, one code; two mishaps | `TypeOK`, `CodeFiledOnce`, `NoReceiptLost`, `SpentForGood`, `ChainFrozen` | uploads and their repeats, leases, hand-overs, refills, server receipts and a replay in any order: a code is on one document, no printed receipt is forgotten by both sides, what is spent stays spent, a chain being sent does not grow |
| `OfflineTill_reprint` | one till, two receipts, two codes | `PrintedOnce`, violated | finding 1 |
| `OfflineReplay` | two sales, each online, the server's or the till's; one session, three moments, batches of one; one mishap, at any step, between a claim and its outcome too | `TypeOK`, `ClosedLeavesNothing`, `LostGoOfflineIsFound`, `ReplayInDateOrder`, `SentInsideWindow` | receipts go out by their dates and inside the offline window, through refusals, interruptions and restarts; a closed session leaves none; a lost go-offline is recognised; a document's attempts pass the budget by no more than one for each interruption |
| `OfflineReplay_ends` | one sale, fairness | `SessionEnds` | every session is closed or parked |
| `TableBills` | two tables, one bill, a waiter's plate and a guest's, two rounds; a screen that splits and one that pays whole | `TypeOK`, `PaidOnce`, `ChargedIsFired`, `CancelledHoldsNothing`, `AnsweredOnce`, `SharesAddUp`, `TapSendsOnce` | every plate on one standing receipt, every receipt for fired plates, nothing left on a cancelled bill, one round a tap, the discount shared to the cent |
| `TableBills_refusal` | the same on one table | `RefusalIsUndone`, violated | finding 2 |
| `Debts` | a line of three pieces for ten kopecks and one of a piece for four; three receipts or «внески»; ПРРО on and off | `TypeOK`, `JournalAgreesInOrder`, `PaidBySales`, `ChainExpectsOwed`, `WholeChainBack`, `ReturnedStaysClosed` | in any order of returns, repayments, voids, refunds, refusals and chains given back the journal agrees with the lines to the kopeck, save for finding 3; a line's money is its standing receipts'; the provider's chain expects what the line owes |
| `Debts_drift` | the same, two receipts | `JournalAgrees`, violated | finding 3 |

**Bounds.** Two shifts are what a repair of an expired shift, or an outside closing followed by a
new opening, needs; three mirror rows let a row be closed, re-opened by mistake and replaced, two let it be
closed and replaced. One mishap at
any point is what the repairs are written for, and already more than
a test reaches; the shift cron has two, so that its catch can fail after a failed statement, or a session open after a restart;
the checkout has two, so that a crash can be followed by a
switching off (an orphan outside its shift) or by a failed abandonment. `MAX_ATTEMPTS` is scaled to 2 (first try and one
retry) in the ledger and in the outbox, so that the budget runs out within the run. One sale is
enough where the property is about one document and its rivals. In `FiscalRateLimit` time goes by 250 ms and nobody asks of
a bucket more than a second in debt (`MaxDebtMs`).

In `OfflineTill` two tills are what a hand-over needs, two receipts what a code filed twice
needs, and one code is enough for both to want it (the theorems of section 4 are for any
number); a session more than the one (`MaxSessions`) adds nothing that `id` does not already
tell apart. `Copies` is one: with two, which repeats after a timeout make possible, the state
space is out of reach, and the theorems cover it. In `OfflineReplay` three moments are
one before, one at and one after a receipt; two sales are the shortest chain that has an order, and with batches of one the replay is
interrupted between any two of them. Its one session lets a receipt come too late for it; a second one
is not reached by the run. In `TableBills` the first screen splits one plate from the rest, so each of its
calls has two receipts, and the second screen pays whatever is left at any moment; `MaxRounds` is two: a
waiter's and a guest's. In `Debts` three pieces for ten kopecks have shares of 3, 4 and 3, so that the order of two receipts matters to
the kopeck; the other line is there to be older or newer; three sales are a chain's opening, its next «внесок» and its closing receipt, and one
more than `Debts_drift` needs.

**Deadlock** is checked where the system never stops: the rate limiter and every run
with a retry pass, whose ticks never end. The liveness runs of FiscalShifts and
the runs of OfflineTill, OfflineReplay, TableBills and Debts switch the check off: with fiscalisation switched off and no deadline passed, with every
receipt of the instance filed, every session ended, every bill closed or every debt settled, there is nothing left to do. In FiscalShifts
a till that would insert one mirror row more than `MaxRows` has to wait (the cron never inserts one, so
this hides no shift from it).

**Fairness.** `FairSpec` of FiscalDocuments: a request or a tick that has begun runs to its end (each
call and each statement has a timeout), the retry pass ticks every two minutes,
leases and backoffs elapse, documents age. Nothing is assumed of the provider,
of further requests, of the owner or of the shift cron: documents come to an end because
`abandonStaleDocs` abandons them. `FairShiftSpec`: jobs run on, the cron ticks,
deadlines arrive, and the provider, asked to close again and again, some time
does (strong fairness of the cron's successful close; without it nobody could close a
shift). No request has to come. `SellingSpec` adds that the store goes on selling:
its tills ask for the shift again and again and the reading is not always the cached one, whose life
is a minute. An offline session, which holds the cron back for as long as it lives, ends some day (weak fairness of `SessionEnds`):
that is what `OfflineReplay_ends` shows of the replay. `FairSpec` of OfflineReplay: the cron ticks and its steps end, an hour and two minutes pass
(`FallsQuiet`, `MayGoOnlineAgain`), and a call made again and again is answered some time, yes or no (strong fairness of
the probe, of go-offline and of go-online). No document need go through: the attempts made of it are over some time (weak
fairness of the sending steps together), and the budget ends what always fails. Nothing is assumed of the till: it need never
report, and the session ends because the code stops waiting after `DEVICE_READY_GRACE_MS`.

Each property has a mutant: the same definition with a bug one could write
there (`PROJECT.json`, "mutants"; the operators marked "Mutant of" in the
modules). The property fails on the mutant under the same configuration.

## 4. What is proved

TLAPS checks these for every set of workers, tills, sales, receipts, codes, sessions, tables, plates and lines of a debt, every bound and
every set of mishaps, from the named assumptions of the modules
(`ShiftsAssumption`, `LedgerAssumption`, `DocumentsAssumption`, `RateAssumption`, `TickAssumption`,
`NobodyAssumption`, `SizeAssumption`, `FiniteAssumption`, `ReplayAssumption`, `TableAssumption`, `DebtAssumption`).

| Theorem | Says |
|---|---|
| `ShiftTypeCorrect`, `RateTypeCorrect`, `TypeCorrect` | the type invariants of FiscalShifts, FiscalRateLimit and of FiscalDocuments, OfflineTill, OfflineReplay, TableBills and Debts |
| `ClosingAlwaysHasOwner` | `ClosingKeepsOwner`: whoever claimed the closing of a shift keeps the claim until the row has left *closing*, the process stops or the UPDATE of the cron's own catch fails, for any number of crons, overlapping ones included |
| `DoneHasReceipt` | `DoneIsRegistered`, with every mishap, double submission, cashier's voids and slow aborts |
| `OneSenderHolds`, `DoneStaysDoneHolds` | under `Serial`: lease and claim keep two transmissions of a document apart; done is the end of it, with every mishap, slow abort, cashier's void and closing of a shift |
| `ProjectionAgreesHolds` | under `Serial`, as long as no `LateAdoption` happens: the sale shows what its document's row says |
| `VoidedNeverResentHolds` | under `Careful`: `VoidedNeverResent` |
| `NoReceiptOfACancelledSale` | under `Careful`: `NoCancelledReceipt` |
| `ImplementsPromise` | under `Careful`: `KeepsPromise`, that is, every step is a step of FiscalPromise or a stutter |
| `RetryPassCostsLittle` | `DrainCostsLittle` for any capacity, refill, reserve, permitted wait and number of callers |
| `BurstAndRefillHolds` | `BurstAndRefill`: a second's transmissions are the burst and what was refilled, whoever queues, is declined or gives up |
| `CodeFiledOnceHolds`, `SpentForGoodHolds` | a code is on one document and stays there, with any number of tills, of copies of an upload at once, and of hand-overs |
| `NoReceiptLostHolds` | a printed receipt is with the till, with the server or given up by a person |
| `ChainFrozenHolds` | a stamp is written only into the session that is open then |
| `ReplayInDateOrderHolds`, `SentInsideWindowHolds` | every receipt of a session goes out in the order of the printed dates and inside the session's window, for any number of sales, sessions, seconds, batches, attempts, refusals and restarts |
| `ClosedLeavesNothingHolds`, `LostGoOfflineIsFoundHolds` | a closed session is empty; a go-offline that was lost is found again |
| `PaidOnceHolds`, `ChargedIsFiredHolds` | plates and receipts agree, for any number of screens, plates, parts and crashes |
| `CancelledHoldsNothingHolds`, `AnsweredOnceHolds`, `TapSendsOnceHolds` | the bill, the guest's request and the tap |
| `DiscountShared`, `SharesAddUpHolds` | what `ShareDiscount` hands out is the smaller of the discount and the bill, and no part gets more than it comes to, for any parts and sums |
| `JournalAgreesHolds` | `JournalAgreesInOrder`: journal and lines agree to the kopeck, for any number of lines, pieces, totals, receipts and chains |
| `WholeChainBackHolds`, `ReturnedStaysClosedHolds` | a chain goes back whole; what came back or was written off asks for nothing again |
| `PaidBySalesHolds` | `PaidBySales`: what a line carries is the sum over its standing receipts and «внески» |
| `ChainExpectsOwedHolds` | `ChainExpectsOwed`: the provider expects what the line owes, unless a document of an undone sale is registered or may yet be (`Loose`) |

*ClosingKeepsOwner* does not follow from the types: a cron could lose its row to another one. `LiveInv`
adds `OneLive` (the partial unique index: one live row per register), so a row in *closing* is the only one a sweep or
a close can mean; `HeldStep` then goes through the actions: none but the holder's own end, a crash, or a catch that throws (`Stranding`) leaves the claim while the row is *closing*.

*DoneIsRegistered* needs `Witnessed`: a worker about to record, or reading a
duplicate, stands over a registered receipt; receipts are never taken back.

*OneSender* is about two selections that do not know of each other: a till takes its sale by being served, the retry pass by reading
the ledger, at another moment than it sends. `SerialInv` says what keeps them apart: a sale with a till at its document is in no
pass' hands (`Unheld` in `TillAt`), because the orphan scan waits for the till and the lease keeps the row from falling due
(`UnheldStep`); a pass' selection is of unfinished documents, each once, and not of the one it is sending
(`RetrierAt`); two tills never work on one sale (`OneTurn`). `Moves` lists all a step may do to a
document's status and its sale: nothing, a sale made, a row opened, adopted, recorded, abandoned. *DoneStaysDone* then follows, though
markFailed has no guard: who records a failure works on a document that is not done (`RecordedUnfinished`). So does
*ProjectionAgrees*: T2 to T6 write both places at once, and a till opens the row of a sale that shows *pending*. Only an
adoption may open one under *failed*, when the shift of an orphan's era is live again after the orphan was parked. That step is `LateAdoption`, section 5 shows
it happening, and the theorem is that nothing else does it. `Serial` is `~ DoubleSubmit` (a till does not submit what it is being
served with; section 5 shows what the server alone does) and one retry pass at a time, which is the code's `retryRunning` (`fiscal.service.ts:1435`).

*NoCancelledReceipt* is where lost answers bite. `CarefulInv` says what the code's care
amounts to: a sale is worked on by at most one till (`OneTill`); a till that is past a refusal
and about to void has nothing on the wire and nothing late on the way (`Quiet`), and no retry pass
can have its document yet, because the row is leased (`Early`, `Stage`); so when
the void comes the tax service has no receipt, and afterwards nobody is left who
could send one. `Careful` is `~ CashierVoids /\ ~ DoubleSubmit /\ ~ SlowAbort`, and each
condition is needed:
with a cashier's void it fails; with a double submission one request voids what the
other has sent; with an abort slower than the backoff the retry pass sends it
first. All three are described in section 5.
*VoidedNeverResent* is read off the same invariant: a voided sale is quiet, so no pass has it in hand.

*DrainCostsLittle* compares the bucket with the bucket of the live calls alone;
`Gap` bounds their difference: a background call takes a token only when the
level is at most the permitted wait below reserve plus token, and refilling at the brim only closes the gap.

*BurstAndRefill* counts calls, which no single one of them knows. `BurstInv` gives every call that holds a token a slot, the moment its token
was or will be there: slots are a token apart, and whoever takes the next token takes the last slot (`Slots`). A call goes out at its slot, or, from a full
bucket, up to a capacity after it, so those of one second have their slots in a second and a capacity; dividing by the token maps them one to one into as
many numbers, and the cardinality theorems of the library do the rest. It needs timers that fire when they are due: the model's clock may not
step over the moment of a token (`TickAssumption`: `StepMs` divides `TokenMs`; the code's clock counts single milliseconds).

The invariant of OfflineTill is `IInv`: the types and `DataInv`. *CodeFiledOnce* alone does not survive a stamp: a
document must carry no code but its receipt's (`DocInv`), a receipt is stamped whole and never again once it has left the
counter (`StampInv`), and whatever a till sends or the server handles is stamped (`ReqInv`). *NoReceiptLost* follows from
two of their lines: past its commit a request's sale is there, and a stamped row is *gone* only when it is. The proof goes by what steps leave alone:
`Quiet` lists the actions that change no used code and no document's code, so that of all of them only `StampDevice` has to be
looked at for the codes, and `AllMove` that stamps stay, sales grow and rows move only on an answer. *SpentForGood* and *ChainFrozen* are read off
the same two lemmas.

The invariant of OfflineReplay is its own `IInv`. None of the four properties is inductive: they are about the one session the cron works on while
the tills, the server and the online sales go on. `Whose` says that no other live session has been touched (at most one is live,
`OneLive`); `Stage` what the cron's step knows of its session (from the claim on it takes no more receipts; past the
second listing it has none); `Window`, that a session half sent finds the register still offline at the office when a later pass or a restart comes
back to it; `InTurn`, that what is left of a batch is not dated after anything of the session outside it; `Flight`, that at most one document is
between its claim and its outcome, the first of its batch, with the register offline at the office. `Flight` also carries what the types say of
attempts, which the code bounds nowhere: claimSessionDocument counts without a limit and only markFailed compares, so whatever waits
has one attempt left within the budget, or within as many more as there were interruptions (`FlightKeeps`). The proof
has two halves. `ElsewhereKeepsOrder` covers every step that is not the replay's, from what such a step may do at most to a document, a session and the frame
(`Elsewhere`); `ReplayKeeps` covers the replay's own steps, from what it must know of its session (`AtWork`) and leaves behind (`Left`). That the
floor of the dates is a time at all (`FloorIsATime`, a largest element) is proved by a least counterexample in the well-founded order of the naturals.

The invariant of TableBills is the conjunction of its four safety properties with three frames of
fact: what a payment's frame may hold at each of its steps (`FrameInv`), that a fired plate's
round is of the plate's own bill (`LineInv`), and where a guest's request can be (`OrderInv`). *PaidOnce* then follows from
`Charged` taking only plates no receipt holds, in the transaction that attaches them, and `Released` giving back exactly what the
voided receipt held.

*SharesAddUp* is arithmetic, and `DiscountShared` says it without the bounds TLC needs. The shares rounded down add up to
at most the part given (`SharesFit`, one step of the sum at a time); the remainder passes the parts from the last to the first,
each taking what it has room for (`RestSteps`), and since the room of all is at least the remainder nothing is left at the first (`RestPasses`). The induction
is by the least number a fact fails at (`LeastNat`); a fold takes its set in an order of its own, so the sum is first shown to be
the same in any order (`AddsAny`).

*JournalAgreesInOrder* is about rounding: a receipt for some pieces takes the difference of two rounded shares, and what a
void gives back is right only if the same pieces are the last ones off the line. The invariant of Debts, `IInv`, therefore
remembers how the receipts lie on each other. `StackAt` says that numbers `b` exist (how many pieces had left the line when each receipt was rung) such
that every standing receipt since the last return took the share between `b` and `b` plus its pieces, the next one standing begins
where it ends, and the last one ends at what has left the line. A void under `assertNothingBuiltOn` takes the top of that stack,
or leaves a refunded receipt above a hole, which is `Undercut` and stays so. `CloserAt` does the same for the receipt that closed the line (it took
what was owed, «внески» deducted), `LineAt` for a line whose last piece came back (it carries no «внесок» and every receipt of it is older), which
is also why *ReturnedStaysClosed* holds. `PaidAt` is what *PaidBySales* says of pieces and «внески». A fold is hard to reason about while its set changes, so in the invariant "t is
the total of f" is stated by the running totals, which exist, step by each term and stand still where f is nothing (`IsTotal`); one lemma changes a term,
one adds two totals. At the end `FoldTotals` shows once that the fold over a set of sales is that total (were there a set
whose fold is not, there would be a smallest one, and taking out the element the fold takes first leaves a smaller), which turns `PaidAt` into *PaidBySales*. `ChainAt` ties a chain to a standing «внесок», or to the refunded receipt that closed the line, and gives *WholeChainBack*
with `SaleAt`, that an ordinary receipt is never a chain's.

*ChainExpectsOwed* is about the order of a chain's documents, which nobody but `ChainSettled` keeps: a sale joins a chain only when all
before it are registered, yet from then on it may be sent, answered late, retried, refused or undone at any time. `EInv` says where a chain can
be while no document of an undone sale has reached the provider and the line is open or closed by a sale of the chain (`Going`): the first document stands,
all but the newest are registered, the newest declares what was owed before it, which is what the provider expects until it
takes it, and what the line owes after it from then on (`Expects`). A void of the newest brings the line back to what its document
declared: `UndoneOwed`, by `CloserAt` if it was the closing receipt. What is done is filed, what is filed has been
sent, and no chain is used before it is opened (`Filings`). Most steps have nothing to do with the chain, or leave the line without one (`Apart`).

Only model-checked: liveness (`EveryDocumentSettles`, `NoOrphanForgotten`,
`OverdueShiftIsClosed`, `SessionEnds`), which with ENABLED is beyond this prover; and the runs of section 5, which show
a counterexample.

## 5. Where the code and its comments disagree

Found while modelling; these have a run with the trace.

1. `pos/src/offline/lease.ts:200-203`: spent codes "are never handed out twice". The till counts its queue and reads its lease
   before the request and merges the answer over both: a receipt stamped in between is in neither, its code is still leased at
   the server, and is handed out again.
2. `sales.service.ts:1933-1934`: a refusal "undoes a part while the bill is still being paid". Another
   screen's payment may have closed the bill while the part was at the provider.
3. `debts.service.ts:28-30`: "balance = the journal's sum = what the open lines still owe" holds after every write. A void must be
   the last that left its line, says assertNothingBuiltOn, because shares are rounded cumulatively; but a later receipt whose
   goods were refunded is not *completed* and does not count. Of three pieces for 10 kopecks one is paid for, then
   another, the second receipt is refunded and the first voided: the journal says 6, the line owes 7.

Reachable in the models too, kept without a run of their own. Where a definition is named, it
states what the comment says, and TLC shows it violated.

* `checkout.routes.ts:363-365`: the gate against cancelling a fiscalised sale refuses only *done*;
  a pending document may be on the wire, a failed one registered (`CashierVoids` with `NoCancelledReceipt`).
* `debt-lines.service.ts:121-122`: a sale of a chain with no ledger row yet "is in flight too". The void route asks
  chainVoidRefusal only of a sale that has one (`checkout.routes.ts:367`): an «внесок» voided at that moment is sent afterwards, and the
  chain at the provider holds money the line does not (`ChainExpectsOwed` without `Loose`).
* `debt-payment.service.ts:892-896`: a refused document "is undone". When something was built on its sale meanwhile (a
  write-off, a later receipt, a chain), the void is refused too and the sale stands (the second disjunct of `Refused`).
* `shifts.service.ts:330-332` reconciles a shift the provider does not have
  "rather than leaving a ghost row the cron will retry forever". The cron's own
  catch (471-476) sets the row back to *open*, deadline past (`ClosedStaysClosed`).
* `fiscal.service.ts:1777-1780`: a document is not re-sent "into a different shift". The gate
  compares ids of mirror rows, and a live row is reused for the next provider shift (`RetriedInItsShift`).
* `shifts.service.ts:399`: "Close every shift past its 24h deadline". A restart between the claim and
  the end leaves *closing*, which no tick claims; so does an UPDATE of the catch that fails (468-476), with every other row of that tick.
  Only a further sale heals it (`OverdueShiftIsClosed` without `SellingSpec`), and none does while fiscalisation is off.
* `ledger.ts:250-252`: a document the provider keeps refusing "still runs out of budget". The claim counts and does not look: a process
  that stops before markFailed leaves the document claimable past `MAX_ATTEMPTS` (`TypeOK` of OfflineReplay without its `upsets`).
* `ledger.ts:314-316`: "done must win". markFailed has no guard, and two
  simultaneous requests with one client_uuid share one row (`DoubleSubmit` with `DoneStaysDone`).
* `fiscal.service.ts:1920-1921`: a parked orphan is found again on every
  tick all the same; as many as the limit hide every newer one (two sales with `AdoptLimit` one, `NoOrphanForgotten`).
* A manual close and re-open between the cron's claim and its call: the cron closes the new
  shift (`shifts.service.ts:405-408` speaks of the second cron only).
* mirrorClosedShift closes the live row by register: one that a till has made in the meantime for a new shift too.
* A failed checkout's document is claimable two seconds later (`fiscal.service.ts:527`): an
  abort slower than that follows a registered receipt (`SlowAbort`).
* A cashier voids a sale after the retry pass has claimed its document and before
  it is sent (`ledger.ts:623`): `CashierVoids` with `VoidedNeverResent`.
* An orphan parked while fiscalisation was off and adopted when it is on again
  has a pending row under a projection that says failed (`ledger.ts:151`): `toggle` with `ProjectionAgrees`.
* Two registered receipts a second are the limit (`rateLimit.ts:9-11`), and a full bucket lets three
  out; `BurstAndRefill` states what holds.
* `repository.ts:782-795`: a receipt cancelled offline "never existed server-side". Its upload may be in
  flight, or taken and not answered (`CancelledNeverFiled`).
* `checkout.routes.ts:900-905`: a repeat is safe "because `client_uuid` resolves a sale we already
  took". It resolves the sale and not its stamp: after a server that stopped between the two, or a 503 for a
  session being sent, the repeat is answered 200 and the till drops the receipt (`ShippedIsFiled`).
* `session.ts` on the go-offline date: "It has to be before the first receipt of the stretch". A till's
  older receipt that joins a session the server opened does not lower its start (`GoOfflineBeforeReceipts`).
* listReplayableSessions: a session with a till's receipts "waits for that till to say its queue is empty". A receipt may
  join between the list and markReplaying, which asks only for the status (`ReplayWaitsForTill`).
* `ledger.ts:617`: "nothing online may reach the provider ahead of the replay's go-offline". A document in
  flight, or in a batch already claimed, does (`NothingAheadOfGoOffline`); the floor then parks the session.
* markStuck leaves a session's "documents left as they are". One parked after it was listed is replayed
  as it was listed (`StuckIsLeft`).
* `sales.service.ts:1849`: crediting a plate's stock back "would invent goods". A round may be taken back after its plate
  is paid for, and the receipt refunded after that (`GoodsNotInvented`).
* `TechDocs/POS_TABLES.md:582`: a bill that is closed owes nothing. closeIfSettled closes on a balance read in
  another statement (`PaidIsSettled`); and a process that stops just before it leaves an open bill that payBill
  refuses as paid and cancelBill refuses as fired.
* `guest-orders.service.ts:610`: accepting a request "must not quietly send what somebody is still typing". What
  is typed between its two transactions is sent (`NothingTypedIsSent`).

Seen in the code, outside what the models tell apart: a bill's discount is an argument of each call, so a call that pays
a part and one that pays the rest discount it twice; in a call whose second part is "everything still open" the first part is counted in
both totals; any error of completeSale, one of the database too, is a 400 to a till that files a printed receipt, which is
terminal; of two copies of an upload handled at once the one that loses the code writes *failed* over the stamped document;
createReservation locks no row when there is none yet (`reservations.ts:72-117`).

## 6. What is not modelled

Refunds as fiscal documents and service receipts go through the same runDocument and
are left for the next step. Of the debts: the stock the goods come from, reminders, statements and the customer's limit. Of the till: queued customers, the catalogue's snapshot, the printing queue; of offline mode: the monthly limits, the
status screens, the owner's buttons on a stuck session. Of the tables: prices, pours, excise stamps, the second
register's receipts, the combining of draft rows, the limit of pending requests. Payload mapping, requisites and tax
URLs are pure functions covered by unit tests; settings, registers and routing are
configuration; the HTTP clients of the providers are represented by the outcomes
their adapters may report. The till's IndexedDB and its sync's `running` flag make one frame of a till; two tabs of one till
are not modelled. The components of section 1 without a module are
named with their reason in `PROJECT.json`.

## 7. Plan

In this order; the first four lines are done.

1. Shifts, ledger, documents, promise, rate limiter, and their theorems.
2. `OfflineTill` with its theorems; `OfflineReplay`.
3. `TableBills` with its theorems.
4. `Debts` with its theorems.
5. Further theorems: OfflineReplay, the rate limiter, `OneSender`, `DoneStaysDone`, `ProjectionAgrees` and
   `VoidedNeverResent` (done); the folds of `PaidBySales` and `SharesAddUp`, and `ChainExpectsOwed` (done).
6. Refunds and service receipts in FiscalDocuments: the same document machine with parents that
   cannot be voided.
7. `QrPayment` (poll, expiry, reconciliation), `LiveReservations`: buyers of one broadcast against the stock.
