------------------------------- MODULE OfflineTill -------------------------------
(* Selling with no network: the till's reserve of tax-office codes and its    *)
(* outbox (pos/src/offline), the register's holder, the code pool and the     *)
(* route that files a receipt the till stamped itself (src/pos/fiscal/offline *)
(* and completeDeviceStampedSale).                                            *)
(* A receipt is one client_uuid.  Every await is a step of its own: a till's  *)
(* sync, a server request, a lease, a handover and a refill all interleave.   *)
EXTENDS Naturals, FiniteSets

CONSTANTS
    Device,        \* tills, by X-POS-Device-ID
    Receipt,       \* client_uuids
    Code,          \* the tax office's offline codes
    Nobody,        \* no device, no receipt, no code
    LeaseSize,     \* OFFLINE_LEASE_SIZE
    MaxAttempts,   \* MAX_ATTEMPTS of the outbox
    Copies,        \* requests of one receipt the server may handle at once (bound)
    CodesTarget,   \* offline_codes_target
    MaxSessions,   \* offline sessions of the register (bound)
    MaxUpsets      \* lost answers, crashes, cancellations, refusals, handovers (bound)

ASSUME NobodyAssumption ==
    /\ Nobody \notin Device \union Receipt \union Code
    /\ Device \intersect Receipt = {}
ASSUME SizeAssumption ==
    /\ LeaseSize \in Nat /\ MaxAttempts \in Nat \ {0} /\ Copies \in Nat /\ CodesTarget \in Nat
    /\ MaxSessions \in Nat /\ MaxUpsets \in Nat
ASSUME FiniteAssumption == IsFiniteSet(Receipt)

VARIABLES
    lease,     \* the till's StoredLease: codes, spent, blocked
    row,       \* the outbox row of a receipt
    attempts,  \* OutboxRow.attempts
    stamp,     \* [till, code] printed on the receipt
    sync,      \* runSync of a till: where it is and what it read before its await
    sale,      \* the sales the server has, by client_uuid
    doc,       \* the ledger row of a receipt: state, session, code
    req,       \* the server's requests for a receipt, and the session each joined
    job,       \* the server's lease request of a till
    code,      \* pos_fiscal_offline_codes: status and who by
    holder,    \* holder_device_id
    ask,       \* handover_device_id
    move,      \* a release, confirm or force in flight
    session,   \* the register's latest offline session
    refill,    \* the provider's list a refill has fetched and not yet written
    upsets

tillVars == <<lease, row, attempts, stamp, sync>>
serverVars == <<sale, doc, req, job, code, holder, ask, move, session, refill>>
vars == <<tillVars, serverVars, upsets>>

Queued == {"pending", "error"}                \* what refreshPending counts
RowState == {"none", "unknown", "stamping", "unprinted", "gone", "dead", "cancelled",
             "discarded"} \union Queued
HandlerStep == {"idle", "precheck", "gate", "session", "sale", "open", "stamp"}
Lease == [codes : SUBSET Code, spent : SUBSET Code, blocked : BOOLEAN]
Sync == [step : {"idle", "rows", "sent", "asked"}, todo : SUBSET Receipt, row : Receipt \union {Nobody},
         copy : Nat, pending : Nat, read : SUBSET Code]
Doc == [state : {"none", "pending", "failed", "online"}, sid : Nat, code : Code \union {Nobody}]
NoLease == [codes |-> {}, spent |-> {}, blocked |-> FALSE]
IdleSync == [step |-> "idle", todo |-> {}, row |-> Nobody, copy |-> 0, pending |-> 0, read |-> {}]
Session == [id : Nat, status : {"none", "open", "replaying", "closed", "stuck"},
            device : Device \union {Nobody}]

TypeOK ==
    /\ lease \in [Device -> Lease]
    /\ row \in [Receipt -> RowState]
    /\ attempts \in [Receipt -> Nat]
    /\ stamp \in [Receipt -> [till : Device \union {Nobody}, code : Code \union {Nobody}]]
    /\ sync \in [Device -> Sync]
    /\ sale \in [Receipt -> BOOLEAN]
    /\ doc \in [Receipt -> Doc]
    /\ req \in [Receipt \X (1..Copies) -> [step : HandlerStep, sid : Nat]]
    /\ job \in [Device -> {"idle", "holder", "take", "list"}]
    /\ code \in [Code -> [st : {"absent", "free", "leased", "used", "burned"},
                          by : Device \union Receipt \union {Nobody}]]
    /\ holder \in Device \union {Nobody}
    /\ ask \in Device \union {Nobody}
    /\ move \in [op : {"none", "release", "confirm", "force"}, step : 0..3,
                 to : Device \union {Nobody}, prev : Device \union {Nobody}]
    /\ session \in Session
    /\ refill \in [busy : BOOLEAN, list : SUBSET Code]
    /\ upsets \in Nat

NoMove == [op |-> "none", step |-> 0, to |-> Nobody, prev |-> Nobody]

Init ==
    /\ lease = [d \in Device |-> NoLease]
    /\ row = [r \in Receipt |-> "none"]
    /\ attempts = [r \in Receipt |-> 0]
    /\ stamp = [r \in Receipt |-> [till |-> Nobody, code |-> Nobody]]
    /\ sync = [d \in Device |-> IdleSync]
    /\ sale = [r \in Receipt |-> FALSE]
    /\ doc = [r \in Receipt |-> [state |-> "none", sid |-> 0, code |-> Nobody]]
    /\ req = [h \in Receipt \X (1..Copies) |-> [step |-> "idle", sid |-> 0]]
    /\ job = [d \in Device |-> "idle"]
    /\ code = [c \in Code |-> [st |-> "absent", by |-> Nobody]]
    /\ holder = Nobody
    /\ ask = Nobody
    /\ move = NoMove
    /\ session = [id |-> 0, status |-> "none", device |-> Nobody]
    /\ refill = [busy |-> FALSE, list |-> {}]
    /\ upsets = 0

SetSync(d, s) == sync' = [sync EXCEPT ![d] = s]
Upset == upsets < MaxUpsets /\ upsets' = upsets + 1
Unspent(d) == lease[d].codes \ lease[d].spent
Rows(d) == {r \in Receipt : row[r] \in Queued /\ stamp[r].till = d}
LiveSession == session.status \in {"open", "replaying"}
LeasedTo(c, d) == code[c] = [st |-> "leased", by |-> d]

----------------------------------------------------------------------------------
(* The till at the counter.  navigator.onLine and the JWT come and go between any *)
(* two steps, so they are no variable: what needs a connection, or its absence,   *)
(* may find it.                                                                   *)

\* repository.completeSale online, no answer: FiscalSaleUnknownError hands the
\* client_uuid back for the cashier to send again.
SaleUnknown(d, r, taken) ==
    /\ row[r] = "none" /\ Upset
    /\ row' = [row EXCEPT ![r] = "unknown"]
    /\ sale' = [sale EXCEPT ![r] = taken]
    /\ doc' = [doc EXCEPT ![r].state = IF taken THEN "online" ELSE "none"]
    /\ UNCHANGED <<lease, attempts, stamp, sync, req, job, code, holder, ask, move,
                   session, refill>>

\* The cashier sends it again with a connection: 200 with the sale, or a new one.
ProbeUnknown(d, r) ==
    /\ row[r] = "unknown"
    /\ row' = [row EXCEPT ![r] = "gone"]
    /\ sale' = [sale EXCEPT ![r] = TRUE]
    /\ doc' = [doc EXCEPT ![r].state = "online"]
    /\ UNCHANGED <<lease, attempts, stamp, sync, req, job, code, holder, ask, move,
                   session, refill, upsets>>

\* takeStamp: the gates, then the code is spent before anything is printed.
TakeStamp(d, r, c) ==
    /\ row[r] \in {"none", "unknown"}
    /\ ~lease[d].blocked /\ c \in Unspent(d)
    /\ lease' = [lease EXCEPT ![d].spent = @ \union {c}]
    /\ stamp' = [stamp EXCEPT ![r] = [till |-> d, code |-> c]]
    /\ row' = [row EXCEPT ![r] = "stamping"]
    /\ UNCHANGED <<attempts, sync, serverVars, upsets>>

\* db.outbox.add; then the receipt is printed.
QueueSale(d, r) ==
    /\ row[r] = "stamping" /\ stamp[r].till = d
    /\ row' = [row EXCEPT ![r] = "pending"]
    /\ UNCHANGED <<lease, attempts, stamp, sync, serverVars, upsets>>

\* refundSale without a connection: dropUnsyncedSale.
CancelOffline(d, r) ==
    /\ row[r] \in Queued \union {"dead"} /\ stamp[r].till = d /\ Upset
    /\ row' = [row EXCEPT ![r] = "cancelled"]
    /\ UNCHANGED <<lease, attempts, stamp, sync, serverVars>>

\* discardQueuedSale: only a row that is already dead.
DiscardDead(d, r) ==
    /\ row[r] = "dead" /\ stamp[r].till = d
    /\ row' = [row EXCEPT ![r] = "discarded"]
    /\ UNCHANGED <<lease, attempts, stamp, sync, serverVars, upsets>>

\* The application is closed: what only memory held is gone, and a receipt
\* whose code was spent but which was never queued was never printed.
TillCrash(d) ==
    /\ Upset
    /\ SetSync(d, IdleSync)
    /\ row' = [r \in Receipt |->
                 IF row[r] = "stamping" /\ stamp[r].till = d THEN "unprinted" ELSE row[r]]
    /\ UNCHANGED <<lease, attempts, stamp, serverVars>>

----------------------------------------------------------------------------------
(* runSync: the rows, then the count, then the lease                              *)

\* db.outbox is read once, before the loop: what it held then is what is sent.
StartSync(d) ==
    /\ sync[d].step = "idle"
    /\ SetSync(d, [sync[d] EXCEPT !.step = "rows", !.todo = Rows(d)])
    /\ UNCHANGED <<lease, row, attempts, stamp, serverVars, upsets>>

\* isDue: a row that failed waits for its backoff.
SkipRow(d, r) ==
    /\ sync[d].step = "rows" /\ r \in sync[d].todo /\ row[r] = "error"
    /\ SetSync(d, [sync[d] EXCEPT !.todo = sync[d].todo \ {r}])
    /\ UNCHANGED <<lease, row, attempts, stamp, serverVars, upsets>>

SendRow(d, r, n) ==
    /\ sync[d].step = "rows" /\ r \in sync[d].todo
    /\ req[<<r, n>>].step = "idle"
    /\ req' = [req EXCEPT ![<<r, n>>] = [step |-> "precheck", sid |-> 0]]
    /\ SetSync(d, [sync[d] EXCEPT !.step = "sent", !.todo = sync[d].todo \ {r}, !.row = r, !.copy = n])
    /\ UNCHANGED <<lease, row, attempts, stamp, sale, doc, job, code, holder, ask, move,
                   session, refill, upsets>>

\* The awaited answer is there, or is waited for no longer.
Heard(d) == SetSync(d, [sync[d] EXCEPT !.step = "rows", !.row = Nobody, !.copy = 0])

\* Mutant of MarkAttempt: the attempts left, counted down from a default of 0.
MarkAttemptLeft(r, terminal) ==
    IF row[r] \notin Queued
    THEN UNCHANGED <<row, attempts>>
    ELSE /\ attempts' = [attempts EXCEPT ![r] = @ - 1]
         /\ row' = [row EXCEPT ![r] = IF terminal THEN "dead" ELSE "error"]

\* classifySyncError and nextRowState; db.outbox.update of a row that is no
\* longer there changes nothing.
MarkAttempt(r, terminal) ==
    IF row[r] \notin Queued
    THEN UNCHANGED <<row, attempts>>
    ELSE /\ attempts' = [attempts EXCEPT ![r] = @ + 1]
         /\ row' = [row EXCEPT ![r] =
                IF terminal \/ attempts[r] + 1 >= MaxAttempts THEN "dead" ELSE "error"]

\* Mutant of Reply: whatever the answer, the row was sent.
ReplyForgets(r, n, verdict) ==
    LET d == stamp[r].till IN
    IF sync[d].step = "sent" /\ sync[d].row = r /\ sync[d].copy = n
    THEN /\ Heard(d)
         /\ row' = [row EXCEPT ![r] = IF @ \in Queued THEN "gone" ELSE @]
         /\ UNCHANGED attempts
    ELSE UNCHANGED <<sync, row, attempts>>

\* The shop's answer arrives: 200 or 201 deletes the row, 409 and 400 are
\* terminal, 503 and 502 are not.  Nobody hears an answer nobody waits for.
Reply(r, n, verdict) ==
    LET d == stamp[r].till IN
    IF sync[d].step = "sent" /\ sync[d].row = r /\ sync[d].copy = n
    THEN /\ Heard(d)
         /\ IF verdict = "ok"
            THEN /\ row' = [row EXCEPT ![r] = IF @ \in Queued THEN "gone" ELSE @]
                 /\ UNCHANGED attempts
            ELSE MarkAttempt(r, verdict = "refused")
    ELSE UNCHANGED <<sync, row, attempts>>

\* No answer in the client's 15 s; the server may still be at it.
TillTimeout(d) ==
    /\ sync[d].step = "sent" /\ Upset
    /\ Heard(d)
    /\ MarkAttempt(sync[d].row, FALSE)
    /\ UNCHANGED <<lease, stamp, serverVars>>

\* isUnauthorized: the whole drain stops.
Unauthorized(d) ==
    /\ sync[d].step = "sent" /\ Upset
    /\ req' = [req EXCEPT ![<<sync[d].row, sync[d].copy>>] = [step |-> "idle", sid |-> 0]]
    /\ req[<<sync[d].row, sync[d].copy>>].step = "precheck"
    /\ SetSync(d, IdleSync)
    /\ UNCHANGED <<lease, row, attempts, stamp, sale, doc, job, code, holder, ask, move,
                   session, refill>>

\* The unsent rows are counted, the dead ones excluded, and refreshLease reads
\* the lease it will save over after the answer.
RequestLease(d) ==
    /\ sync[d].step = "rows" /\ sync[d].todo = {} /\ job[d] = "idle"
    /\ SetSync(d, [sync[d] EXCEPT !.step = "asked", !.pending = Cardinality(Rows(d)), !.read = lease[d].spent])
    /\ job' = [job EXCEPT ![d] = "holder"]
    /\ UNCHANGED <<lease, row, attempts, stamp, sale, doc, req, code, holder, ask, move,
                   session, refill, upsets>>

\* No answer: the last reserve stays.
LeaseTimeout(d) ==
    /\ sync[d].step = "asked" /\ Upset
    /\ SetSync(d, IdleSync)
    /\ UNCHANGED <<lease, row, attempts, stamp, serverVars>>

----------------------------------------------------------------------------------
(* completeDeviceStampedSale, one await at a time                                 *)

At(r, n, step) == req[<<r, n>>].step = step
Goto(r, n, step) == req' = [req EXCEPT ![<<r, n>>].step = step]
End(r, n, verdict) ==
    /\ req' = [req EXCEPT ![<<r, n>>] = [step |-> "idle", sid |-> 0]]
    /\ Reply(r, n, verdict)
Silent == UNCHANGED <<sync, row, attempts>>

\* getSaleByClientUuid: a sale the book has is the answer, whatever became of
\* its document.
Precheck(r, n) ==
    /\ At(r, n, "precheck")
    /\ IF sale[r] THEN End(r, n, "ok") ELSE Goto(r, n, "gate") /\ Silent
    /\ UNCHANGED <<lease, stamp, sale, doc, job, code, holder, ask, move, session,
                   refill, upsets>>

\* claimRegister: free, or already ours.
Claim(d) ==
    /\ holder \in {Nobody, d}
    /\ holder' = d
    /\ ask' = IF ask = d THEN Nobody ELSE ask

\* preflightDeviceStamp: assertHolder, then isCodeLeasedTo; both refusals are 409.
Gate(r, n) ==
    LET d == stamp[r].till IN
    /\ At(r, n, "gate")
    /\ \/ Claim(d)
       \/ holder \notin {Nobody, d} /\ UNCHANGED <<holder, ask>>
    /\ IF holder \in {Nobody, d} /\ LeasedTo(stamp[r].code, d)
       THEN Goto(r, n, "session") /\ Silent
       ELSE End(r, n, "refused")
    /\ UNCHANGED <<lease, stamp, sale, doc, job, code, move, session, refill, upsets>>

\* takeFreeCodes of one code for go-offline; a session a till opens lives
\* without one when the pool is empty.
TakeGoOfflineCode ==
    \/ \E c \in Code : /\ code[c].st = "free"
                       /\ code' = [code EXCEPT ![c] = [st |-> "used", by |-> Nobody]]
    \/ (\A c \in Code : code[c].st # "free") /\ UNCHANGED code

NewSession(d) ==
    /\ session.id < MaxSessions
    /\ session' = [id |-> session.id + 1, status |-> "open", device |-> d]

\* sessionForDeviceDocument: join the open session (OfflineReplay has the flag),
\* or open one.
JoinSession(r, n) ==
    /\ At(r, n, "session")
    /\ \/ /\ session.status = "replaying"
          /\ End(r, n, "retry")
          /\ UNCHANGED <<session, code>>
       \/ /\ session.status = "open"
          /\ session' = [session EXCEPT !.device = IF @ = Nobody THEN stamp[r].till ELSE @]
          /\ req' = [req EXCEPT ![<<r, n>>] = [step |-> "sale", sid |-> session.id]]
          /\ Silent /\ UNCHANGED code
       \/ /\ ~LiveSession
          /\ NewSession(stamp[r].till) /\ TakeGoOfflineCode
          /\ req' = [req EXCEPT ![<<r, n>>] = [step |-> "sale", sid |-> session.id + 1]]
          /\ Silent
    /\ UNCHANGED <<lease, stamp, sale, doc, job, holder, ask, move, refill,
                   upsets>>

\* The session began over 36 hours ago (its first receipt may be that old): it
\* goes to the owner, and the sale goes on.
StickOldSession(r, n) ==
    /\ At(r, n, "sale") /\ LiveSession /\ session.id = req[<<r, n>>].sid /\ Upset
    /\ session' = [session EXCEPT !.status = "stuck"]
    /\ UNCHANGED <<tillVars, sale, doc, req, job, code, holder, ask, move, refill>>

\* salesService.completeSale: one sale per client_uuid.
CommitSale(r, n) ==
    /\ At(r, n, "sale")
    /\ sale' = [sale EXCEPT ![r] = TRUE]
    /\ Goto(r, n, "open") /\ Silent
    /\ UNCHANGED <<lease, stamp, doc, job, code, holder, ask, move, session, refill,
                   upsets>>

\* It throws: 400, and the sale was rolled back.
RejectSale(r, n) ==
    /\ At(r, n, "sale") /\ Upset
    /\ End(r, n, "refused")
    /\ UNCHANGED <<lease, stamp, sale, doc, job, code, holder, ask, move, session,
                   refill>>

\* ledger.openDocument: the row, or the one already there; a stamped one is the answer.
OpenDocument(r, n) ==
    /\ At(r, n, "open")
    /\ doc' = [doc EXCEPT ![r].state = IF @ = "none" THEN "pending" ELSE @]
    /\ IF doc[r].code # Nobody THEN End(r, n, "ok") ELSE Goto(r, n, "stamp") /\ Silent
    /\ UNCHANGED <<lease, stamp, sale, job, code, holder, ask, move, session, refill,
                   upsets>>

\* Mutants of StampDevice: the code is not spent with the stamp; the session is
\* not asked again whether it is open.
StampUnspent(r, n) ==
    /\ At(r, n, "stamp")
    /\ session.id = req[<<r, n>>].sid /\ session.status = "open"
    /\ LeasedTo(stamp[r].code, stamp[r].till)
    /\ doc' = [doc EXCEPT ![r].sid = session.id, ![r].code = stamp[r].code]
    /\ End(r, n, "ok")
    /\ UNCHANGED <<lease, stamp, sale, code, job, holder, ask, move, session, refill,
                   upsets>>

StampUnlocked(r, n) ==
    /\ At(r, n, "stamp")
    /\ LeasedTo(stamp[r].code, stamp[r].till)
    /\ code' = [code EXCEPT ![stamp[r].code] = [st |-> "used", by |-> r]]
    /\ doc' = [doc EXCEPT ![r].sid = req[<<r, n>>].sid, ![r].code = stamp[r].code]
    /\ End(r, n, "ok")
    /\ UNCHANGED <<lease, stamp, sale, job, holder, ask, move, session, refill,
                   upsets>>

\* stampDeviceNext: the session's row is locked, must still be open, and the
\* code must still be this till's; spending it and stamping are one transaction.
StampDevice(r, n) ==
    /\ At(r, n, "stamp")
    /\ session.id = req[<<r, n>>].sid /\ session.status = "open"
    /\ LeasedTo(stamp[r].code, stamp[r].till)
    /\ code' = [code EXCEPT ![stamp[r].code] = [st |-> "used", by |-> r]]
    /\ doc' = [doc EXCEPT ![r].sid = session.id, ![r].code = stamp[r].code]
    /\ End(r, n, "ok")
    /\ UNCHANGED <<lease, stamp, sale, job, holder, ask, move, session, refill,
                   upsets>>

\* Either check fails: the document is parked and the sale stays.  A session
\* being sent is 503, a code that is not this till's is 409.
ParkDocument(r, n) ==
    /\ At(r, n, "stamp")
    /\ LET open == session.id = req[<<r, n>>].sid /\ session.status = "open"
       IN /\ ~(open /\ LeasedTo(stamp[r].code, stamp[r].till))
          /\ End(r, n, IF open THEN "refused" ELSE "retry")
    /\ doc' = [doc EXCEPT ![r].state = "failed"]
    /\ UNCHANGED <<lease, stamp, sale, job, code, holder, ask, move, session, refill,
                   upsets>>

\* The server stops: the till sees a broken connection or a 502.
RequestDies(r, n) ==
    /\ ~At(r, n, "idle") /\ Upset
    /\ End(r, n, "retry")
    /\ UNCHANGED <<lease, stamp, sale, doc, job, code, holder, ask, move, session,
                   refill>>

----------------------------------------------------------------------------------
(* leaseCodes                                                                      *)

Hears(d) == sync[d].step = "asked"

\* assertHolder; the refusal is saved over the lease that was read.
LeaseHolder(d) ==
    /\ job[d] = "holder"
    /\ \/ /\ Claim(d)
          /\ job' = [job EXCEPT ![d] = "take"]
          /\ UNCHANGED <<lease, sync>>
       \/ /\ holder \notin {Nobody, d}
          /\ job' = [job EXCEPT ![d] = "idle"]
          /\ lease' = IF Hears(d)
                      THEN [lease EXCEPT ![d] = [codes |-> {}, spent |-> sync[d].read, blocked |-> TRUE]]
                      ELSE lease
          /\ sync' = IF Hears(d) THEN [sync EXCEPT ![d] = IdleSync] ELSE sync
          /\ UNCHANGED <<holder, ask>>
    /\ UNCHANGED <<row, attempts, stamp, sale, doc, req, code, move, session, refill,
                   upsets>>

Held(d) == {c \in Code : LeasedTo(c, d)}
Free == {c \in Code : code[c].st = "free"}

\* takeFreeCodes: as many as are missing, or as there are.
LeaseTake(d) ==
    /\ job[d] = "take"
    /\ job' = [job EXCEPT ![d] = "list"]
    /\ \E S \in SUBSET Free :
          /\ Cardinality(S) + Cardinality(Held(d)) <= LeaseSize \/ S = {}
          /\ S = Free \/ Cardinality(S) + Cardinality(Held(d)) >= LeaseSize
          /\ code' = [c \in Code |-> IF c \in S THEN [st |-> "leased", by |-> d] ELSE code[c]]
    /\ UNCHANGED <<lease, row, attempts, stamp, sync, sale, doc, req, holder, ask, move,
                   session, refill, upsets>>

\* The answer and merge: the list is the truth, spent keeps what it still names,
\* and a queue counted empty before the request forgets what was spent.
LeaseList(d) ==
    /\ job[d] = "list"
    /\ job' = [job EXCEPT ![d] = "idle"]
    /\ IF Hears(d)
       THEN /\ lease' = [lease EXCEPT ![d] =
                 [codes |-> Held(d),
                  spent |-> IF sync[d].pending = 0 THEN {} ELSE sync[d].read \intersect Held(d),
                  blocked |-> FALSE]]
            /\ SetSync(d, IdleSync)
       ELSE UNCHANGED <<lease, sync>>
    /\ UNCHANGED <<row, attempts, stamp, sale, doc, req, code, holder, ask, move, session,
                   refill, upsets>>

----------------------------------------------------------------------------------
(* The register's holder                                                           *)

ReleaseCodes(d, to) ==
    code' = [c \in Code |-> IF LeasedTo(c, d) THEN [st |-> to, by |-> Nobody] ELSE code[c]]

BeginMove(m) ==
    /\ move = NoMove /\ Upset
    /\ move' = m
    /\ UNCHANGED <<tillVars, sale, doc, req, job, code, holder, ask, session, refill>>

\* requestHandover; a free register is simply claimed.
RequestHandover(d) ==
    /\ holder # d
    /\ IF holder = Nobody
       THEN Claim(d)
       ELSE ask' = d /\ UNCHANGED holder
    /\ UNCHANGED <<tillVars, sale, doc, req, job, code, move, session, refill, upsets>>

\* releaseRegister: the holder, and no live session; what the till still has
\* in its outbox is not asked.
Release(d) ==
    /\ holder = d /\ ~LiveSession
    /\ BeginMove([op |-> "release", step |-> 1, to |-> Nobody, prev |-> d])

\* canConfirmHandover: asked for, the outbox reported empty, no live session.
Confirm(d) ==
    /\ holder = d /\ ask # Nobody /\ Rows(d) = {} /\ ~LiveSession
    /\ BeginMove([op |-> "confirm", step |-> 1, to |-> Nobody, prev |-> d])

\* forceHandover: the owner, to the given till or to the one that asked.
ForceHandover(d) == BeginMove([op |-> "force", step |-> 1, to |-> d, prev |-> holder])

\* releaseLeasedCodes(..., 'free')
MoveFrees ==
    /\ move.op \in {"release", "confirm"} /\ move.step = 1
    /\ ReleaseCodes(move.prev, "free")
    /\ move' = [move EXCEPT !.step = 2]
    /\ UNCHANGED <<tillVars, sale, doc, req, job, holder, ask, session, refill, upsets>>

\* The guarded UPDATE of holder_device_id.
MoveEnds ==
    /\ move.op \in {"release", "confirm"} /\ move.step = 2
    /\ move' = NoMove
    /\ IF move.op = "release"
       THEN holder' = (IF holder = move.prev THEN Nobody ELSE holder) /\ UNCHANGED ask
       ELSE IF holder = move.prev /\ ask # Nobody
            THEN holder' = ask /\ ask' = Nobody
            ELSE UNCHANGED <<holder, ask>>
    /\ UNCHANGED <<tillVars, sale, doc, req, job, code, session, refill, upsets>>

Taken == move.prev \notin {Nobody, move.to}

\* The previous holder's live session is stuck.
ForceSticks ==
    /\ move.op = "force" /\ move.step = 1
    /\ move' = [move EXCEPT !.step = 2]
    /\ session' = IF Taken /\ LiveSession /\ session.device = move.prev
                  THEN [session EXCEPT !.status = "stuck"] ELSE session
    /\ UNCHANGED <<tillVars, sale, doc, req, job, code, holder, ask, refill, upsets>>

ForceBurns ==
    /\ move.op = "force" /\ move.step = 2
    /\ move' = [move EXCEPT !.step = 3]
    /\ IF Taken THEN ReleaseCodes(move.prev, "burned") ELSE UNCHANGED code
    /\ UNCHANGED <<tillVars, sale, doc, req, job, holder, ask, session, refill, upsets>>

ForceEnds ==
    /\ move.op = "force" /\ move.step = 3
    /\ move' = NoMove
    /\ holder' = move.to /\ ask' = Nobody
    /\ UNCHANGED <<tillVars, sale, doc, req, job, code, session, refill, upsets>>

----------------------------------------------------------------------------------
(* The pool, the register's own receipts and the replay                            *)

\* refillOfflineCodes: short of the target, the provider lists what it has unspent.
RefillFetch(list) ==
    /\ ~refill.busy /\ Cardinality(Free) < CodesTarget
    /\ refill' = [busy |-> TRUE, list |-> list]
    /\ UNCHANGED <<tillVars, sale, doc, req, job, code, holder, ask, move, session, upsets>>

\* Mutant of RefillWrite: ON CONFLICT DO UPDATE SET status = 'free'.
RefillOverwrites ==
    /\ refill.busy
    /\ refill' = [busy |-> FALSE, list |-> {}]
    /\ code' = [c \in Code |->
         IF c \in refill.list THEN [st |-> "free", by |-> Nobody]
         ELSE IF code[c].st = "free" /\ Cardinality(refill.list) < CodesTarget
              THEN [st |-> "burned", by |-> Nobody]
              ELSE code[c]]
    /\ UNCHANGED <<tillVars, sale, doc, req, job, holder, ask, move, session, upsets>>

\* INSERT ... ON CONFLICT DO NOTHING; a list shorter than the target is the
\* whole reserve, so a free code it does not name is burned.
RefillWrite ==
    /\ refill.busy
    /\ refill' = [busy |-> FALSE, list |-> {}]
    /\ code' = [c \in Code |->
         IF code[c].st = "absent" /\ c \in refill.list THEN [st |-> "free", by |-> Nobody]
         ELSE IF code[c].st = "free" /\ c \notin refill.list /\ Cardinality(refill.list) < CodesTarget
              THEN [st |-> "burned", by |-> Nobody]
              ELSE code[c]]
    /\ UNCHANGED <<tillVars, sale, doc, req, job, holder, ask, move, session, upsets>>

\* openServerSession: the provider is unreachable from the server; the code is
\* required.
OpenServerSession ==
    /\ ~LiveSession /\ Free # {}
    /\ NewSession(Nobody) /\ TakeGoOfflineCode
    /\ UNCHANGED <<tillVars, sale, doc, req, job, holder, ask, move, refill, upsets>>

\* stampNext: a sale the server stamps itself inside the open session.
StampServer(c) ==
    /\ session.status = "open" /\ c \in Free
    /\ code' = [code EXCEPT ![c] = [st |-> "used", by |-> Nobody]]
    /\ UNCHANGED <<tillVars, sale, doc, req, job, holder, ask, move, session, refill, upsets>>

\* markReplaying asks only for an open session: what listReplayableSessions read
\* of the till's readiness (OfflineReplay) is not asked again.
MarkReplaying ==
    /\ session.status = "open"
    /\ session' = [session EXCEPT !.status = "replaying"]
    /\ UNCHANGED <<tillVars, sale, doc, req, job, code, holder, ask, move, refill, upsets>>

\* The replay ends (OfflineReplay has its steps): markClosed or markStuck.
EndReplay(status) ==
    /\ session.status = "replaying"
    /\ session' = [session EXCEPT !.status = status]
    /\ UNCHANGED <<tillVars, sale, doc, req, job, code, holder, ask, move, refill, upsets>>

----------------------------------------------------------------------------------
TillSync(d) ==
    \/ StartSync(d) \/ RequestLease(d)
    \/ \E r \in Receipt : SkipRow(d, r) \/ \E n \in 1..Copies : SendRow(d, r, n)

LeaseStep(d) == LeaseHolder(d) \/ LeaseTake(d) \/ LeaseList(d)

Handle(r, n) ==
    \/ Precheck(r, n) \/ Gate(r, n) \/ JoinSession(r, n)
    \/ CommitSale(r, n) \/ OpenDocument(r, n) \/ StampDevice(r, n) \/ ParkDocument(r, n)

TillNext(d) ==
    \/ TillCrash(d) \/ TillTimeout(d) \/ Unauthorized(d)
    \/ LeaseTimeout(d) \/ TillSync(d) \/ LeaseStep(d)
    \/ \E r \in Receipt :
          \/ ProbeUnknown(d, r) \/ QueueSale(d, r) \/ CancelOffline(d, r) \/ DiscardDead(d, r)
          \/ \E taken \in BOOLEAN : SaleUnknown(d, r, taken)
          \/ \E c \in Code : TakeStamp(d, r, c)

ServerNext ==
    \/ \E r \in Receipt, n \in 1..Copies : Handle(r, n) \/ RejectSale(r, n) \/ RequestDies(r, n) \/ StickOldSession(r, n)
    \/ MoveFrees \/ MoveEnds \/ ForceSticks \/ ForceBurns \/ ForceEnds
    \/ \E d \in Device : RequestHandover(d) \/ Release(d) \/ Confirm(d) \/ ForceHandover(d)
    \/ \E list \in SUBSET Code : RefillFetch(list)
    \/ RefillWrite \/ OpenServerSession \/ MarkReplaying
    \/ \E c \in Code : StampServer(c)
    \/ \E status \in {"closed", "stuck"} : EndReplay(status)

Next == (\E d \in Device : TillNext(d)) \/ ServerNext

Spec == Init /\ [][Next]_vars
----------------------------------------------------------------------------------
(* Properties                                                                      *)

Printed(r) == stamp[r].till # Nobody /\ row[r] \notin {"stamping", "unprinted"}

\* The tax office refuses a code used twice: a code is on at most one document,
\* the one it says, whatever was leased, released, refilled or sent twice in
\* between (pool.ts takeFreeCodes, useLeasedCode, stampDeviceNext).
CodeFiledOnce ==
    /\ \A r \in Receipt : doc[r].code # Nobody => code[doc[r].code] = [st |-> "used", by |-> r]
    /\ \A c \in Code, r \in Receipt : code[c] = [st |-> "used", by |-> r] => doc[r].code = c

\* A receipt the customer holds is never forgotten by both sides: the till still
\* has its row, dead or alive, or the server has the sale, or a person gave it up
\* (sync.ts syncSale deletes the row only on the server's answer).
NoReceiptLost ==
    \A r \in Receipt : Printed(r) =>
        row[r] \in Queued \union {"dead", "cancelled", "discarded"} \/ sale[r]

\* A spent or burned code never comes back, and a used code keeps its document
\* (releaseLeasedCodes and refillOfflineCodes both touch the same rows).
SpentForGood ==
    [][\A c \in Code : code[c].st \in {"used", "burned"} => code'[c] = code[c]]_vars

\* A chain being sent, closed or parked does not grow: a document joins a session
\* only while it is open, however late the request that found it open
\* (session.ts stampDeviceNext, FOR UPDATE).
ChainFrozen ==
    [][\A r \in Receipt : doc'[r].code # doc[r].code =>
          doc'[r].sid = session.id /\ session.status = "open"]_vars

\* lease.ts: spent codes "are never handed out twice".
PrintedOnce ==
    \A q, r \in Receipt : q # r /\ Printed(q) /\ Printed(r) => stamp[q].code # stamp[r].code

\* repository.ts: what is cancelled offline "never existed server-side".
CancelledNeverFiled == \A r \in Receipt : row[r] = "cancelled" => ~sale[r]

\* checkout.routes.ts: a 503 "must keep the receipt in the queue", and the till
\* takes a row out only when its document carries its stamp.
ShippedIsFiled ==
    \A r \in Receipt : Printed(r) /\ row[r] = "gone" => doc[r].code = stamp[r].code
==================================================================================
