------------------------------ MODULE OfflineReplay ------------------------------
(* Offline sessions of one register and their replay to the tax office         *)
(* (src/pos/fiscal/offline/session.ts, replayOneSession, the ledger's session   *)
(* queries).  The tax office reads a register's chain by its dates: a go-offline *)
(* or a receipt dated before the last thing it took is refused.  So what is      *)
(* modelled is time: when a receipt is printed, when it reaches the office, and  *)
(* what the code knows of both when it sends the next thing.                     *)
EXTENDS Integers, FiniteSets, FiniteSetsExt

CONSTANTS
    Docs,          \* sales of the register
    MaxSessions,   \* offline sessions (bound)
    MaxNow,        \* the clock (bound)
    MaxAttempts,   \* MAX_ATTEMPTS of the ledger
    Batch,         \* REPLAY_BATCH
    MaxUpsets,     \* lost answers, failed statements and restarts (bound)
    ServerSells,   \* the server opens sessions of its own (case B)
    OnlineSells    \* sales are registered online between the sessions

ASSUME ReplayAssumption ==
    /\ MaxSessions \in Nat /\ MaxNow \in Nat /\ MaxAttempts \in Nat \ {0}
    /\ Batch \in Nat \ {0} /\ MaxUpsets \in Nat
    /\ ServerSells \in BOOLEAN /\ OnlineSells \in BOOLEAN

VARIABLES
    now,       \* seconds
    doc,       \* a sale: where its document is, its printed date, its session
    session,   \* pos_fiscal_offline_sessions, in the order they were opened
    office,    \* what the tax office has of this register
    rep,       \* the cron's frame: its step, session, batch and claimed document
    empty,     \* a lease request that reports an empty outbox is in flight
    upsets

vars == <<now, doc, session, office, rep, empty, upsets>>

Sessions == 1..MaxSessions
DocState == {"none", "wire", "due", "claimed", "stamping", "printed", "joined", "pending",
             "done", "abandoned", "parked", "voided"}
Doc == [st : DocState, mode : {"none", "online", "server", "till"}, date : Nat,
        sid : Nat, attempts : Nat]
Session == [status : {"none", "open", "replaying", "closed", "stuck"},
            why : {"", "order", "refused", "expired"},
            start : Int, till : BOOLEAN, ready : BOOLEAN, quiet : BOOLEAN,
            sent : BOOLEAN, onAt : Nat, recent : BOOLEAN]
Step == {"idle", "probe", "claim", "floor", "goOffline", "list", "send", "goOnline",
         "state", "batch"}

TypeOK ==
    /\ now \in Nat
    /\ doc \in [Docs -> Doc]
    /\ session \in [Sessions -> Session]
    /\ office \in [last : Int, offline : BOOLEAN, has : SUBSET Docs, off : SUBSET Sessions]
    /\ rep \in [step : Step, sid : Nat, todo : SUBSET Docs, out : SUBSET Docs]
    /\ empty \in BOOLEAN
    /\ upsets \in 0..MaxUpsets
    /\ \A d \in Docs : doc[d].attempts <= MaxAttempts + upsets

NoDoc == [st |-> "none", mode |-> "none", date |-> 0, sid |-> 0, attempts |-> 0]
NoSession == [status |-> "none", why |-> "", start |-> 0, till |-> FALSE, ready |-> FALSE,
              quiet |-> FALSE, sent |-> FALSE, onAt |-> 0, recent |-> FALSE]
Resting == [step |-> "idle", sid |-> 0, todo |-> {}, out |-> {}]

Init ==
    /\ now = 1
    /\ doc = [d \in Docs |-> NoDoc]
    /\ session = [s \in Sessions |-> NoSession]
    /\ office = [last |-> 0, offline |-> FALSE, has |-> {}, off |-> {}]
    /\ rep = Resting
    /\ empty = FALSE
    /\ upsets = 0

Upset == upsets < MaxUpsets /\ upsets' = upsets + 1
Live == {s \in Sessions : session[s].status \in {"open", "replaying"}}
NextSession == {s \in Sessions : session[s].status = "none" /\ \A t \in 1..(s - 1) : session[t].status # "none"}
Unsent(d) == doc[d].st = "pending"
DocsOf(s) == {d \in Docs : doc[d].sid = s /\ Unsent(d)}

----------------------------------------------------------------------------------
(* The tax office (external)                                                       *)

\* An online document is dated by the office's own clock.
Register(d) == office' = [office EXCEPT !.last = now, !.has = @ \union {d}]

InOrder(date) == date >= office.last

----------------------------------------------------------------------------------
(* Sales                                                                           *)

Tick ==
    /\ now < MaxNow
    /\ now' = now + 1
    /\ UNCHANGED <<doc, session, office, rep, empty, upsets>>

\* preflight: no live session and an open shift; from here the sale is sent
\* online whatever happens.
OnlineBegins(d) ==
    /\ OnlineSells /\ doc[d].st = "none" /\ Live = {}
    /\ doc' = [doc EXCEPT ![d].st = "wire", ![d].mode = "online"]
    /\ UNCHANGED <<now, session, office, rep, empty, upsets>>

\* The document arrives, from a checkout or from the retry pass; a repeated one
\* is a duplicate and keeps its date.
OnlineArrives(d) ==
    /\ doc[d].st \in {"wire", "claimed"}
    /\ IF d \in office.has THEN UNCHANGED office ELSE Register(d)
    /\ doc' = [doc EXCEPT ![d].st = "done", ![d].date = IF d \in office.has THEN @ ELSE now]
    /\ UNCHANGED <<now, session, rep, empty, upsets>>

\* It arrives and the answer is lost: the row stays failed and is due again.
OnlineLost(d) ==
    /\ doc[d].st \in {"wire", "claimed"} /\ d \notin office.has /\ Upset
    /\ Register(d)
    /\ doc' = [doc EXCEPT ![d].st = "due", ![d].date = now]
    /\ UNCHANGED <<now, session, rep, empty>>

\* It does not arrive.
OnlineFails(d) ==
    /\ doc[d].st \in {"wire", "claimed"}
    /\ doc' = [doc EXCEPT ![d].st = "due"]
    /\ UNCHANGED <<now, session, office, rep, empty, upsets>>

Opened(start, till) ==
    [NoSession EXCEPT !.status = "open", !.start = start, !.till = till]

\* preflight: the live session's gate, or a new session when the provider does
\* not answer (openServerSession).
StampBegins(d) ==
    /\ ServerSells /\ doc[d].st = "none"
    /\ \/ \E s \in Live : /\ session[s].status = "open"
                          /\ doc' = [doc EXCEPT ![d].st = "stamping", ![d].mode = "server", ![d].sid = s]
                          /\ UNCHANGED session
       \/ /\ Live = {}
          /\ \E s \in NextSession : /\ session' = [session EXCEPT ![s] = Opened(now, FALSE)]
                              /\ doc' = [doc EXCEPT ![d].st = "stamping", ![d].mode = "server", ![d].sid = s]
    /\ UNCHANGED <<now, office, rep, empty, upsets>>

\* Mutant of StampServer: the session is looked at before the lock is taken.
StampUnlocked(d) ==
    /\ doc[d].st = "stamping"
    /\ doc' = [doc EXCEPT ![d].st = "pending", ![d].date = now]
    /\ UNCHANGED <<now, session, office, rep, empty, upsets>>

\* stampNext: under the session's lock, only while it is open; otherwise the
\* sale is voided, nothing having been sent.
StampServer(d) ==
    /\ doc[d].st = "stamping"
    /\ IF session[doc[d].sid].status = "open"
       THEN doc' = [doc EXCEPT ![d].st = "pending", ![d].date = now]
       ELSE doc' = [doc EXCEPT ![d].st = "voided"]
    /\ UNCHANGED <<now, session, office, rep, empty, upsets>>

\* takeStamp: the till prints with no network, dated by its own clock.
TillPrints(d) ==
    /\ doc[d].st = "none"
    /\ doc' = [doc EXCEPT ![d].st = "printed", ![d].mode = "till", ![d].date = now]
    /\ UNCHANGED <<now, session, office, rep, empty, upsets>>

----------------------------------------------------------------------------------
(* The session a till's receipt belongs to                                         *)

\* offlineChainFloor: what our own book knows the office has.
Marks == {doc[d].date : d \in {e \in Docs : doc[e].mode = "online" /\ doc[e].st = "done"}}
         \union {session[s].onAt : s \in {t \in Sessions : session[t].status = "closed"}}
Floor == Max(Marks \union {0})

\* deviceSessionStart: a second before the receipt, nudged past the floor when
\* it still fits.
DeviceStart(date) ==
    IF Floor < date - 1 THEN date - 1
    ELSE IF Floor + 1 <= date THEN Floor + 1
    ELSE date - 1

\* sessionForDeviceDocument: a session being sent refuses for now; an open one
\* is joined and waits for the till again; otherwise a new one.
JoinSession(d) ==
    /\ doc[d].st = "printed"
    /\ \/ \E s \in Live :
             /\ session[s].status = "open"
             /\ session' = [session EXCEPT ![s].till = TRUE, ![s].ready = FALSE, ![s].quiet = FALSE]
             /\ doc' = [doc EXCEPT ![d].st = "joined", ![d].sid = s]
       \/ /\ Live = {}
          /\ \E s \in NextSession :
                /\ session' = [session EXCEPT ![s] = Opened(DeviceStart(doc[d].date), TRUE)]
                /\ doc' = [doc EXCEPT ![d].st = "joined", ![d].sid = s]
    /\ UNCHANGED <<now, office, rep, empty, upsets>>

\* stampDeviceNext, or the document is parked and the receipt never filed.
StampDevice(d) ==
    /\ doc[d].st = "joined"
    /\ IF session[doc[d].sid].status = "open"
       THEN doc' = [doc EXCEPT ![d].st = "pending"]
       ELSE doc' = [doc EXCEPT ![d].st = "parked"]
    /\ UNCHANGED <<now, session, office, rep, empty, upsets>>

\* The outbox is counted; the lease request travels.
ReportEmpty ==
    /\ ~empty /\ \A d \in Docs : doc[d].st \notin {"printed", "joined"}
    /\ empty' = TRUE
    /\ UNCHANGED <<now, doc, session, office, rep, upsets>>

\* markDeviceReady of the register's open session, whatever was printed since.
DeviceReady ==
    /\ empty
    /\ empty' = FALSE
    /\ session' = [s \in Sessions |->
          IF session[s].status = "open" /\ session[s].till
          THEN [session[s] EXCEPT !.ready = TRUE, !.quiet = FALSE] ELSE session[s]]
    /\ UNCHANGED <<now, doc, office, rep, upsets>>

\* An hour without a change of the row (DEVICE_READY_GRACE_MS).
FallsQuiet(s) ==
    /\ s \in Live /\ ~session[s].quiet
    /\ session' = [session EXCEPT ![s].quiet = TRUE]
    /\ UNCHANGED <<now, doc, office, rep, empty, upsets>>

\* Two minutes since the last go-online (GO_ONLINE_MIN_INTERVAL_MS).
MayGoOnlineAgain(s) ==
    /\ session[s].recent
    /\ session' = [session EXCEPT ![s].recent = FALSE]
    /\ UNCHANGED <<now, doc, office, rep, empty, upsets>>

Stick(s, why) ==
    session' = IF s \in Live THEN [session EXCEPT ![s].status = "stuck", ![s].why = why]
               ELSE session

\* markStuck from outside the replay: 36 hours are over, or the owner has
\* forced a handover.
SessionExpires(s) ==
    /\ s \in Live
    /\ Stick(s, "expired")
    /\ UNCHANGED <<now, doc, office, rep, empty, upsets>>

\* abandonStaleDocs, a day later, whatever is in no live session; and
\* abandonShiftDocs, once the shift of a stuck session is closed.
SweepStale(d) ==
    /\ doc[d].st = "pending" /\ doc[d].sid \notin Live
    /\ doc' = [doc EXCEPT ![d].st = "abandoned"]
    /\ UNCHANGED <<now, session, office, rep, empty, upsets>>

----------------------------------------------------------------------------------
(* The cron, every two minutes and never twice at once: first the replay, then     *)
(* the online documents that are due.  What replayOneSession keeps across its      *)
(* awaits (go_offline_tx_id, last_go_online_at, the register's state) nobody else  *)
(* writes, so it is read where it is used.                                         *)

At(step) == rep.step = step
Goto(step) == rep' = [rep EXCEPT !.step = step]
Rest == rep' = Resting
Sid == rep.sid

\* Mutant of PickSession: no grace for a till that never reports.
PickReady(s) ==
    /\ At("idle") /\ s \in Live
    /\ ~session[s].till \/ session[s].ready
    /\ rep' = [Resting EXCEPT !.step = "probe", !.sid = s]
    /\ UNCHANGED <<now, doc, session, office, empty, upsets>>

\* listReplayableSessions: a session with a till's documents waits for the till.
PickSession(s) ==
    /\ At("idle") /\ s \in Live
    /\ ~session[s].till \/ session[s].ready \/ session[s].quiet
    /\ rep' = [Resting EXCEPT !.step = "probe", !.sid = s]
    /\ UNCHANGED <<now, doc, session, office, empty, upsets>>

\* registerState, and the pool's resync.
ProbeAnswers ==
    /\ At("probe") /\ Goto("claim")
    /\ UNCHANGED <<now, doc, session, office, empty, upsets>>

\* A call that does not go through ends the pass; the next tick resumes.
CallFails ==
    /\ rep.step \in {"probe", "goOffline", "goOnline", "state"} /\ Rest
    /\ UNCHANGED <<now, doc, session, office, empty, upsets>>

\* So does a statement that fails, out of replayOneSession: a document already
\* claimed keeps its attempt and no outcome.
ReplayThrows ==
    /\ rep.step \in {"claim", "floor", "list", "send"} /\ Upset /\ Rest
    /\ UNCHANGED <<now, doc, session, office, empty>>

\* markReplaying: from here nothing is stamped.  A session that is no longer
\* open is gone on with as it was listed.
ClaimSession ==
    /\ At("claim")
    /\ session' = IF session[Sid].status = "open"
                  THEN [session EXCEPT ![Sid].status = "replaying", ![Sid].quiet = FALSE]
                  ELSE session
    /\ Goto(IF session[Sid].sent THEN "list" ELSE "floor")
    /\ UNCHANGED <<now, doc, office, empty, upsets>>

WentOffline == IF Sid \in Live THEN [session EXCEPT ![Sid].sent = TRUE, ![Sid].quiet = FALSE]
               ELSE session

\* Mutant of CheckFloor: the register's own state is not asked for.
CheckFloorBlind ==
    /\ At("floor")
    /\ IF Floor > session[Sid].start
       THEN Stick(Sid, "order") /\ Rest
       ELSE UNCHANGED session /\ Goto("goOffline")
    /\ UNCHANGED <<now, doc, office, empty, upsets>>

\* Mutant of CheckFloor: go_offline_tx_id is written before the call.
CheckFloorMarks ==
    /\ At("floor")
    /\ IF Floor > session[Sid].start
       THEN Stick(Sid, "order") /\ Rest
       ELSE session' = WentOffline /\ Goto(IF office.offline THEN "list" ELSE "goOffline")
    /\ UNCHANGED <<now, doc, office, empty, upsets>>

\* The office must know of nothing after the session's start; a register that is
\* offline already is our own earlier go-offline.
CheckFloor ==
    /\ At("floor")
    /\ IF Floor > session[Sid].start
       THEN Stick(Sid, "order") /\ Rest
       ELSE IF office.offline
            THEN session' = WentOffline /\ Goto("list")
            ELSE UNCHANGED session /\ Goto("goOffline")
    /\ UNCHANGED <<now, doc, office, empty, upsets>>

TakeGoOffline ==
    /\ InOrder(session[Sid].start) /\ ~office.offline
    /\ office' = [office EXCEPT !.last = session[Sid].start, !.offline = TRUE, !.off = @ \union {Sid}]

GoOffline ==
    /\ At("goOffline") /\ TakeGoOffline
    /\ session' = WentOffline /\ Goto("list")
    /\ UNCHANGED <<now, doc, empty, upsets>>

\* The office has taken it and we do not hear so.
GoOfflineLost ==
    /\ At("goOffline") /\ TakeGoOffline /\ Upset
    /\ Rest
    /\ UNCHANGED <<now, doc, session, empty>>

\* Refused, for its date, for a code it lacks or for a reason of the office's own.
GoOfflineRefused ==
    /\ At("goOffline")
    /\ Stick(Sid, "refused") /\ Rest
    /\ UNCHANGED <<now, doc, office, empty, upsets>>

\* Mutant of ListDocuments: no ORDER BY.
ListUnordered ==
    /\ At("list")
    /\ \E S \in SUBSET DocsOf(Sid) :
          /\ S = DocsOf(Sid) \/ Cardinality(S) = Batch
          /\ Cardinality(S) <= Batch
          /\ rep' = [rep EXCEPT !.step = "send", !.todo = S]
    /\ UNCHANGED <<now, doc, session, office, empty, upsets>>

\* listSessionDocuments: by date; a batch of the first ones.
ListDocuments ==
    /\ At("list")
    /\ \E S \in SUBSET DocsOf(Sid) :
          /\ S = DocsOf(Sid) \/ Cardinality(S) = Batch
          /\ Cardinality(S) <= Batch
          /\ \A d \in S, e \in DocsOf(Sid) \ S : doc[d].date <= doc[e].date
          /\ rep' = [rep EXCEPT !.step = "send", !.todo = S]
    /\ UNCHANGED <<now, doc, session, office, empty, upsets>>

Foremost(d) == d \in rep.todo /\ \A e \in rep.todo : doc[d].date <= doc[e].date

\* claimSessionDocument finds it abandoned meanwhile.
SkipDocument(d) ==
    /\ At("send") /\ rep.out = {} /\ Foremost(d) /\ ~Unsent(d)
    /\ rep' = [rep EXCEPT !.todo = @ \ {d}]
    /\ UNCHANGED <<now, doc, session, office, empty, upsets>>

\* claimSessionDocument counts the attempt, whatever the number of them; what
\* becomes of it is recorded later.
ClaimDocument(d) ==
    /\ At("send") /\ rep.out = {} /\ Foremost(d) /\ Unsent(d)
    /\ doc' = [doc EXCEPT ![d].attempts = @ + 1]
    /\ rep' = [rep EXCEPT !.out = {d}]
    /\ UNCHANGED <<now, session, office, empty, upsets>>

\* registerSaleOffline: the office takes it, the answer travels.
DocumentArrives(d) ==
    /\ At("send") /\ d \in rep.out /\ d \notin office.has
    /\ InOrder(doc[d].date)
    /\ office' = [office EXCEPT !.last = doc[d].date, !.has = @ \union {d}]
    /\ UNCHANGED <<now, doc, session, rep, empty, upsets>>

Recorded(d, st) ==
    /\ doc' = [doc EXCEPT ![d].st = st]
    /\ rep' = [rep EXCEPT !.todo = @ \ {d}, !.out = {}]

\* The answer, or that it is a duplicate, is heard: markDone, which no sweep
\* forestalls.
SendDocument(d) ==
    /\ At("send") /\ d \in rep.out /\ d \in office.has
    /\ Recorded(d, "done")
    /\ UNCHANGED <<now, session, office, empty, upsets>>

\* A terminal refusal abandons the document and goes on.
DocumentRefused(d) ==
    /\ At("send") /\ d \in rep.out
    /\ Recorded(d, "abandoned")
    /\ UNCHANGED <<now, session, office, empty, upsets>>

\* Mutant of Failed: the budget is found spent one attempt too late.
FailedLate(d) ==
    /\ doc' = [doc EXCEPT ![d].st = IF doc[d].attempts > MaxAttempts THEN "abandoned" ELSE "pending"]
    /\ Rest

\* markFailed, by budget and whatever a sweep has made of the row; the pass is
\* over.
Failed(d) ==
    /\ doc' = [doc EXCEPT ![d].st = IF doc[d].attempts >= MaxAttempts THEN "abandoned" ELSE "pending"]
    /\ Rest

\* It did not arrive, or its answer did not.
DocumentFails(d) ==
    /\ At("send") /\ d \in rep.out /\ Failed(d)
    /\ UNCHANGED <<now, session, office, empty, upsets>>

\* Nothing must remain before the register goes online, at most every two minutes.
Remaining ==
    /\ At("send") /\ rep.todo = {}
    /\ IF DocsOf(Sid) # {} THEN Rest
       ELSE Goto(IF session[Sid].recent THEN "state" ELSE "goOnline")
    /\ UNCHANGED <<now, doc, session, office, empty, upsets>>

BackOnline == office' = [office EXCEPT !.last = now, !.offline = FALSE]

GoOnline ==
    /\ At("goOnline") /\ BackOnline
    /\ session' = IF session[Sid].status = "replaying"
                  THEN [session EXCEPT ![Sid].onAt = now, ![Sid].recent = TRUE, ![Sid].quiet = FALSE]
                  ELSE session
    /\ Goto("state")
    /\ UNCHANGED <<now, doc, empty, upsets>>

GoOnlineLost ==
    /\ At("goOnline") /\ BackOnline /\ Upset
    /\ Rest
    /\ UNCHANGED <<now, doc, session, empty>>

\* registerState says it is online again: markClosed.  (Offline still: CallFails.)
CloseSession ==
    /\ At("state") /\ ~office.offline
    /\ session' = IF session[Sid].status = "replaying"
                  THEN [session EXCEPT ![Sid].status = "closed"] ELSE session
    /\ Rest
    /\ UNCHANGED <<now, doc, office, empty, upsets>>

\* claimDueDocuments: not while a session is live; the batch then goes out.
ClaimDue ==
    /\ At("idle") /\ Live = {}
    /\ \E d \in Docs : doc[d].st = "due"
    /\ doc' = [d \in Docs |-> IF doc[d].st = "due" THEN [doc[d] EXCEPT !.st = "claimed"] ELSE doc[d]]
    /\ Goto("batch")
    /\ UNCHANGED <<now, session, office, empty, upsets>>

BatchEnds ==
    /\ At("batch") /\ \A d \in Docs : doc[d].st # "claimed"
    /\ Rest
    /\ UNCHANGED <<now, doc, session, office, empty, upsets>>

\* The server restarts: frames are gone; a receipt between its session and its
\* stamp is unsold yet, or a sale whose document nobody stamps any more.
Crash ==
    /\ Upset
    /\ Rest /\ empty' = FALSE
    /\ \E sold \in BOOLEAN :
          doc' = [d \in Docs |->
             CASE doc[d].st \in {"wire", "claimed"} -> [doc[d] EXCEPT !.st = "due"]
               [] doc[d].st = "stamping" -> [doc[d] EXCEPT !.st = "parked"]
               [] doc[d].st = "joined" -> [doc[d] EXCEPT !.st = IF sold THEN "parked" ELSE "printed"]
               [] OTHER -> doc[d]]
    /\ UNCHANGED <<now, session, office>>

----------------------------------------------------------------------------------
SaleStep(d) ==
    \/ OnlineBegins(d) \/ OnlineArrives(d) \/ OnlineLost(d) \/ OnlineFails(d)
    \/ StampBegins(d) \/ StampServer(d) \/ TillPrints(d) \/ JoinSession(d) \/ StampDevice(d)
    \/ SweepStale(d)

SendStep(d) ==
    \/ SkipDocument(d) \/ ClaimDocument(d) \/ DocumentArrives(d)
    \/ SendDocument(d) \/ DocumentRefused(d) \/ DocumentFails(d)

CronStep ==
    \/ \E s \in Sessions : PickSession(s)
    \/ ProbeAnswers \/ CallFails \/ ReplayThrows \/ ClaimSession \/ CheckFloor \/ GoOffline \/ GoOfflineLost
    \/ GoOfflineRefused \/ ListDocuments \/ (\E d \in Docs : SendStep(d)) \/ Remaining
    \/ GoOnline \/ GoOnlineLost \/ CloseSession \/ ClaimDue \/ BatchEnds

Next ==
    \/ Tick \/ ReportEmpty \/ DeviceReady \/ Crash
    \/ \E d \in Docs : SaleStep(d)
    \/ \E s \in Sessions : FallsQuiet(s) \/ MayGoOnlineAgain(s) \/ SessionExpires(s)
    \/ CronStep

\* The cron ticks and its steps end; a probe, a go-offline or a go-online that
\* is made again and again goes through some time (a document need not, its
\* budget ends it); an hour and two minutes pass; requests end.
Fairness ==
    /\ \A s \in Sessions : SF_vars(PickSession(s)) /\ WF_vars(MayGoOnlineAgain(s))
    /\ \A s \in Sessions : SF_vars(FallsQuiet(s))
    /\ SF_vars(ProbeAnswers) /\ WF_vars(CallFails) /\ WF_vars(ClaimSession) /\ WF_vars(CheckFloor)
    /\ SF_vars(GoOffline \/ GoOfflineRefused) /\ WF_vars(ListDocuments) /\ WF_vars(Remaining)
    /\ WF_vars(\E d \in Docs : SendStep(d))
    /\ SF_vars(GoOnline) /\ SF_vars(CloseSession) /\ WF_vars(BatchEnds)
    /\ \A d \in Docs : WF_vars(OnlineArrives(d) \/ OnlineFails(d))

Spec == Init /\ [][Next]_vars
FairSpec == Spec /\ Fairness
----------------------------------------------------------------------------------
(* Properties                                                                      *)

Sent(d) == d \in office'.has /\ d \notin office.has
Offline(d) == doc[d].mode \in {"server", "till"}

\* The replay sends a session's receipts in the order of their dates, whatever
\* was refused, lost, interrupted or resumed between two of them
\* (listSessionDocuments, the interruption in replayOneSession).
ReplayInDateOrder ==
    [][\A d \in Docs : Sent(d) /\ Offline(d) =>
          \A e \in DocsOf(doc[d].sid) \ office.has : doc[e].date >= doc[d].date]_vars

\* An offline receipt reaches the office only while the office has the register
\* offline (go-offline first, go-online last).
SentInsideWindow == [][\A d \in Docs : Sent(d) /\ Offline(d) => office.offline]_vars

\* A closed session leaves no receipt behind that nobody sends any more
\* (stampNext and stampDeviceNext under the session's lock, the second
\* listSessionDocuments).
ClosedLeavesNothing == \A s \in Sessions : session[s].status = "closed" => DocsOf(s) = {}

\* A go-offline whose answer was lost is recognised the next time, not refused
\* (state.manualOffline in replayOneSession).
LostGoOfflineIsFound ==
    \A s \in Sessions : session[s].why = "refused" => s \notin office.off

\* Every session is closed or parked some day (listReplayableSessions,
\* DEVICE_READY_GRACE_MS, the budget of each document).
SessionEnds == \A s \in Sessions : s \in Live ~> s \notin Live

\* session.ts on the go-offline date: "It has to be before the first receipt of
\* the stretch".
GoOfflineBeforeReceipts ==
    \A d \in Docs : doc[d].st = "pending" => session[doc[d].sid].start <= doc[d].date

\* listReplayableSessions: one with a till's documents "waits for that till to
\* say its queue is empty".
ReplayWaitsForTill ==
    [][\A s \in Sessions : session[s].status = "open" /\ session'[s].status = "replaying" =>
          ~session[s].till \/ session[s].ready \/ session[s].quiet]_vars

\* claimDueDocuments: "nothing online may reach the provider ahead of the
\* replay's go-offline".
NothingAheadOfGoOffline ==
    [][\A d \in Docs : Sent(d) /\ ~Offline(d) => \A s \in Live : session[s].sent]_vars

\* markStuck: "documents left as they are".
StuckIsLeft ==
    [][\A d \in Docs : Sent(d) /\ Offline(d) => session[doc[d].sid].status # "stuck"]_vars
==================================================================================
