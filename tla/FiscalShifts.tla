------------------------------ MODULE FiscalShifts ------------------------------
(***************************************************************************)
(* The ПРРО shift of one cash register (src/pos/fiscal/shifts.service.ts): *)
(* the shift the provider really has open, our mirror of it in             *)
(* pos_fiscal_shifts, the process's cached reading of it, and the workers  *)
(* that open and close it.  Every await of the source is a boundary        *)
(* between two actions; each SQL statement is one.                         *)
(*                                                                         *)
(* Provider shifts are numbered in the order they open; the number stands  *)
(* for the provider's id and for the opening time.  Closing is shared by   *)
(* the five-minute cron, the manual close route and the repair of an       *)
(* expired shift; opening by pre-flight, the manual open route and the     *)
(* repair of a closed one.                                                 *)
(***************************************************************************)
EXTENDS Naturals

CONSTANTS Workers,    \* everything that calls the shift service
          Crons,      \* the workers that run closeDueShifts
          Managers,   \* the other workers that may close a shift
          MaxShifts,  \* bound: shifts the provider ever opens
          MaxRows,    \* bound: mirror rows ever inserted
          Upsets,     \* the kinds of mishap that may happen
          MaxUpsets   \* bound: how many of them do

(* crash: the process restarts; toggle: the owner switches fiscalisation   *)
(* off or on; outside: the shift is closed at the provider by somebody     *)
(* else; lost: the provider acts but its answer never arrives; db: a       *)
(* statement fails; offline: the register goes into an offline session.    *)
UpsetKinds == {"crash", "toggle", "outside", "lost", "db", "offline"}

ASSUME ShiftsAssumption ==
  /\ Crons \subseteq Workers
  /\ Managers \subseteq Workers \ Crons
  /\ MaxShifts \in Nat
  /\ MaxRows \in Nat
  /\ MaxUpsets \in Nat
  /\ Upsets \subseteq UpsetKinds

VARIABLES pshift,   \* the shift open at the provider, 0 for none
          opened,   \* how many shifts the provider has opened
          mirror,   \* the rows of pos_fiscal_shifts for this register
          cached,   \* the process's cached reading says "open"
          enabled,  \* resolveContext answers a context
          offline,  \* an offline session of the register is open or replaying
          task,     \* each worker's progress through an open or a close
          upsets    \* mishaps so far

shiftVars == <<pshift, opened, mirror, cached, enabled, offline, task, upsets>>

Rows == 1..MaxRows

NoRow == [status |-> "none", prov |-> 0, since |-> 0, due |-> FALSE]

(* prov: provider_shift_id; since: opened_at; due: auto_close_due_at has   *)
(* passed.                                                                 *)
MirrorRow == [status : {"none", "open", "closing", "closed", "error"},
              prov : 0..MaxShifts, since : 0..MaxShifts, due : BOOLEAN]

(* claim: the row the cron claimed; live: closeShift's liveRow; got: the   *)
(* shift the provider answered with.                                       *)
Task == [pc : {"idle", "ask", "asked", "toOpen", "mirrorOpen", "ready", "failed",
               "context", "closing", "mirrorClosed", "reconcile", "sweep",
               "sweepGone", "closed", "gone"},
         claim : 0..MaxRows, live : 0..MaxRows, got : 0..MaxShifts]

NoTask == [pc |-> "idle", claim |-> 0, live |-> 0, got |-> 0]

Live(k) == mirror[k].status \in {"open", "closing"}

LiveRows == {k \in Rows : Live(k)}

(* The partial unique index keeps LiveRows a singleton at most.            *)
LiveRow == IF LiveRows = {} THEN 0 ELSE CHOOSE k \in LiveRows : TRUE

ShiftInit ==
  /\ pshift = 0
  /\ opened = 0
  /\ mirror = [k \in Rows |-> NoRow]
  /\ cached = FALSE
  /\ enabled = TRUE
  /\ offline = FALSE
  /\ task = [w \in Workers |-> NoTask]
  /\ upsets = 0

Upset(kind) == kind \in Upsets /\ upsets < MaxUpsets /\ upsets' = upsets + 1

Goto(w, pc) == task' = [task EXCEPT ![w].pc = pc]

Return(w) == task' = [task EXCEPT ![w] = NoTask]

----------------------------------------------------------------------------
(* ensureOpenShift and openShift.                                          *)

StartEnsure(w) == task[w].pc = "idle" /\ Goto(w, "ask")

StartOpen(w) == task[w].pc = "idle" /\ Goto(w, "toOpen")

(* getShiftState: the cached reading while it lasts, the provider's        *)
(* otherwise.                                                              *)
AskShift(w) ==
  /\ task[w].pc = "ask"
  /\ \/ cached /\ cached' = cached /\ Goto(w, "ready")
     \/ task' = [task EXCEPT ![w].pc = "asked", ![w].got = pshift] /\ cached' = cached
     \/ Goto(w, "failed") /\ cached' \in {cached, FALSE}
  /\ UNCHANGED <<pshift, opened, mirror, enabled, offline, upsets>>

(* The answer is cached and mirrored when it arrives, however old it is by *)
(* then; no open shift means opening one, or refusing in a store that does *)
(* not open shifts by itself.                                              *)
HearShift(w) ==
  /\ task[w].pc = "asked"
  /\ \/ task[w].got # 0 /\ cached' = TRUE /\ Goto(w, "mirrorOpen")
     \/ /\ task[w].got = 0
        /\ cached' = FALSE
        /\ Goto(w, "toOpen") \/ Goto(w, "failed")
  /\ UNCHANGED <<pshift, opened, mirror, enabled, offline, upsets>>

ProviderOpens ==
  /\ pshift = 0
  /\ opened < MaxShifts
  /\ pshift' = opened + 1
  /\ opened' = opened + 1

OpenAtProvider(w) ==
  /\ task[w].pc = "toOpen"
  /\ ProviderOpens
  /\ \/ /\ task' = [task EXCEPT ![w].pc = "asked", ![w].got = opened + 1]
        /\ UNCHANGED <<cached, upsets>>
     \/ cached' = FALSE /\ Goto(w, "failed") /\ Upset("lost")
  /\ UNCHANGED <<mirror, enabled, offline>>

OpenFails(w) ==
  /\ task[w].pc = "toOpen"
  /\ cached' \in {cached, FALSE}
  /\ Goto(w, "failed")
  /\ UNCHANGED <<pshift, opened, mirror, enabled, offline, upsets>>

(* Mutants of Refreshed: the provider's own word for the status is stored; *)
(* the status is left out of the DO UPDATE.                                *)
RefreshedVerbatim(r, p) == [r EXCEPT !.status = "opened", !.prov = p,
                                     !.due = r.due /\ r.prov = p]

RefreshedQuietly(r, p) == [r EXCEPT !.prov = p, !.due = r.due /\ r.prov = p]

(* mirrorOpenShift: INSERT .. ON CONFLICT on the live row DO UPDATE.  The  *)
(* row keeps its id and its opened_at whatever shift it now names.         *)
Refreshed(r, p) == [r EXCEPT !.status = "open", !.prov = p,
                             !.due = r.due /\ r.prov = p]

Inserted(p) == [status |-> "open", prov |-> p, since |-> p, due |-> FALSE]

FirstFree(k) == /\ mirror[k].status = "none"
                /\ \A j \in Rows : j < k => mirror[j].status # "none"

MirrorOpen(w) ==
  /\ task[w].pc = "mirrorOpen"
  /\ \E k \in Rows :
       IF LiveRows # {}
         THEN k \in LiveRows /\ mirror' = [mirror EXCEPT ![k] = Refreshed(@, task[w].got)]
         ELSE FirstFree(k) /\ mirror' = [mirror EXCEPT ![k] = Inserted(task[w].got)]
  /\ Goto(w, "ready")
  /\ UNCHANGED <<pshift, opened, cached, enabled, offline, upsets>>

----------------------------------------------------------------------------
(* closeShift: the live row is read before the provider is called.         *)

StartClose(w) ==
  /\ task' = [task EXCEPT ![w].pc = "closing", ![w].live = LiveRow]

CloseAtProvider(w) ==
  /\ task[w].pc = "closing"
  /\ pshift # 0
  /\ pshift' = 0
  /\ cached' = FALSE
  /\ \/ Goto(w, "mirrorClosed") /\ UNCHANGED upsets
     \/ Goto(w, "failed") /\ Upset("lost")
  /\ UNCHANGED <<opened, mirror, enabled, offline>>

(* The provider has no open shift: the mirror is what is wrong.            *)
CloseFindsNone(w) ==
  /\ task[w].pc = "closing"
  /\ pshift = 0
  /\ cached' = FALSE
  /\ Goto(w, "reconcile")
  /\ UNCHANGED <<pshift, opened, mirror, enabled, offline, upsets>>

CloseFails(w) ==
  /\ task[w].pc = "closing"
  /\ cached' \in {cached, FALSE}
  /\ Goto(w, "failed")
  /\ UNCHANGED <<pshift, opened, mirror, enabled, offline, upsets>>

(* mirrorClosedShift and its twin in the shift_closed branch: by register, *)
(* not by id.                                                              *)
MirrorClosed(w) ==
  /\ task[w].pc \in {"mirrorClosed", "reconcile"}
  /\ mirror' = [k \in Rows |->
                  IF Live(k) THEN [mirror[k] EXCEPT !.status = "closed"] ELSE mirror[k]]
  /\ Goto(w, IF task[w].pc = "reconcile" THEN "sweepGone" ELSE "sweep")
  /\ UNCHANGED <<pshift, opened, cached, enabled, offline, upsets>>

(* A statement of either mirror throws like a call to the provider.        *)
MirrorFails(w) ==
  /\ task[w].pc \in {"mirrorOpen", "mirrorClosed", "reconcile"}
  /\ cached' = FALSE
  /\ Goto(w, "failed")
  /\ Upset("db")
  /\ UNCHANGED <<pshift, opened, mirror, enabled, offline>>

(* sweepShiftDocuments; what it does to the documents of liveRow is        *)
(* FiscalDocuments' SweepShift.  A failed sweep is logged and forgotten.   *)
Swept(w) ==
  /\ task[w].pc \in {"sweep", "sweepGone"}
  /\ Goto(w, IF task[w].pc = "sweepGone" THEN "gone" ELSE "closed")
  /\ UNCHANGED <<pshift, opened, mirror, cached, enabled, offline>>

Sweep(w) == Swept(w) /\ UNCHANGED upsets

SweepFails(w) == Swept(w) /\ Upset("db")

----------------------------------------------------------------------------
(* closeDueShifts.                                                         *)

(* A shift whose register is in an offline session waits: the receipts of  *)
(* the session have to be replayed before its Z-report.                    *)
ClaimDueShift(c) ==
  /\ task[c].pc = "idle"
  /\ ~ offline
  /\ \E k \in Rows :
       /\ mirror[k].status = "open" /\ mirror[k].due
       /\ mirror' = [mirror EXCEPT ![k].status = "closing"]
       /\ task' = [task EXCEPT ![c].pc = "context", ![c].claim = k]
  /\ UNCHANGED <<pshift, opened, cached, enabled, offline, upsets>>

MarkShiftError(c) ==
  /\ mirror' = [mirror EXCEPT ![task[c].claim].status = "error"]
  /\ Return(c)

ResolveClaim(c) ==
  /\ task[c].pc = "context"
  /\ \/ enabled /\ StartClose(c) /\ UNCHANGED <<mirror, upsets>>
     \/ ~ enabled /\ MarkShiftError(c) /\ UNCHANGED upsets
     \/ Goto(c, "failed") /\ Upset("db") /\ UNCHANGED mirror
  /\ UNCHANGED <<pshift, opened, cached, enabled, offline>>

(* Mutant of ReopenClaim: the catch only logs.                             *)
ReopenForgotten(c) == Return(c) /\ UNCHANGED mirror

(* The catch: back to 'open' for the next tick, whatever closeShift made   *)
(* of the row; the unique index refuses it while another row is live.      *)
ReopenClaim(c) ==
  /\ mirror' = IF LiveRows \subseteq {task[c].claim}
                 THEN [mirror EXCEPT ![task[c].claim].status = "open"]
                 ELSE mirror
  /\ Return(c)

FinishDueShift(c) ==
  /\ \/ task[c].pc = "closed" /\ Return(c) /\ UNCHANGED mirror
     \/ task[c].pc = "failed" /\ (ReopenClaim(c) \/ MarkShiftError(c))
     \/ task[c].pc = "gone" /\ ReopenClaim(c)
  /\ UNCHANGED <<pshift, opened, cached, enabled, offline, upsets>>

(* The UPDATE of the catch throws, and so out of closeDueShifts: neither   *)
(* its own row nor the other rows of this tick ("context" still) are put   *)
(* back.                                                                   *)
CatchThrows(c) ==
  /\ task[c].pc \in {"context", "failed", "gone"}
  /\ Upset("db")
  /\ Return(c)
  /\ UNCHANGED <<pshift, opened, mirror, cached, enabled, offline>>

----------------------------------------------------------------------------
(* Time and mishaps.                                                       *)

(* A deadline is 23.5 hours away and a job lasts seconds, so no deadline   *)
(* passes in the middle of one.                                            *)
ShiftFallsDue(k) ==
  /\ \A w \in Workers : task[w].pc = "idle"
  /\ Live(k)
  /\ ~ mirror[k].due
  /\ mirror' = [mirror EXCEPT ![k].due = TRUE]
  /\ UNCHANGED <<pshift, opened, cached, enabled, offline, task, upsets>>

ClosedOutside ==
  /\ pshift # 0
  /\ pshift' = 0
  /\ Upset("outside")
  /\ UNCHANGED <<opened, mirror, cached, enabled, offline, task>>

Toggle ==
  /\ enabled' = ~ enabled
  /\ Upset("toggle")
  /\ UNCHANGED <<pshift, opened, mirror, cached, offline, task>>

(* openServerSession or a till's upload; then markClosed, which drops the  *)
(* cached reading, or markStuck, which does not.                           *)
SessionOpens ==
  /\ ~ offline
  /\ offline' = TRUE
  /\ Upset("offline")
  /\ UNCHANGED <<pshift, opened, mirror, cached, enabled, task>>

SessionEnds ==
  /\ offline
  /\ offline' = FALSE
  /\ cached' \in {cached, FALSE}
  /\ UNCHANGED <<pshift, opened, mirror, enabled, task, upsets>>

Crash ==
  /\ task' = [w \in Workers |-> NoTask]
  /\ cached' = FALSE
  /\ Upset("crash")
  /\ UNCHANGED <<pshift, opened, mirror, enabled, offline>>

----------------------------------------------------------------------------
(* What a worker does once it has begun, short of the sweep.               *)
ShiftStep(w) ==
  \/ AskShift(w)
  \/ HearShift(w)
  \/ OpenAtProvider(w)
  \/ OpenFails(w)
  \/ MirrorOpen(w)
  \/ CloseAtProvider(w)
  \/ CloseFindsNone(w)
  \/ CloseFails(w)
  \/ MirrorClosed(w)
  \/ MirrorFails(w)
  \/ SweepFails(w)

(* A request that opens the shift (pre-flight, which asks for none in an   *)
(* offline session, or the open route) or, for a manager, closes it, which *)
(* is refused during such a session; its answer is the end of it.          *)
Begin(w) ==
  /\ task[w].pc = "idle"
  /\ enabled
  /\ \/ ~ offline /\ StartEnsure(w)
     \/ StartOpen(w)
     \/ ~ offline /\ w \in Managers /\ StartClose(w)
  /\ UNCHANGED <<pshift, opened, mirror, cached, enabled, offline, upsets>>

Answer(w) ==
  /\ task[w].pc \in {"ready", "failed", "closed", "gone"}
  /\ Return(w)
  /\ UNCHANGED <<pshift, opened, mirror, cached, enabled, offline, upsets>>

CronStep(c) == ClaimDueShift(c) \/ ResolveClaim(c) \/ FinishDueShift(c)

ShiftNext ==
  \/ \E w \in Workers : ShiftStep(w) \/ Sweep(w)
  \/ \E w \in Workers \ Crons : Begin(w) \/ Answer(w)
  \/ \E c \in Crons : CronStep(c) \/ CatchThrows(c)
  \/ \E k \in Rows : ShiftFallsDue(k)
  \/ ClosedOutside
  \/ Toggle
  \/ SessionOpens
  \/ SessionEnds
  \/ Crash

ShiftSpec == ShiftInit /\ [][ShiftNext]_shiftVars

(* Every started job runs on (each provider call and statement ends within *)
(* its timeout), the cron ticks, deadlines arrive, an offline session is   *)
(* closed or parked some day (SessionEnds of OfflineReplay), and a         *)
(* provider asked again and again to close eventually does.  Requests      *)
(* never have to come.                                                     *)
ShiftFairness ==
  /\ \A w \in Workers : WF_shiftVars(ShiftStep(w) \/ Sweep(w))
  /\ \A w \in Workers \ Crons : WF_shiftVars(Answer(w))
  /\ \A c \in Crons : /\ WF_shiftVars(CronStep(c))
                      /\ SF_shiftVars(CloseAtProvider(c) /\ task'[c].pc = "mirrorClosed")
  /\ \A k \in Rows : SF_shiftVars(ShiftFallsDue(k))
  /\ WF_shiftVars(SessionEnds)

FairShiftSpec == ShiftSpec /\ ShiftFairness

(* A store that goes on selling asks for its shift again and again.        *)
KeepsSelling ==
  \A w \in Workers \ Crons :
    /\ SF_shiftVars(Begin(w) /\ task'[w].pc = "ask")
    /\ SF_shiftVars(AskShift(w) /\ task'[w].pc = "asked")

SellingSpec == FairShiftSpec /\ KeepsSelling

----------------------------------------------------------------------------
(* PROPERTIES                                                              *)

(* Every variable has its type.                                            *)
ShiftTypeOK ==
  /\ pshift \in 0..MaxShifts
  /\ opened \in 0..MaxShifts
  /\ mirror \in [Rows -> MirrorRow]
  /\ cached \in BOOLEAN
  /\ enabled \in BOOLEAN
  /\ offline \in BOOLEAN
  /\ task \in [Workers -> Task]
  /\ upsets \in 0..MaxUpsets

(* A row in 'closing' that a cron is working on leaves neither that state  *)
(* nor every cron's hands, except by a restart or by a statement that      *)
(* fails in the cron's own catch.  What it guards against: closeDueShifts  *)
(* claims only 'open' rows, so a 'closing' row nobody holds is never       *)
(* looked at again (shifts.service.ts:421, 463-476).                       *)
Holds(c, k) ==
  task[c].claim = k /\ task[c].pc \in {"context", "closing", "mirrorClosed", "reconcile", "failed"}

Dropped(k) == mirror[k].status = "closing" /\ ~ \E c \in Crons : Holds(c, k)

Stranding == Crash \/ \E c \in Crons : CatchThrows(c)

ClosingKeepsOwner ==
  [][~ Stranding => \A k \in Rows : Dropped(k)' => Dropped(k)]_shiftVars

(* A row once reconciled as closed is history: nothing brings it back to   *)
(* life (shifts.service.ts:330-332).                                       *)
ClosedStaysClosed ==
  [][\A k \in Rows : mirror[k].status = "closed" => mirror'[k].status = "closed"]_shiftVars

(* A store that goes on selling gets a shift past its deadline closed, or  *)
(* its row parked in 'error' for the owner, whatever fails meanwhile; an   *)
(* offline session of the register only delays it.  What a restart or a    *)
(* failed catch leaves in 'closing' is healed by a sale's mirror, and so   *)
(* not while fiscalisation is off (closeDueShifts,                         *)
(* shifts.service.ts:410-481).                                             *)
OverdueShiftIsClosed ==
  \A k \in Rows, p \in 1..MaxShifts :
    (pshift = p /\ Live(k) /\ mirror[k].prov = p /\ mirror[k].due)
      ~> \/ pshift # p
         \/ mirror[k].status = "error"
         \/ mirror[k].status = "closing" /\ ~ enabled
=============================================================================
