--------------------------- MODULE FiscalShiftsProofs ---------------------------
(* Theorems about FiscalShifts, for any number of workers, shifts, rows    *)
(* and mishaps.                                                            *)
EXTENDS FiscalShifts, TLAPS

(* The row taken for the live one is a row, or none.                       *)
LEMMA LiveRowType == LiveRow \in 0..MaxRows /\ (LiveRow # 0 => LiveRow \in LiveRows)
<1>1. CASE LiveRows = {}
  BY <1>1, ShiftsAssumption DEF LiveRow
<1>2. CASE LiveRows # {}
  <2>1. LiveRow \in LiveRows
    BY <1>2 DEF LiveRow
  <2>2. QED
    BY <2>1, ShiftsAssumption DEF LiveRows, Rows
<1>3. QED
  BY <1>1, <1>2

(* A row of the mirror stays one whatever is written into it.              *)
LEMMA RowTypes ==
  ASSUME NEW r \in MirrorRow, NEW p \in 0..MaxShifts,
         NEW st \in {"none", "open", "closing", "closed", "error"}
  PROVE  /\ Refreshed(r, p) \in MirrorRow
         /\ Inserted(p) \in MirrorRow
         /\ [r EXCEPT !.status = st] \in MirrorRow
         /\ [r EXCEPT !.due = TRUE] \in MirrorRow
<1>1. Refreshed(r, p) \in MirrorRow
  BY DEF Refreshed, MirrorRow
<1>2. Inserted(p) \in MirrorRow
  BY DEF Inserted, MirrorRow
<1>3. [r EXCEPT !.status = st] \in MirrorRow /\ [r EXCEPT !.due = TRUE] \in MirrorRow
  BY DEF MirrorRow
<1>4. QED
  BY <1>1, <1>2, <1>3

(* The initial state is well typed.                                        *)
LEMMA ShiftInitType == ShiftInit => ShiftTypeOK
<1> SUFFICES ASSUME ShiftInit PROVE ShiftTypeOK
  OBVIOUS
<1>1. mirror \in [Rows -> MirrorRow]
  <2>1. NoRow \in MirrorRow
    BY ShiftsAssumption DEF NoRow, MirrorRow
  <2>2. QED
    BY <2>1 DEF ShiftInit
<1>2. task \in [Workers -> Task]
  <2>1. NoTask \in Task
    BY ShiftsAssumption DEF NoTask, Task
  <2>2. QED
    BY <2>1 DEF ShiftInit
<1>3. upsets \in 0..MaxUpsets /\ pshift \in 0..MaxShifts /\ opened \in 0..MaxShifts
  BY ShiftsAssumption DEF ShiftInit
<1>4. cached \in BOOLEAN /\ enabled \in BOOLEAN /\ offline \in BOOLEAN
  BY Zenon DEF ShiftInit
<1>5. QED
  BY <1>1, <1>2, <1>3, <1>4 DEF ShiftTypeOK

(* Every step of opening or closing a shift keeps the types.               *)
LEMMA ShiftStepType ==
  ASSUME ShiftTypeOK, NEW w \in Workers, ShiftStep(w)
  PROVE  ShiftTypeOK'
<1>1. task' \in [Workers -> Task]
  <2>1. ASSUME NEW pc \in {"ask", "asked", "ready", "failed", "toOpen", "mirrorOpen",
                           "mirrorClosed", "reconcile", "sweep", "sweepGone", "closed", "gone"},
               task' = [task EXCEPT ![w].pc = pc]
        PROVE  task' \in [Workers -> Task]
    BY <2>1 DEF ShiftTypeOK, Task
  <2>2. CASE AskShift(w)
    <3>1. CASE task' = [task EXCEPT ![w].pc = "asked", ![w].got = pshift]
      BY <3>1 DEF ShiftTypeOK, Task
    <3>2. QED
      BY <2>1, <2>2, <3>1 DEF AskShift, Goto
  <2>3. CASE OpenAtProvider(w)
    BY <2>1, <2>3, ShiftsAssumption DEF ShiftTypeOK, Task, Goto, OpenAtProvider, ProviderOpens
  <2>4. CASE HearShift(w) \/ OpenFails(w) \/ MirrorOpen(w) \/ CloseAtProvider(w)
               \/ CloseFindsNone(w) \/ CloseFails(w) \/ MirrorClosed(w) \/ MirrorFails(w)
               \/ SweepFails(w)
    BY <2>1, <2>4 DEF Goto, HearShift, OpenFails, MirrorOpen, CloseAtProvider, CloseFindsNone,
                CloseFails, MirrorClosed, MirrorFails, SweepFails, Swept
  <2>5. QED
    BY <2>2, <2>3, <2>4 DEF ShiftStep
<1>2. mirror' \in [Rows -> MirrorRow]
  <2>1. CASE MirrorOpen(w)
    <3>1. PICK k \in Rows :
            \/ mirror' = [mirror EXCEPT ![k] = Refreshed(@, task[w].got)]
            \/ mirror' = [mirror EXCEPT ![k] = Inserted(task[w].got)]
      BY <2>1 DEF MirrorOpen
    <3>2. mirror[k] \in MirrorRow /\ task[w].got \in 0..MaxShifts
      BY DEF ShiftTypeOK, Task
    <3>3. Refreshed(mirror[k], task[w].got) \in MirrorRow
          /\ Inserted(task[w].got) \in MirrorRow
      BY <3>2, RowTypes
    <3>4. QED
      BY <3>1, <3>3 DEF ShiftTypeOK
  <2>2. CASE MirrorClosed(w)
    BY <2>2 DEF ShiftTypeOK, MirrorRow, MirrorClosed
  <2>3. CASE UNCHANGED mirror
    BY <2>3 DEF ShiftTypeOK
  <2>4. QED
    BY <2>1, <2>2, <2>3 DEF ShiftStep, AskShift, HearShift, OpenAtProvider,
       OpenFails, CloseAtProvider, CloseFindsNone, CloseFails, MirrorFails, SweepFails, Swept
<1>3. pshift' \in 0..MaxShifts /\ opened' \in 0..MaxShifts
  <2>1. CASE OpenAtProvider(w)
    BY <2>1, ShiftsAssumption DEF ShiftTypeOK, OpenAtProvider, ProviderOpens
  <2>2. CASE CloseAtProvider(w)
    BY <2>2, ShiftsAssumption DEF ShiftTypeOK, CloseAtProvider
  <2>3. CASE UNCHANGED <<pshift, opened>>
    BY <2>3 DEF ShiftTypeOK
  <2>4. QED
    BY <2>1, <2>2, <2>3 DEF ShiftStep, AskShift, HearShift, OpenFails, MirrorOpen,
       CloseFindsNone, CloseFails, MirrorClosed, MirrorFails, SweepFails, Swept
<1>4. cached' \in {cached, TRUE, FALSE} /\ enabled' = enabled /\ offline' = offline
  BY DEF ShiftStep, AskShift, HearShift, OpenAtProvider, OpenFails, MirrorOpen,
     CloseAtProvider, CloseFindsNone, CloseFails, MirrorClosed, MirrorFails, SweepFails, Swept
<1>5. upsets' \in 0..MaxUpsets
  <2>1. upsets' = upsets \/ (upsets < MaxUpsets /\ upsets' = upsets + 1)
    BY DEF ShiftStep, AskShift, HearShift, OpenAtProvider, OpenFails, MirrorOpen,
       CloseAtProvider, CloseFindsNone, CloseFails, MirrorClosed, MirrorFails, SweepFails, Upset
  <2>2. QED
    BY <2>1, ShiftsAssumption DEF ShiftTypeOK
<1>6. QED
  BY <1>1, <1>2, <1>3, <1>4, <1>5 DEF ShiftTypeOK

(* So does every step of the cron.                                         *)
LEMMA CronStepType ==
  ASSUME ShiftTypeOK, NEW c \in Crons, CronStep(c)
  PROVE  ShiftTypeOK'
<1>1. c \in Workers /\ NoTask \in Task
  BY ShiftsAssumption DEF NoTask, Task
<1>2. task' \in [Workers -> Task]
  <2>1. CASE ClaimDueShift(c)
    <3>1. PICK k \in Rows :
            task' = [task EXCEPT ![c].pc = "context", ![c].claim = k]
      BY <2>1 DEF ClaimDueShift
    <3>2. k \in 0..MaxRows /\ task[c] \in Task
      BY <1>1, ShiftsAssumption DEF ShiftTypeOK, Rows
    <3>3. QED
      BY <1>1, <3>1, <3>2 DEF ShiftTypeOK, Task
  <2>2. CASE ResolveClaim(c)
    <3>1. LiveRow \in 0..MaxRows
      BY LiveRowType
    <3>2. QED
      BY <1>1, <2>2, <3>1 DEF ResolveClaim, StartClose, MarkShiftError, Return, Goto,
         ShiftTypeOK, Task
  <2>3. CASE FinishDueShift(c)
    BY <1>1, <2>3 DEF FinishDueShift, ReopenClaim, MarkShiftError, Return, ShiftTypeOK
  <2>4. QED
    BY <2>1, <2>2, <2>3 DEF CronStep
<1>3. mirror' \in [Rows -> MirrorRow]
  <2>1. ASSUME NEW k, NEW st \in {"none", "open", "closing", "closed", "error"},
               mirror' = [mirror EXCEPT ![k].status = st]
        PROVE  mirror' \in [Rows -> MirrorRow]
    BY <2>1 DEF ShiftTypeOK, MirrorRow
  <2>2. CASE ClaimDueShift(c)
    BY <2>1, <2>2 DEF ClaimDueShift
  <2>3. CASE MarkShiftError(c)
    BY <2>1, <2>3 DEF MarkShiftError
  <2>4. CASE ReopenClaim(c)
    BY <2>1, <2>4 DEF ReopenClaim, ShiftTypeOK
  <2>5. CASE UNCHANGED mirror
    BY <2>5 DEF ShiftTypeOK
  <2>6. QED
    BY <2>2, <2>3, <2>4, <2>5 DEF CronStep, ResolveClaim, FinishDueShift
<1>4. UNCHANGED <<pshift, opened, cached, enabled, offline>>
  BY DEF CronStep, ClaimDueShift, ResolveClaim, FinishDueShift
<1>5. upsets' \in 0..MaxUpsets
  BY ShiftsAssumption DEF ShiftTypeOK, CronStep, ClaimDueShift, ResolveClaim,
     FinishDueShift, Upset
<1>6. QED
  BY <1>2, <1>3, <1>4, <1>5 DEF ShiftTypeOK

(* So do the sweep, the requests, time and every mishap.                   *)
LEMMA ShiftOtherType ==
  ASSUME ShiftTypeOK,
         \/ \E w \in Workers : Sweep(w)
         \/ \E w \in Workers \ Crons : Begin(w) \/ Answer(w)
         \/ \E c \in Crons : CatchThrows(c)
         \/ \E k \in Rows : ShiftFallsDue(k)
         \/ ClosedOutside
         \/ Toggle
         \/ SessionOpens
         \/ SessionEnds
         \/ Crash
  PROVE  ShiftTypeOK'
<1>1. NoTask \in Task
  BY ShiftsAssumption DEF NoTask, Task
<1>2. LiveRow \in 0..MaxRows
  BY LiveRowType
<1>3. task' \in [Workers -> Task]
  <2>1. ASSUME NEW w \in Workers, Sweep(w) \/ Begin(w) \/ Answer(w)
        PROVE  task' \in [Workers -> Task]
    BY <1>1, <1>2, <2>1 DEF ShiftTypeOK, Task, Sweep, Swept, Begin, Answer, StartEnsure, StartOpen,
       StartClose, Goto, Return
  <2>2. CASE UNCHANGED task
    BY <2>2 DEF ShiftTypeOK
  <2>3. CASE Crash
    BY <1>1, <2>3 DEF Crash
  <2>4. ASSUME NEW c \in Crons, CatchThrows(c) PROVE task' \in [Workers -> Task]
    BY <1>1, <2>4 DEF CatchThrows, Return, ShiftTypeOK
  <2>5. QED
    BY <2>1, <2>2, <2>3, <2>4 DEF ShiftFallsDue, ClosedOutside, Toggle, SessionOpens, SessionEnds
<1>4. mirror' \in [Rows -> MirrorRow]
  BY DEF ShiftTypeOK, MirrorRow, Sweep, Swept, Begin, Answer, CatchThrows, ShiftFallsDue,
     ClosedOutside, Toggle, SessionOpens, SessionEnds, Crash
<1>5. pshift' \in 0..MaxShifts /\ opened' \in 0..MaxShifts
  <2>1. pshift' \in {pshift, 0} /\ opened' = opened
    BY DEF Sweep, Swept, Begin, Answer, CatchThrows, ShiftFallsDue, ClosedOutside, Toggle,
       SessionOpens, SessionEnds, Crash
  <2>2. QED
    BY <2>1, ShiftsAssumption DEF ShiftTypeOK
<1>6. upsets' \in 0..MaxUpsets
  <2>1. upsets' = upsets \/ (upsets < MaxUpsets /\ upsets' = upsets + 1)
    BY DEF Sweep, Begin, Answer, CatchThrows, ShiftFallsDue, ClosedOutside, Toggle,
       SessionOpens, SessionEnds, Crash, Upset
  <2>2. QED
    BY <2>1, ShiftsAssumption DEF ShiftTypeOK
<1>7. cached' \in BOOLEAN /\ enabled' \in BOOLEAN /\ offline' \in BOOLEAN
  <2>1. cached' \in {cached, FALSE}
    BY DEF Sweep, Swept, Begin, Answer, CatchThrows, ShiftFallsDue, ClosedOutside, Toggle,
       SessionOpens, SessionEnds, Crash
  <2>2. enabled' = enabled \/ enabled' = ~ enabled
    BY DEF Sweep, Swept, Begin, Answer, CatchThrows, ShiftFallsDue, ClosedOutside, Toggle,
       SessionOpens, SessionEnds, Crash
  <2>3. offline' \in {offline, TRUE, FALSE}
    BY DEF Sweep, Swept, Begin, Answer, CatchThrows, ShiftFallsDue, ClosedOutside, Toggle,
       SessionOpens, SessionEnds, Crash
  <2>4. QED
    BY <2>1, <2>2, <2>3 DEF ShiftTypeOK
<1>8. QED
  BY <1>3, <1>4, <1>5, <1>6, <1>7 DEF ShiftTypeOK

(* Every reachable state of the shift service is well typed.               *)
THEOREM ShiftTypeCorrect == ShiftSpec => []ShiftTypeOK
<1>1. ASSUME ShiftTypeOK, [ShiftNext]_shiftVars PROVE ShiftTypeOK'
  <2>1. CASE ShiftNext
    BY <1>1, <2>1, ShiftStepType, CronStepType, ShiftOtherType DEF ShiftNext
  <2>2. CASE UNCHANGED shiftVars
    BY <1>1, <2>2 DEF shiftVars, ShiftTypeOK
  <2>3. QED
    BY <1>1, <2>1, <2>2
<1>2. QED
  BY <1>1, ShiftInitType, PTL DEF ShiftSpec

----------------------------------------------------------------------------
(* A 'closing' row has an owner.  By itself that is not inductive: the     *)
(* owner must not yet have closed the mirror, and the catch can put the    *)
(* row back only if no other row is live.                                  *)

OneLive == \A j, k \in Rows : Live(j) /\ Live(k) => j = k

LiveInv == ShiftTypeOK /\ OneLive

(* At most one row is live, whoever writes it.                             *)
LEMMA OneLiveStep ==
  ASSUME ShiftTypeOK, OneLive, [ShiftNext]_shiftVars
  PROVE  OneLive'
<1> USE DEF OneLive, Live
<1>1. ASSUME NEW w \in Workers, MirrorOpen(w) PROVE OneLive'
  BY <1>1 DEF MirrorOpen, LiveRows, Refreshed, Inserted, ShiftTypeOK
<1>2. ASSUME NEW w \in Workers, MirrorClosed(w) PROVE OneLive'
  BY <1>2 DEF MirrorClosed, ShiftTypeOK, MirrorRow
<1>3. ASSUME NEW c \in Crons, ClaimDueShift(c) PROVE OneLive'
  BY <1>3 DEF ClaimDueShift, ShiftTypeOK, MirrorRow
<1>4. ASSUME NEW c \in Crons, MarkShiftError(c) PROVE OneLive'
  BY <1>4 DEF MarkShiftError, ShiftTypeOK, MirrorRow
<1>5. ASSUME NEW c \in Crons, ReopenClaim(c) PROVE OneLive'
  BY <1>5 DEF ReopenClaim, LiveRows, ShiftTypeOK, MirrorRow
<1>6. ASSUME NEW k \in Rows, ShiftFallsDue(k) PROVE OneLive'
  BY <1>6 DEF ShiftFallsDue, ShiftTypeOK, MirrorRow
<1>7. CASE UNCHANGED mirror
  BY <1>7
<1>8. QED
  BY <1>1, <1>2, <1>3, <1>4, <1>5, <1>6, <1>7
     DEF ShiftNext, shiftVars, ShiftStep, AskShift, HearShift, OpenAtProvider, OpenFails,
         CloseAtProvider, CloseFindsNone, CloseFails, MirrorFails, SweepFails, Sweep, Swept,
         Begin, Answer, CronStep, ResolveClaim, FinishDueShift, ClosedOutside, Toggle, Crash,
         CatchThrows, SessionOpens, SessionEnds

(* Unless the process stops or the catch itself throws, whoever holds a    *)
(* claim gives it back or passes it on.                                    *)
LEMMA HeldStep ==
  ASSUME LiveInv, ShiftNext, ~ Stranding,
         NEW k \in Rows, mirror'[k].status = "closing",
         mirror[k].status = "closing" => \E c \in Crons : Holds(c, k)
  PROVE  \E c \in Crons : Holds(c, k)'
<1> USE DEF LiveInv
<1>0. Crons \subseteq Workers
  BY ShiftsAssumption
<1>1. ASSUME NEW c \in Crons, ClaimDueShift(c) PROVE \E d \in Crons : Holds(d, k)'
  <2>1. PICK j \in Rows : /\ mirror' = [mirror EXCEPT ![j].status = "closing"]
                          /\ Live(j)
                          /\ task' = [task EXCEPT ![c].pc = "context", ![c].claim = j]
    BY <1>1 DEF ClaimDueShift, Live
  <2>2. j = k
    BY <2>1 DEF OneLive, Live, ShiftTypeOK, MirrorRow
  <2>3. QED
    BY <1>0, <2>1, <2>2 DEF Holds, ShiftTypeOK
<1>2. ASSUME NEW w \in Workers, ShiftStep(w), ~ MirrorClosed(w), mirror[k].status = "closing"
      PROVE  \E d \in Crons : Holds(d, k)'
  <2>1. PICK c \in Crons : Holds(c, k)
    BY <1>2
  <2>2. CASE c # w
    <3>1. task'[c] = task[c]
      <4>1. CASE AskShift(w) \/ HearShift(w)
        BY <1>0, <2>2, <4>1 DEF ShiftTypeOK, AskShift, HearShift, Goto
      <4>2. CASE OpenAtProvider(w)
        BY <1>0, <2>2, <4>2 DEF ShiftTypeOK, OpenAtProvider, Goto
      <4>3. QED
        BY <1>0, <1>2, <2>2, <4>1, <4>2 DEF ShiftStep, ShiftTypeOK, OpenFails, MirrorOpen,
           CloseAtProvider, CloseFindsNone, CloseFails, MirrorFails, SweepFails, Swept, Goto
    <3>2. QED
      BY <2>1, <3>1 DEF Holds
  <2>3. CASE c = w
    BY <1>0, <1>2, <2>1, <2>3 DEF ShiftStep, Holds, ShiftTypeOK, Task, AskShift,
       HearShift, OpenAtProvider, OpenFails, MirrorOpen, CloseAtProvider, CloseFindsNone,
       CloseFails, MirrorFails, SweepFails, Swept, Goto
  <2>4. QED
    BY <2>2, <2>3, <2>1
<1>3. ASSUME NEW w \in Workers, ShiftStep(w) PROVE \E d \in Crons : Holds(d, k)'
  <2>1. CASE MirrorClosed(w)
    BY <2>1 DEF MirrorClosed, Live, ShiftTypeOK, MirrorRow
  <2>2. CASE ~ MirrorClosed(w)
    <3>1. mirror[k].status = "closing"
      <4>1. CASE MirrorOpen(w)
        <5>1. PICK j \in Rows :
                \/ mirror' = [mirror EXCEPT ![j] = Refreshed(@, task[w].got)]
                \/ mirror' = [mirror EXCEPT ![j] = Inserted(task[w].got)]
          BY <4>1 DEF MirrorOpen
        <5>2. mirror'[j].status = "open"
          <6>1. mirror[j] \in MirrorRow
            BY DEF ShiftTypeOK
          <6>2. Refreshed(mirror[j], task[w].got).status = "open"
            BY <6>1 DEF Refreshed, MirrorRow
          <6>3. Inserted(task[w].got).status = "open"
            BY DEF Inserted
          <6>4. QED
            BY <5>1, <6>2, <6>3 DEF ShiftTypeOK
        <5>3. k # j
          BY <5>2
        <5>4. QED
          BY <5>1, <5>3 DEF ShiftTypeOK
      <4>2. CASE UNCHANGED mirror
        BY <4>2
      <4>3. QED
        BY <1>3, <2>2, <4>1, <4>2 DEF ShiftStep, AskShift, HearShift, OpenAtProvider,
           OpenFails, CloseAtProvider, CloseFindsNone, CloseFails, MirrorFails, SweepFails, Swept
    <3>2. QED
      BY <1>2, <1>3, <2>2, <3>1
  <2>3. QED
    BY <2>1, <2>2
<1>4. ASSUME NEW w \in Workers, \/ Sweep(w)
                                \/ w \notin Crons /\ (Begin(w) \/ Answer(w))
      PROVE  \E d \in Crons : Holds(d, k)'
  <2>1. mirror[k].status = "closing"
    BY <1>4 DEF Sweep, Swept, Begin, Answer
  <2>2. PICK c \in Crons : Holds(c, k)
    BY <2>1
  <2>3. c # w
    BY <1>4, <2>2 DEF Sweep, Swept, Holds
  <2>4. QED
    BY <1>0, <1>4, <2>2, <2>3 DEF Holds, ShiftTypeOK, Sweep, Swept, Begin, Answer, StartEnsure,
       StartOpen, StartClose, Goto, Return
<1>5. ASSUME NEW c \in Crons, ResolveClaim(c) \/ FinishDueShift(c)
      PROVE  \E d \in Crons : Holds(d, k)'
  <2>1. mirror[k].status = "closing"
    BY <1>5 DEF ResolveClaim, FinishDueShift, MarkShiftError, ReopenClaim, StartClose,
       ShiftTypeOK, MirrorRow
  <2>2. PICK d \in Crons : Holds(d, k)
    BY <2>1
  <2>3. CASE d # c
    BY <1>0, <1>5, <2>2, <2>3 DEF Holds, ShiftTypeOK, ResolveClaim, FinishDueShift,
       MarkShiftError, ReopenClaim, StartClose, Return, Goto
  <2>4. CASE d = c
    <3>1. task[c].claim = k /\ task[c].pc \notin {"closed", "gone"}
      BY <2>2, <2>4 DEF Holds
    <3>2. ~ MarkShiftError(c)
      BY <3>1 DEF MarkShiftError, ShiftTypeOK, MirrorRow
    <3>3. LiveRows \subseteq {k}
      BY <2>1 DEF OneLive, LiveRows, Live
    <3>4. ~ ReopenClaim(c)
      BY <3>1, <3>3 DEF ReopenClaim, ShiftTypeOK, MirrorRow
    <3>5. ResolveClaim(c) /\ (StartClose(c) \/ Goto(c, "failed"))
      BY <1>5, <3>1, <3>2, <3>4 DEF FinishDueShift, ResolveClaim
    <3>6. QED
      BY <1>0, <3>1, <3>5 DEF Holds, StartClose, Goto, ShiftTypeOK, Task
  <2>5. QED
    BY <2>3, <2>4
<1>6. CASE UNCHANGED task /\ \A j \in Rows : mirror'[j].status = mirror[j].status
  BY <1>6 DEF Holds
<1>8. ASSUME NEW j \in Rows, ShiftFallsDue(j)
      PROVE  UNCHANGED task /\ \A i \in Rows : mirror'[i].status = mirror[i].status
  BY <1>8 DEF ShiftFallsDue, ShiftTypeOK, MirrorRow
<1>9. QED
  BY <1>1, <1>3, <1>4, <1>5, <1>6, <1>8
     DEF ShiftNext, shiftVars, CronStep, Stranding, ClosedOutside, Toggle, SessionOpens, SessionEnds

(* The live row is one, in every state of the service.                     *)
LEMMA LiveInvariant == ShiftSpec => []LiveInv
<1>1. ShiftInit => LiveInv
  BY ShiftInitType DEF ShiftInit, LiveInv, OneLive, Live, NoRow
<1>2. ASSUME LiveInv, [ShiftNext]_shiftVars PROVE LiveInv'
  <2>1. ShiftTypeOK'
    <3>1. CASE ShiftNext
      BY <1>2, <3>1, ShiftStepType, CronStepType, ShiftOtherType DEF ShiftNext, LiveInv
    <3>2. CASE UNCHANGED shiftVars
      BY <1>2, <3>2 DEF shiftVars, ShiftTypeOK, LiveInv
    <3>3. QED
      BY <1>2, <3>1, <3>2
  <2>2. QED
    BY <1>2, <2>1, OneLiveStep DEF LiveInv
<1>3. QED
  BY <1>1, <1>2, PTL DEF ShiftSpec

(* No step but a restart or a statement failing in the catch takes a row   *)
(* in 'closing' out of the hands of the cron that is on it, or puts one    *)
(* there without a cron, whatever the provider answers, whatever else      *)
(* fails and whoever else opens or closes the shift meanwhile.             *)
THEOREM ClosingAlwaysHasOwner == ShiftSpec => ClosingKeepsOwner
<1>1. LiveInv /\ [ShiftNext]_shiftVars =>
        [~ Stranding => \A k \in Rows : Dropped(k)' => Dropped(k)]_shiftVars
  <2>1. SUFFICES ASSUME LiveInv, ShiftNext, ~ Stranding, NEW k \in Rows, Dropped(k)', ~ Dropped(k)
                 PROVE  FALSE
    OBVIOUS
  <2>2. mirror'[k].status = "closing" /\ ~ \E c \in Crons : Holds(c, k)'
    BY <2>1 DEF Dropped
  <2>3. mirror[k].status = "closing" => \E c \in Crons : Holds(c, k)
    BY <2>1 DEF Dropped
  <2>4. QED
    BY <2>1, <2>2, <2>3, HeldStep
<1>2. QED
  BY <1>1, LiveInvariant, PTL DEF ShiftSpec, ClosingKeepsOwner
=============================================================================
