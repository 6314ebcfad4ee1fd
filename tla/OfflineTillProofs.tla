---------------------------- MODULE OfflineTillProofs ----------------------------
(* Theorems about OfflineTill, for every set of tills, receipts and codes, any    *)
(* number of copies of a request and every lease size.                            *)
EXTENDS OfflineTill, TLAPS, FiniteSetTheorems

Stamped(r) == stamp[r].till \in Device /\ stamp[r].code \in Code

\* A receipt is stamped whole or not at all, and not before it left the counter.
StampInv ==
    \A r \in Receipt :
        /\ Stamped(r) \/ stamp[r] = [till |-> Nobody, code |-> Nobody]
        /\ row[r] \in {"none", "unknown"} => ~Stamped(r)
        /\ row[r] = "gone" /\ Stamped(r) => sale[r]

\* A till sends only what it stamped, and the server handles only what was sent;
\* past the sale there is a sale.
ReqInv ==
    /\ \A d \in Device : \A r \in sync[d].todo : Stamped(r) /\ stamp[r].till = d
    /\ \A r \in Receipt, n \in 1..Copies :
          /\ ~At(r, n, "idle") => Stamped(r)
          /\ At(r, n, "open") \/ At(r, n, "stamp") => sale[r]

\* A document carries no code but its receipt's.
DocInv == \A r \in Receipt : doc[r].code # Nobody => Stamped(r) /\ doc[r].code = stamp[r].code

DataInv == StampInv /\ ReqInv /\ DocInv /\ CodeFiledOnce
IInv == TypeOK /\ DataInv
----------------------------------------------------------------------------------
(* Types                                                                           *)

LEMMA TypeInit == Init => TypeOK
BY SizeAssumption DEF Init, TypeOK, NoLease, Lease, IdleSync, Sync, Doc, RowState,
   HandlerStep, NoMove, Session

LEMMA RowsCount == \A d \in Device : Cardinality(Rows(d)) \in Nat
<1>1. \A d \in Device : Rows(d) \subseteq Receipt
  BY DEF Rows
<1>2. QED
  BY <1>1, FiniteAssumption, FS_Subset, FS_CardinalityType

(* One till's sync, replaced whole.                                                *)
LEMMA SyncSet ==
  ASSUME TypeOK, NEW d, NEW s, d \in Device => s \in Sync, SetSync(d, s)
  PROVE  sync' \in [Device -> Sync]
BY DEF SetSync, TypeOK

LEMMA HeardType ==
  ASSUME TypeOK, NEW d, Heard(d)
  PROVE  sync' \in [Device -> Sync]
<1>1. ASSUME NEW s \in Sync PROVE [s EXCEPT !.step = "rows", !.row = Nobody, !.copy = 0] \in Sync
  BY DEF Sync
<1>2. d \in Device => sync[d] \in Sync
  BY DEF TypeOK
<1>3. QED
  BY <1>1, <1>2, SyncSet DEF Heard

LEMMA IdleIsSync == IdleSync \in Sync
BY DEF IdleSync, Sync

(* One document's state, whatever it becomes.                                      *)
LEMMA DocSet ==
  ASSUME TypeOK, NEW r, NEW st \in {"none", "pending", "failed", "online"},
         doc' = [doc EXCEPT ![r].state = st]
  PROVE  doc' \in [Receipt -> Doc]
<1>1. \A e \in Doc : [e EXCEPT !.state = st] \in Doc
  BY DEF Doc
<1>2. QED
  BY <1>1 DEF TypeOK

(* What an answer does to a till's row and its sync.                               *)
LEMMA MarkType ==
  ASSUME TypeOK, NEW r, NEW terminal, MarkAttempt(r, terminal)
  PROVE  row' \in [Receipt -> RowState] /\ attempts' \in [Receipt -> Nat]
<1>1. CASE UNCHANGED <<row, attempts>>
  BY <1>1 DEF TypeOK
<1>2. CASE \E st \in {"dead", "error"} :
              /\ attempts' = [attempts EXCEPT ![r] = @ + 1] /\ row' = [row EXCEPT ![r] = st]
  <2>1. PICK st \in {"dead", "error"} :
          attempts' = [attempts EXCEPT ![r] = @ + 1] /\ row' = [row EXCEPT ![r] = st]
    BY <1>2
  <2>2. st \in RowState
    BY DEF RowState, Queued
  <2>3. row' \in [Receipt -> RowState]
    BY <2>1, <2>2 DEF TypeOK
  <2>4. \A q \in Receipt : attempts[q] + 1 \in Nat
    BY DEF TypeOK
  <2>5. attempts' \in [Receipt -> Nat]
    BY <2>1, <2>4 DEF TypeOK
  <2>6. QED
    BY <2>3, <2>5
<1>3. QED
  BY <1>1, <1>2 DEF MarkAttempt

LEMMA ReplyType ==
  ASSUME TypeOK, NEW r, NEW n, NEW verdict, Reply(r, n, verdict)
  PROVE  /\ row' \in [Receipt -> RowState] /\ attempts' \in [Receipt -> Nat]
         /\ sync' \in [Device -> Sync]
<1>1. CASE UNCHANGED <<sync, row, attempts>>
  BY <1>1 DEF TypeOK
<1>2. CASE /\ \/ row' = [row EXCEPT ![r] = IF @ \in Queued THEN "gone" ELSE @] /\ UNCHANGED attempts
              \/ MarkAttempt(r, verdict = "refused")
           /\ Heard(stamp[r].till)
  <2>1. row' \in [Receipt -> RowState] /\ attempts' \in [Receipt -> Nat]
    BY <1>2, MarkType DEF TypeOK, RowState
  <2>2. QED
    BY <1>2, <2>1, HeardType
<1>3. QED
  BY <1>1, <1>2 DEF Reply

LEMMA CounterType ==
  ASSUME TypeOK, NEW d \in Device, NEW r \in Receipt,
         \/ ProbeUnknown(d, r) \/ QueueSale(d, r) \/ CancelOffline(d, r) \/ DiscardDead(d, r)
         \/ \E taken \in BOOLEAN : SaleUnknown(d, r, taken)
         \/ \E c \in Code : TakeStamp(d, r, c)
  PROVE  TypeOK'
<1>1. CASE ProbeUnknown(d, r)
  <2>1. doc' \in [Receipt -> Doc]
    BY <1>1, DocSet DEF ProbeUnknown
  <2>2. QED
    BY <1>1, <2>1 DEF ProbeUnknown, TypeOK, RowState
<1>2. CASE QueueSale(d, r) \/ CancelOffline(d, r) \/ DiscardDead(d, r)
  BY <1>2 DEF QueueSale, CancelOffline, DiscardDead, TypeOK, RowState, Queued, serverVars, Upset
<1>4. ASSUME NEW taken \in BOOLEAN, SaleUnknown(d, r, taken) PROVE TypeOK'
  <2>1. row' \in [Receipt -> RowState] /\ upsets' \in Nat
    BY <1>4 DEF SaleUnknown, TypeOK, RowState, Upset
  <2>2. sale' \in [Receipt -> BOOLEAN]
    BY <1>4 DEF SaleUnknown, TypeOK
  <2>3. doc' \in [Receipt -> Doc]
    BY <1>4, DocSet DEF SaleUnknown
  <2>4. QED
    BY <1>4, <2>1, <2>2, <2>3 DEF SaleUnknown, TypeOK
<1>5. ASSUME NEW c \in Code, TakeStamp(d, r, c) PROVE TypeOK'
  <2>1. lease' \in [Device -> Lease]
    <3>1. \A l \in Lease : [l EXCEPT !.spent = l.spent \union {c}] \in Lease
      BY DEF Lease
    <3>2. QED
      BY <1>5, <3>1 DEF TakeStamp, TypeOK
  <2>2. row' \in [Receipt -> RowState]
    BY <1>5 DEF TakeStamp, TypeOK, RowState
  <2>3. stamp' \in [Receipt -> [till : Device \union {Nobody}, code : Code \union {Nobody}]]
    BY <1>5 DEF TakeStamp, TypeOK
  <2>4. QED
    BY <1>5, <2>1, <2>2, <2>3 DEF TakeStamp, TypeOK, serverVars
<1>6. QED
  BY <1>1, <1>2, <1>4, <1>5

LEMMA CrashType ==
  ASSUME TypeOK, NEW d \in Device, TillCrash(d)
  PROVE  TypeOK'
<1>1. sync' \in [Device -> Sync]
  BY SyncSet, IdleIsSync DEF TillCrash
<1>2. QED
  BY <1>1 DEF TillCrash, TypeOK, RowState, serverVars, Upset

LEMMA SyncType ==
  ASSUME TypeOK, NEW d \in Device,
         TillSync(d) \/ TillTimeout(d) \/ Unauthorized(d) \/ LeaseTimeout(d)
  PROVE  TypeOK'
<1>0. sync[d] \in Sync /\ Rows(d) \subseteq Receipt
  BY DEF TypeOK, Rows
<1>1. CASE StartSync(d)
  <2>1. [sync[d] EXCEPT !.step = "rows", !.todo = Rows(d)] \in Sync
    BY <1>0 DEF Sync
  <2>2. sync' \in [Device -> Sync]
    BY <1>1, <2>1, SyncSet DEF StartSync
  <2>3. QED
    BY <1>1, <2>2 DEF StartSync, TypeOK, serverVars
<1>2. CASE RequestLease(d)
  <2>1. [sync[d] EXCEPT !.step = "asked", !.pending = Cardinality(Rows(d)),
                        !.read = lease[d].spent] \in Sync
    BY <1>0, RowsCount DEF Sync, TypeOK, Lease
  <2>2. sync' \in [Device -> Sync]
    BY <1>2, <2>1, SyncSet DEF RequestLease
  <2>3. QED
    BY <1>2, <2>2 DEF RequestLease, TypeOK
<1>3. ASSUME NEW r \in Receipt, SkipRow(d, r) PROVE TypeOK'
  <2>1. [sync[d] EXCEPT !.todo = sync[d].todo \ {r}] \in Sync
    BY <1>0 DEF Sync
  <2>2. sync' \in [Device -> Sync]
    BY <1>3, <2>1, SyncSet DEF SkipRow
  <2>3. QED
    BY <1>3, <2>2 DEF SkipRow, TypeOK, serverVars
<1>4. ASSUME NEW r \in Receipt, NEW n \in 1..Copies, SendRow(d, r, n) PROVE TypeOK'
  <2>1. [sync[d] EXCEPT !.step = "sent", !.todo = sync[d].todo \ {r}, !.row = r, !.copy = n] \in Sync
    <3>1. n \in Nat
      BY SizeAssumption
    <3>2. ASSUME NEW s \in Sync
          PROVE  [s EXCEPT !.step = "sent", !.todo = s.todo \ {r}, !.row = r, !.copy = n] \in Sync
      BY <3>1 DEF Sync
    <3>3. QED
      BY <1>0, <3>2
  <2>2. sync' \in [Device -> Sync]
    BY <1>4, <2>1, SyncSet DEF SendRow
  <2>3. req' \in [Receipt \X (1..Copies) -> [step : HandlerStep, sid : Nat]]
    BY <1>4 DEF SendRow, TypeOK, HandlerStep
  <2>4. QED
    BY <1>4, <2>2, <2>3 DEF SendRow, TypeOK
<1>5. CASE TillTimeout(d)
  <2>1. row' \in [Receipt -> RowState] /\ attempts' \in [Receipt -> Nat]
    BY <1>5, MarkType DEF TillTimeout
  <2>2. sync' \in [Device -> Sync]
    BY <1>5, HeardType DEF TillTimeout
  <2>3. QED
    BY <1>5, <2>1, <2>2 DEF TillTimeout, TypeOK, serverVars, Upset
<1>6. CASE Unauthorized(d)
  <2>1. sync' \in [Device -> Sync]
    BY <1>6, SyncSet, IdleIsSync DEF Unauthorized
  <2>2. req' \in [Receipt \X (1..Copies) -> [step : HandlerStep, sid : Nat]]
    BY <1>6 DEF Unauthorized, TypeOK, HandlerStep
  <2>3. QED
    BY <1>6, <2>1, <2>2 DEF Unauthorized, TypeOK, Upset
<1>7. CASE LeaseTimeout(d)
  <2>1. sync' \in [Device -> Sync]
    BY <1>7, SyncSet, IdleIsSync DEF LeaseTimeout
  <2>2. QED
    BY <1>7, <2>1 DEF LeaseTimeout, TypeOK, Upset, serverVars
<1>8. QED
  BY <1>1, <1>2, <1>3, <1>4, <1>5, <1>6, <1>7 DEF TillSync

(* completeDeviceStampedSale.                                                      *)
LEMMA EndType ==
  ASSUME TypeOK, NEW r, NEW n, NEW verdict, End(r, n, verdict)
  PROVE  /\ row' \in [Receipt -> RowState] /\ attempts' \in [Receipt -> Nat]
         /\ sync' \in [Device -> Sync]
         /\ req' \in [Receipt \X (1..Copies) -> [step : HandlerStep, sid : Nat]]
<1>1. [step |-> "idle", sid |-> 0] \in [step : HandlerStep, sid : Nat]
  BY DEF HandlerStep
<1>2. req' \in [Receipt \X (1..Copies) -> [step : HandlerStep, sid : Nat]]
  BY <1>1 DEF End, TypeOK
<1>3. QED
  BY <1>2, ReplyType DEF End

LEMMA GotoType ==
  ASSUME TypeOK, NEW r, NEW n, NEW step \in HandlerStep, Goto(r, n, step) /\ Silent
  PROVE  /\ row' \in [Receipt -> RowState] /\ attempts' \in [Receipt -> Nat]
         /\ sync' \in [Device -> Sync]
         /\ req' \in [Receipt \X (1..Copies) -> [step : HandlerStep, sid : Nat]]
<1>1. \A q \in [step : HandlerStep, sid : Nat] : [q EXCEPT !.step = step] \in [step : HandlerStep, sid : Nat]
  OBVIOUS
<1>2. QED
  BY <1>1 DEF Goto, Silent, TypeOK

LEMMA ClaimType ==
  ASSUME TypeOK, NEW d, Claim(d), d \in Device \union {Nobody}
  PROVE  holder' \in Device \union {Nobody} /\ ask' \in Device \union {Nobody}
BY DEF Claim, TypeOK

LEMMA CodeSet ==
  ASSUME TypeOK, NEW c, NEW st \in {"absent", "free", "leased", "used", "burned"},
         NEW by \in Device \union Receipt \union {Nobody},
         code' = [code EXCEPT ![c] = [st |-> st, by |-> by]]
  PROVE  code' \in [Code -> [st : {"absent", "free", "leased", "used", "burned"},
                             by : Device \union Receipt \union {Nobody}]]
BY DEF TypeOK

LEMMA GoOfflineType ==
  ASSUME TypeOK, TakeGoOfflineCode
  PROVE  code' \in [Code -> [st : {"absent", "free", "leased", "used", "burned"},
                             by : Device \union Receipt \union {Nobody}]]
<1>1. CASE UNCHANGED code
  BY <1>1 DEF TypeOK
<1>2. CASE \E c \in Code : code' = [code EXCEPT ![c] = [st |-> "used", by |-> Nobody]]
  BY <1>2, CodeSet
<1>3. QED
  BY <1>1, <1>2 DEF TakeGoOfflineCode

LEMMA NewSessionType ==
  ASSUME TypeOK, NEW d \in Device \union {Nobody}, NewSession(d)
  PROVE  session' \in Session /\ session.id + 1 \in Nat
BY DEF TypeOK, NewSession, Session

LEMMA HandleType ==
  ASSUME TypeOK, NEW r \in Receipt, NEW n \in 1..Copies,
         Handle(r, n) \/ RejectSale(r, n) \/ RequestDies(r, n) \/ StickOldSession(r, n)
  PROVE  TypeOK'
<1>0. stamp[r].till \in Device \union {Nobody} /\ stamp[r].code \in Code \union {Nobody}
  BY DEF TypeOK
<1> DEFINE Moved ==
      /\ row' \in [Receipt -> RowState] /\ attempts' \in [Receipt -> Nat]
      /\ sync' \in [Device -> Sync]
      /\ req' \in [Receipt \X (1..Copies) -> [step : HandlerStep, sid : Nat]]
<1>1. CASE Precheck(r, n)
  <2>1. Moved
    BY <1>1, EndType, GotoType DEF Precheck, HandlerStep
  <2>2. QED
    BY <1>1, <2>1 DEF Precheck, TypeOK
<1>2. CASE Gate(r, n)
  <2>1. Moved
    BY <1>2, EndType, GotoType DEF Gate, HandlerStep
  <2>2. holder' \in Device \union {Nobody} /\ ask' \in Device \union {Nobody}
    BY <1>0, <1>2, ClaimType DEF Gate, TypeOK
  <2>3. QED
    BY <1>2, <2>1, <2>2 DEF Gate, TypeOK
<1>3. CASE JoinSession(r, n)
  <2>1. CASE session.status = "replaying" /\ End(r, n, "retry") /\ UNCHANGED <<session, code>>
    <3>1. Moved
      BY <2>1, EndType
    <3>2. QED
      BY <1>3, <2>1, <3>1 DEF JoinSession, TypeOK
  <2>2. CASE \E sid \in Nat : req' = [req EXCEPT ![<<r, n>>] = [step |-> "sale", sid |-> sid]] /\ Silent
    <3>1. Moved
      BY <2>2 DEF TypeOK, Silent, HandlerStep
    <3>2. QED
      <4>1. session' \in Session
        BY <1>0, <1>3, NewSessionType DEF JoinSession, TypeOK, Session
      <4>2. code' \in [Code -> [st : {"absent", "free", "leased", "used", "burned"},
                                by : Device \union Receipt \union {Nobody}]]
        BY <1>3, GoOfflineType DEF JoinSession, TypeOK
      <4>3. QED
        BY <1>3, <3>1, <4>1, <4>2 DEF JoinSession, TypeOK
  <2>3. session.id \in Nat /\ session.id + 1 \in Nat
    BY DEF TypeOK, Session
  <2>4. QED
    BY <1>3, <2>1, <2>2, <2>3 DEF JoinSession
<1>4. CASE CommitSale(r, n)
  <2>1. Moved
    BY <1>4, GotoType DEF CommitSale, HandlerStep
  <2>2. QED
    BY <1>4, <2>1 DEF CommitSale, TypeOK
<1>5. CASE OpenDocument(r, n)
  <2>1. Moved
    BY <1>5, EndType, GotoType DEF OpenDocument, HandlerStep
  <2>2. doc' \in [Receipt -> Doc]
    <3>1. PICK st \in {"none", "pending", "failed", "online"} : doc' = [doc EXCEPT ![r].state = st]
      BY <1>5 DEF OpenDocument, TypeOK, Doc
    <3>2. QED
      BY <3>1, DocSet
  <2>3. QED
    BY <1>5, <2>1, <2>2 DEF OpenDocument, TypeOK
<1>6. CASE StampDevice(r, n)
  <2>1. Moved
    BY <1>6, EndType DEF StampDevice
  <2>2. code' \in [Code -> [st : {"absent", "free", "leased", "used", "burned"},
                            by : Device \union Receipt \union {Nobody}]]
    BY <1>6, CodeSet DEF StampDevice
  <2>3. session.id \in Nat
    BY DEF TypeOK, Session
  <2>4. doc' \in [Receipt -> Doc]
    <3>1. \A e \in Doc : [[e EXCEPT !.sid = session.id] EXCEPT !.code = stamp[r].code] \in Doc
      BY <1>0, <2>3 DEF Doc
    <3>2. QED
      BY <1>6, <3>1 DEF StampDevice, TypeOK
  <2>5. QED
    BY <1>6, <2>1, <2>2, <2>4 DEF StampDevice, TypeOK
<1>7. CASE ParkDocument(r, n)
  <2>1. Moved
    BY <1>7, EndType DEF ParkDocument
  <2>2. doc' \in [Receipt -> Doc]
    BY <1>7, DocSet DEF ParkDocument
  <2>3. QED
    BY <1>7, <2>1, <2>2 DEF ParkDocument, TypeOK
<1>8. CASE RejectSale(r, n) \/ RequestDies(r, n)
  <2>1. Moved /\ upsets' \in Nat
    BY <1>8, EndType DEF RejectSale, RequestDies, Upset, TypeOK
  <2>2. QED
    BY <1>8, <2>1 DEF RejectSale, RequestDies, TypeOK
<1>9. CASE StickOldSession(r, n)
  <2>1. session' \in Session
    BY <1>9 DEF StickOldSession, TypeOK, Session
  <2>2. upsets' \in Nat
    BY <1>9 DEF StickOldSession, TypeOK, Upset
  <2>3. QED
    BY <1>9, <2>1, <2>2 DEF StickOldSession, TypeOK, tillVars
<1>10. QED
  BY <1>1, <1>2, <1>3, <1>4, <1>5, <1>6, <1>7, <1>8, <1>9 DEF Handle

(* leaseCodes, the holder, the pool and the sessions.                              *)
LEMMA LeaseType ==
  ASSUME TypeOK, NEW d \in Device, LeaseStep(d)
  PROVE  TypeOK'
<1>1. ASSUME NEW l \in Lease PROVE [lease EXCEPT ![d] = l] \in [Device -> Lease]
  BY DEF TypeOK
<1>2. sync[d].read \subseteq Code /\ Held(d) \subseteq Code
  BY DEF TypeOK, Sync, Held
<1>3. CASE LeaseHolder(d)
  <2>1. [codes |-> {}, spent |-> sync[d].read, blocked |-> TRUE] \in Lease
    BY <1>2 DEF Lease
  <2>2. lease' \in [Device -> Lease]
    BY <1>1, <1>3, <2>1 DEF LeaseHolder, TypeOK
  <2>3. sync' \in [Device -> Sync]
    BY <1>3, IdleIsSync DEF LeaseHolder, TypeOK
  <2>4. holder' \in Device \union {Nobody} /\ ask' \in Device \union {Nobody}
    BY <1>3, ClaimType DEF LeaseHolder, TypeOK
  <2>5. job' \in [Device -> {"idle", "holder", "take", "list"}]
    BY <1>3 DEF LeaseHolder, TypeOK
  <2>6. QED
    BY <1>3, <2>2, <2>3, <2>4, <2>5 DEF LeaseHolder, TypeOK
<1>4. CASE LeaseTake(d)
  <2>1. code' \in [Code -> [st : {"absent", "free", "leased", "used", "burned"},
                            by : Device \union Receipt \union {Nobody}]]
    BY <1>4 DEF LeaseTake, TypeOK
  <2>2. job' \in [Device -> {"idle", "holder", "take", "list"}]
    BY <1>4 DEF LeaseTake, TypeOK
  <2>3. QED
    BY <1>4, <2>1, <2>2 DEF LeaseTake, TypeOK
<1>5. CASE LeaseList(d)
  <2>1. [codes |-> Held(d),
         spent |-> IF sync[d].pending = 0 THEN {} ELSE sync[d].read \intersect Held(d),
         blocked |-> FALSE] \in Lease
    BY <1>2 DEF Lease
  <2>2. lease' \in [Device -> Lease]
    <3>1. CASE UNCHANGED lease
      BY <3>1 DEF TypeOK
    <3>2. CASE lease' = [lease EXCEPT ![d] =
                   [codes |-> Held(d),
                    spent |-> IF sync[d].pending = 0 THEN {} ELSE sync[d].read \intersect Held(d),
                    blocked |-> FALSE]]
      BY <1>1, <2>1, <3>2
    <3>3. QED
      BY <1>5, <3>1, <3>2 DEF LeaseList
  <2>3. sync' \in [Device -> Sync]
    BY <1>5, SyncSet, IdleIsSync DEF LeaseList, TypeOK
  <2>4. job' \in [Device -> {"idle", "holder", "take", "list"}]
    BY <1>5 DEF LeaseList, TypeOK
  <2>5. QED
    BY <1>5, <2>2, <2>3, <2>4 DEF LeaseList, TypeOK
<1>6. QED
  BY <1>3, <1>4, <1>5 DEF LeaseStep

CodeRow == [st : {"absent", "free", "leased", "used", "burned"},
            by : Device \union Receipt \union {Nobody}]
MoveRow == [op : {"none", "release", "confirm", "force"}, step : 0..3,
            to : Device \union {Nobody}, prev : Device \union {Nobody}]

LEMMA BeginType ==
  ASSUME TypeOK, NEW m \in MoveRow, BeginMove(m)
  PROVE  TypeOK'
BY DEF BeginMove, Upset, TypeOK, tillVars, MoveRow

LEMMA ReleaseType ==
  ASSUME TypeOK, NEW d, NEW to \in {"free", "burned"}, ReleaseCodes(d, to)
  PROVE  code' \in [Code -> CodeRow]
<1>1. [st |-> to, by |-> Nobody] \in CodeRow
  BY DEF CodeRow
<1>2. QED
  BY <1>1 DEF ReleaseCodes, TypeOK, CodeRow

LEMMA MoveType ==
  ASSUME TypeOK,
         \/ MoveFrees \/ MoveEnds \/ ForceSticks \/ ForceBurns \/ ForceEnds
         \/ \E d \in Device : RequestHandover(d) \/ Release(d) \/ Confirm(d) \/ ForceHandover(d)
  PROVE  TypeOK'
<1>0. move \in MoveRow
  BY DEF TypeOK, MoveRow
<1>1. ASSUME NEW d \in Device, RequestHandover(d) PROVE TypeOK'
  <2>1. holder' \in Device \union {Nobody} /\ ask' \in Device \union {Nobody}
    BY <1>1, ClaimType DEF RequestHandover, TypeOK
  <2>2. QED
    BY <1>1, <2>1 DEF RequestHandover, TypeOK, tillVars
<1>2. ASSUME NEW d \in Device, Release(d) \/ Confirm(d) \/ ForceHandover(d) PROVE TypeOK'
  <2>1. \A op \in {"release", "confirm", "force"}, to, prev \in Device \union {Nobody} :
          [op |-> op, step |-> 1, to |-> to, prev |-> prev] \in MoveRow
    BY DEF MoveRow
  <2>2. holder \in Device \union {Nobody}
    BY DEF TypeOK
  <2>3. QED
    BY <1>2, <2>1, <2>2, BeginType DEF Release, Confirm, ForceHandover
<1>3. CASE MoveFrees
  <2>1. code' \in [Code -> CodeRow] /\ move' \in MoveRow
    BY <1>0, <1>3, ReleaseType DEF MoveFrees, MoveRow
  <2>2. QED
    BY <1>3, <2>1 DEF MoveFrees, TypeOK, tillVars, CodeRow, MoveRow
<1>4. CASE MoveEnds
  <2>1. NoMove \in MoveRow
    BY DEF NoMove, MoveRow
  <2>2. QED
    BY <1>4, <2>1 DEF MoveEnds, TypeOK, tillVars, MoveRow
<1>5. CASE ForceSticks
  <2>1. session' \in Session
    BY <1>5 DEF ForceSticks, TypeOK, Session
  <2>2. move' \in MoveRow
    BY <1>0, <1>5 DEF ForceSticks, MoveRow
  <2>3. QED
    BY <1>5, <2>1, <2>2 DEF ForceSticks, TypeOK, tillVars, MoveRow
<1>6. CASE ForceBurns
  <2>1. code' \in [Code -> CodeRow]
    BY <1>6, ReleaseType DEF ForceBurns, TypeOK, CodeRow
  <2>2. move' \in MoveRow
    BY <1>0, <1>6 DEF ForceBurns, MoveRow
  <2>3. QED
    BY <1>6, <2>1, <2>2 DEF ForceBurns, TypeOK, tillVars, CodeRow, MoveRow
<1>7. CASE ForceEnds
  <2>1. NoMove \in MoveRow
    BY DEF NoMove, MoveRow
  <2>2. holder' \in Device \union {Nobody} /\ ask' \in Device \union {Nobody}
    BY <1>0, <1>7 DEF ForceEnds, MoveRow
  <2>3. QED
    BY <1>7, <2>1, <2>2 DEF ForceEnds, TypeOK, tillVars, MoveRow
<1>8. QED
  BY <1>1, <1>2, <1>3, <1>4, <1>5, <1>6, <1>7

LEMMA PoolType ==
  ASSUME TypeOK,
         \/ \E list \in SUBSET Code : RefillFetch(list)
         \/ RefillWrite \/ OpenServerSession \/ MarkReplaying
         \/ \E c \in Code : StampServer(c)
         \/ \E status \in {"closed", "stuck"} : EndReplay(status)
  PROVE  TypeOK'
<1>1. ASSUME NEW list \in SUBSET Code, RefillFetch(list) PROVE TypeOK'
  BY <1>1 DEF RefillFetch, TypeOK, tillVars
<1>2. CASE RefillWrite
  <2>1. \A st \in {"free", "burned"} : [st |-> st, by |-> Nobody] \in CodeRow
    BY DEF CodeRow
  <2>2. code' \in [Code -> CodeRow]
    BY <1>2, <2>1 DEF RefillWrite, TypeOK, CodeRow
  <2>3. QED
    BY <1>2, <2>2 DEF RefillWrite, TypeOK, tillVars, CodeRow
<1>3. CASE OpenServerSession
  BY <1>3, NewSessionType, GoOfflineType DEF OpenServerSession, TypeOK, tillVars
<1>4. CASE MarkReplaying \/ \E status \in {"closed", "stuck"} : EndReplay(status)
  <2>1. session' \in Session
    BY <1>4 DEF MarkReplaying, EndReplay, TypeOK, Session
  <2>2. QED
    BY <1>4, <2>1 DEF MarkReplaying, EndReplay, TypeOK, tillVars
<1>5. ASSUME NEW c \in Code, StampServer(c) PROVE TypeOK'
  BY <1>5, CodeSet DEF StampServer, TypeOK, tillVars
<1>6. QED
  BY <1>1, <1>2, <1>3, <1>4, <1>5

LEMMA TypeNext == TypeOK /\ [Next]_vars => TypeOK'
<1>. SUFFICES ASSUME TypeOK, [Next]_vars PROVE TypeOK'
  OBVIOUS
<1>1. CASE UNCHANGED vars
  BY <1>1 DEF vars, tillVars, serverVars, TypeOK
<1>2. ASSUME NEW d \in Device, TillNext(d) PROVE TypeOK'
  <2>1. CASE TillSync(d) \/ TillTimeout(d) \/ Unauthorized(d) \/ LeaseTimeout(d)
    BY <2>1, SyncType
  <2>2. CASE LeaseStep(d)
    BY <2>2, LeaseType
  <2>3. ASSUME NEW r \in Receipt,
               \/ ProbeUnknown(d, r) \/ QueueSale(d, r) \/ CancelOffline(d, r) \/ DiscardDead(d, r)
               \/ \E taken \in BOOLEAN : SaleUnknown(d, r, taken)
               \/ \E c \in Code : TakeStamp(d, r, c)
        PROVE  TypeOK'
    BY <2>3, CounterType
  <2>4. CASE TillCrash(d)
    BY <2>4, CrashType
  <2>5. QED
    BY <1>2, <2>1, <2>2, <2>3, <2>4 DEF TillNext
<1>3. CASE ServerNext
  BY <1>3, HandleType, MoveType, PoolType DEF ServerNext
<1>4. QED
  BY <1>1, <1>2, <1>3 DEF Next

----------------------------------------------------------------------------------
(* Codes and documents                                                             *)

\* No spent code changes, and no code becomes a document's.
CodesQuiet ==
    \A c \in Code : /\ code[c].st \in {"used", "burned"} => code'[c] = code[c]
                    /\ code'[c] # code[c] => code'[c].by \notin Receipt
DocsQuiet == \A r \in Receipt : doc'[r].code = doc[r].code

(* Only the stamp moves both; every other step leaves them quiet.                  *)
LEMMA TakeQuiet == TypeOK /\ TakeGoOfflineCode => CodesQuiet
BY NobodyAssumption DEF TypeOK, TakeGoOfflineCode, CodesQuiet

LEMMA ReleaseQuiet ==
  ASSUME TypeOK, NEW d, NEW to, ReleaseCodes(d, to)
  PROVE  CodesQuiet
BY NobodyAssumption DEF TypeOK, ReleaseCodes, CodesQuiet, LeasedTo

LEMMA StateQuiet ==
  ASSUME TypeOK, NEW r, NEW st, doc' = [doc EXCEPT ![r].state = st]
  PROVE  DocsQuiet
BY DEF TypeOK, Doc, DocsQuiet

LEMMA SameQuiet == (UNCHANGED code => CodesQuiet) /\ (UNCHANGED doc => DocsQuiet)
BY DEF CodesQuiet, DocsQuiet

LEMMA Quiet ==
  ASSUME TypeOK, [Next]_vars,
         ~ \E r \in Receipt, n \in 1..Copies : StampDevice(r, n)
  PROVE  CodesQuiet /\ DocsQuiet
<1>1. CASE UNCHANGED vars
  BY <1>1, SameQuiet DEF vars, serverVars
<1>2. ASSUME NEW d \in Device, TillNext(d) PROVE CodesQuiet /\ DocsQuiet
  <2>1. CASE TillSync(d) \/ TillTimeout(d) \/ Unauthorized(d) \/ LeaseTimeout(d) \/ TillCrash(d)
    BY <2>1, SameQuiet DEF TillSync, StartSync, RequestLease, SkipRow, SendRow, TillTimeout,
       Unauthorized, LeaseTimeout, TillCrash, serverVars
  <2>2. CASE LeaseHolder(d) \/ LeaseList(d)
    BY <2>2, SameQuiet DEF LeaseHolder, LeaseList
  <2>3. CASE LeaseTake(d)
    <3>1. CodesQuiet
      BY <2>3, NobodyAssumption DEF LeaseTake, CodesQuiet, TypeOK, Free
    <3>2. QED
      BY <2>3, <3>1, SameQuiet DEF LeaseTake
  <2>4. ASSUME NEW r \in Receipt,
               \/ QueueSale(d, r) \/ CancelOffline(d, r) \/ DiscardDead(d, r)
               \/ \E c \in Code : TakeStamp(d, r, c)
        PROVE  CodesQuiet /\ DocsQuiet
    BY <2>4, SameQuiet DEF QueueSale, CancelOffline, DiscardDead, TakeStamp, serverVars
  <2>5. ASSUME NEW r \in Receipt, ProbeUnknown(d, r) \/ \E taken \in BOOLEAN : SaleUnknown(d, r, taken)
        PROVE  CodesQuiet /\ DocsQuiet
    BY <2>5, SameQuiet, StateQuiet DEF ProbeUnknown, SaleUnknown
  <2>6. QED
    BY <1>2, <2>1, <2>2, <2>3, <2>4, <2>5 DEF TillNext, LeaseStep
<1>3. ASSUME NEW r \in Receipt, NEW n \in 1..Copies,
             Handle(r, n) \/ RejectSale(r, n) \/ RequestDies(r, n) \/ StickOldSession(r, n)
      PROVE  CodesQuiet /\ DocsQuiet
  <2>1. CASE Precheck(r, n) \/ Gate(r, n) \/ CommitSale(r, n) \/ RejectSale(r, n) \/ RequestDies(r, n)
    BY <2>1, SameQuiet DEF Precheck, Gate, CommitSale, RejectSale, RequestDies
  <2>2. CASE JoinSession(r, n)
    BY <2>2, SameQuiet, TakeQuiet DEF JoinSession
  <2>3. CASE OpenDocument(r, n) \/ ParkDocument(r, n)
    <3>1. PICK st : doc' = [doc EXCEPT ![r].state = st]
      BY <2>3 DEF OpenDocument, ParkDocument
    <3>2. QED
      BY <2>3, <3>1, SameQuiet, StateQuiet DEF OpenDocument, ParkDocument
  <2>4. CASE StickOldSession(r, n)
    BY <2>4, SameQuiet DEF StickOldSession
  <2>5. QED
    BY <1>3, <2>1, <2>2, <2>3, <2>4 DEF Handle
<1>4. ASSUME NEW d \in Device, RequestHandover(d) \/ Release(d) \/ Confirm(d) \/ ForceHandover(d)
      PROVE  CodesQuiet /\ DocsQuiet
  BY <1>4, SameQuiet DEF RequestHandover, Release, Confirm, ForceHandover, BeginMove
<1>5. CASE MoveFrees \/ MoveEnds \/ ForceSticks \/ ForceBurns \/ ForceEnds
  BY <1>5, SameQuiet, ReleaseQuiet DEF MoveFrees, MoveEnds, ForceSticks, ForceBurns, ForceEnds
<1>6. ASSUME NEW c \in Code, StampServer(c) PROVE CodesQuiet /\ DocsQuiet
  <2>1. CodesQuiet
    BY <1>6, NobodyAssumption DEF StampServer, CodesQuiet, TypeOK, Free
  <2>2. QED
    BY <1>6, <2>1, SameQuiet DEF StampServer
<1>7. CASE RefillWrite
  <2>1. CodesQuiet
    BY <1>7, NobodyAssumption DEF RefillWrite, CodesQuiet, TypeOK
  <2>2. QED
    BY <1>7, <2>1, SameQuiet DEF RefillWrite
<1>8. CASE \/ \E list \in SUBSET Code : RefillFetch(list)
           \/ OpenServerSession \/ MarkReplaying \/ \E status \in {"closed", "stuck"} : EndReplay(status)
  BY <1>8, SameQuiet, TakeQuiet DEF RefillFetch, OpenServerSession, MarkReplaying, EndReplay
<1>9. QED
  BY <1>1, <1>2, <1>3, <1>4, <1>5, <1>6, <1>7, <1>8 DEF Next, ServerNext

----------------------------------------------------------------------------------
(* Stamps, rows, requests                                                          *)

StampsQuiet == \A r \in Receipt : Stamped(r) => stamp'[r] = stamp[r]
SalesGrow == \A r \in Receipt : Stamped(r) /\ sale[r] => sale'[r]
RowsMove ==
    \A r \in Receipt : \/ row'[r] = row[r]
                       \/ row'[r] \notin {"none", "unknown", "gone"}
                       \/ row'[r] = "gone" /\ sale'[r]
TodosShrink == \A d \in Device : sync'[d].todo \subseteq sync[d].todo \union Rows(d)
ReqMove ==
    \A r \in Receipt, n \in 1..Copies :
        \/ req'[<<r, n>>].step \in {req[<<r, n>>].step, "idle"}
        \/ Stamped(r) /\ (req'[<<r, n>>].step \in {"open", "stamp"} => sale'[r])

LEMMA RowsKeep ==
  ASSUME StampInv, RowsMove, SalesGrow, UNCHANGED stamp
  PROVE  StampInv' /\ StampsQuiet
<1>1. \A r \in Receipt : Stamped(r)' <=> Stamped(r)
  BY DEF Stamped
<1>2. QED
  BY <1>1 DEF StampInv, RowsMove, SalesGrow, StampsQuiet, Stamped

LEMMA ReqKeeps ==
  ASSUME TypeOK, DataInv, StampsQuiet, SalesGrow, TodosShrink, ReqMove
  PROVE  ReqInv'
<1>1. \A r \in Receipt : Stamped(r) => Stamped(r)' /\ stamp'[r] = stamp[r]
  BY DEF StampsQuiet, Stamped
<1>2. ASSUME NEW d \in Device, NEW r \in sync'[d].todo
      PROVE  Stamped(r)' /\ stamp'[r].till = d
  <2>1. CASE r \in sync[d].todo
    <3>1. r \in Receipt
      BY <2>1 DEF TypeOK, Sync
    <3>2. Stamped(r) /\ stamp[r].till = d
      BY <2>1 DEF DataInv, ReqInv
    <3>3. QED
      BY <3>1, <3>2, <1>1
  <2>2. CASE r \in Rows(d)
    <3>1. r \in Receipt /\ stamp[r].till = d
      BY <2>2 DEF Rows
    <3>2. Stamped(r)
      BY <3>1, NobodyAssumption DEF DataInv, StampInv
    <3>3. QED
      BY <3>1, <3>2, <1>1
  <2>3. QED
    BY <1>2, <2>1, <2>2 DEF TodosShrink
<1>3. ASSUME NEW r \in Receipt, NEW n \in 1..Copies
      PROVE  /\ req'[<<r, n>>].step # "idle" => Stamped(r)'
             /\ req'[<<r, n>>].step \in {"open", "stamp"} => sale'[r]
  <2>1. /\ req[<<r, n>>].step # "idle" => Stamped(r)
        /\ req[<<r, n>>].step \in {"open", "stamp"} => sale[r]
    BY DEF DataInv, ReqInv, At
  <2>2. QED
    BY <1>1, <2>1 DEF ReqMove, SalesGrow
<1>4. QED
  BY <1>2, <1>3 DEF ReqInv, At

LEMMA CodesKeep ==
  ASSUME TypeOK, DataInv, StampsQuiet, CodesQuiet, DocsQuiet
  PROVE  DocInv' /\ CodeFiledOnce'
<1>1. \A r \in Receipt : Stamped(r) => Stamped(r)' /\ stamp'[r] = stamp[r]
  BY DEF StampsQuiet, Stamped
<1>2. DocInv'
  BY <1>1 DEF DataInv, DocInv, DocsQuiet
<1>3. \A r \in Receipt : doc[r].code # Nobody => doc[r].code \in Code
  BY DEF TypeOK, Doc
<1>4. CodeFiledOnce'
  BY <1>3 DEF DataInv, CodeFiledOnce, CodesQuiet, DocsQuiet
<1>5. QED
  BY <1>2, <1>4

LEMMA SyncTodos ==
  ASSUME TypeOK, NEW d, NEW s, SetSync(d, s), d \in Device => s.todo \subseteq sync[d].todo \union Rows(d)
  PROVE  TodosShrink
BY DEF SetSync, TodosShrink, TypeOK

LEMMA HeardTodos == ASSUME TypeOK, NEW d, Heard(d) PROVE TodosShrink
<1>1. d \in Device => [sync[d] EXCEPT !.step = "rows", !.row = Nobody, !.copy = 0].todo = sync[d].todo
  BY DEF TypeOK, Sync
<1>2. QED
  BY <1>1, SyncTodos DEF Heard

(* What an answer, or giving up on one, does to the rows.                          *)
LEMMA MarkRows ==
  ASSUME TypeOK, NEW r, NEW terminal, MarkAttempt(r, terminal)
  PROVE  RowsMove
BY DEF MarkAttempt, RowsMove, TypeOK

LEMMA ReplyMoves ==
  ASSUME TypeOK, NEW r, NEW n, NEW verdict, verdict = "ok" => sale'[r], Reply(r, n, verdict)
  PROVE  RowsMove /\ TodosShrink
<1>1. CASE UNCHANGED <<sync, row, attempts>>
  BY <1>1 DEF RowsMove, TodosShrink
<1>2. CASE /\ \/ verdict = "ok" /\ row' = [row EXCEPT ![r] = IF @ \in Queued THEN "gone" ELSE @]
              \/ MarkAttempt(r, verdict = "refused")
           /\ Heard(stamp[r].till)
  <2>1. RowsMove
    <3>1. CASE verdict = "ok" /\ row' = [row EXCEPT ![r] = IF @ \in Queued THEN "gone" ELSE @]
      BY <3>1 DEF RowsMove, TypeOK
    <3>2. QED
      BY <1>2, <3>1, MarkRows
  <2>2. TodosShrink
    BY <1>2, HeardTodos
  <2>3. QED
    BY <2>1, <2>2
<1>3. QED
  BY <1>1, <1>2 DEF Reply

LEMMA EndMoves ==
  ASSUME TypeOK, NEW r, NEW n, NEW verdict, verdict = "ok" => sale'[r], End(r, n, verdict)
  PROVE  RowsMove /\ TodosShrink /\ ReqMove
<1>1. ReqMove
  BY DEF End, ReqMove, TypeOK
<1>2. QED
  BY <1>1, ReplyMoves DEF End

LEMMA GotoMoves ==
  ASSUME TypeOK, NEW r, NEW n, NEW step, Goto(r, n, step) /\ Silent,
         r \in Receipt => Stamped(r), step \in {"open", "stamp"} => sale'[r]
  PROVE  RowsMove /\ TodosShrink /\ ReqMove
BY DEF Goto, Silent, RowsMove, TodosShrink, ReqMove, TypeOK

Moves == StampsQuiet /\ StampInv' /\ SalesGrow /\ TodosShrink /\ ReqMove

LEMMA SameMoves ==
  /\ UNCHANGED sync => TodosShrink
  /\ UNCHANGED req => ReqMove
  /\ UNCHANGED sale => SalesGrow
  /\ UNCHANGED row => RowsMove
BY DEF TodosShrink, ReqMove, SalesGrow, RowsMove

LEMMA HandleMoves ==
  ASSUME TypeOK, DataInv, NEW r \in Receipt, NEW n \in 1..Copies,
         Handle(r, n) \/ RejectSale(r, n) \/ RequestDies(r, n) \/ StickOldSession(r, n)
  PROVE  Moves
<1>0. /\ ~At(r, n, "idle") => Stamped(r)
      /\ At(r, n, "open") \/ At(r, n, "stamp") => sale[r]
  BY DEF DataInv, ReqInv
<1>1. \/ At(r, n, "precheck") \/ At(r, n, "gate") \/ At(r, n, "session")
      \/ At(r, n, "sale") \/ At(r, n, "open") \/ At(r, n, "stamp")
      => Stamped(r)
  BY <1>0 DEF At
<1>2. UNCHANGED stamp
  BY DEF Handle, Precheck, Gate, JoinSession, CommitSale, OpenDocument, StampDevice, ParkDocument,
     RejectSale, RequestDies, StickOldSession, tillVars
<1>3. SalesGrow
  <2>1. CASE CommitSale(r, n)
    BY <2>1 DEF CommitSale, SalesGrow, TypeOK
  <2>2. CASE UNCHANGED sale
    BY <2>2, SameMoves
  <2>3. QED
    BY <2>1, <2>2 DEF Handle, Precheck, Gate, JoinSession, OpenDocument, StampDevice, ParkDocument,
       RejectSale, RequestDies, StickOldSession
<1>4. RowsMove /\ TodosShrink /\ ReqMove
  <2>1. CASE Precheck(r, n)
    BY <1>1, <2>1, EndMoves, GotoMoves DEF Precheck
  <2>2. CASE Gate(r, n)
    BY <1>1, <2>2, EndMoves, GotoMoves DEF Gate
  <2>3. CASE JoinSession(r, n)
    <3>1. CASE End(r, n, "retry")
      BY <3>1, EndMoves
    <3>2. CASE \E sid : req' = [req EXCEPT ![<<r, n>>] = [step |-> "sale", sid |-> sid]] /\ Silent
      <4>1. Stamped(r)
        BY <1>1, <2>3 DEF JoinSession
      <4>2. ReqMove
        BY <3>2, <4>1 DEF ReqMove, TypeOK
      <4>3. QED
        BY <3>2, <4>2, SameMoves DEF Silent
    <3>3. QED
      BY <2>3, <3>1, <3>2 DEF JoinSession
  <2>4. CASE CommitSale(r, n)
    <3>1. sale'[r]
      BY <2>4 DEF CommitSale, TypeOK
    <3>2. QED
      BY <1>1, <2>4, <3>1, GotoMoves DEF CommitSale
  <2>5. CASE OpenDocument(r, n)
    BY <1>0, <1>1, <2>5, EndMoves, GotoMoves DEF OpenDocument
  <2>6. CASE StampDevice(r, n)
    BY <1>0, <2>6, EndMoves DEF StampDevice
  <2>7. CASE ParkDocument(r, n)
    <3>1. PICK verdict \in {"refused", "retry"} : End(r, n, verdict)
      BY <2>7 DEF ParkDocument
    <3>2. QED
      BY <3>1, EndMoves
  <2>8. CASE RejectSale(r, n) \/ RequestDies(r, n)
    BY <2>8, EndMoves DEF RejectSale, RequestDies
  <2>9. CASE StickOldSession(r, n)
    BY <2>9, SameMoves DEF StickOldSession, tillVars
  <2>10. QED
    BY <2>1, <2>2, <2>3, <2>4, <2>5, <2>6, <2>7, <2>8, <2>9 DEF Handle
<1>5. QED
  BY <1>2, <1>3, <1>4, RowsKeep DEF Moves, DataInv

LEMMA TillMoves ==
  ASSUME TypeOK, DataInv, NEW d \in Device, TillNext(d)
  PROVE  Moves
<1>1. CASE TillSync(d) \/ TillTimeout(d) \/ Unauthorized(d) \/ LeaseTimeout(d)
  <2>1. CASE StartSync(d)
    <3>1. [sync[d] EXCEPT !.step = "rows", !.todo = Rows(d)].todo = Rows(d)
      BY DEF TypeOK, Sync
    <3>2. TodosShrink
      BY <2>1, <3>1, SyncTodos DEF StartSync
    <3>3. QED
      BY <2>1, <3>2, SameMoves, RowsKeep DEF StartSync, serverVars, Moves, DataInv
  <2>2. CASE RequestLease(d)
    <3>1. [sync[d] EXCEPT !.step = "asked", !.pending = Cardinality(Rows(d)),
                          !.read = lease[d].spent].todo = sync[d].todo
      BY DEF TypeOK, Sync
    <3>2. TodosShrink
      BY <2>2, <3>1, SyncTodos DEF RequestLease
    <3>3. QED
      BY <2>2, <3>2, SameMoves, RowsKeep DEF RequestLease, Moves, DataInv
  <2>3. ASSUME NEW r \in Receipt, SkipRow(d, r) PROVE Moves
    <3>1. [sync[d] EXCEPT !.todo = sync[d].todo \ {r}].todo = sync[d].todo \ {r}
      BY DEF TypeOK, Sync
    <3>2. TodosShrink
      BY <2>3, <3>1, SyncTodos DEF SkipRow
    <3>3. QED
      BY <2>3, <3>2, SameMoves, RowsKeep DEF SkipRow, serverVars, Moves, DataInv
  <2>4. ASSUME NEW r \in Receipt, NEW n \in 1..Copies, SendRow(d, r, n) PROVE Moves
    <3>1. [sync[d] EXCEPT !.step = "sent", !.todo = sync[d].todo \ {r}, !.row = r, !.copy = n].todo
            = sync[d].todo \ {r}
      BY DEF TypeOK, Sync
    <3>2. TodosShrink
      BY <2>4, <3>1, SyncTodos DEF SendRow
    <3>3. Stamped(r)
      BY <2>4 DEF SendRow, DataInv, ReqInv
    <3>4. ReqMove
      BY <2>4, <3>3 DEF SendRow, ReqMove, TypeOK
    <3>5. QED
      BY <2>4, <3>2, <3>4, SameMoves, RowsKeep DEF SendRow, Moves, DataInv
  <2>5. CASE TillTimeout(d)
    BY <2>5, MarkRows, HeardTodos, SameMoves, RowsKeep DEF TillTimeout, serverVars, Moves, DataInv
  <2>6. CASE Unauthorized(d)
    <3>1. ReqMove
      BY <2>6 DEF Unauthorized, ReqMove, TypeOK
    <3>2. TodosShrink
      BY <2>6, SyncTodos DEF Unauthorized, IdleSync
    <3>3. QED
      BY <2>6, <3>1, <3>2, SameMoves, RowsKeep DEF Unauthorized, Moves, DataInv
  <2>7. CASE LeaseTimeout(d)
    <3>1. TodosShrink
      BY <2>7, SyncTodos DEF LeaseTimeout, IdleSync
    <3>2. QED
      BY <2>7, <3>1, SameMoves, RowsKeep DEF LeaseTimeout, serverVars, Moves, DataInv
  <2>8. QED
    BY <1>1, <2>1, <2>2, <2>3, <2>4, <2>5, <2>6, <2>7 DEF TillSync
<1>2. CASE LeaseStep(d)
  <2>1. TodosShrink
    BY <1>2, SyncTodos, SameMoves DEF LeaseStep, LeaseHolder, LeaseTake, LeaseList, IdleSync, SetSync
  <2>2. UNCHANGED <<row, stamp, sale, req>>
    BY <1>2 DEF LeaseStep, LeaseHolder, LeaseTake, LeaseList
  <2>3. QED
    BY <2>1, <2>2, SameMoves, RowsKeep DEF Moves, DataInv
<1>3. CASE TillCrash(d)
  <2>1. TodosShrink
    BY <1>3, SyncTodos DEF TillCrash, IdleSync
  <2>2. RowsMove
    BY <1>3 DEF TillCrash, RowsMove
  <2>3. QED
    BY <1>3, <2>1, <2>2, SameMoves, RowsKeep DEF TillCrash, serverVars, Moves, DataInv
<1>4. ASSUME NEW r \in Receipt, QueueSale(d, r) \/ CancelOffline(d, r) \/ DiscardDead(d, r)
      PROVE  Moves
  <2>1. RowsMove
    BY <1>4 DEF QueueSale, CancelOffline, DiscardDead, RowsMove, TypeOK
  <2>2. QED
    BY <1>4, <2>1, SameMoves, RowsKeep
       DEF QueueSale, CancelOffline, DiscardDead, serverVars, Moves, DataInv
<1>5. ASSUME NEW r \in Receipt, ProbeUnknown(d, r) PROVE Moves
  <2>1. RowsMove /\ SalesGrow
    BY <1>5 DEF ProbeUnknown, RowsMove, SalesGrow, TypeOK
  <2>2. QED
    BY <1>5, <2>1, SameMoves, RowsKeep DEF ProbeUnknown, Moves, DataInv
<1>6. ASSUME NEW r \in Receipt, NEW taken \in BOOLEAN, SaleUnknown(d, r, taken) PROVE Moves
  <2>1. row[r] = "none" /\ ~Stamped(r) /\ stamp[r] = [till |-> Nobody, code |-> Nobody]
    BY <1>6 DEF SaleUnknown, DataInv, StampInv
  <2>2. \A q \in Receipt : q # r => row'[q] = row[q] /\ sale'[q] = sale[q]
    BY <1>6 DEF SaleUnknown, TypeOK
  <2>3. SalesGrow
    BY <2>1, <2>2 DEF SalesGrow
  <2>4. UNCHANGED stamp /\ StampsQuiet /\ \A q \in Receipt : Stamped(q)' <=> Stamped(q)
    BY <1>6 DEF SaleUnknown, StampsQuiet, Stamped
  <2>5. StampInv'
    BY <2>1, <2>2, <2>4 DEF StampInv, DataInv
  <2>6. QED
    BY <1>6, <2>3, <2>4, <2>5, SameMoves DEF SaleUnknown, Moves
<1>7. ASSUME NEW r \in Receipt, NEW c \in Code, TakeStamp(d, r, c) PROVE Moves
  <2>1. row'[r] = "stamping" /\ stamp'[r].till = d /\ stamp'[r].code = c /\ ~Stamped(r)
    BY <1>7 DEF TakeStamp, TypeOK, DataInv, StampInv
  <2>2. \A q \in Receipt : q # r => row'[q] = row[q] /\ stamp'[q] = stamp[q]
    BY <1>7 DEF TakeStamp, TypeOK
  <2>3. StampsQuiet
    BY <2>1, <2>2 DEF StampsQuiet
  <2>4. \A q \in Receipt : q # r => (Stamped(q)' <=> Stamped(q))
    BY <2>2 DEF Stamped
  <2>5. UNCHANGED <<sync, sale, req>>
    BY <1>7 DEF TakeStamp, serverVars
  <2>6. StampInv'
    <3>1. Stamped(r)' /\ row'[r] = "stamping"
      BY <2>1 DEF Stamped
    <3>2. QED
      BY <2>2, <2>4, <2>5, <3>1 DEF StampInv, DataInv
  <2>7. QED
    BY <2>3, <2>5, <2>6, SameMoves DEF Moves
<1>8. QED
  BY <1>1, <1>2, <1>3, <1>4, <1>5, <1>6, <1>7 DEF TillNext

LEMMA AllMove == TypeOK /\ DataInv /\ [Next]_vars => Moves
<1>. SUFFICES ASSUME TypeOK, DataInv, [Next]_vars PROVE Moves
  OBVIOUS
<1>1. CASE UNCHANGED <<stamp, row, sale, sync, req>>
  BY <1>1, SameMoves, RowsKeep DEF Moves, DataInv
<1>2. CASE UNCHANGED vars
  BY <1>1, <1>2 DEF vars, tillVars, serverVars
<1>3. ASSUME \/ MoveFrees \/ MoveEnds \/ ForceSticks \/ ForceBurns \/ ForceEnds
             \/ \E d \in Device : RequestHandover(d) \/ Release(d) \/ Confirm(d) \/ ForceHandover(d)
      PROVE  Moves
  BY <1>1, <1>3 DEF MoveFrees, MoveEnds, ForceSticks, ForceBurns, ForceEnds, RequestHandover,
     Release, Confirm, ForceHandover, BeginMove, tillVars
<1>4. ASSUME \/ \E list \in SUBSET Code : RefillFetch(list)
             \/ RefillWrite \/ OpenServerSession \/ MarkReplaying
             \/ \E c \in Code : StampServer(c)
             \/ \E status \in {"closed", "stuck"} : EndReplay(status)
      PROVE  Moves
  BY <1>1, <1>4 DEF RefillFetch, RefillWrite, OpenServerSession, MarkReplaying, StampServer,
     EndReplay, tillVars
<1>5. QED
  BY <1>2, <1>3, <1>4, TillMoves, HandleMoves DEF Next, ServerNext

(* The stamp: a code leased to the till becomes this document's.                   *)
LEMMA StampFiles ==
  ASSUME TypeOK, DataInv, NEW r \in Receipt, NEW n \in 1..Copies, StampDevice(r, n)
  PROVE  DocInv' /\ CodeFiledOnce'
<1> DEFINE c == stamp[r].code
<1>1. Stamped(r) /\ c \in Code /\ c # Nobody /\ UNCHANGED stamp
  BY NobodyAssumption DEF StampDevice, At, DataInv, ReqInv, Stamped
<1>2. code[c].st = "leased" /\ code'[c] = [st |-> "used", by |-> r]
  BY <1>1 DEF StampDevice, LeasedTo, TypeOK
<1>3. \A e \in Code : e # c => code'[e] = code[e]
  BY <1>1 DEF StampDevice, TypeOK
<1>4. doc[r].code = Nobody
  BY <1>1, <1>2 DEF DataInv, DocInv, CodeFiledOnce
<1>5. doc'[r].code = c /\ \A q \in Receipt : q # r => doc'[q] = doc[q]
  BY DEF StampDevice, TypeOK, Doc
<1>6. ASSUME NEW q \in Receipt, doc[q].code = c PROVE FALSE
  <2>1. doc[q].code # Nobody
    BY <1>1, <1>6
  <2>2. code[doc[q].code] = [st |-> "used", by |-> q]
    BY <2>1 DEF DataInv, CodeFiledOnce
  <2>3. QED
    BY <1>2, <1>6, <2>2
<1>7. \A q \in Receipt : doc[q].code # Nobody => doc[q].code \in Code
  BY DEF TypeOK, Doc
<1>. HIDE DEF c
<1>8. DocInv'
  BY <1>1, <1>5 DEF DataInv, DocInv, Stamped, c
<1>9. CodeFiledOnce'
  <2>1. ASSUME NEW q \in Receipt, doc'[q].code # Nobody
        PROVE  code'[doc'[q].code] = [st |-> "used", by |-> q]
    BY <2>1, <1>2, <1>3, <1>5, <1>6, <1>7 DEF DataInv, CodeFiledOnce
  <2>2. ASSUME NEW e \in Code, NEW q \in Receipt, code'[e] = [st |-> "used", by |-> q]
        PROVE  doc'[q].code = e
    BY <2>2, <1>2, <1>3, <1>4, <1>5, NobodyAssumption DEF DataInv, CodeFiledOnce
  <2>3. QED
    BY <2>1, <2>2 DEF CodeFiledOnce
<1>10. QED
  BY <1>8, <1>9

LEMMA Inductive == Spec => []IInv
<1>1. Init => DataInv
  BY NobodyAssumption DEF Init, DataInv, StampInv, Stamped, ReqInv, At, IdleSync, DocInv, CodeFiledOnce
<1>2. IInv /\ [Next]_vars => IInv'
  <2>. SUFFICES ASSUME TypeOK, DataInv, [Next]_vars PROVE TypeOK' /\ DataInv'
    BY DEF IInv
  <2>1. Moves
    BY AllMove
  <2>2. ReqInv' /\ StampInv'
    BY <2>1, ReqKeeps DEF Moves
  <2>3. DocInv' /\ CodeFiledOnce'
    BY <2>1, Quiet, CodesKeep, StampFiles DEF Moves
  <2>4. QED
    BY <2>2, <2>3, TypeNext DEF DataInv
<1>3. QED
  BY <1>1, <1>2, TypeInit, PTL DEF Spec, IInv

----------------------------------------------------------------------------------
(* Theorems                                                                        *)

\* Every step of tills, requests, leases, handovers and refills keeps the types.
THEOREM TypeCorrect == Spec => []TypeOK
<1>1. IInv => TypeOK
  BY DEF IInv
<1>2. QED
  BY <1>1, Inductive, PTL

\* A tax-office code is on at most one document, and a document's code says so, for any
\* number of tills, receipts, codes and repeated requests (stampDeviceNext).
THEOREM CodeFiledOnceHolds == Spec => []CodeFiledOnce
<1>1. IInv => CodeFiledOnce
  BY DEF IInv, DataInv
<1>2. QED
  BY <1>1, Inductive, PTL

\* A printed receipt is still in the outbox, was given up by a person, or is a sale of
\* the server's (syncSale, completeDeviceStampedSale).
THEOREM NoReceiptLostHolds == Spec => []NoReceiptLost
<1>1. ASSUME IInv, NEW r \in Receipt, Printed(r)
      PROVE  row[r] \in Queued \union {"dead", "cancelled", "discarded"} \/ sale[r]
  <2>1. Stamped(r) /\ row[r] \in RowState
    BY <1>1 DEF IInv, DataInv, StampInv, Printed, TypeOK
  <2>2. QED
    BY <1>1, <2>1 DEF IInv, DataInv, StampInv, Printed, RowState
<1>2. IInv => NoReceiptLost
  BY <1>1 DEF NoReceiptLost
<1>3. QED
  BY <1>2, Inductive, PTL

\* A used or burned code never changes again: no lease, release, handover or refill, however
\* stale what it read, brings it back (pool.ts).
THEOREM SpentForGoodHolds == Spec => SpentForGood
<1>1. ASSUME TypeOK, [Next]_vars, NEW c \in Code, code[c].st \in {"used", "burned"}
      PROVE  code'[c] = code[c]
  <2>1. ASSUME NEW r \in Receipt, NEW n \in 1..Copies, StampDevice(r, n)
        PROVE  code'[c] = code[c]
    BY <1>1, <2>1 DEF StampDevice, LeasedTo, TypeOK
  <2>2. QED
    BY <1>1, <2>1, Quiet DEF CodesQuiet
<1>2. TypeOK /\ [Next]_vars =>
        \A c \in Code : code[c].st \in {"used", "burned"} => code'[c] = code[c]
  BY <1>1
<1>3. QED
  BY <1>2, TypeCorrect, PTL DEF Spec, SpentForGood

\* A document gets its place in a chain only while that chain is the open one, however late
\* the request that found it open (stampDeviceNext).
THEOREM ChainFrozenHolds == Spec => ChainFrozen
<1>1. ASSUME TypeOK, [Next]_vars, NEW r \in Receipt, doc'[r].code # doc[r].code
      PROVE  doc'[r].sid = session.id /\ session.status = "open"
  <2>1. PICK q \in Receipt, n \in 1..Copies : StampDevice(q, n)
    BY <1>1, Quiet DEF DocsQuiet
  <2>2. q = r
    BY <1>1, <2>1 DEF StampDevice, TypeOK
  <2>3. /\ session.status = "open" /\ doc \in [Receipt -> Doc]
        /\ doc' = [doc EXCEPT ![q].sid = session.id, ![q].code = stamp[q].code]
    BY <1>1, <2>1 DEF StampDevice, TypeOK
  <2>4. QED
    BY <2>2, <2>3 DEF Doc
<1>2. TypeOK /\ [Next]_vars =>
        \A r \in Receipt : doc'[r].code # doc[r].code => doc'[r].sid = session.id /\ session.status = "open"
  BY <1>1
<1>3. QED
  BY <1>2, TypeCorrect, PTL DEF Spec, ChainFrozen
==================================================================================
