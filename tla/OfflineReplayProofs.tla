--------------------------- MODULE OfflineReplayProofs ---------------------------
(* Theorems about OfflineReplay, for every number of sales, sessions, seconds,   *)
(* attempts, lost answers, failed statements and restarts.                       *)
EXTENDS OfflineReplay, WellFoundedInduction, TLAPS

----------------------------------------------------------------------------------
(* The invariant.                                                                *)

Busy == rep.step \in {"probe", "claim", "floor", "goOffline", "list", "send", "goOnline", "state"}
Claimed == rep.step \in {"floor", "goOffline", "list", "send", "goOnline", "state"}

\* Nothing is dated in the future.
Clock == /\ \A d \in Docs : doc[d].date <= now
         /\ \A s \in Sessions : session[s].onAt <= now

\* Attempts are counted of a session's documents only; only an online one is due.
Sound(e) ==
    /\ e.st \notin {"pending", "done", "abandoned"} => e.attempts = 0
    /\ e.st \in {"wire", "due", "claimed"} => e.mode = "online"
DocAt(d) == Sound(doc[d])

SessionAt(s) ==
    /\ session[s].sent \/ s \in office.off => session[s].status \notin {"none", "open"}
    /\ s \in Live => session[s].why # "refused"
    /\ session[s].why = "refused" => s \notin office.off
    /\ session[s].status = "closed" => DocsOf(s) = {}

OneLive == \A s, t \in Live : s = t

\* The office still has the register offline for whoever comes back to a session half sent.
Window(s) ==
    /\ s \in Live \/ (Busy /\ s = Sid) => (session[s].sent /\ DocsOf(s) # {} => office.offline)
    /\ s \in Live \/ (rep.step \in {"probe", "claim", "floor"} /\ s = Sid)
         => (s \in office.off /\ ~ session[s].sent => office.offline)

\* Whose session the cron works on, and that no other one has been touched.
Whose ==
    Busy => /\ Sid \in Sessions /\ session[Sid].status \notin {"none", "closed"} /\ session[Sid].why # "refused"
            /\ \A s \in Live : s # Sid => ~ session[s].sent /\ s \notin office.off

Stage ==
    /\ Claimed => session[Sid].status # "open"
    /\ At("floor") => ~ session[Sid].sent
    /\ At("goOffline") => Sid \notin office.off
    /\ rep.step \in {"list", "send"} => DocsOf(Sid) = {} \/ office.offline
    /\ rep.step \in {"list", "send", "goOnline", "state"} => (Sid \in Live => session[Sid].sent)
    /\ rep.step \in {"goOnline", "state"} => DocsOf(Sid) = {}

InTurn ==
    At("send") => \A d \in rep.todo :
        /\ doc[d].st \in {"pending", "done", "abandoned"} /\ doc[d].sid = Sid
        /\ \A e \in DocsOf(Sid) \ rep.todo : doc[d].date <= doc[e].date

\* One document is out at most, the first of the batch, and the office has the
\* register offline; whatever else waits has an attempt left, each interruption
\* having given one back at most.
Flight ==
    /\ rep.out # {} => At("send") /\ office.offline
    /\ rep.out \subseteq rep.todo /\ \A x, y \in rep.out : x = y
    /\ \A x \in rep.out, y \in rep.todo : doc[x].date <= doc[y].date
    /\ \A d \in Docs : Unsent(d) /\ d \notin rep.out => doc[d].attempts < MaxAttempts + upsets

Order ==
    /\ OneLive /\ Whose /\ Stage /\ InTurn
    /\ \A s \in Sessions : SessionAt(s) /\ Window(s)

IInv ==
    /\ TypeOK /\ Clock /\ Order /\ Flight
    /\ \A d \in Docs : DocAt(d)

----------------------------------------------------------------------------------
(* The floor is a time: a set of times up to the present one has a largest.      *)

LEMMA Largest ==
  ASSUME NEW n \in Nat, NEW S \in SUBSET (0..n), S # {}
  PROVE  Max(S) \in S
<1> DEFINE T == {n - m : m \in S}
<1>1. T \subseteq Nat /\ T # {}
  <2>1. \A m \in S : m \in 0..n /\ n - m \in Nat
    OBVIOUS
  <2>2. QED
    BY <2>1
<1>2. PICK k \in T : \A j \in T : ~ (<<j, k>> \in OpToRel(<, Nat))
  BY <1>1, NatLessThanWellFounded, WFMin
<1>3. \A j \in T : ~ (j < k)
  BY <1>1, <1>2 DEF OpToRel
<1>4. PICK x \in S : k = n - x
  BY <1>2
<1>5. \A y \in S : x >= y
  <2> TAKE y \in S
  <2>1. n - y \in T /\ n \in Nat /\ x \in 0..n /\ y \in 0..n
    OBVIOUS
  <2>2. ~ (n - y < n - x)
    BY <1>3, <1>4, <2>1
  <2>3. QED
    BY <2>1, <2>2
<1>6. QED
  BY <1>4, <1>5 DEF Max

LEMMA FloorIsATime ==
  ASSUME IInv
  PROVE  Floor \in Int
<1>1. now \in Nat /\ \A d \in Docs : doc[d].date \in Nat /\ doc[d].date <= now
  BY DEF IInv, TypeOK, Doc, Clock
<1>2. \A s \in Sessions : session[s].onAt \in Nat /\ session[s].onAt <= now
  BY DEF IInv, TypeOK, Session, Clock
<1>3. Marks \union {0} \in SUBSET (0..now)
  BY <1>1, <1>2 DEF Marks
<1>4. Max(Marks \union {0}) \in Marks \union {0}
  BY <1>1, <1>3, Largest
<1>5. QED
  BY <1>3, <1>4 DEF Floor

----------------------------------------------------------------------------------
(* Most steps are not the replay's.  What they may do to a document, to a        *)
(* session and to the cron's frame, and that the order stands whatever of it     *)
(* they do.                                                                      *)

\* A receipt is stamped only into an open session, stays as it was printed and
\* leaves the queue for good.
DocMoves(d) ==
    \/ doc'[d] = doc[d]
    \/ /\ doc[d].st \notin {"pending", "done", "abandoned"}
       /\ doc'[d].st = "pending" => session[doc'[d].sid].status = "open"
    \/ /\ doc[d].st \in {"pending", "done", "abandoned"} /\ doc'[d].st \in {"pending", "done", "abandoned"}
       /\ doc'[d].st = "pending" => doc[d].st = "pending"
       /\ doc'[d].sid = doc[d].sid /\ doc'[d].date = doc[d].date

Same(s) == /\ session'[s].status = session[s].status /\ session'[s].why = session[s].why
           /\ session'[s].sent = session[s].sent
Opens(s) == /\ Live = {} /\ session[s].status = "none"
            /\ session'[s].status = "open" /\ session'[s].why = "" /\ ~ session'[s].sent
Expires(s) == /\ s \in Live /\ session'[s].status = "stuck" /\ session'[s].why = "expired"
              /\ session'[s].sent = session[s].sent

\* The replay goes on where it was, or is not at work any more.
RepMoves ==
    \/ /\ rep'.step = rep.step /\ rep'.sid = rep.sid /\ rep'.todo \subseteq rep.todo
       /\ \A d \in rep.todo \ rep'.todo : ~ Unsent(d)'
    \/ rep'.step \in {"idle", "batch"}

Elsewhere ==
    /\ \A d \in Docs : DocMoves(d)
    /\ \A s \in Sessions : Same(s) \/ Opens(s) \/ Expires(s)
    /\ RepMoves
    /\ office'.offline = office.offline /\ office'.off = office.off

\* No receipt joins a session that is not open.
LEMMA QueueShrinks ==
  ASSUME \A d \in Docs : DocMoves(d), NEW s \in Sessions, session[s].status # "open"
  PROVE  DocsOf(s)' \subseteq DocsOf(s) /\ \A d \in DocsOf(s)' : doc'[d].date = doc[d].date
<1> SUFFICES ASSUME NEW d \in DocsOf(s)'
             PROVE  d \in DocsOf(s) /\ doc'[d].date = doc[d].date
  OBVIOUS
<1>1. d \in Docs /\ doc'[d].sid = s /\ doc'[d].st = "pending"
  BY DEF DocsOf, Unsent
<1>2. doc[d].st = "pending" /\ doc[d].sid = s /\ doc'[d].date = doc[d].date
  BY <1>1 DEF DocMoves
<1>3. QED
  BY <1>1, <1>2 DEF DocsOf, Unsent

LEMMA ElsewhereKeepsOrder ==
  ASSUME IInv, Elsewhere, TypeOK', OneLive'
  PROVE  Order'
<1>1. \A s \in Sessions : Same(s) \/ Opens(s) \/ Expires(s)
  BY DEF Elsewhere
<1>2. office'.offline = office.offline /\ office'.off = office.off
  BY DEF Elsewhere
<1>3. \A s \in Sessions : SessionAt(s) /\ Window(s)
  BY DEF IInv, Order
<1>4. Live' \subseteq Sessions /\ \A s \in Live' : (s \in Live /\ Same(s)) \/ Opens(s)
  BY <1>1 DEF Live, Same, Opens, Expires
<1>5. \A s \in Sessions : Opens(s) => s \notin office.off
  BY <1>3 DEF SessionAt, Opens
<1>6. \A s \in Sessions : session[s].status # "open" => DocsOf(s)' \subseteq DocsOf(s)
  BY QueueShrinks DEF Elsewhere
<1>7. Busy' => Busy /\ rep'.step = rep.step /\ rep'.sid = rep.sid
  BY DEF Elsewhere, RepMoves, Busy
<1>8. Busy' => Sid \in Sessions /\ session[Sid].status \notin {"none", "closed"} /\ ~ Opens(Sid)
  BY <1>7 DEF IInv, Order, Whose, Opens
<1>9. Whose'
  <2> SUFFICES ASSUME Busy'
               PROVE  /\ Sid' \in Sessions /\ session'[Sid'].status \notin {"none", "closed"} /\ session'[Sid'].why # "refused"
                      /\ \A s \in Live' : s # Sid' => ~ session'[s].sent /\ s \notin office'.off
    BY DEF Whose
  <2>1. Busy /\ Sid' = Sid
    BY <1>7 DEF Sid
  <2>2. session'[Sid].status \notin {"none", "closed"} /\ session'[Sid].why # "refused"
    BY <1>1, <1>8, <2>1 DEF IInv, Order, Whose, Same, Expires
  <2>3. \A s \in Live' : s # Sid => ~ session'[s].sent /\ s \notin office'.off
    BY <1>2, <1>4, <1>5, <2>1 DEF IInv, Order, Whose, Same, Opens
  <2>4. QED
    BY <1>8, <2>1, <2>2, <2>3
<1>10. Stage'
  <2>1. CASE ~ Busy'
    BY <2>1 DEF Stage, Claimed, Busy, At
  <2>2. CASE Busy'
    <3>1. PICK k \in Sessions : k = Sid
      BY <1>8, <2>2
    <3>2. Sid' = k /\ rep'.step = rep.step /\ (Same(k) \/ Expires(k))
      BY <1>1, <1>7, <1>8, <2>2, <3>1 DEF Sid
    <3>3. Claimed' => Claimed /\ session[k].status # "open" /\ session'[k].status # "open"
      BY <3>1, <3>2 DEF Claimed, IInv, Order, Stage, Same, Expires
    <3>4. At("floor")' => ~ session'[k].sent
      BY <3>1, <3>2 DEF At, IInv, Order, Stage, Same, Expires
    <3>5. At("goOffline")' => k \notin office'.off
      BY <1>2, <3>1, <3>2 DEF At, IInv, Order, Stage
    <3>6. Claimed' => DocsOf(k)' \subseteq DocsOf(k)
      BY <1>6, <3>3
    <3>7. rep'.step \in {"list", "send"} => DocsOf(k)' = {} \/ office'.offline
      BY <1>2, <3>1, <3>2, <3>6 DEF IInv, Order, Stage, Claimed
    <3>8. rep'.step \in {"list", "send", "goOnline", "state"} => (k \in Live' => session'[k].sent)
      BY <1>4, <1>8, <2>2, <3>1, <3>2 DEF IInv, Order, Stage, Same
    <3>9. rep'.step \in {"goOnline", "state"} => DocsOf(k)' = {}
      BY <3>1, <3>2, <3>6 DEF IInv, Order, Stage, Claimed
    <3>10. QED
      BY <3>2, <3>3, <3>4, <3>5, <3>7, <3>8, <3>9 DEF Stage, DocsOf, Unsent
  <2>3. QED
    BY <2>1, <2>2
<1>11. InTurn'
  <2> SUFFICES ASSUME At("send")', NEW d \in rep'.todo
               PROVE  /\ doc'[d].st \in {"pending", "done", "abandoned"} /\ doc'[d].sid = Sid'
                      /\ \A e \in DocsOf(Sid)' \ rep'.todo : doc'[d].date <= doc'[e].date
    BY DEF InTurn
  <2>1. /\ At("send") /\ Sid' = Sid /\ d \in rep.todo /\ d \in Docs
        /\ \A e \in rep.todo \ rep'.todo : ~ Unsent(e)'
    BY DEF Elsewhere, RepMoves, At, Sid, IInv, TypeOK
  <2>2. PICK k \in Sessions : k = Sid /\ session[k].status # "open"
    BY <2>1 DEF At, IInv, Order, Whose, Stage, Busy, Claimed
  <2>3. doc[d].st \in {"pending", "done", "abandoned"} /\ doc[d].sid = k
        /\ \A e \in DocsOf(k) \ rep.todo : doc[d].date <= doc[e].date
    BY <2>1, <2>2 DEF IInv, Order, InTurn
  <2>4. DocsOf(k)' \subseteq DocsOf(k) /\ \A e \in DocsOf(k)' : doc'[e].date = doc[e].date /\ Unsent(e)'
    BY <2>2, QueueShrinks DEF Elsewhere, DocsOf
  <2>5. doc'[d].st \in {"pending", "done", "abandoned"} /\ doc'[d].sid = k /\ doc'[d].date = doc[d].date
    BY <2>1, <2>3 DEF Elsewhere, DocMoves
  <2>6. \A e \in DocsOf(k)' \ rep'.todo : doc'[d].date <= doc'[e].date
    BY <2>1, <2>3, <2>4, <2>5
  <2>7. QED
    BY <2>1, <2>2, <2>5, <2>6 DEF DocsOf, Unsent
<1>12. ASSUME NEW s \in Sessions
       PROVE  SessionAt(s)' /\ Window(s)'
  <2>1. Same(s) \/ Opens(s) \/ Expires(s)
    BY <1>1
  <2>2. session[s].status # "open" => DocsOf(s)' \subseteq DocsOf(s)
    BY <1>6
  <2>3. s \in Live' => (s \in Live /\ Same(s)) \/ Opens(s)
    BY <1>4
  <2>4. SessionAt(s) /\ Window(s) /\ (Opens(s) => s \notin office.off)
    BY <1>3, <1>5
  <2>5. SessionAt(s)'
    <3>1. session'[s].sent \/ s \in office'.off => session'[s].status \notin {"none", "open"}
      BY <1>2, <2>1, <2>4 DEF SessionAt, Same, Opens, Expires
    <3>2. s \in Live' => session'[s].why # "refused"
      BY <2>3, <2>4 DEF SessionAt, Same, Opens
    <3>3. session'[s].why = "refused" => s \notin office'.off
      BY <1>2, <2>1, <2>4 DEF SessionAt, Same, Opens, Expires
    <3>4. session'[s].status = "closed" => DocsOf(s)' = {}
      BY <2>1, <2>2, <2>4 DEF SessionAt, Same, Opens, Expires
    <3>5. QED
      BY <3>1, <3>2, <3>3, <3>4 DEF SessionAt
  <2>6. Busy' /\ s = Sid' => Busy /\ s = Sid /\ rep'.step = rep.step /\ ~ Opens(s)
    BY <1>7, <1>8 DEF Sid
  <2>7. s \in Live' \/ (Busy' /\ s = Sid')
          => (session'[s].sent => session'[s].sent = session[s].sent /\ ~ Opens(s))
    BY <2>1, <2>3, <2>6 DEF Same, Opens, Expires
  <2>8. s \in Live' \/ (Busy' /\ s = Sid') => (session'[s].sent /\ DocsOf(s)' # {} => office'.offline)
    BY <1>2, <2>2, <2>3, <2>4, <2>6, <2>7 DEF Window, SessionAt
  <2>9. s \in Live' \/ (rep'.step \in {"probe", "claim", "floor"} /\ s = Sid')
          => (s \in office'.off /\ ~ session'[s].sent => office'.offline)
    <3>1. s \in Live' => s \in Live \/ s \notin office'.off
      BY <1>2, <2>3, <2>4
    <3>2. rep'.step \in {"probe", "claim", "floor"} /\ s = Sid'
            => rep.step \in {"probe", "claim", "floor"} /\ s = Sid
      BY <2>6 DEF Busy
    <3>3. s \in Live' \/ (Busy' /\ s = Sid') => Opens(s) \/ session'[s].sent = session[s].sent
      BY <2>1, <2>3, <2>6 DEF Same, Opens, Expires
    <3>4. QED
      BY <1>2, <2>4, <2>6, <3>1, <3>2, <3>3 DEF Window, Busy
  <2>10. QED
    BY <2>5, <2>8, <2>9 DEF Window, Busy
<1>13. QED
  BY <1>9, <1>10, <1>11, <1>12 DEF Order

----------------------------------------------------------------------------------
(* The steps of a sale, and those of the replay that move one document.          *)

OfficeType == [last : Int, offline : BOOLEAN, has : SUBSET Docs, off : SUBSET Sessions]
RepType == [step : Step, sid : Nat, todo : SUBSET Docs, out : SUBSET Docs]
SameOffline == office' \in OfficeType /\ office'.offline = office.offline /\ office'.off = office.off

\* What is out stays out, or has its outcome recorded, or has been interrupted.
Lands == \/ UNCHANGED rep
         \/ rep'.out = {} /\ \A d \in rep.out : Unsent(d)' => upsets' > upsets
RestType == rep' \in RepType /\ empty' \in BOOLEAN /\ upsets' \in upsets..MaxUpsets /\ Lands

\* e is what the document d becomes, no attempt being counted.
Becomes(d, e) == /\ e \in Doc /\ e.date <= now /\ Sound(e) /\ e.attempts = doc[d].attempts
                 /\ doc' = [doc EXCEPT ![d] = e]

LEMMA Typed ==
  ASSUME IInv
  PROVE  /\ office \in OfficeType /\ rep \in RepType /\ empty \in BOOLEAN
         /\ now \in Nat /\ session \in [Sessions -> Session]
         /\ doc \in [Docs -> Doc]
         /\ \A d \in Docs : doc[d].date <= now /\ doc[d].date \in Nat /\ Sound(doc[d])
         /\ MaxAttempts \in Nat \ {0} /\ MaxUpsets \in Nat
         /\ upsets \in 0..MaxUpsets /\ upsets \in upsets..MaxUpsets
<1>1. /\ office \in OfficeType /\ rep \in RepType /\ empty \in BOOLEAN
      /\ now \in Nat /\ session \in [Sessions -> Session] /\ doc \in [Docs -> Doc]
  BY DEF IInv, TypeOK, OfficeType, RepType
<1>2. \A d \in Docs : doc[d].date <= now /\ doc[d].date \in Nat /\ Sound(doc[d])
  BY <1>1 DEF IInv, Clock, DocAt, Doc
<1>3. MaxAttempts \in Nat \ {0} /\ MaxUpsets \in Nat
  BY ReplayAssumption
<1>4. upsets \in 0..MaxUpsets /\ upsets \in upsets..MaxUpsets
  BY <1>3 DEF IInv, TypeOK
<1>5. QED
  BY <1>1, <1>2, <1>3, <1>4

LEMMA Attempts ==
  ASSUME IInv, NEW d \in Docs
  PROVE  doc[d].attempts \in Nat /\ doc[d].attempts <= MaxAttempts + upsets
BY DEF IInv, TypeOK, Doc

\* Whatever moves without an attempt being counted, the bound on them stands.
LEMMA FlightKeeps ==
  ASSUME IInv, \A d \in Docs : DocMoves(d) /\ doc'[d].attempts = doc[d].attempts,
         RestType, office'.offline = office.offline
  PROVE  Flight' /\ \A d \in Docs : doc'[d].attempts <= MaxAttempts + upsets'
<1>1. upsets \in Nat /\ upsets' \in Nat /\ upsets <= upsets'
      /\ MaxAttempts \in Nat /\ MaxAttempts >= 1
  BY Typed DEF RestType, Lands
<1>2. rep.out \subseteq Docs /\ rep.todo \subseteq Docs
  BY Typed DEF RepType
<1>3. \A d \in Docs : doc'[d].attempts <= MaxAttempts + upsets'
  <2> TAKE d \in Docs
  <2>1. doc[d].attempts \in Nat /\ doc[d].attempts <= MaxAttempts + upsets
    BY Attempts
  <2>2. QED
    BY <1>1, <2>1
<1>4. \A d \in Docs : Unsent(d)' /\ d \notin rep'.out => doc'[d].attempts < MaxAttempts + upsets'
  <2> SUFFICES ASSUME NEW d \in Docs, Unsent(d)', d \notin rep'.out
               PROVE  doc[d].attempts < MaxAttempts + upsets'
    OBVIOUS
  <2>1. doc[d].attempts \in Nat /\ doc[d].attempts <= MaxAttempts + upsets
    BY Attempts
  <2>2. CASE ~ Unsent(d)
    <3>1. doc[d].st \notin {"pending", "done", "abandoned"}
      BY <2>2 DEF DocMoves, Unsent
    <3>2. doc[d].attempts = 0
      BY <3>1, Typed DEF Sound
    <3>3. doc[d].attempts < MaxAttempts
      BY <1>1, <3>2
    <3>4. QED
      BY <1>1, <2>1, <3>3
  <2>3. CASE Unsent(d) /\ d \notin rep.out
    BY <1>1, <2>1, <2>3 DEF IInv, Flight
  <2>4. CASE d \in rep.out
    <3>1. upsets' > upsets
      BY <2>4 DEF RestType, Lands
    <3>2. QED
      BY <1>1, <2>1, <3>1
  <2>5. QED
    BY <2>2, <2>3, <2>4
<1>5. CASE rep'.out = {}
  BY <1>4, <1>3, <1>5 DEF Flight
<1>6. CASE rep' = rep /\ rep.out # {}
  <2>1. At("send") /\ office.offline
    BY <1>6 DEF IInv, Flight
  <2>2. \A x \in rep.todo : doc'[x].date = doc[x].date
    BY <1>2, <2>1 DEF IInv, Order, InTurn, DocMoves
  <2>3. \A x \in rep'.out, y \in rep'.todo : doc'[x].date <= doc'[y].date
    BY <1>6, <2>2 DEF IInv, Flight
  <2>4. QED
    BY <1>3, <1>4, <1>6, <2>1, <2>3 DEF IInv, Flight, At
<1>7. QED
  BY <1>5, <1>6 DEF RestType, Lands

LEMMA BecomesKeepsDocs ==
  ASSUME IInv, NEW d \in Docs, NEW e, Becomes(d, e), now' = now
  PROVE  /\ doc' \in [Docs -> Doc] /\ \A x \in Docs : doc'[x].date <= now' /\ DocAt(x)'
         /\ doc'[d] = e /\ \A x \in Docs : x # d => doc'[x] = doc[x]
         /\ \A x \in Docs : doc'[x].attempts = doc[x].attempts
<1>1. doc \in [Docs -> Doc] /\ \A x \in Docs : doc[x].date <= now /\ Sound(doc[x])
  BY DEF IInv, TypeOK, Clock, DocAt
<1>2. doc' \in [Docs -> Doc] /\ doc'[d] = e /\ \A x \in Docs : x # d => doc'[x] = doc[x]
  BY <1>1 DEF Becomes
<1>3. \A x \in Docs : doc'[x].date <= now' /\ Sound(doc'[x])
  <2> TAKE x \in Docs
  <2>1. CASE x = d
    BY <1>2, <2>1 DEF Becomes
  <2>2. CASE x # d
    BY <1>1, <1>2, <2>2
  <2>3. QED
    BY <2>1, <2>2
<1>4. \A x \in Docs : doc'[x].attempts = doc[x].attempts
  BY <1>2 DEF Becomes
<1>5. QED
  BY <1>2, <1>3, <1>4 DEF DocAt, Sound

LEMMA OneDocMoves ==
  ASSUME IInv, NEW d \in Docs, NEW e, Becomes(d, e), DocMoves(d), RepMoves,
         SameOffline, RestType, UNCHANGED <<now, session>>
  PROVE  IInv'
<1>1. /\ doc' \in [Docs -> Doc] /\ \A x \in Docs : doc'[x].date <= now' /\ DocAt(x)'
      /\ \A x \in Docs : x # d => doc'[x] = doc[x]
      /\ \A x \in Docs : doc'[x].attempts = doc[x].attempts
  BY BecomesKeepsDocs
<1>2. \A x \in Docs : DocMoves(x)
  BY <1>1 DEF DocMoves
<1>3. Flight' /\ \A x \in Docs : doc'[x].attempts <= MaxAttempts + upsets'
  BY <1>1, <1>2, FlightKeeps DEF SameOffline
<1>4. upsets' \in 0..MaxUpsets
  BY Typed DEF RestType, Lands
<1>5. TypeOK'
  BY <1>1, <1>3, <1>4 DEF IInv, TypeOK, SameOffline, RestType, OfficeType, RepType
<1>6. Clock'
  BY <1>1 DEF IInv, Clock
<1>7. Elsewhere
  BY <1>2 DEF Elsewhere, Same, SameOffline
<1>8. OneLive'
  BY DEF IInv, Order, OneLive, Live
<1>9. QED
  BY <1>1, <1>5, <1>6, <1>7, <1>8, <1>3, ElsewhereKeepsOrder DEF IInv

LEMMA OnlineBeginsKeeps ==
  ASSUME IInv, NEW d \in Docs, OnlineBegins(d)
  PROVE  IInv'
<1>1. PICK e : e = [doc[d] EXCEPT !.st = "wire", !.mode = "online"]
  OBVIOUS
<1>2. doc[d] \in Doc /\ doc[d].st = "none" /\ doc[d].date <= now /\ Sound(doc[d])
  BY Typed DEF OnlineBegins
<1>3. e \in Doc /\ e.date = doc[d].date /\ e.st = "wire" /\ Sound(e) /\ e.attempts = doc[d].attempts
  BY <1>1, <1>2 DEF Doc, DocState, Sound
<1>4. doc' = [doc EXCEPT ![d] = e]
  BY <1>1, Typed DEF OnlineBegins
<1>5. Becomes(d, e) /\ DocMoves(d)
  BY <1>2, <1>3, <1>4, Typed DEF Becomes, DocMoves
<1>6. RepMoves /\ SameOffline /\ RestType /\ UNCHANGED <<now, session>>
  BY Typed DEF OnlineBegins, RepMoves, SameOffline, RestType, Lands
<1>7. QED
  BY <1>5, <1>6, OneDocMoves

\* The office takes a document.
LEMMA OfficeTakes ==
  ASSUME IInv, NEW d \in Docs, NEW n \in Int,
         office' = [office EXCEPT !.last = n, !.has = @ \union {d}]
  PROVE  SameOffline
<1>1. office \in OfficeType
  BY Typed
<1>2. office'.offline = office.offline /\ office'.off = office.off
      /\ office'.last = n /\ office'.has = office.has \union {d}
  BY <1>1 DEF OfficeType
<1>3. office' \in OfficeType
  BY <1>1 DEF OfficeType
<1>4. QED
  BY <1>2, <1>3 DEF SameOffline

LEMMA States ==
  "done" \in DocState /\ "due" \in DocState /\ "pending" \in DocState
  /\ "voided" \in DocState /\ "printed" \in DocState /\ "parked" \in DocState
  /\ "abandoned" \in DocState
BY DEF DocState

LEMMA OnlineArrivesKeeps ==
  ASSUME IInv, NEW d \in Docs, OnlineArrives(d)
  PROVE  IInv'
<1>1. PICK e : e = [doc[d] EXCEPT !.st = "done", !.date = IF d \in office.has THEN doc[d].date ELSE now]
  OBVIOUS
<1>2. doc[d] \in Doc /\ doc[d].st \in {"wire", "claimed"} /\ doc[d].date <= now
      /\ Sound(doc[d]) /\ now \in Nat /\ doc[d].date \in Nat
  BY Typed DEF OnlineArrives
<1>3. e \in Doc /\ e.date <= now /\ e.st = "done"
      /\ e.mode \in {doc[d].mode, "till"} /\ e.attempts = doc[d].attempts
  <2>1. e \in Doc
    BY <1>1, <1>2, States DEF Doc
  <2>2. e.date <= now /\ e.st = "done"
        /\ e.mode \in {doc[d].mode, "till"} /\ e.attempts = doc[d].attempts
    BY <1>1, <1>2 DEF Doc
  <2>3. QED
    BY <2>1, <2>2
<1>4. Sound(e)
  BY <1>1, <1>2, <1>3 DEF Sound
<1>5. doc' = [doc EXCEPT ![d] = e]
  BY <1>1, <1>2, Typed DEF OnlineArrives
<1>6. Becomes(d, e) /\ DocMoves(d)
  BY <1>2, <1>3, <1>4, <1>5, Typed DEF Becomes, DocMoves, OnlineArrives
<1>7. RepMoves /\ SameOffline /\ RestType /\ UNCHANGED <<now, session>>
  <2>1. SameOffline
    <3>1. ASSUME office' = [office EXCEPT !.last = now, !.has = @ \union {d}]
          PROVE  SameOffline
      <4>1. now \in Int
        BY <1>2
      <4>2. QED
        BY <3>1, <4>1, OfficeTakes
    <3>2. UNCHANGED office => SameOffline
      BY Typed DEF SameOffline
    <3>3. QED
      BY <3>1, <3>2 DEF OnlineArrives, Register
  <2>2. RepMoves /\ RestType /\ UNCHANGED <<now, session>>
    BY Typed DEF OnlineArrives, RepMoves, RestType, Lands
  <2>3. QED
    BY <2>1, <2>2
<1>8. QED
  BY <1>6, <1>7, OneDocMoves

LEMMA OnlineLostKeeps ==
  ASSUME IInv, NEW d \in Docs, OnlineLost(d)
  PROVE  IInv'
<1>1. PICK e : e = [doc[d] EXCEPT !.st = "due", !.date = now]
  OBVIOUS
<1>2. doc[d] \in Doc /\ doc[d].st \in {"wire", "claimed"} /\ doc[d].date <= now
      /\ Sound(doc[d]) /\ now \in Nat /\ doc[d].date \in Nat
  BY Typed DEF OnlineLost
<1>3. e \in Doc /\ e.date <= now /\ e.st = "due"
      /\ e.mode \in {doc[d].mode, "till"} /\ e.attempts = doc[d].attempts
  <2>1. e \in Doc
    BY <1>1, <1>2, States DEF Doc
  <2>2. e.date <= now /\ e.st = "due"
        /\ e.mode \in {doc[d].mode, "till"} /\ e.attempts = doc[d].attempts
    BY <1>1, <1>2 DEF Doc
  <2>3. QED
    BY <2>1, <2>2
<1>4. Sound(e)
  BY <1>1, <1>2, <1>3 DEF Sound
<1>5. doc' = [doc EXCEPT ![d] = e]
  BY <1>1, <1>2, Typed DEF OnlineLost
<1>6. Becomes(d, e) /\ DocMoves(d)
  BY <1>2, <1>3, <1>4, <1>5, Typed DEF Becomes, DocMoves, OnlineLost
<1>7. RepMoves /\ SameOffline /\ RestType /\ UNCHANGED <<now, session>>
  <2>1. SameOffline
    <3>1. ASSUME office' = [office EXCEPT !.last = now, !.has = @ \union {d}]
          PROVE  SameOffline
      <4>1. now \in Int
        BY <1>2
      <4>2. QED
        BY <3>1, <4>1, OfficeTakes
    <3>2. UNCHANGED office => SameOffline
      BY Typed DEF SameOffline
    <3>3. QED
      BY <3>1, <3>2 DEF OnlineLost, Register
  <2>2. RepMoves /\ RestType /\ UNCHANGED <<now, session>>
    BY Typed DEF OnlineLost, RepMoves, RestType, Lands, Upset
  <2>3. QED
    BY <2>1, <2>2
<1>8. QED
  BY <1>6, <1>7, OneDocMoves

LEMMA OnlineFailsKeeps ==
  ASSUME IInv, NEW d \in Docs, OnlineFails(d)
  PROVE  IInv'
<1>1. PICK e : e = [doc[d] EXCEPT !.st = "due"]
  OBVIOUS
<1>2. doc[d] \in Doc /\ doc[d].st \in {"wire", "claimed"} /\ doc[d].date <= now
      /\ Sound(doc[d]) /\ now \in Nat /\ doc[d].date \in Nat
  BY Typed DEF OnlineFails
<1>3. e \in Doc /\ e.date <= now /\ e.st = "due"
      /\ e.mode \in {doc[d].mode, "till"} /\ e.attempts = doc[d].attempts
  <2>1. e \in Doc
    BY <1>1, <1>2, States DEF Doc
  <2>2. e.date <= now /\ e.st = "due"
        /\ e.mode \in {doc[d].mode, "till"} /\ e.attempts = doc[d].attempts
    BY <1>1, <1>2 DEF Doc
  <2>3. QED
    BY <2>1, <2>2
<1>4. Sound(e)
  BY <1>1, <1>2, <1>3 DEF Sound
<1>5. doc' = [doc EXCEPT ![d] = e]
  BY <1>1, <1>2, Typed DEF OnlineFails
<1>6. Becomes(d, e) /\ DocMoves(d)
  BY <1>2, <1>3, <1>4, <1>5, Typed DEF Becomes, DocMoves, OnlineFails
<1>7. RepMoves /\ SameOffline /\ RestType /\ UNCHANGED <<now, session>>
  <2>1. SameOffline
    BY Typed DEF OnlineFails, SameOffline
  <2>2. RepMoves /\ RestType /\ UNCHANGED <<now, session>>
    BY Typed DEF OnlineFails, RepMoves, RestType, Lands
  <2>3. QED
    BY <2>1, <2>2
<1>8. QED
  BY <1>6, <1>7, OneDocMoves

LEMMA TillPrintsKeeps ==
  ASSUME IInv, NEW d \in Docs, TillPrints(d)
  PROVE  IInv'
<1>1. PICK e : e = [doc[d] EXCEPT !.st = "printed", !.mode = "till", !.date = now]
  OBVIOUS
<1>2. doc[d] \in Doc /\ doc[d].st = "none" /\ doc[d].date <= now
      /\ Sound(doc[d]) /\ now \in Nat /\ doc[d].date \in Nat
  BY Typed DEF TillPrints
<1>3. e \in Doc /\ e.date <= now /\ e.st = "printed"
      /\ e.mode \in {doc[d].mode, "till"} /\ e.attempts = doc[d].attempts
  <2>1. e \in Doc
    BY <1>1, <1>2, States DEF Doc
  <2>2. e.date <= now /\ e.st = "printed"
        /\ e.mode \in {doc[d].mode, "till"} /\ e.attempts = doc[d].attempts
    BY <1>1, <1>2 DEF Doc
  <2>3. QED
    BY <2>1, <2>2
<1>4. Sound(e)
  BY <1>1, <1>2, <1>3 DEF Sound
<1>5. doc' = [doc EXCEPT ![d] = e]
  BY <1>1, <1>2, Typed DEF TillPrints
<1>6. Becomes(d, e) /\ DocMoves(d)
  BY <1>2, <1>3, <1>4, <1>5, Typed DEF Becomes, DocMoves, TillPrints
<1>7. RepMoves /\ SameOffline /\ RestType /\ UNCHANGED <<now, session>>
  <2>1. SameOffline
    BY Typed DEF TillPrints, SameOffline
  <2>2. RepMoves /\ RestType /\ UNCHANGED <<now, session>>
    BY Typed DEF TillPrints, RepMoves, RestType, Lands
  <2>3. QED
    BY <2>1, <2>2
<1>8. QED
  BY <1>6, <1>7, OneDocMoves

LEMMA StampServerKeeps ==
  ASSUME IInv, NEW d \in Docs, StampServer(d)
  PROVE  IInv'
<1>1. PICK e : e = [doc[d] EXCEPT !.st = IF session[doc[d].sid].status = "open" THEN "pending" ELSE "voided",
                                !.date = IF session[doc[d].sid].status = "open" THEN now ELSE doc[d].date]
  OBVIOUS
<1>2. doc[d] \in Doc /\ doc[d].st = "stamping" /\ doc[d].date <= now
      /\ Sound(doc[d]) /\ now \in Nat /\ doc[d].date \in Nat
  BY Typed DEF StampServer
<1>3. e \in Doc /\ e.date <= now /\ e.sid = doc[d].sid /\ (e.st = "pending" => session[e.sid].status = "open")
      /\ e.mode \in {doc[d].mode, "till"} /\ e.attempts = doc[d].attempts
  <2>1. e \in Doc
    BY <1>1, <1>2, States DEF Doc
  <2>2. e.date <= now /\ e.sid = doc[d].sid /\ (e.st = "pending" => session[e.sid].status = "open")
        /\ e.mode \in {doc[d].mode, "till"} /\ e.attempts = doc[d].attempts
    BY <1>1, <1>2 DEF Doc
  <2>3. QED
    BY <2>1, <2>2
<1>4. Sound(e)
  BY <1>1, <1>2, <1>3 DEF Sound
<1>5. doc' = [doc EXCEPT ![d] = e]
  BY <1>1, <1>2, Typed DEF StampServer
<1>6. Becomes(d, e) /\ DocMoves(d)
  BY <1>2, <1>3, <1>4, <1>5, Typed DEF Becomes, DocMoves, StampServer
<1>7. RepMoves /\ SameOffline /\ RestType /\ UNCHANGED <<now, session>>
  <2>1. SameOffline
    BY Typed DEF StampServer, SameOffline
  <2>2. RepMoves /\ RestType /\ UNCHANGED <<now, session>>
    BY Typed DEF StampServer, RepMoves, RestType, Lands
  <2>3. QED
    BY <2>1, <2>2
<1>8. QED
  BY <1>6, <1>7, OneDocMoves

LEMMA StampDeviceKeeps ==
  ASSUME IInv, NEW d \in Docs, StampDevice(d)
  PROVE  IInv'
<1>1. PICK e : e = [doc[d] EXCEPT !.st = IF session[doc[d].sid].status = "open" THEN "pending" ELSE "parked"]
  OBVIOUS
<1>2. doc[d] \in Doc /\ doc[d].st = "joined" /\ doc[d].date <= now
      /\ Sound(doc[d]) /\ now \in Nat /\ doc[d].date \in Nat
  BY Typed DEF StampDevice
<1>3. e \in Doc /\ e.date <= now /\ e.sid = doc[d].sid /\ (e.st = "pending" => session[e.sid].status = "open")
      /\ e.mode \in {doc[d].mode, "till"} /\ e.attempts = doc[d].attempts
  <2>1. e \in Doc
    BY <1>1, <1>2, States DEF Doc
  <2>2. e.date <= now /\ e.sid = doc[d].sid /\ (e.st = "pending" => session[e.sid].status = "open")
        /\ e.mode \in {doc[d].mode, "till"} /\ e.attempts = doc[d].attempts
    BY <1>1, <1>2 DEF Doc
  <2>3. QED
    BY <2>1, <2>2
<1>4. Sound(e)
  BY <1>1, <1>2, <1>3 DEF Sound
<1>5. doc' = [doc EXCEPT ![d] = e]
  BY <1>1, <1>2, Typed DEF StampDevice
<1>6. Becomes(d, e) /\ DocMoves(d)
  BY <1>2, <1>3, <1>4, <1>5, Typed DEF Becomes, DocMoves, StampDevice
<1>7. RepMoves /\ SameOffline /\ RestType /\ UNCHANGED <<now, session>>
  <2>1. SameOffline
    BY Typed DEF StampDevice, SameOffline
  <2>2. RepMoves /\ RestType /\ UNCHANGED <<now, session>>
    BY Typed DEF StampDevice, RepMoves, RestType, Lands
  <2>3. QED
    BY <2>1, <2>2
<1>8. QED
  BY <1>6, <1>7, OneDocMoves

LEMMA SweepStaleKeeps ==
  ASSUME IInv, NEW d \in Docs, SweepStale(d)
  PROVE  IInv'
<1>1. PICK e : e = [doc[d] EXCEPT !.st = "abandoned"]
  OBVIOUS
<1>2. doc[d] \in Doc /\ doc[d].st = "pending" /\ doc[d].date <= now
      /\ Sound(doc[d]) /\ now \in Nat /\ doc[d].date \in Nat
  BY Typed DEF SweepStale
<1>3. e \in Doc /\ e.date = doc[d].date /\ e.sid = doc[d].sid /\ e.st = "abandoned"
      /\ e.mode \in {doc[d].mode, "till"} /\ e.attempts = doc[d].attempts
  <2>1. e \in Doc
    BY <1>1, <1>2, States DEF Doc
  <2>2. e.date = doc[d].date /\ e.sid = doc[d].sid /\ e.st = "abandoned"
        /\ e.mode \in {doc[d].mode, "till"} /\ e.attempts = doc[d].attempts
    BY <1>1, <1>2 DEF Doc
  <2>3. QED
    BY <2>1, <2>2
<1>4. Sound(e)
  BY <1>1, <1>2, <1>3 DEF Sound
<1>5. doc' = [doc EXCEPT ![d] = e]
  BY <1>1, <1>2, Typed DEF SweepStale
<1>6. Becomes(d, e) /\ DocMoves(d)
  BY <1>2, <1>3, <1>4, <1>5, Typed DEF Becomes, DocMoves, SweepStale
<1>7. RepMoves /\ SameOffline /\ RestType /\ UNCHANGED <<now, session>>
  <2>1. SameOffline
    BY Typed DEF SweepStale, SameOffline
  <2>2. RepMoves /\ RestType /\ UNCHANGED <<now, session>>
    BY Typed DEF SweepStale, RepMoves, RestType, Lands
  <2>3. QED
    BY <2>1, <2>2
<1>8. QED
  BY <1>6, <1>7, OneDocMoves

----------------------------------------------------------------------------------
(* The steps of a session that are not the replay's.                             *)

SessionsFine == session' \in [Sessions -> Session] /\ \A s \in Sessions : session'[s].onAt <= now

LEMMA TypedSessions ==
  ASSUME IInv
  PROVE  /\ session \in [Sessions -> Session]
         /\ \A s \in Sessions : session[s] \in Session /\ session[s].onAt \in Nat /\ session[s].onAt <= now
BY DEF IInv, TypeOK, Clock, Session

\* One session at most becomes live, and then there was none.
LEMMA SessionMoves ==
  ASSUME IInv, SessionsFine, now' = now, UNCHANGED office, RestType, RepMoves,
         doc' \in [Docs -> Doc],
         \A d \in Docs : /\ doc'[d].date <= now /\ DocAt(d)' /\ DocMoves(d)
                        /\ doc'[d].attempts = doc[d].attempts,
         \A s \in Sessions : Same(s) \/ Opens(s) \/ Expires(s),
         \A s, t \in Sessions : Opens(s) /\ Opens(t) => s = t
  PROVE  IInv'
<1>1. Flight' /\ \A d \in Docs : doc'[d].attempts <= MaxAttempts + upsets'
  BY FlightKeeps
<1>2. upsets' \in 0..MaxUpsets
  BY Typed DEF RestType, Lands
<1>3. TypeOK'
  BY <1>1, <1>2, Typed DEF TypeOK, SessionsFine, RestType, OfficeType, RepType
<1>4. Clock'
  BY DEF Clock, SessionsFine
<1>5. Elsewhere
  BY DEF Elsewhere
<1>6. Live' \subseteq Sessions /\ \A s \in Live' : s \in Live \/ Opens(s)
  BY DEF Live, Same, Opens, Expires
<1>7. OneLive'
  BY <1>6 DEF IInv, Order, OneLive, Opens
<1>8. QED
  BY <1>1, <1>3, <1>4, <1>5, <1>7, ElsewhereKeepsOrder DEF IInv

LEMMA DocsStay ==
  ASSUME IInv, UNCHANGED <<doc, now>>
  PROVE  /\ doc' \in [Docs -> Doc]
         /\ \A d \in Docs : /\ doc'[d].date <= now /\ DocAt(d)' /\ DocMoves(d)
                           /\ doc'[d].attempts = doc[d].attempts
BY Typed DEF DocAt, DocMoves, Sound

LEMMA TickKeeps ==
  ASSUME IInv, Tick
  PROVE  IInv'
<1>1. TypeOK' /\ now' \in Nat /\ now < now'
  BY Typed DEF IInv, TypeOK, Tick
<1>2. Clock'
  BY <1>1, Typed, TypedSessions DEF Tick, Clock
<1>3. \A d \in Docs : DocAt(d)' /\ DocMoves(d) /\ doc'[d].attempts = doc[d].attempts
  BY DEF IInv, Tick, DocAt, DocMoves, Sound
<1>4. Elsewhere
  BY <1>3 DEF Tick, Elsewhere, Same, RepMoves
<1>5. OneLive'
  BY DEF Tick, IInv, Order, OneLive, Live
<1>6. Flight'
  BY <1>3, FlightKeeps, Typed DEF Tick, RestType, Lands
<1>7. QED
  BY <1>1, <1>2, <1>3, <1>4, <1>5, <1>6, ElsewhereKeepsOrder DEF IInv

LEMMA ReportEmptyKeeps ==
  ASSUME IInv, ReportEmpty
  PROVE  IInv'
BY SessionMoves, DocsStay, Typed, TypedSessions DEF ReportEmpty, SessionsFine, RestType, Lands, RepMoves, Same, Opens

\* Between the passes, and up to the batch, nothing is out.
LEMMA NothingOut ==
  ASSUME IInv, ~ At("send")
  PROVE  rep.out = {}
BY DEF IInv, Flight

LEMMA IdleKeeps ==
  ASSUME IInv, CallFails \/ BatchEnds
  PROVE  IInv'
<1>1. rep' = Resting /\ UNCHANGED <<now, doc, session, office, empty, upsets>> /\ ~ At("send")
  BY DEF CallFails, BatchEnds, Rest, At
<1>2. Resting \in RepType /\ Resting.step = "idle" /\ Resting.out = {}
  BY DEF Resting, RepType, Step
<1>3. RestType /\ RepMoves
  BY <1>1, <1>2, NothingOut, Typed DEF RestType, Lands, RepMoves
<1>4. SessionsFine /\ \A s \in Sessions : Same(s) /\ ~ Opens(s)
  BY <1>1, TypedSessions DEF SessionsFine, Same, Opens
<1>5. QED
  BY <1>1, <1>3, <1>4, SessionMoves, DocsStay

LEMMA ReplayThrowsKeeps ==
  ASSUME IInv, ReplayThrows
  PROVE  IInv'
<1>1. /\ rep' = Resting /\ upsets < MaxUpsets /\ upsets' = upsets + 1
      /\ UNCHANGED <<now, doc, session, office, empty>>
  BY DEF ReplayThrows, Rest, Upset
<1>2. Resting \in RepType /\ Resting.step = "idle" /\ Resting.out = {}
  BY DEF Resting, RepType, Step
<1>3. upsets' > upsets /\ upsets' \in upsets..MaxUpsets
  BY <1>1, Typed
<1>4. RestType /\ RepMoves
  BY <1>1, <1>2, <1>3, Typed DEF RestType, Lands, RepMoves
<1>5. SessionsFine /\ \A s \in Sessions : Same(s) /\ ~ Opens(s)
  BY <1>1, TypedSessions DEF SessionsFine, Same, Opens
<1>6. QED
  BY <1>1, <1>4, <1>5, SessionMoves, DocsStay

LEMMA DeviceReadyKeeps ==
  ASSUME IInv, DeviceReady
  PROVE  IInv'
<1>1. ASSUME NEW s \in Sessions
      PROVE  session'[s] \in Session /\ session'[s].onAt = session[s].onAt /\ Same(s)
  <2>1. \/ session'[s] = session[s]
        \/ session'[s] = [session[s] EXCEPT !.ready = TRUE, !.quiet = FALSE]
    BY DEF DeviceReady
  <2>2. session[s] \in Session
    BY TypedSessions
  <2>3. QED
    BY <2>1, <2>2 DEF Session, Same
<1>2. SessionsFine
  BY <1>1, TypedSessions DEF SessionsFine, DeviceReady
<1>3. QED
  BY <1>1, <1>2, SessionMoves, DocsStay, Typed DEF DeviceReady, RestType, Lands, RepMoves, Opens, Same

LEMMA FallsQuietKeeps ==
  ASSUME IInv, NEW s \in Sessions, FallsQuiet(s) \/ MayGoOnlineAgain(s)
  PROVE  IInv'
<1>1. PICK e : /\ e \in {[session[s] EXCEPT !.quiet = TRUE], [session[s] EXCEPT !.recent = FALSE]}
               /\ session' = [session EXCEPT ![s] = e]
  BY TypedSessions DEF FallsQuiet, MayGoOnlineAgain
<1>2. e \in Session /\ e.onAt = session[s].onAt /\ e.status = session[s].status
      /\ e.why = session[s].why /\ e.sent = session[s].sent
  BY <1>1, TypedSessions DEF Session
<1>3. \A t \in Sessions : session'[t] = IF t = s THEN e ELSE session[t]
  BY <1>1, TypedSessions
<1>4. SessionsFine
  BY <1>1, <1>2, <1>3, TypedSessions DEF SessionsFine
<1>5. \A t \in Sessions : Same(t)
  BY <1>2, <1>3 DEF Same
<1>6. UNCHANGED <<now, doc, office, rep, empty, upsets>>
  BY DEF FallsQuiet, MayGoOnlineAgain
<1>7. QED
  BY <1>4, <1>5, <1>6, SessionMoves, DocsStay, Typed DEF RestType, Lands, RepMoves, Opens, Same

LEMMA SessionExpiresKeeps ==
  ASSUME IInv, NEW s \in Sessions, SessionExpires(s)
  PROVE  IInv'
<1>1. PICK e : /\ e = [session[s] EXCEPT !.status = "stuck", !.why = "expired"]
               /\ session' = [session EXCEPT ![s] = e]
  BY TypedSessions DEF SessionExpires, Stick
<1>2. e \in Session /\ e.onAt = session[s].onAt /\ e.status = "stuck"
      /\ e.why = "expired" /\ e.sent = session[s].sent
  BY <1>1, TypedSessions DEF Session
<1>3. \A t \in Sessions : session'[t] = IF t = s THEN e ELSE session[t]
  BY <1>1, TypedSessions
<1>4. SessionsFine
  BY <1>1, <1>2, <1>3, TypedSessions DEF SessionsFine
<1>5. \A t \in Sessions : (Same(t) \/ Expires(t)) /\ ~ Opens(t)
  BY <1>2, <1>3 DEF Same, Expires, SessionExpires, Opens
<1>6. UNCHANGED <<now, doc, office, rep, empty, upsets>>
  BY DEF SessionExpires
<1>7. QED
  BY <1>4, <1>5, <1>6, SessionMoves, DocsStay, Typed DEF RestType, Lands, RepMoves

----------------------------------------------------------------------------------
(* A sale finds its session, or opens one.                                       *)

LEMMA FirstIsOne ==
  ASSUME IInv, NEW s \in NextSession, NEW t \in NextSession
  PROVE  s = t
BY DEF NextSession, Sessions

LEMMA OpenedIsTyped ==
  ASSUME NEW n \in Int, NEW t \in BOOLEAN
  PROVE  /\ Opened(n, t) \in Session /\ Opened(n, t).onAt = 0 /\ Opened(n, t).status = "open"
         /\ Opened(n, t).why = "" /\ Opened(n, t).sent = FALSE
BY DEF Opened, NoSession, Session

LEMMA OpeningKeeps ==
  ASSUME IInv, NEW d \in Docs, NEW e, Becomes(d, e), DocMoves(d),
         Live = {}, NEW s \in NextSession, NEW n \in Int, NEW t \in BOOLEAN,
         session' = [session EXCEPT ![s] = Opened(n, t)],
         UNCHANGED <<now, office, rep, empty, upsets>>
  PROVE  IInv'
<1>1. s \in Sessions /\ session[s].status = "none"
  BY DEF NextSession
<1>2. \A x \in Sessions : session'[x] = IF x = s THEN Opened(n, t) ELSE session[x]
  BY <1>1, TypedSessions
<1>3. \A x \in Sessions : x # s => Same(x) /\ ~ Opens(x)
  <2> TAKE x \in Sessions
  <2>1. x # s => Same(x)
    BY <1>2 DEF Same
  <2>2. x # s => session[x].status = session'[x].status
    BY <1>2
  <2>3. QED
    BY <2>1, <2>2 DEF Opens
<1>4. Opens(s)
  <2>1. session'[s].status = "open" /\ session'[s].why = "" /\ session'[s].sent = FALSE
    BY <1>1, <1>2, OpenedIsTyped
  <2>2. QED
    BY <1>1, <2>1 DEF Opens
<1>5. SessionsFine
  <2>1. session' \in [Sessions -> Session]
    BY <1>1, TypedSessions, OpenedIsTyped
  <2>2. now \in Nat
    BY Typed
  <2>3. \A x \in Sessions : session'[x].onAt <= now
    <3>1. Opened(n, t).onAt = 0
      BY OpenedIsTyped
    <3>2. QED
      BY <1>2, <2>2, <3>1, TypedSessions
  <2>4. QED
    BY <2>1, <2>3 DEF SessionsFine
<1>6. /\ doc' \in [Docs -> Doc] /\ \A x \in Docs : doc'[x].date <= now' /\ DocAt(x)'
      /\ \A x \in Docs : DocMoves(x) /\ doc'[x].attempts = doc[x].attempts
  BY BecomesKeepsDocs DEF DocMoves
<1>7. RestType /\ RepMoves
  BY Typed DEF RestType, Lands, RepMoves
<1>8. QED
  BY <1>3, <1>4, <1>5, <1>6, <1>7, SessionMoves

LEMMA JoiningKeeps ==
  ASSUME IInv, NEW d \in Docs, NEW e, Becomes(d, e), DocMoves(d), SessionsFine,
         \A x \in Sessions : Same(x), UNCHANGED <<now, office, rep, empty, upsets>>
  PROVE  IInv'
<1>1. /\ doc' \in [Docs -> Doc] /\ \A x \in Docs : doc'[x].date <= now' /\ DocAt(x)'
      /\ \A x \in Docs : DocMoves(x) /\ doc'[x].attempts = doc[x].attempts
  BY BecomesKeepsDocs DEF DocMoves
<1>2. RestType /\ RepMoves
  BY Typed DEF RestType, Lands, RepMoves
<1>3. QED
  BY <1>1, <1>2, SessionMoves DEF Same, Opens

LEMMA StampBeginsKeeps ==
  ASSUME IInv, NEW d \in Docs, StampBegins(d)
  PROVE  IInv'
<1>1. PICK s \in Sessions :
        /\ doc' = [doc EXCEPT ![d].st = "stamping", ![d].mode = "server", ![d].sid = s]
        /\ \/ UNCHANGED session
           \/ Live = {} /\ s \in NextSession /\ session' = [session EXCEPT ![s] = Opened(now, FALSE)]
  BY DEF StampBegins, Live, NextSession
<1>2. PICK e : e = [doc[d] EXCEPT !.st = "stamping", !.mode = "server", !.sid = s]
  OBVIOUS
<1>3. doc[d] \in Doc /\ doc[d].st = "none" /\ doc[d].date <= now /\ Sound(doc[d]) /\ s \in Nat
      /\ now \in Int /\ "stamping" \in DocState
  BY Typed DEF StampBegins, Sessions, DocState
<1>4. e \in Doc
  BY <1>2, <1>3 DEF Doc
<1>5. e.date = doc[d].date /\ e.st = "stamping" /\ e.attempts = doc[d].attempts
  BY <1>2, <1>3 DEF Doc
<1>6. doc' = [doc EXCEPT ![d] = e]
  BY <1>1, <1>2, Typed
<1>7. Becomes(d, e)
  BY <1>3, <1>4, <1>5, <1>6 DEF Becomes, Sound
<1>8. DocMoves(d)
  BY <1>3, <1>5, <1>6, Typed DEF DocMoves
<1>9. UNCHANGED <<now, office, rep, empty, upsets>>
  BY DEF StampBegins
<1>10. CASE UNCHANGED session
  BY <1>7, <1>8, <1>9, <1>10, JoiningKeeps, TypedSessions DEF SessionsFine, Same
<1>11. CASE Live = {} /\ s \in NextSession /\ session' = [session EXCEPT ![s] = Opened(now, FALSE)]
  BY <1>3, <1>7, <1>8, <1>9, <1>11, OpeningKeeps
<1>12. QED
  BY <1>1, <1>10, <1>11

LEMMA JoinSessionKeeps ==
  ASSUME IInv, NEW d \in Docs, JoinSession(d)
  PROVE  IInv'
<1>1. PICK s \in Sessions :
        /\ doc' = [doc EXCEPT ![d].st = "joined", ![d].sid = s]
        /\ \/ session' = [session EXCEPT ![s].till = TRUE, ![s].ready = FALSE, ![s].quiet = FALSE]
           \/ /\ Live = {} /\ s \in NextSession
              /\ session' = [session EXCEPT ![s] = Opened(DeviceStart(doc[d].date), TRUE)]
  BY DEF JoinSession, Live, NextSession
<1>2. PICK e : e = [doc[d] EXCEPT !.st = "joined", !.sid = s]
  OBVIOUS
<1>3. doc[d] \in Doc /\ doc[d].st = "printed" /\ doc[d].date <= now /\ Sound(doc[d]) /\ s \in Nat
      /\ doc[d].date \in Nat /\ "joined" \in DocState
  <2>1. doc[d] \in Doc /\ doc[d].date <= now /\ Sound(doc[d]) /\ doc[d].date \in Nat
    BY Typed
  <2>2. doc[d].st = "printed"
    BY DEF JoinSession
  <2>3. s \in Nat /\ "joined" \in DocState
    BY DEF Sessions, DocState
  <2>4. QED
    BY <2>1, <2>2, <2>3
<1>4. e \in Doc
  BY <1>2, <1>3 DEF Doc
<1>5. e.date = doc[d].date /\ e.st = "joined" /\ e.attempts = doc[d].attempts
  BY <1>2, <1>3 DEF Doc
<1>6. doc' = [doc EXCEPT ![d] = e]
  BY <1>1, <1>2, Typed
<1>7. Becomes(d, e)
  BY <1>3, <1>4, <1>5, <1>6 DEF Becomes, Sound
<1>8. DocMoves(d)
  BY <1>3, <1>5, <1>6, Typed DEF DocMoves
<1>9. UNCHANGED <<now, office, rep, empty, upsets>>
  BY DEF JoinSession
<1>10. CASE session' = [session EXCEPT ![s].till = TRUE, ![s].ready = FALSE, ![s].quiet = FALSE]
  <2>1. PICK x : x = [session[s] EXCEPT !.till = TRUE, !.ready = FALSE, !.quiet = FALSE]
    OBVIOUS
  <2>2. x \in Session /\ x.onAt = session[s].onAt /\ x.status = session[s].status
        /\ x.why = session[s].why /\ x.sent = session[s].sent
    BY <2>1, TypedSessions DEF Session
  <2>3. session' = [session EXCEPT ![s] = x]
    BY <1>10, <2>1, TypedSessions
  <2>4. SessionsFine /\ \A t \in Sessions : Same(t)
    BY <2>2, <2>3, TypedSessions DEF SessionsFine, Same
  <2>5. QED
    BY <1>7, <1>8, <1>9, <2>4, JoiningKeeps
<1>11. CASE /\ Live = {} /\ s \in NextSession
            /\ session' = [session EXCEPT ![s] = Opened(DeviceStart(doc[d].date), TRUE)]
  <2>1. DeviceStart(doc[d].date) \in Int
    BY <1>3, FloorIsATime DEF DeviceStart
  <2>2. QED
    BY <1>7, <1>8, <1>9, <1>11, <2>1, OpeningKeeps
<1>12. QED
  BY <1>1, <1>10, <1>11

----------------------------------------------------------------------------------
(* Steps of many documents: the retry pass claims what is due, a restart drops   *)
(* what was under way.                                                           *)

LEMMA ManyDocsMove ==
  ASSUME IInv, NEW f \in [Docs -> DocState],
         doc' = [d \in Docs |-> [doc[d] EXCEPT !.st = f[d]]],
         \A d \in Docs : Sound(doc'[d]),
         \A d \in Docs : \/ f[d] = doc[d].st
                         \/ doc[d].st \notin {"pending", "done", "abandoned"} /\ f[d] # "pending",
         RepMoves, RestType, UNCHANGED <<now, session, office>>
  PROVE  IInv'
<1>1. ASSUME NEW d \in Docs
      PROVE  /\ doc'[d] \in Doc /\ doc'[d].date = doc[d].date /\ doc'[d].st = f[d]
             /\ (f[d] = doc[d].st => doc'[d] = doc[d]) /\ doc'[d].attempts = doc[d].attempts
  <2>1. doc[d] \in Doc /\ doc'[d] = [doc[d] EXCEPT !.st = f[d]] /\ f[d] \in DocState
    BY Typed
  <2>2. doc'[d] \in Doc
    BY <2>1 DEF Doc
  <2>3. /\ doc'[d].date = doc[d].date /\ doc'[d].st = f[d] /\ (f[d] = doc[d].st => doc'[d] = doc[d])
        /\ doc'[d].attempts = doc[d].attempts
    BY <2>1 DEF Doc
  <2>4. QED
    BY <2>2, <2>3
<1>2. \A d \in Docs : DocMoves(d)
  BY <1>1 DEF DocMoves
<1>3. \A d \in Docs : doc'[d].date <= now /\ DocAt(d)'
  BY <1>1, Typed DEF DocAt, Sound
<1>4. doc' \in [Docs -> Doc]
  BY <1>1
<1>5. SessionsFine /\ \A s \in Sessions : Same(s)
  BY TypedSessions DEF SessionsFine, Same
<1>6. QED
  BY <1>1, <1>2, <1>3, <1>4, <1>5, SessionMoves DEF Same, Opens

LEMMA ClaimDueKeeps ==
  ASSUME IInv, ClaimDue
  PROVE  IInv'
<1>1. PICK f : f = [d \in Docs |-> IF doc[d].st = "due" THEN "claimed" ELSE doc[d].st]
  OBVIOUS
<1>2. ASSUME NEW d \in Docs
      PROVE  doc[d] \in Doc /\ doc[d].st \in DocState /\ Sound(doc[d])
  BY Typed DEF Doc
<1>3. f \in [Docs -> DocState]
  BY <1>1, <1>2 DEF DocState
<1>4. doc' = [d \in Docs |-> [doc[d] EXCEPT !.st = f[d]]]
  <2>1. \A d \in Docs : (IF doc[d].st = "due" THEN [doc[d] EXCEPT !.st = "claimed"] ELSE doc[d])
                          = [doc[d] EXCEPT !.st = f[d]]
    <3> TAKE d \in Docs
    <3>1. doc[d] \in Doc
      BY <1>2
    <3>2. CASE doc[d].st = "due"
      BY <1>1, <3>2
    <3>3. CASE doc[d].st # "due"
      BY <1>1, <3>1, <3>3 DEF Doc
    <3>4. QED
      BY <3>2, <3>3
  <2>2. QED
    BY <2>1 DEF ClaimDue
<1>5. \A d \in Docs : Sound(doc'[d])
  <2> TAKE d \in Docs
  <2>1. doc'[d].st = f[d] /\ doc'[d].mode = doc[d].mode /\ doc'[d].attempts = doc[d].attempts
    BY <1>2, <1>4 DEF Doc
  <2>2. QED
    BY <1>1, <1>2, <2>1 DEF Sound
<1>6. RepMoves /\ RestType /\ UNCHANGED <<now, session, office>>
  <2>1. rep.out = {} /\ rep' = [rep EXCEPT !.step = "batch"] /\ UNCHANGED <<now, session, office, empty, upsets>>
    BY NothingOut DEF ClaimDue, At, Goto
  <2>2. rep' \in RepType /\ rep'.step = "batch" /\ rep'.out = {}
    BY <2>1, Typed DEF RepType, Step
  <2>3. QED
    BY <2>1, <2>2, Typed DEF RepMoves, RestType, Lands
<1>7. QED
  BY <1>1, <1>3, <1>4, <1>5, <1>6, ManyDocsMove

LEMMA CrashKeeps ==
  ASSUME IInv, Crash
  PROVE  IInv'
<1>1. PICK sold \in BOOLEAN :
        doc' = [d \in Docs |->
             CASE doc[d].st \in {"wire", "claimed"} -> [doc[d] EXCEPT !.st = "due"]
               [] doc[d].st = "stamping" -> [doc[d] EXCEPT !.st = "parked"]
               [] doc[d].st = "joined" -> [doc[d] EXCEPT !.st = IF sold THEN "parked" ELSE "printed"]
               [] OTHER -> doc[d]]
  BY DEF Crash
<1>2. PICK f : f = [d \in Docs |->
             IF doc[d].st \in {"wire", "claimed"} THEN "due"
             ELSE IF doc[d].st = "stamping" THEN "parked"
             ELSE IF doc[d].st = "joined" THEN (IF sold THEN "parked" ELSE "printed")
             ELSE doc[d].st]
  OBVIOUS
<1>3. ASSUME NEW d \in Docs
      PROVE  doc[d] \in Doc /\ doc[d].st \in DocState /\ Sound(doc[d])
  BY Typed DEF Doc
<1>4. f \in [Docs -> DocState]
  BY <1>2, <1>3 DEF DocState
<1>5. doc' = [d \in Docs |-> [doc[d] EXCEPT !.st = f[d]]]
  <2>1. ASSUME NEW d \in Docs
        PROVE  (CASE doc[d].st \in {"wire", "claimed"} -> [doc[d] EXCEPT !.st = "due"]
                  [] doc[d].st = "stamping" -> [doc[d] EXCEPT !.st = "parked"]
                  [] doc[d].st = "joined" -> [doc[d] EXCEPT !.st = IF sold THEN "parked" ELSE "printed"]
                  [] OTHER -> doc[d]) = [doc[d] EXCEPT !.st = f[d]]
    <3>1. CASE doc[d].st \in {"wire", "claimed"}
      BY <1>2, <3>1
    <3>2. CASE doc[d].st = "stamping"
      BY <1>2, <3>2
    <3>3. CASE doc[d].st = "joined"
      BY <1>2, <3>3
    <3>4. CASE doc[d].st \notin {"wire", "claimed", "stamping", "joined"}
      <4>1. f[d] = doc[d].st
        BY <1>2, <3>4
      <4>2. [doc[d] EXCEPT !.st = f[d]] = doc[d]
        BY <1>3, <4>1 DEF Doc
      <4>3. QED
        BY <3>4, <4>2
    <3>5. QED
      BY <3>1, <3>2, <3>3, <3>4
  <2>2. QED
    BY <1>1, <2>1
<1>6. \A d \in Docs : Sound(doc'[d])
  <2> TAKE d \in Docs
  <2>1. doc'[d].st = f[d] /\ doc'[d].mode = doc[d].mode /\ doc'[d].attempts = doc[d].attempts
    BY <1>3, <1>5 DEF Doc
  <2>2. QED
    BY <1>2, <1>3, <2>1 DEF Sound
<1>7. \A d \in Docs : \/ f[d] = doc[d].st
                      \/ doc[d].st \notin {"pending", "done", "abandoned"} /\ f[d] # "pending"
  BY <1>2
<1>8. RepMoves /\ RestType /\ UNCHANGED <<now, session, office>>
  <2>1. /\ rep' = Resting /\ empty' = FALSE /\ upsets < MaxUpsets /\ upsets' = upsets + 1
        /\ UNCHANGED <<now, session, office>>
    BY DEF Crash, Rest, Upset
  <2>2. Resting \in RepType /\ Resting.step = "idle" /\ Resting.out = {}
    BY DEF Resting, RepType, Step
  <2>3. RepMoves
    BY <2>1, <2>2 DEF RepMoves
  <2>4. upsets \in Nat /\ MaxUpsets \in Nat
    BY Typed
  <2>5. upsets' > upsets /\ upsets' \in upsets..MaxUpsets
    BY <2>1, <2>4
  <2>6. RestType
    BY <2>1, <2>2, <2>5 DEF RestType, Lands
  <2>7. QED
    BY <2>1, <2>3, <2>6
<1>9. QED
  BY <1>4, <1>5, <1>6, <1>7, <1>8, ManyDocsMove

----------------------------------------------------------------------------------
(* One document of the batch.                                                    *)

\* The document that is out is of the session at work.
LEMMA Out ==
  ASSUME IInv, NEW d \in rep.out
  PROVE  /\ d \in Docs /\ At("send") /\ office.offline /\ rep.out = {d} /\ d \in rep.todo
         /\ Sid \in Sessions /\ session[Sid].status # "closed"
         /\ doc[d].sid = Sid /\ doc[d].st \in {"pending", "done", "abandoned"}
<1>1. At("send") /\ office.offline /\ rep.out = {d} /\ d \in rep.todo
  BY DEF IInv, Flight
<1>2. d \in Docs
  BY Typed DEF RepType
<1>3. Sid \in Sessions /\ session[Sid].status # "closed"
  BY <1>1 DEF IInv, Order, Whose, Busy, At
<1>4. doc[d].sid = Sid /\ doc[d].st \in {"pending", "done", "abandoned"}
  BY <1>1 DEF IInv, Order, InTurn
<1>5. QED
  BY <1>1, <1>2, <1>3, <1>4

LEMMA SkipDocumentKeeps ==
  ASSUME IInv, NEW d \in Docs, SkipDocument(d)
  PROVE  IInv'
<1>1. /\ ~ Unsent(d)' /\ rep.out = {} /\ rep' = [rep EXCEPT !.todo = @ \ {d}]
      /\ UNCHANGED <<now, doc, session, office, empty, upsets>>
  BY DEF SkipDocument, Unsent
<1>2. rep' \in RepType /\ rep'.step = rep.step /\ rep'.sid = rep.sid /\ rep'.todo = rep.todo \ {d}
      /\ rep'.out = {}
  BY <1>1, Typed DEF RepType
<1>3. RepMoves /\ RestType
  BY <1>1, <1>2, Typed DEF RepMoves, RestType, Lands
<1>4. SessionsFine /\ \A s \in Sessions : Same(s) /\ ~ Opens(s)
  BY <1>1, TypedSessions DEF SessionsFine, Same, Opens
<1>5. QED
  BY <1>1, <1>3, <1>4, SessionMoves, DocsStay

\* The attempt that is counted was left.
LEMMA ClaimDocumentKeeps ==
  ASSUME IInv, NEW d \in Docs, ClaimDocument(d)
  PROVE  IInv'
<1>1. /\ At("send") /\ rep.out = {} /\ Foremost(d) /\ Unsent(d)
      /\ doc' = [doc EXCEPT ![d].attempts = @ + 1] /\ rep' = [rep EXCEPT !.out = {d}]
      /\ UNCHANGED <<now, session, office, empty, upsets>>
  BY DEF ClaimDocument
<1>2. PICK e : e = [doc[d] EXCEPT !.attempts = doc[d].attempts + 1]
  OBVIOUS
<1>3. doc[d] \in Doc /\ doc[d].attempts \in Nat /\ doc[d].attempts < MaxAttempts + upsets
      /\ MaxAttempts \in Nat /\ upsets \in Nat
  BY <1>1, Typed, Attempts DEF IInv, Flight
<1>4. e \in Doc /\ e.st = doc[d].st /\ e.date = doc[d].date /\ e.sid = doc[d].sid
      /\ e.attempts = doc[d].attempts + 1 /\ e.attempts <= MaxAttempts + upsets
  <2>1. e \in Doc
    BY <1>2, <1>3 DEF Doc
  <2>2. e.st = doc[d].st /\ e.date = doc[d].date /\ e.sid = doc[d].sid
        /\ e.attempts = doc[d].attempts + 1
    BY <1>2, <1>3 DEF Doc
  <2>3. QED
    BY <1>3, <2>1, <2>2
<1>5. doc' \in [Docs -> Doc] /\ doc'[d] = e /\ \A x \in Docs : x # d => doc'[x] = doc[x]
  BY <1>1, <1>2, <1>4, Typed
<1>6. rep' \in RepType /\ rep'.step = rep.step /\ rep'.sid = rep.sid /\ rep'.todo = rep.todo
      /\ rep'.out = {d}
  BY <1>1, Typed DEF RepType
<1>7. \A x \in Docs : /\ doc'[x].st = doc[x].st /\ doc'[x].date = doc[x].date
                      /\ doc'[x].sid = doc[x].sid
  BY <1>4, <1>5
<1>8. TypeOK'
  <2>1. \A x \in Docs : doc'[x].attempts <= MaxAttempts + upsets'
    BY <1>1, <1>4, <1>5, Attempts
  <2>2. QED
    BY <1>1, <1>5, <1>6, <2>1 DEF IInv, TypeOK, RepType
<1>9. Clock' /\ \A x \in Docs : DocAt(x)'
  <2>1. Clock'
    BY <1>1, <1>7 DEF IInv, Clock
  <2>2. \A x \in Docs : Sound(doc'[x])
    <3> TAKE x \in Docs
    <3>1. CASE x = d
      BY <1>1, <1>4, <1>5, <3>1 DEF Sound, Unsent
    <3>2. CASE x # d
      BY <1>5, <3>2, Typed
    <3>3. QED
      BY <3>1, <3>2
  <2>3. QED
    BY <2>1, <2>2 DEF DocAt, Sound
<1>10. Elsewhere
  <2>1. \A x \in Docs : DocMoves(x)
    BY <1>1, <1>5, <1>7 DEF DocMoves, Unsent
  <2>2. RepMoves
    BY <1>6 DEF RepMoves
  <2>3. QED
    BY <1>1, <2>1, <2>2 DEF Elsewhere, Same
<1>11. OneLive'
  BY <1>1 DEF IInv, Order, OneLive, Live
<1>12. Flight'
  <2>1. office.offline /\ d \in rep.todo
    <3>1. d \in rep.todo /\ doc[d].sid = Sid
      BY <1>1 DEF Foremost, IInv, Order, InTurn
    <3>2. d \in DocsOf(Sid)
      BY <1>1, <3>1 DEF DocsOf
    <3>3. QED
      BY <1>1, <3>1, <3>2 DEF IInv, Order, Stage, At
  <2>2. \A y \in rep.todo : doc[d].date <= doc[y].date /\ y \in Docs
    BY <1>1, Typed DEF Foremost, RepType
  <2>3. \A x \in Docs : Unsent(x)' /\ x \notin rep'.out => doc'[x].attempts < MaxAttempts + upsets'
    BY <1>1, <1>5, <1>6 DEF IInv, Flight, Unsent
  <2>4. \A x \in rep'.out, y \in rep'.todo : doc'[x].date <= doc'[y].date
    BY <1>6, <1>7, <2>2
  <2>5. QED
    BY <1>1, <1>6, <2>1, <2>3, <2>4 DEF Flight, At
<1>13. QED
  BY <1>8, <1>9, <1>10, <1>11, <1>12, ElsewhereKeepsOrder DEF IInv

LEMMA DocumentArrivesKeeps ==
  ASSUME IInv, NEW d \in Docs, DocumentArrives(d)
  PROVE  IInv'
<1>1. doc[d].date \in Int /\ doc[d] \in Doc /\ doc \in [Docs -> Doc]
  BY Typed
<1>2. SameOffline
  BY <1>1, OfficeTakes DEF DocumentArrives
<1>3. UNCHANGED <<now, doc, session, rep, empty, upsets>>
  BY DEF DocumentArrives
<1>4. Becomes(d, doc[d]) /\ DocMoves(d)
  BY <1>1, <1>3, Typed DEF Becomes, DocMoves
<1>5. RepMoves /\ RestType
  BY <1>3, Typed DEF RepMoves, RestType, Lands
<1>6. QED
  BY <1>2, <1>3, <1>4, <1>5, OneDocMoves

\* An outcome is recorded, whatever a sweep has made of the row.
LEMMA RecordedKeeps ==
  ASSUME IInv, NEW d \in rep.out, NEW st \in {"done", "abandoned"}, Recorded(d, st),
         UNCHANGED <<now, session, office, empty, upsets>>
  PROVE  IInv'
<1>1. /\ d \in Docs /\ rep.out = {d} /\ doc[d] \in Doc /\ doc[d].date <= now
      /\ doc[d].st \in {"pending", "done", "abandoned"}
  BY Out, Typed
<1>2. PICK e : e = [doc[d] EXCEPT !.st = st]
  OBVIOUS
<1>3. e \in Doc /\ e.st = st /\ e.date = doc[d].date /\ e.sid = doc[d].sid
      /\ e.attempts = doc[d].attempts
  <2>1. e \in Doc
    BY <1>1, <1>2 DEF Doc, DocState
  <2>2. e.st = st /\ e.date = doc[d].date /\ e.sid = doc[d].sid /\ e.attempts = doc[d].attempts
    BY <1>1, <1>2 DEF Doc
  <2>3. QED
    BY <2>1, <2>2
<1>4. doc' = [doc EXCEPT ![d] = e] /\ doc'[d] = e
  BY <1>1, <1>2, Typed DEF Recorded
<1>5. Becomes(d, e) /\ DocMoves(d) /\ ~ Unsent(d)'
  <2>1. Sound(e)
    BY <1>3 DEF Sound
  <2>2. Becomes(d, e)
    BY <1>1, <1>3, <1>4, <2>1 DEF Becomes
  <2>3. DocMoves(d) /\ ~ Unsent(d)'
    BY <1>1, <1>3, <1>4 DEF DocMoves, Unsent
  <2>4. QED
    BY <2>2, <2>3
<1>6. rep' \in RepType /\ rep'.step = rep.step /\ rep'.sid = rep.sid /\ rep'.todo = rep.todo \ {d}
      /\ rep'.out = {}
  BY Typed DEF RepType, Recorded
<1>7. RepMoves /\ RestType /\ SameOffline
  <2>1. RepMoves
    BY <1>5, <1>6 DEF RepMoves
  <2>2. Lands
    BY <1>1, <1>5, <1>6 DEF Lands
  <2>3. QED
    BY <1>6, <2>1, <2>2, Typed DEF RestType, Lands, SameOffline
<1>8. QED
  BY <1>1, <1>5, <1>7, OneDocMoves

LEMMA SendDocumentKeeps ==
  ASSUME IInv, NEW d \in Docs, SendDocument(d) \/ DocumentRefused(d)
  PROVE  IInv'
BY RecordedKeeps DEF SendDocument, DocumentRefused

\* A document waits again, be it one a sweep had abandoned: its session is not
\* closed and the office has the register offline.
LEMMA DocumentFailsKeeps ==
  ASSUME IInv, NEW d \in Docs, DocumentFails(d)
  PROVE  IInv'
<1>1. /\ d \in rep.out /\ rep' = Resting /\ UNCHANGED <<now, session, office, empty, upsets>>
      /\ doc' = [doc EXCEPT ![d].st = IF doc[d].attempts >= MaxAttempts THEN "abandoned" ELSE "pending"]
  BY DEF DocumentFails, Failed, Rest
<1>2. /\ office.offline /\ rep.out = {d} /\ Sid \in Sessions /\ session[Sid].status # "closed"
      /\ doc[d].sid = Sid
  BY <1>1, Out
<1>3. PICK e : e = [doc[d] EXCEPT !.st = IF doc[d].attempts >= MaxAttempts THEN "abandoned" ELSE "pending"]
  OBVIOUS
<1>4. doc[d] \in Doc /\ doc[d].attempts \in Nat /\ doc[d].attempts <= MaxAttempts + upsets
      /\ MaxAttempts \in Nat /\ upsets \in Nat
  BY Typed, Attempts
<1>5. e \in Doc /\ e.date = doc[d].date /\ e.sid = Sid /\ e.attempts = doc[d].attempts
      /\ e.st \in {"pending", "abandoned"} /\ (e.st = "pending" => ~ (doc[d].attempts >= MaxAttempts))
  <2>1. e \in Doc
    BY <1>3, <1>4 DEF Doc, DocState
  <2>2. e.date = doc[d].date /\ e.sid = Sid /\ e.attempts = doc[d].attempts
        /\ e.st \in {"pending", "abandoned"} /\ (e.st = "pending" => ~ (doc[d].attempts >= MaxAttempts))
    BY <1>2, <1>3, <1>4 DEF Doc
  <2>3. QED
    BY <2>1, <2>2
<1>6. doc' \in [Docs -> Doc] /\ doc'[d] = e /\ \A x \in Docs : x # d => doc'[x] = doc[x]
  BY <1>1, <1>3, <1>5, Typed
<1>7. rep' \in RepType /\ ~ Busy' /\ rep'.step = "idle" /\ rep'.todo = {} /\ rep'.out = {}
  BY <1>1 DEF Resting, RepType, Step, Busy
<1>8. TypeOK'
  <2>1. \A x \in Docs : doc'[x].attempts <= MaxAttempts + upsets'
    BY <1>1, <1>4, <1>5, <1>6, Attempts
  <2>2. QED
    BY <1>1, <1>6, <1>7, <2>1 DEF IInv, TypeOK, RepType
<1>9. Clock' /\ \A x \in Docs : DocAt(x)'
  <2>1. Clock'
    BY <1>1, <1>5, <1>6 DEF IInv, Clock
  <2>2. \A x \in Docs : Sound(doc'[x])
    <3> TAKE x \in Docs
    <3>1. CASE x = d
      BY <1>5, <1>6, <3>1 DEF Sound
    <3>2. CASE x # d
      BY <1>6, <3>2, Typed
    <3>3. QED
      BY <3>1, <3>2
  <2>3. QED
    BY <2>1, <2>2 DEF DocAt, Sound
<1>10. Flight'
  <2>1. \A x \in Docs : Unsent(x)' => doc'[x].attempts < MaxAttempts + upsets'
    <3> SUFFICES ASSUME NEW x \in Docs, Unsent(x)'
                 PROVE  doc'[x].attempts < MaxAttempts + upsets
      BY <1>1
    <3>1. CASE x = d
      <4>1. ~ (doc[d].attempts >= MaxAttempts)
        BY <1>5, <1>6, <3>1 DEF Unsent
      <4>2. QED
        BY <1>4, <1>5, <1>6, <3>1, <4>1
    <3>2. CASE x # d
      BY <1>2, <1>6, <3>2 DEF IInv, Flight, Unsent
    <3>3. QED
      BY <3>1, <3>2
  <2>2. QED
    BY <1>7, <2>1 DEF Flight
<1>11. Live' = Live /\ OneLive' /\ Whose' /\ Stage' /\ InTurn'
  <2>1. Live' = Live /\ OneLive'
    BY <1>1 DEF IInv, Order, OneLive, Live
  <2>2. Whose' /\ Stage' /\ InTurn'
    BY <1>7 DEF Whose, Stage, InTurn, At, Busy, Claimed
  <2>3. QED
    BY <2>1, <2>2
<1>12. ASSUME NEW s \in Sessions
       PROVE  SessionAt(s)' /\ Window(s)'
  <2>1. SessionAt(s) /\ Window(s)
    BY DEF IInv, Order
  <2>2. s # Sid => DocsOf(s)' \subseteq DocsOf(s)
    BY <1>5, <1>6 DEF DocsOf, Unsent
  <2>3. SessionAt(s)'
    BY <1>1, <1>2, <1>11, <2>1, <2>2 DEF SessionAt
  <2>4. Window(s)'
    BY <1>1, <1>2, <1>7, <1>11, <2>1, <2>2 DEF Window
  <2>5. QED
    BY <2>3, <2>4
<1>13. QED
  BY <1>8, <1>9, <1>10, <1>11, <1>12 DEF IInv, Order

----------------------------------------------------------------------------------
(* The replay's own steps: no document moves, and k is the session at work.      *)

\* What the next state has to be, said of k.
AtWork(k) ==
    /\ session'[k].status \notin {"none", "closed"} /\ session'[k].why # "refused"
    /\ \A s \in Live' : s # k => ~ session'[s].sent /\ s \notin office'.off
    /\ rep'.step \notin {"probe", "claim"} => session'[k].status # "open"
    /\ rep'.step = "floor" => ~ session'[k].sent
    /\ rep'.step = "goOffline" => k \notin office'.off
    /\ rep'.step \in {"list", "send"} => DocsOf(k) = {} \/ office'.offline
    /\ rep'.step \in {"list", "send", "goOnline", "state"} => (k \in Live' => session'[k].sent)
    /\ rep'.step \in {"goOnline", "state"} => DocsOf(k) = {}
    /\ rep'.step = "send" => \A d \in rep'.todo :
         /\ doc[d].st \in {"pending", "done", "abandoned"} /\ doc[d].sid = k
         /\ \A e \in DocsOf(k) \ rep'.todo : doc[d].date <= doc[e].date

\* What every session has to be.
Left(k, s) ==
    /\ session'[s].sent \/ s \in office'.off => session'[s].status \notin {"none", "open"}
    /\ s \in Live' => session'[s].why # "refused"
    /\ session'[s].why = "refused" => s \notin office'.off
    /\ session'[s].status = "closed" => DocsOf(s) = {}
    /\ s \in Live' \/ (Busy' /\ s = k) => (session'[s].sent /\ DocsOf(s) # {} => office'.offline)
    /\ s \in Live' \/ (rep'.step \in {"probe", "claim", "floor"} /\ s = k)
         => (s \in office'.off /\ ~ session'[s].sent => office'.offline)

LEMMA ReplayKeeps ==
  ASSUME IInv, NEW k \in Sessions, UNCHANGED <<now, doc, empty>>, Busy' => Sid' = k,
         SessionsFine, office' \in OfficeType, rep' \in RepType, upsets' \in upsets..MaxUpsets,
         rep.out = {}, rep'.out = {},
         Busy' => AtWork(k), OneLive', \A s \in Sessions : Left(k, s)
  PROVE  IInv'
<1>1. upsets \in Nat /\ upsets' \in Nat /\ upsets <= upsets' /\ upsets' <= MaxUpsets
      /\ MaxAttempts \in Nat
  BY Typed
<1>2. TypeOK'
  <2>1. \A d \in Docs : doc'[d].attempts <= MaxAttempts + upsets'
    <3> TAKE d \in Docs
    <3>1. doc[d].attempts \in Nat /\ doc[d].attempts <= MaxAttempts + upsets
      BY Attempts
    <3>2. QED
      BY <1>1, <3>1
  <2>2. QED
    BY <1>1, <2>1, Typed DEF TypeOK, SessionsFine, OfficeType, RepType
<1>3. Flight'
  <2>1. ASSUME NEW d \in Docs, Unsent(d)
        PROVE  doc[d].attempts < MaxAttempts + upsets'
    <3>1. doc[d].attempts \in Nat /\ doc[d].attempts < MaxAttempts + upsets
      BY <2>1, Attempts DEF IInv, Flight
    <3>2. QED
      BY <1>1, <3>1
  <2>2. QED
    BY <2>1 DEF Flight, Unsent
<1>4. Clock' /\ \A d \in Docs : DocAt(d)'
  BY DocsStay DEF Clock, SessionsFine
<1>5. \A s \in Sessions : DocsOf(s)' = DocsOf(s)
  BY DEF DocsOf, Unsent
<1>6. Whose'
  BY DEF Whose, AtWork, Sid
<1>7. Stage'
  <2>1. CASE ~ Busy'
    BY <2>1 DEF Stage, Claimed, Busy, At
  <2>2. CASE Busy'
    <3>1. Claimed' => rep'.step \notin {"probe", "claim"}
      BY DEF Claimed
    <3>2. QED
      BY <2>2, <3>1, <1>5 DEF Stage, AtWork, At, DocsOf, Unsent
  <2>3. QED
    BY <2>1, <2>2
<1>8. InTurn'
  <2>1. CASE ~ Busy'
    BY <2>1 DEF InTurn, Busy, At
  <2>2. CASE Busy'
    BY <2>2, <1>5 DEF InTurn, AtWork, At, DocsOf, Unsent
  <2>3. QED
    BY <2>1, <2>2
<1>9. ASSUME NEW s \in Sessions
      PROVE  SessionAt(s)' /\ Window(s)'
  <2>1. Left(k, s) /\ DocsOf(s)' = DocsOf(s)
    BY <1>5
  <2>2. rep'.step \in {"probe", "claim", "floor"} => Busy'
    BY DEF Busy
  <2>3. SessionAt(s)'
    BY <2>1 DEF SessionAt, Left
  <2>4. Window(s)'
    BY <2>1, <2>2 DEF Window, Left
  <2>5. QED
    BY <2>3, <2>4
<1>10. QED
  BY <1>2, <1>4, <1>6, <1>7, <1>8, <1>9, <1>3 DEF IInv, Order

\* The same of the present state.
LEMMA AtWorkNow ==
  ASSUME IInv, Busy
  PROVE  \E k \in Sessions :
         /\ k = Sid /\ session[k].status \notin {"none", "closed"} /\ session[k].why # "refused"
         /\ \A s \in Live : s # k => ~ session[s].sent /\ s \notin office.off
         /\ rep.step \notin {"probe", "claim"} => session[k].status # "open"
         /\ rep.step = "floor" => ~ session[k].sent
         /\ rep.step = "goOffline" => k \notin office.off
         /\ rep.step \in {"list", "send"} => DocsOf(k) = {} \/ office.offline
         /\ rep.step \in {"list", "send", "goOnline", "state"} => (k \in Live => session[k].sent)
         /\ rep.step \in {"goOnline", "state"} => DocsOf(k) = {}
         /\ session[k].sent /\ DocsOf(k) # {} => office.offline
         /\ rep.step \in {"probe", "claim", "floor"}
              => (k \in office.off /\ ~ session[k].sent => office.offline)
<1>1. PICK k \in Sessions : k = Sid
  BY DEF IInv, Order, Whose
<1>2. session[k].status \notin {"none", "closed"} /\ session[k].why # "refused"
      /\ \A s \in Live : s # k => ~ session[s].sent /\ s \notin office.off
  BY <1>1 DEF IInv, Order, Whose
<1>3. rep.step \notin {"probe", "claim"} => Claimed
  BY DEF Busy, Claimed
<1>4. /\ rep.step \notin {"probe", "claim"} => session[k].status # "open"
      /\ rep.step = "floor" => ~ session[k].sent
      /\ rep.step = "goOffline" => k \notin office.off
      /\ rep.step \in {"list", "send"} => DocsOf(k) = {} \/ office.offline
      /\ rep.step \in {"list", "send", "goOnline", "state"} => (k \in Live => session[k].sent)
      /\ rep.step \in {"goOnline", "state"} => DocsOf(k) = {}
  BY <1>1, <1>3 DEF IInv, Order, Stage, At
<1>5. Window(k)
  BY <1>1 DEF IInv, Order
<1>6. QED
  BY <1>1, <1>2, <1>4, <1>5 DEF Window

LEMMA LeftNow ==
  ASSUME IInv, NEW s \in Sessions
  PROVE  /\ session[s].sent \/ s \in office.off => session[s].status \notin {"none", "open"}
         /\ s \in Live => session[s].why # "refused"
         /\ session[s].why = "refused" => s \notin office.off
         /\ session[s].status = "closed" => DocsOf(s) = {}
         /\ s \in Live => (session[s].sent /\ DocsOf(s) # {} => office.offline)
         /\ s \in Live => (s \in office.off /\ ~ session[s].sent => office.offline)
BY DEF IInv, Order, SessionAt, Window

LEMMA Put ==
  ASSUME IInv, NEW k \in Sessions, NEW x \in Session, x.onAt <= now,
         session' = [session EXCEPT ![k] = x]
  PROVE  SessionsFine /\ session'[k] = x /\ \A s \in Sessions : s # k => session'[s] = session[s]
BY TypedSessions DEF SessionsFine

LEMMA SessionsStay ==
  ASSUME IInv, UNCHANGED session
  PROVE  SessionsFine /\ Live' = Live /\ OneLive'
BY TypedSessions DEF SessionsFine, Live, OneLive, IInv, Order

\* A step within a pass.
LEMMA Going ==
  ASSUME IInv, NEW step \in Step, rep' = [rep EXCEPT !.step = step]
  PROVE  /\ rep' \in RepType /\ rep'.step = step /\ rep'.sid = rep.sid /\ rep'.todo = rep.todo
         /\ rep'.out = rep.out
BY Typed DEF RepType

LEMMA Ended ==
  ASSUME rep' = Resting
  PROVE  rep' \in RepType /\ ~ Busy' /\ rep'.step = "idle" /\ rep'.out = {}
BY DEF Resting, RepType, Step, Busy

LEMMA PickSessionKeeps ==
  ASSUME IInv, NEW k \in Sessions, PickSession(k)
  PROVE  IInv'
<1>1. UNCHANGED <<now, doc, session, office, empty, upsets>> /\ k \in Live
  BY DEF PickSession
<1>2. rep' \in RepType /\ rep'.step = "probe" /\ rep'.sid = k /\ rep'.out = {}
  <2>1. rep' = [step |-> "probe", sid |-> k, todo |-> {}, out |-> {}]
    BY DEF PickSession, Resting
  <2>2. k \in Nat /\ {} \in SUBSET Docs
    BY ReplayAssumption DEF Sessions
  <2>3. QED
    BY <2>1, <2>2 DEF RepType, Step
<1>3. SessionsFine /\ Live' = Live /\ OneLive' /\ rep.out = {}
  BY <1>1, SessionsStay, NothingOut DEF PickSession, At
<1>4. \A s \in Live : s = k
  BY <1>1 DEF IInv, Order, OneLive
<1>5. AtWork(k)
  BY <1>1, <1>2, <1>3, <1>4, LeftNow DEF AtWork, Live
<1>6. \A s \in Sessions : Left(k, s)
  <2> TAKE s \in Sessions
  <2>1. s = k => s \in Live
    BY <1>1
  <2>2. QED
    BY <1>1, <1>3, <2>1, LeftNow DEF Left
<1>7. QED
  BY <1>1, <1>2, <1>3, <1>5, <1>6, ReplayKeeps, Typed DEF Sid

LEMMA ProbeAnswersKeeps ==
  ASSUME IInv, ProbeAnswers
  PROVE  IInv'
<1>1. UNCHANGED <<now, doc, session, office, empty, upsets>> /\ rep.step = "probe"
  BY DEF ProbeAnswers, At
<1>2. rep' \in RepType /\ rep'.step = "claim" /\ rep'.sid = rep.sid /\ rep'.out = rep.out
  BY Going DEF ProbeAnswers, Goto, Step
<1>3. SessionsFine /\ Live' = Live /\ OneLive'
  BY <1>1, SessionsStay
<1>4. PICK k \in Sessions :
        /\ k = Sid /\ session[k].status \notin {"none", "closed"} /\ session[k].why # "refused"
        /\ \A s \in Live : s # k => ~ session[s].sent /\ s \notin office.off
        /\ session[k].sent /\ DocsOf(k) # {} => office.offline
        /\ k \in office.off /\ ~ session[k].sent => office.offline
  BY <1>1, AtWorkNow DEF Busy
<1>5. AtWork(k)
  BY <1>1, <1>2, <1>3, <1>4 DEF AtWork
<1>6. \A s \in Sessions : Left(k, s)
  <2> TAKE s \in Sessions
  <2>1. QED
    BY <1>1, <1>3, <1>4, LeftNow DEF Left
<1>7. QED
  BY <1>1, <1>2, <1>3, <1>4, <1>5, <1>6, ReplayKeeps, NothingOut, Typed DEF At, Sid

LEMMA ClaimSessionKeeps ==
  ASSUME IInv, ClaimSession
  PROVE  IInv'
<1>1. UNCHANGED <<now, doc, office, empty, upsets>> /\ rep.step = "claim"
  BY DEF ClaimSession, At
<1>2. PICK k \in Sessions :
        /\ k = Sid /\ session[k].status \notin {"none", "closed"} /\ session[k].why # "refused"
        /\ \A s \in Live : s # k => ~ session[s].sent /\ s \notin office.off
        /\ session[k].sent /\ DocsOf(k) # {} => office.offline
        /\ k \in office.off /\ ~ session[k].sent => office.offline
  BY <1>1, AtWorkNow DEF Busy
<1>3. /\ rep' \in RepType /\ rep'.sid = k /\ rep'.out = rep.out
      /\ rep'.step = IF session[k].sent THEN "list" ELSE "floor"
  BY <1>2, Going DEF ClaimSession, Goto, Step, Sid
<1>4. /\ SessionsFine /\ \A s \in Sessions : s # k => session'[s] = session[s]
      /\ session'[k].sent = session[k].sent /\ session'[k].why = session[k].why
      /\ session'[k].status = IF session[k].status = "open" THEN "replaying" ELSE session[k].status
  <2>1. CASE session[k].status # "open"
    BY <1>2, <2>1, TypedSessions DEF ClaimSession, SessionsFine
  <2>2. CASE session[k].status = "open"
    <3>1. PICK x : x = [session[k] EXCEPT !.status = "replaying", !.quiet = FALSE]
      OBVIOUS
    <3>2. x \in Session /\ x.onAt = session[k].onAt /\ x.status = "replaying" /\ x.sent = session[k].sent
          /\ x.why = session[k].why
      BY <3>1, TypedSessions DEF Session
    <3>3. session' = [session EXCEPT ![k] = x]
      BY <1>2, <2>2, <3>1, TypedSessions DEF ClaimSession
    <3>4. x.onAt <= now
      BY <3>2, TypedSessions
    <3>5. QED
      BY <2>2, <3>2, <3>3, <3>4, Put
  <2>3. QED
    BY <2>1, <2>2
<1>5. Live' = Live
  BY <1>4 DEF Live
<1>6. OneLive'
  BY <1>5 DEF OneLive, IInv, Order
<1>7. AtWork(k)
  <2>1. session'[k].status \notin {"none", "closed"} /\ session'[k].status # "open" /\ session'[k].why # "refused"
    BY <1>2, <1>4
  <2>2. \A s \in Live' : s # k => ~ session'[s].sent /\ s \notin office'.off
    BY <1>1, <1>2, <1>4, <1>5 DEF Live
  <2>3. CASE session[k].sent
    BY <1>1, <1>2, <1>3, <1>4, <2>1, <2>2, <2>3 DEF AtWork
  <2>4. CASE ~ session[k].sent
    BY <1>1, <1>2, <1>3, <1>4, <2>1, <2>2, <2>4 DEF AtWork
  <2>5. QED
    BY <2>3, <2>4
<1>8. \A s \in Sessions : Left(k, s)
  <2> TAKE s \in Sessions
  <2>1. QED
    BY <1>1, <1>2, <1>3, <1>4, <1>5, LeftNow DEF Left
<1>9. QED
  BY <1>1, <1>3, <1>4, <1>6, <1>7, <1>8, ReplayKeeps, NothingOut, Typed DEF At, Sid

LEMMA Sticks ==
  ASSUME IInv, NEW k \in Sessions, NEW why \in {"order", "refused"}, Stick(k, why)
  PROVE  /\ SessionsFine /\ \A s \in Sessions : s # k => session'[s] = session[s]
         /\ session'[k].sent = session[k].sent
         /\ k \in Live => session'[k].status = "stuck" /\ session'[k].why = why
         /\ k \notin Live => session' = session
         /\ Live' = Live \ {k} /\ OneLive'
<1>1. CASE k \notin Live
  <2>1. session' = session
    BY <1>1 DEF Stick
  <2>2. Live' = Live \ {k}
    BY <1>1, <2>1 DEF Live
  <2>3. QED
    BY <1>1, <2>1, <2>2, SessionsStay
<1>2. CASE k \in Live
  <2>1. PICK x : x = [session[k] EXCEPT !.status = "stuck", !.why = why]
    OBVIOUS
  <2>2. x \in Session /\ x.onAt = session[k].onAt /\ x.status = "stuck" /\ x.why = why
        /\ x.sent = session[k].sent
    BY <2>1, TypedSessions DEF Session
  <2>3. session' = [session EXCEPT ![k] = x]
    BY <1>2, <2>1, TypedSessions DEF Stick
  <2>4. x.onAt <= now
    BY <2>2, TypedSessions
  <2>5. SessionsFine /\ session'[k] = x /\ \A s \in Sessions : s # k => session'[s] = session[s]
    BY <2>2, <2>3, <2>4, Put
  <2>6. Live' = Live \ {k}
    BY <2>2, <2>5 DEF Live
  <2>7. OneLive'
    BY <2>6 DEF OneLive, IInv, Order
  <2>8. QED
    BY <1>2, <2>2, <2>5, <2>6, <2>7
<1>3. QED
  BY <1>1, <1>2

LEMMA Went ==
  ASSUME IInv, NEW k \in Sessions, k = Sid, session' = WentOffline
  PROVE  /\ SessionsFine /\ \A s \in Sessions : s # k => session'[s] = session[s]
         /\ session'[k].status = session[k].status /\ session'[k].why = session[k].why
         /\ session'[k].sent = (session[k].sent \/ k \in Live)
         /\ Live' = Live /\ OneLive'
<1>1. CASE k \notin Live
  <2>1. session' = session
    BY <1>1 DEF WentOffline
  <2>2. session[k].sent \in BOOLEAN
    BY TypedSessions DEF Session
  <2>3. QED
    BY <1>1, <2>1, <2>2, SessionsStay
<1>2. CASE k \in Live
  <2>1. PICK x : x = [session[k] EXCEPT !.sent = TRUE, !.quiet = FALSE]
    OBVIOUS
  <2>2. x \in Session /\ x.onAt = session[k].onAt /\ x.status = session[k].status
        /\ x.why = session[k].why /\ x.sent = TRUE
    BY <2>1, TypedSessions DEF Session
  <2>3. session' = [session EXCEPT ![k] = x]
    BY <1>2, <2>1, TypedSessions DEF WentOffline
  <2>4. x.onAt <= now
    BY <2>2, TypedSessions
  <2>5. SessionsFine /\ session'[k] = x /\ \A s \in Sessions : s # k => session'[s] = session[s]
    BY <2>2, <2>3, <2>4, Put
  <2>6. Live' = Live
    BY <2>2, <2>5 DEF Live
  <2>7. OneLive'
    BY <2>6 DEF OneLive, IInv, Order
  <2>8. QED
    BY <1>2, <2>2, <2>5, <2>6, <2>7
<1>3. QED
  BY <1>1, <1>2

\* The session is parked and the pass is over.
LEMMA StickingKeeps ==
  ASSUME IInv, rep.out = {}, NEW k \in Sessions, Busy, k = Sid,
         NEW why \in {"order", "refused"}, Stick(k, why),
         why = "refused" => k \notin office.off,
         rep' = Resting, UNCHANGED <<now, doc, office, empty, upsets>>
  PROVE  IInv'
<1>1. /\ SessionsFine /\ \A s \in Sessions : s # k => session'[s] = session[s]
      /\ session'[k].sent = session[k].sent
      /\ k \in Live => session'[k].status = "stuck" /\ session'[k].why = why
      /\ k \notin Live => session' = session
      /\ Live' = Live \ {k} /\ OneLive'
  BY Sticks
<1>2. rep' \in RepType /\ ~ Busy' /\ rep'.step = "idle" /\ rep'.out = {}
  BY Ended
<1>3. \A s \in Sessions : Left(k, s)
  <2> TAKE s \in Sessions
  <2>1. CASE s = k
    BY <1>1, <1>2, <2>1, LeftNow DEF Left
  <2>2. CASE s # k
    BY <1>1, <1>2, <2>2, LeftNow DEF Left
  <2>3. QED
    BY <2>1, <2>2
<1>4. QED
  BY <1>1, <1>2, <1>3, ReplayKeeps, Typed

LEMMA CheckFloorKeeps ==
  ASSUME IInv, CheckFloor
  PROVE  IInv'
<1>1. UNCHANGED <<now, doc, office, empty, upsets>> /\ rep.step = "floor" /\ Busy
  BY DEF CheckFloor, At, Busy
<1>2. PICK k \in Sessions :
        /\ k = Sid /\ session[k].status \notin {"none", "closed"} /\ session[k].why # "refused"
        /\ \A s \in Live : s # k => ~ session[s].sent /\ s \notin office.off
        /\ session[k].status # "open" /\ ~ session[k].sent
        /\ k \in office.off /\ ~ session[k].sent => office.offline
  BY <1>1, AtWorkNow
<1>3. CASE Stick(Sid, "order") /\ Rest
  BY <1>1, <1>2, <1>3, NothingOut, StickingKeeps DEF Rest, At
<1>4. CASE office.offline /\ session' = WentOffline /\ Goto("list")
  <2>1. rep' \in RepType /\ rep'.step = "list" /\ rep'.sid = k /\ rep'.out = rep.out
    BY <1>2, <1>4, Going DEF Goto, Step, Sid
  <2>2. /\ SessionsFine /\ \A s \in Sessions : s # k => session'[s] = session[s]
        /\ session'[k].status = session[k].status /\ session'[k].why = session[k].why
        /\ session'[k].sent = (session[k].sent \/ k \in Live)
        /\ Live' = Live /\ OneLive'
    BY <1>2, <1>4, Went
  <2>3. AtWork(k)
    BY <1>1, <1>2, <1>4, <2>1, <2>2 DEF AtWork, Live
  <2>4. \A s \in Sessions : Left(k, s)
    <3> TAKE s \in Sessions
    <3>1. CASE s = k
      BY <1>1, <1>2, <1>4, <2>1, <2>2, <3>1, LeftNow DEF Left
    <3>2. CASE s # k
      BY <1>1, <1>4, <2>1, <2>2, <3>2, LeftNow DEF Left
    <3>3. QED
      BY <3>1, <3>2
  <2>5. QED
    BY <1>1, <2>1, <2>2, <2>3, <2>4, ReplayKeeps, NothingOut, Typed DEF At, Sid
<1>5. CASE ~ office.offline /\ UNCHANGED session /\ Goto("goOffline")
  <2>1. rep' \in RepType /\ rep'.step = "goOffline" /\ rep'.sid = k /\ rep'.out = rep.out
    BY <1>2, <1>5, Going DEF Goto, Step, Sid
  <2>2. SessionsFine /\ Live' = Live /\ OneLive'
    BY <1>5, SessionsStay
  <2>3. AtWork(k)
    BY <1>1, <1>2, <1>5, <2>1, <2>2 DEF AtWork
  <2>4. \A s \in Sessions : Left(k, s)
    BY <1>1, <1>2, <1>5, <2>1, <2>2, LeftNow DEF Left
  <2>5. QED
    BY <1>1, <1>5, <2>1, <2>2, <2>3, <2>4, ReplayKeeps, NothingOut, Typed DEF At, Sid
<1>6. QED
  BY <1>3, <1>4, <1>5 DEF CheckFloor

LEMMA OffersOffline ==
  ASSUME IInv, NEW k \in Sessions, k = Sid, TakeGoOffline
  PROVE  office' \in OfficeType /\ office'.offline = TRUE /\ office'.off = office.off \union {k}
<1>1. office \in OfficeType /\ session[k].start \in Int
  BY Typed DEF Session
<1>2. office' = [office EXCEPT !.last = session[k].start, !.offline = TRUE, !.off = @ \union {k}]
  BY DEF TakeGoOffline
<1>3. QED
  BY <1>1, <1>2 DEF OfficeType

LEMMA BackOnlineIsTyped ==
  ASSUME IInv, BackOnline
  PROVE  office' \in OfficeType /\ office'.offline = FALSE /\ office'.off = office.off
<1>1. office \in OfficeType /\ now \in Int
  BY Typed
<1>2. QED
  BY <1>1 DEF OfficeType, BackOnline

LEMMA GoOfflineKeeps ==
  ASSUME IInv, GoOffline
  PROVE  IInv'
<1>1. UNCHANGED <<now, doc, empty, upsets>> /\ rep.step = "goOffline" /\ Busy /\ TakeGoOffline
  BY DEF GoOffline, At, Busy
<1>2. PICK k \in Sessions :
        /\ k = Sid /\ session[k].status \notin {"none", "closed"} /\ session[k].why # "refused"
        /\ \A s \in Live : s # k => ~ session[s].sent /\ s \notin office.off
        /\ session[k].status # "open"
  BY <1>1, AtWorkNow
<1>3. office' \in OfficeType /\ office'.offline = TRUE /\ office'.off = office.off \union {k}
  BY <1>1, <1>2, OffersOffline
<1>4. rep' \in RepType /\ rep'.step = "list" /\ rep'.sid = k /\ rep'.out = rep.out
  BY <1>2, Going DEF GoOffline, Goto, Step, Sid
<1>5. /\ SessionsFine /\ \A s \in Sessions : s # k => session'[s] = session[s]
      /\ session'[k].status = session[k].status /\ session'[k].why = session[k].why
      /\ session'[k].sent = (session[k].sent \/ k \in Live)
      /\ Live' = Live /\ OneLive'
  BY <1>2, Went DEF GoOffline
<1>6. AtWork(k)
  BY <1>1, <1>2, <1>3, <1>4, <1>5 DEF AtWork, Live
<1>7. \A s \in Sessions : Left(k, s)
  <2> TAKE s \in Sessions
  <2>1. CASE s = k
    BY <1>1, <1>2, <1>3, <1>4, <1>5, <2>1, LeftNow DEF Left
  <2>2. CASE s # k
    BY <1>1, <1>3, <1>4, <1>5, <2>2, LeftNow DEF Left
  <2>3. QED
    BY <2>1, <2>2
<1>8. QED
  BY <1>1, <1>3, <1>4, <1>5, <1>6, <1>7, ReplayKeeps, NothingOut, Typed DEF At, Sid

LEMMA GoOfflineLostKeeps ==
  ASSUME IInv, GoOfflineLost
  PROVE  IInv'
<1>1. UNCHANGED <<now, doc, session, empty>> /\ rep.step = "goOffline" /\ Busy /\ TakeGoOffline
      /\ rep' = Resting /\ upsets' = upsets + 1 /\ upsets < MaxUpsets
  BY DEF GoOfflineLost, At, Busy, Rest, Upset
<1>2. PICK k \in Sessions :
        /\ k = Sid /\ session[k].status \notin {"none", "closed"} /\ session[k].why # "refused"
        /\ session[k].status # "open"
  BY <1>1, AtWorkNow
<1>3. office' \in OfficeType /\ office'.offline = TRUE /\ office'.off = office.off \union {k}
  BY <1>1, <1>2, OffersOffline
<1>4. rep' \in RepType /\ ~ Busy' /\ rep'.step = "idle" /\ rep'.out = {}
  BY <1>1, Ended
<1>5. SessionsFine /\ Live' = Live /\ OneLive'
  BY <1>1, SessionsStay
<1>6. \A s \in Sessions : Left(k, s)
  <2> TAKE s \in Sessions
  <2>1. CASE s = k
    BY <1>1, <1>2, <1>3, <1>4, <1>5, <2>1, LeftNow DEF Left
  <2>2. CASE s # k
    BY <1>1, <1>3, <1>4, <1>5, <2>2, LeftNow DEF Left
  <2>3. QED
    BY <2>1, <2>2
<1>7. upsets' \in upsets..MaxUpsets
  BY <1>1, Typed
<1>8. QED
  BY <1>1, <1>3, <1>4, <1>5, <1>6, <1>7, ReplayKeeps, NothingOut, Typed DEF At

LEMMA GoOfflineRefusedKeeps ==
  ASSUME IInv, GoOfflineRefused
  PROVE  IInv'
<1>1. /\ rep.step = "goOffline" /\ Busy /\ Stick(Sid, "refused") /\ rep' = Resting
      /\ UNCHANGED <<now, doc, office, empty, upsets>>
  BY DEF GoOfflineRefused, At, Busy, Rest
<1>2. PICK k \in Sessions : k = Sid /\ k \notin office.off
  BY <1>1, AtWorkNow
<1>3. QED
  BY <1>1, <1>2, NothingOut, StickingKeeps DEF At

LEMMA ListDocumentsKeeps ==
  ASSUME IInv, ListDocuments
  PROVE  IInv'
<1>1. UNCHANGED <<now, doc, session, office, empty, upsets>> /\ rep.step = "list" /\ Busy
  BY DEF ListDocuments, At, Busy
<1>2. PICK k \in Sessions :
        /\ k = Sid /\ session[k].status \notin {"none", "closed"} /\ session[k].why # "refused"
        /\ \A s \in Live : s # k => ~ session[s].sent /\ s \notin office.off
        /\ session[k].status # "open"
        /\ DocsOf(k) = {} \/ office.offline
        /\ k \in Live => session[k].sent
        /\ session[k].sent /\ DocsOf(k) # {} => office.offline
  BY <1>1, AtWorkNow
<1>3. PICK S \in SUBSET DocsOf(k) :
        /\ \A d \in S, e \in DocsOf(k) \ S : doc[d].date <= doc[e].date
        /\ rep' = [rep EXCEPT !.step = "send", !.todo = S]
  BY <1>2 DEF ListDocuments
<1>4. S \subseteq Docs /\ \A d \in S : doc[d].st = "pending" /\ doc[d].sid = k
  BY DEF DocsOf, Unsent
<1>5. rep' \in RepType /\ rep'.step = "send" /\ rep'.sid = k /\ rep'.todo = S
      /\ rep'.out = rep.out
  BY <1>2, <1>3, <1>4, Typed DEF RepType, Step, Sid
<1>6. SessionsFine /\ Live' = Live /\ OneLive'
  BY <1>1, SessionsStay
<1>7. AtWork(k)
  BY <1>1, <1>2, <1>3, <1>4, <1>5, <1>6 DEF AtWork
<1>8. \A s \in Sessions : Left(k, s)
  BY <1>1, <1>2, <1>5, <1>6, LeftNow DEF Left
<1>9. QED
  BY <1>1, <1>5, <1>6, <1>7, <1>8, ReplayKeeps, NothingOut, Typed DEF At, Sid

LEMMA RemainingKeeps ==
  ASSUME IInv, Remaining
  PROVE  IInv'
<1>1. UNCHANGED <<now, doc, session, office, empty, upsets>> /\ rep.step = "send" /\ Busy
  BY DEF Remaining, At, Busy
<1>2. PICK k \in Sessions :
        /\ k = Sid /\ session[k].status \notin {"none", "closed"} /\ session[k].why # "refused"
        /\ \A s \in Live : s # k => ~ session[s].sent /\ s \notin office.off
        /\ session[k].status # "open"
        /\ k \in Live => session[k].sent
        /\ session[k].sent /\ DocsOf(k) # {} => office.offline
  BY <1>1, AtWorkNow
<1>3. rep.out = {}
  BY DEF Remaining, IInv, Flight
<1>4. SessionsFine /\ Live' = Live /\ OneLive'
  BY <1>1, SessionsStay
<1>5. CASE Rest
  <2>1. rep' \in RepType /\ ~ Busy' /\ rep'.step = "idle" /\ rep'.out = {}
    BY <1>5, Ended DEF Rest
  <2>2. \A s \in Sessions : Left(k, s)
    BY <1>1, <1>4, <2>1, LeftNow DEF Left
  <2>3. QED
    BY <1>1, <1>4, <2>1, <2>2, ReplayKeeps, <1>3, Typed DEF At
<1>6. CASE DocsOf(k) = {} /\ (Goto("state") \/ Goto("goOnline"))
  <2>1. rep' \in RepType /\ rep'.step \in {"state", "goOnline"} /\ rep'.sid = k /\ rep'.out = rep.out
    BY <1>2, <1>6, Going DEF Goto, Step, Sid
  <2>2. AtWork(k)
    BY <1>1, <1>2, <1>4, <1>6, <2>1 DEF AtWork
  <2>3. \A s \in Sessions : Left(k, s)
    BY <1>1, <1>2, <1>4, <1>6, <2>1, LeftNow DEF Left
  <2>4. QED
    BY <1>1, <1>4, <2>1, <2>2, <2>3, ReplayKeeps, <1>3, Typed DEF At, Sid
<1>7. QED
  BY <1>2, <1>5, <1>6 DEF Remaining

\* Going online leaves nothing behind: only k had been touched, and its queue is empty.
LEMMA OnlineAgain ==
  ASSUME IInv, NEW k \in Sessions, DocsOf(k) = {}, k \in Live => session[k].sent,
         session[k].why # "refused", session[k].status # "open",
         \A s \in Live : s # k => ~ session[s].sent /\ s \notin office.off,
         \A s \in Sessions : /\ session'[s].status = session[s].status
                             /\ session'[s].why = session[s].why /\ session'[s].sent = session[s].sent,
         Live' = Live, office'.off = office.off,
         rep'.step \notin {"probe", "claim", "floor"}
  PROVE  \A s \in Sessions : Left(k, s)
<1> TAKE s \in Sessions
<1>1. CASE s = k
  BY <1>1, LeftNow DEF Left
<1>2. CASE s # k
  BY <1>2, LeftNow DEF Left
<1>3. QED
  BY <1>1, <1>2

LEMMA GoOnlineKeeps ==
  ASSUME IInv, GoOnline
  PROVE  IInv'
<1>1. UNCHANGED <<now, doc, empty, upsets>> /\ rep.step = "goOnline" /\ Busy /\ BackOnline
  BY DEF GoOnline, At, Busy
<1>2. PICK k \in Sessions :
        /\ k = Sid /\ session[k].status \notin {"none", "closed"} /\ session[k].why # "refused"
        /\ \A s \in Live : s # k => ~ session[s].sent /\ s \notin office.off
        /\ session[k].status # "open" /\ (k \in Live => session[k].sent) /\ DocsOf(k) = {}
  BY <1>1, AtWorkNow
<1>3. office' \in OfficeType /\ office'.offline = FALSE /\ office'.off = office.off
  BY <1>1, BackOnlineIsTyped
<1>4. rep' \in RepType /\ rep'.step = "state" /\ rep'.sid = k /\ rep'.out = rep.out
  BY <1>2, Going DEF GoOnline, Goto, Step, Sid
<1>5. /\ SessionsFine
      /\ \A s \in Sessions : /\ session'[s].status = session[s].status
                             /\ session'[s].why = session[s].why /\ session'[s].sent = session[s].sent
  <2>1. CASE session[k].status # "replaying"
    BY <1>2, <2>1, TypedSessions DEF GoOnline, SessionsFine
  <2>2. CASE session[k].status = "replaying"
    <3>1. PICK x : x = [session[k] EXCEPT !.onAt = now, !.recent = TRUE, !.quiet = FALSE]
      OBVIOUS
    <3>2. now \in Nat
      BY Typed
    <3>3. x \in Session /\ x.onAt = now /\ x.status = session[k].status
          /\ x.why = session[k].why /\ x.sent = session[k].sent
      BY <3>1, <3>2, TypedSessions DEF Session
    <3>4. session' = [session EXCEPT ![k] = x]
      BY <1>2, <2>2, <3>1, TypedSessions DEF GoOnline
    <3>5. x.onAt <= now
      BY <3>2, <3>3
    <3>6. SessionsFine /\ session'[k] = x /\ \A s \in Sessions : s # k => session'[s] = session[s]
      BY <3>3, <3>4, <3>5, Put
    <3>7. QED
      BY <3>3, <3>6
  <2>3. QED
    BY <2>1, <2>2
<1>6. Live' = Live
  BY <1>5 DEF Live
<1>7. OneLive'
  BY <1>6 DEF OneLive, IInv, Order
<1>8. AtWork(k)
  BY <1>1, <1>2, <1>3, <1>4, <1>5, <1>6 DEF AtWork, Live
<1>9. \A s \in Sessions : Left(k, s)
  BY <1>2, <1>3, <1>4, <1>5, <1>6, OnlineAgain
<1>10. QED
  BY <1>1, <1>3, <1>4, <1>5, <1>7, <1>8, <1>9, ReplayKeeps, NothingOut, Typed DEF At, Sid

LEMMA GoOnlineLostKeeps ==
  ASSUME IInv, GoOnlineLost
  PROVE  IInv'
<1>1. UNCHANGED <<now, doc, session, empty>> /\ rep.step = "goOnline" /\ Busy /\ BackOnline
      /\ rep' = Resting /\ upsets' = upsets + 1 /\ upsets < MaxUpsets
  BY DEF GoOnlineLost, At, Busy, Rest, Upset
<1>2. PICK k \in Sessions :
        /\ k = Sid /\ session[k].status \notin {"none", "closed"} /\ session[k].why # "refused"
        /\ \A s \in Live : s # k => ~ session[s].sent /\ s \notin office.off
        /\ session[k].status # "open" /\ (k \in Live => session[k].sent) /\ DocsOf(k) = {}
  BY <1>1, AtWorkNow
<1>3. office' \in OfficeType /\ office'.offline = FALSE /\ office'.off = office.off
  BY <1>1, BackOnlineIsTyped
<1>4. rep' \in RepType /\ ~ Busy' /\ rep'.step = "idle" /\ rep'.out = {}
  BY <1>1, Ended
<1>5. SessionsFine /\ Live' = Live /\ OneLive'
  BY <1>1, SessionsStay
<1>6. \A s \in Sessions : Left(k, s)
  BY <1>1, <1>2, <1>3, <1>4, <1>5, OnlineAgain
<1>7. upsets' \in upsets..MaxUpsets
  BY <1>1, Typed
<1>8. QED
  BY <1>1, <1>3, <1>4, <1>5, <1>6, <1>7, ReplayKeeps, NothingOut, Typed DEF At

LEMMA CloseSessionKeeps ==
  ASSUME IInv, CloseSession
  PROVE  IInv'
<1>1. UNCHANGED <<now, doc, office, empty, upsets>> /\ rep.step = "state" /\ Busy /\ rep' = Resting
  BY DEF CloseSession, At, Busy, Rest
<1>2. PICK k \in Sessions :
        k = Sid /\ session[k].why # "refused" /\ DocsOf(k) = {}
  BY <1>1, AtWorkNow
<1>3. rep' \in RepType /\ ~ Busy' /\ rep'.step = "idle" /\ rep'.out = {}
  BY <1>1, Ended
<1>4. CASE session[k].status # "replaying"
  <2>1. UNCHANGED session
    BY <1>2, <1>4 DEF CloseSession
  <2>2. SessionsFine /\ Live' = Live /\ OneLive'
    BY <2>1, SessionsStay
  <2>3. \A s \in Sessions : Left(k, s)
    BY <1>1, <1>3, <2>1, <2>2, LeftNow DEF Left
  <2>4. QED
    BY <1>1, <1>3, <2>2, <2>3, ReplayKeeps, NothingOut, Typed DEF At
<1>5. CASE session[k].status = "replaying"
  <2>1. PICK x : x = [session[k] EXCEPT !.status = "closed"]
    OBVIOUS
  <2>2. x \in Session /\ x.onAt = session[k].onAt /\ x.status = "closed" /\ x.why = session[k].why
        /\ x.sent = session[k].sent
    BY <2>1, TypedSessions DEF Session
  <2>3. session' = [session EXCEPT ![k] = x]
    BY <1>2, <1>5, <2>1, TypedSessions DEF CloseSession
  <2>4. x.onAt <= now
    BY <2>2, TypedSessions
  <2>5. SessionsFine /\ session'[k] = x /\ \A s \in Sessions : s # k => session'[s] = session[s]
    BY <2>2, <2>3, <2>4, Put
  <2>6. Live' = Live \ {k}
    BY <2>2, <2>5 DEF Live
  <2>7. OneLive'
    BY <2>6 DEF OneLive, IInv, Order
  <2>8. \A s \in Sessions : Left(k, s)
    <3> TAKE s \in Sessions
    <3>1. CASE s = k
      BY <1>1, <1>2, <1>3, <2>2, <2>5, <2>6, <3>1, LeftNow DEF Left
    <3>2. CASE s # k
      BY <1>1, <1>3, <2>5, <2>6, <3>2, LeftNow DEF Left
    <3>3. QED
      BY <3>1, <3>2
  <2>9. QED
    BY <1>1, <1>3, <2>5, <2>7, <2>8, ReplayKeeps, NothingOut, Typed DEF At
<1>6. QED
  BY <1>4, <1>5

----------------------------------------------------------------------------------
(* The invariant holds.                                                          *)

LEMMA InitHolds == Init => IInv
<1> SUFFICES ASSUME Init PROVE IInv
  OBVIOUS
<1>1. MaxAttempts \in Nat \ {0}
  BY ReplayAssumption
<1>2. NoDoc \in Doc /\ NoDoc.date = 0 /\ NoDoc.st = "none" /\ NoDoc.attempts = 0 /\ Sound(NoDoc)
  BY <1>1 DEF NoDoc, Doc, DocState, Sound
<1>3. NoSession \in Session /\ NoSession.onAt = 0 /\ NoSession.status = "none"
      /\ NoSession.why = "" /\ NoSession.sent = FALSE
  BY DEF NoSession, Session
<1>4. Resting \in RepType /\ Resting.step = "idle" /\ Resting.out = {}
  BY DEF Resting, RepType, Step
<1>5. office \in OfficeType /\ office.off = {} /\ office.offline = FALSE
  BY DEF Init, OfficeType
<1>6. \A d \in Docs : doc[d] = NoDoc
  BY DEF Init
<1>7. TypeOK
  <2>1. upsets = 0 /\ upsets \in 0..MaxUpsets
    BY ReplayAssumption DEF Init
  <2>2. \A d \in Docs : doc[d].attempts <= MaxAttempts + upsets
    BY <1>1, <1>2, <1>6, <2>1
  <2>3. QED
    BY <1>2, <1>3, <1>4, <1>5, <2>1, <2>2 DEF Init, TypeOK, RepType, OfficeType
<1>8. \A s \in Sessions : session[s] = NoSession
  BY DEF Init
<1>9. Clock /\ \A d \in Docs : DocAt(d)
  <2>1. now = 1
    BY DEF Init
  <2>2. Clock
    <3>1. \A d \in Docs : doc[d].date <= now
      BY <1>2, <1>6, <2>1
    <3>2. \A s \in Sessions : session[s].onAt <= now
      <4>1. NoSession.onAt = 0
        BY <1>3
      <4>2. \A s \in Sessions : session[s].onAt = 0
        BY <1>8, <4>1
      <4>3. QED
        BY <2>1, <4>2
    <3>3. QED
      BY <3>1, <3>2 DEF Clock
  <2>3. \A d \in Docs : DocAt(d)
    BY <1>2, <1>6 DEF DocAt
  <2>4. QED
    BY <2>2, <2>3
<1>10. ~ Busy /\ ~ Claimed /\ Live = {} /\ ~ At("send") /\ rep.step = "idle"
  BY <1>3, <1>4, <1>8 DEF Busy, Claimed, Live, At, Init
<1>11. OneLive /\ Whose /\ Stage /\ InTurn
  BY <1>10 DEF OneLive, Whose, Stage, InTurn, At
<1>12. \A s \in Sessions : SessionAt(s) /\ Window(s)
  BY <1>3, <1>5, <1>8, <1>10 DEF SessionAt, Window
<1>13. Flight
  BY <1>2, <1>4, <1>6 DEF Init, Flight, Unsent
<1>14. QED
  BY <1>7, <1>9, <1>11, <1>12, <1>13 DEF IInv, Order

LEMMA SaleStepKeeps ==
  ASSUME IInv, NEW d \in Docs, SaleStep(d)
  PROVE  IInv'
BY OnlineBeginsKeeps, OnlineArrivesKeeps, OnlineLostKeeps, OnlineFailsKeeps, StampBeginsKeeps,
   StampServerKeeps, TillPrintsKeeps, JoinSessionKeeps, StampDeviceKeeps, SweepStaleKeeps DEF SaleStep

LEMMA SendStepKeeps ==
  ASSUME IInv, NEW d \in Docs, SendStep(d)
  PROVE  IInv'
BY SkipDocumentKeeps, ClaimDocumentKeeps, DocumentArrivesKeeps, SendDocumentKeeps, DocumentFailsKeeps
   DEF SendStep

LEMMA CronStepKeeps ==
  ASSUME IInv, CronStep
  PROVE  IInv'
BY PickSessionKeeps, ProbeAnswersKeeps, IdleKeeps, ReplayThrowsKeeps, ClaimSessionKeeps, CheckFloorKeeps, GoOfflineKeeps,
   GoOfflineLostKeeps, GoOfflineRefusedKeeps, ListDocumentsKeeps, SendStepKeeps, RemainingKeeps,
   GoOnlineKeeps, GoOnlineLostKeeps, CloseSessionKeeps, ClaimDueKeeps DEF CronStep

LEMMA StutterKeeps ==
  ASSUME IInv, UNCHANGED vars
  PROVE  IInv'
BY SessionMoves, DocsStay, Typed, TypedSessions DEF vars, SessionsFine, RestType, Lands, RepMoves, Same, Opens

LEMMA StepHolds == IInv /\ [Next]_vars => IInv'
BY TickKeeps, ReportEmptyKeeps, DeviceReadyKeeps, CrashKeeps, SaleStepKeeps, FallsQuietKeeps,
   SessionExpiresKeeps, CronStepKeeps, StutterKeeps DEF Next

LEMMA InvariantHolds == Spec => []IInv
BY InitHolds, StepHolds, PTL DEF Spec

----------------------------------------------------------------------------------
(* What follows.                                                                 *)

\* The receipt that is out is the foremost of its session, and the window is open.
LEMMA SendingInOrder ==
  ASSUME IInv, NEW d \in rep.out
  PROVE  office.offline /\ \A e \in DocsOf(doc[d].sid) : doc[e].date >= doc[d].date
<1>1. /\ d \in Docs /\ At("send") /\ office.offline /\ d \in rep.todo /\ doc[d].sid = Sid
  BY Out
<1>2. ASSUME NEW e \in DocsOf(Sid)
      PROVE  doc[e].date >= doc[d].date
  <2>1. CASE e \in rep.todo
    <3>1. doc[d].date <= doc[e].date
      BY <2>1 DEF IInv, Flight
    <3>2. doc[d].date \in Nat /\ doc[e].date \in Nat
      BY <1>1, Typed DEF DocsOf
    <3>3. QED
      BY <3>1, <3>2
  <2>2. CASE e \notin rep.todo
    <3>1. doc[d].date <= doc[e].date
      BY <1>1, <2>2 DEF IInv, Order, InTurn
    <3>2. doc[d].date \in Nat /\ doc[e].date \in Nat
      BY <1>1, Typed DEF DocsOf
    <3>3. QED
      BY <3>1, <3>2
  <2>3. QED
    BY <2>1, <2>2
<1>3. QED
  BY <1>1, <1>2

\* Whoever has the office take an offline receipt is the replay.
LEMMA OnlyTheReplaySends ==
  ASSUME IInv, [Next]_vars, NEW d \in Docs, Sent(d), Offline(d)
  PROVE  d \in rep.out
<1>1. office'.has # office.has /\ d \in office'.has /\ d \notin office.has /\ doc[d].mode # "online"
  BY DEF Sent, Offline
<1>2. ASSUME NEW n, NEW x, office' = [office EXCEPT !.last = n, !.has = @ \union {x}]
      PROVE  x = d
  <2>1. office \in OfficeType
    BY Typed
  <2>2. office'.has = office.has \union {x}
    BY <1>2, <2>1 DEF OfficeType
  <2>3. QED
    BY <1>1, <2>2
<1>3. TakeGoOffline \/ BackOnline => office'.has = office.has
  BY Typed DEF TakeGoOffline, BackOnline, OfficeType
<1>4. ASSUME NEW x \in Docs, SaleStep(x)
      PROVE  FALSE
  <2>1. OnlineArrives(x) \/ OnlineLost(x)
    BY <1>1, <1>4 DEF SaleStep, OnlineBegins, OnlineFails, StampBegins, StampServer, TillPrints,
                      JoinSession, StampDevice, SweepStale
  <2>2. doc[x].mode = "online"
    BY <2>1, Typed DEF OnlineArrives, OnlineLost, Sound
  <2>3. Register(x)
    BY <1>1, <2>1 DEF OnlineArrives, OnlineLost
  <2>4. x = d
    BY <1>2, <2>3 DEF Register
  <2>5. QED
    BY <1>1, <2>2, <2>4
<1>5. ASSUME NEW x \in Docs, SendStep(x)
      PROVE  d \in rep.out
  <2>1. DocumentArrives(x)
    BY <1>1, <1>5 DEF SendStep, SkipDocument, ClaimDocument, SendDocument, DocumentRefused, DocumentFails
  <2>2. x = d
    BY <1>2, <2>1 DEF DocumentArrives
  <2>3. QED
    BY <2>1, <2>2 DEF DocumentArrives
<1>6. ~ UNCHANGED vars
  BY <1>1 DEF vars
<1>7. ~ (Tick \/ ReportEmpty \/ DeviceReady \/ Crash)
  BY <1>1 DEF Tick, ReportEmpty, DeviceReady, Crash
<1>8. \A s \in Sessions : ~ (FallsQuiet(s) \/ MayGoOnlineAgain(s) \/ SessionExpires(s))
  BY <1>1 DEF FallsQuiet, MayGoOnlineAgain, SessionExpires
<1>9. CASE CronStep
  <2>1. \A s \in Sessions : ~ PickSession(s)
    BY <1>1 DEF PickSession
  <2>2. ~ (ProbeAnswers \/ CallFails \/ ReplayThrows \/ ClaimSession \/ CheckFloor \/ GoOfflineRefused
           \/ ListDocuments \/ Remaining \/ CloseSession \/ ClaimDue \/ BatchEnds)
    BY <1>1 DEF ProbeAnswers, CallFails, ReplayThrows, ClaimSession, CheckFloor, GoOfflineRefused,
                ListDocuments, Remaining, CloseSession, ClaimDue, BatchEnds
  <2>3. ~ (GoOffline \/ GoOfflineLost \/ GoOnline \/ GoOnlineLost)
    BY <1>1, <1>3 DEF GoOffline, GoOfflineLost, GoOnline, GoOnlineLost
  <2>4. QED
    BY <1>5, <1>9, <2>1, <2>2, <2>3 DEF CronStep
<1>10. QED
  BY <1>4, <1>6, <1>7, <1>8, <1>9 DEF Next

\* The state of the register is what the code takes it for: every session is
\* dated, and a document is claimed MAX_ATTEMPTS times at most, and once more for
\* each failed statement or restart between its claim and its outcome
\* (claimSessionDocument sets no limit, markFailed does).
THEOREM TypeCorrect == Spec => []TypeOK
BY InvariantHolds, PTL DEF IInv

\* A closed session leaves no receipt that nobody sends any more (stampNext and
\* stampDeviceNext under the session's lock, the second listSessionDocuments).
THEOREM ClosedLeavesNothingHolds == Spec => []ClosedLeavesNothing
<1>1. IInv => ClosedLeavesNothing
  BY DEF IInv, Order, SessionAt, ClosedLeavesNothing
<1>2. QED
  BY <1>1, InvariantHolds, PTL

\* A go-offline whose answer was lost is never refused the second time
\* (state.manualOffline in replayOneSession).
THEOREM LostGoOfflineIsFoundHolds == Spec => []LostGoOfflineIsFound
<1>1. IInv => LostGoOfflineIsFound
  BY DEF IInv, Order, SessionAt, LostGoOfflineIsFound
<1>2. QED
  BY <1>1, InvariantHolds, PTL

\* Receipts reach the office in the order of their dates, whatever was refused,
\* lost or resumed between two of them (listSessionDocuments, replayOneSession).
THEOREM ReplayInDateOrderHolds == Spec => ReplayInDateOrder
<1> DEFINE InOrderNow == \A d \in Docs : Sent(d) /\ Offline(d) =>
                 \A e \in DocsOf(doc[d].sid) \ office.has : doc[e].date >= doc[d].date
<1>1. IInv /\ [Next]_vars => [InOrderNow]_vars
  <2> SUFFICES ASSUME IInv, [Next]_vars, NEW d \in Docs, Sent(d), Offline(d)
               PROVE  \A e \in DocsOf(doc[d].sid) \ office.has : doc[e].date >= doc[d].date
    OBVIOUS
  <2>1. d \in rep.out
    BY OnlyTheReplaySends
  <2>2. QED
    BY <2>1, SendingInOrder
<1>2. QED
  BY <1>1, InvariantHolds, PTL DEF Spec, ReplayInDateOrder

\* A receipt printed offline reaches the office only between the go-offline and
\* the go-online of its session.
THEOREM SentInsideWindowHolds == Spec => SentInsideWindow
<1> DEFINE Inside == \A d \in Docs : Sent(d) /\ Offline(d) => office.offline
<1>1. IInv /\ [Next]_vars => [Inside]_vars
  <2> SUFFICES ASSUME IInv, [Next]_vars, NEW d \in Docs, Sent(d), Offline(d)
               PROVE  office.offline
    OBVIOUS
  <2>1. d \in rep.out
    BY OnlyTheReplaySends
  <2>2. QED
    BY <2>1, SendingInOrder
<1>2. QED
  BY <1>1, InvariantHolds, PTL DEF Spec, SentInsideWindow

==================================================================================
