------------------------- MODULE FiscalRateLimitProofs -------------------------
(***************************************************************************)
(* The retry pass cannot starve a live checkout, and the provider meets no *)
(* more than the burst and the refill, whatever the capacity, the refill,  *)
(* the reserve, the wait and the number of callers.                        *)
(*                                                                         *)
(* Two buckets are compared, the one there is and the one there would be   *)
(* without the retry pass.  A background call may take a token only while  *)
(* the level is no deeper than its quoted wait allows, which bounds the    *)
(* gap it leaves; a live call lowers both buckets alike; refilling closes  *)
(* the gap or keeps it, since both are cut off at the same brim.           *)
(***************************************************************************)
EXTENDS FiscalRateLimit, FiniteSetTheorems, TLAPS

Gap == (Capacity - LiveReserve) * TokenMs + MaxWaitMs

(* The two levels are numbers under the brim, at most the gap apart.       *)
RateInv ==
  /\ level \in Int /\ level <= Full
  /\ alone \in Int /\ alone <= Full
  /\ level >= alone - Gap

(* The constants are integers, and the gap is the brim less the reserve,   *)
(* plus the wait (rateLimit.ts:18-28).                                     *)
LEMMA GapParts ==
  /\ Full \in Int
  /\ LiveReserve * TokenMs \in Nat
  /\ Gap = Full - LiveReserve * TokenMs + MaxWaitMs
  /\ Gap \in Nat
PROOF
<1>1. /\ Capacity \in Nat /\ LiveReserve \in Nat /\ TokenMs \in Nat /\ TokenMs > 0
      /\ LiveReserve < Capacity /\ MaxWaitMs \in Nat
  BY RateAssumption DEF RateAssumption
<1>2. Full \in Int /\ LiveReserve * TokenMs \in Nat
  BY <1>1 DEF Full
<1>3. (Capacity - LiveReserve) * TokenMs = Capacity * TokenMs - LiveReserve * TokenMs
  BY <1>1
<1>4. (Capacity - LiveReserve) * TokenMs \in Nat
  <2>1. Capacity - LiveReserve \in Nat
    BY <1>1
  <2> QED BY <1>1, <2>1
<1> QED BY <1>1, <1>2, <1>3, <1>4 DEF Gap, Full

(* A call that is not declined takes its token and keeps the two buckets   *)
(* within the gap (rateLimit.ts:79-116).                                   *)
LEMMA TokenKeepsGap ==
  ASSUME RateInv, NEW c \in Callers, TakeToken(c), ~ Declined(c)
  PROVE  RateInv'
PROOF
<1>1. TokenMs \in Nat /\ TokenMs > 0 /\ MaxWaitMs \in Nat /\ Gap' = Gap /\ Full' = Full
  BY RateAssumption DEF RateAssumption, Gap, Full
<1>2. CASE c \notin Background
  BY <1>1, <1>2, GapParts DEF RateInv, TakeToken
<1>3. CASE c \in Background
  <2>1. LiveReserve * TokenMs + TokenMs - level <= MaxWaitMs
    BY <1>1, <1>3, GapParts DEF RateInv, Declined, WaitMs, Floor
  <2> QED BY <1>1, <1>3, <2>1, GapParts DEF RateInv, TakeToken
<1> QED BY <1>2, <1>3

(* Time fills both buckets up to the same brim (rateLimit.ts:43-48).       *)
LEMMA RefillKeepsGap ==
  ASSUME RateInv, level' = Refilled(level), alone' = Refilled(alone)
  PROVE  RateInv'
PROOF
<1>1. StepMs \in Nat /\ Gap' = Gap /\ Full' = Full
  BY RateAssumption DEF RateAssumption, Gap, Full
<1> QED BY <1>1, GapParts DEF RateInv, Refilled

(* A free token is never declined: nothing is quoted for it                *)
(* (rateLimit.ts:79-116).                                                  *)
LEMMA FreeTokenNotDeclined ==
  ASSUME RateInv, NEW c \in Callers, WaitMs(c) <= 0
  PROVE  ~ Declined(c)
PROOF
<1>1. MaxWaitMs \in Nat /\ TokenMs \in Nat
  BY RateAssumption DEF RateAssumption
<1>2. WaitMs(c) \in Int
  BY <1>1, GapParts DEF WaitMs, Floor, RateInv
<1> QED BY <1>1, <1>2 DEF Declined

(* However long the retry pass drains a backlog, the bucket is never more  *)
(* than the unreserved part and one permitted wait below what live         *)
(* checkouts alone would have left of it (rateLimit.ts:54-63).             *)
THEOREM RetryPassCostsLittle == Spec => []DrainCostsLittle
PROOF
<1>1. Init => RateInv
  BY GapParts DEF Init, RateInv
<1>2. RateInv /\ [Next]_vars => RateInv'
  <2> SUFFICES ASSUME RateInv, [Next]_vars PROVE RateInv'
    OBVIOUS
  <2>1. ASSUME NEW c \in Callers, SendNow(c) PROVE RateInv'
    BY <2>1, FreeTokenNotDeclined, TokenKeepsGap DEF SendNow
  <2>2. ASSUME NEW c \in Callers, Queue(c) PROVE RateInv'
    BY <2>2, TokenKeepsGap DEF Queue
  <2>3. ASSUME UNCHANGED <<level, alone>> PROVE RateInv'
    BY <2>3 DEF RateInv, Gap, Full
  <2>4. CASE TimePasses
    BY <2>4, RefillKeepsGap DEF TimePasses
  <2> QED BY <2>1, <2>2, <2>3, <2>4 DEF Next, vars, SlotArrives, Abort
<1>3. RateInv => DrainCostsLittle
  BY DEF RateInv, DrainCostsLittle, Gap
<1> QED BY <1>1, <1>2, <1>3, PTL DEF Spec

----------------------------------------------------------------------------
(* The burst.  Every call that has taken a token has a slot, the moment    *)
(* its token was or will be there: slots are a token apart, whoever takes  *)
(* the next one takes the last.  A call goes out at its slot or, from a    *)
(* full bucket, up to a capacity later; so those that went out within a    *)
(* second have their slots in a second and a capacity.                     *)

Waits(c) == call[c].pc = "waiting"
Active(c) == Waits(c) \/ c \in Sent

(* Slots are counted from now, background calls' without their reserve.    *)
Slots(y) ==
  /\ y \in [Callers -> Int]
  /\ \A c \in Callers : Active(c) => y[c] <= -level
  /\ \A c, d \in Callers : Active(c) /\ Active(d) /\ c # d
       => y[c] + TokenMs <= y[d] \/ y[d] + TokenMs <= y[c]
  /\ \A c \in Callers : Waits(c) => call[c].left = y[c] + Floor(c)
  /\ \A c \in Sent : /\ call[c].left <= Second
                     /\ y[c] <= call[c].left - Second
                     /\ y[c] + Full >= call[c].left - Second + TokenMs

(* A multiple of the clock's step.                                         *)
OnTick(t) == \E k \in Int : t = k * StepMs

(* Timers fire on time, since every due moment is on the clock.            *)
OnTime ==
  /\ OnTick(level)
  /\ \A c \in Callers : Waits(c) => OnTick(call[c].left) /\ call[c].left >= 0

BurstInv == RateTypeOK /\ OnTime /\ \E y : Slots(y)

LEMMA Constants ==
  /\ TokenMs \in Nat /\ TokenMs > 0 /\ StepMs \in Nat /\ StepMs > 0
  /\ MaxWaitMs \in Nat /\ MaxDebtMs \in Nat /\ Full \in Int
  /\ \A c : Floor(c) \in Nat /\ Floor(c) + TokenMs <= Full
<1>1. /\ Capacity \in Nat /\ LiveReserve \in Nat /\ LiveReserve < Capacity
      /\ TokenMs \in Nat /\ TokenMs > 0
      /\ StepMs \in Nat /\ StepMs > 0 /\ MaxWaitMs \in Nat /\ MaxDebtMs \in Nat
  BY RateAssumption
<1>2. PICK k \in Nat : Capacity = LiveReserve + 1 + k
  <2>1. Capacity - LiveReserve - 1 \in Nat /\ Capacity = LiveReserve + 1 + (Capacity - LiveReserve - 1)
    BY <1>1
  <2>2. QED
    BY <2>1
<1>3. Full = LiveReserve * TokenMs + TokenMs + k * TokenMs
  BY <1>1, <1>2 DEF Full
<1>4. LiveReserve * TokenMs \in Nat /\ k * TokenMs \in Nat
  BY <1>1, <1>2
<1>5. QED
  BY <1>1, <1>3, <1>4 DEF Floor

(* Sums and differences of multiples, and a positive one is a step.        *)
LEMMA TicksAdd ==
  ASSUME NEW s, NEW t, OnTick(s), OnTick(t)
  PROVE  OnTick(s + t) /\ OnTick(s - t)
<1>1. PICK j \in Int : s = j * StepMs
  BY DEF OnTick
<1>2. PICK k \in Int : t = k * StepMs
  BY DEF OnTick
<1>3. StepMs \in Int
  BY Constants
<1>4. s + t = (j + k) * StepMs /\ s - t = (j - k) * StepMs
  BY <1>1, <1>2, <1>3
<1>5. j + k \in Int /\ j - k \in Int
  BY <1>1, <1>2
<1>6. QED
  BY <1>4, <1>5 DEF OnTick

LEMMA TickIsAStep ==
  ASSUME NEW t \in Int, OnTick(t), t > 0
  PROVE  t >= StepMs
<1>1. PICK k \in Int : t = k * StepMs
  BY DEF OnTick
<1>2. StepMs \in Nat /\ StepMs > 0
  BY Constants
<1>3. k >= 1
  <2>1. CASE k <= 0
    BY <1>1, <1>2, <2>1
  <2>2. QED
    BY <1>1, <2>1
<1>4. k * StepMs = StepMs + (k - 1) * StepMs /\ (k - 1) * StepMs >= 0
  BY <1>1, <1>2, <1>3
<1>5. QED
  BY <1>1, <1>2, <1>4

LEMMA TokensOnTick ==
  /\ OnTick(StepMs) /\ OnTick(TokenMs) /\ OnTick(Full) /\ \A c : OnTick(Floor(c))
<1>1. StepMs \in Nat /\ StepMs > 0 /\ TokenMs \in Nat /\ Capacity \in Int /\ LiveReserve \in Int
  BY Constants, RateAssumption
<1>2. OnTick(StepMs)
  <2>1. StepMs = 1 * StepMs /\ 1 \in Int
    BY <1>1
  <2>2. QED
    BY <2>1 DEF OnTick
<1>3. PICK q \in Int : TokenMs = q * StepMs
  BY <1>1, TickAssumption
<1>4. \A n \in Int : OnTick(n * TokenMs)
  <2> TAKE n \in Int
  <2>1. n * TokenMs = (n * q) * StepMs /\ n * q \in Int
    BY <1>1, <1>3
  <2>2. QED
    BY <2>1 DEF OnTick
<1>5. OnTick(0)
  <2>1. 0 = 0 * StepMs /\ 0 \in Int
    BY <1>1
  <2>2. QED
    BY <2>1 DEF OnTick
<1>6. OnTick(TokenMs)
  BY <1>3 DEF OnTick
<1>7. QED
  BY <1>1, <1>2, <1>4, <1>5, <1>6 DEF Full, Floor

(* The types hold step by step: levels below the brim, frames whole        *)
(* (rateLimit.ts:43-48, 79-116).                                           *)
LEMMA TypesKept == RateTypeOK /\ [Next]_vars => RateTypeOK'
<1> SUFFICES ASSUME RateTypeOK, [Next]_vars
             PROVE  RateTypeOK'
  OBVIOUS
<1>1. TokenMs \in Nat /\ StepMs \in Nat /\ Full \in Int /\ \A c : Floor(c) \in Nat
  BY Constants
<1>2. \A c \in Callers : WaitMs(c) \in Int
  BY <1>1 DEF WaitMs, RateTypeOK
<1>3. ASSUME NEW c \in Callers, NEW pc \in {"waiting", "sent", "gaveUp"}, NEW left \in Int,
             Becomes(c, pc, left)
      PROVE  call' \in [Callers -> Call]
  BY <1>3 DEF Becomes, Call, RateTypeOK
<1>4. ASSUME NEW c \in Callers, TakeToken(c)
      PROVE  level' \in Int /\ level' <= Full /\ alone' \in Int /\ alone' <= Full
  BY <1>1, <1>4 DEF TakeToken, RateTypeOK
<1>5. Full' = Full /\ Second \in Int
  BY DEF Full, Second
<1>6. ASSUME NEW c \in Callers, SendNow(c) PROVE RateTypeOK'
  BY <1>3, <1>4, <1>5, <1>6 DEF SendNow, RateTypeOK
<1>7. ASSUME NEW c \in Callers, Queue(c) PROVE RateTypeOK'
  BY <1>2, <1>3, <1>4, <1>5, <1>7 DEF Queue, RateTypeOK
<1>8. ASSUME NEW c \in Callers, SlotArrives(c) PROVE RateTypeOK'
  BY <1>3, <1>5, <1>8 DEF SlotArrives, RateTypeOK
<1>9. ASSUME NEW c \in Callers, Abort(c) PROVE RateTypeOK'
  BY <1>3, <1>5, <1>9 DEF Abort, RateTypeOK
<1>10. CASE TimePasses
  <2>1. \A x \in Int : x <= Full => Refilled(x) \in Int /\ Refilled(x) <= Full
    BY <1>1 DEF Refilled
  <2>2. \A c \in Callers : [call[c] EXCEPT !.left = @ - StepMs] \in Call
    BY <1>1 DEF Call, RateTypeOK
  <2>3. call' \in [Callers -> Call]
    BY <1>10, <2>2 DEF TimePasses, RateTypeOK
  <2>4. QED
    BY <1>5, <1>10, <2>1, <2>3 DEF TimePasses, RateTypeOK
<1>11. CASE UNCHANGED vars
  BY <1>5, <1>11 DEF vars, RateTypeOK
<1>12. QED
  BY <1>6, <1>7, <1>8, <1>9, <1>10, <1>11 DEF Next

(* The new holder of a token has the slot after everybody's; the others    *)
(* keep theirs.                                                            *)
LEMMA TakerIsLast ==
  ASSUME RateTypeOK, NEW y, Slots(y), NEW c \in Callers, ~ Active(c), TakeToken(c),
         NEW pc \in {"waiting", "sent"}, NEW left \in Int, left > 0, Becomes(c, pc, left),
         pc = "waiting" => left = WaitMs(c),
         pc = "sent" => left = Second /\ WaitMs(c) <= 0,
         NEW z, z = [y EXCEPT ![c] = TokenMs - level]
  PROVE  Slots(z)'
<1>1. TokenMs \in Nat /\ TokenMs > 0 /\ Full \in Int /\ Floor(c) \in Nat /\ Floor(c) + TokenMs <= Full
  BY Constants
<1>2. level \in Int /\ level <= Full /\ level' = level - TokenMs
  BY DEF TakeToken, RateTypeOK
<1>3. z \in [Callers -> Int] /\ z[c] = TokenMs - level /\ \A d \in Callers : d # c => z[d] = y[d]
  BY <1>1, <1>2 DEF Slots
<1>4. \A d \in Callers : d # c => /\ call'[d] = call[d] /\ (Waits(d)' <=> Waits(d))
                                  /\ (d \in Sent' <=> d \in Sent) /\ (Active(d)' <=> Active(d))
  BY DEF Becomes, RateTypeOK, Waits, Sent, Active
<1>5. call'[c].pc = pc /\ call'[c].left = left
  BY DEF Becomes, RateTypeOK
<1>6. Floor(c)' = Floor(c) /\ Full' = Full /\ TokenMs' = TokenMs /\ Second = 1000
  BY DEF Floor, Full, Second
<1>7. \A d \in Callers : y[d] \in Int
  BY DEF Slots
<1>8. \A d \in Callers : d # c /\ Active(d) => y[d] <= -level
  BY DEF Slots
<1>9. \A d \in Callers : Active(d)' => z[d] <= -level'
  BY <1>1, <1>2, <1>3, <1>4, <1>7, <1>8
<1>10. \A d, e \in Callers : Active(d)' /\ Active(e)' /\ d # e
         => z[d] + TokenMs <= z[e] \/ z[e] + TokenMs <= z[d]
  <2> SUFFICES ASSUME NEW d \in Callers, NEW e \in Callers, Active(d)', Active(e)', d # e
               PROVE  z[d] + TokenMs <= z[e] \/ z[e] + TokenMs <= z[d]
    OBVIOUS
  <2>1. CASE d # c /\ e # c
    BY <1>3, <1>4, <2>1 DEF Slots
  <2>2. CASE d = c
    BY <1>1, <1>2, <1>3, <1>4, <1>7, <1>8, <2>2
  <2>3. CASE e = c
    BY <1>1, <1>2, <1>3, <1>4, <1>7, <1>8, <2>3
  <2>4. QED
    BY <2>1, <2>2, <2>3
<1>11. \A d \in Callers : Waits(d)' => call'[d].left = z[d] + Floor(d)
  <2> SUFFICES ASSUME NEW d \in Callers, Waits(d)'
               PROVE  call'[d].left = z[d] + Floor(d)
    OBVIOUS
  <2>1. CASE d # c
    BY <1>3, <1>4, <2>1 DEF Slots
  <2>2. CASE d = c
    <3>1. pc = "waiting"
      BY <1>5, <2>2 DEF Waits
    <3>2. QED
      BY <1>1, <1>2, <1>3, <1>5, <2>2, <3>1 DEF WaitMs
  <2>3. QED
    BY <2>1, <2>2
<1>12. \A d \in Sent' : /\ call'[d].left <= Second
                        /\ z[d] <= call'[d].left - Second
                        /\ z[d] + Full >= call'[d].left - Second + TokenMs
  <2> SUFFICES ASSUME NEW d \in Sent'
               PROVE  /\ call'[d].left <= Second
                      /\ z[d] <= call'[d].left - Second
                      /\ z[d] + Full >= call'[d].left - Second + TokenMs
    OBVIOUS
  <2>0. d \in Callers
    BY DEF Sent
  <2>1. CASE d # c
    BY <1>3, <1>4, <2>0, <2>1 DEF Slots
  <2>2. CASE d = c
    <3>1. pc = "sent"
      BY <1>5, <2>2 DEF Sent
    <3>2. Floor(c) + TokenMs - level <= 0 /\ left = Second
      BY <3>1 DEF WaitMs
    <3>3. QED
      BY <1>1, <1>2, <1>3, <1>5, <1>6, <2>2, <3>2
  <2>3. QED
    BY <2>1, <2>2
<1>13. QED
  BY <1>3, <1>6, <1>9, <1>10, <1>11, <1>12 DEF Slots, Floor

(* Somebody takes a token, to go out at once or to wait for it.            *)
LEMMA TakingKeeps ==
  ASSUME BurstInv, NEW c \in Callers, Ready(c), TakeToken(c),
         NEW pc \in {"waiting", "sent"}, NEW left \in Int, left > 0, Becomes(c, pc, left),
         pc = "waiting" => left = WaitMs(c),
         pc = "sent" => left = Second /\ WaitMs(c) <= 0
  PROVE  OnTime' /\ \E z : Slots(z)'
<1>1. RateTypeOK /\ OnTick(level) /\ ~ Active(c)
  BY DEF BurstInv, OnTime, RateTypeOK, Call, Ready, Active, Waits, Sent
<1>2. PICK y : Slots(y)
  BY DEF BurstInv
<1>3. PICK z : z = [y EXCEPT ![c] = TokenMs - level]
  OBVIOUS
<1>4. Slots(z)'
  BY <1>1, <1>2, <1>3, TakerIsLast
<1>5. OnTick(level - TokenMs) /\ OnTick(Floor(c) + TokenMs) /\ OnTick(Floor(c) + TokenMs - level)
  BY <1>1, TicksAdd, TokensOnTick
<1>6. OnTick(level)'
  BY <1>5 DEF TakeToken, OnTick
<1>7. ASSUME NEW d \in Callers, Waits(d)'
      PROVE  OnTick(call[d].left)' /\ call'[d].left >= 0
  <2>1. CASE d # c
    <3>1. call'[d] = call[d]
      BY <2>1 DEF Becomes, BurstInv, RateTypeOK
    <3>2. QED
      BY <1>7, <3>1 DEF BurstInv, OnTime, OnTick, Waits
  <2>2. CASE d = c
    <3>1. call'[c].pc = pc /\ call'[c].left = left
      BY DEF Becomes, BurstInv, RateTypeOK
    <3>2. left = WaitMs(c)
      BY <1>7, <2>2, <3>1 DEF Waits
    <3>3. QED
      BY <1>5, <2>2, <3>1, <3>2 DEF OnTick, WaitMs
  <2>3. QED
    BY <2>1, <2>2
<1>8. QED
  BY <1>4, <1>6, <1>7 DEF OnTime

(* A timer fires: the call goes out in its slot.                           *)
LEMMA ArrivalKeeps ==
  ASSUME BurstInv, NEW c \in Callers, SlotArrives(c)
  PROVE  OnTime' /\ \E z : Slots(z)'
<1>1. PICK y : Slots(y)
  BY DEF BurstInv
<1>2. TokenMs \in Nat /\ Full \in Int /\ \A d : Floor(d) \in Nat /\ Floor(d) + TokenMs <= Full
  BY Constants
<1>3. call'[c].pc = "sent" /\ call'[c].left = Second /\ \A d \in Callers : d # c => call'[d] = call[d]
  BY DEF SlotArrives, Becomes, BurstInv, RateTypeOK
<1>4. level' = level /\ Full' = Full /\ Second = 1000 /\ \A d : Floor(d)' = Floor(d)
  BY DEF SlotArrives, Full, Floor, Second
<1>5. Waits(c) /\ call[c].left \in Int /\ call[c].left <= 0 /\ call[c].left >= 0
  BY DEF SlotArrives, Waits, BurstInv, OnTime, RateTypeOK, Call
<1>6. y[c] \in Int /\ y[c] = -Floor(c)
  BY <1>1, <1>2, <1>5 DEF Slots
<1>7. \A d \in Callers : Active(d)' => Active(d)
  BY <1>3, <1>5 DEF Active, Waits, Sent
<1>8. \A d \in Callers : Waits(d)' => d # c /\ Waits(d)
  BY <1>3 DEF Waits
<1>9. ASSUME NEW d \in Sent'
      PROVE  /\ call'[d].left <= Second
             /\ y[d] <= call'[d].left - Second
             /\ y[d] + Full >= call'[d].left - Second + TokenMs
  <2>1. CASE d = c
    BY <1>2, <1>3, <1>4, <1>6, <2>1
  <2>2. CASE d # c
    <3>1. d \in Sent /\ call'[d] = call[d]
      BY <1>3, <1>9, <2>2 DEF Sent
    <3>2. QED
      BY <1>1, <3>1 DEF Slots
  <2>3. QED
    BY <2>1, <2>2
<1>10. Slots(y)'
  BY <1>1, <1>3, <1>4, <1>7, <1>8, <1>9 DEF Slots
<1>11. OnTime'
  BY <1>3, <1>4, <1>8 DEF BurstInv, OnTime, OnTick
<1>12. QED
  BY <1>10, <1>11

(* A caller's budget runs out: its slot is lost to everybody.              *)
LEMMA AbortKeeps ==
  ASSUME BurstInv, NEW c \in Callers, Abort(c)
  PROVE  OnTime' /\ \E z : Slots(z)'
<1>1. PICK y : Slots(y)
  BY DEF BurstInv
<1>2. call'[c].pc = "gaveUp" /\ \A d \in Callers : d # c => call'[d] = call[d]
  BY DEF Abort, Becomes, BurstInv, RateTypeOK
<1>3. level' = level /\ Full' = Full /\ \A d : Floor(d)' = Floor(d)
  BY DEF Abort, Full, Floor
<1>4. \A d \in Callers : (Waits(d)' => d # c /\ Waits(d)) /\ (d \in Sent' => d # c /\ d \in Sent)
  BY <1>2 DEF Waits, Sent
<1>5. \A d \in Sent' : d \in Callers
  BY DEF Sent
<1>6. \A d \in Callers : Active(d)' => Active(d)
  BY <1>4 DEF Active
<1>7. Slots(y)'
  BY <1>1, <1>2, <1>3, <1>4, <1>5, <1>6 DEF Slots
<1>8. OnTime'
  BY <1>2, <1>3, <1>4 DEF BurstInv, OnTime, OnTick
<1>9. QED
  BY <1>7, <1>8

(* Time passes: every slot comes nearer by a step, and the bucket fills by *)
(* no more than that.                                                      *)
LEMMA TimeKeeps ==
  ASSUME BurstInv, TimePasses
  PROVE  OnTime' /\ \E z : Slots(z)'
<1>1. PICK y : Slots(y)
  BY DEF BurstInv
<1>2. PICK z : z = [c \in Callers |-> y[c] - StepMs]
  OBVIOUS
<1>3. /\ StepMs \in Nat /\ StepMs > 0 /\ TokenMs \in Nat /\ Full \in Int /\ Full' = Full
      /\ \A c : Floor(c)' = Floor(c) /\ Floor(c) \in Nat
  BY Constants DEF Full, Floor
<1>4. /\ level \in Int /\ level <= Full
      /\ \A c \in Callers : y[c] \in Int /\ z[c] = y[c] - StepMs /\ call[c].left \in Int
  BY <1>1, <1>2 DEF BurstInv, RateTypeOK, Slots, Call
<1>5. \A c \in Callers : /\ call'[c].pc = call[c].pc
                         /\ call[c].left > 0 => call'[c].left = call[c].left - StepMs
                         /\ call[c].left <= 0 => call'[c] = call[c]
  <2>1. \A c \in Callers : call[c] = [pc |-> call[c].pc, left |-> call[c].left]
    BY DEF BurstInv, RateTypeOK, Call
  <2>2. QED
    BY <1>3, <1>4, <2>1 DEF TimePasses
<1>6. level' \in Int /\ level' <= level + StepMs
  BY <1>3, <1>4 DEF TimePasses, Refilled
<1>7. OnTick(level')
  <2>1. OnTick(level + StepMs) /\ OnTick(Full)
    BY TicksAdd, TokensOnTick DEF BurstInv, OnTime
  <2>2. QED
    BY <2>1 DEF TimePasses, Refilled
<1>8. \A c \in Callers : Waits(c) => call[c].left > 0
  BY DEF TimePasses, Waits
<1>9. \A c \in Callers : (Waits(c)' <=> Waits(c)) /\ (c \in Sent' => c \in Sent)
  BY <1>4, <1>5 DEF Waits, Sent
<1>10. \A c \in Callers : Active(c)' => Active(c)
  BY <1>9 DEF Active, Sent
<1>11. ASSUME NEW c \in Callers, Waits(c)
       PROVE  OnTick(call'[c].left) /\ call'[c].left >= 0 /\ call'[c].left = z[c] + Floor(c)
  <2>1. OnTick(call[c].left) /\ call[c].left > 0 /\ call[c].left = y[c] + Floor(c)
    BY <1>1, <1>8, <1>11 DEF BurstInv, OnTime, Slots
  <2>2. OnTick(call[c].left - StepMs) /\ call[c].left >= StepMs
    BY <1>4, <2>1, TicksAdd, TokensOnTick, TickIsAStep
  <2>3. QED
    BY <1>3, <1>4, <1>5, <2>1, <2>2
<1>12. ASSUME NEW c \in Sent'
       PROVE  /\ call'[c].left <= Second
              /\ z[c] <= call'[c].left - Second
              /\ z[c] + Full >= call'[c].left - Second + TokenMs
  <2>1. c \in Callers /\ c \in Sent
    BY <1>9, <1>12 DEF Sent
  <2>2. call[c].left > 0 /\ call'[c].left = call[c].left - StepMs
    BY <1>5, <2>1 DEF Sent
  <2>3. QED
    BY <1>1, <1>3, <1>4, <2>1, <2>2 DEF Slots, Second
<1>13. \A c \in Callers : Active(c)' => z[c] <= -level'
  <2>1. \A c \in Callers : Active(c) => y[c] <= -level
    BY <1>1 DEF Slots
  <2>2. QED
    BY <1>3, <1>4, <1>6, <1>10, <2>1
<1>14. \A c, d \in Callers : Active(c)' /\ Active(d)' /\ c # d
         => z[c] + TokenMs <= z[d] \/ z[d] + TokenMs <= z[c]
  <2>1. \A c, d \in Callers : Active(c) /\ Active(d) /\ c # d
           => y[c] + TokenMs <= y[d] \/ y[d] + TokenMs <= y[c]
    BY <1>1 DEF Slots
  <2>2. QED
    BY <1>3, <1>4, <1>10, <2>1
<1>15. z \in [Callers -> Int]
  BY <1>2, <1>3, <1>4
<1>16. Slots(z)'
  BY <1>3, <1>9, <1>11, <1>12, <1>13, <1>14, <1>15 DEF Slots
<1>17. OnTime'
  BY <1>7, <1>9, <1>11 DEF OnTime, OnTick
<1>18. QED
  BY <1>16, <1>17

LEMMA BurstInvHolds == Spec => []BurstInv
<1>1. Init => BurstInv
  <2> SUFFICES ASSUME Init
               PROVE  BurstInv
    OBVIOUS
  <2>1. \A c \in Callers : ~ Waits(c) /\ c \notin Sent /\ ~ Active(c)
    BY DEF Init, Waits, Sent, Active
  <2>2. RateTypeOK
    BY Constants DEF Init, RateTypeOK, Call
  <2>3. OnTime
    BY <2>1, TokensOnTick DEF Init, OnTime
  <2>4. Slots([c \in Callers |-> 0])
    BY <2>1 DEF Slots, Sent
  <2>5. QED
    BY <2>2, <2>3, <2>4 DEF BurstInv
<1>2. BurstInv /\ [Next]_vars => BurstInv'
  <2> SUFFICES ASSUME BurstInv, [Next]_vars
               PROVE  BurstInv'
    OBVIOUS
  <2>1. RateTypeOK'
    BY TypesKept DEF BurstInv
  <2>2. Second \in Int /\ Second > 0 /\ \A c \in Callers : WaitMs(c) \in Int
    BY Constants DEF Second, WaitMs, BurstInv, RateTypeOK
  <2>3. ASSUME NEW c \in Callers, SendNow(c) PROVE OnTime' /\ \E z : Slots(z)'
    BY <2>2, <2>3, TakingKeeps DEF SendNow
  <2>4. ASSUME NEW c \in Callers, Queue(c) PROVE OnTime' /\ \E z : Slots(z)'
    BY <2>2, <2>4, TakingKeeps DEF Queue
  <2>5. CASE UNCHANGED vars
    <3>1. PICK y : Slots(y)
      BY DEF BurstInv
    <3>2. Slots(y)' /\ OnTime'
      BY <2>5, <3>1 DEF vars, Slots, Active, Waits, Sent, Floor, Full, BurstInv, OnTime, OnTick
    <3>3. QED
      BY <2>1, <3>2 DEF BurstInv
  <2>6. QED
    BY <2>1, <2>3, <2>4, <2>5, ArrivalKeeps, AbortKeeps, TimeKeeps DEF Next, BurstInv
<1>3. QED
  BY <1>1, <1>2, PTL DEF Spec

(* Levels keep under the brim and frames stay whole (rateLimit.ts:43-48).  *)
THEOREM RateTypeCorrect == Spec => []RateTypeOK
BY BurstInvHolds, PTL DEF BurstInv

(* Division by a token: the quotient's bounds.                             *)
LEMMA Quotient ==
  ASSUME NEW n \in Nat
  PROVE  /\ n \div TokenMs \in Nat
         /\ TokenMs * (n \div TokenMs) <= n /\ n < TokenMs * (n \div TokenMs) + TokenMs
<1>1. TokenMs \in Nat /\ TokenMs > 0
  BY Constants
<1>2. QED
  BY <1>1

(* Numbers a token apart are in different tokens, and as many tokens as    *)
(* the window has are all there are for them.                              *)
LEMMA TokenOf ==
  ASSUME NEW m \in Nat, NEW n \in Nat
  PROVE  /\ m + TokenMs <= n => m \div TokenMs # n \div TokenMs
         /\ m <= Second - 1 + Full - TokenMs
              => m \div TokenMs <= Capacity - 1 + (Second - 1) \div TokenMs
<1>1. TokenMs \in Nat /\ TokenMs > 0 /\ Capacity \in Nat /\ Capacity > 0 /\ Second - 1 \in Nat
  BY Constants, RateAssumption DEF Second
<1>2. ASSUME m + TokenMs <= n
      PROVE  m \div TokenMs # n \div TokenMs
  BY <1>1, <1>2, Quotient
<1>3. ASSUME m <= Second - 1 + Full - TokenMs
      PROVE  m \div TokenMs <= Capacity - 1 + (Second - 1) \div TokenMs
  <2>1. PICK q \in Nat : q = m \div TokenMs /\ TokenMs * q <= m
    BY Quotient
  <2>2. PICK r \in Nat : r = (Second - 1) \div TokenMs /\ Second - 1 < TokenMs * r + TokenMs
    BY <1>1, Quotient
  <2>3. TokenMs * q < TokenMs * r + TokenMs * Capacity
    BY <1>1, <1>3, <2>1, <2>2 DEF Full
  <2>4. TokenMs * r + TokenMs * Capacity = TokenMs * (r + Capacity)
    BY <1>1
  <2>5. CASE q >= r + Capacity
    <3>1. PICK k \in Nat : q = r + Capacity + k
      <4>1. q - (r + Capacity) \in Nat /\ q = r + Capacity + (q - (r + Capacity))
        BY <1>1, <2>5
      <4>2. QED
        BY <4>1
    <3>2. TokenMs * q = TokenMs * (r + Capacity) + TokenMs * k /\ TokenMs * k >= 0
      BY <1>1, <3>1
    <3>3. QED
      BY <1>1, <2>3, <2>4, <3>2
  <2>6. QED
    BY <1>1, <2>1, <2>2, <2>5
<1>4. QED
  BY <1>2, <1>3

(* In less than a second the provider meets the burst and what was         *)
(* refilled meanwhile, however many tills and retry passes draw on the     *)
(* bucket (rateLimit.ts:7-10).                                             *)
THEOREM BurstAndRefillHolds == Spec => []BurstAndRefill
<1>1. BurstInv => BurstAndRefill
  <2> SUFFICES ASSUME BurstInv
               PROVE  BurstAndRefill
    OBVIOUS
  <2>1. PICK y : Slots(y)
    BY DEF BurstInv
  <2> DEFINE low == 1 - Second - Full + TokenMs
             last == Capacity - 1 + (Second - 1) \div TokenMs
  <2>2. TokenMs \in Nat /\ TokenMs > 0 /\ Full \in Int /\ Capacity \in Nat /\ Capacity > 0 /\ Second = 1000
    BY Constants, RateAssumption DEF Second
  <2>3. \A c \in Sent : /\ c \in Callers /\ y[c] \in Int /\ Active(c)
                        /\ call[c].left \in Int /\ call[c].left >= 1
    BY <2>1 DEF Sent, Active, Slots, BurstInv, RateTypeOK, Call
  <2>4. \A c \in Sent : y[c] - low \in Nat /\ y[c] - low <= Second - 1 + Full - TokenMs
    BY <2>1, <2>2, <2>3 DEF Slots
  <2>5. (Second - 1) \div TokenMs \in Nat
    BY <2>2, Quotient
  <2> DEFINE f == [c \in Sent |-> (y[c] - low) \div TokenMs]
  <2>6. \A c \in Sent : f[c] \in 0..last
    BY <2>2, <2>4, <2>5, TokenOf, Quotient
  <2>7. \A c, d \in Sent : c # d => f[c] # f[d]
    <3> SUFFICES ASSUME NEW c \in Sent, NEW d \in Sent, c # d
                 PROVE  f[c] # f[d]
      OBVIOUS
    <3>1. y[c] + TokenMs <= y[d] \/ y[d] + TokenMs <= y[c]
      BY <2>1, <2>3 DEF Slots
    <3>2. (y[c] - low) + TokenMs <= y[d] - low \/ (y[d] - low) + TokenMs <= y[c] - low
      BY <2>2, <2>3, <3>1
    <3>3. (y[c] - low) \div TokenMs # (y[d] - low) \div TokenMs
      BY <2>4, <3>2, TokenOf
    <3>4. QED
      BY <3>3
  <2> HIDE DEF low
  <2>8. f \in Injection(Sent, 0..last)
    BY <2>6, <2>7 DEF Injection, IsInjective
  <2>9. last \in Int /\ last >= 0
    BY <2>2, <2>5
  <2> HIDE DEF f
  <2>10. IsFiniteSet(0..last) /\ Cardinality(0..last) = last + 1
    BY <2>9, FS_Interval
  <2>11. Cardinality(Sent) <= last + 1
    BY <2>8, <2>10, FS_Injection
  <2>12. QED
    BY <2>2, <2>5, <2>11 DEF BurstAndRefill
<1>2. QED
  BY <1>1, BurstInvHolds, PTL
=============================================================================
