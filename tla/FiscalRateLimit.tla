---------------------------- MODULE FiscalRateLimit ----------------------------
(***************************************************************************)
(* The token bucket in front of one cash register                          *)
(* (src/pos/fiscal/rateLimit.ts).  Live checkouts and the retry pass draw  *)
(* from the same bucket; a call that finds no token takes the next one in  *)
(* advance and sleeps until it is due, which may leave the bucket in debt. *)
(*                                                                         *)
(* Time is counted in milliseconds and the bucket in milliseconds of       *)
(* refill: a token is TokenMs of them, so no number is ever a fraction.    *)
(***************************************************************************)
EXTENDS Integers, FiniteSets

CONSTANTS Callers,      \* transmissions: each sends a document, then another
          Background,   \* those of the retry pass
          Capacity,     \* DEFAULT_CAPACITY
          TokenMs,      \* 1000 / DEFAULT_REFILL_PER_SEC
          LiveReserve,  \* LIVE_RESERVE
          MaxWaitMs,    \* BACKGROUND_MAX_WAIT_MS
          StepMs,       \* how finely time is observed
          MaxDebtMs     \* bound: nobody asks of a bucket deeper in debt

ASSUME RateAssumption ==
  /\ Background \subseteq Callers
  /\ Capacity \in Nat \ {0}
  /\ TokenMs \in Nat \ {0}
  /\ LiveReserve \in Nat
  /\ LiveReserve < Capacity
  /\ MaxWaitMs \in Nat
  /\ StepMs \in Nat \ {0}
  /\ MaxDebtMs \in Nat

(* No token falls due between two observations.  The code's clock counts   *)
(* single milliseconds and a token takes 500 of them.                      *)
ASSUME TickAssumption == TokenMs % StepMs = 0

VARIABLES level,  \* bucket.tokens
          alone,  \* what they would be if only live calls had ever been made
          call    \* each caller: what it does, and for how long still

vars == <<level, alone, call>>

Full == Capacity * TokenMs

(* A caller waits for its slot; one that sent a document, or gave up, does *)
(* not come back within a second.                                          *)
Second == 1000

Call == [pc : {"waiting", "sent", "gaveUp"}, left : Int]

Init ==
  /\ level = Full
  /\ alone = Full
  /\ call = [c \in Callers |-> [pc |-> "gaveUp", left |-> 0]]

Floor(c) == IF c \in Background THEN LiveReserve * TokenMs ELSE 0

(* How long reserveSlot quotes; nothing when it is not positive.           *)
WaitMs(c) == Floor(c) + TokenMs - level

(* Mutant of Declined: nobody is turned away.                              *)
NobodyDeclined(c) == FALSE

(* maxWaitMs is given for background calls only.                           *)
Declined(c) == c \in Background /\ WaitMs(c) > MaxWaitMs

Ready(c) == call[c].pc # "waiting" /\ call[c].left <= 0 /\ level > -MaxDebtMs

TakeToken(c) ==
  /\ level' = level - TokenMs
  /\ alone' = IF c \in Background THEN alone ELSE alone - TokenMs

Becomes(c, pc, left) == call' = [call EXCEPT ![c] = [pc |-> pc, left |-> left]]

(* A free token: the call goes out at once.                                *)
SendNow(c) ==
  /\ Ready(c)
  /\ WaitMs(c) <= 0
  /\ TakeToken(c)
  /\ Becomes(c, "sent", Second)

(* Declined before the token is taken, or queued with the token taken.     *)
Queue(c) ==
  /\ Ready(c)
  /\ WaitMs(c) > 0
  /\ ~ Declined(c)
  /\ TakeToken(c)
  /\ Becomes(c, "waiting", WaitMs(c))

SlotArrives(c) ==
  /\ call[c].pc = "waiting"
  /\ call[c].left <= 0
  /\ Becomes(c, "sent", Second)
  /\ UNCHANGED <<level, alone>>

(* The caller's budget runs out while it waits; the token is not given     *)
(* back.                                                                   *)
Abort(c) ==
  /\ call[c].pc = "waiting"
  /\ Becomes(c, "gaveUp", Second)
  /\ UNCHANGED <<level, alone>>

(* Mutant of Refilled: the bucket has no brim.                             *)
Overfilled(tokens) == tokens + StepMs

Refilled(tokens) == IF tokens + StepMs <= Full THEN tokens + StepMs ELSE Full

(* A due timer fires before time goes on.                                  *)
TimePasses ==
  /\ \A c \in Callers : call[c].pc = "waiting" => call[c].left > 0
  /\ level' = Refilled(level)
  /\ alone' = Refilled(alone)
  /\ call' = [c \in Callers |->
                IF call[c].left > 0 THEN [call[c] EXCEPT !.left = @ - StepMs] ELSE call[c]]

Next ==
  \/ \E c \in Callers : SendNow(c) \/ Queue(c) \/ SlotArrives(c) \/ Abort(c)
  \/ TimePasses

Spec == Init /\ [][Next]_vars

----------------------------------------------------------------------------
(* PROPERTIES                                                              *)

(* Every variable has its type, and the bucket a brim.                     *)
RateTypeOK ==
  /\ level \in Int /\ level <= Full
  /\ alone \in Int /\ alone <= Full
  /\ call \in [Callers -> Call]

(* However long the retry pass drains a backlog, it costs a live checkout  *)
(* at most the unreserved part of the bucket and the wait it may queue     *)
(* for: 750 ms.  Without the decline the cost has no bound                 *)
(* (rateLimit.ts:54-63).                                                   *)
DrainCostsLittle == level >= alone - ((Capacity - LiveReserve) * TokenMs + MaxWaitMs)

Sent == {c \in Callers : call[c].pc = "sent" /\ call[c].left > 0}

(* What a token bucket does promise the provider: in less than a second,   *)
(* the burst and what is refilled meanwhile (rateLimit.ts:7-10).           *)
BurstAndRefill == Cardinality(Sent) <= Capacity + (Second - 1) \div TokenMs
=============================================================================
