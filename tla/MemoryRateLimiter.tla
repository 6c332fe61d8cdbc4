------------------------- MODULE MemoryRateLimiter -------------------------
(***************************************************************************)
(* internal/server/ratelimit_memory.go: a visitor per address, refilled    *)
(* only when it is looked at, and a loop that forgets the visitors not     *)
(* seen for staleAfter.  Both hold the mutex all along, so each is a step. *)
(* In place of lastSeen a visitor has its age, the ticks gone by since.    *)
(***************************************************************************)
EXTENDS Integers, Functions

CONSTANTS
  Keys, Unit, Rate, Burst, MaxWindow,   \* as in TokenBucket
  StaleAfter,     \* ticks after which a visitor may be forgotten
  CleanupEvery,   \* ticks between two rounds of cleanupLoop ...
  MaxLate         \* bound: ... which is at most so many ticks late

ASSUME MemoryRateLimiterAssumption ==
  /\ Unit \in Nat \ {0}
  /\ Rate \in Nat \ {0}
  /\ Burst \in Nat \ {0}
  /\ MaxWindow \in Nat
  /\ StaleAfter \in Nat
  /\ CleanupEvery \in Nat \ {0}
  /\ MaxLate \in Nat

VARIABLES
  visitors,   \* a function of the addresses known
  sinceRound, \* ticks since the last round of cleanupLoop
  answer, elapsed, granted   \* as in TokenBucket

vars == <<visitors, sinceRound, answer, elapsed, granted>>
observer == <<elapsed, granted>>

Visitor == [tokens : Nat, age : Nat]

Full == Burst * Unit
AtMostFull(n) == IF n > Full THEN Full ELSE n

TypeOK ==
  /\ DOMAIN visitors \subseteq Keys
  /\ visitors \in [DOMAIN visitors -> Visitor]
  /\ \A k \in DOMAIN visitors : visitors[k].tokens <= Full
  /\ sinceRound \in Nat
  /\ answer \in [key : Keys, ok : BOOLEAN]
  /\ elapsed \in Nat
  /\ granted \in [Keys -> Nat]

Init ==
  /\ visitors = [k \in {} |-> [tokens |-> 0, age |-> 0]]
  /\ sinceRound = 0
  /\ answer \in [key : Keys, ok : BOOLEAN]
  /\ elapsed = 0
  /\ granted = [k \in Keys |-> 0]

Tick ==
  /\ elapsed < MaxWindow
  /\ sinceRound < CleanupEvery + MaxLate
  /\ elapsed' = elapsed + 1
  /\ sinceRound' = sinceRound + 1
  /\ visitors' = [k \in DOMAIN visitors |->
                    [tokens |-> visitors[k].tokens, age |-> visitors[k].age + 1]]
  /\ UNCHANGED <<answer, granted>>

\* Fault: nothing stops the refill at a full bucket.
RefilledUncapped(k) == visitors[k].tokens + visitors[k].age * Rate

\* What Allow finds in the bucket of a known visitor.
Refilled(k) == AtMostFull(visitors[k].tokens + visitors[k].age * Rate)

Answer(k, ok) ==
  /\ answer' = [key |-> k, ok |-> ok]
  /\ granted' = IF ok THEN [granted EXCEPT ![k] = granted[k] + 1] ELSE granted

\* The visitor k, seen now, with n units left.
See(k, n) == visitors' = [q \in DOMAIN visitors \cup {k} |->
                            IF q = k THEN [tokens |-> n, age |-> 0] ELSE visitors[q]]

\* Allow: a newcomer is let through, a visitor if it has a token.
AllowNew(k) ==
  /\ k \notin DOMAIN visitors
  /\ See(k, Full - Unit)
  /\ Answer(k, TRUE)
  /\ UNCHANGED <<elapsed, sinceRound>>

\* Fault: lastSeen is left alone when the request is refused.
AllowKnownUnseen(k) ==
  /\ k \in DOMAIN visitors
  /\ IF Refilled(k) < Unit
     THEN /\ visitors' = [visitors EXCEPT ![k].tokens = Refilled(k)]
          /\ Answer(k, FALSE)
     ELSE See(k, Refilled(k) - Unit) /\ Answer(k, TRUE)
  /\ UNCHANGED <<elapsed, sinceRound>>

AllowKnown(k) ==
  /\ k \in DOMAIN visitors
  /\ IF Refilled(k) < Unit
     THEN See(k, Refilled(k)) /\ Answer(k, FALSE)
     ELSE See(k, Refilled(k) - Unit) /\ Answer(k, TRUE)
  /\ UNCHANGED <<elapsed, sinceRound>>

\* Fault: every visitor is forgotten in every round.
CleanupAll ==
  /\ sinceRound >= CleanupEvery
  /\ sinceRound' = 0
  /\ visitors' = Restrict(visitors, {})
  /\ UNCHANGED <<answer, observer>>

\* A round of cleanupLoop.
Cleanup ==
  /\ sinceRound >= CleanupEvery
  /\ sinceRound' = 0
  /\ visitors' = Restrict(visitors, {k \in DOMAIN visitors : visitors[k].age <= StaleAfter})
  /\ UNCHANGED <<answer, observer>>

\* The observer starts counting afresh, at any moment.
OpenWindow ==
  /\ elapsed' = 0
  /\ granted' = [k \in Keys |-> 0]
  /\ UNCHANGED <<visitors, sinceRound, answer>>

Next == Tick \/ Cleanup \/ OpenWindow \/ \E k \in Keys : AllowNew(k) \/ AllowKnown(k)

Spec == Init /\ [][Next]_vars

-----------------------------------------------------------------------------
\* The bucket a visitor stands for; one that is forgotten stands for a full one.
Level(k) == IF k \in DOMAIN visitors THEN Refilled(k) ELSE Full

Bucket == INSTANCE TokenBucket WITH level <- [k \in Keys |-> Level(k)]

\* Forgetting a visitor gives nothing away: long enough unseen, its bucket is full.
\* Holds of the defaults, 30 tokens a second for 10 minutes against a burst of 60.
RefilledWhenStale == Rate * StaleAfter >= Full

\* The limiter, refilling lazily and forgetting, behaves as a token bucket that does
\* neither, given RefilledWhenStale.
ImplementsBucket == Bucket!Spec

\* In no stretch of time does a client get more than a full bucket and the refill
\* of that time; what is left in the bucket counts against it.
WindowBound == \A k \in Keys : granted[k] * Unit + Level(k) <= Full + elapsed * Rate
=============================================================================
