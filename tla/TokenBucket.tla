---------------------------- MODULE TokenBucket ----------------------------
(***************************************************************************)
(* What a rate limiter promises (PLANO_DEPLOY.md:154, "RATE_LIMIT_RATE -   *)
(* req/s", and :155, "RATE_LIMIT_BURST - burst máximo"): a bucket of Burst *)
(* tokens per address, refilled at Rate, a token for every request let     *)
(* through, and no request refused while there is a token.                 *)
(*                                                                         *)
(* Time passes in ticks and a token is Unit units, so that Rate, in units  *)
(* per tick, may be a fraction of a token.                                 *)
(***************************************************************************)
EXTENDS Integers

CONSTANTS
  Keys,       \* the client addresses
  Unit,       \* units in a token
  Rate,       \* units refilled in a tick
  Burst,      \* tokens in a full bucket
  MaxWindow   \* bound: ticks after which a window of observation is closed

VARIABLES
  level,     \* units in the bucket of a key
  answer,    \* the last request: its key and whether it was let through
  elapsed,   \* ticks since the window of observation was opened
  granted    \* requests of a key let through since then

vars == <<level, answer, elapsed, granted>>

Full == Burst * Unit
AtMostFull(n) == IF n > Full THEN Full ELSE n

Answers == [key : Keys, ok : BOOLEAN]

\* The first request of all has not been made.
Init ==
  /\ level = [k \in Keys |-> Full]
  /\ answer \in Answers
  /\ elapsed = 0
  /\ granted = [k \in Keys |-> 0]

Tick ==
  /\ elapsed < MaxWindow
  /\ elapsed' = elapsed + 1
  /\ level' = [k \in Keys |-> AtMostFull(level[k] + Rate)]
  /\ UNCHANGED <<answer, granted>>

Request(k) ==
  /\ IF level[k] >= Unit
     THEN /\ answer' = [key |-> k, ok |-> TRUE]
          /\ level' = [level EXCEPT ![k] = level[k] - Unit]
          /\ granted' = [granted EXCEPT ![k] = granted[k] + 1]
     ELSE /\ answer' = [key |-> k, ok |-> FALSE]
          /\ UNCHANGED <<level, granted>>
  /\ UNCHANGED elapsed

\* The observer starts counting afresh, at any moment.
OpenWindow ==
  /\ elapsed' = 0
  /\ granted' = [k \in Keys |-> 0]
  /\ UNCHANGED <<level, answer>>

Next == Tick \/ OpenWindow \/ \E k \in Keys : Request(k)

Spec == Init /\ [][Next]_vars
=============================================================================
