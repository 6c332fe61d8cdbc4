---------------------------- MODULE RateLimiter ----------------------------
(***************************************************************************)
(* internal/server/ratelimit.go: one of the two limiters, for as long as   *)
(* the server runs.  RATE_LIMIT_BURST is the burst of either.              *)
(***************************************************************************)
EXTENDS MemoryRateLimiter

CONSTANTS Pipelines, None, WindowMs, MaxSkew, MaxDelay, MaxClock, Failures

VARIABLES
  driver,   \* which limiter NewRateLimiterFromEnv has made
  clock, ahead, zset, expires, pipe, asked, passed, opened, life   \* as in RedisRateLimiter

Redis == INSTANCE RedisRateLimiter

ASSUME RateLimiterAssumption == Redis!RedisRateLimiterAssumption

redisVars == <<clock, ahead, zset, expires, pipe, asked, passed, opened, life>>
limiterVars == <<driver, vars, redisVars>>

\* The one with Redis if RATE_LIMIT_DRIVER is "redis" and Redis answers the ping; what the
\* other would begin with is nobody's concern.
NewRateLimiterFromEnv ==
  /\ driver \in {"memory", "redis"}
  /\ Init
  /\ Redis!Init
  /\ driver = "redis" => answer = CHOOSE a \in [key : Keys, ok : BOOLEAN] : TRUE
  /\ driver = "memory" => \A p \in Pipelines : ahead[p] = 0

Allow ==
  /\ \/ driver = "memory" /\ Next /\ UNCHANGED redisVars
     \/ driver = "redis" /\ Redis!Next /\ UNCHANGED vars
  /\ UNCHANGED driver

LimiterSpec == NewRateLimiterFromEnv /\ [][Allow]_limiterVars

-----------------------------------------------------------------------------
\* RedisRateLimiter keeps its types (a member of the sorted set is a millisecond); a pipeline
\* counts only what came in its window, and all of its window that has been let through.
RedisInv == Redis!LimiterInv

\* In any window RedisRateLimiter lets through requests of no more milliseconds than the burst
\* and one of every other pipeline, or twice that once a broken pipeline has let Redis drop
\* the set, and those of the requests that Redis has failed (ratelimit_redis.go, Allow).
RedisWindowBound == Redis!WindowBound

\* ... without which the limit does not hold.
RedisBurstKept == Redis!BurstKept

\* RedisRateLimiter refuses nobody for what is older than the window.
RedisRefusedForCause == Redis!RefusedForCause
=============================================================================
