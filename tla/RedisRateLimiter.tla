-------------------------- MODULE RedisRateLimiter --------------------------
(***************************************************************************)
(* internal/server/ratelimit_redis.go: a sorted set with the requests of   *)
(* one address in the last second, shared by the server instances.  Allow  *)
(* sends four commands in a pipeline, which Redis may run between those of *)
(* another; each command is a step.  A tick is a millisecond, and a member *)
(* of the set is the millisecond of a request: that of the clock of its    *)
(* instance, which may be ahead.                                           *)
(***************************************************************************)
EXTENDS Integers, FiniteSets, FiniteSetsExt

CONSTANTS
  Pipelines,   \* the requests under way at one time
  None,        \* no time
  WindowMs,    \* the window, windowMs
  Burst,
  MaxSkew,     \* bound: ticks the clock of an instance is ahead
  MaxDelay,    \* bound: ticks a pipeline lasts
  MaxClock,    \* bound: the last tick at which a request comes
  Failures     \* Redis, or the way to it, may fail

RedisRateLimiterAssumption ==
  /\ None \notin Nat
  /\ WindowMs \in Nat \ {0}
  /\ Burst \in Nat \ {0}
  /\ MaxSkew \in Nat
  /\ MaxDelay \in Nat
  /\ MaxClock \in Nat
  /\ Failures \in BOOLEAN
  /\ IsFiniteSet(Pipelines)

VARIABLES
  clock,    \* the time
  ahead,    \* how far the clock of the instance that runs a pipeline is ahead
  zset,     \* the sorted set of the address: every member is its own score
  expires,  \* the tick at which Redis drops the set, None while it need not
  pipe,     \* the frame of every Allow
  asked,    \* history: the members of late
  passed,   \* history: the requests of the last window let through by their count
  opened,   \* history: those of the last Length let through because Redis has failed
  life      \* history: how often Redis has dropped the set

vars == <<clock, ahead, zset, expires, pipe, asked, passed, opened, life>>
history == <<asked, passed, opened, life>>

Idle == [pc |-> "idle", at |-> 0, now |-> 0, count |-> 0]
Frame == [pc : {"idle", "remove", "card", "add", "expire"}, at : Nat, now : Nat, count : Nat]
Pass == [at : Nat, member : Nat, life : Nat]
Open == [at : Nat, member : Nat]

TypeOK ==
  /\ clock \in Nat
  /\ ahead \in [Pipelines -> 0..MaxSkew]
  /\ zset \subseteq Nat /\ IsFiniteSet(zset)
  /\ expires \in Nat \cup {None}
  /\ pipe \in [Pipelines -> Frame]
  /\ asked \subseteq Nat
  /\ passed \subseteq Pass
  /\ life \in Nat

Init ==
  /\ clock = 0
  /\ ahead \in [Pipelines -> 0..MaxSkew]
  /\ zset = {}
  /\ expires = None
  /\ pipe = [p \in Pipelines |-> Idle]
  /\ asked = {}
  /\ passed = {}
  /\ opened = {}
  /\ life = 0

\* The window that all instances keep: the clocks that differ and the commands that take
\* their time shorten it.
Length == WindowMs - MaxSkew - MaxDelay

\* A key whose time is over is gone.
Tick ==
  /\ clock < MaxClock
  /\ \A p \in Pipelines : pipe[p] = Idle \/ clock - pipe[p].at < MaxDelay
  /\ clock' = clock + 1
  /\ IF expires = clock + 1
     THEN zset' = {} /\ expires' = None /\ life' = life + 1
     ELSE UNCHANGED <<zset, expires, life>>
  /\ asked' = {m \in asked : m > clock + 1 - WindowMs - MaxDelay}
  /\ passed' = {x \in passed : x.at > clock + 1 - WindowMs}
  /\ opened' = {x \in opened : x.at > clock + 1 - Length}
  /\ UNCHANGED <<ahead, pipe>>

\* Allow: the time is read once ...
Begin(p) ==
  /\ pipe[p] = Idle
  /\ pipe' = [pipe EXCEPT ![p] = [Idle EXCEPT !.pc = "remove", !.at = clock,
                                              !.now = clock + ahead[p]]]
  /\ UNCHANGED <<clock, ahead, zset, expires, history>>

Step(p, pc) == pipe' = [pipe EXCEPT ![p].pc = pc]

\* Fault: nothing is ever too old.
RecentAll(set, now) == set

\* What ZREMRANGEBYSCORE leaves: the scores after now - windowMs.
Recent(set, now) == {m \in set : m > now - WindowMs}

Remove(p) ==
  /\ pipe[p].pc = "remove"
  /\ zset' = Recent(zset, pipe[p].now)
  /\ expires' = IF zset' = {} THEN None ELSE expires
  /\ Step(p, "card")
  /\ UNCHANGED <<clock, ahead, history>>

Card(p) ==
  /\ pipe[p].pc = "card"
  /\ pipe' = [pipe EXCEPT ![p].pc = "add", ![p].count = Cardinality(zset)]
  /\ UNCHANGED <<clock, ahead, zset, expires, history>>

\* Fault: one more is let through.
PassesOneMore(count) == count <= Burst

Passes(count) == count < Burst

\* ZADD, whatever the count; a second request of one millisecond changes nothing.
Add(p) ==
  /\ pipe[p].pc = "add"
  /\ zset' = zset \cup {pipe[p].now}
  /\ asked' = asked \cup {pipe[p].now}
  /\ passed' = passed \cup {x \in {[at |-> pipe[p].at, member |-> pipe[p].now, life |-> life]} :
                              Passes(pipe[p].count)}
  /\ Step(p, "expire")
  /\ UNCHANGED <<clock, ahead, expires, opened, life>>

\* The last command, two windows of life for the key, and the answer.
Expire(p) ==
  /\ pipe[p].pc = "expire"
  /\ expires' = IF zset = {} THEN None ELSE clock + 2 * WindowMs
  /\ pipe' = [pipe EXCEPT ![p] = Idle]
  /\ UNCHANGED <<clock, ahead, zset, history>>

\* An error at any point lets the request through, whatever the count; the commands sent
\* before it have had their effect.
FailOpen(p) ==
  /\ Failures
  /\ pipe[p] # Idle
  /\ pipe' = [pipe EXCEPT ![p] = Idle]
  /\ opened' = opened \cup {[at |-> pipe[p].at, member |-> pipe[p].now]}
  /\ UNCHANGED <<clock, ahead, zset, expires, asked, passed, life>>

Allow(p) == Begin(p) \/ Remove(p) \/ Card(p) \/ Add(p) \/ Expire(p) \/ FailOpen(p)

Next == Tick \/ \E p \in Pipelines : Allow(p)

Spec == Init /\ [][Next]_vars

-----------------------------------------------------------------------------
PassedIn(t, l) == {x \in passed : t <= x.at /\ x.at < t + Length /\ x.life = l}
Members(passes) == {x.member : x \in passes}

\* The burst, and one of every other pipeline under way.
AtOnce == Burst + Cardinality(Pipelines) - 1

\* Between one drop of the set and the next, the requests let through in a window are of so
\* many milliseconds at most.
LifeBound ==
  \A t \in 0..clock, l \in 0..life : Cardinality(Members(PassedIn(t, l))) <= AtOnce

\* A drop costs nothing unless a pipeline breaks off before it has renewed the key, and then
\* never more than as many again.
MostCounted == IF Failures THEN 2 * AtOnce ELSE AtOnce

\* All that is let through in a window: by their count, in any life of the set, or by a failure.
Counted(t) == UNION {PassedIn(t, l) : l \in 0..life}
OpenedIn(t) == {x \in opened : t <= x.at /\ x.at < t + Length}
Through(t) == Members(Counted(t)) \cup Members(OpenedIn(t))

\* Failures let nobody through but the requests they hit.
WindowBound ==
  /\ LifeBound
  /\ \A t \in 0..clock :
       Cardinality(Through(t)) <= MostCounted + Cardinality(Members(OpenedIn(t)))

\* ratelimit_redis.go:55, "1 second sliding window", and rl.burst: no window lets more
\* through than the burst and one of every other pipeline.  "fail open on Redis error"
\* (ratelimit_redis.go:63): it does, as many as come while Redis is away.
BurstKept == \A t \in 0..clock : Cardinality(Through(t)) <= MostCounted

\* A request is refused only when requests of Burst milliseconds have come before it in
\* its window: nothing older is held against it, whatever the others do in between.
RefusedForCause ==
  \A p \in Pipelines :
    pipe[p].pc = "add" /\ pipe[p].count >= Burst =>
      Cardinality({m \in asked : m > pipe[p].now - WindowMs}) >= Burst

\* Clocks and delays leave some of the window, which RefusedForCause needs.
Timely == MaxSkew + MaxDelay < WindowMs

\* A pipeline under way is of late; what it counts are members it has not removed, and what
\* it has counted has been asked for in its window.
PipeOK(p) ==
  /\ pipe[p].at <= clock /\ clock <= pipe[p].at + MaxDelay
  /\ pipe[p].at <= pipe[p].now /\ pipe[p].now <= pipe[p].at + MaxSkew
  /\ pipe[p].pc = "card" => \A m \in zset : m > pipe[p].now - WindowMs
  /\ pipe[p].pc = "add" => pipe[p].count <= Cardinality({m \in asked : m > pipe[p].now - WindowMs})

\* What RefusedForCause rests on: members not of late are older than any window still used.
RefuseInv ==
  /\ TypeOK
  /\ IsFiniteSet(asked)
  /\ \A m \in zset : m \in asked \/ m <= clock - WindowMs - MaxDelay
  /\ \A p \in Pipelines : pipe[p].pc # "idle" => PipeOK(p)
  /\ RefusedForCause

\* The pipelines that have counted and will be let through.
Passing(t) == {p \in Pipelines : /\ pipe[p].pc = "add" /\ Passes(pipe[p].count)
                                 /\ t <= pipe[p].at /\ pipe[p].at < t + Length}

\* What LifeBound rests on: who is let through is counted by whoever comes in the window,
\* and a pipeline about to add is one of those under way.
PassInv ==
  /\ IsFiniteSet(Members(passed))
  /\ \A x \in passed : /\ x.at <= clock /\ x.at <= x.member /\ x.life <= life
                       /\ x.life = life => x.member \in zset \/ clock >= x.at + WindowMs - MaxSkew
  /\ \A t \in 0..clock :
       Cardinality(Members(PassedIn(t, life))) + Cardinality(Passing(t)) <= AtOnce
  /\ LifeBound

\* The pipelines between their first command and their answer.
Started == {p \in Pipelines : pipe[p].pc \notin {"idle", "remove"}}

\* What the bound on what a drop costs rests on: two windows lie between one and the next.
DropInv ==
  /\ \A m \in zset : m <= clock + MaxSkew
  /\ \A x \in passed : x.life + 1 >= life
  /\ expires # None => \A x \in passed : x.life < life => x.at + 2 * WindowMs <= expires

\* Unless pipelines fail, the key outlives every member by more than a window: no window has
\* requests let through before a drop and after it.
KeyInv ==
  ~Failures =>
    /\ \A m \in zset : \/ \E p \in Started : pipe[p].pc = "expire" /\ pipe[p].now = m
                       \/ expires # None /\ m + 2 * WindowMs <= expires + MaxSkew
    /\ expires # None /\ Started # {} =>
         \E p \in Started : pipe[p].at + WindowMs < expires + MaxSkew
    /\ \A x \in passed : x.life < life => x.at + WindowMs <= clock + MaxSkew
    /\ \A x, y \in passed : x.life < y.life => x.at + Length <= y.at

\* Those let through by a failure are requests, and finitely many in a window.
OpenInv == opened \subseteq Open /\ IsFiniteSet(Members(opened))

LimiterInv == RefuseInv /\ PassInv /\ DropInv /\ KeyInv /\ OpenInv
=============================================================================
