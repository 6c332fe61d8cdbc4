------------------------- MODULE RateLimiterProofs -------------------------
(***************************************************************************)
(* What the rate limiters promise, for every rate, burst, window and       *)
(* number of pipelines: that of one process first, then that of Redis,     *)
(* from what it refuses over whom it lets through to what it costs that    *)
(* Redis drops the set; at the end, the server, which runs one of the two. *)
(***************************************************************************)
EXTENDS RateLimiter, FiniteSetTheorems, TLAPS

USE MemoryRateLimiterAssumption

LEMMA ProductInNat ==
  ASSUME NEW a \in Nat, NEW r \in Nat
  PROVE  a * r \in Nat
  BY SMT

LEMMA ProductNext ==
  ASSUME NEW a \in Nat, NEW r \in Nat
  PROVE  (a + 1) * r = a * r + r
  BY SMT

LEMMA ProductGrows ==
  ASSUME NEW a \in Nat, NEW b \in Nat, NEW r \in Nat, a <= b
  PROVE  a * r <= b * r
  BY SMT

LEMMA FullIsNat == Full \in Nat /\ Full >= Unit /\ 0 * Rate = 0
  BY SMT DEF Full

LEMMA AgedTokens ==
  ASSUME TypeOK, NEW k \in DOMAIN visitors
  PROVE  /\ k \in Keys
         /\ visitors[k].tokens \in Nat /\ visitors[k].tokens <= Full
         /\ visitors[k].age \in Nat /\ visitors[k].age * Rate \in Nat
         /\ Refilled(k) \in Nat /\ Refilled(k) <= Full
<1>1. visitors[k] \in Visitor /\ k \in Keys /\ visitors[k].tokens <= Full
  BY DEF TypeOK
<1>2. visitors[k].age \in Nat /\ visitors[k].tokens \in Nat
  BY <1>1 DEF Visitor
<1>3. visitors[k].age * Rate \in Nat
  BY <1>2, ProductInNat
<1> QED
  BY <1>1, <1>2, <1>3, FullIsNat DEF Refilled, AtMostFull

LEMMA LevelRange ==
  ASSUME TypeOK, NEW k \in Keys
  PROVE  Level(k) \in Nat /\ Level(k) <= Full
  BY AgedTokens, FullIsNat DEF Level

\* A tick refills every bucket, looked at or not.
LEMMA LevelTick ==
  ASSUME TypeOK, Tick, NEW k \in Keys
  PROVE  Level(k)' = AtMostFull(Level(k) + Rate)
<1>1. DOMAIN visitors' = DOMAIN visitors
  BY DEF Tick
<1>2. CASE k \in DOMAIN visitors
  <2> DEFINE t == visitors[k].tokens  a == visitors[k].age
  <2>1. visitors'[k].tokens = t /\ visitors'[k].age = a + 1
    BY <1>2 DEF Tick
  <2>2. t \in Nat /\ a \in Nat /\ a * Rate \in Nat
    BY <1>2, AgedTokens
  <2>3. (a + 1) * Rate = a * Rate + Rate
    BY <2>2, ProductNext
  <2>4. Level(k)' = AtMostFull(t + (a * Rate + Rate))
    BY <1>1, <1>2, <2>1, <2>3 DEF Level, Refilled, AtMostFull, Full
  <2>5. Level(k) = AtMostFull(t + a * Rate)
    BY <1>2 DEF Level, Refilled
  <2> HIDE DEF t, a
  <2> QED
    BY <2>2, <2>4, <2>5, FullIsNat DEF AtMostFull
<1>3. CASE k \notin DOMAIN visitors
  BY <1>1, <1>3, FullIsNat DEF Level, AtMostFull, Full
<1> QED
  BY <1>2, <1>3

\* A request sets the level of the bucket it looks at, and of no other.
LEMMA LevelSee ==
  ASSUME TypeOK, NEW k \in Keys, NEW n \in Nat, n <= Full, See(k, n)
  PROVE  Level(k)' = n /\ \A q \in Keys \ {k} : Level(q)' = Level(q)
<1>1. DOMAIN visitors' = DOMAIN visitors \cup {k} /\ visitors'[k] = [tokens |-> n, age |-> 0]
  BY DEF See
<1>2. Level(k)' = AtMostFull(n + 0 * Rate)
  BY <1>1 DEF Level, Refilled, AtMostFull, Full
<1>3. Level(k)' = n
  BY <1>2, FullIsNat DEF AtMostFull
<1>4. ASSUME NEW q \in Keys \ {k} PROVE Level(q)' = Level(q)
  <2>1. q \in DOMAIN visitors' <=> q \in DOMAIN visitors
    BY <1>1
  <2>2. q \in DOMAIN visitors => visitors'[q] = visitors[q]
    BY DEF See
  <2> QED
    BY <2>1, <2>2 DEF Level, Refilled, AtMostFull, Full
<1> QED
  BY <1>3, <1>4

\* A round of cleanupLoop leaves every level as it is: what it forgets is full.
LEMMA LevelCleanup ==
  ASSUME RefilledWhenStale, TypeOK, Cleanup, NEW k \in Keys
  PROVE  Level(k)' = Level(k)
<1> DEFINE fresh == {q \in DOMAIN visitors : visitors[q].age <= StaleAfter}
<1>1. DOMAIN visitors' = fresh /\ \A q \in fresh : visitors'[q] = visitors[q]
  BY DEF Cleanup, Restrict
<1>2. CASE k \in fresh
  BY <1>1, <1>2 DEF Level, Refilled, AtMostFull, Full
<1>3. CASE k \notin DOMAIN visitors
  BY <1>1, <1>3 DEF Level, Full
<1>4. CASE k \in DOMAIN visitors \ fresh
  <2> DEFINE t == visitors[k].tokens  a == visitors[k].age
  <2>1. t \in Nat /\ a \in Nat /\ StaleAfter <= a /\ a * Rate \in Nat
    BY <1>4, AgedTokens
  <2>2. StaleAfter * Rate <= a * Rate
    BY <2>1, ProductGrows
  <2>3. StaleAfter * Rate = Rate * StaleAfter /\ StaleAfter * Rate \in Nat
    BY SMT
  <2>4. Level(k) = AtMostFull(t + a * Rate)
    BY <1>4 DEF Level, Refilled
  <2>5. Level(k)' = Full
    BY <1>1, <1>4 DEF Level, Full
  <2> HIDE DEF t, a
  <2> QED
    BY <2>1, <2>2, <2>3, <2>4, <2>5, FullIsNat DEF RefilledWhenStale, AtMostFull
<1> QED
  BY <1>2, <1>3, <1>4

\* The two outcomes of a request, in terms of the level it finds.
LEMMA AllowLevel ==
  ASSUME TypeOK, NEW k \in Keys, AllowNew(k) \/ AllowKnown(k)
  PROVE  /\ \E n \in Nat, ok \in BOOLEAN :
              /\ ok = (Level(k) >= Unit)
              /\ n = IF Level(k) >= Unit THEN Level(k) - Unit ELSE Level(k)
              /\ n <= Full
              /\ See(k, n) /\ Answer(k, ok)
         /\ UNCHANGED <<elapsed, sinceRound>>
<1> DEFINE ok == Level(k) >= Unit
           n == IF ok THEN Level(k) - Unit ELSE Level(k)
<1>1. Level(k) \in Nat /\ Level(k) <= Full
  BY LevelRange
<1>2. /\ n \in Nat /\ n <= Full /\ ok \in BOOLEAN
      /\ ok = (Level(k) >= Unit)
      /\ n = IF Level(k) >= Unit THEN Level(k) - Unit ELSE Level(k)
      /\ Level(k) >= Unit => ok = TRUE /\ n = Level(k) - Unit
      /\ ~(Level(k) >= Unit) => ok = FALSE /\ n = Level(k)
  BY <1>1, FullIsNat
<1> HIDE DEF ok, n
<1>3. See(k, n) /\ Answer(k, ok) /\ UNCHANGED <<elapsed, sinceRound>>
  <2>1. CASE AllowNew(k)
    <3>1. ok = TRUE /\ n = Full - Unit
      BY <1>2, <2>1, FullIsNat DEF AllowNew, Level
    <3> QED
      BY <2>1, <3>1, Zenon DEF AllowNew, See, Answer
  <2>2. CASE AllowKnown(k) /\ Level(k) >= Unit
    <3>1. Level(k) = Refilled(k)
      BY <2>2 DEF AllowKnown, Level
    <3>2. ~(Refilled(k) < Unit) /\ n = Refilled(k) - Unit /\ ok = TRUE
      BY <1>1, <1>2, <2>2, <3>1
    <3> QED
      BY <2>2, <3>2, Zenon DEF AllowKnown, See, Answer
  <2>3. CASE AllowKnown(k) /\ ~(Level(k) >= Unit)
    <3>1. Level(k) = Refilled(k)
      BY <2>3 DEF AllowKnown, Level
    <3>2. Refilled(k) < Unit /\ n = Refilled(k) /\ ok = FALSE
      BY <1>1, <1>2, <2>3, <3>1
    <3> QED
      BY <2>3, <3>2, Zenon DEF AllowKnown, See, Answer
  <2> QED
    BY <2>1, <2>2, <2>3
<1> QED
  BY <1>2, <1>3

-----------------------------------------------------------------------------
LEMMA TypeStep ==
  ASSUME TypeOK, [Next]_vars
  PROVE  TypeOK'
<1>1. CASE Tick
  <2>1. DOMAIN visitors' = DOMAIN visitors
    BY <1>1 DEF Tick
  <2>2. ASSUME NEW k \in DOMAIN visitors
        PROVE  visitors'[k] \in Visitor /\ visitors'[k].tokens <= Full
    <3>1. visitors[k].tokens \in Nat /\ visitors[k].tokens <= Full /\ visitors[k].age \in Nat
      BY AgedTokens
    <3>2. visitors'[k] = [tokens |-> visitors[k].tokens, age |-> visitors[k].age + 1]
      BY <1>1 DEF Tick
    <3> QED
      BY <3>1, <3>2 DEF Visitor
  <2>3. visitors' \in [DOMAIN visitors' -> Visitor]
    BY <1>1, <2>1, <2>2 DEF Tick
  <2> QED
    BY <1>1, <2>1, <2>2, <2>3 DEF TypeOK, Tick, Full
<1>2. CASE Cleanup
  <2>1. DOMAIN visitors' \subseteq DOMAIN visitors
        /\ visitors' \in [DOMAIN visitors' -> Visitor]
        /\ \A q \in DOMAIN visitors' : visitors'[q] = visitors[q]
    BY <1>2 DEF Cleanup, Restrict, TypeOK
  <2> QED
    BY <1>2, <2>1 DEF TypeOK, Cleanup, observer, Full
<1>3. ASSUME NEW k \in Keys, AllowNew(k) \/ AllowKnown(k) PROVE TypeOK'
  <2>1. PICK n \in Nat, ok \in BOOLEAN : n <= Full /\ See(k, n) /\ Answer(k, ok)
    BY <1>3, AllowLevel, Zenon
  <2>2. DOMAIN visitors' = DOMAIN visitors \cup {k}
        /\ visitors' \in [DOMAIN visitors' -> Visitor]
        /\ \A q \in DOMAIN visitors' : visitors'[q].tokens <= Full
    BY <2>1 DEF See, Visitor, TypeOK
  <2>3. answer' \in [key : Keys, ok : BOOLEAN] /\ granted' \in [Keys -> Nat]
    BY <2>1 DEF Answer, TypeOK
  <2>4. elapsed' \in Nat /\ sinceRound' \in Nat
    BY <1>3, AllowLevel DEF TypeOK
  <2> QED
    BY <2>2, <2>3, <2>4 DEF TypeOK, Full
<1>4. CASE OpenWindow
  BY <1>4 DEF OpenWindow, TypeOK, Full
<1>5. CASE UNCHANGED vars
  BY <1>5 DEF vars, TypeOK, Full
<1> QED
  BY <1>1, <1>2, <1>3, <1>4, <1>5 DEF Next

\* The limiter keeps its types, and no visitor more than a full bucket
\* (MemoryRateLimiter.Allow caps what it refills).
THEOREM TypeCorrect == Spec => []TypeOK
<1>1. Init => TypeOK
  BY FullIsNat DEF Init, TypeOK, Visitor
<1> QED
  BY <1>1, TypeStep, PTL DEF Spec

LEMMA WindowStep ==
  ASSUME RefilledWhenStale, TypeOK, WindowBound, [Next]_vars
  PROVE  WindowBound'
<1> SUFFICES ASSUME NEW k \in Keys
             PROVE  granted'[k] * Unit + Level(k)' <= Full + elapsed' * Rate
  BY DEF WindowBound, Full
<1>1. granted[k] * Unit + Level(k) <= Full + elapsed * Rate
  BY DEF WindowBound
<1>2. Level(k) \in Nat /\ Level(k) <= Full /\ granted[k] \in Nat /\ elapsed \in Nat
  BY LevelRange DEF TypeOK
<1>3. elapsed * Rate \in Nat /\ granted[k] * Unit \in Nat /\ Full \in Nat
  BY <1>2, ProductInNat, FullIsNat
<1>4. CASE Tick
  <2>1. granted'[k] = granted[k] /\ elapsed' * Rate = elapsed * Rate + Rate
    BY <1>2, <1>4, ProductNext DEF Tick
  <2>2. Level(k)' <= Level(k) + Rate /\ Level(k)' \in Nat
    BY <1>2, <1>4, LevelTick, FullIsNat DEF AtMostFull
  <2> QED
    BY <1>1, <1>2, <1>3, <2>1, <2>2
<1>5. CASE Cleanup
  <2>1. granted' = granted /\ elapsed' = elapsed
    BY <1>5 DEF Cleanup, observer
  <2> QED
    BY <1>1, <1>5, <2>1, LevelCleanup
<1>6. ASSUME NEW q \in Keys, AllowNew(q) \/ AllowKnown(q)
      PROVE  granted'[k] * Unit + Level(k)' <= Full + elapsed' * Rate
  <2>1. elapsed' = elapsed
    BY <1>6, AllowLevel
  <2>2. PICK n \in Nat, ok \in BOOLEAN :
          /\ ok = (Level(q) >= Unit)
          /\ n = IF Level(q) >= Unit THEN Level(q) - Unit ELSE Level(q)
          /\ n <= Full
          /\ See(q, n) /\ Answer(q, ok)
    BY <1>6, AllowLevel, Zenon
  <2>3. Level(q)' = n /\ (q # k => Level(k)' = Level(k))
    BY <2>2, LevelSee
  <2>4. granted'[k] = IF q = k /\ ok THEN granted[k] + 1 ELSE granted[k]
    BY <2>2 DEF Answer, TypeOK
  <2>5. CASE q = k /\ ok
    <3>1. granted'[k] * Unit = granted[k] * Unit + Unit
      BY <1>2, <2>4, <2>5, ProductNext
    <3>2. Level(k)' = Level(k) - Unit
      BY <2>2, <2>3, <2>5
    <3> QED
      BY <1>1, <1>2, <1>3, <2>1, <3>1, <3>2
  <2>6. CASE ~(q = k /\ ok)
    BY <1>1, <2>1, <2>2, <2>3, <2>4, <2>6
  <2> QED
    BY <2>5, <2>6
<1>7. CASE OpenWindow
  <2>1. granted'[k] = 0 /\ elapsed' = 0 /\ visitors' = visitors
    BY <1>7 DEF OpenWindow
  <2>2. Level(k)' = Level(k) /\ 0 * Unit = 0
    BY <2>1, SMT DEF Level, Refilled, AtMostFull, Full
  <2> QED
    BY <1>2, <1>3, <2>1, <2>2, FullIsNat
<1>8. CASE UNCHANGED vars
  <2>1. Level(k)' = Level(k) /\ granted' = granted /\ elapsed' = elapsed
    BY <1>8 DEF vars, Level, Refilled, AtMostFull, Full
  <2> QED
    BY <1>1, <2>1
<1> QED
  BY <1>4, <1>5, <1>6, <1>7, <1>8 DEF Next

\* In no stretch of time does an address get more than a full bucket and the
\* refill of that time, forgotten in between or not.
THEOREM WindowIsBounded ==
  ASSUME RefilledWhenStale
  PROVE  Spec => []WindowBound
<1>1. Init => WindowBound
  BY FullIsNat DEF Init, WindowBound, Level
<1>2. TypeOK /\ WindowBound /\ [Next]_vars => WindowBound'
  BY WindowStep
<1> QED
  BY <1>1, <1>2, TypeCorrect, PTL DEF Spec

-----------------------------------------------------------------------------
LEMMA RefinementStep ==
  ASSUME RefilledWhenStale, TypeOK, [Next]_vars
  PROVE  [Bucket!Next]_(Bucket!vars)
<1> DEFINE level == [k \in Keys |-> Level(k)]
<1>1. CASE Tick
  <2>1. level' = [k \in Keys |-> AtMostFull(level[k] + Rate)]
    BY <1>1, LevelTick
  <2>2. Bucket!Tick
    BY <1>1, <2>1 DEF Tick, Bucket!Tick, Bucket!AtMostFull, Bucket!Full, AtMostFull, Full
  <2> QED
    BY <2>2 DEF Bucket!Next
<1>2. CASE Cleanup
  <2>1. level' = level
    BY <1>2, LevelCleanup
  <2>2. UNCHANGED <<answer, elapsed, granted>>
    BY <1>2 DEF Cleanup, observer
  <2> QED
    BY <2>1, <2>2 DEF Bucket!vars
<1>3. ASSUME NEW k \in Keys, AllowNew(k) \/ AllowKnown(k) PROVE Bucket!Request(k)
  <2>1. elapsed' = elapsed
    BY <1>3, AllowLevel
  <2>2. PICK n \in Nat, ok \in BOOLEAN :
          /\ ok = (Level(k) >= Unit)
          /\ n = IF Level(k) >= Unit THEN Level(k) - Unit ELSE Level(k)
          /\ n <= Full
          /\ See(k, n) /\ Answer(k, ok)
    BY <1>3, AllowLevel, Zenon
  <2>3. Level(k)' = n /\ \A q \in Keys \ {k} : Level(q)' = Level(q)
    BY <2>2, LevelSee
  <2>4. level' = [level EXCEPT ![k] = n]
    BY <2>3
  <2>5. ~ok => level' = level
    BY <2>2, <2>4
  <2> HIDE DEF level
  <2>6. level[k] = Level(k)
    BY DEF level
  <2> QED
    BY <2>1, <2>2, <2>4, <2>5, <2>6 DEF Bucket!Request, Answer, level
<1>4. CASE OpenWindow
  <2>1. level' = level
    BY <1>4 DEF OpenWindow, Level, Refilled, AtMostFull, Full
  <2>2. Bucket!OpenWindow
    BY <1>4, <2>1 DEF OpenWindow, Bucket!OpenWindow
  <2> QED
    BY <2>2 DEF Bucket!Next
<1>5. CASE UNCHANGED vars
  BY <1>5 DEF vars, Bucket!vars, Level, Refilled, AtMostFull, Full
<1> QED
  BY <1>1, <1>2, <1>3, <1>4, <1>5 DEF Next, Bucket!Next

\* The limiter, which refills a bucket only when it is looked at and forgets the
\* addresses not seen for staleAfter, behaves as a token bucket that does neither.
THEOREM LimiterIsBucket ==
  ASSUME RefilledWhenStale
  PROVE  Spec => ImplementsBucket
<1>1. Init => Bucket!Init
  BY DEF Init, Bucket!Init, Bucket!Answers, Bucket!Full, Level, Full
<1>2. TypeOK /\ [Next]_vars => [Bucket!Next]_(Bucket!vars)
  BY RefinementStep
<1> QED
  BY <1>1, <1>2, TypeCorrect, PTL DEF Spec, ImplementsBucket, Bucket!Spec

-----------------------------------------------------------------------------
\* The members of late in the window of a request of the millisecond now.
Window(now) == {m \in asked : m > now - WindowMs}

\* The module of RedisRateLimiter has its own name for what is finite, and how many.
LEMMA RedisSets ==
  ASSUME NEW S
  PROVE  Redis!IsFiniteSet(S) = IsFiniteSet(S) /\ Redis!Cardinality(S) = Cardinality(S)
  BY DEF Redis!IsFiniteSet, IsFiniteSet, Redis!Cardinality, Cardinality

LEMMA SubsetOf ==
  ASSUME NEW S, Redis!IsFiniteSet(S), NEW T \in SUBSET S
  PROVE  /\ Redis!IsFiniteSet(T) /\ Redis!Cardinality(T) <= Redis!Cardinality(S)
         /\ Redis!Cardinality(S) \in Nat /\ Redis!Cardinality(T) \in Nat
  BY RedisSets, FS_Subset, FS_CardinalityType

LEMMA Counted ==
  ASSUME NEW S, Redis!IsFiniteSet(S)
  PROVE  Redis!Cardinality(S) \in Nat
  BY RedisSets, FS_CardinalityType

LEMMA OneMore ==
  ASSUME NEW S, Redis!IsFiniteSet(S), NEW x
  PROVE  /\ Redis!IsFiniteSet(S \cup {x})
         /\ Redis!Cardinality(S \cup {x}) <= Redis!Cardinality(S) + 1
         /\ x \notin S => Redis!Cardinality(S \cup {x}) = Redis!Cardinality(S) + 1
  BY RedisSets, FS_AddElement, FS_CardinalityType

LEMMA OneFewer ==
  ASSUME NEW S, Redis!IsFiniteSet(S), NEW x \in S
  PROVE  /\ Redis!IsFiniteSet(S \ {x})
         /\ Redis!Cardinality(S \ {x}) = Redis!Cardinality(S) - 1
  BY RedisSets, FS_RemoveElement, FS_CardinalityType

LEMMA Both ==
  ASSUME NEW S, Redis!IsFiniteSet(S), NEW T, Redis!IsFiniteSet(T)
  PROVE  /\ Redis!IsFiniteSet(S \cup T)
         /\ Redis!Cardinality(S \cup T) <= Redis!Cardinality(S) + Redis!Cardinality(T)
<1>1. /\ IsFiniteSet(S) /\ IsFiniteSet(T) /\ Cardinality(S) \in Nat /\ Cardinality(T) \in Nat
      /\ IsFiniteSet(S \cap T)
  BY RedisSets, FS_CardinalityType, FS_Intersection
<1>2. IsFiniteSet(S \cup T) /\ Cardinality(S \cup T) = Cardinality(S) + Cardinality(T) - Cardinality(S \cap T)
  BY <1>1, FS_Union
<1>3. Cardinality(S \cap T) \in Nat
  BY <1>1, FS_CardinalityType
<1> QED
  BY <1>1, <1>2, <1>3, RedisSets

LEMMA Nobody == Redis!IsFiniteSet({}) /\ Redis!Cardinality({}) = 0
  BY RedisSets, FS_EmptySet

LEMMA RedisNumbers ==
  /\ WindowMs \in Nat \ {0} /\ MaxSkew \in Nat /\ MaxDelay \in Nat /\ Burst \in Nat \ {0}
  /\ None \notin Nat /\ Failures \in BOOLEAN /\ IsFiniteSet(Pipelines)
  BY RateLimiterAssumption, RedisSets DEF Redis!RedisRateLimiterAssumption

LEMMA RedisFrames ==
  ASSUME Redis!TypeOK, NEW p \in Pipelines
  PROVE  /\ pipe[p] \in Redis!Frame /\ clock \in Nat
         /\ pipe[p].at \in Nat /\ pipe[p].now \in Nat /\ pipe[p].count \in Nat
  BY DEF Redis!TypeOK, Redis!Frame

\* A window has no fewer members once more have been asked for.
LEMMA WindowGrows ==
  ASSUME Redis!IsFiniteSet(asked'), NEW now \in Int, \A m \in Window(now) : m \in asked'
  PROVE  Redis!Cardinality(Window(now)) <= Redis!Cardinality(Window(now)')
<1>1. Window(now)' \subseteq asked' /\ Window(now) \subseteq Window(now)'
  BY DEF Window
<1>2. Redis!IsFiniteSet(Window(now)')
  BY <1>1, SubsetOf
<1> QED
  BY <1>1, <1>2, SubsetOf

\* What a pipeline has counted lasts while the members of its window do.
LEMMA CountLasts ==
  ASSUME Redis!RefuseInv, NEW p \in Pipelines, pipe'[p] = pipe[p], Redis!IsFiniteSet(asked'),
         pipe[p].pc = "add", asked' \subseteq Nat,
         \A m \in asked : m > pipe[p].now - WindowMs => m \in asked'
  PROVE  pipe[p].count <= Redis!Cardinality({m \in asked' : m > pipe[p].now - WindowMs})
<1> PICK now : now = pipe[p].now
  OBVIOUS
<1> PICK count : count = pipe[p].count
  OBVIOUS
<1>1. now \in Int /\ count \in Nat
  BY RedisFrames DEF Redis!RefuseInv
<1>2. count <= Redis!Cardinality(Window(now))
  BY DEF Redis!RefuseInv, Redis!PipeOK, Window
<1>3. Redis!Cardinality(Window(now)) <= Redis!Cardinality(Window(now)')
  BY <1>1, WindowGrows DEF Window
<1>4. Redis!Cardinality(Window(now)) \in Nat /\ Redis!Cardinality(Window(now)') \in Nat
  <2>1. Redis!IsFiniteSet(asked) /\ Window(now) \subseteq asked /\ Window(now)' \subseteq asked'
    BY DEF Redis!RefuseInv, Window
  <2> QED
    BY <2>1, SubsetOf, Counted
<1>5. count <= Redis!Cardinality(Window(now)')
  BY <1>1, <1>2, <1>3, <1>4
<1> QED
  BY <1>5 DEF Window

\* The counts refuse for cause, in the state that a step leads to.
LEMMA RefuseFor ==
  ASSUME Redis!TypeOK', Redis!IsFiniteSet(asked'),
         \A p \in Pipelines : pipe'[p].pc # "idle" => Redis!PipeOK(p)'
  PROVE  Redis!RefusedForCause'
<1> SUFFICES ASSUME NEW p \in Pipelines, pipe'[p].pc = "add", pipe'[p].count >= Burst
             PROVE  Redis!Cardinality({m \in asked' : m > pipe'[p].now - WindowMs}) >= Burst
  BY DEF Redis!RefusedForCause
<1>1. pipe'[p].count <= Redis!Cardinality({m \in asked' : m > pipe'[p].now - WindowMs})
  BY DEF Redis!PipeOK
<1>2. Redis!Cardinality({m \in asked' : m > pipe'[p].now - WindowMs}) \in Nat
  <2>1. {m \in asked' : m > pipe'[p].now - WindowMs} \subseteq asked'
    OBVIOUS
  <2> QED
    BY <2>1, SubsetOf, Counted
<1>3. pipe'[p].count \in Nat
  BY DEF Redis!TypeOK, Redis!Frame
<1> QED
  BY <1>1, <1>2, <1>3, RedisNumbers

\* The pipeline p takes a step, with the frame f from then on.
LEMMA PipeStep ==
  ASSUME Redis!Timely, Redis!RefuseInv, NEW p \in Pipelines, NEW f \in Redis!Frame,
         pipe' = [pipe EXCEPT ![p] = f], clock' = clock, ahead' = ahead,
         zset' \subseteq Nat, Redis!IsFiniteSet(zset'), expires' \in Nat \cup {None}, passed' \subseteq Redis!Pass,
         life' \in Nat, asked' \subseteq Nat, Redis!IsFiniteSet(asked'), asked \subseteq asked',
         \A m \in zset' : m \in zset \/ (m \in asked' /\ m + MaxDelay >= clock),
         f.pc # "idle" =>
           /\ f.at <= clock /\ clock <= f.at + MaxDelay
           /\ f.at <= f.now /\ f.now <= f.at + MaxSkew
           /\ f.pc = "card" => \A m \in zset' : m > f.now - WindowMs
           /\ f.pc = "add" => f.count <= Redis!Cardinality({m \in asked' : m > f.now - WindowMs})
  PROVE  Redis!RefuseInv'
<1>1. Redis!TypeOK'
  BY DEF Redis!RefuseInv, Redis!TypeOK
<1>2. pipe'[p] = f /\ \A q \in Pipelines \ {p} : pipe'[q] = pipe[q]
  BY DEF Redis!RefuseInv, Redis!TypeOK
<1>3. ASSUME NEW q \in Pipelines \ {p}, pipe[q].pc # "idle" PROVE Redis!PipeOK(q)'
  <2>1. Redis!PipeOK(q) /\ pipe'[q] = pipe[q]
    BY <1>2, <1>3 DEF Redis!RefuseInv
  <2>2. /\ pipe[q].at \in Nat /\ pipe[q].now \in Nat /\ clock \in Nat /\ zset \subseteq Nat
        /\ pipe[q].at <= clock /\ pipe[q].now <= pipe[q].at + MaxSkew
    BY <2>1, RedisFrames DEF Redis!RefuseInv, Redis!PipeOK, Redis!TypeOK
  <2>3. ASSUME pipe[q].pc = "card", NEW m \in zset' PROVE m > pipe[q].now - WindowMs
    <3>1. CASE m \in zset
      BY <2>1, <2>3, <3>1 DEF Redis!PipeOK
    <3>2. CASE m + MaxDelay >= clock
      BY <2>2, <3>2, RedisNumbers DEF Redis!Timely
    <3> QED
      BY <3>1, <3>2
  <2>4. pipe[q].pc = "add" => pipe[q].count <= Redis!Cardinality({m \in asked' : m > pipe[q].now - WindowMs})
    BY <2>1, CountLasts
  <2> QED
    BY <2>1, <2>3, <2>4 DEF Redis!PipeOK
<1>4. ASSUME f.pc # "idle" PROVE Redis!PipeOK(p)'
  BY <1>2, <1>4 DEF Redis!PipeOK
<1>5. \A q \in Pipelines : pipe'[q].pc # "idle" => Redis!PipeOK(q)'
  BY <1>2, <1>3, <1>4
<1>6. \A m \in zset' : m \in asked' \/ m <= clock' - WindowMs - MaxDelay
  BY DEF Redis!RefuseInv
<1>7. Redis!RefusedForCause'
  BY <1>1, <1>5, RefuseFor
<1> QED
  BY <1>1, <1>5, <1>6, <1>7 DEF Redis!RefuseInv

LEMMA BeginInv ==
  ASSUME Redis!Timely, Redis!RefuseInv, NEW p \in Pipelines, Redis!Begin(p)
  PROVE  Redis!RefuseInv'
<1> PICK f : f = [Redis!Idle EXCEPT !.pc = "remove", !.at = clock, !.now = clock + ahead[p]]
  OBVIOUS
<1>1. clock \in Nat /\ ahead[p] \in 0..MaxSkew /\ clock + ahead[p] \in Nat
  BY RedisNumbers DEF Redis!RefuseInv, Redis!TypeOK
<1>2. f \in Redis!Frame /\ f.pc = "remove" /\ f.at = clock /\ f.now = clock + ahead[p]
  BY <1>1 DEF Redis!Idle, Redis!Frame
<1>3. pipe' = [pipe EXCEPT ![p] = f] /\ UNCHANGED <<clock, ahead, zset, expires, asked, passed, life>>
  BY DEF Redis!Begin, Redis!history
<1>4. f.at <= clock /\ clock <= f.at + MaxDelay /\ f.at <= f.now /\ f.now <= f.at + MaxSkew
  BY <1>1, <1>2, RedisNumbers
<1>5. /\ zset' \subseteq Nat /\ Redis!IsFiniteSet(zset') /\ expires' \in Nat \cup {None}
      /\ passed' \subseteq Redis!Pass /\ life' \in Nat /\ asked' \subseteq Nat /\ Redis!IsFiniteSet(asked')
  BY <1>3 DEF Redis!RefuseInv, Redis!TypeOK
<1> QED
  BY <1>2, <1>3, <1>4, <1>5, PipeStep

\* What is known of a pipeline under way.
LEMMA UnderWay ==
  ASSUME Redis!RefuseInv, NEW p \in Pipelines, pipe[p].pc # "idle"
  PROVE  /\ Redis!PipeOK(p)
         /\ pipe[p] \in Redis!Frame /\ clock \in Nat
         /\ pipe[p].at \in Nat /\ pipe[p].now \in Nat /\ pipe[p].count \in Nat
         /\ zset \subseteq Nat /\ Redis!IsFiniteSet(zset) /\ expires \in Nat \cup {None}
         /\ passed \subseteq Redis!Pass /\ life \in Nat /\ asked \subseteq Nat /\ Redis!IsFiniteSet(asked)
  BY RedisFrames DEF Redis!RefuseInv, Redis!TypeOK

LEMMA RemoveInv ==
  ASSUME Redis!Timely, Redis!RefuseInv, NEW p \in Pipelines, Redis!Remove(p)
  PROVE  Redis!RefuseInv'
<1> PICK f : f = [pipe[p] EXCEPT !.pc = "card"]
  OBVIOUS
<1>1. pipe[p].pc = "remove" /\ pipe[p].pc # "idle"
  BY DEF Redis!Remove
<1>2. /\ f \in Redis!Frame /\ f.pc = "card"
      /\ f.at = pipe[p].at /\ f.now = pipe[p].now
  BY <1>1, UnderWay DEF Redis!Frame
<1>3. /\ pipe' = [pipe EXCEPT ![p] = f]
      /\ zset' = {m \in zset : m > f.now - WindowMs}
      /\ expires' \in {None, expires}
      /\ UNCHANGED <<clock, ahead, asked, passed, life>>
  BY <1>2 DEF Redis!Remove, Redis!Step, Redis!Recent, Redis!history
<1>4. zset' \subseteq zset
  BY <1>3
<1>5. /\ zset' \subseteq Nat /\ Redis!IsFiniteSet(zset') /\ expires' \in Nat \cup {None}
      /\ passed' \subseteq Redis!Pass /\ life' \in Nat /\ asked' \subseteq Nat /\ Redis!IsFiniteSet(asked')
  BY <1>1, <1>3, <1>4, UnderWay, SubsetOf
<1>6. f.at <= clock /\ clock <= f.at + MaxDelay /\ f.at <= f.now /\ f.now <= f.at + MaxSkew
  BY <1>1, <1>2, UnderWay DEF Redis!PipeOK
<1> QED
  BY <1>2, <1>3, <1>4, <1>5, <1>6, PipeStep

LEMMA CardInv ==
  ASSUME Redis!Timely, Redis!RefuseInv, NEW p \in Pipelines, Redis!Card(p)
  PROVE  Redis!RefuseInv'
<1> PICK f : f = [pipe[p] EXCEPT !.pc = "add", !.count = Redis!Cardinality(zset)]
  OBVIOUS
<1>1. pipe[p].pc = "card" /\ pipe[p].pc # "idle"
  BY DEF Redis!Card
<1>2. Redis!Cardinality(zset) \in Nat
  BY <1>1, UnderWay, Counted
<1>3. /\ f \in Redis!Frame /\ f.pc = "add" /\ f.count = Redis!Cardinality(zset)
      /\ f.at = pipe[p].at /\ f.now = pipe[p].now
  BY <1>1, <1>2, UnderWay DEF Redis!Frame
<1>4. pipe' = [pipe EXCEPT ![p] = f] /\ UNCHANGED <<clock, ahead, zset, expires, asked, passed, life>>
  BY DEF Redis!Card, Redis!history
<1>5. f.at <= clock /\ clock <= f.at + MaxDelay /\ f.at <= f.now /\ f.now <= f.at + MaxSkew
  BY <1>1, <1>3, UnderWay DEF Redis!PipeOK
<1>6. zset \subseteq {m \in asked : m > f.now - WindowMs}
  <2> SUFFICES ASSUME NEW m \in zset PROVE m \in asked /\ m > f.now - WindowMs
    OBVIOUS
  <2>1. m > f.now - WindowMs
    BY <1>1, <1>3, UnderWay DEF Redis!PipeOK
  <2>2. m \in asked \/ m <= clock - WindowMs - MaxDelay
    BY DEF Redis!RefuseInv
  <2>3. f.at \in Nat /\ f.now \in Nat /\ clock \in Nat /\ m \in Nat
    BY <1>1, <1>3, UnderWay
  <2> QED
    BY <1>5, <2>1, <2>2, <2>3, RedisNumbers
<1>7. f.count <= Redis!Cardinality({m \in asked' : m > f.now - WindowMs})
  <2>1. {m \in asked : m > f.now - WindowMs} \subseteq asked
    OBVIOUS
  <2>2. Redis!IsFiniteSet({m \in asked : m > f.now - WindowMs})
    BY <1>1, <2>1, UnderWay, SubsetOf
  <2> QED
    BY <1>3, <1>4, <1>6, <2>2, SubsetOf
<1>8. /\ zset' \subseteq Nat /\ Redis!IsFiniteSet(zset') /\ expires' \in Nat \cup {None}
      /\ passed' \subseteq Redis!Pass /\ life' \in Nat /\ asked' \subseteq Nat /\ Redis!IsFiniteSet(asked')
  BY <1>1, <1>4, UnderWay
<1> QED
  BY <1>3, <1>4, <1>5, <1>7, <1>8, PipeStep

LEMMA AddInv ==
  ASSUME Redis!Timely, Redis!RefuseInv, NEW p \in Pipelines, Redis!Add(p)
  PROVE  Redis!RefuseInv'
<1> PICK f : f = [pipe[p] EXCEPT !.pc = "expire"]
  OBVIOUS
<1>1. pipe[p].pc = "add" /\ pipe[p].pc # "idle"
  BY DEF Redis!Add
<1>2. /\ f \in Redis!Frame /\ f.pc = "expire"
      /\ f.at = pipe[p].at /\ f.now = pipe[p].now
  BY <1>1, UnderWay DEF Redis!Frame
<1>3. /\ pipe' = [pipe EXCEPT ![p] = f]
      /\ zset' = zset \cup {f.now} /\ asked' = asked \cup {f.now}
      /\ passed' \subseteq passed \cup {[at |-> f.at, member |-> f.now, life |-> life]}
      /\ UNCHANGED <<clock, ahead, expires, life>>
  BY <1>2 DEF Redis!Add, Redis!Step
<1>4. f.at <= clock /\ clock <= f.at + MaxDelay /\ f.at <= f.now /\ f.now <= f.at + MaxSkew
  BY <1>1, <1>2, UnderWay DEF Redis!PipeOK
<1>5. f.at \in Nat /\ f.now \in Nat /\ clock \in Nat
  BY <1>1, <1>2, UnderWay
<1>6. Redis!IsFiniteSet(zset') /\ Redis!IsFiniteSet(asked')
  BY <1>1, <1>3, UnderWay, OneMore
<1>7. passed' \subseteq Redis!Pass
  BY <1>1, <1>3, <1>5, UnderWay DEF Redis!Pass
<1>8. life' \in Nat /\ zset' \subseteq Nat /\ asked' \subseteq Nat /\ expires' \in Nat \cup {None} /\ asked \subseteq asked'
  BY <1>1, <1>3, <1>5, UnderWay
<1>9. \A m \in zset' : m \in zset \/ (m \in asked' /\ m + MaxDelay >= clock)
  BY <1>3, <1>4, <1>5, RedisNumbers
<1> QED
  BY <1>2, <1>3, <1>4, <1>6, <1>7, <1>8, <1>9, PipeStep

\* A pipeline is over, answered or not.
LEMMA OverInv ==
  ASSUME Redis!Timely, Redis!RefuseInv, NEW p \in Pipelines, Redis!Expire(p) \/ Redis!FailOpen(p)
  PROVE  Redis!RefuseInv'
<1>1. Redis!Idle \in Redis!Frame /\ Redis!Idle.pc = "idle"
  BY DEF Redis!Idle, Redis!Frame
<1>2. /\ pipe' = [pipe EXCEPT ![p] = Redis!Idle]
      /\ expires' \in {expires, None, clock + 2 * WindowMs}
      /\ UNCHANGED <<clock, ahead, zset, asked, passed, life>>
  BY DEF Redis!Expire, Redis!FailOpen, Redis!history
<1>3. clock + 2 * WindowMs \in Nat
  BY RedisNumbers DEF Redis!RefuseInv, Redis!TypeOK
<1>4. /\ zset' \subseteq Nat /\ Redis!IsFiniteSet(zset') /\ expires' \in Nat \cup {None}
      /\ passed' \subseteq Redis!Pass /\ life' \in Nat /\ asked' \subseteq Nat /\ Redis!IsFiniteSet(asked')
  BY <1>2, <1>3 DEF Redis!RefuseInv, Redis!TypeOK
<1> QED
  BY <1>1, <1>2, <1>4, PipeStep

LEMMA TickInv == ASSUME Redis!RefuseInv, Redis!Tick PROVE Redis!RefuseInv'
<1>1. /\ clock' = clock + 1
      /\ \A p \in Pipelines : pipe[p] = Redis!Idle \/ clock - pipe[p].at < MaxDelay
      /\ zset' \in {{}, zset} /\ expires' \in {None, expires}
      /\ asked' = {m \in asked : m > clock + 1 - WindowMs - MaxDelay}
      /\ passed' \subseteq passed /\ life' \in {life, life + 1}
      /\ UNCHANGED <<ahead, pipe>>
  BY DEF Redis!Tick
<1>2. clock \in Nat /\ zset \subseteq Nat /\ asked \subseteq Nat /\ asked' \subseteq asked /\ zset' \subseteq zset
  BY <1>1 DEF Redis!RefuseInv, Redis!TypeOK
<1>3. Redis!IsFiniteSet(zset') /\ Redis!IsFiniteSet(asked')
  BY <1>2, SubsetOf DEF Redis!RefuseInv, Redis!TypeOK
<1>4. Redis!TypeOK'
  <2>1. Redis!TypeOK
    BY DEF Redis!RefuseInv
  <2>2. clock' \in Nat
    <3>1. clock' = clock + 1 /\ clock \in Nat
      BY <1>1, <1>2
    <3> QED
      BY <3>1
  <2>3. zset' \subseteq Nat /\ asked' \subseteq Nat
    BY <1>2
  <2>4. passed' \subseteq Redis!Pass
    BY <1>1, <2>1 DEF Redis!TypeOK
  <2>5. expires' \in Nat \cup {None} /\ life' \in Nat
    BY <1>1, <2>1 DEF Redis!TypeOK
  <2> QED
    BY <1>1, <1>3, <2>1, <2>2, <2>3, <2>4, <2>5 DEF Redis!TypeOK
<1>5. \A m \in zset' : m \in asked' \/ m <= clock' - WindowMs - MaxDelay
  <2> SUFFICES ASSUME NEW m \in zset' PROVE m \in asked' \/ m <= clock' - WindowMs - MaxDelay
    OBVIOUS
  <2>1. m \in Nat /\ (m \in asked \/ m <= clock - WindowMs - MaxDelay)
    BY <1>2 DEF Redis!RefuseInv
  <2> QED
    BY <1>1, <1>2, <2>1, RedisNumbers
<1>6. ASSUME NEW p \in Pipelines, pipe'[p].pc # "idle" PROVE Redis!PipeOK(p)'
  <2>1. pipe[p].pc # "idle" /\ pipe'[p] = pipe[p] /\ clock - pipe[p].at < MaxDelay
    BY <1>1, <1>6 DEF Redis!Idle
  <2>2. /\ pipe[p].at \in Nat /\ pipe[p].now \in Nat /\ pipe[p].at <= clock
        /\ pipe[p].at <= pipe[p].now /\ pipe[p].now <= pipe[p].at + MaxSkew
    BY <2>1, UnderWay DEF Redis!PipeOK
  <2>3. pipe[p].at <= clock' /\ clock' <= pipe[p].at + MaxDelay
    BY <1>1, <1>2, <2>1, <2>2, RedisNumbers
  <2>4. pipe[p].pc = "card" => \A m \in zset' : m > pipe[p].now - WindowMs
    BY <1>2, <2>1, UnderWay DEF Redis!PipeOK
  <2>5. \A m \in asked : m > pipe[p].now - WindowMs => m \in asked'
    BY <1>1, <1>2, <2>2, <2>3, RedisNumbers
  <2>6. pipe[p].pc = "add" => pipe[p].count <= Redis!Cardinality({m \in asked' : m > pipe[p].now - WindowMs})
    BY <1>2, <1>3, <2>1, <2>5, CountLasts
  <2> QED
    BY <2>1, <2>2, <2>3, <2>4, <2>6 DEF Redis!PipeOK
<1>7. Redis!RefusedForCause'
  BY <1>3, <1>4, <1>6, RefuseFor
<1> QED
  BY <1>3, <1>4, <1>5, <1>6, <1>7 DEF Redis!RefuseInv

LEMMA RedisInitInv == ASSUME Redis!Init PROVE Redis!RefuseInv
<1>1. \A p \in Pipelines : pipe[p] = Redis!Idle /\ Redis!Idle.pc = "idle" /\ Redis!Idle \in Redis!Frame
  BY DEF Redis!Init, Redis!Idle, Redis!Frame
<1>2. Redis!IsFiniteSet(zset) /\ Redis!IsFiniteSet(asked)
  BY Nobody DEF Redis!Init
<1>3. Redis!TypeOK
  BY <1>1, <1>2 DEF Redis!Init, Redis!TypeOK
<1>4. Redis!RefusedForCause
  BY <1>1 DEF Redis!RefusedForCause
<1> QED
  BY <1>1, <1>2, <1>3, <1>4 DEF Redis!Init, Redis!RefuseInv

-----------------------------------------------------------------------------
\* Whom the Redis limiter lets through.

\* The members that passes of one window and one life of the set have.
Let(t, l) == Redis!Members(Redis!PassedIn(t, l))

LEMMA Limits ==
  /\ Redis!AtOnce \in Nat /\ Redis!Cardinality(Pipelines) \in Nat
  /\ Redis!Cardinality(Pipelines) <= Redis!AtOnce
  /\ Redis!IsFiniteSet(Pipelines)
<1>1. Redis!IsFiniteSet(Pipelines) /\ Redis!Cardinality(Pipelines) \in Nat
  BY RedisNumbers, RedisSets, Counted
<1> QED
  BY <1>1, RedisNumbers DEF Redis!AtOnce

LEMMA LetFinite ==
  ASSUME Redis!PassInv, NEW t, NEW l
  PROVE  Redis!IsFiniteSet(Let(t, l)) /\ Redis!Cardinality(Let(t, l)) \in Nat
<1>1. Let(t, l) \subseteq Redis!Members(passed)
  BY DEF Let, Redis!Members, Redis!PassedIn
<1> QED
  BY <1>1, SubsetOf, Counted DEF Redis!PassInv

LEMMA PassingFinite ==
  ASSUME NEW t
  PROVE  /\ Redis!IsFiniteSet(Redis!Passing(t)) /\ Redis!Cardinality(Redis!Passing(t)) \in Nat
         /\ Redis!Cardinality(Redis!Passing(t)) <= Redis!Cardinality(Pipelines)
<1>1. Redis!Passing(t) \subseteq Pipelines
  BY DEF Redis!Passing
<1> QED
  BY <1>1, SubsetOf, Limits

LEMMA PassingFinitePrimed ==
  ASSUME NEW t
  PROVE  /\ Redis!IsFiniteSet(Redis!Passing(t)') /\ Redis!Cardinality(Redis!Passing(t)') \in Nat
         /\ Redis!Cardinality(Redis!Passing(t)') <= Redis!Cardinality(Pipelines)
<1>1. Redis!Passing(t)' \subseteq Pipelines
  BY DEF Redis!Passing
<1> QED
  BY <1>1, SubsetOf, Limits

\* The bounds of PassInv hold of windows that have not come yet, too.
LEMMA AnyWindow ==
  ASSUME Redis!RefuseInv, Redis!PassInv, NEW t \in Nat
  PROVE  /\ Redis!Cardinality(Let(t, life)) + Redis!Cardinality(Redis!Passing(t)) <= Redis!AtOnce
         /\ \A l \in 0..life : Redis!Cardinality(Let(t, l)) <= Redis!AtOnce
<1>1. CASE t <= clock
  <2>1. t \in 0..clock
    BY <1>1 DEF Redis!RefuseInv, Redis!TypeOK
  <2> QED
    BY <2>1 DEF Redis!PassInv, Redis!LifeBound, Let
<1>2. CASE t > clock
  <2>1. \A l \in 0..life : Let(t, l) = {}
    <3> SUFFICES ASSUME NEW x \in passed, t <= x.at PROVE FALSE
      BY DEF Let, Redis!Members, Redis!PassedIn
    <3>1. x.at <= clock /\ x.at \in Nat /\ clock \in Nat
      BY DEF Redis!PassInv, Redis!RefuseInv, Redis!TypeOK, Redis!Pass
    <3> QED
      BY <1>2, <3>1
  <2>2. Redis!Passing(t) = {}
    <3> SUFFICES ASSUME NEW p \in Pipelines, pipe[p].pc = "add", t <= pipe[p].at PROVE FALSE
      BY DEF Redis!Passing
    <3>1. pipe[p].at <= clock /\ pipe[p].at \in Nat /\ clock \in Nat
      BY UnderWay DEF Redis!PipeOK
    <3> QED
      BY <1>2, <3>1
  <2>3. life \in 0..life
    BY DEF Redis!RefuseInv, Redis!TypeOK
  <2>4. \A l \in 0..life : Redis!Cardinality(Let(t, l)) = 0
    BY <2>1, Nobody
  <2>5. Redis!Cardinality(Redis!Passing(t)) = 0
    BY <2>2, Nobody
  <2> QED
    BY <2>3, <2>4, <2>5, Limits
<1>3. clock \in Nat
  BY DEF Redis!RefuseInv, Redis!TypeOK
<1> QED
  BY <1>1, <1>2, <1>3

\* The new count of the present life bounds its windows; the others are as they were.
LEMMA StillBounded ==
  ASSUME Redis!RefuseInv, Redis!PassInv, clock' \in Nat, life' = life,
         Redis!IsFiniteSet(Redis!Members(passed)'),
         \A x \in passed' :
           /\ x.at <= clock' /\ x.at <= x.member /\ x.life <= life
           /\ x.life = life => x.member \in zset' \/ clock' >= x.at + WindowMs - MaxSkew,
         \A t \in Nat, l \in Nat : l # life => Let(t, l)' \subseteq Let(t, l),
         \A t \in Nat :
           Redis!Cardinality(Let(t, life)') + Redis!Cardinality(Redis!Passing(t)') <= Redis!AtOnce
  PROVE  Redis!PassInv'
<1>1. life \in Nat
  BY DEF Redis!RefuseInv, Redis!TypeOK
<1>2. ASSUME NEW t \in Nat, NEW l \in 0..life PROVE Redis!Cardinality(Let(t, l)') <= Redis!AtOnce
  <2>1. CASE l = life
    <3>1. Let(t, life)' \subseteq Redis!Members(passed)'
      BY DEF Let, Redis!Members, Redis!PassedIn
    <3>2. Redis!Cardinality(Let(t, life)') \in Nat /\ Redis!Cardinality(Redis!Passing(t)') \in Nat
      BY <3>1, SubsetOf, PassingFinitePrimed
    <3> QED
      BY <2>1, <3>2, Limits
  <2>2. CASE l # life
    <3>1. Let(t, l)' \subseteq Let(t, l) /\ l \in Nat
      BY <1>1, <2>2
    <3>2. Redis!Cardinality(Let(t, l)') <= Redis!Cardinality(Let(t, l))
      BY <3>1, LetFinite, SubsetOf
    <3>3. Redis!Cardinality(Let(t, l)') \in Nat /\ Redis!Cardinality(Let(t, l)) \in Nat
      BY <3>1, LetFinite, SubsetOf
    <3> QED
      BY <3>2, <3>3, AnyWindow, Limits
  <2> QED
    BY <2>1, <2>2
<1>3. Redis!LifeBound'
  BY <1>2 DEF Redis!LifeBound, Let
<1> QED
  BY <1>3 DEF Redis!PassInv, Let

\* A step that lets nobody through and counts nobody in.
LEMMA PassKept ==
  ASSUME Redis!RefuseInv, Redis!PassInv, clock' \in Nat, clock <= clock', life' = life,
         passed' \subseteq passed,
         \A x \in passed : x.member \in zset =>
           x.member \in zset' \/ clock' >= x.at + WindowMs - MaxSkew,
         \A t \in Nat : Redis!Passing(t)' \subseteq Redis!Passing(t)
  PROVE  Redis!PassInv'
<1>1. Redis!IsFiniteSet(Redis!Members(passed)')
  <2>1. Redis!Members(passed)' \subseteq Redis!Members(passed)
    BY DEF Redis!Members
  <2> QED
    BY <2>1, SubsetOf DEF Redis!PassInv
<1>2. \A t \in Nat, l \in Nat : Let(t, l)' \subseteq Let(t, l)
  BY DEF Let, Redis!Members, Redis!PassedIn
<1>3. ASSUME NEW x \in passed'
      PROVE  /\ x.at <= clock' /\ x.at <= x.member /\ x.life <= life
             /\ x.life = life => x.member \in zset' \/ clock' >= x.at + WindowMs - MaxSkew
  <2>1. x \in passed /\ x.at \in Nat /\ clock \in Nat
    BY DEF Redis!RefuseInv, Redis!TypeOK, Redis!Pass
  <2> QED
    BY <2>1, RedisNumbers DEF Redis!PassInv
<1>4. ASSUME NEW t \in Nat
      PROVE  Redis!Cardinality(Let(t, life)') + Redis!Cardinality(Redis!Passing(t)') <= Redis!AtOnce
  <2>1. Let(t, life)' \subseteq Let(t, life) /\ Redis!Passing(t)' \subseteq Redis!Passing(t)
    BY <1>2 DEF Redis!RefuseInv, Redis!TypeOK
  <2>2. /\ Redis!Cardinality(Let(t, life)') <= Redis!Cardinality(Let(t, life))
        /\ Redis!Cardinality(Let(t, life)') \in Nat /\ Redis!Cardinality(Let(t, life)) \in Nat
    BY <2>1, LetFinite, SubsetOf
  <2>3. /\ Redis!Cardinality(Redis!Passing(t)') <= Redis!Cardinality(Redis!Passing(t))
        /\ Redis!Cardinality(Redis!Passing(t)') \in Nat /\ Redis!Cardinality(Redis!Passing(t)) \in Nat
    BY <2>1, PassingFinite, SubsetOf
  <2> QED
    BY <2>2, <2>3, AnyWindow, Limits
<1> QED
  BY <1>1, <1>2, <1>3, <1>4, StillBounded

LEMMA QuietPass ==
  ASSUME Redis!RefuseInv, Redis!PassInv, NEW p \in Pipelines,
         Redis!Begin(p) \/ Redis!Remove(p) \/ Redis!Expire(p) \/ Redis!FailOpen(p)
  PROVE  Redis!PassInv'
<1>1. \A q \in Pipelines : pipe'[q].pc = "add" => q # p /\ pipe'[q] = pipe[q]
  <2>1. CASE Redis!Remove(p)
    <3>1. PICK f : pipe' = [pipe EXCEPT ![p] = f] /\ f = [pipe[p] EXCEPT !.pc = "card"]
      BY <2>1 DEF Redis!Remove, Redis!Step
    <3>2. f.pc = "card"
      BY <2>1, <3>1, UnderWay DEF Redis!Remove, Redis!Frame
    <3> QED
      BY <3>1, <3>2 DEF Redis!RefuseInv, Redis!TypeOK
  <2>2. CASE ~Redis!Remove(p)
    <3>1. PICK f : pipe' = [pipe EXCEPT ![p] = f] /\ f.pc \in {"idle", "remove"}
      <4>1. CASE Redis!Begin(p)
        <5>1. PICK f : f = [Redis!Idle EXCEPT !.pc = "remove", !.at = clock, !.now = clock + ahead[p]]
          OBVIOUS
        <5>2. f.pc = "remove"
          BY <5>1 DEF Redis!Idle
        <5>3. pipe' = [pipe EXCEPT ![p] = f]
          BY <4>1, <5>1 DEF Redis!Begin
        <5> QED
          BY <5>2, <5>3
      <4>2. CASE Redis!Expire(p) \/ Redis!FailOpen(p)
        <5>1. PICK f : f = Redis!Idle
          OBVIOUS
        <5>2. f.pc = "idle"
          BY <5>1 DEF Redis!Idle
        <5>3. pipe' = [pipe EXCEPT ![p] = f]
          BY <4>2, <5>1 DEF Redis!Expire, Redis!FailOpen
        <5> QED
          BY <5>2, <5>3
      <4> QED
        BY <2>2, <4>1, <4>2
    <3> QED
      BY <3>1 DEF Redis!RefuseInv, Redis!TypeOK
  <2> QED
    BY <2>1, <2>2
<1>2. \A t \in Nat : Redis!Passing(t)' \subseteq Redis!Passing(t)
  BY <1>1 DEF Redis!Passing
<1>3. clock' = clock /\ clock \in Nat /\ life' = life /\ passed' = passed
  BY DEF Redis!Begin, Redis!Remove, Redis!Expire, Redis!FailOpen, Redis!history,
         Redis!RefuseInv, Redis!TypeOK
<1>4. ASSUME NEW x \in passed, x.member \in zset
      PROVE  x.member \in zset' \/ clock' >= x.at + WindowMs - MaxSkew
  <2>1. CASE Redis!Remove(p)
    <3>1. Redis!PipeOK(p) /\ pipe[p].at \in Nat /\ pipe[p].now \in Nat
      BY <2>1, UnderWay DEF Redis!Remove
    <3>2. x.at \in Nat /\ x.member \in Nat /\ x.at <= x.member
      BY DEF Redis!RefuseInv, Redis!TypeOK, Redis!Pass, Redis!PassInv
    <3>3. x.member \in zset' \/ x.member <= pipe[p].now - WindowMs
      BY <1>4, <2>1, <3>1, <3>2, RedisNumbers DEF Redis!Remove, Redis!Recent
    <3>4. pipe[p].now <= clock + MaxSkew
      BY <1>3, <3>1, RedisNumbers DEF Redis!PipeOK
    <3> QED
      BY <1>3, <3>1, <3>2, <3>3, <3>4, RedisNumbers
  <2>2. CASE ~Redis!Remove(p)
    BY <1>4, <2>2 DEF Redis!Begin, Redis!Expire, Redis!FailOpen
  <2> QED
    BY <2>1, <2>2
<1> QED
  BY <1>2, <1>3, <1>4, PassKept

\* Whoever is let through has counted those of its window that were let through before.
LEMMA CardPass ==
  ASSUME Redis!RefuseInv, Redis!PassInv, NEW p \in Pipelines, Redis!Card(p)
  PROVE  Redis!PassInv'
<1> PICK f : f = [pipe[p] EXCEPT !.pc = "add", !.count = Redis!Cardinality(zset)]
  OBVIOUS
<1>1. /\ Redis!PipeOK(p) /\ pipe[p] \in Redis!Frame /\ clock \in Nat /\ pipe[p].at \in Nat
      /\ zset \subseteq Nat /\ Redis!IsFiniteSet(zset)
  BY UnderWay DEF Redis!Card
<1>2. f.pc = "add" /\ f.count = Redis!Cardinality(zset) /\ f.at = pipe[p].at
  BY <1>1 DEF Redis!Frame
<1>3. /\ \A q \in Pipelines : pipe'[q] = IF q = p THEN f ELSE pipe[q]
      /\ UNCHANGED <<clock, zset, passed, life>>
  BY DEF Redis!Card, Redis!history, Redis!RefuseInv, Redis!TypeOK
<1>4. \A t \in Nat, l \in Nat : Let(t, l)' = Let(t, l)
  BY <1>3 DEF Let, Redis!Members, Redis!PassedIn
<1>5. life \in Nat
  BY DEF Redis!RefuseInv, Redis!TypeOK
<1>6. ASSUME NEW t \in Nat
      PROVE  Redis!Cardinality(Let(t, life)') + Redis!Cardinality(Redis!Passing(t)') <= Redis!AtOnce
  <2>1. Let(t, life)' = Let(t, life)
    BY <1>3 DEF Let, Redis!Members, Redis!PassedIn
  <2>4. Redis!Cardinality(Let(t, life)) \in Nat
    BY LetFinite
  <2>2. CASE p \in Redis!Passing(t)'
    <3>1. /\ Redis!Cardinality(zset) < Burst
          /\ t <= pipe[p].at /\ pipe[p].at < t + Redis!Length
      BY <1>2, <1>3, <2>2 DEF Redis!Passing, Redis!Passes, Redis!Length
    <3>2. Let(t, life) \subseteq zset
      <4> SUFFICES ASSUME NEW x \in passed, t <= x.at, x.at < t + Redis!Length, x.life = life
                   PROVE  x.member \in zset
        BY DEF Let, Redis!Members, Redis!PassedIn
      <4>1. x.at \in Nat
        BY DEF Redis!RefuseInv, Redis!TypeOK, Redis!Pass
      <4>2. x.member \in zset \/ clock >= x.at + WindowMs - MaxSkew
        BY DEF Redis!PassInv
      <4>3. clock <= pipe[p].at + MaxDelay
        BY <1>1 DEF Redis!PipeOK
      <4> QED
        BY <1>1, <3>1, <4>1, <4>2, <4>3, RedisNumbers DEF Redis!Length
    <3>3. Redis!Cardinality(Let(t, life)) <= Redis!Cardinality(zset)
      BY <1>1, <3>2, SubsetOf
    <3>4. Redis!Cardinality(zset) \in Nat
      BY <1>1, Counted
    <3> QED
      BY <2>1, <2>4, <3>1, <3>3, <3>4, PassingFinitePrimed, Limits, RedisNumbers DEF Redis!AtOnce
  <2>3. CASE p \notin Redis!Passing(t)'
    <3>1. Redis!Passing(t)' \subseteq Redis!Passing(t)
      BY <1>3, <2>3 DEF Redis!Passing
    <3>2. /\ Redis!Cardinality(Redis!Passing(t)') <= Redis!Cardinality(Redis!Passing(t))
          /\ Redis!Cardinality(Redis!Passing(t)') \in Nat /\ Redis!Cardinality(Redis!Passing(t)) \in Nat
      BY <3>1, PassingFinite, SubsetOf
    <3> QED
      BY <2>1, <2>4, <3>2, AnyWindow, Limits
  <2> QED
    BY <2>2, <2>3
<1>7. Redis!IsFiniteSet(Redis!Members(passed)')
  BY <1>3 DEF Redis!PassInv, Redis!Members
<1>8. \A x \in passed' :
        /\ x.at <= clock' /\ x.at <= x.member /\ x.life <= life
        /\ x.life = life => x.member \in zset' \/ clock' >= x.at + WindowMs - MaxSkew
  BY <1>3 DEF Redis!PassInv
<1> QED
  BY <1>1, <1>3, <1>4, <1>6, <1>7, <1>8, StillBounded

LEMMA AddPass ==
  ASSUME Redis!RefuseInv, Redis!PassInv, NEW p \in Pipelines, Redis!Add(p)
  PROVE  Redis!PassInv'
<1> PICK f : f = [pipe[p] EXCEPT !.pc = "expire"]
  OBVIOUS
<1> PICK n : n = pipe[p].now
  OBVIOUS
<1> PICK y : y = [at |-> pipe[p].at, member |-> n, life |-> life]
  OBVIOUS
<1>1. /\ Redis!PipeOK(p) /\ pipe[p] \in Redis!Frame /\ clock \in Nat /\ life \in Nat
      /\ pipe[p].at \in Nat /\ n \in Nat
      /\ pipe[p].pc = "add"
  BY UnderWay DEF Redis!Add
<1>2. f.pc = "expire"
  BY <1>1 DEF Redis!Frame
<1>3. /\ \A q \in Pipelines : pipe'[q] = IF q = p THEN f ELSE pipe[q]
      /\ zset' = zset \cup {n}
      /\ passed' = passed \cup {x \in {y} : Redis!Passes(pipe[p].count)}
      /\ UNCHANGED <<clock, life>>
  BY DEF Redis!Add, Redis!Step, Redis!RefuseInv, Redis!TypeOK
<1>4. y.at = pipe[p].at /\ y.member = n /\ y.life = life
  OBVIOUS
<1>5. \A t \in Nat : Redis!Passing(t)' = Redis!Passing(t) \ {p}
  BY <1>2, <1>3 DEF Redis!Passing
<1>6. \A t \in Nat, l \in Nat : l # life => Let(t, l)' \subseteq Let(t, l)
  BY <1>3, <1>4 DEF Let, Redis!Members, Redis!PassedIn
<1>7. ASSUME NEW t \in Nat
      PROVE  Redis!Cardinality(Let(t, life)') + Redis!Cardinality(Redis!Passing(t)') <= Redis!AtOnce
  <2>1. /\ Redis!IsFiniteSet(Let(t, life)) /\ Redis!Cardinality(Let(t, life)) \in Nat
        /\ Redis!IsFiniteSet(Redis!Passing(t)) /\ Redis!Cardinality(Redis!Passing(t)) \in Nat
        /\ Redis!Cardinality(Redis!Passing(t)') \in Nat
    BY LetFinite, PassingFinite, PassingFinitePrimed
  <2>2. CASE p \in Redis!Passing(t)
    <3>1. Let(t, life)' \subseteq Let(t, life) \cup {n}
      BY <1>3, <1>4 DEF Let, Redis!Members, Redis!PassedIn
    <3>2. /\ Redis!IsFiniteSet(Let(t, life) \cup {n})
          /\ Redis!Cardinality(Let(t, life) \cup {n}) <= Redis!Cardinality(Let(t, life)) + 1
      BY <2>1, OneMore
    <3>3. /\ Redis!Cardinality(Let(t, life)') <= Redis!Cardinality(Let(t, life) \cup {n})
          /\ Redis!Cardinality(Let(t, life)') \in Nat
          /\ Redis!Cardinality(Let(t, life) \cup {n}) \in Nat
      BY <3>1, <3>2, SubsetOf, Counted
    <3>4. Redis!Cardinality(Redis!Passing(t)') = Redis!Cardinality(Redis!Passing(t)) - 1
      BY <1>5, <2>1, <2>2, OneFewer
    <3> QED
      BY <2>1, <3>2, <3>3, <3>4, AnyWindow, Limits
  <2>3. CASE p \notin Redis!Passing(t)
    <3>1. y \notin passed' \/ ~(t <= y.at /\ y.at < t + Redis!Length) \/ y \in passed
      BY <1>1, <1>3, <1>4, <2>3 DEF Redis!Passing
    <3>2. Let(t, life)' \subseteq Let(t, life)
      BY <1>3, <1>4, <3>1 DEF Let, Redis!Members, Redis!PassedIn
    <3>3. /\ Redis!Cardinality(Let(t, life)') <= Redis!Cardinality(Let(t, life))
          /\ Redis!Cardinality(Let(t, life)') \in Nat
      BY <2>1, <3>2, SubsetOf, Counted
    <3>4. Redis!Cardinality(Redis!Passing(t)') <= Redis!Cardinality(Redis!Passing(t))
      BY <1>5, <2>1, SubsetOf
    <3> QED
      BY <2>1, <3>3, <3>4, AnyWindow, Limits
  <2> QED
    BY <2>2, <2>3
<1>8. Redis!IsFiniteSet(Redis!Members(passed)')
  <2>1. Redis!Members(passed)' \subseteq Redis!Members(passed) \cup {n}
    BY <1>3, <1>4 DEF Redis!Members
  <2>2. Redis!IsFiniteSet(Redis!Members(passed) \cup {n})
    BY OneMore DEF Redis!PassInv
  <2> QED
    BY <2>1, <2>2, SubsetOf
<1>9. ASSUME NEW x \in passed'
      PROVE  /\ x.at <= clock' /\ x.at <= x.member /\ x.life <= life
             /\ x.life = life => x.member \in zset' \/ clock' >= x.at + WindowMs - MaxSkew
  <2>1. CASE x \in passed
    BY <1>3, <2>1 DEF Redis!PassInv
  <2>2. CASE x = y
    BY <1>1, <1>3, <1>4, <2>2 DEF Redis!PipeOK
  <2> QED
    BY <1>3, <2>1, <2>2
<1> QED
  BY <1>1, <1>3, <1>6, <1>7, <1>8, <1>9, StillBounded

\* Time passes; when Redis drops the set, a life of it begins in which nobody is let through yet.
LEMMA TickPass == ASSUME Redis!RefuseInv, Redis!PassInv, Redis!Tick PROVE Redis!PassInv'
<1>1. /\ clock' = clock + 1 /\ clock \in Nat /\ clock' \in Nat /\ life \in Nat
      /\ passed' \subseteq passed /\ pipe' = pipe
  BY DEF Redis!Tick, Redis!RefuseInv, Redis!TypeOK
<1>2. \A t \in Nat : Redis!Passing(t)' = Redis!Passing(t)
  BY <1>1 DEF Redis!Passing
<1>3. CASE life' = life /\ zset' = zset
  BY <1>1, <1>2, <1>3, PassKept
<1>4. CASE life' = life + 1
  <2>1. Redis!IsFiniteSet(Redis!Members(passed)')
    <3>1. Redis!Members(passed)' \subseteq Redis!Members(passed)
      BY <1>1 DEF Redis!Members
    <3> QED
      BY <3>1, SubsetOf DEF Redis!PassInv
  <2>2. \A x \in passed' : x.at <= clock' /\ x.at <= x.member /\ x.life <= life' /\ x.life # life'
    <3> SUFFICES ASSUME NEW x \in passed'
                 PROVE  x.at <= clock' /\ x.at <= x.member /\ x.life <= life' /\ x.life # life'
      OBVIOUS
    <3>1. x \in passed /\ x.at \in Nat /\ x.member \in Nat /\ x.life \in Nat
      BY <1>1 DEF Redis!RefuseInv, Redis!TypeOK, Redis!Pass
    <3>2. x.at <= clock /\ x.at <= x.member /\ x.life <= life
      BY <3>1 DEF Redis!PassInv
    <3> QED
      BY <1>1, <1>4, <3>1, <3>2
  <2>3. ASSUME NEW t \in Nat
        PROVE  Redis!Cardinality(Let(t, life)') + Redis!Cardinality(Redis!Passing(t)') <= Redis!AtOnce
    <3>1. Let(t, life)' = {}
      BY <2>2 DEF Let, Redis!Members, Redis!PassedIn
    <3>2. Redis!Cardinality(Let(t, life)') = 0
      BY <3>1, Nobody
    <3> QED
      BY <3>2, PassingFinitePrimed, Limits
  <2>4. ASSUME NEW t \in Nat, NEW l \in 0..life' PROVE Redis!Cardinality(Let(t, l)') <= Redis!AtOnce
    <3>1. CASE l = life'
      <4>1. Let(t, l)' = {}
        BY <2>2, <3>1 DEF Let, Redis!Members, Redis!PassedIn
      <4>2. Redis!Cardinality(Let(t, l)') = 0
        BY <4>1, Nobody
      <4> QED
        BY <4>2, Limits
    <3>2. CASE l # life'
      <4>1. l \in 0..life
        BY <1>1, <1>4, <3>2
      <4>2. Let(t, l)' \subseteq Let(t, l)
        BY <1>1 DEF Let, Redis!Members, Redis!PassedIn
      <4>3. /\ Redis!Cardinality(Let(t, l)') <= Redis!Cardinality(Let(t, l))
            /\ Redis!Cardinality(Let(t, l)') \in Nat /\ Redis!Cardinality(Let(t, l)) \in Nat
        BY <4>2, LetFinite, SubsetOf
      <4> QED
        BY <4>1, <4>3, AnyWindow, Limits
    <3> QED
      BY <3>1, <3>2
  <2>5. Redis!LifeBound'
    BY <2>4 DEF Redis!LifeBound, Let
  <2> QED
    BY <2>1, <2>2, <2>3, <2>5 DEF Redis!PassInv, Let
<1> QED
  BY <1>3, <1>4 DEF Redis!Tick

LEMMA PassInit == ASSUME Redis!Init PROVE Redis!PassInv
<1>1. /\ passed = {} /\ \A p \in Pipelines : pipe[p].pc = "idle"
  BY DEF Redis!Init, Redis!Idle
<1>2. Redis!Members(passed) = {} /\ \A t, l : Redis!Members(Redis!PassedIn(t, l)) = {}
  BY <1>1 DEF Redis!Members, Redis!PassedIn
<1>3. \A t : Redis!Passing(t) = {}
  BY <1>1 DEF Redis!Passing
<1>4. Redis!IsFiniteSet({}) /\ Redis!Cardinality({}) = 0
  BY Nobody
<1>5. Redis!IsFiniteSet(Redis!Members(passed))
  BY <1>2, <1>4
<1>6. \A t, l : Redis!Cardinality(Redis!Members(Redis!PassedIn(t, l))) = 0
  BY <1>2, <1>4
<1>7. \A t : Redis!Cardinality(Redis!Passing(t)) = 0
  BY <1>3, <1>4
<1>8. Redis!LifeBound
  BY <1>6, Limits DEF Redis!LifeBound
<1> QED
  BY <1>1, <1>5, <1>6, <1>7, <1>8, Limits DEF Redis!PassInv

-----------------------------------------------------------------------------
\* What dropping the set costs.

LEMMA DropStep ==
  ASSUME Redis!RefuseInv, Redis!PassInv, Redis!DropInv, clock' = clock, life' = life,
         \A x \in passed' : x \in passed \/ x.life = life,
         \A m \in zset' : m \in zset \/ m <= clock + MaxSkew,
         expires' \in {None, expires, clock + 2 * WindowMs}
  PROVE  Redis!DropInv'
<1>1. clock \in Nat /\ life \in Nat
  BY DEF Redis!RefuseInv, Redis!TypeOK
<1>2. \A x \in passed : x.at \in Nat /\ x.at <= clock
  BY DEF Redis!RefuseInv, Redis!TypeOK, Redis!Pass, Redis!PassInv
<1>3. \A m \in zset' : m <= clock' + MaxSkew
  BY DEF Redis!DropInv
<1>4. \A x \in passed' : x.life + 1 >= life'
  BY <1>1 DEF Redis!DropInv
<1>5. ASSUME expires' # None, NEW x \in passed', x.life < life' PROVE x.at + 2 * WindowMs <= expires'
  <2>1. x \in passed
    BY <1>1, <1>5
  <2>2. CASE expires' = expires
    BY <1>5, <2>1, <2>2 DEF Redis!DropInv
  <2>3. CASE expires' = clock + 2 * WindowMs
    BY <1>1, <1>2, <2>1, <2>3, RedisNumbers
  <2> QED
    BY <1>5, <2>2, <2>3
<1> QED
  BY <1>3, <1>4, <1>5 DEF Redis!DropInv

LEMMA AllowDrop ==
  ASSUME Redis!RefuseInv, Redis!PassInv, Redis!DropInv, NEW p \in Pipelines, Redis!Allow(p)
  PROVE  Redis!DropInv'
<1>1. CASE Redis!Add(p)
  <2>1. pipe[p].now <= clock + MaxSkew
    <3>1. Redis!PipeOK(p) /\ pipe[p].at \in Nat /\ pipe[p].now \in Nat /\ clock \in Nat
      BY <1>1, UnderWay DEF Redis!Add
    <3> QED
      BY <3>1, RedisNumbers DEF Redis!PipeOK
  <2>2. /\ clock' = clock /\ life' = life /\ expires' = expires
        /\ \A x \in passed' : x \in passed \/ x.life = life
        /\ \A m \in zset' : m \in zset \/ m = pipe[p].now
    BY <1>1 DEF Redis!Add
  <2> QED
    BY <2>1, <2>2, DropStep
<1>2. CASE Redis!Remove(p)
  <2>1. /\ clock' = clock /\ life' = life /\ expires' \in {None, expires}
        /\ passed' = passed /\ zset' \subseteq zset
    BY <1>2 DEF Redis!Remove, Redis!Recent, Redis!history
  <2> QED
    BY <2>1, DropStep
<1>3. CASE Redis!Begin(p) \/ Redis!Card(p) \/ Redis!Expire(p) \/ Redis!FailOpen(p)
  <2>1. /\ clock' = clock /\ life' = life /\ expires' \in {None, expires, clock + 2 * WindowMs}
        /\ passed' = passed /\ zset' = zset
    BY <1>3 DEF Redis!Begin, Redis!Card, Redis!Expire, Redis!FailOpen, Redis!history
  <2> QED
    BY <2>1, DropStep
<1> QED
  BY <1>1, <1>2, <1>3 DEF Redis!Allow

LEMMA TickDrop ==
  ASSUME Redis!RefuseInv, Redis!PassInv, Redis!DropInv, Redis!Tick PROVE Redis!DropInv'
<1>1. /\ clock' = clock + 1 /\ clock \in Nat /\ life \in Nat /\ zset \subseteq Nat
      /\ passed' = {x \in passed : x.at > clock + 1 - WindowMs}
  BY DEF Redis!Tick, Redis!RefuseInv, Redis!TypeOK
<1>2. \A x \in passed : x.at \in Nat /\ x.life \in Nat /\ x.life <= life
  BY DEF Redis!RefuseInv, Redis!TypeOK, Redis!Pass, Redis!PassInv
<1>3. CASE expires = clock + 1 /\ zset' = {} /\ expires' = None /\ life' = life + 1
  <2>1. expires # None
    BY <1>1, <1>3, RedisNumbers
  <2>2. ASSUME NEW x \in passed' PROVE x.life + 1 >= life'
    <3>1. x \in passed /\ x.at > clock + 1 - WindowMs
      BY <1>1
    <3>2. x.life < life => x.at + 2 * WindowMs <= clock + 1
      BY <1>3, <2>1, <3>1 DEF Redis!DropInv
    <3>3. x.life = life
      BY <1>1, <1>2, <3>1, <3>2, RedisNumbers
    <3> QED
      BY <1>1, <1>3, <3>3
  <2> QED
    BY <1>3, <2>2 DEF Redis!DropInv
<1>4. CASE UNCHANGED <<zset, expires, life>>
  <2>1. \A m \in zset' : m <= clock' + MaxSkew
    BY <1>1, <1>4, RedisNumbers DEF Redis!DropInv
  <2> QED
    BY <1>1, <1>4, <2>1 DEF Redis!DropInv
<1> QED
  BY <1>3, <1>4 DEF Redis!Tick

\* A step of a pipeline that leaves the set, the key and the passes alone.
LEMMA KeyKept ==
  ASSUME Redis!KeyInv, UNCHANGED <<clock, zset, expires, passed, life>>, Redis!Started' = Redis!Started,
         \A q \in Redis!Started : /\ pipe'[q].at = pipe[q].at
                                  /\ pipe[q].pc = "expire" => pipe'[q] = pipe[q]
  PROVE  Redis!KeyInv'
<1> SUFFICES ASSUME ~Failures PROVE Redis!KeyInv'
  BY DEF Redis!KeyInv
<1>1. \A m \in zset' : \/ \E q \in Redis!Started' : pipe'[q].pc = "expire" /\ pipe'[q].now = m
                       \/ expires' # None /\ m + 2 * WindowMs <= expires' + MaxSkew
  BY DEF Redis!KeyInv
<1>2. expires' # None /\ Redis!Started' # {} =>
        \E q \in Redis!Started' : pipe'[q].at + WindowMs < expires' + MaxSkew
  BY DEF Redis!KeyInv
<1> QED
  BY <1>1, <1>2 DEF Redis!KeyInv, Redis!Length

LEMMA BeginKey ==
  ASSUME Redis!RefuseInv, Redis!KeyInv, NEW p \in Pipelines, Redis!Begin(p) PROVE Redis!KeyInv'
<1> PICK f : f = [Redis!Idle EXCEPT !.pc = "remove", !.at = clock, !.now = clock + ahead[p]]
  OBVIOUS
<1>1. f.pc = "remove" /\ pipe[p].pc = "idle"
  BY DEF Redis!Begin, Redis!Idle
<1>2. /\ \A q \in Pipelines : pipe'[q] = IF q = p THEN f ELSE pipe[q]
      /\ UNCHANGED <<clock, zset, expires, passed, life>>
  BY DEF Redis!Begin, Redis!history, Redis!RefuseInv, Redis!TypeOK
<1>3. p \notin Redis!Started /\ Redis!Started' = Redis!Started
  BY <1>1, <1>2 DEF Redis!Started
<1>4. \A q \in Redis!Started : pipe'[q] = pipe[q]
  BY <1>2, <1>3 DEF Redis!Started
<1> QED
  BY <1>2, <1>3, <1>4, KeyKept

LEMMA CardKey ==
  ASSUME Redis!RefuseInv, Redis!KeyInv, NEW p \in Pipelines, Redis!Card(p) PROVE Redis!KeyInv'
<1> PICK f : f = [pipe[p] EXCEPT !.pc = "add", !.count = Redis!Cardinality(zset)]
  OBVIOUS
<1>1. f.pc = "add" /\ f.at = pipe[p].at /\ pipe[p].pc = "card"
  BY UnderWay DEF Redis!Card, Redis!Frame
<1>2. /\ \A q \in Pipelines : pipe'[q] = IF q = p THEN f ELSE pipe[q]
      /\ UNCHANGED <<clock, zset, expires, passed, life>>
  BY DEF Redis!Card, Redis!history, Redis!RefuseInv, Redis!TypeOK
<1>3. Redis!Started' = Redis!Started
  BY <1>1, <1>2 DEF Redis!Started
<1>4. \A q \in Redis!Started : /\ pipe'[q].at = pipe[q].at
                               /\ pipe[q].pc = "expire" => pipe'[q] = pipe[q]
  BY <1>1, <1>2 DEF Redis!Started
<1> QED
  BY <1>2, <1>3, <1>4, KeyKept

\* A pipeline that leaves a member keeps the key for a window after it began, or an earlier one
\* has yet to renew it.
LEMMA RemoveKey ==
  ASSUME Redis!RefuseInv, Redis!KeyInv, NEW p \in Pipelines, Redis!Remove(p) PROVE Redis!KeyInv'
<1> PICK f : f = [pipe[p] EXCEPT !.pc = "card"]
  OBVIOUS
<1>1. f.pc = "card" /\ f.at = pipe[p].at /\ pipe[p].pc = "remove"
  BY UnderWay DEF Redis!Remove, Redis!Frame
<1>2. /\ \A q \in Pipelines : pipe'[q] = IF q = p THEN f ELSE pipe[q]
      /\ zset' = {m \in zset : m > pipe[p].now - WindowMs}
      /\ expires' = IF zset' = {} THEN None ELSE expires
      /\ UNCHANGED <<clock, passed, life>>
  BY DEF Redis!Remove, Redis!Step, Redis!Recent, Redis!history, Redis!RefuseInv, Redis!TypeOK
<1>3. Redis!Started' = Redis!Started \cup {p} /\ p \notin Redis!Started
  BY <1>1, <1>2 DEF Redis!Started
<1>4. \A q \in Redis!Started : q \in Pipelines /\ pipe'[q] = pipe[q]
  BY <1>2, <1>3 DEF Redis!Started
<1>5. /\ pipe[p].at \in Nat /\ pipe[p].now \in Nat /\ pipe[p].at <= pipe[p].now
      /\ zset \subseteq Nat /\ expires \in Nat \cup {None}
  BY <1>1, UnderWay DEF Redis!PipeOK
<1> SUFFICES ASSUME ~Failures PROVE Redis!KeyInv'
  BY DEF Redis!KeyInv
<1>6. ASSUME NEW m \in zset'
      PROVE  \/ \E q \in Redis!Started' : pipe'[q].pc = "expire" /\ pipe'[q].now = m
             \/ expires' # None /\ m + 2 * WindowMs <= expires' + MaxSkew
  <2>1. m \in zset /\ expires' = expires
    BY <1>2
  <2>2. \/ \E q \in Redis!Started : pipe[q].pc = "expire" /\ pipe[q].now = m
        \/ expires # None /\ m + 2 * WindowMs <= expires + MaxSkew
    BY <2>1 DEF Redis!KeyInv
  <2> QED
    BY <1>3, <1>4, <2>1, <2>2
<1>7. ASSUME expires' # None PROVE \E q \in Redis!Started' : pipe'[q].at + WindowMs < expires' + MaxSkew
  <2>1. zset' # {} /\ expires' = expires
    BY <1>2, <1>7
  <2>2. PICK m \in zset : m > pipe[p].now - WindowMs
    BY <1>2, <2>1
  <2>3. CASE Redis!Started # {}
    <3>1. PICK q \in Redis!Started : pipe[q].at + WindowMs < expires + MaxSkew
      BY <1>7, <2>1, <2>3 DEF Redis!KeyInv
    <3> QED
      BY <1>3, <1>4, <2>1, <3>1
  <2>4. CASE m + 2 * WindowMs <= expires + MaxSkew
    <3>1. pipe'[p].at = pipe[p].at /\ p \in Redis!Started'
      BY <1>1, <1>2, <1>3
    <3>2. pipe[p].at + WindowMs < expires + MaxSkew
      BY <1>5, <1>7, <2>1, <2>2, <2>4, RedisNumbers
    <3> QED
      BY <2>1, <3>1, <3>2
  <2> QED
    BY <2>2, <2>3, <2>4 DEF Redis!KeyInv
<1>8. /\ \A x \in passed' : x.life < life' => x.at + WindowMs <= clock' + MaxSkew
      /\ \A x, y \in passed' : x.life < y.life => x.at + Redis!Length <= y.at
  BY <1>2 DEF Redis!KeyInv, Redis!Length
<1> QED
  BY <1>6, <1>7, <1>8 DEF Redis!KeyInv, Redis!Length

\* Who is let through comes a window after all that a drop has forgotten.
LEMMA AddKey ==
  ASSUME Redis!RefuseInv, Redis!PassInv, Redis!KeyInv, NEW p \in Pipelines, Redis!Add(p)
  PROVE  Redis!KeyInv'
<1> PICK f : f = [pipe[p] EXCEPT !.pc = "expire"]
  OBVIOUS
<1>1. f.pc = "expire" /\ f.at = pipe[p].at /\ f.now = pipe[p].now /\ pipe[p].pc = "add"
  BY UnderWay DEF Redis!Add, Redis!Frame
<1>2. /\ \A q \in Pipelines : pipe'[q] = IF q = p THEN f ELSE pipe[q]
      /\ zset' = zset \cup {pipe[p].now}
      /\ \A x \in passed' : x \in passed \/ (x.at = pipe[p].at /\ x.life = life)
      /\ UNCHANGED <<clock, expires, life>>
  BY DEF Redis!Add, Redis!Step, Redis!RefuseInv, Redis!TypeOK
<1>3. Redis!Started' = Redis!Started /\ p \in Redis!Started
  BY <1>1, <1>2 DEF Redis!Started
<1>4. \A q \in Redis!Started : q \in Pipelines /\ pipe'[q].at = pipe[q].at
  BY <1>1, <1>2 DEF Redis!Started
<1>5. \A q \in Redis!Started : pipe[q].pc = "expire" => pipe'[q] = pipe[q]
  BY <1>1, <1>2, <1>4
<1>6. /\ Redis!PipeOK(p) /\ pipe[p].at \in Nat /\ clock \in Nat /\ life \in Nat
  BY <1>1, UnderWay
<1>7. \A x \in passed : x.at \in Nat /\ x.life \in Nat /\ x.life <= life
  BY DEF Redis!RefuseInv, Redis!TypeOK, Redis!Pass, Redis!PassInv
<1> SUFFICES ASSUME ~Failures PROVE Redis!KeyInv'
  BY DEF Redis!KeyInv
<1>8. ASSUME NEW m \in zset'
      PROVE  \/ \E q \in Redis!Started' : pipe'[q].pc = "expire" /\ pipe'[q].now = m
             \/ expires' # None /\ m + 2 * WindowMs <= expires' + MaxSkew
  <2>1. CASE m = pipe[p].now
    BY <1>1, <1>2, <1>3, <2>1
  <2>2. CASE m \in zset
    <3>1. \/ \E q \in Redis!Started : pipe[q].pc = "expire" /\ pipe[q].now = m
          \/ expires # None /\ m + 2 * WindowMs <= expires + MaxSkew
      BY <2>2 DEF Redis!KeyInv
    <3> QED
      BY <1>2, <1>3, <1>5, <3>1
  <2> QED
    BY <1>2, <2>1, <2>2
<1>9. expires' # None /\ Redis!Started' # {} =>
        \E q \in Redis!Started' : pipe'[q].at + WindowMs < expires' + MaxSkew
  BY <1>2, <1>3, <1>4 DEF Redis!KeyInv
<1>10. \A x \in passed' : x.life < life' => x.at + WindowMs <= clock' + MaxSkew
  BY <1>2, <1>6 DEF Redis!KeyInv
<1>11. ASSUME NEW x \in passed', NEW y \in passed', x.life < y.life PROVE x.at + Redis!Length <= y.at
  <2>1. x \in passed /\ x.life < life
    BY <1>2, <1>6, <1>7, <1>11
  <2>2. CASE y \in passed
    BY <1>11, <2>1, <2>2 DEF Redis!KeyInv
  <2>3. CASE y.at = pipe[p].at
    <3>1. x.at + WindowMs <= clock + MaxSkew /\ clock <= pipe[p].at + MaxDelay /\ x.at \in Nat
      BY <1>6, <1>7, <2>1 DEF Redis!KeyInv, Redis!PipeOK
    <3> QED
      BY <1>6, <2>3, <3>1, RedisNumbers DEF Redis!Length
  <2> QED
    BY <1>2, <2>2, <2>3
<1> QED
  BY <1>8, <1>9, <1>10, <1>11 DEF Redis!KeyInv, Redis!Length

LEMMA ExpireKey ==
  ASSUME Redis!RefuseInv, Redis!DropInv, Redis!KeyInv, NEW p \in Pipelines, Redis!Expire(p)
  PROVE  Redis!KeyInv'
<1> PICK f : f = Redis!Idle
  OBVIOUS
<1>1. f.pc = "idle" /\ pipe[p].pc = "expire"
  BY DEF Redis!Expire, Redis!Idle
<1>2. /\ \A q \in Pipelines : pipe'[q] = IF q = p THEN f ELSE pipe[q]
      /\ expires' = IF zset = {} THEN None ELSE clock + 2 * WindowMs
      /\ UNCHANGED <<clock, zset, passed, life>>
  BY DEF Redis!Expire, Redis!history, Redis!RefuseInv, Redis!TypeOK
<1>3. Redis!Started' = Redis!Started \ {p}
  BY <1>1, <1>2 DEF Redis!Started
<1>4. clock \in Nat /\ clock + 2 * WindowMs # None /\ zset \subseteq Nat
  <2>1. clock \in Nat /\ zset \subseteq Nat
    BY DEF Redis!RefuseInv, Redis!TypeOK
  <2> QED
    BY <2>1, RedisNumbers
<1> SUFFICES ASSUME ~Failures PROVE Redis!KeyInv'
  BY DEF Redis!KeyInv
<1>5. \A m \in zset' : expires' # None /\ m + 2 * WindowMs <= expires' + MaxSkew
  <2> SUFFICES ASSUME NEW m \in zset PROVE expires' # None /\ m + 2 * WindowMs <= expires' + MaxSkew
    BY <1>2
  <2>1. m \in Nat /\ m <= clock + MaxSkew /\ expires' = clock + 2 * WindowMs
    BY <1>2, <1>4 DEF Redis!DropInv
  <2> QED
    BY <1>4, <2>1, RedisNumbers
<1>6. ASSUME expires' # None, NEW q \in Redis!Started' PROVE pipe'[q].at + WindowMs < expires' + MaxSkew
  <2>1. q \in Pipelines /\ pipe'[q] = pipe[q] /\ pipe[q].pc # "idle"
    BY <1>2, <1>3 DEF Redis!Started
  <2>2. pipe[q].at \in Nat /\ pipe[q].at <= clock
    BY <2>1, UnderWay DEF Redis!PipeOK
  <2> QED
    BY <1>2, <1>4, <1>6, <2>1, <2>2, RedisNumbers
<1>7. /\ \A x \in passed' : x.life < life' => x.at + WindowMs <= clock' + MaxSkew
      /\ \A x, y \in passed' : x.life < y.life => x.at + Redis!Length <= y.at
  BY <1>2 DEF Redis!KeyInv, Redis!Length
<1> QED
  BY <1>5, <1>6, <1>7 DEF Redis!KeyInv, Redis!Length

\* When the set is dropped, nobody is at work on it.
LEMMA TickKey ==
  ASSUME Redis!Timely, Redis!RefuseInv, Redis!PassInv, Redis!KeyInv, Redis!Tick
  PROVE  Redis!KeyInv'
<1>1. /\ clock' = clock + 1 /\ clock \in Nat /\ life \in Nat /\ zset \subseteq Nat
      /\ passed' \subseteq passed /\ pipe' = pipe
      /\ \A p \in Pipelines : pipe[p] = Redis!Idle \/ clock - pipe[p].at < MaxDelay
  BY DEF Redis!Tick, Redis!RefuseInv, Redis!TypeOK
<1>2. \A x \in passed : x.at \in Nat /\ x.life \in Nat /\ x.member \in Nat
  BY DEF Redis!RefuseInv, Redis!TypeOK, Redis!Pass
<1>3. Redis!Started' = Redis!Started
  BY <1>1 DEF Redis!Started
<1> SUFFICES ASSUME ~Failures PROVE Redis!KeyInv'
  BY DEF Redis!KeyInv
<1>4. \A x, y \in passed' : x.life < y.life => x.at + Redis!Length <= y.at
  BY <1>1 DEF Redis!KeyInv
<1>5. CASE UNCHANGED <<zset, expires, life>>
  <2>1. \A m \in zset' : \/ \E q \in Redis!Started' : pipe'[q].pc = "expire" /\ pipe'[q].now = m
                         \/ expires' # None /\ m + 2 * WindowMs <= expires' + MaxSkew
    BY <1>1, <1>3, <1>5 DEF Redis!KeyInv
  <2>2. expires' # None /\ Redis!Started' # {} =>
          \E q \in Redis!Started' : pipe'[q].at + WindowMs < expires' + MaxSkew
    BY <1>1, <1>3, <1>5 DEF Redis!KeyInv
  <2>3. ASSUME NEW x \in passed', x.life < life' PROVE x.at + WindowMs <= clock' + MaxSkew
    <3>1. x.at \in Nat /\ x.at + WindowMs <= clock + MaxSkew
      BY <1>1, <1>2, <1>5, <2>3 DEF Redis!KeyInv
    <3> QED
      BY <1>1, <3>1, RedisNumbers
  <2> QED
    BY <1>4, <2>1, <2>2, <2>3 DEF Redis!KeyInv, Redis!Length
<1>6. CASE expires = clock + 1 /\ zset' = {} /\ expires' = None /\ life' = life + 1
  <2>1. expires # None
    BY <1>1, <1>6, RedisNumbers
  <2>2. Redis!Started = {}
    <3> SUFFICES ASSUME NEW q \in Redis!Started, pipe[q].at + WindowMs < expires + MaxSkew PROVE FALSE
      BY <2>1 DEF Redis!KeyInv
    <3>1. q \in Pipelines /\ pipe[q].pc # "idle"
      BY DEF Redis!Started
    <3>2. pipe[q].at \in Nat /\ clock - pipe[q].at < MaxDelay
      BY <1>1, <3>1, UnderWay DEF Redis!Idle
    <3> QED
      BY <1>1, <1>6, <3>2, RedisNumbers DEF Redis!Timely
  <2>3. ASSUME NEW x \in passed' PROVE x.at + WindowMs <= clock' + MaxSkew
    <3>1. x \in passed /\ x.at \in Nat /\ x.member \in Nat /\ x.at <= x.member
      BY <1>1, <1>2 DEF Redis!PassInv
    <3>2. CASE x.life < life
      <4>1. x.at + WindowMs <= clock + MaxSkew
        BY <3>1, <3>2 DEF Redis!KeyInv
      <4> QED
        BY <1>1, <3>1, <4>1, RedisNumbers
    <3>3. CASE x.member \in zset
      <4>1. x.member + 2 * WindowMs <= expires + MaxSkew
        BY <2>2, <3>3 DEF Redis!KeyInv
      <4> QED
        BY <1>1, <1>6, <3>1, <4>1, RedisNumbers
    <3>4. CASE clock >= x.at + WindowMs - MaxSkew
      BY <1>1, <3>1, <3>4, RedisNumbers
    <3>5. x.life \in Nat /\ x.life <= life /\ (x.life = life => x.member \in zset \/ clock >= x.at + WindowMs - MaxSkew)
      BY <1>2, <3>1 DEF Redis!PassInv
    <3> QED
      BY <1>1, <3>2, <3>3, <3>4, <3>5
  <2> QED
    BY <1>4, <1>6, <2>3 DEF Redis!KeyInv, Redis!Length
<1> QED
  BY <1>5, <1>6 DEF Redis!Tick

-----------------------------------------------------------------------------
\* All of it together.

\* A failure lets one request through, and time forgets them.
LEMMA OpenStep ==
  ASSUME Redis!RefuseInv, Redis!OpenInv, NEW p \in Pipelines, Redis!Allow(p) PROVE Redis!OpenInv'
<1>1. CASE Redis!FailOpen(p)
  <2> DEFINE x == [at |-> pipe[p].at, member |-> pipe[p].now]
  <2>1. opened' = opened \cup {x}
    BY <1>1 DEF Redis!FailOpen
  <2>2. x \in Redis!Open
    BY DEF Redis!RefuseInv, Redis!TypeOK, Redis!Frame, Redis!Open
  <2>3. Redis!Members(opened') = Redis!Members(opened) \cup {x.member}
    BY <2>1 DEF Redis!Members
  <2> HIDE DEF x
  <2>4. Redis!IsFiniteSet(Redis!Members(opened'))
    BY <2>3, OneMore DEF Redis!OpenInv
  <2>5. Redis!Members(opened)' = Redis!Members(opened')
    BY DEF Redis!Members
  <2> QED
    BY <2>1, <2>2, <2>4, <2>5 DEF Redis!OpenInv
<1>2. CASE ~Redis!FailOpen(p)
  <2>1. opened' = opened
    BY <1>2 DEF Redis!Allow, Redis!Begin, Redis!Remove, Redis!Card, Redis!Add, Redis!Expire, Redis!history
  <2> QED
    BY <2>1 DEF Redis!OpenInv, Redis!Members
<1> QED
  BY <1>1, <1>2

LEMMA OpenTick == ASSUME Redis!OpenInv, Redis!Tick PROVE Redis!OpenInv'
<1>1. opened' \subseteq opened
  BY DEF Redis!Tick
<1>2. Redis!Members(opened)' \subseteq Redis!Members(opened)
  BY <1>1 DEF Redis!Members
<1> QED
  BY <1>1, <1>2, SubsetOf DEF Redis!OpenInv

LEMMA AllowInv ==
  ASSUME Redis!Timely, Redis!LimiterInv, NEW p \in Pipelines, Redis!Allow(p) PROVE Redis!LimiterInv'
<1>1. Redis!RefuseInv'
  BY BeginInv, RemoveInv, CardInv, AddInv, OverInv DEF Redis!Allow, Redis!LimiterInv
<1>2. Redis!PassInv'
  BY QuietPass, CardPass, AddPass DEF Redis!Allow, Redis!LimiterInv
<1>3. Redis!DropInv'
  BY AllowDrop DEF Redis!LimiterInv
<1>4. Redis!KeyInv'
  <2>1. CASE Redis!FailOpen(p)
    BY <2>1 DEF Redis!FailOpen, Redis!KeyInv
  <2>2. CASE ~Redis!FailOpen(p)
    BY <2>2, BeginKey, RemoveKey, CardKey, AddKey, ExpireKey DEF Redis!Allow, Redis!LimiterInv
  <2> QED
    BY <2>1, <2>2
<1>5. Redis!OpenInv'
  BY OpenStep DEF Redis!LimiterInv
<1> QED
  BY <1>1, <1>2, <1>3, <1>4, <1>5 DEF Redis!LimiterInv

LEMMA TimeInv == ASSUME Redis!Timely, Redis!LimiterInv, Redis!Tick PROVE Redis!LimiterInv'
<1>1. Redis!RefuseInv /\ Redis!PassInv /\ Redis!DropInv /\ Redis!KeyInv /\ Redis!OpenInv
  BY DEF Redis!LimiterInv
<1>2. Redis!RefuseInv' /\ Redis!PassInv' /\ Redis!DropInv' /\ Redis!KeyInv' /\ Redis!OpenInv'
  BY <1>1, TickInv, TickPass, TickDrop, TickKey, OpenTick
<1> QED
  BY <1>2 DEF Redis!LimiterInv

LEMMA StillInv ==
  ASSUME Redis!LimiterInv, UNCHANGED Redis!vars PROVE Redis!LimiterInv'
<1>1. /\ UNCHANGED <<clock, ahead, zset, expires, pipe, asked, passed, opened, life>>
      /\ Redis!Started' = Redis!Started
      /\ \A t : Redis!Passing(t)' = Redis!Passing(t)
      /\ \A t, l : Redis!PassedIn(t, l)' = Redis!PassedIn(t, l)
  BY DEF Redis!vars, Redis!Started, Redis!Passing, Redis!PassedIn
<1>2. Redis!RefuseInv'
  BY <1>1 DEF Redis!LimiterInv, Redis!RefuseInv, Redis!TypeOK, Redis!PipeOK, Redis!RefusedForCause
<1>3. Redis!PassInv'
  BY <1>1 DEF Redis!LimiterInv, Redis!PassInv, Redis!LifeBound, Redis!Members
<1>4. Redis!DropInv' /\ Redis!KeyInv' /\ Redis!OpenInv'
  BY <1>1 DEF Redis!LimiterInv, Redis!DropInv, Redis!KeyInv, Redis!OpenInv, Redis!Members
<1> QED
  BY <1>2, <1>3, <1>4 DEF Redis!LimiterInv

LEMMA InitInv == ASSUME Redis!Init PROVE Redis!LimiterInv
<1>1. Redis!DropInv /\ Redis!KeyInv
  BY DEF Redis!Init, Redis!DropInv, Redis!KeyInv
<1>2. Redis!OpenInv
  <2>1. Redis!Members(opened) = {} /\ opened = {}
    BY DEF Redis!Init, Redis!Members
  <2> QED
    BY <2>1, Nobody DEF Redis!OpenInv
<1> QED
  BY <1>1, <1>2, RedisInitInv, PassInit DEF Redis!LimiterInv

\* What a window has of the lives of the set: two of them, and one unless pipelines fail.
LEMMA OneDrop ==
  ASSUME Redis!LimiterInv, NEW t \in Nat
  PROVE  Redis!Cardinality(Redis!Members(Redis!Counted(t))) <= Redis!MostCounted
<1> USE DEF Redis!Counted, Redis!MostCounted
<1> PICK P : P = UNION {Redis!PassedIn(t, l) : l \in 0..life}
  OBVIOUS
<1>1. \A x \in P : x \in passed /\ t <= x.at /\ x.at < t + Redis!Length
  BY DEF Redis!PassedIn
<1>2. \A x \in P : /\ x.at \in Nat /\ x.life \in 0..life
                   /\ \A l : x.life = l => x.member \in Let(t, l)
  <2>1. \A x \in P : x.at \in Nat /\ x.life \in 0..life
    BY <1>1 DEF Redis!LimiterInv, Redis!RefuseInv, Redis!TypeOK, Redis!Pass, Redis!PassInv
  <2> QED
    BY <1>1, <2>1 DEF Let, Redis!Members, Redis!PassedIn
<1>3. life \in Nat /\ Redis!Length \in Int /\ Redis!RefuseInv /\ Redis!PassInv
  BY RedisNumbers DEF Redis!LimiterInv, Redis!RefuseInv, Redis!TypeOK, Redis!Length
<1>4. \A l \in 0..life : /\ Redis!IsFiniteSet(Let(t, l)) /\ Redis!Cardinality(Let(t, l)) \in Nat
                         /\ Redis!Cardinality(Let(t, l)) <= Redis!AtOnce
  BY <1>3, LetFinite, AnyWindow
<1>5. CASE Failures
  <2>1. \A x \in P : x.life \in {life, life - 1}
    <3> SUFFICES ASSUME NEW x \in P PROVE x.life \in {life, life - 1}
      OBVIOUS
    <3>1. x.life + 1 >= life
      BY <1>1 DEF Redis!LimiterInv, Redis!DropInv
    <3> QED
      BY <1>2, <1>3, <3>1
  <2>2. CASE life = 0
    <3>1. Redis!Members(P) \subseteq Let(t, 0)
      BY <1>2, <2>2 DEF Redis!Members
    <3>2. /\ Redis!Cardinality(Redis!Members(P)) <= Redis!Cardinality(Let(t, 0))
          /\ Redis!Cardinality(Redis!Members(P)) \in Nat
      BY <1>4, <2>2, <3>1, SubsetOf
    <3> QED
      BY <1>4, <1>5, <2>2, <3>2, Limits
  <2>3. CASE life # 0
    <3> PICK k : k = life - 1
      OBVIOUS
    <3>1. k \in 0..life /\ life \in 0..life
      BY <1>3, <2>3
    <3>2. Redis!Members(P) \subseteq Let(t, life) \cup Let(t, k)
      BY <1>2, <2>1 DEF Redis!Members
    <3>3. /\ Redis!IsFiniteSet(Let(t, life) \cup Let(t, k))
          /\ Redis!Cardinality(Let(t, life) \cup Let(t, k))
               <= Redis!Cardinality(Let(t, life)) + Redis!Cardinality(Let(t, k))
      BY <1>4, <3>1, Both
    <3>4. /\ Redis!Cardinality(Redis!Members(P)) <= Redis!Cardinality(Let(t, life) \cup Let(t, k))
          /\ Redis!Cardinality(Redis!Members(P)) \in Nat
          /\ Redis!Cardinality(Let(t, life) \cup Let(t, k)) \in Nat
      BY <3>2, <3>3, SubsetOf, Counted
    <3>5. /\ Redis!Cardinality(Let(t, life)) \in Nat /\ Redis!Cardinality(Let(t, k)) \in Nat
          /\ Redis!Cardinality(Let(t, life)) <= Redis!AtOnce /\ Redis!Cardinality(Let(t, k)) <= Redis!AtOnce
      BY <1>4, <3>1
    <3> QED
      BY <1>5, <3>3, <3>4, <3>5, Limits
  <2> QED
    BY <2>2, <2>3
<1>6. CASE ~Failures
  <2>1. CASE P = {}
    <3>1. Redis!Members(P) = {}
      BY <2>1 DEF Redis!Members
    <3>2. Redis!Cardinality(Redis!Members(P)) = 0
      BY <3>1, Nobody
    <3> QED
      BY <1>6, <3>2, Limits
  <2>2. ASSUME NEW x \in P
        PROVE  Redis!Cardinality(Redis!Members(P)) <= Redis!AtOnce
    <3>1. \A y \in P : y.life = x.life
      <4> SUFFICES ASSUME NEW y \in P PROVE ~(y.life < x.life) /\ ~(x.life < y.life)
        BY <1>2
      <4>1. ASSUME y.life < x.life PROVE y.at + Redis!Length <= x.at
        BY <1>1, <1>6, <4>1 DEF Redis!LimiterInv, Redis!KeyInv
      <4>2. ASSUME x.life < y.life PROVE x.at + Redis!Length <= y.at
        BY <1>1, <1>6, <4>2 DEF Redis!LimiterInv, Redis!KeyInv
      <4> QED
        BY <1>1, <1>2, <1>3, <4>1, <4>2
    <3> PICK l : l = x.life
      OBVIOUS
    <3>2. Redis!Members(P) \subseteq Let(t, l) /\ l \in 0..life
      BY <1>2, <3>1 DEF Redis!Members
    <3>3. /\ Redis!Cardinality(Redis!Members(P)) <= Redis!Cardinality(Let(t, l))
          /\ Redis!Cardinality(Redis!Members(P)) \in Nat
      BY <1>4, <3>2, SubsetOf
    <3> QED
      BY <1>4, <3>2, <3>3, Limits
  <2> QED
    BY <1>6, <2>1, <2>2
<1> QED
  BY <1>5, <1>6

\* The requests that failures let through come on top.
LEMMA AllThrough ==
  ASSUME Redis!LimiterInv, NEW t \in Nat
  PROVE  Redis!Cardinality(Redis!Through(t))
           <= Redis!MostCounted + Redis!Cardinality(Redis!Members(Redis!OpenedIn(t)))
<1>1. Redis!Members(Redis!Counted(t)) \subseteq Redis!Members(passed)
  BY DEF Redis!Members, Redis!Counted, Redis!PassedIn
<1>2. Redis!Members(Redis!OpenedIn(t)) \subseteq Redis!Members(opened)
  BY DEF Redis!Members, Redis!OpenedIn
<1>3. /\ Redis!IsFiniteSet(Redis!Members(Redis!Counted(t)))
      /\ Redis!IsFiniteSet(Redis!Members(Redis!OpenedIn(t)))
  BY <1>1, <1>2, SubsetOf DEF Redis!LimiterInv, Redis!PassInv, Redis!OpenInv
<1>4. /\ Redis!Cardinality(Redis!Members(Redis!Counted(t))) \in Nat
      /\ Redis!Cardinality(Redis!Members(Redis!OpenedIn(t))) \in Nat
      /\ Redis!IsFiniteSet(Redis!Through(t))
      /\ Redis!Cardinality(Redis!Through(t)) <= Redis!Cardinality(Redis!Members(Redis!Counted(t)))
                                                + Redis!Cardinality(Redis!Members(Redis!OpenedIn(t)))
  BY <1>3, Counted, Both DEF Redis!Through
<1>5. Redis!Cardinality(Redis!Through(t)) \in Nat /\ Redis!MostCounted \in Nat
  BY <1>4, Counted, Limits DEF Redis!MostCounted
<1> QED
  BY <1>4, <1>5, OneDrop

LEMMA InvBounds == ASSUME Redis!LimiterInv PROVE Redis!WindowBound
<1>1. clock \in Nat
  BY DEF Redis!LimiterInv, Redis!RefuseInv, Redis!TypeOK
<1> QED
  BY <1>1, AllThrough DEF Redis!WindowBound, Redis!LimiterInv, Redis!PassInv

-----------------------------------------------------------------------------
\* The server has one limiter and it runs as if it were alone (ratelimit.go,
\* NewRateLimiterFromEnv): what is proved of either holds of the server.
THEOREM OneLimiter == LimiterSpec => Spec /\ Redis!Spec
<1>1. NewRateLimiterFromEnv => Init /\ Redis!Init
  BY DEF NewRateLimiterFromEnv
<1>2. [Allow]_limiterVars => [Next]_vars /\ [Redis!Next]_(Redis!vars)
  BY DEF Allow, limiterVars, redisVars, Redis!vars
<1> QED
  BY <1>1, <1>2, PTL DEF LimiterSpec, Spec, Redis!Spec

\* The invariant of the Redis limiter (ratelimit_redis.go, Allow), whatever the other pipelines
\* do between the commands of one, whatever fails and whenever Redis drops the set.
THEOREM RedisInvariance == ASSUME Redis!Timely PROVE LimiterSpec => []RedisInv
<1>1. Redis!Init => Redis!LimiterInv
  BY InitInv
<1>2. Redis!LimiterInv /\ [Redis!Next]_(Redis!vars) => Redis!LimiterInv'
  <2> SUFFICES ASSUME Redis!LimiterInv, [Redis!Next]_(Redis!vars) PROVE Redis!LimiterInv'
    OBVIOUS
  <2>1. CASE Redis!Tick
    BY <2>1, TimeInv
  <2>2. ASSUME NEW p \in Pipelines, Redis!Allow(p) PROVE Redis!LimiterInv'
    BY <2>2, AllowInv
  <2>3. CASE UNCHANGED Redis!vars
    BY <2>3, StillInv
  <2> QED
    BY <2>1, <2>2, <2>3 DEF Redis!Next
<1>3. RedisInv <=> Redis!LimiterInv
  BY DEF RedisInv
<1> QED
  BY <1>1, <1>2, <1>3, OneLimiter, PTL DEF Redis!Spec

\* In any window the requests let through (ratelimit_redis.go, Allow) are of no more milliseconds
\* than the burst and one of every other pipeline under way, or twice as many where a pipeline
\* that broke off has let Redis drop the set, and those of the requests whose pipelines failed.
THEOREM RedisWindowIsBounded == ASSUME Redis!Timely PROVE LimiterSpec => []RedisWindowBound
<1>1. RedisInv => RedisWindowBound
  BY InvBounds DEF RedisInv, RedisWindowBound
<1> QED
  BY <1>1, RedisInvariance, PTL

\* A request is refused only when requests of Burst milliseconds have come in the window
\* before it: two server instances that share the sorted set do not hold against a client
\* what is over (ratelimit_redis.go, Allow).
THEOREM RefusesForCause == ASSUME Redis!Timely PROVE LimiterSpec => []RedisRefusedForCause
<1>1. RedisInv => RedisRefusedForCause
  BY DEF RedisInv, RedisRefusedForCause, Redis!LimiterInv, Redis!RefuseInv
<1> QED
  BY <1>1, RedisInvariance, PTL
=============================================================================
