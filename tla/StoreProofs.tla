---------------------------- MODULE StoreProofs ----------------------------
(***************************************************************************)
(* Store keeps StoreInv, for every set of players and of requests, every   *)
(* turn order the host may send and wherever a handler dies.               *)
(***************************************************************************)
EXTENDS Store, FiniteSetTheorems, TLAPS

\* A list of distinct members of a finite set is no longer than the set.
LEMMA InjectiveLength ==
  ASSUME NEW S, IsFiniteSet(S), NEW l \in Seq(S), IsInjective(l)
  PROVE  Len(l) <= Cardinality(S)
<1>1. l \in Injection(1..Len(l), S)
  BY DEF Injection
<1>2. Cardinality(1..Len(l)) <= Cardinality(S)
  BY <1>1, FS_Injection
<1>3. Cardinality(1..Len(l)) = Len(l)
  <2>1. Len(l) \in Nat /\ 1 \in Int /\ Len(l) \in Int
    OBVIOUS
  <2>2. Cardinality(1..Len(l)) = IF 1 > Len(l) THEN 0 ELSE Len(l) - 1 + 1
    BY <2>1, FS_Interval, Zenon
  <2> QED
    BY <2>1, <2>2
<1> QED
  BY <1>2, <1>3

\* Whatever a list names it names somewhere last: where the positions after it are fewest.
LEMMA NamedLast ==
  ASSUME NEW S, NEW l \in Seq(S), NEW p \in Range(l)
  PROVE  LastAt(l, p) \in 1..Len(l) /\ l[LastAt(l, p)] = p
<1> DEFINE n == Len(l)
           After == {(i + 1)..n : i \in {k \in 1..n : l[k] = p}}
<1>1. n \in Nat /\ IsFiniteSet(1..n)
  BY FS_Interval
<1>2. IsWellFoundedOn(StrictSubsetOrdering(1..n), SUBSET (1..n))
  BY <1>1, FS_StrictSubsetOrderingWellFounded, FS_FiniteSubsetsOfFinite
<1>3. After \subseteq SUBSET (1..n)
  BY <1>1
<1>4. After # {}
  <2>1. PICK i \in 1..n : l[i] = p
    BY DEF Range
  <2> QED
    BY <2>1
<1>5. PICK x \in After : \A y \in After : <<y, x>> \notin StrictSubsetOrdering(1..n)
  <2> HIDE DEF After, n
  <2> QED
    BY <1>2, <1>3, <1>4, WFMin
<1>6. PICK i \in 1..n : l[i] = p /\ x = (i + 1)..n
  BY <1>5
<1>7. \A j \in (i + 1)..n : l[j] # p
  <2> SUFFICES ASSUME NEW j \in (i + 1)..n, l[j] = p PROVE FALSE
    OBVIOUS
  <2>1. j \in 1..n /\ (j + 1)..n \in After
    BY <1>1
  <2>2. (j + 1)..n \subseteq x /\ j \in x /\ j \notin (j + 1)..n
    BY <1>1, <1>6
  <2>3. <<(j + 1)..n, x>> \in StrictSubsetOrdering(1..n)
    BY <1>3, <1>5, <2>1, <2>2 DEF StrictSubsetOrdering
  <2> QED
    BY <1>5, <2>1, <2>3
<1> QED
  BY <1>6, <1>7 DEF LastAt

\* The players ever issued are finitely many, and the rows are among them.
LEMMA Counting ==
  ASSUME TypeOK
  PROVE  /\ IsFiniteSet(known) /\ Cardinality(known) \in Nat
         /\ IsFiniteSet(DOMAIN players)
         /\ PlayerCount \in 0..Cardinality(known)
         /\ PlayerCount = 0 <=> DOMAIN players = {}
         /\ Cardinality(known) = 0 <=> known = {}
<1>1. IsFiniteSet(known)
  BY StoreAssumption, FS_Subset DEF TypeOK
<1>2. IsFiniteSet(DOMAIN players) /\ Cardinality(DOMAIN players) <= Cardinality(known)
  BY <1>1, FS_Subset DEF TypeOK
<1>3. Cardinality(known) \in Nat /\ Cardinality(DOMAIN players) \in Nat
  BY <1>1, <1>2, FS_CardinalityType
<1>4. (PlayerCount = 0 <=> DOMAIN players = {}) /\ (Cardinality(known) = 0 <=> known = {})
  BY <1>1, <1>2, FS_EmptySet, Zenon DEF PlayerCount
<1> QED
  BY <1>1, <1>2, <1>3, <1>4 DEF PlayerCount

\* What the frames of the other requests promise survives a step of r: ids, blobs
\* and turns are only ever added.
LEMMA OtherFrames ==
  ASSUME StoreInv, NEW r \in Requests,
         \A q \in Requests \ {r} : req'[q] = req[q],
         IsFiniteSet(known'), known \subseteq known', blobs \subseteq blobs', turns \subseteq turns'
  PROVE  \A q \in Requests \ {r} : FrameOK(q)'
<1> SUFFICES ASSUME NEW q \in Requests, q # r PROVE FrameOK(q)'
  OBVIOUS
<1>1. Cardinality(known) <= Cardinality(known') /\ Cardinality(known') \in Nat
  BY FS_Subset, FS_CardinalityType
<1>2. FrameOK(q) /\ req'[q] = req[q] /\ req[q] \in Frame /\ Cardinality(known) \in Nat
  BY Counting DEF StoreInv, TypeOK
<1> QED
  BY <1>1, <1>2 DEF FrameOK, At, Ordering, HasIndex, Frame

\* A step of r that writes nothing but its own frame.
LEMMA ReadOnly ==
  ASSUME StoreInv, NEW r \in Requests,
         req' \in [Requests -> Frame], \A q \in Requests \ {r} : req'[q] = req[q],
         UNCHANGED <<game, players, known, blobs, turns>>,
         told' \subseteq Players, ended' \in BOOLEAN,
         status # "none", FrameOK(r)'
  PROVE  StoreInv'
<1>1. IsFiniteSet(known')
  BY Counting DEF StoreInv
<1>2. \A q \in Requests : FrameOK(q)'
  BY <1>1, OtherFrames
<1>3. TypeOK' /\ NotYet'
  BY DEF StoreInv, TypeOK, NotYet, game
<1>4. TurnsDownloadable' /\ (ForeignKeys => AuthorsStay')
  BY DEF StoreInv, TurnsDownloadable, AuthorsStay, game
<1>5. SeatsInRange'
  BY DEF StoreInv, SeatsInRange, game
<1> QED
  BY <1>2, <1>3, <1>4, <1>5 DEF StoreInv

\* The handler goes on to its next call.
LEMMA GotoFrame ==
  ASSUME TypeOK, NEW r \in Requests, NEW pc \in Steps, Goto(r, pc)
  PROVE  /\ req' \in [Requests -> Frame]
         /\ \A q \in Requests \ {r} : req'[q] = req[q]
         /\ req'[r].pc = pc
         /\ req'[r].who = req[r].who /\ req'[r].ord = req[r].ord /\ req'[r].active = req[r].active
         /\ req'[r].idx = req[r].idx /\ req'[r].count = req[r].count /\ req'[r].turn = req[r].turn
         /\ req'[r].list = req[r].list
<1>1. req[r] \in Frame
  BY DEF TypeOK
<1>2. [req[r] EXCEPT !.pc = pc] \in Frame
  BY <1>1 DEF Frame
<1>3. req'[r] = [req[r] EXCEPT !.pc = pc]
  BY DEF Goto, TypeOK
<1>4. req' \in [Requests -> Frame] /\ \A q \in Requests \ {r} : req'[q] = req[q]
  BY <1>2, <1>3 DEF Goto, TypeOK
<1> QED
  BY <1>1, <1>3, <1>4 DEF Frame

\* The handler goes on with no more of its locals than its player and an index.
LEMMA KeepFrame ==
  ASSUME TypeOK, NEW r \in Requests, NEW pc \in Steps,
         NEW who \in Players \cup {NoPlayer}, NEW idx \in Nat,
         Keep(r, pc, who, idx)
  PROVE  /\ req' \in [Requests -> Frame]
         /\ \A q \in Requests \ {r} : req'[q] = req[q]
         /\ req'[r].pc = pc /\ req'[r].who = who /\ req'[r].idx = idx
<1> DEFINE f == [Idle EXCEPT !.pc = pc, !.who = who, !.idx = idx]
<1>1. Idle \in Frame
  BY DEF Idle, Frame, Steps
<1>2. f \in Frame /\ f.pc = pc /\ f.who = who /\ f.idx = idx
  BY <1>1 DEF Frame
<1>3. req' = [req EXCEPT ![r] = f]
  BY DEF Keep
<1> HIDE DEF f
<1> QED
  BY <1>2, <1>3 DEF TypeOK

\* The handler returns.
LEMMA DoneFrame ==
  ASSUME TypeOK, NEW r \in Requests, Done(r)
  PROVE  /\ req' \in [Requests -> Frame]
         /\ \A q \in Requests \ {r} : req'[q] = req[q]
         /\ req'[r] = Idle
         /\ FrameOK(r)'
<1>1. Idle \in Frame
  BY DEF Idle, Frame, Steps
<1>2. req' \in [Requests -> Frame] /\ req'[r] = Idle /\ \A q \in Requests \ {r} : req'[q] = req[q]
  BY <1>1 DEF Done, TypeOK
<1> QED
  BY <1>2 DEF Idle, FrameOK, At, Ordering, HasIndex

\* A handler that dies, or refuses, between two of its steps.
LEMMA GiveUpInv ==
  ASSUME StoreInv, NEW r \in Requests, ~At(r, "idle"), Done(r),
         UNCHANGED <<game, players, known, files, news>>
  PROVE  StoreInv'
<1>1. status # "none" /\ TypeOK
  BY DEF StoreInv, NotYet
<1> QED
  BY <1>1, DoneFrame, ReadOnly DEF TypeOK, files, news

LEMMA InitInv == Init => StoreInv
<1> SUFFICES ASSUME Init PROVE StoreInv
  OBVIOUS
<1>1. Idle \in Frame
  BY DEF Idle, Frame, Steps
<1>2. TypeOK
  BY <1>1, FS_EmptySet DEF Init, TypeOK, Statuses
<1>3. \A r \in Requests : FrameOK(r)
  BY DEF Init, FrameOK, At, Ordering, HasIndex, Idle
<1> QED
  BY <1>2, <1>3 DEF Init, StoreInv, NotYet, At, Idle, TurnsDownloadable, AuthorsStay, SeatsInRange

-----------------------------------------------------------------------------
\* Host and players.

LEMMA CreateGameInv == StoreInv /\ CreateGame => StoreInv'
<1> SUFFICES ASSUME StoreInv, CreateGame PROVE StoreInv'
  OBVIOUS
<1> USE DEF game, files, news
<1>1. PICK p \in Players \ known : host' = p /\ known' = known \cup {p} /\ players' = [q \in {p} |-> 0]
  BY DEF CreateGame
<1>2. known = {} /\ turns = {} /\ \A r \in Requests : At(r, "idle")
  BY DEF StoreInv, NotYet, CreateGame
<1>3. IsFiniteSet(known') /\ Cardinality(known') = 1
  <2>1. known' = {p}
    BY <1>1, <1>2
  <2> QED
    BY <2>1, FS_Singleton, Zenon
<1>4. TypeOK'
  BY <1>1, <1>3 DEF StoreInv, TypeOK, CreateGame, Statuses
<1>5. SeatsInRange'
  BY <1>1, <1>3 DEF SeatsInRange, CreateGame
<1>6. \A r \in Requests : FrameOK(r)'
  BY <1>2 DEF FrameOK, At, Ordering, HasIndex, CreateGame
<1> QED
  BY <1>2, <1>4, <1>5, <1>6
  DEF StoreInv, NotYet, CreateGame, TurnsDownloadable, AuthorsStay

LEMMA JoinInv == ASSUME StoreInv, NEW r \in Requests, Join(r) PROVE StoreInv'
<1> USE DEF game, files, news
<1>1. req[r] \in Frame /\ FrameOK(r) /\ Idle \in Frame
  BY DEF StoreInv, TypeOK, Idle, Frame, Steps
<1>2. ~At(r, "idle") => status # "none"
  BY DEF StoreInv, NotYet
<1>3. CASE JoinLookup(r)
  <2>1. req' \in [Requests -> Frame] /\ \A q \in Requests \ {r} : req'[q] = req[q]
    BY <1>1, <1>3 DEF JoinLookup, Goto, StoreInv, TypeOK, Frame, Steps
  <2>2. FrameOK(r)'
    BY <1>1, <1>3 DEF JoinLookup, Goto, StoreInv, TypeOK, FrameOK, At, Ordering, HasIndex
  <2> QED
    BY <1>3, <2>1, <2>2, ReadOnly DEF JoinLookup, StoreInv, TypeOK
<1>4. CASE JoinCount(r)
  <2>0. PlayerCount \in Nat /\ PlayerCount <= Cardinality(known)
    BY Counting DEF StoreInv
  <2>1. req' \in [Requests -> Frame] /\ \A q \in Requests \ {r} : req'[q] = req[q]
    BY <1>1, <1>4, <2>0 DEF JoinCount, StoreInv, TypeOK, Frame, Steps
  <2>2. FrameOK(r)'
    BY <1>1, <1>4, <2>0 DEF JoinCount, StoreInv, TypeOK, FrameOK, At, Ordering, HasIndex
  <2> QED
    BY <1>2, <1>4, <2>1, <2>2, ReadOnly DEF JoinCount, At, StoreInv, TypeOK
<1>5. CASE JoinInsert(r)
  <2>1. PICK p \in Players \ known :
          /\ known' = known \cup {p}
          /\ players' = [q \in DOMAIN players \cup {p} |->
                           IF q = p THEN req[r].count ELSE players[q]]
    BY <1>5 DEF JoinInsert
  <2>2. /\ IsFiniteSet(known') /\ Cardinality(known') = Cardinality(known) + 1
        /\ Cardinality(known) \in Nat
    BY <2>1, Counting, FS_AddElement DEF StoreInv
  <2>3. req[r].count \in Nat /\ req[r].count <= Cardinality(known)
    BY <1>1, <1>5 DEF JoinInsert, FrameOK, Frame
  <2>4. TypeOK'
    BY <1>1, <1>5, <2>1, <2>3 DEF JoinInsert, Done, StoreInv, TypeOK
  <2>5. NotYet' /\ known # {}
    BY <1>2, <1>5, <2>1 DEF JoinInsert, At, NotYet, StoreInv
  <2>6. TurnsDownloadable' /\ (ForeignKeys => AuthorsStay')
    BY <1>5, <2>1 DEF JoinInsert, StoreInv, TurnsDownloadable, AuthorsStay
  <2>7. SeatsInRange'
    BY <1>5, <2>1, <2>2, <2>3, <2>5 DEF JoinInsert, StoreInv, TypeOK, SeatsInRange
  <2>8. FrameOK(r)'
    BY <1>5 DEF JoinInsert, Done, Idle, StoreInv, TypeOK, FrameOK, At, Ordering, HasIndex
  <2>9. \A q \in Requests : FrameOK(q)'
    BY <1>5, <2>1, <2>2, <2>8, OtherFrames DEF JoinInsert, Done, StoreInv, TypeOK
  <2> QED
    BY <2>4, <2>5, <2>6, <2>7, <2>9 DEF StoreInv
<1> QED
  BY <1>3, <1>4, <1>5 DEF Join

-----------------------------------------------------------------------------
\* The look-up with which a handler begins, and the host's requests.

LEMMA PlayerByTokenInv ==
  ASSUME StoreInv, NEW r \in Requests, StartPlayer(r) \/ LeavePlayer(r) \/ UploadPlayer(r)
  PROVE  StoreInv'
<1> USE DEF game, files, news
<1>1. PICK pc \in {"start_game", "leave_game", "upload_game"} : PlayerByToken(r, pc)
  BY DEF StartPlayer, LeavePlayer, UploadPlayer
<1>2. PICK p \in DOMAIN players :
        req' = [req EXCEPT ![r] = [Idle EXCEPT !.pc = pc, !.who = p, !.ord = players[p]]]
  BY <1>1 DEF PlayerByToken
<1>3. p \in Players /\ players[p] \in Nat /\ status # "none"
  BY DEF StoreInv, TypeOK, NotYet
<1>4. [Idle EXCEPT !.pc = pc, !.who = p, !.ord = players[p]] \in Frame
  <2>1. pc \in Steps
    BY DEF Steps
  <2>2. Idle \in Frame
    BY DEF Idle, Frame, Steps
  <2> QED
    BY <1>3, <2>1, <2>2 DEF Frame
<1>5. req' \in [Requests -> Frame] /\ \A q \in Requests \ {r} : req'[q] = req[q]
  BY <1>2, <1>4 DEF StoreInv, TypeOK
<1>6. FrameOK(r)'
  BY <1>2, <1>3 DEF StoreInv, TypeOK, Idle, FrameOK, At, Ordering, HasIndex
<1> QED
  BY <1>1, <1>3, <1>5, <1>6, ReadOnly DEF PlayerByToken, StoreInv, TypeOK

\* Whatever the host sends names ids that have been issued; the constants say how often.
LEMMA HostListsAreLists ==
  ASSUME TypeOK, NEW l \in HostLists
  PROVE  /\ l \in Seq(Players) /\ Range(l) \subseteq known
         /\ HostOrders = "any" => Len(l) <= MaxList
         /\ HostOrders # "any" => IsInjective(l)
<1>1. CASE HostOrders = "none"
  BY <1>1 DEF HostLists
<1>2. CASE HostOrders = "full"
  <2>1. l \in [1..PlayerCount -> DOMAIN players] /\ IsInjective(l)
    BY <1>2 DEF HostLists
  <2>2. PlayerCount \in Nat
    BY Counting
  <2> QED
    BY <1>2, <2>1, <2>2 DEF TypeOK, Range
<1>3. CASE HostOrders = "any"
  <2>1. PICK n \in 0..MaxList : l \in [1..n -> known]
    BY <1>3 DEF HostLists
  <2>2. n \in Nat /\ n <= MaxList
    BY StoreAssumption
  <2>3. l \in Seq(Players) /\ Range(l) \subseteq known /\ Len(l) = n
    BY <2>1, <2>2 DEF TypeOK, Range
  <2> QED
    BY <1>3, <2>2, <2>3
<1> QED
  BY <1>1, <1>2, <1>3, StoreAssumption

LEMMA SetTurnOrderInv == ASSUME StoreInv, NEW r \in Requests, SetTurnOrder(r) PROVE StoreInv'
<1> USE DEF game, files, news
<1>1. req[r] \in Frame /\ FrameOK(r) /\ Idle \in Frame /\ TypeOK
  BY DEF StoreInv, TypeOK, Idle, Frame, Steps
<1>2. ~At(r, "idle") => status # "none"
  BY DEF StoreInv, NotYet
<1>3. CASE OrderPlayer(r)
  <2>1. PICK p \in DOMAIN players, l \in HostLists :
          req' = [req EXCEPT ![r] = [Idle EXCEPT !.pc = "order_game", !.who = p, !.list = l]]
    BY <1>3 DEF OrderPlayer
  <2>2. p \in Players /\ status # "none"
    BY DEF StoreInv, TypeOK, NotYet
  <2>3. /\ l \in Seq(Players) /\ Range(l) \subseteq known
        /\ HostOrders = "any" => Len(l) <= MaxList
        /\ HostOrders # "any" => IsInjective(l)
    BY <1>1, HostListsAreLists
  <2>4. [Idle EXCEPT !.pc = "order_game", !.who = p, !.list = l] \in Frame
    BY <2>2, <2>3 DEF Idle, Frame, Steps
  <2>5. req' \in [Requests -> Frame] /\ \A q \in Requests \ {r} : req'[q] = req[q]
    BY <2>1, <2>4 DEF StoreInv, TypeOK
  <2>6. req'[r].pc = "order_game" /\ req'[r].list = l /\ known' = known
    BY <1>3, <2>1 DEF OrderPlayer, StoreInv, TypeOK, Idle
  <2>7. FrameOK(r)'
    BY <2>3, <2>6 DEF FrameOK, At, Ordering, HasIndex
  <2> QED
    BY <1>3, <2>2, <2>5, <2>7, ReadOnly DEF OrderPlayer, StoreInv, TypeOK
<1>4. CASE OrderGame(r)
  <2>1. CASE HostInLobby(r)
    <3>1. Goto(r, "order_tx")
      BY <1>4, <2>1 DEF OrderGame
    <3>2. /\ req' \in [Requests -> Frame] /\ \A q \in Requests \ {r} : req'[q] = req[q]
          /\ req'[r].pc = "order_tx" /\ req'[r].list = req[r].list
      <4>1. "order_tx" \in Steps
        BY DEF Steps
      <4> QED
        BY <1>1, <3>1, <4>1, GotoFrame
    <3>3. /\ Range(req[r].list) \subseteq known
          /\ HostOrders = "any" => Len(req[r].list) <= MaxList
          /\ HostOrders # "any" => IsInjective(req[r].list)
      BY <1>1, <1>4 DEF OrderGame, FrameOK, Ordering
    <3>4. FrameOK(r)'
      BY <1>4, <3>2, <3>3 DEF OrderGame, FrameOK, At, Ordering, HasIndex
    <3> QED
      BY <1>2, <1>4, <3>2, <3>4, ReadOnly DEF OrderGame, At, StoreInv, TypeOK
  <2>2. CASE ~HostInLobby(r)
    BY <1>4, <2>2, GiveUpInv DEF OrderGame, At
  <2> QED
    BY <2>1, <2>2
<1>5. CASE OrderCommit(r)
  <2> DEFINE l == req[r].list
             Seat(p) == LastAt(l, p) - 1
  <2>1. /\ l \in Seq(known) /\ Len(l) \in Nat
        /\ Len(l) <= Cardinality(known) \/ (HostOrders = "any" /\ Len(l) <= MaxList)
    <3>1. /\ l \in Seq(Players) /\ Range(l) \subseteq known
          /\ HostOrders = "any" => Len(l) <= MaxList
          /\ HostOrders # "any" => IsInjective(l)
      BY <1>1, <1>5 DEF OrderCommit, FrameOK, Ordering, Frame
    <3>2. l \in Seq(known)
      BY <3>1 DEF Range
    <3>3. IsInjective(l) => Len(l) <= Cardinality(known)
      BY <1>1, <3>2, InjectiveLength, Counting
    <3> QED
      BY <3>1, <3>2, <3>3
  <2>2. \A p \in Range(l) :
          /\ Seat(p) \in Nat
          /\ Seat(p) < Cardinality(known) \/ (HostOrders = "any" /\ Seat(p) < MaxList)
    <3> TAKE p \in Range(l)
    <3>1. LastAt(l, p) \in 1..Len(l)
      BY <2>1, NamedLast
    <3>2. Cardinality(known) \in Nat /\ MaxList \in Nat
      BY <1>1, Counting, StoreAssumption
    <3> QED
      BY <2>1, <3>1, <3>2
  <2>3. players' = IF Range(l) \subseteq DOMAIN players
                   THEN [p \in DOMAIN players |-> IF p \in Range(l) THEN Seat(p) ELSE players[p]]
                   ELSE players
    BY <1>5 DEF OrderCommit
  <2> HIDE DEF Seat, l
  <2>4. /\ DOMAIN players' = DOMAIN players
        /\ \A p \in DOMAIN players :
             \/ players'[p] = players[p]
             \/ /\ players'[p] \in Nat
                /\ players'[p] < Cardinality(known) \/ (HostOrders = "any" /\ players'[p] < MaxList)
        /\ players' \in [DOMAIN players -> Nat]
    BY <1>1, <2>2, <2>3, Counting DEF TypeOK
  <2>5. TypeOK'
    BY <1>1, <1>5, <2>4 DEF OrderCommit, Done, TypeOK
  <2>6. NotYet'
    BY <1>2, <1>5 DEF OrderCommit, At, NotYet, StoreInv
  <2>7. TurnsDownloadable' /\ (ForeignKeys => AuthorsStay')
    BY <1>5, <2>4 DEF OrderCommit, StoreInv, TurnsDownloadable, AuthorsStay
  <2>8. SeatsInRange'
    BY <1>5, <2>4 DEF OrderCommit, StoreInv, SeatsInRange
  <2>9. FrameOK(r)'
    BY <1>1, <1>5 DEF OrderCommit, Done, Idle, TypeOK, FrameOK, At, Ordering, HasIndex
  <2>10. \A q \in Requests : FrameOK(q)'
    BY <1>1, <1>5, <2>9, OtherFrames, Counting DEF OrderCommit, Done, TypeOK
  <2> QED
    BY <2>5, <2>6, <2>7, <2>8, <2>10 DEF StoreInv
<1> QED
  BY <1>3, <1>4, <1>5 DEF SetTurnOrder

LEMMA StartInv ==
  ASSUME StoreInv, NEW r \in Requests, StartGame(r) \/ StartCount(r) \/ StartUpdate(r)
  PROVE  StoreInv'
<1> USE DEF game, files, news
<1>1. TypeOK /\ "start_count" \in Steps /\ "start_update" \in Steps
  BY DEF StoreInv, Steps
<1>2. ~At(r, "idle")
  BY DEF StartGame, StartCount, StartUpdate, At
<1>3. status # "none"
  BY <1>2 DEF StoreInv, NotYet
<1>4. CASE StartGame(r)
  <2>1. CASE HostInLobby(r)
    <3>1. Keep(r, "start_count", NoPlayer, 0)
      BY <1>4, <2>1 DEF StartGame
    <3>2. /\ req' \in [Requests -> Frame] /\ \A q \in Requests \ {r} : req'[q] = req[q]
          /\ req'[r].pc = "start_count"
      BY <1>1, <3>1, KeepFrame
    <3> QED
      BY <1>1, <1>3, <1>4, <3>2, ReadOnly
      DEF StartGame, TypeOK, FrameOK, At, Ordering, HasIndex
  <2>2. CASE ~HostInLobby(r)
    BY <1>2, <1>4, <2>2, GiveUpInv DEF StartGame
  <2> QED
    BY <2>1, <2>2
<1>5. CASE StartCount(r)
  <2>1. CASE PlayerCount < 2
    BY <1>2, <1>5, <2>1, GiveUpInv DEF StartCount
  <2>2. CASE ~(PlayerCount < 2)
    <3>1. Goto(r, "start_update")
      BY <1>5, <2>2 DEF StartCount
    <3>2. /\ req' \in [Requests -> Frame] /\ \A q \in Requests \ {r} : req'[q] = req[q]
          /\ req'[r].pc = "start_update"
      BY <1>1, <3>1, GotoFrame
    <3> QED
      BY <1>1, <1>3, <1>5, <3>2, ReadOnly
      DEF StartCount, TypeOK, FrameOK, At, Ordering, HasIndex
  <2> QED
    BY <2>1, <2>2
<1>6. CASE StartUpdate(r)
  <2>1. /\ req' \in [Requests -> Frame] /\ \A q \in Requests \ {r} : req'[q] = req[q]
        /\ FrameOK(r)'
    BY <1>1, <1>6, DoneFrame DEF StartUpdate
  <2>2. TypeOK'
    BY <1>1, <1>6, <2>1 DEF StartUpdate, TypeOK, Statuses
  <2>3. NotYet' /\ known # {}
    BY <1>3, <1>6 DEF StartUpdate, StoreInv, NotYet
  <2>4. Cardinality(known) \in Nat /\ Cardinality(known) # 0 /\ IsFiniteSet(known)
    BY <1>1, <2>3, Counting
  <2>5. TurnsDownloadable' /\ (ForeignKeys => AuthorsStay') /\ SeatsInRange'
    BY <1>6, <2>4 DEF StartUpdate, StoreInv, TurnsDownloadable, AuthorsStay, SeatsInRange
  <2>6. \A q \in Requests : FrameOK(q)'
    BY <1>6, <2>1, <2>4, OtherFrames DEF StartUpdate
  <2> QED
    BY <2>2, <2>3, <2>5, <2>6 DEF StoreInv
<1> QED
  BY <1>4, <1>5, <1>6

-----------------------------------------------------------------------------
\* Uploads.

LEMMA UploadGameInv == ASSUME StoreInv, NEW r \in Requests, UploadGame(r) PROVE StoreInv'
<1> USE DEF game, files, news
<1>1. TypeOK /\ req[r] \in Frame /\ FrameOK(r) /\ ~At(r, "idle")
  BY DEF StoreInv, TypeOK, UploadGame, At
<1>2. CASE status = "active" /\ req[r].ord = turnIndex
  <2>1. Keep(r, "upload_put", req[r].who, turnIndex)
    BY <1>2 DEF UploadGame
  <2>2. req[r].who \in Players /\ turnIndex \in Nat /\ "upload_put" \in Steps
    BY <1>1 DEF UploadGame, FrameOK, TypeOK, Steps
  <2>3. /\ req' \in [Requests -> Frame] /\ \A q \in Requests \ {r} : req'[q] = req[q]
        /\ req'[r].pc = "upload_put" /\ req'[r].who = req[r].who /\ req'[r].idx = turnIndex
    BY <1>1, <2>1, <2>2, KeepFrame
  <2>4. turnIndex < Cardinality(known)
    BY <1>1, <1>2, Counting DEF StoreInv, NotYet, SeatsInRange, TypeOK
  <2>5. FrameOK(r)'
    BY <2>2, <2>3, <2>4 DEF UploadGame, FrameOK, At, Ordering, HasIndex
  <2> QED
    BY <1>1, <1>2, <2>3, <2>5, ReadOnly DEF UploadGame, TypeOK
<1>3. CASE ~(status = "active" /\ req[r].ord = turnIndex)
  BY <1>1, <1>3, GiveUpInv DEF UploadGame
<1> QED
  BY <1>2, <1>3

LEMMA UploadPutInv == ASSUME StoreInv, NEW r \in Requests, UploadPut(r) PROVE StoreInv'
<1> USE DEF game, files, news
<1> DEFINE id == Cardinality(blobs) + 1
<1>1. /\ TypeOK /\ req[r] \in Frame /\ FrameOK(r) /\ status # "none"
      /\ IsFiniteSet(known) /\ IsFiniteSet(blobs)
  BY Counting DEF StoreInv, NotYet, TypeOK, UploadPut, At
<1>2. id \in Nat /\ blobs' = blobs \cup {id} /\ IsFiniteSet(blobs')
  BY <1>1, FS_CardinalityType, FS_AddElement DEF UploadPut
<1>3. req' = [req EXCEPT ![r].pc = "upload_insert", ![r].turn = id]
  BY DEF UploadPut
<1> HIDE DEF id
<1>4. /\ req' \in [Requests -> Frame] /\ \A q \in Requests \ {r} : req'[q] = req[q]
      /\ req'[r].pc = "upload_insert" /\ req'[r].turn = id
      /\ req'[r].who = req[r].who /\ req'[r].idx = req[r].idx
  <2>1. [[req[r] EXCEPT !.pc = "upload_insert"] EXCEPT !.turn = id] \in Frame
    BY <1>1, <1>2 DEF Frame, Steps
  <2>2. req' = [req EXCEPT ![r] = [[req[r] EXCEPT !.pc = "upload_insert"] EXCEPT !.turn = id]]
    BY <1>1, <1>3 DEF TypeOK
  <2> QED
    BY <1>1, <2>1, <2>2 DEF TypeOK, Frame
<1>5. TypeOK'
  BY <1>1, <1>2, <1>4 DEF UploadPut, TypeOK
<1>6. NotYet' /\ TurnsDownloadable' /\ (ForeignKeys => AuthorsStay') /\ SeatsInRange'
  BY <1>1, <1>2 DEF UploadPut, StoreInv, NotYet, TurnsDownloadable, AuthorsStay, SeatsInRange
<1>7. FrameOK(r)'
  BY <1>1, <1>2, <1>4 DEF UploadPut, FrameOK, At, Ordering, HasIndex
<1>8. \A q \in Requests : FrameOK(q)'
  BY <1>1, <1>2, <1>4, <1>7, OtherFrames DEF UploadPut
<1> QED
  BY <1>5, <1>6, <1>8 DEF StoreInv

LEMMA UploadInsertInv == ASSUME StoreInv, NEW r \in Requests, UploadInsert(r) PROVE StoreInv'
<1> USE DEF game, files, news
<1>1. /\ TypeOK /\ req[r] \in Frame /\ FrameOK(r) /\ ~At(r, "idle") /\ status # "none"
      /\ IsFiniteSet(known)
  BY Counting DEF StoreInv, NotYet, TypeOK, UploadInsert, At
<1>2. CASE ForeignKeys /\ req[r].who \notin DOMAIN players
  BY <1>1, <1>2, GiveUpInv DEF UploadInsert
<1>3. CASE ~(ForeignKeys /\ req[r].who \notin DOMAIN players)
  <2> DEFINE t == [id |-> req[r].turn, player |-> req[r].who]
  <2>1. Goto(r, "upload_count") /\ turns' = turns \cup {t}
    BY <1>3 DEF UploadInsert
  <2>2. /\ req[r].who \in Players /\ req[r].idx < Cardinality(known)
        /\ req[r].turn \in blobs /\ req[r].turn \in Nat
    BY <1>1 DEF UploadInsert, FrameOK, HasIndex, At, Frame
  <2>3. t \in Turn /\ t.id = req[r].turn /\ t.player = req[r].who
    BY <2>2 DEF Turn
  <2> HIDE DEF t
  <2>4. /\ req' \in [Requests -> Frame] /\ \A q \in Requests \ {r} : req'[q] = req[q]
        /\ req'[r].pc = "upload_count" /\ req'[r].who = req[r].who /\ req'[r].idx = req[r].idx
    <3>1. "upload_count" \in Steps
      BY DEF Steps
    <3> QED
      BY <1>1, <2>1, <3>1, GotoFrame
  <2>5. TypeOK'
    BY <1>1, <2>1, <2>3, <2>4 DEF UploadInsert, TypeOK
  <2>6. NotYet' /\ SeatsInRange'
    BY <1>1 DEF UploadInsert, StoreInv, NotYet, SeatsInRange
  <2>7. TurnsDownloadable' /\ (ForeignKeys => AuthorsStay')
    BY <1>3, <2>1, <2>2, <2>3 DEF UploadInsert, StoreInv, TurnsDownloadable, AuthorsStay
  <2>8. FrameOK(r)'
    <3>1. \E u \in turns' : u.player = req'[r].who
      BY <2>1, <2>3, <2>4
    <3> QED
      BY <2>2, <2>4, <3>1 DEF UploadInsert, FrameOK, At, Ordering, HasIndex
  <2>9. \A q \in Requests : FrameOK(q)'
    BY <1>1, <2>1, <2>4, <2>8, OtherFrames DEF UploadInsert
  <2> QED
    BY <2>5, <2>6, <2>7, <2>9 DEF StoreInv
<1> QED
  BY <1>2, <1>3

\* The row just inserted keeps its author among the players, so the count is not 0.
LEMMA UploadCountInv == ASSUME StoreInv, NEW r \in Requests, UploadCount(r) PROVE StoreInv'
<1> USE DEF game, files, news
<1>1. TypeOK /\ req[r] \in Frame /\ FrameOK(r) /\ status # "none"
  BY DEF StoreInv, NotYet, TypeOK, UploadCount, At
<1>2. PlayerCount \in Nat /\ PlayerCount <= Cardinality(known) /\ (PlayerCount = 0 <=> DOMAIN players = {})
  BY <1>1, Counting
<1>3. ForeignKeys => PlayerCount > 0
  BY <1>1, <1>2 DEF UploadCount, FrameOK, StoreInv, AuthorsStay
<1>4. /\ req' \in [Requests -> Frame] /\ \A q \in Requests \ {r} : req'[q] = req[q]
      /\ req'[r].pc = "upload_advance" /\ req'[r].count = PlayerCount
      /\ req'[r].who = req[r].who /\ req'[r].idx = req[r].idx
  <2>1. [[req[r] EXCEPT !.pc = "upload_advance"] EXCEPT !.count = PlayerCount] \in Frame
    BY <1>1, <1>2 DEF Frame, Steps
  <2>2. req' = [req EXCEPT ![r] = [[req[r] EXCEPT !.pc = "upload_advance"] EXCEPT !.count = PlayerCount]]
    BY <1>1 DEF UploadCount, TypeOK
  <2> QED
    BY <1>1, <2>1, <2>2 DEF TypeOK, Frame
<1>5. FrameOK(r)'
  BY <1>1, <1>2, <1>3, <1>4 DEF UploadCount, FrameOK, At, Ordering, HasIndex
<1> QED
  BY <1>1, <1>4, <1>5, ReadOnly DEF UploadCount, TypeOK

LEMMA UploadAdvanceInv == ASSUME StoreInv, NEW r \in Requests, UploadAdvance(r) PROVE StoreInv'
<1> USE DEF game, files, news
<1>1. CASE req[r].count = 0
  BY <1>1, GiveUpInv DEF UploadAdvance, At
<1>2. CASE req[r].count # 0
  <2>1. /\ TypeOK /\ req[r] \in Frame /\ FrameOK(r) /\ status # "none"
        /\ IsFiniteSet(known) /\ Cardinality(known) \in Nat
    BY Counting DEF StoreInv, NotYet, TypeOK, UploadAdvance, At
  <2>2. req[r].count \in Nat \ {0} /\ req[r].idx \in Nat /\ req[r].count <= Cardinality(known)
    BY <1>2, <2>1 DEF UploadAdvance, FrameOK, Frame, At
  <2>3. NextIndex(r) \in 0..(Cardinality(known) - 1)
    <3>1. NextIndex(r) \in 0..(req[r].count - 1)
      BY <2>2 DEF NextIndex
    <3> QED
      BY <2>1, <2>2, <3>1
  <2>4. NextIndex(r) \in Nat /\ NextIndex(r) < Cardinality(known) /\ turnIndex' = NextIndex(r)
    BY <1>2, <2>1, <2>3 DEF UploadAdvance
  <2>5. /\ req' \in [Requests -> Frame] /\ \A q \in Requests \ {r} : req'[q] = req[q]
        /\ req'[r].pc = "upload_mail"
    <3>1. Keep(r, "upload_mail", NoPlayer, NextIndex(r)) /\ "upload_mail" \in Steps
      BY <1>2 DEF UploadAdvance, Steps
    <3> QED
      BY <2>1, <2>4, <3>1, KeepFrame
  <2>6. TypeOK'
    BY <2>1, <2>4, <2>5 DEF UploadAdvance, TypeOK
  <2>7. NotYet' /\ TurnsDownloadable' /\ (ForeignKeys => AuthorsStay')
    BY <2>1 DEF UploadAdvance, StoreInv, NotYet, TurnsDownloadable, AuthorsStay
  <2>8. SeatsInRange'
    BY <2>1, <2>3, <2>4 DEF UploadAdvance, StoreInv, SeatsInRange
  <2>9. FrameOK(r)'
    BY <2>5 DEF FrameOK, At, Ordering, HasIndex
  <2>10. \A q \in Requests : FrameOK(q)'
    BY <2>1, <2>5, <2>9, OtherFrames DEF UploadAdvance
  <2> QED
    BY <2>6, <2>7, <2>8, <2>10 DEF StoreInv
<1> QED
  BY <1>1, <1>2

LEMMA UploadInv == ASSUME StoreInv, NEW r \in Requests, Upload(r) PROVE StoreInv'
<1> USE DEF game, files, news
<1>1. TypeOK /\ ~At(r, "idle") => status # "none"
  BY DEF StoreInv, NotYet
<1>2. CASE UploadMail(r)
  <2>1. TypeOK /\ status # "none" /\ "upload_tell" \in Steps
    BY <1>1, <1>2 DEF UploadMail, At, StoreInv, Steps
  <2>2. /\ req' \in [Requests -> Frame] /\ \A q \in Requests \ {r} : req'[q] = req[q]
        /\ req'[r].pc = "upload_tell"
    BY <1>2, <2>1, GotoFrame DEF UploadMail
  <2>3. told' \subseteq Players
    BY <1>2, <2>1 DEF UploadMail, Holders, TypeOK
  <2>4. FrameOK(r)'
    BY <2>2 DEF FrameOK, At, Ordering, HasIndex
  <2> QED
    BY <1>2, <2>1, <2>2, <2>3, <2>4, ReadOnly DEF UploadMail, TypeOK
<1>3. CASE UploadTell(r)
  <2>1. TypeOK /\ status # "none"
    BY <1>1, <1>3 DEF UploadTell, At, StoreInv
  <2>2. told' \subseteq Players
    BY <1>3, <2>1 DEF UploadTell, Holders, TypeOK
  <2> QED
    BY <1>3, <2>1, <2>2, DoneFrame, ReadOnly DEF UploadTell, TypeOK
<1> QED
  BY <1>2, <1>3, PlayerByTokenInv, UploadGameInv, UploadPutInv, UploadInsertInv,
     UploadCountInv, UploadAdvanceInv DEF Upload

-----------------------------------------------------------------------------
\* Leaves.

LEMMA LeaveGameInv == ASSUME StoreInv, NEW r \in Requests, LeaveGame(r) PROVE StoreInv'
<1> USE DEF game, files, news
<1>1. /\ TypeOK /\ req[r] \in Frame /\ FrameOK(r) /\ status # "none" /\ turnIndex \in Nat
  BY DEF StoreInv, NotYet, TypeOK, LeaveGame, At
<1>2. /\ req' \in [Requests -> Frame] /\ \A q \in Requests \ {r} : req'[q] = req[q]
      /\ req'[r].pc = "leave_delete" /\ req'[r].who = req[r].who /\ req'[r].idx = turnIndex
  <2> DEFINE f == [[[req[r] EXCEPT !.pc = "leave_delete"] EXCEPT !.active = (status = "active")]
                     EXCEPT !.idx = turnIndex]
  <2>1. f \in Frame /\ f.pc = "leave_delete" /\ f.who = req[r].who /\ f.idx = turnIndex
    BY <1>1 DEF Frame, Steps
  <2>2. req' = [req EXCEPT ![r] = f]
    BY <1>1 DEF LeaveGame, TypeOK
  <2> HIDE DEF f
  <2> QED
    BY <1>1, <2>1, <2>2 DEF TypeOK
<1>3. turnIndex < Cardinality(known)
  BY <1>1, Counting DEF StoreInv, NotYet, SeatsInRange
<1>4. FrameOK(r)'
  BY <1>1, <1>2, <1>3 DEF LeaveGame, FrameOK, At, Ordering, HasIndex
<1> QED
  BY <1>1, <1>2, <1>4, ReadOnly DEF LeaveGame, TypeOK

\* An author's row stays: the reference forbids the delete.
LEMMA LeaveDeleteInv == ASSUME StoreInv, NEW r \in Requests, LeaveDelete(r) PROVE StoreInv'
<1> USE DEF game, files, news
<1>1. /\ TypeOK /\ req[r] \in Frame /\ FrameOK(r) /\ ~At(r, "idle") /\ status # "none"
      /\ IsFiniteSet(known)
  BY Counting DEF StoreInv, NotYet, TypeOK, LeaveDelete, At
<1>2. CASE ForeignKeys /\ \E t \in turns : t.player = req[r].who
  BY <1>1, <1>2, GiveUpInv DEF LeaveDelete
<1>3. CASE ~(ForeignKeys /\ \E t \in turns : t.player = req[r].who)
  <2>1. Goto(r, "leave_count") /\ players' = Restrict(players, DOMAIN players \ {req[r].who})
    BY <1>3 DEF LeaveDelete
  <2>2. /\ DOMAIN players' = DOMAIN players \ {req[r].who}
        /\ \A p \in DOMAIN players' : players'[p] = players[p]
        /\ players' \in [DOMAIN players' -> Nat]
    BY <1>1, <2>1 DEF Restrict, TypeOK
  <2>3. /\ req' \in [Requests -> Frame] /\ \A q \in Requests \ {r} : req'[q] = req[q]
        /\ req'[r].pc = "leave_count" /\ req'[r].who = req[r].who /\ req'[r].idx = req[r].idx
    <3>1. "leave_count" \in Steps
      BY DEF Steps
    <3> QED
      BY <1>1, <2>1, <3>1, GotoFrame
  <2>4. TypeOK'
    BY <1>1, <2>2, <2>3 DEF LeaveDelete, TypeOK
  <2>5. NotYet' /\ TurnsDownloadable'
    BY <1>1 DEF LeaveDelete, StoreInv, NotYet, TurnsDownloadable
  <2>6. ForeignKeys => AuthorsStay'
    BY <1>3, <2>2 DEF LeaveDelete, StoreInv, AuthorsStay
  <2>7. SeatsInRange'
    BY <2>2 DEF LeaveDelete, StoreInv, SeatsInRange
  <2>8. FrameOK(r)'
    BY <1>1, <2>3 DEF LeaveDelete, FrameOK, At, Ordering, HasIndex
  <2>9. \A q \in Requests : FrameOK(q)'
    BY <1>1, <2>3, <2>8, OtherFrames DEF LeaveDelete
  <2> QED
    BY <2>4, <2>5, <2>6, <2>7, <2>9 DEF StoreInv
<1> QED
  BY <1>2, <1>3

LEMMA LeaveCountInv == ASSUME StoreInv, NEW r \in Requests, LeaveCount(r) PROVE StoreInv'
<1> USE DEF game, files, news
<1>1. TypeOK /\ req[r] \in Frame /\ FrameOK(r) /\ status # "none"
  BY DEF StoreInv, NotYet, TypeOK, LeaveCount, At
<1>2. PICK pc \in {"leave_finish", "leave_shift"} : Goto(r, pc)
  BY DEF LeaveCount
<1>3. pc \in Steps
  BY DEF Steps
<1>4. /\ req' \in [Requests -> Frame] /\ \A q \in Requests \ {r} : req'[q] = req[q]
      /\ req'[r].pc = pc /\ req'[r].who = req[r].who /\ req'[r].idx = req[r].idx
  BY <1>1, <1>2, <1>3, GotoFrame
<1>5. FrameOK(r)'
  BY <1>1, <1>4 DEF LeaveCount, FrameOK, At, Ordering, HasIndex
<1> QED
  BY <1>1, <1>4, <1>5, ReadOnly DEF LeaveCount, TypeOK

LEMMA LeaveFinishInv == ASSUME StoreInv, NEW r \in Requests, LeaveFinish(r) PROVE StoreInv'
<1> USE DEF game, files, news
<1>1. TypeOK /\ status # "none" /\ IsFiniteSet(known) /\ "leave_end" \in Steps
  BY Counting DEF StoreInv, NotYet, LeaveFinish, At, Steps
<1>2. /\ req' \in [Requests -> Frame] /\ \A q \in Requests \ {r} : req'[q] = req[q]
      /\ req'[r].pc = "leave_end"
  BY <1>1, KeepFrame DEF LeaveFinish
<1>3. TypeOK'
  BY <1>1, <1>2 DEF LeaveFinish, TypeOK, Statuses
<1>4. NotYet' /\ TurnsDownloadable' /\ (ForeignKeys => AuthorsStay') /\ SeatsInRange'
  BY <1>1 DEF LeaveFinish, StoreInv, NotYet, TurnsDownloadable, AuthorsStay, SeatsInRange
<1>5. FrameOK(r)'
  BY <1>2 DEF FrameOK, At, Ordering, HasIndex
<1>6. \A q \in Requests : FrameOK(q)'
  BY <1>1, <1>2, <1>5, OtherFrames DEF LeaveFinish
<1> QED
  BY <1>3, <1>4, <1>6 DEF StoreInv

LEMMA LeaveShiftInv == ASSUME StoreInv, NEW r \in Requests, LeaveShift(r) PROVE StoreInv'
<1> USE DEF game, files, news
<1>1. /\ TypeOK /\ req[r] \in Frame /\ FrameOK(r) /\ status # "none"
      /\ IsFiniteSet(known) /\ Cardinality(known) \in Nat /\ req[r].ord \in Nat
  BY Counting DEF StoreInv, NotYet, TypeOK, LeaveShift, At, Frame
<1>2. /\ DOMAIN players' = DOMAIN players
      /\ \A p \in DOMAIN players :
           players'[p] = IF players[p] > req[r].ord THEN players[p] - 1 ELSE players[p]
  BY DEF LeaveShift
<1>3. \A p \in DOMAIN players : players'[p] \in Nat /\ players'[p] <= players[p]
  BY <1>1, <1>2 DEF TypeOK
<1>4. /\ req' \in [Requests -> Frame] /\ \A q \in Requests \ {r} : req'[q] = req[q]
      /\ FrameOK(r)'
  <2>1. CASE req[r].active /\ req[r].idx > req[r].ord
    <3>1. Goto(r, "leave_index") /\ "leave_index" \in Steps
      BY <2>1 DEF LeaveShift, Steps
    <3>2. /\ req' \in [Requests -> Frame] /\ \A q \in Requests \ {r} : req'[q] = req[q]
          /\ req'[r].pc = "leave_index" /\ req'[r].who = req[r].who
          /\ req'[r].idx = req[r].idx /\ req'[r].ord = req[r].ord
      BY <1>1, <3>1, GotoFrame
    <3>3. FrameOK(r)'
      BY <1>1, <2>1, <3>2 DEF LeaveShift, FrameOK, At, Ordering, HasIndex
    <3> QED
      BY <3>2, <3>3
  <2>2. CASE ~(req[r].active /\ req[r].idx > req[r].ord)
    BY <1>1, <2>2, DoneFrame DEF LeaveShift
  <2> QED
    BY <2>1, <2>2
<1>5. players' \in [DOMAIN players' -> Nat]
  BY <1>2, <1>3 DEF LeaveShift
<1>6. TypeOK'
  BY <1>1, <1>2, <1>4, <1>5 DEF LeaveShift, TypeOK
<1>7. NotYet' /\ TurnsDownloadable' /\ (ForeignKeys => AuthorsStay')
  BY <1>1, <1>2 DEF LeaveShift, StoreInv, NotYet, TurnsDownloadable, AuthorsStay
<1>8. SeatsInRange'
  <2>1. SeatsInRange /\ MaxList \in Nat
    BY StoreAssumption DEF StoreInv
  <2>2. \A p \in DOMAIN players :
          /\ players'[p] >= 0
          /\ players'[p] < Cardinality(known) \/ (HostOrders = "any" /\ players'[p] < MaxList)
    <3> TAKE p \in DOMAIN players
    <3>1. players[p] < Cardinality(known) \/ (HostOrders = "any" /\ players[p] < MaxList)
      BY <2>1 DEF SeatsInRange
    <3>2. players[p] \in Nat /\ players'[p] \in Nat /\ players'[p] <= players[p]
      BY <1>1, <1>3 DEF TypeOK
    <3> QED
      BY <1>1, <2>1, <3>1, <3>2
  <2>3. UNCHANGED <<known, turnIndex>>
    BY DEF LeaveShift
  <2> QED
    BY <1>2, <2>1, <2>2, <2>3 DEF SeatsInRange
<1>9. \A q \in Requests : FrameOK(q)'
  BY <1>1, <1>4, OtherFrames DEF LeaveShift
<1> QED
  BY <1>6, <1>7, <1>8, <1>9 DEF StoreInv

LEMMA LeaveIndexInv == ASSUME StoreInv, NEW r \in Requests, LeaveIndex(r) PROVE StoreInv'
<1> USE DEF game, files, news
<1>1. /\ TypeOK /\ req[r] \in Frame /\ FrameOK(r) /\ status # "none"
      /\ IsFiniteSet(known) /\ Cardinality(known) \in Nat
  BY Counting DEF StoreInv, NotYet, TypeOK, LeaveIndex, At
<1>2. turnIndex' \in 0..(Cardinality(known) - 1)
  BY <1>1 DEF LeaveIndex, FrameOK, HasIndex, At, Frame
<1>3. /\ req' \in [Requests -> Frame] /\ \A q \in Requests \ {r} : req'[q] = req[q]
      /\ FrameOK(r)'
  BY <1>1, DoneFrame DEF LeaveIndex
<1>4. TypeOK'
  BY <1>1, <1>2, <1>3 DEF LeaveIndex, TypeOK
<1>5. NotYet' /\ TurnsDownloadable' /\ (ForeignKeys => AuthorsStay') /\ SeatsInRange'
  BY <1>1, <1>2 DEF LeaveIndex, StoreInv, NotYet, TurnsDownloadable, AuthorsStay, SeatsInRange
<1>6. \A q \in Requests : FrameOK(q)'
  BY <1>1, <1>3, OtherFrames DEF LeaveIndex
<1> QED
  BY <1>4, <1>5, <1>6 DEF StoreInv

LEMMA LeaveInv == ASSUME StoreInv, NEW r \in Requests, Leave(r) PROVE StoreInv'
<1> USE DEF game, files, news
<1>1. CASE LeaveEnd(r)
  <2>1. TypeOK /\ status # "none"
    BY <1>1 DEF LeaveEnd, At, StoreInv, NotYet
  <2> QED
    BY <1>1, <2>1, DoneFrame, ReadOnly DEF LeaveEnd, TypeOK
<1> QED
  BY <1>1, PlayerByTokenInv, LeaveGameInv, LeaveDeleteInv, LeaveCountInv, LeaveFinishInv,
     LeaveShiftInv, LeaveIndexInv DEF Leave

-----------------------------------------------------------------------------
\* StoreInv is an invariant of the server, however many requests it serves at a time.
THEOREM StoreInvariance == Spec => []StoreInv
<1>1. Init => StoreInv
  BY InitInv
<1>2. StoreInv /\ [Next]_vars => StoreInv'
  <2> SUFFICES ASSUME StoreInv, [Next]_vars PROVE StoreInv'
    OBVIOUS
  <2>1. CASE CreateGame
    BY <2>1, CreateGameInv
  <2>2. ASSUME NEW r \in Requests, Join(r) PROVE StoreInv'
    BY <2>2, JoinInv
  <2>3. ASSUME NEW r \in Requests, SetTurnOrder(r) PROVE StoreInv'
    BY <2>3, SetTurnOrderInv
  <2>4. ASSUME NEW r \in Requests, Start(r) PROVE StoreInv'
    BY <2>4, PlayerByTokenInv, StartInv DEF Start
  <2>5. ASSUME NEW r \in Requests, Upload(r) PROVE StoreInv'
    BY <2>5, UploadInv
  <2>6. ASSUME NEW r \in Requests, Leave(r) PROVE StoreInv'
    BY <2>6, LeaveInv
  <2>7. ASSUME NEW r \in Requests, Fail(r) PROVE StoreInv'
    BY <2>7, GiveUpInv DEF Fail
  <2>8. CASE UNCHANGED vars
    BY <2>8 DEF vars, StoreInv, TypeOK, NotYet, TurnsDownloadable, AuthorsStay, SeatsInRange,
       FrameOK, At, Ordering, HasIndex
  <2> QED
    BY <2>1, <2>2, <2>3, <2>4, <2>5, <2>6, <2>7, <2>8 DEF Next
<1> QED
  BY <1>1, <1>2, PTL DEF Spec

\* Every variable keeps its type (the rows and frames the handlers work with).
THEOREM TypeCorrect == Spec => []TypeOK
<1>1. StoreInv => TypeOK
  BY DEF StoreInv
<1> QED
  BY <1>1, StoreInvariance, PTL

\* No row of turns without its blob: UploadTurn stores before it inserts, so GET
\* download never finds a dangling key, wherever a handler dies.
THEOREM BlobsBeforeRows == Spec => []TurnsDownloadable
<1>1. StoreInv => TurnsDownloadable
  BY DEF StoreInv
<1> QED
  BY <1>1, StoreInvariance, PTL

\* Stale reads or not, no seat goes below the first or past those handed out by joins and by
\* the lists of the host, and the turn index stays within those handed out by joins.
THEOREM SeatsStayInRange == Spec => []SeatsInRange
<1>1. StoreInv => SeatsInRange
  BY DEF StoreInv
<1> QED
  BY <1>1, StoreInvariance, PTL

\* With the foreign keys enforced, UploadTurn never divides by zero.
THEOREM NeverDividesByZero == ASSUME ForeignKeys PROVE Spec => []NoDivideByZero
<1>1. StoreInv => NoDivideByZero
  BY DEF StoreInv, FrameOK, NoDivideByZero
<1> QED
  BY <1>1, StoreInvariance, PTL
=============================================================================
