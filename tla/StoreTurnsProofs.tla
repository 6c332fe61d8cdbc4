-------------------------- MODULE StoreTurnsProofs --------------------------
(***************************************************************************)
(* Served one request at a time, with none of them dying and orders of     *)
(* everybody only, Store keeps SerialInv and implements TurnGame.          *)
(*                                                                         *)
(* First what the rows make of the seats, whatever their number; then one  *)
(* lemma per handler: it keeps AloneInv, and it is a step of TurnGame or a *)
(* stutter.                                                                *)
(***************************************************************************)
EXTENDS StoreTurns, StoreProofs, SequenceTheorems

\* A row of n seats has as many seats before one as its number says.
LEMMA SeatsBefore ==
  ASSUME NEW S, IsFiniteSet(S), NEW f \in [S -> Nat], IsInjective(f),
         Range(f) = 0..(Cardinality(S) - 1), NEW p \in S
  PROVE  Cardinality({q \in S : f[q] < f[p]}) = f[p]
<1> DEFINE B == {q \in S : f[q] < f[p]}
           T == 0..(f[p] - 1)
           h == [q \in B |-> f[q]]
<1>1. f[p] \in Nat /\ f[p] \in 0..(Cardinality(S) - 1) /\ Cardinality(S) \in Nat
  BY FS_CardinalityType DEF Range
<1>2. IsFiniteSet(B)
  BY FS_Subset
<1>3. h \in Injection(B, T)
  <2>1. \A q \in B : f[q] \in T
    BY <1>1
  <2>2. \A a, b \in B : h[a] = h[b] => a = b
    BY DEF IsInjective
  <2> QED
    BY <2>1, <2>2 DEF Injection, IsInjective
<1>4. \A t \in T : \E q \in B : h[q] = t
  <2> TAKE t \in T
  <2>1. t \in Range(f) /\ t < f[p]
    BY <1>1
  <2>2. PICK q \in S : f[q] = t
    BY <2>1 DEF Range
  <2> QED
    BY <2>1, <2>2
<1>5. h \in Bijection(B, T)
  BY <1>3, <1>4 DEF Bijection, Surjection, Injection
<1>6. Cardinality(T) = Cardinality(B)
  BY <1>2, <1>5, FS_Bijection DEF ExistsBijection
<1>7. Cardinality(T) = f[p]
  <2>1. 0 \in Int /\ f[p] - 1 \in Int
    BY <1>1
  <2>2. Cardinality(T) = IF 0 > f[p] - 1 THEN 0 ELSE f[p] - 1 - 0 + 1
    BY <2>1, FS_Interval, Zenon
  <2> QED
    BY <1>1, <2>2
<1> QED
  BY <1>6, <1>7

\* f puts the rows in the order they are in.
Agree(rows, f) == \A p, q \in DOMAIN rows : rows[q] < rows[p] <=> f[q] < f[p]

\* The row has everybody at the place f says.
PutAt(row, f) ==
  LET n == Cardinality(DOMAIN f)
  IN /\ n \in Nat
     /\ row \in [1..n -> DOMAIN f]
     /\ \A i \in 1..n : f[row[i]] = i - 1
     /\ \A p \in DOMAIN f : f[p] + 1 \in 1..n /\ row[f[p] + 1] = p

\* Rows whose seats come in the order of f, 0..n-1: InOrder puts p at f[p].
LEMMA RowInOrder ==
  ASSUME NEW S, IsFiniteSet(S), NEW g \in [S -> Nat], NEW f \in [S -> Nat], Packed(f), Agree(g, f)
  PROVE  PutAt(InOrder(g), f)
<1> USE DEF Packed, Agree
<1> PICK n : n = Cardinality(S)
  OBVIOUS
<1> PICK row : row = InOrder(g)
  OBVIOUS
<1>0. Range(f) = 0..(n - 1)
  OBVIOUS
<1>1. n \in Nat
  BY FS_CardinalityType
<1>2. Before(g) = f
  <2>1. \A p \in S : {q \in S : g[q] < g[p]} = {q \in S : f[q] < f[p]}
    OBVIOUS
  <2>2. \A p \in S : Cardinality({q \in S : g[q] < g[p]}) = f[p]
    BY <2>1, SeatsBefore
  <2> QED
    BY <2>2 DEF Before
<1>3. row = [i \in 1..n |-> CHOOSE p \in S : f[p] = i - 1]
  BY <1>2 DEF InOrder
<1>4. ASSUME NEW i \in 1..n PROVE row[i] \in S /\ f[row[i]] = i - 1
  <2>1. i - 1 \in Range(f)
    BY <1>0, <1>1
  <2>2. \E p \in S : f[p] = i - 1
    BY <2>1 DEF Range
  <2> QED
    BY <1>3, <2>2
<1>5. ASSUME NEW p \in S PROVE f[p] + 1 \in 1..n /\ row[f[p] + 1] = p
  <2>1. f[p] \in 0..(n - 1) /\ f[p] \in Nat
    BY <1>0 DEF Range
  <2>2. f[p] + 1 \in 1..n /\ (f[p] + 1) - 1 = f[p]
    BY <1>1, <2>1
  <2>3. row[f[p] + 1] \in S /\ f[row[f[p] + 1]] = f[p]
    BY <1>4, <2>2
  <2> QED
    BY <2>2, <2>3 DEF IsInjective
<1>6. row \in [1..n -> S]
  BY <1>3, <1>4
<1> QED
  BY <1>1, <1>4, <1>5, <1>6 DEF PutAt

\* What InOrder makes of the rows depends on their order alone.
LEMMA SameOrder ==
  ASSUME NEW S, NEW g \in [S -> Nat], NEW h \in [S -> Nat], Agree(g, h)
  PROVE  InOrder(g) = InOrder(h)
<1> USE DEF Agree
<1>1. \A p \in S : {q \in S : g[q] < g[p]} = {q \in S : h[q] < h[p]}
  OBVIOUS
<1>2. \A p \in S : Cardinality({q \in S : g[q] < g[p]}) = Cardinality({q \in S : h[q] < h[p]})
  BY <1>1
<1>3. Before(g) = Before(h)
  BY <1>2 DEF Before
<1>4. PICK b : b = Before(g)
  OBVIOUS
<1>5. InOrder(g) = [i \in 1..Cardinality(S) |-> CHOOSE p \in S : b[p] = i - 1]
  BY <1>4 DEF InOrder
<1>6. InOrder(h) = [i \in 1..Cardinality(S) |-> CHOOSE p \in S : b[p] = i - 1]
  BY <1>3, <1>4 DEF InOrder
<1> QED
  BY <1>5, <1>6

\* Closing the gap at i.
LEMMA GapCloses ==
  ASSUME NEW S, IsFiniteSet(S), NEW g \in [S -> Nat], NEW i \in Nat, Gapped(g, i),
         NEW f \in [S -> Int], \A p \in S : f[p] = IF g[p] > i THEN g[p] - 1 ELSE g[p]
  PROVE  f \in [S -> Nat] /\ Packed(f) /\ Agree(g, f)
<1> USE DEF Gapped
<1>1. Cardinality(S) \in Nat
  BY FS_CardinalityType
<1>2. \A p \in S : g[p] \in 0..Cardinality(S) /\ g[p] # i /\ g[p] \in Nat
  BY DEF Range
<1>3. i <= Cardinality(S)
  BY <1>1
<1>4. f \in [S -> Nat]
  BY <1>2
<1>5. \A p, q \in S : g[q] < g[p] <=> f[q] < f[p]
  BY <1>2
<1>6. IsInjective(f)
  <2> SUFFICES ASSUME NEW p \in S, NEW q \in S, f[p] = f[q] PROVE g[p] = g[q]
    BY DEF IsInjective
  <2> QED
    BY <1>2
<1>7. \A p \in S : f[p] \in 0..(Cardinality(S) - 1)
  BY <1>1, <1>2, <1>3
<1>8. ASSUME NEW k \in 0..(Cardinality(S) - 1) PROVE \E p \in S : f[p] = k
  <2>1. CASE k < i
    <3>1. k \in Range(g)
      BY <1>1, <2>1
    <3>2. PICK p \in S : g[p] = k
      BY <3>1 DEF Range
    <3> QED
      BY <2>1, <3>2
  <2>2. CASE ~(k < i)
    <3>1. k + 1 \in Range(g)
      BY <1>1, <2>2
    <3>2. PICK p \in S : g[p] = k + 1
      BY <3>1 DEF Range
    <3>3. k + 1 > i /\ (k + 1) - 1 = k
      BY <1>1, <2>2
    <3> QED
      BY <3>2, <3>3
  <2> QED
    BY <2>1, <2>2
<1>9. Range(f) = 0..(Cardinality(S) - 1)
  BY <1>4, <1>7, <1>8 DEF Range
<1> QED
  BY <1>4, <1>5, <1>6, <1>9 DEF Packed, Agree

LEMMA PackedInOrder ==
  ASSUME NEW S, IsFiniteSet(S), NEW g \in [S -> Nat], Packed(g)
  PROVE  PutAt(InOrder(g), g)
<1>1. Agree(g, g)
  BY DEF Agree
<1> QED
  BY <1>1, RowInOrder

LEMMA RowIsSeq ==
  ASSUME NEW T, NEW n \in Nat, NEW row \in [1..n -> T]
  PROVE  row \in Seq(T) /\ Len(row) = n
  OBVIOUS

\* A row at the end.
LEMMA RowGrows ==
  ASSUME NEW S, IsFiniteSet(S), NEW g \in [S -> Nat], Packed(g),
         NEW p, p \notin S, NEW R, R = S \cup {p},
         NEW h \in [R -> Nat], h[p] = Cardinality(S), \A q \in S : h[q] = g[q]
  PROVE  /\ Cardinality(S) \in Nat /\ IsFiniteSet(R) /\ Cardinality(R) = Cardinality(S) + 1
         /\ Packed(h)
         /\ InOrder(h) = Append(InOrder(g), p)
<1>1. /\ Cardinality(S) \in Nat /\ IsFiniteSet(R)
      /\ Cardinality(R) = Cardinality(S) + 1
  BY FS_CardinalityType, FS_AddElement
<1>2. \A q \in S : g[q] < Cardinality(S)
  <2>1. \A q \in S : g[q] \in 0..(Cardinality(S) - 1)
    BY DEF Range, Packed
  <2> QED
    BY <1>1, <2>1
<1>3. IsInjective(h)
  BY <1>1, <1>2 DEF IsInjective, Packed
<1>4. Range(h) = 0..(Cardinality(R) - 1)
  <2>1. Range(h) = Range(g) \cup {Cardinality(S)}
    BY DEF Range
  <2>2. 0..(Cardinality(R) - 1) = 0..(Cardinality(S) - 1) \cup {Cardinality(S)}
    BY <1>1
  <2> QED
    BY <2>1, <2>2 DEF Packed
<1>5. Packed(h)
  BY <1>3, <1>4 DEF Packed
<1>6. PutAt(InOrder(g), g) /\ PutAt(InOrder(h), h)
  BY <1>1, <1>5, PackedInOrder
<1>7. InOrder(g) \in [1..Cardinality(S) -> S] /\ InOrder(h) \in [1..Cardinality(R) -> R]
  BY <1>6 DEF PutAt
<1>8. InOrder(h)[Cardinality(S) + 1] = p
  BY <1>6 DEF PutAt
<1>9. \A i \in 1..Cardinality(S) : InOrder(h)[i] = InOrder(g)[i]
  <2> TAKE i \in 1..Cardinality(S)
  <2>1. InOrder(g)[i] \in S /\ g[InOrder(g)[i]] = i - 1
    BY <1>6 DEF PutAt
  <2>2. InOrder(h)[(i - 1) + 1] = InOrder(g)[i]
    BY <1>6, <2>1 DEF PutAt
  <2> QED
    BY <1>1, <2>2
<1>10. InOrder(h) = Append(InOrder(g), p)
  <2>1. /\ InOrder(g) \in Seq(R) /\ Len(InOrder(g)) = Cardinality(S)
        /\ InOrder(h) \in Seq(R) /\ Len(InOrder(h)) = Cardinality(S) + 1 /\ p \in R
    <3>1. InOrder(g) \in [1..Cardinality(S) -> R] /\ InOrder(h) \in [1..(Cardinality(S) + 1) -> R] /\ p \in R
      BY <1>1, <1>7
    <3>2. InOrder(g) \in Seq(R) /\ Len(InOrder(g)) = Cardinality(S)
      BY <1>1, <3>1, RowIsSeq
    <3>3. Cardinality(S) + 1 \in Nat
      BY <1>1
    <3>4. InOrder(h) \in Seq(R) /\ Len(InOrder(h)) = Cardinality(S) + 1
      BY <3>1, <3>3, RowIsSeq
    <3> QED
      BY <3>1, <3>2, <3>4
  <2>2. /\ Append(InOrder(g), p) \in Seq(R) /\ Len(Append(InOrder(g), p)) = Cardinality(S) + 1
        /\ \A i \in 1..Cardinality(S) : Append(InOrder(g), p)[i] = InOrder(g)[i]
        /\ Append(InOrder(g), p)[Cardinality(S) + 1] = p
    BY <2>1, AppendProperties
  <2>3. \A i \in 1..(Cardinality(S) + 1) : InOrder(h)[i] = Append(InOrder(g), p)[i]
    BY <1>1, <1>8, <1>9, <2>2
  <2> QED
    BY <2>1, <2>2, <2>3, SeqEqual
<1> QED
  BY <1>1, <1>5, <1>10

\* A row taken out, before its gap is closed.
LEMMA RowShrinks ==
  ASSUME NEW S, IsFiniteSet(S), NEW g \in [S -> Nat], Packed(g),
         NEW p \in S, NEW R, R = S \ {p}, NEW h \in [R -> Nat], \A q \in R : h[q] = g[q]
  PROVE  /\ Cardinality(S) \in Nat /\ IsFiniteSet(R) /\ Cardinality(R) = Cardinality(S) - 1
         /\ Gapped(h, g[p])
         /\ InOrder(h) = [i \in 1..(Cardinality(S) - 1) |->
                            InOrder(g)[IF i <= g[p] THEN i ELSE i + 1]]
<1>1. /\ Cardinality(S) \in Nat /\ IsFiniteSet(R)
      /\ Cardinality(R) = Cardinality(S) - 1
  BY FS_CardinalityType, FS_RemoveElement
<1>2. Gapped(h, g[p])
  <2>1. IsInjective(h) /\ g[p] \notin Range(h)
    BY DEF IsInjective, Range, Packed
  <2>2. Range(h) \cup {g[p]} = Range(g)
    BY DEF Range
  <2>3. Range(h) \cup {g[p]} = 0..Cardinality(R)
    BY <1>1, <2>2 DEF Packed
  <2> QED
    BY <2>1, <2>3 DEF Gapped
<1>3. g[p] \in Nat /\ g[p] \in 0..(Cardinality(S) - 1)
  BY DEF Range, Packed
<1>4. PICK f \in [R -> Int] : \A q \in R : f[q] = IF h[q] > g[p] THEN h[q] - 1 ELSE h[q]
  <2>1. [q \in R |-> IF h[q] > g[p] THEN h[q] - 1 ELSE h[q]] \in [R -> Int]
    BY <1>3
  <2> QED
    BY <2>1
<1>5. f \in [R -> Nat] /\ Packed(f) /\ Agree(h, f)
  BY <1>1, <1>2, <1>3, <1>4, GapCloses
<1>6. PutAt(InOrder(h), f) /\ PutAt(InOrder(g), g)
  BY <1>1, <1>5, RowInOrder, PackedInOrder
<1>7. InOrder(h) \in [1..Cardinality(R) -> R]
  BY <1>5, <1>6 DEF PutAt
<1>8. ASSUME NEW i \in 1..(Cardinality(S) - 1), NEW k \in Int, k = IF i <= g[p] THEN i ELSE i + 1
      PROVE  InOrder(h)[i] = InOrder(g)[k]
  <2>1. k \in 1..Cardinality(S) /\ k - 1 # g[p]
    BY <1>1, <1>3, <1>8
  <2>2. InOrder(g)[k] \in R /\ g[InOrder(g)[k]] = k - 1
    BY <1>6, <2>1 DEF PutAt
  <2>3. f[InOrder(g)[k]] + 1 = i
    BY <1>1, <1>3, <1>4, <1>8, <2>2
  <2> QED
    BY <1>5, <1>6, <2>2, <2>3 DEF PutAt
<1>9. InOrder(h) = [i \in 1..(Cardinality(S) - 1) |-> InOrder(g)[IF i <= g[p] THEN i ELSE i + 1]]
  <2>1. \A i \in 1..(Cardinality(S) - 1) : (IF i <= g[p] THEN i ELSE i + 1) \in Int
    BY <1>1
  <2>2. \A i \in 1..(Cardinality(S) - 1) : InOrder(h)[i] = InOrder(g)[IF i <= g[p] THEN i ELSE i + 1]
    BY <1>8, <2>1
  <2> QED
    BY <1>1, <1>7, <2>2
<1> QED
  BY <1>1, <1>2, <1>9

-----------------------------------------------------------------------------
\* One request at a time.

\* SerialInv and the mapping, said of the only request.
AloneInv(r) ==
  /\ IF status = "finished" \/ Ending(r)
     THEN PlayerCount < 2
     ELSE /\ IF Closing(r) THEN Gapped(players, req[r].ord) ELSE Packed(players)
          /\ status = "active" => PlayerCount >= 2
  /\ status = "none" => turnIndex = 0
  /\ status = "finished" <=> ended \/ At(r, "leave_end")
  /\ Current(r)

LEMMA Alone ==
  ASSUME Serial, NEW r \in Requests
  PROVE  /\ phase = IF Ending(r) THEN "finished" ELSE status
         /\ turn = IF Lowering(r) THEN turnIndex - 1
                   ELSE IF Advancing(r) THEN (turnIndex + 1) % PlayerCount ELSE turnIndex
         /\ SerialInv <=> AloneInv(r)
<1>1. Requests = {r}
  BY DEF Serial
<1>2. /\ phase = IF Ending(r) THEN "finished" ELSE status
      /\ turn = IF Lowering(r) THEN turnIndex - 1
                ELSE IF Advancing(r) THEN (turnIndex + 1) % PlayerCount ELSE turnIndex
  BY <1>1 DEF phase, turn
<1>3. phase = "finished" <=> status = "finished" \/ Ending(r)
  BY <1>2
<1>4. SerialInv <=> AloneInv(r)
  BY <1>1, <1>3, Zenon DEF SerialInv, AloneInv, InRow
<1> QED
  BY <1>2, <1>4

LEMMA AlonePrimed ==
  ASSUME Serial, NEW r \in Requests
  PROVE  /\ phase' = IF Ending(r)' THEN "finished" ELSE status'
         /\ turn' = IF Lowering(r)' THEN turnIndex' - 1
                    ELSE IF Advancing(r)' THEN (turnIndex' + 1) % PlayerCount' ELSE turnIndex'
         /\ SerialInv' <=> AloneInv(r)'
<1>1. Requests = {r}
  BY DEF Serial
<1>2. /\ phase' = IF Ending(r)' THEN "finished" ELSE status'
      /\ turn' = IF Lowering(r)' THEN turnIndex' - 1
                 ELSE IF Advancing(r)' THEN (turnIndex' + 1) % PlayerCount' ELSE turnIndex'
  BY <1>1 DEF phase, turn
<1>3. phase' = "finished" <=> status' = "finished" \/ Ending(r)'
  BY <1>2
<1>4. SerialInv' <=> AloneInv(r)'
  BY <1>1, <1>3, Zenon DEF SerialInv, AloneInv, InRow
<1> QED
  BY <1>2, <1>4

\* Between these steps a request owes the game nothing and has nothing yet to write of what
\* the mapping already shows.
Plain(r) == req[r].pc \notin {"upload_count", "upload_advance", "leave_count", "leave_shift",
                              "leave_index", "leave_finish", "leave_end"}

\* A step that writes nothing but its frame does nothing to the game.
LEMMA Reads ==
  ASSUME Serial, NEW r \in Requests, AloneInv(r), Plain(r), Plain(r)',
         UNCHANGED <<game, players, known, turns, ended>>, Current(r)'
  PROVE  AloneInv(r)' /\ UNCHANGED TurnGame!vars
<1>1. ~Ending(r) /\ ~Lowering(r) /\ ~Advancing(r) /\ ~Closing(r) /\ ~At(r, "leave_end")
  BY DEF Plain, Ending, Lowering, Advancing, Closing, At
<1>2. ~Ending(r)' /\ ~Lowering(r)' /\ ~Advancing(r)' /\ ~Closing(r)' /\ ~At(r, "leave_end")'
  BY DEF Plain, Ending, Lowering, Advancing, Closing, At
<1>3. AloneInv(r)'
  BY <1>1, <1>2 DEF AloneInv, game, PlayerCount
<1>4. phase' = phase /\ turn' = turn
  BY <1>1, <1>2, Alone, AlonePrimed DEF game
<1>5. UNCHANGED <<seats, known \ DOMAIN players, {t.player : t \in turns}>>
  BY DEF seats
<1> QED
  BY <1>3, <1>4, <1>5 DEF TurnGame!vars

\* A request that is over has nothing that could be out of date.
LEMMA DoneCurrent ==
  ASSUME TypeOK, NEW r \in Requests, Done(r)
  PROVE  Current(r)' /\ Plain(r)' /\ At(r, "idle")'
<1>1. req'[r] = Idle
  BY DoneFrame
<1> QED
  BY <1>1 DEF Idle, Current, Plain, At, Ordering, InLobby, SeatRead, Uploading, Leaving

\* A request that is refused before it has written anything.
LEMMA Refused ==
  ASSUME Serial, TypeOK, NEW r \in Requests, AloneInv(r), Plain(r), Done(r),
         UNCHANGED <<game, players, known, turns, ended>>
  PROVE  AloneInv(r)' /\ UNCHANGED TurnGame!vars
  BY DoneCurrent, Reads

LEMMA JoinReads ==
  ASSUME Serial, StoreInv, NEW r \in Requests, AloneInv(r), JoinLookup(r) \/ JoinCount(r)
  PROVE  AloneInv(r)' /\ UNCHANGED TurnGame!vars
<1>1. TypeOK /\ req[r] \in Frame /\ Current(r) /\ PlayerCount \in Nat
  BY Counting DEF StoreInv, TypeOK, AloneInv
<1>2. Plain(r) /\ UNCHANGED <<game, players, known, turns, ended>>
  BY DEF JoinLookup, JoinCount, Plain, At, files, news
<1>3. CASE JoinLookup(r)
  <2>1. req'[r].pc = "join_count" /\ status = "lobby"
    <3>1. "join_count" \in Steps
      BY DEF Steps
    <3> QED
      BY <1>1, <1>3, <3>1, GotoFrame DEF JoinLookup
  <2>2. Current(r)' /\ Plain(r)'
    BY <1>2, <2>1 DEF game, Current, Plain, At, Ordering, InLobby, SeatRead, Uploading, Leaving
  <2> QED
    BY <1>2, <2>2, Reads
<1>4. CASE JoinCount(r)
  <2>1. req'[r].pc = "join_insert" /\ req'[r].count = PlayerCount
    BY <1>1, <1>4 DEF JoinCount, TypeOK, Frame
  <2>2. status = "lobby"
    BY <1>1, <1>4 DEF JoinCount, Current, InLobby, At
  <2>3. Current(r)' /\ Plain(r)'
    BY <1>2, <2>1, <2>2
    DEF game, PlayerCount, Current, Plain, At, Ordering, InLobby, SeatRead, Uploading, Leaving
  <2> QED
    BY <1>2, <2>3, Reads
<1> QED
  BY <1>3, <1>4

\* A player looked up has the seat that was read.
LEMMA TokenReads ==
  ASSUME Serial, StoreInv, NEW r \in Requests, AloneInv(r),
         StartPlayer(r) \/ LeavePlayer(r) \/ UploadPlayer(r)
  PROVE  AloneInv(r)' /\ UNCHANGED TurnGame!vars
<1>1. PICK pc \in {"start_game", "leave_game", "upload_game"} : PlayerByToken(r, pc)
  BY DEF StartPlayer, LeavePlayer, UploadPlayer
<1>2. PICK p \in DOMAIN players :
        req' = [req EXCEPT ![r] = [Idle EXCEPT !.pc = pc, !.who = p, !.ord = players[p]]]
  BY <1>1 DEF PlayerByToken
<1>3. Plain(r) /\ UNCHANGED <<game, players, known, turns, ended>>
  BY <1>1 DEF PlayerByToken, Plain, At, files, news
<1>4. req'[r].pc = pc /\ req'[r].who = p /\ req'[r].ord = players[p]
  BY <1>2 DEF StoreInv, TypeOK, Idle
<1>5. Current(r)' /\ Plain(r)'
  BY <1>3, <1>4 DEF Current, Plain, At, Ordering, InLobby, SeatRead, Uploading, Leaving
<1> QED
  BY <1>3, <1>5, Reads

\* The host sends a list of everybody.
LEMMA OrderReads ==
  ASSUME Serial, StoreInv, NEW r \in Requests, AloneInv(r), OrderPlayer(r) \/ OrderGame(r)
  PROVE  AloneInv(r)' /\ UNCHANGED TurnGame!vars
<1>1. TypeOK /\ req[r] \in Frame /\ Current(r)
  BY DEF StoreInv, TypeOK, AloneInv
<1>2. Plain(r) /\ UNCHANGED <<game, players, known, turns, ended>>
  BY DEF OrderPlayer, OrderGame, Plain, At, files, news
<1>3. CASE OrderPlayer(r)
  <2>1. PICK p \in DOMAIN players, l \in HostLists :
          req' = [req EXCEPT ![r] = [Idle EXCEPT !.pc = "order_game", !.who = p, !.list = l]]
    BY <1>3 DEF OrderPlayer
  <2>2. l \in [1..PlayerCount -> DOMAIN players] /\ IsInjective(l)
    BY StoreAssumption DEF Serial, HostLists
  <2>3. PlayerCount \in Nat /\ IsFiniteSet(DOMAIN players) /\ Cardinality(1..PlayerCount) = PlayerCount
    <3>1. PlayerCount \in Nat /\ IsFiniteSet(DOMAIN players)
      BY <1>1, Counting
    <3>2. Cardinality(1..PlayerCount) = IF 1 > PlayerCount THEN 0 ELSE PlayerCount - 1 + 1
      BY <3>1, FS_Interval
    <3> QED
      BY <3>1, <3>2
  <2>4. Range(l) = DOMAIN players
    <3>1. l \in Injection(1..PlayerCount, DOMAIN players)
      BY <2>2 DEF Injection
    <3>2. l \in Surjection(1..PlayerCount, DOMAIN players)
      BY <2>3, <3>1, FS_Injection DEF PlayerCount
    <3> QED
      BY <2>2, <3>2 DEF Surjection, Range
  <2>5. Len(l) = PlayerCount
    BY <2>2, <2>3
  <2>6. req'[r].pc = "order_game" /\ req'[r].list = l
    BY <2>1 DEF StoreInv, TypeOK, Idle
  <2>7. Current(r)' /\ Plain(r)'
    BY <1>2, <2>4, <2>5, <2>6
    DEF PlayerCount, Current, Plain, At, Ordering, InLobby, SeatRead, Uploading, Leaving
  <2> QED
    BY <1>2, <2>7, Reads
<1>4. CASE OrderGame(r) /\ HostInLobby(r)
  <2>1. req'[r].pc = "order_tx" /\ req'[r].list = req[r].list
    <3>1. Goto(r, "order_tx") /\ "order_tx" \in Steps
      BY <1>4 DEF OrderGame, Steps
    <3> QED
      BY <1>1, <3>1, GotoFrame
  <2>2. Len(req[r].list) = PlayerCount /\ Range(req[r].list) = DOMAIN players /\ status = "lobby"
    BY <1>1, <1>4 DEF OrderGame, HostInLobby, Current, Ordering
  <2>3. Current(r)' /\ Plain(r)'
    BY <1>2, <2>1, <2>2
    DEF game, PlayerCount, Current, Plain, At, Ordering, InLobby, SeatRead, Uploading, Leaving
  <2> QED
    BY <1>2, <2>3, Reads
<1>5. CASE OrderGame(r) /\ ~HostInLobby(r)
  BY <1>1, <1>2, <1>5, Refused DEF OrderGame
<1> QED
  BY <1>3, <1>4, <1>5

LEMMA StartReads ==
  ASSUME Serial, StoreInv, NEW r \in Requests, AloneInv(r), StartGame(r) \/ StartCount(r)
  PROVE  AloneInv(r)' /\ UNCHANGED TurnGame!vars
<1>1. TypeOK /\ req[r] \in Frame /\ Current(r) /\ PlayerCount \in Nat
  BY Counting DEF StoreInv, TypeOK, AloneInv
<1>2. /\ Plain(r) /\ UNCHANGED <<game, players, known, turns, ended>>
      /\ "start_count" \in Steps /\ "start_update" \in Steps
  BY DEF StartGame, StartCount, Plain, At, files, news, Steps
<1>3. CASE StartGame(r) /\ HostInLobby(r)
  <2>1. req'[r].pc = "start_count" /\ status = "lobby"
    <3>1. Keep(r, "start_count", NoPlayer, 0)
      BY <1>3 DEF StartGame
    <3> QED
      BY <1>1, <1>2, <1>3, <3>1, KeepFrame DEF HostInLobby
  <2>2. Current(r)' /\ Plain(r)'
    BY <1>2, <2>1 DEF game, Current, Plain, At, Ordering, InLobby, SeatRead, Uploading, Leaving
  <2> QED
    BY <1>2, <2>2, Reads
<1>4. CASE StartCount(r) /\ ~(PlayerCount < 2)
  <2>1. req'[r].pc = "start_update"
    BY <1>1, <1>2, <1>4, GotoFrame DEF StartCount
  <2>2. status = "lobby" /\ PlayerCount >= 2
    BY <1>1, <1>4 DEF StartCount, Current, InLobby, At
  <2>3. Current(r)' /\ Plain(r)'
    BY <1>2, <2>1, <2>2
    DEF game, PlayerCount, Current, Plain, At, Ordering, InLobby, SeatRead, Uploading, Leaving
  <2> QED
    BY <1>2, <2>3, Reads
<1>5. CASE \/ StartGame(r) /\ ~HostInLobby(r)
           \/ StartCount(r) /\ PlayerCount < 2
  BY <1>1, <1>2, <1>5, Refused DEF StartGame, StartCount
<1> QED
  BY <1>3, <1>4, <1>5

-----------------------------------------------------------------------------
\* Uploads.

\* The row of a game whose seats have no gap.
LEMMA SeatsAre ==
  ASSUME TypeOK, Packed(players)
  PROVE  /\ PutAt(seats, players)
         /\ seats \in [1..PlayerCount -> DOMAIN players]
         /\ PlayerCount \in Nat /\ Len(seats) = PlayerCount
<1>1. IsFiniteSet(DOMAIN players) /\ players \in [DOMAIN players -> Nat] /\ PlayerCount \in Nat
  BY Counting DEF TypeOK
<1>2. PutAt(seats, players)
  BY <1>1, PackedInOrder DEF seats
<1>3. seats \in [1..PlayerCount -> DOMAIN players]
  BY <1>2 DEF PutAt, PlayerCount
<1> QED
  BY <1>1, <1>2, <1>3, RowIsSeq

LEMMA Stutters ==
  ASSUME UNCHANGED <<players, known, turns>>, phase' = phase, turn' = turn
  PROVE  UNCHANGED TurnGame!vars
  BY DEF TurnGame!vars, seats

LEMMA UploadReads ==
  ASSUME Serial, StoreInv, NEW r \in Requests, AloneInv(r),
         UploadGame(r) \/ UploadPut(r) \/ UploadMail(r) \/ UploadTell(r)
  PROVE  AloneInv(r)' /\ UNCHANGED TurnGame!vars
<1>1. TypeOK /\ req[r] \in Frame /\ Current(r) /\ turnIndex \in Nat
  BY DEF StoreInv, TypeOK, AloneInv
<1>2. /\ Plain(r) /\ UNCHANGED <<game, players, known, turns, ended>>
      /\ "upload_put" \in Steps /\ "upload_tell" \in Steps
  BY DEF UploadGame, UploadPut, UploadMail, UploadTell, Plain, At, files, news, Steps
<1>3. CASE UploadGame(r) /\ status = "active" /\ req[r].ord = turnIndex
  <2>1. req[r].who \in DOMAIN players /\ players[req[r].who] = turnIndex
    BY <1>1, <1>3 DEF UploadGame, Current, SeatRead, At
  <2>2. req'[r].pc = "upload_put" /\ req'[r].who = req[r].who /\ req'[r].idx = turnIndex
    <3>1. Keep(r, "upload_put", req[r].who, turnIndex)
      BY <1>3 DEF UploadGame
    <3>2. req[r].who \in Players
      BY <1>1, <2>1 DEF TypeOK
    <3> QED
      BY <1>1, <1>2, <3>1, <3>2, KeepFrame
  <2>3. Current(r)' /\ Plain(r)'
    BY <1>2, <1>3, <2>1, <2>2
    DEF game, Holders, Current, Plain, At, Ordering, InLobby, SeatRead, Uploading, Leaving
  <2> QED
    BY <1>2, <2>3, Reads
<1>4. CASE UploadPut(r)
  <2>1. req'[r].pc = "upload_insert" /\ req'[r].who = req[r].who /\ req'[r].idx = req[r].idx
    BY <1>1, <1>4 DEF UploadPut, TypeOK, Frame
  <2>2. status = "active" /\ req[r].who \in Holders(turnIndex) /\ req[r].idx = turnIndex
    BY <1>1, <1>4 DEF UploadPut, Current, Uploading, At
  <2>3. Current(r)' /\ Plain(r)'
    BY <1>2, <2>1, <2>2
    DEF game, Holders, Current, Plain, At, Ordering, InLobby, SeatRead, Uploading, Leaving
  <2> QED
    BY <1>2, <2>3, Reads
<1>5. CASE UploadMail(r)
  <2>1. req'[r].pc = "upload_tell" /\ req'[r].idx = req[r].idx
    BY <1>1, <1>2, <1>5, GotoFrame DEF UploadMail
  <2>2. req[r].idx = turnIndex
    BY <1>1, <1>5 DEF UploadMail, Current, At
  <2>3. told' \subseteq Holders(turnIndex)
    BY <1>5, <2>2 DEF UploadMail
  <2>4. Current(r)' /\ Plain(r)'
    BY <1>2, <2>1, <2>2, <2>3
    DEF game, Holders, Current, Plain, At, Ordering, InLobby, SeatRead, Uploading, Leaving
  <2> QED
    BY <1>2, <2>4, Reads
<1>6. CASE \/ UploadGame(r) /\ ~(status = "active" /\ req[r].ord = turnIndex)
           \/ UploadTell(r)
  BY <1>1, <1>2, <1>6, Refused DEF UploadGame, UploadTell
<1> QED
  BY <1>3, <1>4, <1>5, <1>6

\* The turn is played where its row is inserted.
LEMMA UploadInsertPlays ==
  ASSUME Serial, StoreInv, NEW r \in Requests, AloneInv(r), UploadInsert(r)
  PROVE  AloneInv(r)' /\ TurnGame!Play
<1>1. TypeOK /\ req[r] \in Frame /\ Current(r) /\ turnIndex \in Nat
  BY DEF StoreInv, TypeOK, AloneInv
<1>2. /\ Plain(r) /\ status = "active" /\ req[r].who \in DOMAIN players
      /\ players[req[r].who] = turnIndex /\ req[r].idx = turnIndex
  BY <1>1 DEF UploadInsert, Plain, At, Current, Uploading, Holders
<1>3. /\ Goto(r, "upload_count")
      /\ turns' = turns \cup {[id |-> req[r].turn, player |-> req[r].who]}
      /\ UNCHANGED <<game, players, known, ended>>
  BY <1>2 DEF UploadInsert, news
<1>4. req'[r].pc = "upload_count" /\ req'[r].who = req[r].who /\ req'[r].idx = req[r].idx
  <2>1. "upload_count" \in Steps
    BY DEF Steps
  <2> QED
    BY <1>1, <1>3, <2>1, GotoFrame
<1>5. /\ ~Ending(r) /\ ~Lowering(r) /\ ~Advancing(r) /\ ~Closing(r) /\ ~At(r, "leave_end")
      /\ ~Ending(r)' /\ ~Lowering(r)' /\ Advancing(r)' /\ ~Closing(r)' /\ ~At(r, "leave_end")'
  BY <1>2, <1>4 DEF Plain, Ending, Lowering, Advancing, Closing, At
<1>6. Packed(players) /\ PlayerCount >= 2
  BY <1>2, <1>5 DEF AloneInv
<1>7. Current(r)'
  BY <1>2, <1>3, <1>4 DEF game, Holders, Current, At, Ordering, InLobby, SeatRead, Uploading, Leaving
<1>8. AloneInv(r)'
  BY <1>2, <1>3, <1>5, <1>6, <1>7 DEF AloneInv, game, PlayerCount
<1>9. /\ phase = "active" /\ phase' = phase /\ turn = turnIndex
      /\ turn' = (turnIndex + 1) % PlayerCount /\ seats' = seats
  BY <1>2, <1>3, <1>5, Alone, AlonePrimed DEF game, PlayerCount, seats
<1>10. /\ PutAt(seats, players) /\ Len(seats) = PlayerCount /\ PlayerCount \in Nat
  BY <1>1, <1>6, SeatsAre
<1>11. turn < Len(seats) /\ seats[turn + 1] = req[r].who
  <2>1. turnIndex + 1 \in 1..PlayerCount /\ seats[turnIndex + 1] = req[r].who
    BY <1>2, <1>10 DEF PutAt, PlayerCount
  <2> QED
    BY <1>1, <1>9, <1>10, <2>1
<1>12. {t.player : t \in turns'} = {t.player : t \in turns} \cup {req[r].who}
  <2>1. PICK u : u.player = req[r].who /\ turns' = turns \cup {u}
    BY <1>3
  <2> QED
    BY <2>1
<1>13. UNCHANGED (known \ DOMAIN players)
  BY <1>3
<1>14. ~TurnGame!Vacant
  BY <1>1, <1>9, <1>10, <1>11 DEF TurnGame!Vacant
<1> QED
  BY <1>8, <1>9, <1>10, <1>11, <1>12, <1>13, <1>14 DEF TurnGame!Play

\* What is left to do of an upload the game has already been shown.
LEMMA UploadFinishes ==
  ASSUME Serial, StoreInv, NEW r \in Requests, AloneInv(r), UploadCount(r) \/ UploadAdvance(r)
  PROVE  AloneInv(r)' /\ UNCHANGED TurnGame!vars
<1>1. TypeOK /\ req[r] \in Frame /\ Current(r) /\ turnIndex \in Nat /\ PlayerCount \in Nat
  BY Counting DEF StoreInv, TypeOK, AloneInv
<1>2. /\ status = "active" /\ req[r].who \in DOMAIN players
      /\ players[req[r].who] = turnIndex /\ req[r].idx = turnIndex
  BY <1>1 DEF UploadCount, UploadAdvance, At, Current, Uploading, Holders
<1>3. ~Ending(r) /\ ~Lowering(r) /\ Advancing(r) /\ ~Closing(r) /\ ~At(r, "leave_end")
  BY DEF UploadCount, UploadAdvance, Ending, Lowering, Advancing, Closing, At
<1>4. Packed(players) /\ PlayerCount >= 2
  BY <1>2, <1>3 DEF AloneInv
<1>5. CASE UploadCount(r)
  <2>1. /\ req'[r].pc = "upload_advance" /\ req'[r].count = PlayerCount
        /\ req'[r].who = req[r].who /\ req'[r].idx = req[r].idx
        /\ UNCHANGED <<game, players, known, turns, ended>>
    BY <1>1, <1>5 DEF UploadCount, TypeOK, Frame, files, news
  <2>2. ~Ending(r)' /\ ~Lowering(r)' /\ Advancing(r)' /\ ~Closing(r)' /\ ~At(r, "leave_end")'
    BY <2>1 DEF Ending, Lowering, Advancing, Closing, At
  <2>3. Current(r)'
    BY <1>2, <2>1
    DEF game, Holders, PlayerCount, Current, At, Ordering, InLobby, SeatRead, Uploading, Leaving
  <2>4. AloneInv(r)'
    BY <1>2, <1>3, <1>4, <2>1, <2>2, <2>3 DEF AloneInv, game, PlayerCount
  <2>5. phase' = phase /\ turn' = turn
    BY <1>3, <2>1, <2>2, Alone, AlonePrimed DEF game, PlayerCount
  <2> QED
    BY <2>1, <2>4, <2>5, Stutters
<1>6. CASE UploadAdvance(r)
  <2>1. req[r].count = PlayerCount /\ req[r].count # 0
    BY <1>1, <1>4, <1>6 DEF UploadAdvance, Current
  <2>2. /\ turnIndex' = (turnIndex + 1) % PlayerCount
        /\ Keep(r, "upload_mail", NoPlayer, turnIndex')
        /\ UNCHANGED <<status, host, players, known, turns, ended>>
    BY <1>2, <1>6, <2>1 DEF UploadAdvance, NextIndex, files, news
  <2>3. req'[r].pc = "upload_mail" /\ req'[r].idx = turnIndex'
    <3>1. turnIndex' \in Nat
      BY <1>1, <1>4, <2>2
    <3>2. "upload_mail" \in Steps
      BY DEF Steps
    <3> QED
      BY <1>1, <2>2, <3>1, <3>2, KeepFrame
  <2>4. ~Ending(r)' /\ ~Lowering(r)' /\ ~Advancing(r)' /\ ~Closing(r)' /\ ~At(r, "leave_end")'
    BY <2>3 DEF Ending, Lowering, Advancing, Closing, At
  <2>5. Current(r)'
    BY <2>3 DEF Current, At, Ordering, InLobby, SeatRead, Uploading, Leaving
  <2>6. AloneInv(r)'
    BY <1>2, <1>3, <1>4, <2>2, <2>4, <2>5 DEF AloneInv, PlayerCount
  <2>7. phase' = phase /\ turn' = turn
    BY <1>3, <2>2, <2>4, Alone, AlonePrimed
  <2> QED
    BY <2>2, <2>6, <2>7, Stutters
<1> QED
  BY <1>5, <1>6

-----------------------------------------------------------------------------
\* What the lobby writes.

\* A row has everybody once.
LEMMA RowHas ==
  ASSUME NEW row, NEW f, PutAt(row, f)
  PROVE  IsInjective(row) /\ Range(row) = DOMAIN f
<1>1. IsInjective(row)
  BY DEF PutAt, IsInjective
<1>2. Range(row) = DOMAIN f
  BY DEF PutAt, Range
<1> QED
  BY <1>1, <1>2

LEMMA SeatedAre ==
  ASSUME TypeOK, Packed(players)
  PROVE  TurnGame!Seated = DOMAIN players
<1>1. Range(seats) = DOMAIN players
  BY SeatsAre, RowHas
<1> QED
  BY <1>1 DEF TurnGame!Seated, TurnGame!Range, Range

LEMMA CreateGameCreates ==
  ASSUME Serial, StoreInv, SerialInv, CreateGame
  PROVE  SerialInv' /\ TurnGame!Create
<1>1. PICK p \in Players \ known :
        host' = p /\ known' = known \cup {p} /\ players' = [q \in {p} |-> 0]
  BY DEF CreateGame
<1>2. /\ known = {} /\ DOMAIN players = {} /\ turns' = turns
      /\ \A r \in Requests : req[r].pc = "idle" /\ req'[r].pc = "idle"
  BY DEF StoreInv, NotYet, TypeOK, CreateGame, At, files
<1>3. /\ \A r \in Requests : /\ ~Ending(r) /\ ~Lowering(r) /\ ~Advancing(r)
                             /\ ~Ending(r)' /\ ~Lowering(r)' /\ ~Advancing(r)'
                             /\ ~Closing(r)' /\ ~At(r, "leave_end") /\ ~At(r, "leave_end")'
                             /\ Current(r)'
  BY <1>2 DEF Ending, Lowering, Advancing, Closing, At, Current, Ordering, InLobby, SeatRead,
              Uploading, Leaving
<1>4. /\ status = "none" /\ status' = "lobby" /\ turnIndex = 0 /\ turnIndex' = 0
      /\ ~ended /\ ~ended'
  BY <1>3 DEF CreateGame, SerialInv, news
<1>5. phase = "none" /\ phase' = "lobby" /\ turn = 0 /\ turn' = 0
  BY <1>3, <1>4 DEF phase, turn
<1> PICK S : S = {p}
  OBVIOUS
<1> PICK g : g = players'
  OBVIOUS
<1>6. /\ IsFiniteSet(S) /\ Cardinality(S) = 1 /\ p \in S
      /\ g \in [S -> Nat] /\ g[p] = 0 /\ \A q \in S : q = p /\ g[q] = 0
  BY <1>1, FS_Singleton
<1>7. Packed(g)
  <2>1. IsInjective(g) /\ Range(g) = {0} /\ DOMAIN g = S
    BY <1>6 DEF IsInjective, Range
  <2>2. 0..(Cardinality(S) - 1) = {0}
    BY <1>6
  <2> QED
    BY <2>1, <2>2 DEF Packed
<1>8. SerialInv'
  BY <1>3, <1>4, <1>5, <1>7 DEF SerialInv, InRow
<1>9. seats' = <<p>>
  <2>1. PutAt(InOrder(g), g)
    BY <1>6, <1>7, PackedInOrder
  <2>2. InOrder(g) \in [1..1 -> S]
    BY <1>6, <2>1 DEF PutAt
  <2>3. InOrder(g) = <<p>>
    BY <1>6, <2>2
  <2> QED
    BY <2>3 DEF seats
<1>10. known \ DOMAIN players = {} /\ (known \ DOMAIN players)' = {}
  BY <1>1, <1>2
<1>11. {t.player : t \in turns'} = {t.player : t \in turns}
  BY <1>2
<1>12. TurnGame!Create
  BY <1>5, <1>9, <1>10, <1>11 DEF TurnGame!Create
<1> QED
  BY <1>8, <1>12

LEMMA JoinInsertJoins ==
  ASSUME Serial, StoreInv, NEW r \in Requests, AloneInv(r), JoinInsert(r)
  PROVE  AloneInv(r)' /\ TurnGame!Join
<1>1. /\ TypeOK /\ Current(r) /\ PlayerCount \in Nat /\ IsFiniteSet(DOMAIN players)
      /\ players \in [DOMAIN players -> Nat]
  BY Counting DEF StoreInv, TypeOK, AloneInv
<1>2. PICK p \in Players \ known :
        /\ known' = known \cup {p}
        /\ players' = [q \in DOMAIN players \cup {p} |->
                         IF q = p THEN req[r].count ELSE players[q]]
  BY DEF JoinInsert
<1>3. Plain(r) /\ status = "lobby" /\ req[r].count = PlayerCount
  BY <1>1 DEF JoinInsert, Plain, At, Current, InLobby
<1>4. Done(r) /\ UNCHANGED <<game, turns, ended>>
  BY DEF JoinInsert, files, news
<1>5. Current(r)' /\ Plain(r)'
  BY <1>1, <1>4, DoneCurrent
<1>6. /\ ~Ending(r) /\ ~Lowering(r) /\ ~Advancing(r) /\ ~Closing(r) /\ ~At(r, "leave_end")
      /\ ~Ending(r)' /\ ~Lowering(r)' /\ ~Advancing(r)' /\ ~Closing(r)' /\ ~At(r, "leave_end")'
  BY <1>3, <1>5 DEF Plain, Ending, Lowering, Advancing, Closing, At
<1>7. Packed(players) /\ p \notin DOMAIN players
  BY <1>1, <1>3, <1>6 DEF AloneInv, TypeOK
<1> PICK S : S = DOMAIN players
  OBVIOUS
<1> PICK R : R = S \cup {p}
  OBVIOUS
<1> PICK h : h = players'
  OBVIOUS
<1>8. h \in [R -> Nat] /\ h[p] = Cardinality(S) /\ \A q \in S : h[q] = players[q]
  BY <1>1, <1>2, <1>3, <1>7 DEF PlayerCount
<1>9. Packed(h) /\ InOrder(h) = Append(InOrder(players), p)
  <2>1. IsFiniteSet(S) /\ players \in [S -> Nat] /\ p \notin S
    BY <1>1, <1>7
  <2> QED
    BY <1>7, <1>8, <2>1, RowGrows
<1>10. AloneInv(r)'
  BY <1>3, <1>4, <1>5, <1>6, <1>9 DEF AloneInv, game
<1>11. phase = "lobby" /\ phase' = "lobby" /\ turn' = turn /\ seats' = Append(seats, p)
  BY <1>3, <1>4, <1>6, <1>9, Alone, AlonePrimed DEF game, seats
<1>12. p \in Players \ (TurnGame!Seated \cup (known \ DOMAIN players))
  BY <1>1, <1>7, SeatedAre
<1>13. (known \ DOMAIN players)' = known \ DOMAIN players
  BY <1>2
<1>14. {t.player : t \in turns'} = {t.player : t \in turns}
  BY <1>4
<1>15. TurnGame!Join
  BY <1>11, <1>12, <1>13, <1>14 DEF TurnGame!Join
<1> QED
  BY <1>10, <1>15

LEMMA OrderCommitReorders ==
  ASSUME Serial, StoreInv, NEW r \in Requests, AloneInv(r), OrderCommit(r)
  PROVE  AloneInv(r)' /\ TurnGame!Reorder
<1>1. /\ TypeOK /\ Current(r) /\ PlayerCount \in Nat /\ IsFiniteSet(DOMAIN players)
      /\ req[r] \in Frame /\ FrameOK(r)
  BY Counting DEF StoreInv, TypeOK, AloneInv
<1> DEFINE l == req[r].list
           Seat(p) == LastAt(l, p) - 1
<1>2. /\ Plain(r) /\ status = "lobby" /\ l \in Seq(Players) /\ IsInjective(l)
      /\ Len(l) = PlayerCount /\ Range(l) = DOMAIN players
  BY <1>1 DEF Serial, OrderCommit, Plain, At, Current, InLobby, Ordering, FrameOK, Frame
<1>3. /\ Done(r) /\ UNCHANGED <<game, known, turns, ended>>
      /\ players' = [p \in DOMAIN players |-> Seat(p)]
  BY <1>2 DEF OrderCommit, files, news
<1>4. \A p \in DOMAIN players : Seat(p) \in 0..(PlayerCount - 1) /\ l[Seat(p) + 1] = p
  <2> TAKE p \in DOMAIN players
  <2>1. LastAt(l, p) \in 1..PlayerCount /\ l[LastAt(l, p)] = p
    BY <1>2, NamedLast
  <2> QED
    BY <1>1, <2>1
<1> HIDE DEF Seat, l
<1> PICK S : S = DOMAIN players
  OBVIOUS
<1> PICK h : h = players'
  OBVIOUS
<1>5. /\ h \in [S -> Nat]
      /\ \A p \in S : h[p] \in 0..(PlayerCount - 1) /\ l[h[p] + 1] = p
  BY <1>1, <1>3, <1>4
<1>6. Packed(h)
  <2>1. IsInjective(h)
    BY <1>5 DEF IsInjective
  <2>2. \A k \in 0..(PlayerCount - 1) : l[k + 1] \in S /\ h[l[k + 1]] = k
    <3> TAKE k \in 0..(PlayerCount - 1)
    <3>1. k + 1 \in DOMAIN l /\ l[k + 1] \in S
      BY <1>1, <1>2 DEF Range
    <3>2. h[l[k + 1]] \in 0..(PlayerCount - 1) /\ l[h[l[k + 1]] + 1] = l[k + 1]
      BY <1>5, <3>1
    <3>3. h[l[k + 1]] + 1 \in DOMAIN l
      BY <1>1, <1>2, <3>2
    <3>4. h[l[k + 1]] + 1 = k + 1
      BY <1>2, <3>1, <3>2, <3>3 DEF IsInjective
    <3> QED
      BY <1>1, <3>1, <3>2, <3>4
  <2>3. Range(h) = 0..(PlayerCount - 1)
    <3>1. \A k \in 0..(PlayerCount - 1) : k \in Range(h)
      BY <1>5, <2>2 DEF Range
    <3>2. Range(h) \subseteq 0..(PlayerCount - 1)
      BY <1>5 DEF Range
    <3> QED
      BY <3>1, <3>2
  <2> QED
    BY <1>5, <2>1, <2>3 DEF Packed, PlayerCount
<1>7. Current(r)' /\ Plain(r)'
  BY <1>1, <1>3, DoneCurrent
<1>8. /\ ~Ending(r) /\ ~Lowering(r) /\ ~Advancing(r) /\ ~Closing(r) /\ ~At(r, "leave_end")
      /\ ~Ending(r)' /\ ~Lowering(r)' /\ ~Advancing(r)' /\ ~Closing(r)' /\ ~At(r, "leave_end")'
  BY <1>2, <1>7 DEF Plain, Ending, Lowering, Advancing, Closing, At
<1>9. Packed(players)
  BY <1>2, <1>8 DEF AloneInv
<1>10. AloneInv(r)'
  BY <1>2, <1>3, <1>6, <1>7, <1>8 DEF AloneInv, game
<1>11. phase = "lobby" /\ phase' = "lobby" /\ turn' = turn
  BY <1>2, <1>3, <1>8, Alone, AlonePrimed DEF game
<1>12. PutAt(InOrder(h), h)
  BY <1>1, <1>5, <1>6, PackedInOrder
<1>13. /\ seats' \in [1..Len(seats) -> TurnGame!Seated]
       /\ TurnGame!IsInjective(seats') /\ TurnGame!Range(seats') = TurnGame!Seated
  <2>1. seats' \in [1..PlayerCount -> S] /\ IsInjective(seats') /\ Range(seats') = S
    <3>1. IsInjective(InOrder(h)) /\ Range(InOrder(h)) = S
      BY <1>5, <1>12, RowHas
    <3>2. InOrder(h) \in [1..PlayerCount -> S]
      BY <1>5, <1>12 DEF PutAt, PlayerCount
    <3> QED
      BY <3>1, <3>2 DEF seats
  <2>2. Len(seats) = PlayerCount /\ TurnGame!Seated = S
    BY <1>1, <1>9, SeatsAre, SeatedAre
  <2>3. TurnGame!IsInjective(seats') /\ TurnGame!Range(seats') = Range(seats')
    BY <2>1 DEF TurnGame!IsInjective, TurnGame!Range, IsInjective, Range
  <2> QED
    BY <2>1, <2>2, <2>3
<1>14. (known \ DOMAIN players)' = known \ DOMAIN players
  BY <1>3
<1>15. {t.player : t \in turns'} = {t.player : t \in turns}
  BY <1>3
<1>16. TurnGame!Reorder
  BY <1>11, <1>13, <1>14, <1>15 DEF TurnGame!Reorder
<1> QED
  BY <1>10, <1>16

LEMMA StartUpdateStarts ==
  ASSUME Serial, StoreInv, NEW r \in Requests, AloneInv(r), StartUpdate(r)
  PROVE  AloneInv(r)' /\ TurnGame!Start
<1>1. TypeOK /\ Current(r)
  BY DEF StoreInv, AloneInv
<1>2. Plain(r) /\ status = "lobby" /\ PlayerCount >= 2
  BY <1>1 DEF StartUpdate, Plain, At, Current, InLobby
<1>3. /\ status' = "active" /\ turnIndex' = 0 /\ Done(r)
      /\ UNCHANGED <<players, known, turns, ended>>
  BY DEF StartUpdate, files, news
<1>4. Current(r)' /\ Plain(r)'
  BY <1>1, <1>3, DoneCurrent
<1>5. /\ ~Ending(r) /\ ~Lowering(r) /\ ~Advancing(r) /\ ~Closing(r) /\ ~At(r, "leave_end")
      /\ ~Ending(r)' /\ ~Lowering(r)' /\ ~Advancing(r)' /\ ~Closing(r)' /\ ~At(r, "leave_end")'
  BY <1>2, <1>4 DEF Plain, Ending, Lowering, Advancing, Closing, At
<1>6. Packed(players)
  BY <1>2, <1>5 DEF AloneInv
<1>7. AloneInv(r)'
  BY <1>2, <1>3, <1>4, <1>5, <1>6 DEF AloneInv, PlayerCount
<1>8. phase = "lobby" /\ phase' = "active" /\ turn' = 0 /\ seats' = seats /\ Len(seats) >= 2
  BY <1>1, <1>2, <1>3, <1>5, <1>6, Alone, AlonePrimed, SeatsAre DEF seats
<1>9. UNCHANGED <<known \ DOMAIN players, {t.player : t \in turns}>>
  BY <1>3
<1> QED
  BY <1>7, <1>8, <1>9 DEF TurnGame!Start

-----------------------------------------------------------------------------
\* Leaving.

LEMMA LeaveGameReads ==
  ASSUME Serial, StoreInv, NEW r \in Requests, AloneInv(r), LeaveGame(r)
  PROVE  AloneInv(r)' /\ UNCHANGED TurnGame!vars
<1>1. TypeOK /\ req[r] \in Frame /\ Current(r)
  BY DEF StoreInv, TypeOK, AloneInv
<1>2. Plain(r) /\ UNCHANGED <<game, players, known, turns, ended>>
  BY DEF LeaveGame, Plain, At, files, news
<1>3. req[r].who \in DOMAIN players /\ req[r].ord = players[req[r].who]
  BY <1>1 DEF LeaveGame, Current, SeatRead, At
<1>4. /\ req'[r].pc = "leave_delete" /\ req'[r].who = req[r].who /\ req'[r].ord = req[r].ord
      /\ req'[r].idx = turnIndex /\ req'[r].active = (status = "active")
  BY <1>1 DEF LeaveGame, TypeOK, Frame
<1>5. Current(r)' /\ Plain(r)'
  BY <1>2, <1>3, <1>4
  DEF game, Current, Plain, At, Ordering, InLobby, SeatRead, Uploading, Leaving
<1> QED
  BY <1>2, <1>5, Reads

\* The rows of a game somebody leaves: in a row, or the last one.
LEMMA RowBefore ==
  ASSUME StoreInv, NEW p \in DOMAIN players, status = "finished" => PlayerCount < 2,
         status # "finished" => Packed(players)
  PROVE  /\ PlayerCount \in Nat \ {0} /\ Len(seats) = PlayerCount
         /\ (Packed(players) /\ PutAt(seats, players)) \/ (PlayerCount = 1 /\ seats = <<p>>)
<1>1. /\ TypeOK /\ PlayerCount \in Nat \ {0} /\ IsFiniteSet(DOMAIN players)
      /\ players \in [DOMAIN players -> Nat]
  BY Counting DEF StoreInv, TypeOK
<1>2. CASE Packed(players)
  BY <1>1, <1>2, SeatsAre
<1>3. CASE PlayerCount = 1
  <2>1. DOMAIN players = {p}
    <3>1. IsFiniteSet(DOMAIN players \ {p}) /\ Cardinality(DOMAIN players \ {p}) = 0
      BY <1>1, <1>3, FS_RemoveElement DEF PlayerCount
    <3>2. DOMAIN players \ {p} = {}
      BY <3>1, FS_EmptySet
    <3> QED
      BY <3>2
  <2>2. {q \in DOMAIN players : players[q] < players[p]} = {}
    BY <1>1, <2>1
  <2>3. Before(players) \in [DOMAIN players -> {0}]
    BY <2>1, <2>2, FS_EmptySet DEF Before
  <2> PICK b : b = Before(players)
    OBVIOUS
  <2>4. b[p] = 0
    BY <2>1, <2>3
  <2>5. seats = [i \in 1..1 |-> CHOOSE q \in {p} : b[q] = i - 1]
    BY <1>3, <2>1 DEF seats, InOrder, PlayerCount
  <2>6. (CHOOSE q \in {p} : b[q] = 1 - 1) = p
    BY <2>4
  <2>7. seats = <<p>>
    BY <2>5, <2>6
  <2> QED
    BY <1>3, <2>7
<1> QED
  BY <1>1, <1>2, <1>3

\* The player leaves the game where the row is deleted.
LEMMA LeaveDeleteLeaves ==
  ASSUME Serial, StoreInv, NEW r \in Requests, AloneInv(r), LeaveDelete(r),
         ~(ForeignKeys /\ \E t \in turns : t.player = req[r].who)
  PROVE  AloneInv(r)' /\ TurnGame!Next
<1>1. /\ TypeOK /\ req[r] \in Frame /\ Current(r) /\ turnIndex \in Nat
      /\ IsFiniteSet(DOMAIN players) /\ players \in [DOMAIN players -> Nat]
  BY Counting DEF StoreInv, TypeOK, AloneInv
<1> PICK p : p = req[r].who
  OBVIOUS
<1>2. /\ Plain(r) /\ p \in DOMAIN players /\ req[r].ord = players[p]
      /\ req[r].idx = turnIndex /\ req[r].active = (status = "active")
  BY <1>1 DEF LeaveDelete, Plain, At, Current, SeatRead, Leaving
<1>3. /\ Goto(r, "leave_count") /\ UNCHANGED <<game, known, turns, ended>>
      /\ players' = Restrict(players, DOMAIN players \ {p})
  BY DEF LeaveDelete, files, news
<1>4. /\ req'[r].pc = "leave_count" /\ req'[r].ord = players[p]
      /\ req'[r].idx = turnIndex /\ req'[r].active = (status = "active")
  <2>1. "leave_count" \in Steps
    BY DEF Steps
  <2> QED
    BY <1>1, <1>2, <1>3, <2>1, GotoFrame
<1>5. /\ ~Ending(r) /\ ~Lowering(r) /\ ~Advancing(r) /\ ~Closing(r) /\ ~At(r, "leave_end")
      /\ ~Advancing(r)' /\ Closing(r)' /\ ~At(r, "leave_end")'
      /\ Ending(r)' <=> PlayerCount' < 2
      /\ Lowering(r)' <=> PlayerCount' >= 2 /\ status = "active" /\ turnIndex > players[p]
  BY <1>2, <1>4 DEF Plain, Ending, Lowering, Advancing, Closing, At
<1>6. /\ status = "finished" => PlayerCount < 2
      /\ status # "finished" => Packed(players)
  BY <1>5 DEF AloneInv
<1>7. /\ PlayerCount \in Nat \ {0} /\ Len(seats) = PlayerCount
      /\ (Packed(players) /\ PutAt(seats, players)) \/ (PlayerCount = 1 /\ seats = <<p>>)
  BY <1>2, <1>6, RowBefore
<1> PICK S : S = DOMAIN players
  OBVIOUS
<1> PICK R : R = S \ {p}
  OBVIOUS
<1> PICK h : h = players'
  OBVIOUS
<1> PICK i : i = players[p]
  OBVIOUS
<1>8. /\ h \in [R -> Nat] /\ \A q \in R : h[q] = players[q]
      /\ IsFiniteSet(R) /\ Cardinality(R) = PlayerCount - 1 /\ PlayerCount' = PlayerCount - 1
      /\ i \in Nat /\ players \in [S -> Nat] /\ IsFiniteSet(S) /\ p \in S
  <2>1. h \in [R -> Nat] /\ \A q \in R : h[q] = players[q]
    BY <1>1, <1>3 DEF Restrict
  <2>2. IsFiniteSet(R) /\ Cardinality(R) = PlayerCount - 1
    BY <1>1, <1>2, FS_RemoveElement DEF PlayerCount
  <2> QED
    BY <1>1, <1>2, <2>1, <2>2 DEF PlayerCount
<1>9. Current(r)'
  BY <1>3, <1>4 DEF Current, At, Ordering, InLobby, SeatRead, Uploading, Leaving, game
<1>10. AloneInv(r)'
  <2>1. CASE PlayerCount' < 2
    BY <1>3, <1>5, <1>9, <2>1 DEF AloneInv, game
  <2>2. CASE PlayerCount' >= 2
    <3>1. status # "finished" /\ Packed(players)
      BY <1>6, <1>7, <1>8, <2>2
    <3>2. Gapped(h, players[p])
      BY <1>8, <3>1, RowShrinks
    <3> QED
      BY <1>3, <1>4, <1>5, <1>8, <1>9, <2>2, <3>1, <3>2 DEF AloneInv, game
  <2> QED
    BY <1>7, <1>8, <2>1, <2>2
<1>11. /\ phase = status /\ turn = turnIndex
       /\ phase' = IF PlayerCount - 1 < 2 THEN "finished" ELSE phase
  BY <1>3, <1>5, <1>7, <1>8, Alone, AlonePrimed DEF game
<1>12. turn' = IF PlayerCount - 1 >= 2 /\ phase = "active" /\ turn > i THEN turn - 1 ELSE turn
  BY <1>3, <1>5, <1>7, <1>8, <1>11, Alone, AlonePrimed DEF game
<1>13. /\ p \in TurnGame!Seated /\ seats' = TurnGame!Without(p)
       /\ PlayerCount - 1 >= 2 => TurnGame!Seat(p) = i
  <2>1. CASE Packed(players) /\ PutAt(seats, players)
    <3>1. i + 1 \in 1..Len(seats) /\ seats[i + 1] = p /\ seats \in [1..Len(seats) -> S]
      BY <1>2, <1>7, <2>1 DEF PutAt, PlayerCount
    <3>2. i \in 0..(Len(seats) - 1)
      BY <1>7, <1>8, <3>1
    <3>3. \A j \in 0..(Len(seats) - 1) : seats[j + 1] = p => j = i
      <4> TAKE j \in 0..(Len(seats) - 1)
      <4>1. j + 1 \in 1..Len(seats) /\ (j + 1) - 1 = j
        BY <1>7
      <4>2. players[seats[j + 1]] = j
        BY <1>7, <2>1, <4>1 DEF PutAt, PlayerCount
      <4> QED
        BY <4>2
    <3>4. TurnGame!Seat(p) = i
      BY <3>1, <3>2, <3>3 DEF TurnGame!Seat
    <3>5. p \in TurnGame!Seated
      BY <3>1 DEF TurnGame!Seated, TurnGame!Range
    <3>6. InOrder(h) = [j \in 1..(PlayerCount - 1) |-> InOrder(players)[IF j <= i THEN j ELSE j + 1]]
      BY <1>8, <2>1, RowShrinks DEF PlayerCount
    <3>7. seats' = TurnGame!Without(p)
      BY <1>7, <3>4, <3>6 DEF TurnGame!Without, seats
    <3> QED
      BY <3>4, <3>5, <3>7
  <2>2. CASE PlayerCount = 1 /\ seats = <<p>>
    <3>1. p \in TurnGame!Seated
      BY <2>2 DEF TurnGame!Seated, TurnGame!Range
    <3>2. TurnGame!Without(p) = <<>>
      BY <2>2 DEF TurnGame!Without
    <3>3. InOrder(h) = <<>>
      <4>1. DOMAIN h = R /\ 1..Cardinality(R) = {}
        BY <1>8, <2>2
      <4>2. InOrder(h) = [j \in {} |-> CHOOSE q \in DOMAIN h : Before(h)[q] = j - 1]
        BY <4>1 DEF InOrder
      <4> QED
        BY <4>2
    <3> QED
      BY <2>2, <3>1, <3>2, <3>3 DEF seats
  <2> QED
    BY <1>7, <2>1, <2>2
<1>14. (known \ DOMAIN players)' = (known \ DOMAIN players) \cup {p}
  BY <1>1, <1>2, <1>3, <1>8 DEF TypeOK
<1>15. {t.player : t \in turns'} = {t.player : t \in turns}
  BY <1>3
<1>16. ForeignKeys => p \notin {t.player : t \in turns}
  OBVIOUS
<1>17. p \in Players
  BY <1>1, <1>2 DEF TypeOK
<1>18. TurnGame!Leave(p)
  BY <1>7, <1>11, <1>12, <1>13, <1>14, <1>15, <1>16 DEF TurnGame!Leave
<1> QED
  BY <1>10, <1>17, <1>18 DEF TurnGame!Next

\* What is left to do of a leave the game has already been shown: the count, ...
LEMMA LeaveCounts ==
  ASSUME Serial, StoreInv, NEW r \in Requests, AloneInv(r), LeaveCount(r)
  PROVE  AloneInv(r)' /\ UNCHANGED TurnGame!vars
<1>1. TypeOK /\ req[r] \in Frame /\ Current(r) /\ PlayerCount \in Nat
  BY Counting DEF StoreInv, TypeOK, AloneInv
<1>2. /\ At(r, "leave_count") /\ UNCHANGED <<game, players, known, turns, ended>>
      /\ req[r].idx = turnIndex /\ req[r].active = (status = "active")
  BY <1>1 DEF LeaveCount, files, news, Current, Leaving, At
<1>3. /\ req'[r].pc = IF PlayerCount < 2 THEN "leave_finish" ELSE "leave_shift"
      /\ req'[r].ord = req[r].ord /\ req'[r].idx = req[r].idx /\ req'[r].active = req[r].active
  <2>1. "leave_finish" \in Steps /\ "leave_shift" \in Steps
    BY DEF Steps
  <2> QED
    BY <1>1, <2>1, GotoFrame DEF LeaveCount
<1>4. PlayerCount' = PlayerCount
  BY <1>2 DEF PlayerCount
<1>5. /\ Ending(r)' <=> Ending(r)
      /\ Lowering(r)' <=> Lowering(r)
      /\ Closing(r)' <=> ~(PlayerCount < 2)
      /\ ~Advancing(r) /\ ~Advancing(r)' /\ ~At(r, "leave_end") /\ ~At(r, "leave_end")'
      /\ Closing(r) /\ (Ending(r) <=> PlayerCount < 2)
  BY <1>1, <1>2, <1>3, <1>4 DEF Ending, Lowering, Advancing, Closing, At
<1>6. Current(r)'
  BY <1>1, <1>2, <1>3, <1>4
  DEF game, Current, At, Ordering, InLobby, SeatRead, Uploading, Leaving
<1>7. AloneInv(r)'
  BY <1>2, <1>3, <1>4, <1>5, <1>6 DEF AloneInv, game
<1>8. phase' = phase /\ turn' = turn
  BY <1>2, <1>5, Alone, AlonePrimed DEF game
<1> QED
  BY <1>2, <1>7, <1>8, Stutters

\* ... the end of the game, ...
LEMMA LeaveFinishes ==
  ASSUME Serial, StoreInv, NEW r \in Requests, AloneInv(r), LeaveFinish(r) \/ LeaveEnd(r)
  PROVE  AloneInv(r)' /\ UNCHANGED TurnGame!vars
<1>1. TypeOK /\ req[r] \in Frame /\ Current(r)
  BY DEF StoreInv, TypeOK, AloneInv
<1>2. /\ UNCHANGED <<turnIndex, players, known, turns>> /\ PlayerCount' = PlayerCount
      /\ ~Lowering(r) /\ ~Advancing(r) /\ ~Closing(r)
  BY DEF LeaveFinish, LeaveEnd, files, game, PlayerCount, Lowering, Advancing, Closing, At
<1>3. CASE LeaveFinish(r)
  <2>1. req'[r].pc = "leave_end"
    <3>1. Keep(r, "leave_end", NoPlayer, 0) /\ "leave_end" \in Steps
      BY <1>3 DEF LeaveFinish, Steps
    <3> QED
      BY <1>1, <3>1, KeepFrame
  <2>2. Ending(r) /\ status' = "finished" /\ PlayerCount < 2
    BY <1>3 DEF LeaveFinish, Ending, AloneInv
  <2>3. Current(r)'
    BY <2>1, <2>2 DEF Current, At, Ordering, InLobby, SeatRead, Uploading, Leaving
  <2>4. ~Lowering(r)' /\ ~Advancing(r)' /\ At(r, "leave_end")'
    BY <2>1 DEF Lowering, Advancing, At
  <2>5. AloneInv(r)'
    BY <1>2, <2>2, <2>3, <2>4 DEF AloneInv
  <2>6. phase' = phase /\ turn' = turn
    BY <1>2, <2>2, <2>4, Alone, AlonePrimed
  <2> QED
    BY <1>2, <2>5, <2>6, Stutters
<1>4. CASE LeaveEnd(r)
  <2>1. Done(r) /\ ended' /\ status' = status /\ status = "finished" /\ At(r, "leave_end")
    BY <1>1, <1>4 DEF LeaveEnd, Current, game
  <2>2. Current(r)' /\ Plain(r)'
    BY <1>1, <2>1, DoneCurrent
  <2>3. ~Lowering(r)' /\ ~Advancing(r)'
    BY <2>2 DEF Plain, Lowering, Advancing, At
  <2>4. AloneInv(r)'
    BY <1>2, <2>1, <2>2 DEF AloneInv
  <2>5. phase' = phase /\ turn' = turn
    BY <1>2, <2>1, <2>3, Alone, AlonePrimed
  <2> QED
    BY <1>2, <2>4, <2>5, Stutters
<1> QED
  BY <1>3, <1>4

\* ... the gap, which the mapping never showed, ...
LEMMA LeaveShifts ==
  ASSUME Serial, StoreInv, NEW r \in Requests, AloneInv(r), LeaveShift(r)
  PROVE  AloneInv(r)' /\ UNCHANGED TurnGame!vars
<1>1. /\ TypeOK /\ req[r] \in Frame /\ Current(r) /\ PlayerCount \in Nat
      /\ IsFiniteSet(DOMAIN players) /\ players \in [DOMAIN players -> Nat]
  BY Counting DEF StoreInv, TypeOK, AloneInv
<1> PICK i : i = req[r].ord
  OBVIOUS
<1>2. /\ At(r, "leave_shift") /\ UNCHANGED <<game, known, turns, ended>>
      /\ req[r].idx = turnIndex /\ req[r].active = (status = "active") /\ PlayerCount >= 2
      /\ i \in Nat
  BY <1>1 DEF LeaveShift, files, news, Current, Leaving, At, Frame
<1> PICK S : S = DOMAIN players
  OBVIOUS
<1> PICK f : f = players'
  OBVIOUS
<1>3. /\ DOMAIN f = S /\ f \in [S -> Int]
      /\ \A p \in S : f[p] = IF players[p] > i THEN players[p] - 1 ELSE players[p]
  BY <1>1, <1>2 DEF LeaveShift
<1>4. /\ ~Ending(r) /\ ~Advancing(r) /\ Closing(r) /\ ~At(r, "leave_end")
      /\ Lowering(r) <=> req[r].active /\ req[r].idx > req[r].ord
  BY <1>2 DEF Ending, Lowering, Advancing, Closing, At
<1>5. status # "finished" /\ Gapped(players, i)
  BY <1>1, <1>2, <1>4 DEF AloneInv
<1>6. f \in [S -> Nat] /\ Packed(f) /\ Agree(players, f)
  <2>1. IsFiniteSet(S) /\ players \in [S -> Nat]
    BY <1>1
  <2> QED
    BY <1>2, <1>3, <1>5, <2>1, GapCloses
<1>7. seats' = seats /\ PlayerCount' = PlayerCount
  <2>1. players \in [S -> Nat]
    BY <1>1
  <2>2. InOrder(players) = InOrder(f)
    BY <1>6, <2>1, SameOrder
  <2> QED
    BY <1>3, <2>2 DEF seats, PlayerCount
<1>8. CASE req[r].active /\ req[r].idx > req[r].ord
  <2>1. /\ req'[r].pc = "leave_index" /\ req'[r].ord = req[r].ord
        /\ req'[r].idx = req[r].idx /\ req'[r].active = req[r].active
    <3>1. Goto(r, "leave_index") /\ "leave_index" \in Steps
      BY <1>8 DEF LeaveShift, Steps
    <3> QED
      BY <1>1, <3>1, GotoFrame
  <2>2. ~Ending(r)' /\ Lowering(r)' /\ ~Advancing(r)' /\ ~Closing(r)' /\ ~At(r, "leave_end")'
    BY <1>2, <1>7, <1>8, <2>1 DEF Ending, Lowering, Advancing, Closing, At
  <2>3. Current(r)'
    BY <1>2, <1>7, <1>8, <2>1
    DEF game, Current, At, Ordering, InLobby, SeatRead, Uploading, Leaving
  <2>4. AloneInv(r)'
    BY <1>2, <1>4, <1>5, <1>6, <1>7, <2>2, <2>3 DEF AloneInv, game
  <2>5. phase' = phase /\ turn' = turn
    BY <1>2, <1>4, <1>8, <2>2, Alone, AlonePrimed DEF game
  <2> QED
    BY <1>2, <1>3, <1>7, <2>4, <2>5 DEF TurnGame!vars
<1>9. CASE ~(req[r].active /\ req[r].idx > req[r].ord)
  <2>1. Current(r)' /\ Plain(r)'
    BY <1>1, <1>9, DoneCurrent DEF LeaveShift
  <2>2. ~Ending(r)' /\ ~Lowering(r)' /\ ~Advancing(r)' /\ ~Closing(r)' /\ ~At(r, "leave_end")'
    BY <2>1 DEF Plain, Ending, Lowering, Advancing, Closing, At
  <2>3. AloneInv(r)'
    BY <1>2, <1>4, <1>5, <1>6, <1>7, <2>1, <2>2 DEF AloneInv, game
  <2>4. phase' = phase /\ turn' = turn
    BY <1>2, <1>4, <1>9, <2>2, Alone, AlonePrimed DEF game
  <2> QED
    BY <1>2, <1>3, <1>7, <2>3, <2>4 DEF TurnGame!vars
<1> QED
  BY <1>8, <1>9

\* ... and the index.
LEMMA LeaveLowers ==
  ASSUME Serial, StoreInv, NEW r \in Requests, AloneInv(r), LeaveIndex(r)
  PROVE  AloneInv(r)' /\ UNCHANGED TurnGame!vars
<1>1. TypeOK /\ req[r] \in Frame /\ Current(r) /\ FrameOK(r)
  BY DEF StoreInv, TypeOK, AloneInv
<1>2. /\ At(r, "leave_index") /\ UNCHANGED <<status, players, known, turns, ended>>
      /\ req[r].idx = turnIndex /\ req[r].active /\ status = "active"
      /\ PlayerCount >= 2 /\ req[r].idx > req[r].ord
  BY <1>1 DEF LeaveIndex, files, news, Current, Leaving, At, FrameOK
<1>3. turnIndex' = turnIndex - 1 /\ Done(r) /\ PlayerCount' = PlayerCount
  BY <1>2 DEF LeaveIndex, PlayerCount
<1>4. Current(r)' /\ Plain(r)'
  BY <1>1, <1>3, DoneCurrent
<1>5. /\ ~Ending(r) /\ Lowering(r) /\ ~Advancing(r) /\ ~Closing(r) /\ ~At(r, "leave_end")
      /\ ~Ending(r)' /\ ~Lowering(r)' /\ ~Advancing(r)' /\ ~Closing(r)' /\ ~At(r, "leave_end")'
  BY <1>2, <1>4 DEF Plain, Ending, Lowering, Advancing, Closing, At
<1>6. AloneInv(r)'
  BY <1>2, <1>3, <1>4, <1>5 DEF AloneInv
<1>7. phase' = phase /\ turn' = turn
  BY <1>2, <1>3, <1>5, Alone, AlonePrimed
<1> QED
  BY <1>2, <1>6, <1>7, Stutters

-----------------------------------------------------------------------------
\* The invariant and the mapping, step by step.

LEMMA InitSerial ==
  ASSUME Init
  PROVE  SerialInv /\ TurnGame!Init
<1>1. /\ status = "none" /\ turnIndex = 0 /\ DOMAIN players = {} /\ known = {} /\ turns = {}
      /\ ended = FALSE /\ \A r \in Requests : req[r].pc = "idle"
  BY DEF Init, Idle
<1>2. \A r \in Requests : /\ ~Ending(r) /\ ~Lowering(r) /\ ~Advancing(r) /\ ~Closing(r)
                          /\ ~At(r, "leave_end") /\ Current(r)
  BY <1>1 DEF Ending, Lowering, Advancing, Closing, At, Current, Ordering, InLobby, SeatRead,
              Uploading, Leaving
<1>3. phase = "none" /\ turn = 0
  BY <1>1, <1>2 DEF phase, turn
<1>4. Packed(players) /\ PlayerCount = 0
  <2>1. PlayerCount = 0
    BY <1>1, FS_EmptySet DEF PlayerCount
  <2>2. Range(players) = {} /\ 0..(PlayerCount - 1) = {} /\ IsInjective(players)
    BY <1>1, <2>1 DEF Range, IsInjective
  <2> QED
    BY <2>1, <2>2 DEF Packed, PlayerCount
<1>5. SerialInv
  BY <1>1, <1>2, <1>3, <1>4 DEF SerialInv, InRow
<1>6. seats = <<>>
  <2>1. 1..PlayerCount = {}
    BY <1>4
  <2>2. seats = [i \in {} |-> CHOOSE p \in DOMAIN players : Before(players)[p] = i - 1]
    BY <2>1 DEF seats, InOrder, PlayerCount
  <2> QED
    BY <2>2
<1>7. known \ DOMAIN players = {} /\ {t.player : t \in turns} = {}
  BY <1>1
<1> QED
  BY <1>3, <1>5, <1>6, <1>7 DEF TurnGame!Init

LEMMA StepSerial ==
  ASSUME Serial, StoreInv, SerialInv, [Next]_vars
  PROVE  SerialInv' /\ [TurnGame!Next]_(TurnGame!vars)
<1>1. CASE CreateGame
  BY <1>1, CreateGameCreates DEF TurnGame!Next
<1>2. ASSUME NEW r \in Requests,
             Join(r) \/ SetTurnOrder(r) \/ Start(r) \/ Upload(r) \/ Leave(r) \/ Fail(r)
      PROVE  SerialInv' /\ [TurnGame!Next]_(TurnGame!vars)
  <2>1. AloneInv(r) /\ (AloneInv(r)' => SerialInv')
    BY Alone, AlonePrimed
  <2>2. CASE Join(r)
    BY <2>1, <2>2, JoinReads, JoinInsertJoins DEF Join, TurnGame!Next
  <2>3. CASE SetTurnOrder(r)
    BY <2>1, <2>3, OrderReads, OrderCommitReorders DEF SetTurnOrder, TurnGame!Next
  <2>4. CASE Start(r)
    BY <2>1, <2>4, TokenReads, StartReads, StartUpdateStarts DEF Start, TurnGame!Next
  <2>5. CASE Upload(r)
    BY <2>1, <2>5, TokenReads, UploadReads, UploadInsertPlays, UploadFinishes
    DEF Upload, TurnGame!Next
  <2>6. CASE Leave(r)
    <3>1. CASE LeaveDelete(r) /\ ForeignKeys /\ \E t \in turns : t.player = req[r].who
      <4>1. TypeOK /\ Plain(r) /\ Done(r) /\ UNCHANGED <<game, players, known, turns, ended>>
        BY <3>1 DEF StoreInv, LeaveDelete, Plain, At, files, news
      <4> QED
        BY <2>1, <4>1, Refused
    <3>2. CASE LeaveDelete(r) /\ ~(ForeignKeys /\ \E t \in turns : t.player = req[r].who)
      BY <2>1, <3>2, LeaveDeleteLeaves
    <3>3. CASE LeavePlayer(r) \/ LeaveGame(r) \/ LeaveCount(r)
      BY <2>1, <3>3, TokenReads, LeaveGameReads, LeaveCounts
    <3>4. CASE LeaveFinish(r) \/ LeaveShift(r) \/ LeaveIndex(r) \/ LeaveEnd(r)
      BY <2>1, <3>4, LeaveFinishes, LeaveShifts, LeaveLowers
    <3> QED
      BY <2>6, <3>1, <3>2, <3>3, <3>4 DEF Leave
  <2>7. CASE Fail(r)
    BY <2>7 DEF Fail, Serial
  <2> QED
    BY <1>2, <2>2, <2>3, <2>4, <2>5, <2>6, <2>7
<1>3. CASE UNCHANGED vars
  <2>1. SerialInv'
    BY <1>3 DEF vars, SerialInv, InRow, phase, Packed, Gapped, PlayerCount, Holders, Ending,
                Closing, Current, At, Ordering, InLobby, SeatRead, Uploading, Leaving
  <2>2. phase' = phase /\ turn' = turn
    BY <1>3 DEF vars, phase, turn, Ending, Lowering, Advancing, At, PlayerCount
  <2> QED
    BY <1>3, <2>1, <2>2, Stutters DEF vars
<1> QED
  BY <1>1, <1>2, <1>3 DEF Next

\* What a request that is alone has read stays true to its end, and the seats are in a row
\* but for the gap LeaveGame is about to close.
THEOREM SerialInvariance == ASSUME Serial PROVE Spec => []SerialInv
<1>1. Init => SerialInv
  BY InitSerial
<1>2. StoreInv /\ SerialInv /\ [Next]_vars => SerialInv'
  BY StepSerial
<1> QED
  BY <1>1, <1>2, StoreInvariance, PTL DEF Spec

\* Between requests the seats of n players are 0..n-1, one each: JoinGame appends, SetTurnOrder
\* permutes and LeaveGame closes the gap, however many players there are.
THEOREM SeatsInARow == ASSUME Serial PROVE Spec => []SeatsDense
<1>1. SerialInv => SeatsDense
  <2> SUFFICES ASSUME SerialInv, Quiet, status # "finished"
               PROVE  Range(players) = 0..(PlayerCount - 1)
    BY DEF SeatsDense
  <2>1. phase = status /\ \A r \in Requests : ~Closing(r)
    BY DEF Quiet, phase, Ending, Closing, At
  <2>2. Packed(players)
    BY <2>1 DEF SerialInv, InRow
  <2> QED
    BY <2>2 DEF Packed, PlayerCount
<1> QED
  BY <1>1, SerialInvariance, PTL

\* Between requests a game in play has two players, and a game is over exactly when handleLeave
\* has said so.
THEOREM TwoInPlay == ASSUME Serial PROVE Spec => []ActiveHasTwo
<1>1. SerialInv => ActiveHasTwo
  <2> SUFFICES ASSUME SerialInv, Quiet
               PROVE  (status = "active" => PlayerCount >= 2) /\ (status = "finished" <=> ended)
    BY DEF ActiveHasTwo
  <2>1. phase = status /\ \A r \in Requests : ~At(r, "leave_end")
    BY DEF Quiet, phase, Ending, At
  <2> QED
    BY <2>1 DEF SerialInv, InRow
<1> QED
  BY <1>1, SerialInvariance, PTL

\* handleUpload tells exactly the players whose turn it then is, mail and socket together.
THEOREM TellsTheHolder == ASSUME Serial PROVE Spec => UploadTellsHolder
<1>1. ASSUME NEW r \in Requests, StoreInv, SerialInv, [Next]_vars,
             At(r, "upload_tell"), ~At(r, "upload_tell")'
      PROVE  told' = Holders(turnIndex)
  <2>1. TypeOK /\ Current(r) /\ ~Failures /\ \A s \in Requests : s = r
    BY <1>1, Zenon DEF StoreInv, SerialInv, Serial
  <2>2. told \subseteq Holders(turnIndex) /\ req[r].idx = turnIndex
    BY <1>1, <2>1 DEF Current
  <2>3. ~CreateGame /\ vars' # vars
    BY <1>1 DEF CreateGame, vars, At
  <2>4. Join(r) \/ SetTurnOrder(r) \/ Start(r) \/ Upload(r) \/ Leave(r)
    BY <1>1, <2>1, <2>3 DEF Next, Fail
  <2>5. ~Join(r) /\ ~SetTurnOrder(r)
    BY <1>1 DEF At, Join, JoinLookup, JoinCount, JoinInsert,
                SetTurnOrder, OrderPlayer, OrderGame, OrderCommit
  <2>6. ~Start(r)
    BY <1>1 DEF At, Start, StartPlayer, PlayerByToken, StartGame, StartCount, StartUpdate
  <2>7. ~Leave(r)
    BY <1>1 DEF At, Leave, LeavePlayer, PlayerByToken, LeaveGame, LeaveDelete, LeaveCount,
                LeaveFinish, LeaveShift, LeaveIndex, LeaveEnd
  <2>8. Upload(r) => UploadTell(r)
    BY <1>1 DEF At, Upload, UploadPlayer, PlayerByToken, UploadGame, UploadPut, UploadInsert,
                UploadCount, UploadAdvance, UploadMail
  <2> QED
    BY <2>1, <2>2, <2>4, <2>5, <2>6, <2>7, <2>8 DEF UploadTell
<1>2. StoreInv /\ SerialInv /\ [Next]_vars =>
        [\A r \in Requests :
           At(r, "upload_tell") /\ ~At(r, "upload_tell")' => told' = Holders(turnIndex)]_vars
  BY <1>1
<1> QED
  BY <1>2, StoreInvariance, SerialInvariance, PTL DEF Spec, UploadTellsHolder

\* Each write of a handler is one step of the game's rules or none: UploadTurn plays where it
\* inserts the row, LeaveGame leaves where it deletes it.
THEOREM PlaysTheGame == ASSUME Serial PROVE Spec => ImplementsTurnGame
<1>1. Init => TurnGame!Init
  BY InitSerial
<1>2. StoreInv /\ SerialInv /\ [Next]_vars => [TurnGame!Next]_(TurnGame!vars)
  BY StepSerial
<1> QED
  BY <1>1, <1>2, StoreInvariance, SerialInvariance, PTL DEF Spec, ImplementsTurnGame
=============================================================================
