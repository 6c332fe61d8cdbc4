--------------------------- MODULE TurnGameProofs ---------------------------
(***************************************************************************)
(* The rules of TurnGame keep RowInv for any set of players, and what a    *)
(* step does to the turn follows from it.                                  *)
(***************************************************************************)
EXTENDS TurnGame, TLAPS

LEMMA SeatFound ==
  ASSUME TypeOK, NEW p \in Seated
  PROVE  Seat(p) \in 0..(Len(seats) - 1) /\ seats[Seat(p) + 1] = p /\ Len(seats) \in Nat
<1>1. \E i \in 1..Len(seats) : seats[i] = p
  BY DEF Seated, Range, TypeOK
<1>2. PICK i \in 1..Len(seats) : seats[i] = p
  BY <1>1
<1>3. i - 1 \in 0..(Len(seats) - 1) /\ seats[(i - 1) + 1] = p /\ Len(seats) \in Nat
  BY <1>2 DEF TypeOK
<1> QED
  BY <1>3 DEF Seat

\* Who leaves is gone from the row, and the others are in it as before, nobody twice.
LEMMA RowWithout ==
  ASSUME TypeOK, IsInjective(seats), NEW p \in Seated
  PROVE  /\ Without(p) \in Seq(Players)
         /\ Len(Without(p)) = Len(seats) - 1
         /\ \A i \in 1..(Len(seats) - 1) : Without(p)[i] = seats[IF i <= Seat(p) THEN i ELSE i + 1]
         /\ IsInjective(Without(p))
         /\ p \notin Range(Without(p))
<1> DEFINE n == Len(seats) - 1
           k == Seat(p)
           w == Without(p)
<1>1. k \in 0..n /\ seats[k + 1] = p /\ n \in Nat /\ Len(seats) \in Nat
  BY SeatFound
<1>2. \A i \in 1..(n + 1) : seats[i] \in Players
  BY DEF TypeOK
<1>3. \A i, j \in 1..(n + 1) : seats[i] = seats[j] => i = j
  BY DEF TypeOK, IsInjective
<1>4. w = [i \in 1..n |-> seats[IF i <= k THEN i ELSE i + 1]]
  BY DEF Without
<1> HIDE DEF n, k, w
<1>5. w \in Seq(Players) /\ Len(w) = n /\ DOMAIN w = 1..n
  <2>1. \A i \in 1..n : seats[IF i <= k THEN i ELSE i + 1] \in Players
    BY <1>1, <1>2
  <2>2. w \in [1..n -> Players]
    BY <1>4, <2>1
  <2> QED
    BY <1>1, <2>2
<1>6. \A i \in 1..n : w[i] = seats[IF i <= k THEN i ELSE i + 1]
  BY <1>4
<1>7. IsInjective(w)
  BY <1>1, <1>3, <1>5, <1>6 DEF IsInjective
<1>8. \A i \in 1..n : w[i] # p
  BY <1>1, <1>3, <1>6
<1> QED
  BY <1>5, <1>6, <1>7, <1>8 DEF Range, n, k, w

LEMMA NextSeat ==
  ASSUME NEW t \in Nat, NEW n \in Nat, t < n
  PROVE  /\ (t + 1) % n \in 0..(n - 1)
         /\ t + 1 < n => (t + 1) % n = t + 1
  OBVIOUS

LEMMA InitInv == Init => RowInv
  BY DEF Init, RowInv, TypeOK, TurnInRow, IsInjective

LEMMA JoinInv == ASSUME RowInv, Join PROVE RowInv'
<1>1. PICK p \in Players \ (Seated \cup gone) : seats' = Append(seats, p)
  BY DEF Join
<1>2. /\ seats \in Seq(Players) /\ seats' \in Seq(Players) /\ Len(seats') = Len(seats) + 1
      /\ DOMAIN seats' = 1..Len(seats) + 1 /\ DOMAIN seats = 1..Len(seats) /\ Len(seats) \in Nat
      /\ seats'[Len(seats) + 1] = p /\ \A i \in 1..Len(seats) : seats'[i] = seats[i] /\ seats[i] # p
  BY <1>1 DEF RowInv, TypeOK, Seated, Range
<1>3. IsInjective(seats')
  BY <1>2 DEF RowInv, IsInjective
<1> QED
  BY <1>2, <1>3 DEF Join, RowInv, TypeOK, TurnInRow

LEMMA ReorderInv == ASSUME RowInv, Reorder PROVE RowInv'
<1>1. PICK s \in [1..Len(seats) -> Seated] : IsInjective(s) /\ seats' = s
  BY DEF Reorder
<1>2. s \in Seq(Players)
  <2>1. Seated \subseteq Players /\ Len(seats) \in Nat
    BY DEF RowInv, TypeOK, Seated, Range
  <2> QED
    BY <2>1
<1> QED
  BY <1>1, <1>2 DEF Reorder, RowInv, TypeOK, TurnInRow

LEMMA PlayInv == ASSUME RowInv, Play PROVE RowInv'
<1>1. turn \in Nat /\ Len(seats) \in Nat /\ turn < Len(seats) /\ seats[turn + 1] \in Players
  BY DEF RowInv, TypeOK, Play, Vacant
<1>2. turn' \in 0..(Len(seats) - 1)
  BY <1>1, NextSeat DEF Play
<1> QED
  BY <1>1, <1>2 DEF Play, RowInv, TypeOK, TurnInRow

LEMMA LeaveInv == ASSUME RowInv, NEW p \in Players, Leave(p) PROVE RowInv'
<1>1. /\ p \in Seated /\ seats' = Without(p)
      /\ Without(p) \in Seq(Players) /\ Len(Without(p)) = Len(seats) - 1 /\ IsInjective(Without(p))
      /\ Seat(p) \in 0..(Len(seats) - 1) /\ Len(seats) \in Nat
  BY RowWithout, SeatFound DEF RowInv, Leave
<1>2. turn' \in Nat
  BY <1>1 DEF Leave, RowInv, TypeOK
<1>3. TypeOK'
  BY <1>1, <1>2 DEF Leave, RowInv, TypeOK
<1>4. TurnInRow'
  BY <1>1 DEF Leave, RowInv, TypeOK, TurnInRow
<1> QED
  BY <1>1, <1>3, <1>4 DEF RowInv

LEMMA StepInv == ASSUME RowInv, [Next]_vars PROVE RowInv'
<1>1. CASE Create
  <2>1. PICK p \in Players : seats' = <<p>>
    BY <1>1 DEF Create
  <2>2. seats' \in Seq(Players) /\ DOMAIN seats' = 1..1
    BY <2>1
  <2> QED
    BY <1>1, <2>2 DEF Create, RowInv, TypeOK, TurnInRow, IsInjective
<1>2. CASE Start
  BY <1>2 DEF Start, RowInv, TypeOK, TurnInRow
<1>3. CASE UNCHANGED vars
  BY <1>3 DEF vars, RowInv, TypeOK, TurnInRow
<1> QED
  BY <1>1, <1>2, <1>3, JoinInv, ReorderInv, PlayInv, LeaveInv DEF Next

\* RowInv is inductive: joins, new orders, turns and leaves in any order.
THEOREM RowInvariance == Spec => []RowInv
  BY InitInv, StepInv, PTL DEF Spec

\* However many players there are and leave, the turn is with a seat or just behind the
\* last one.
THEOREM TurnStaysInRow == Spec => []TurnInRow
  BY RowInvariance, PTL DEF RowInv

-----------------------------------------------------------------------------
\* What becomes of the turn that p has when q leaves a game that goes on.
LEMMA LeaveTurn ==
  ASSUME RowInv, NEW p \in Players, NEW q \in Players, HasTurn(p), Leave(q), phase' = "active"
  PROVE  /\ p # q => HasTurn(p)'
         /\ p = q /\ ~Vacant' => turn + 1 < Len(seats) /\ seats'[turn' + 1] = seats[turn + 2]
<1> DEFINE n == Len(seats) - 1
           k == Seat(q)
<1>1. /\ q \in Seated /\ seats' = Without(q)
      /\ Len(Without(q)) = n
      /\ \A i \in 1..n : Without(q)[i] = seats[IF i <= k THEN i ELSE i + 1]
      /\ k \in 0..n /\ n \in Nat /\ seats[k + 1] = q /\ Len(seats) = n + 1
  BY RowWithout, SeatFound DEF RowInv, Leave
<1>2. turn \in 0..n /\ seats[turn + 1] = p /\ phase = "active"
  BY DEF HasTurn, Vacant, RowInv, TypeOK
<1>3. \A i, j \in 1..(n + 1) : seats[i] = seats[j] => i = j
  BY DEF RowInv, TypeOK, IsInjective
<1>4. turn' = IF turn > k THEN turn - 1 ELSE turn
  BY <1>1, <1>2 DEF Leave
<1> HIDE DEF n, k
<1>5. ASSUME p # q PROVE HasTurn(p)'
  <2>1. turn # k
    BY <1>1, <1>2, <1>5
  <2>2. turn' \in 0..(n - 1) /\ seats'[turn' + 1] = p
    BY <1>1, <1>2, <1>4, <2>1
  <2> QED
    BY <1>1, <2>2 DEF HasTurn, Vacant
<1>6. ASSUME p = q, ~Vacant' PROVE turn + 1 < Len(seats) /\ seats'[turn' + 1] = seats[turn + 2]
  <2>1. turn = k
    BY <1>1, <1>2, <1>3, <1>6
  <2>2. turn' = turn /\ turn < n
    BY <1>1, <1>4, <1>6, <2>1 DEF Vacant
  <2> QED
    BY <1>1, <1>2, <2>1, <2>2
<1> QED
  BY <1>5, <1>6

\* A leave never takes the turn from a player who stays in a game that goes on.
THEOREM LeaveKeepsTurn == Spec => TurnStays
<1> DEFINE Kept == \A p \in Players : HasTurn(p) /\ Range(seats') # Seated /\ p \in Range(seats') =>
                     HasTurn(p)' \/ phase' = "finished"
<1>1. ASSUME RowInv, [Next]_vars PROVE [Kept]_vars
  <2> SUFFICES ASSUME Next, NEW p \in Players, HasTurn(p), Range(seats') # Seated, p \in Range(seats'),
                      phase' # "finished"
               PROVE  HasTurn(p)'
    BY <1>1
  <2>1. ~Create /\ ~Join /\ ~Reorder /\ ~Start
    BY DEF HasTurn, Create, Join, Reorder, Start
  <2>2. ~Play
    BY DEF Play, Seated
  <2>3. PICK q \in Players : Leave(q)
    BY <2>1, <2>2 DEF Next
  <2>4. p # q
    BY <1>1, <2>3, RowWithout DEF Leave, RowInv
  <2>5. phase' = "active"
    BY <2>3 DEF Leave, HasTurn
  <2> QED
    BY <1>1, <2>3, <2>4, <2>5, LeaveTurn
<1> QED
  BY <1>1, RowInvariance, PTL DEF Spec, TurnStays

\* A turn that passes goes to the next seat still taken.
THEOREM TurnGoesToNext == Spec => PassesToNext
<1> DEFINE Passed == \A p \in Players : HasTurn(p) /\ phase' = "active" /\ ~HasTurn(p)' /\ ~Vacant' =>
                       seats'[turn' + 1] = seats[((turn + 1) % Len(seats)) + 1]
<1>1. ASSUME RowInv, [Next]_vars PROVE [Passed]_vars
  <2> SUFFICES ASSUME Next, NEW p \in Players, HasTurn(p), phase' = "active", ~HasTurn(p)', ~Vacant'
               PROVE  seats'[turn' + 1] = seats[((turn + 1) % Len(seats)) + 1]
    BY <1>1
  <2>1. ~Create /\ ~Join /\ ~Reorder /\ ~Start
    BY DEF HasTurn, Create, Join, Reorder, Start
  <2>2. CASE Play
    BY <2>2 DEF Play
  <2>3. ASSUME NEW q \in Players, Leave(q) PROVE seats'[turn' + 1] = seats[((turn + 1) % Len(seats)) + 1]
    <3>1. turn + 1 < Len(seats) /\ seats'[turn' + 1] = seats[turn + 2]
      BY <1>1, <2>3, LeaveTurn
    <3>2. turn \in Nat /\ Len(seats) \in Nat
      BY <1>1 DEF RowInv, TypeOK
    <3>3. (turn + 1) % Len(seats) = turn + 1
      BY <3>1, <3>2, NextSeat
    <3> QED
      BY <3>1, <3>2, <3>3
  <2> QED
    BY <2>1, <2>2, <2>3 DEF Next
<1> QED
  BY <1>1, RowInvariance, PTL DEF Spec, PassesToNext
=============================================================================
