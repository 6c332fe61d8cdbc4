----------------------------- MODULE TurnGame -----------------------------
(***************************************************************************)
(* What a game promises its players: seats in a row, a turn that goes      *)
(* round them, and a row that closes up when somebody leaves.  Store, one  *)
(* request at a time, implements it (module StoreTurns).                   *)
(***************************************************************************)
EXTENDS Integers, Sequences, FiniteSets, Functions

CONSTANTS
  Players,      \* everybody who may ever take a seat
  AuthorsStay   \* who has played can no longer leave

ASSUME TurnGameAssumption == IsFiniteSet(Players) /\ AuthorsStay \in BOOLEAN

VARIABLES
  phase,   \* "none", "lobby", "active" or "finished"
  seats,   \* the players in seat order
  turn,    \* the seat whose turn it is, counted from 0
  gone,    \* those who have left
  played   \* those who have played a turn

vars == <<phase, seats, turn, gone, played>>

Seated == Range(seats)

\* The seat of p, counted from 0.
Seat(p) == CHOOSE i \in 0..(Len(seats) - 1) : seats[i + 1] = p

\* Leaving the last seat while holding the turn leaves the turn with nobody.
Vacant == turn >= Len(seats)

HasTurn(p) == phase = "active" /\ ~Vacant /\ seats[turn + 1] = p

\* Those behind p move up.
Without(p) == [i \in 1..(Len(seats) - 1) |-> seats[IF i <= Seat(p) THEN i ELSE i + 1]]

TypeOK ==
  /\ phase \in {"none", "lobby", "active", "finished"}
  /\ seats \in Seq(Players)
  /\ turn \in Nat
  /\ gone \subseteq Players
  /\ played \subseteq Players

Init ==
  /\ phase = "none"
  /\ seats = <<>>
  /\ turn = 0
  /\ gone = {}
  /\ played = {}

Create ==
  /\ phase = "none"
  /\ phase' = "lobby"
  /\ \E p \in Players : seats' = <<p>>
  /\ UNCHANGED <<turn, gone, played>>

Join ==
  /\ phase = "lobby"
  /\ \E p \in Players \ (Seated \cup gone) : seats' = Append(seats, p)
  /\ UNCHANGED <<phase, turn, gone, played>>

Reorder ==
  /\ phase = "lobby"
  /\ \E s \in [1..Len(seats) -> Seated] : IsInjective(s) /\ Range(s) = Seated /\ seats' = s
  /\ UNCHANGED <<phase, turn, gone, played>>

Start ==
  /\ phase = "lobby"
  /\ Len(seats) >= 2
  /\ phase' = "active"
  /\ turn' = 0
  /\ UNCHANGED <<seats, gone, played>>

\* Fault: the last seat is passed over.
PlaySkipsLast ==
  /\ phase = "active"
  /\ ~Vacant
  /\ played' = played \cup {seats[turn + 1]}
  /\ turn' = (turn + 1) % (Len(seats) - 1)
  /\ UNCHANGED <<phase, seats, gone>>

Play ==
  /\ phase = "active"
  /\ ~Vacant
  /\ played' = played \cup {seats[turn + 1]}
  /\ turn' = (turn + 1) % Len(seats)
  /\ UNCHANGED <<phase, seats, gone>>

\* Fault: the turn stays where it is when somebody before it leaves.
LeaveUnmoved(p) ==
  /\ p \in Seated
  /\ AuthorsStay => p \notin played
  /\ seats' = Without(p)
  /\ gone' = gone \cup {p}
  /\ phase' = IF Len(seats) - 1 < 2 THEN "finished" ELSE phase
  /\ UNCHANGED <<turn, played>>

\* The game goes on while two are left; those behind p move up, and the turn
\* moves with them.
Leave(p) ==
  /\ p \in Seated
  /\ AuthorsStay => p \notin played
  /\ seats' = Without(p)
  /\ gone' = gone \cup {p}
  /\ phase' = IF Len(seats) - 1 < 2 THEN "finished" ELSE phase
  /\ turn' = IF Len(seats) - 1 >= 2 /\ phase = "active" /\ turn > Seat(p) THEN turn - 1 ELSE turn
  /\ UNCHANGED played

Next == Create \/ Join \/ Reorder \/ Start \/ Play \/ \E p \in Players : Leave(p)

Spec == Init /\ [][Next]_vars

-----------------------------------------------------------------------------
\* The turn is with a seat or just behind the last one, where only a leave from
\* the last seat can put it (store.go, LeaveGame: the index is lowered only when it
\* is greater than the seat left).
TurnInRow == phase = "active" => turn \in 0..Len(seats) /\ Len(seats) >= 2

\* Nobody has two seats.
RowInv == TypeOK /\ IsInjective(seats) /\ TurnInRow

\* A leave never takes the turn from a player who stays in a game that goes on,
\* wherever the leaver sat.
TurnStays ==
  [][\A p \in Players : HasTurn(p) /\ Range(seats') # Seated /\ p \in Range(seats') =>
       HasTurn(p)' \/ phase' = "finished"]_vars

\* A turn that passes to a neighbour on a play goes to the next seat still taken,
\* and a leave hands it to whoever sat behind the leaver.
PassesToNext ==
  [][\A p \in Players : HasTurn(p) /\ phase' = "active" /\ ~HasTurn(p)' /\ ~Vacant' =>
       seats'[turn' + 1] = seats[((turn + 1) % Len(seats)) + 1]]_vars
=============================================================================
