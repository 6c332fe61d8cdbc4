------------------------------- MODULE Store -------------------------------
(***************************************************************************)
(* One game in the server: its rows in the tables games, players and      *)
(* turns, its blobs, and the HTTP handlers that work on them               *)
(* (internal/server/store.go, called from internal/server/handlers.go).    *)
(*                                                                         *)
(* net/http runs every request in a goroutine of its own and only          *)
(* CreateGame and SetTurnOrder use a transaction, so every other database  *)
(* call is a step of its own: what a handler read in an earlier step may   *)
(* be stale when a later one uses it.  A request keeps its local variables *)
(* in a frame.  A request that is refused (unknown token, token of another *)
(* game, game not in the lobby) changes nothing and just gives its frame   *)
(* up; a token of another game is refused as an unknown one is, so one     *)
(* game is enough.                                                         *)
(***************************************************************************)
EXTENDS Integers, FiniteSets, Sequences, Functions

CONSTANTS
  Players,      \* the player ids (uuid.NewString) that may ever be issued
  Requests,     \* the request goroutines; one element means requests are serial
  NoPlayer,     \* no player: the NULL of host_player_id and of a frame
  ForeignKeys,  \* the database enforces REFERENCES: PostgreSQL, or SQLite with
                \* the pragma foreign_keys(1) of the default DSN
  Failures,     \* a handler may die between two steps: database error,
                \* cancelled request context, crash of the server
  HostOrders,   \* what turn orders the host sends: "none", "full" (every player
                \* once) or "any" (whatever the body of the PATCH lists: players
                \* repeated, left out, or gone)
  MaxList,      \* bound: the longest list sent under "any"
  MaxTurns      \* bound: no upload is admitted once this many blobs are stored

ASSUME StoreAssumption ==
  /\ IsFiniteSet(Players)
  /\ NoPlayer \notin Players
  /\ ForeignKeys \in BOOLEAN
  /\ Failures \in BOOLEAN
  /\ HostOrders \in {"none", "full", "any"}
  /\ MaxList \in Nat
  /\ MaxTurns \in Nat

VARIABLES
  status,     \* games.status, "none" before the row exists
  turnIndex,  \* games.current_turn_index
  host,       \* games.host_player_id
  players,    \* the rows of players: players[p] is p's turn_order
  known,      \* the player ids issued so far
  blobs,      \* the turn ids whose blob is stored
  turns,      \* the rows of turns; ids grow with uploaded_at
  told,       \* whom the last upload told "your turn", by mail or socket
  ended,      \* "game_ended" has been broadcast
  req         \* the frame of every request

vars == <<status, turnIndex, host, players, known, blobs, turns, told, ended, req>>

Statuses == {"none", "lobby", "active", "finished"}

Steps == {"idle", "join_count", "join_insert", "order_game", "order_tx",
          "start_game", "start_count", "start_update",
          "upload_game", "upload_put", "upload_insert", "upload_count",
          "upload_advance", "upload_mail", "upload_tell",
          "leave_game", "leave_delete", "leave_count", "leave_finish",
          "leave_shift", "leave_index", "leave_end"}

\* The locals of a handler: the next call it makes, the player and the fields of
\* the player and game rows it has read, COUNT(*), turnID and the host's list.
Frame == [pc : Steps, who : Players \cup {NoPlayer}, ord : Nat, active : BOOLEAN,
          idx : Nat, count : Nat, turn : Nat, list : Seq(Players)]

Idle == [pc |-> "idle", who |-> NoPlayer, ord |-> 0, active |-> FALSE,
         idx |-> 0, count |-> 0, turn |-> 0, list |-> <<>>]

Turn == [id : Nat, player : Players]

TypeOK ==
  /\ status \in Statuses
  /\ turnIndex \in Nat
  /\ host \in Players \cup {NoPlayer}
  /\ DOMAIN players \subseteq known
  /\ players \in [DOMAIN players -> Nat]
  /\ known \subseteq Players
  /\ blobs \subseteq Nat
  /\ IsFiniteSet(blobs)
  /\ turns \subseteq Turn
  /\ told \subseteq Players
  /\ ended \in BOOLEAN
  /\ req \in [Requests -> Frame]

Init ==
  /\ status = "none"
  /\ turnIndex = 0
  /\ host = NoPlayer
  /\ players = [p \in {} |-> 0]
  /\ known = {}
  /\ blobs = {}
  /\ turns = {}
  /\ told = {}
  /\ ended = FALSE
  /\ req = [r \in Requests |-> Idle]

-----------------------------------------------------------------------------
game == <<status, turnIndex, host>>
files == <<blobs, turns>>
news == <<told, ended>>

At(r, pc) == req[r].pc = pc
Goto(r, pc) == req' = [req EXCEPT ![r].pc = pc]
Done(r) == req' = [req EXCEPT ![r] = Idle]

\* The handler goes on to pc and needs no more of its locals than these two.
Keep(r, pc, who, idx) == req' = [req EXCEPT ![r] = [Idle EXCEPT !.pc = pc, !.who = who, !.idx = idx]]

\* SELECT COUNT(*) FROM players WHERE game_id = ?
PlayerCount == Cardinality(DOMAIN players)

\* SELECT ... FROM players WHERE turn_order = ?
Holders(i) == {p \in DOMAIN players : players[p] = i}

\* The lists of player ids a host may send; SetTurnOrder asks nothing of them.
HostLists ==
  CASE HostOrders = "none" -> {}
    [] HostOrders = "full" -> {l \in [1..PlayerCount -> DOMAIN players] : IsInjective(l)}
    [] HostOrders = "any"  -> UNION {[1..n -> known] : n \in 0..MaxList}

-----------------------------------------------------------------------------
\* POST /games: the game row and its host, in one transaction.
CreateGame ==
  /\ status = "none"
  /\ \E p \in Players \ known :
       /\ host' = p
       /\ known' = known \cup {p}
       /\ players' = [q \in {p} |-> 0]
  /\ status' = "lobby"
  /\ turnIndex' = 0
  /\ UNCHANGED <<files, news, req>>

\* Bound: a join starts only while an id is left for every join under way.
IdLeft == Cardinality({r \in Requests : At(r, "join_count") \/ At(r, "join_insert")})
            < Cardinality(Players \ known)

\* POST /join: the game by its invite token, refused unless in the lobby ...
JoinLookup(r) ==
  /\ At(r, "idle")
  /\ status = "lobby"
  /\ IdLeft
  /\ Goto(r, "join_count")
  /\ UNCHANGED <<game, players, known, files, news>>

\* ... the number of players, which is the new player's seat ...
JoinCount(r) ==
  /\ At(r, "join_count")
  /\ req' = [req EXCEPT ![r].pc = "join_insert", ![r].count = PlayerCount]
  /\ UNCHANGED <<game, players, known, files, news>>

\* ... and the row.  The status is not looked at again.
JoinInsert(r) ==
  /\ At(r, "join_insert")
  /\ \E p \in Players \ known :
       /\ known' = known \cup {p}
       /\ players' = [q \in DOMAIN players \cup {p} |->
                        IF q = p THEN req[r].count ELSE players[q]]
  /\ Done(r)
  /\ UNCHANGED <<game, files, news>>

-----------------------------------------------------------------------------
\* First query of playerByToken, with which four of the handlers begin: the row
\* of the player whose client_token the request carries.
PlayerByToken(r, pc) ==
  /\ At(r, "idle")
  /\ \E p \in DOMAIN players :
       req' = [req EXCEPT ![r] = [Idle EXCEPT !.pc = pc, !.who = p, !.ord = players[p]]]
  /\ UNCHANGED <<game, players, known, files, news>>

StartPlayer(r) == PlayerByToken(r, "start_game")
LeavePlayer(r) == PlayerByToken(r, "leave_game")
UploadPlayer(r) == Cardinality(blobs) < MaxTurns /\ PlayerByToken(r, "upload_game")

\* PATCH /games/{id}/turn-order also carries the list the host has chosen.
OrderPlayer(r) ==
  /\ At(r, "idle")
  /\ \E p \in DOMAIN players, l \in HostLists :
       req' = [req EXCEPT ![r] = [Idle EXCEPT !.pc = "order_game", !.who = p, !.list = l]]
  /\ UNCHANGED <<game, players, known, files, news>>

\* Second query of playerByToken, gameByID, and the checks on what it returns.
HostInLobby(r) == host = req[r].who /\ status = "lobby"

OrderGame(r) ==
  /\ At(r, "order_game")
  /\ IF HostInLobby(r) THEN Goto(r, "order_tx") ELSE Done(r)
  /\ UNCHANGED <<game, players, known, files, news>>

\* Where the list names a player last.
LastAt(l, p) == CHOOSE i \in 1..Len(l) : l[i] = p /\ \A j \in (i + 1)..Len(l) : l[j] # p

\* One UPDATE per entry of the list, in its order and in a transaction, rolled back
\* when one of them hits no row: of a player listed twice the last position stays.
OrderCommit(r) ==
  /\ At(r, "order_tx")
  /\ LET l == req[r].list
         Seat(p) == LastAt(l, p) - 1
     IN players' = IF Range(l) \subseteq DOMAIN players
                   THEN [p \in DOMAIN players |-> IF p \in Range(l) THEN Seat(p) ELSE players[p]]
                   ELSE players
  /\ Done(r)
  /\ UNCHANGED <<game, known, files, news>>

\* POST /games/{id}/start
StartGame(r) ==
  /\ At(r, "start_game")
  /\ IF HostInLobby(r) THEN Keep(r, "start_count", NoPlayer, 0) ELSE Done(r)
  /\ UNCHANGED <<game, players, known, files, news>>

\* Fault: one player is enough.
StartCountAlone(r) ==
  /\ At(r, "start_count")
  /\ IF PlayerCount < 1 THEN Done(r) ELSE Goto(r, "start_update")
  /\ UNCHANGED <<game, players, known, files, news>>

StartCount(r) ==
  /\ At(r, "start_count")
  /\ IF PlayerCount < 2 THEN Done(r) ELSE Goto(r, "start_update")
  /\ UNCHANGED <<game, players, known, files, news>>

StartUpdate(r) ==
  /\ At(r, "start_update")
  /\ status' = "active"
  /\ turnIndex' = 0
  /\ Done(r)
  /\ UNCHANGED <<host, players, known, files, news>>

-----------------------------------------------------------------------------
\* POST /games/{id}/upload: is the game active and the turn the uploader's?
UploadGame(r) ==
  /\ At(r, "upload_game")
  /\ IF status = "active" /\ req[r].ord = turnIndex
     THEN Keep(r, "upload_put", req[r].who, turnIndex)
     ELSE Done(r)
  /\ UNCHANGED <<game, players, known, files, news>>

\* Fault: an error of Put is not looked at.
UploadPutUnchecked(r) ==
  /\ At(r, "upload_put")
  /\ LET id == Cardinality(blobs) + 1
     IN /\ blobs' \in {blobs, blobs \cup {id}}
        /\ req' = [req EXCEPT ![r].pc = "upload_insert", ![r].turn = id]
  /\ UNCHANGED <<game, players, known, turns, news>>

\* The blob is stored under a fresh turn id, and uploaded_at is taken after it;
\* a Put touches nothing another handler sees, so the two are one step and the
\* ids grow with uploaded_at.
UploadPut(r) ==
  /\ At(r, "upload_put")
  /\ LET id == Cardinality(blobs) + 1
     IN /\ blobs' = blobs \cup {id}
        /\ req' = [req EXCEPT ![r].pc = "upload_insert", ![r].turn = id]
  /\ UNCHANGED <<game, players, known, turns, news>>

\* INSERT INTO turns, an error when the player is gone and the reference enforced.
UploadInsert(r) ==
  /\ At(r, "upload_insert")
  /\ IF ForeignKeys /\ req[r].who \notin DOMAIN players
     THEN Done(r) /\ UNCHANGED turns
     ELSE /\ Goto(r, "upload_count")
          /\ turns' = turns \cup {[id |-> req[r].turn, player |-> req[r].who]}
  /\ UNCHANGED <<game, players, known, blobs, news>>

UploadCount(r) ==
  /\ At(r, "upload_count")
  /\ req' = [req EXCEPT ![r].pc = "upload_advance", ![r].count = PlayerCount]
  /\ UNCHANGED <<game, players, known, files, news>>

\* Fault: the turn does not come round to the first seat.
NextIndexUnwrapped(r) == req[r].idx + 1

\* nextIndex comes from the index read in UploadGame and the count just read.
NextIndex(r) == (req[r].idx + 1) % req[r].count

\* Fault: the game handed back to handleUpload keeps the old index.
UploadAdvanceStale(r) ==
  /\ At(r, "upload_advance")
  /\ IF req[r].count = 0
     THEN Done(r) /\ UNCHANGED turnIndex
     ELSE turnIndex' = NextIndex(r) /\ Keep(r, "upload_mail", NoPlayer, req[r].idx)
  /\ UNCHANGED <<status, host, players, known, files, news>>

\* % 0 panics; net/http recovers and drops the connection.
UploadAdvance(r) ==
  /\ At(r, "upload_advance")
  /\ IF req[r].count = 0
     THEN Done(r) /\ UNCHANGED turnIndex
     ELSE turnIndex' = NextIndex(r) /\ Keep(r, "upload_mail", NoPlayer, NextIndex(r))
  /\ UNCHANGED <<status, host, players, known, files, news>>

\* The mail to the next player: NextPlayerEmail takes one row with the seat.  There
\* may be none, or no address in it, or the query or the mail fails: the handler
\* goes on.
UploadMail(r) ==
  /\ At(r, "upload_mail")
  /\ \/ told' = {}
     \/ \E p \in Holders(req[r].idx) : told' = {p}
  /\ Goto(r, "upload_tell")
  /\ UNCHANGED <<game, players, known, files, ended>>

\* BroadcastTurnChanged to the tokens that have the seat when the players are
\* read once more; an error of that query is dropped, and nobody has the seat.
UploadTell(r) ==
  /\ At(r, "upload_tell")
  /\ \/ told' = told \cup Holders(req[r].idx)
     \/ Failures /\ UNCHANGED told
  /\ Done(r)
  /\ UNCHANGED <<game, players, known, files, ended>>

-----------------------------------------------------------------------------
\* POST /games/{id}/leave: the game row, no condition on its status.
LeaveGame(r) ==
  /\ At(r, "leave_game")
  /\ req' = [req EXCEPT ![r].pc = "leave_delete",
                        ![r].active = (status = "active"), ![r].idx = turnIndex]
  /\ UNCHANGED <<game, players, known, files, news>>

\* Fault: the row goes although turns reference it.
LeaveDeleteAnyway(r) ==
  /\ At(r, "leave_delete")
  /\ Goto(r, "leave_count")
  /\ players' = Restrict(players, DOMAIN players \ {req[r].who})
  /\ UNCHANGED <<game, known, files, news>>

\* DELETE FROM players: an error when a turn of the player references the row,
\* no error when the row is already gone.
LeaveDelete(r) ==
  /\ At(r, "leave_delete")
  /\ IF ForeignKeys /\ \E t \in turns : t.player = req[r].who
     THEN Done(r) /\ UNCHANGED players
     ELSE /\ Goto(r, "leave_count")
          /\ players' = Restrict(players, DOMAIN players \ {req[r].who})
  /\ UNCHANGED <<game, known, files, news>>

LeaveCount(r) ==
  /\ At(r, "leave_count")
  /\ Goto(r, IF PlayerCount < 2 THEN "leave_finish" ELSE "leave_shift")
  /\ UNCHANGED <<game, players, known, files, news>>

LeaveFinish(r) ==
  /\ At(r, "leave_finish")
  /\ status' = "finished"
  /\ Keep(r, "leave_end", NoPlayer, 0)
  /\ UNCHANGED <<turnIndex, host, players, known, files, news>>

\* Fault: the index is lowered whatever the seat left.
LeaveShiftAlways(r) ==
  /\ At(r, "leave_shift")
  /\ players' = [p \in DOMAIN players |->
                   IF players[p] > req[r].ord THEN players[p] - 1 ELSE players[p]]
  /\ IF req[r].active THEN Goto(r, "leave_index") ELSE Done(r)
  /\ UNCHANGED <<game, known, files, news>>

\* Fault: the gap is closed only in a game in play.
LeaveShiftInPlay(r) ==
  /\ At(r, "leave_shift")
  /\ players' = [p \in DOMAIN players |->
                   IF req[r].active /\ players[p] > req[r].ord THEN players[p] - 1 ELSE players[p]]
  /\ IF req[r].active /\ req[r].idx > req[r].ord THEN Goto(r, "leave_index") ELSE Done(r)
  /\ UNCHANGED <<game, known, files, news>>

\* UPDATE players SET turn_order = turn_order - 1 WHERE turn_order > leavingOrder
LeaveShift(r) ==
  /\ At(r, "leave_shift")
  /\ players' = [p \in DOMAIN players |->
                   IF players[p] > req[r].ord THEN players[p] - 1 ELSE players[p]]
  /\ IF req[r].active /\ req[r].idx > req[r].ord THEN Goto(r, "leave_index") ELSE Done(r)
  /\ UNCHANGED <<game, known, files, news>>

LeaveIndex(r) ==
  /\ At(r, "leave_index")
  /\ turnIndex' = req[r].idx - 1
  /\ Done(r)
  /\ UNCHANGED <<status, host, players, known, files, news>>

\* The broadcast "game_ended" of handleLeave.
LeaveEnd(r) ==
  /\ At(r, "leave_end")
  /\ ended' = TRUE
  /\ Done(r)
  /\ UNCHANGED <<game, players, known, files, told>>

-----------------------------------------------------------------------------
\* A handler dies between two of its steps; what it has written stays.
Fail(r) ==
  /\ Failures
  /\ ~At(r, "idle")
  /\ Done(r)
  /\ UNCHANGED <<game, players, known, files, news>>

Join(r) == JoinLookup(r) \/ JoinCount(r) \/ JoinInsert(r)
SetTurnOrder(r) == OrderPlayer(r) \/ OrderGame(r) \/ OrderCommit(r)
Start(r) == StartPlayer(r) \/ StartGame(r) \/ StartCount(r) \/ StartUpdate(r)
Upload(r) == \/ UploadPlayer(r) \/ UploadGame(r) \/ UploadPut(r) \/ UploadInsert(r)
             \/ UploadCount(r) \/ UploadAdvance(r)
             \/ UploadMail(r) \/ UploadTell(r)
Leave(r) == \/ LeavePlayer(r) \/ LeaveGame(r) \/ LeaveDelete(r) \/ LeaveCount(r)
            \/ LeaveFinish(r) \/ LeaveShift(r) \/ LeaveIndex(r) \/ LeaveEnd(r)

Next ==
  \/ CreateGame
  \/ \E r \in Requests :
       Join(r) \/ SetTurnOrder(r) \/ Start(r) \/ Upload(r) \/ Leave(r) \/ Fail(r)

Spec == Init /\ [][Next]_vars

-----------------------------------------------------------------------------
(***************************************************************************)
(* What holds however the handlers interleave and wherever they die.       *)
(***************************************************************************)

\* UploadTurn never reduces the index modulo zero: the turn row it has just
\* inserted references the uploader, so the row of the uploader cannot be deleted
\* before the players are counted.  Needs the foreign keys.
NoDivideByZero == \A r \in Requests : At(r, "upload_advance") => req[r].count > 0

\* GET /games/{id}/download finds the blob of any turn the table lists: UploadTurn
\* stores the blob before it inserts the row, so dying in between leaves an
\* orphan blob and never a row without one.
TurnsDownloadable == \A t \in turns : t.id \in blobs

\* A turn row's player is still in the game, as REFERENCES players(id) says: a
\* player who has uploaded once cannot leave.
AuthorsStay == \A t \in turns : t.player \in DOMAIN players

\* In spite of the decrements by requests whose reads are stale, no seat goes below
\* the first and none past the seats ever handed out, by a join or by an entry of a
\* list the host has sent; the turn index stays within the seats handed out by joins.
SeatsInRange ==
  /\ \A p \in DOMAIN players :
       /\ players[p] >= 0
       /\ players[p] < Cardinality(known) \/ (HostOrders = "any" /\ players[p] < MaxList)
  /\ known # {} => turnIndex \in 0..(Cardinality(known) - 1)

(***************************************************************************)
(* The inductive invariant behind the four: what the frames of the         *)
(* handlers still promise about rows and counts read earlier.              *)
(***************************************************************************)
Ordering(r) == At(r, "order_game") \/ At(r, "order_tx")

HasIndex(r) == req[r].pc \in {"upload_put", "upload_insert", "upload_count", "upload_advance",
                             "leave_delete", "leave_count", "leave_shift", "leave_index"}

FrameOK(r) ==
  /\ At(r, "join_insert") => req[r].count <= Cardinality(known)
  /\ Ordering(r) => /\ Range(req[r].list) \subseteq known
                    /\ HostOrders = "any" => Len(req[r].list) <= MaxList
                    /\ HostOrders # "any" => IsInjective(req[r].list)
  /\ HasIndex(r) => req[r].who \in Players /\ req[r].idx < Cardinality(known)
  /\ At(r, "upload_game") \/ At(r, "leave_game") => req[r].who \in Players
  /\ At(r, "upload_insert") => req[r].turn \in blobs
  /\ At(r, "upload_count") /\ ForeignKeys => \E t \in turns : t.player = req[r].who
  /\ At(r, "upload_advance") => req[r].count <= Cardinality(known)
  /\ At(r, "upload_advance") /\ ForeignKeys => req[r].count > 0
  /\ At(r, "leave_index") => req[r].idx > req[r].ord

\* Before the game is created there is nobody to send a request.
NotYet ==
  /\ status = "none" <=> known = {}
  /\ status = "none" => turns = {} /\ \A r \in Requests : At(r, "idle")

\* NoDivideByZero, TurnsDownloadable, AuthorsStay and SeatsInRange, made inductive.
StoreInv ==
  /\ TypeOK
  /\ NotYet
  /\ TurnsDownloadable
  /\ ForeignKeys => AuthorsStay
  /\ SeatsInRange
  /\ \A r \in Requests : FrameOK(r)

(***************************************************************************)
(* What holds between requests when they are served one at a time and      *)
(* none dies.                                                              *)
(***************************************************************************)
Quiet == \A r \in Requests : At(r, "idle")

\* The seats of n players are 0..n-1, one each, until the game is over: joins
\* append, the host permutes, and LeaveGame closes the gap.
SeatsDense == Quiet /\ status # "finished" => Range(players) = 0..(PlayerCount - 1)

\* A game in play has two players, and a game that is over has said so.
ActiveHasTwo == Quiet => (status = "active" => PlayerCount >= 2) /\ (status = "finished" <=> ended)

\* handleUpload tells exactly the players whose turn it then is.
UploadTellsHolder ==
  [][\A r \in Requests : At(r, "upload_tell") /\ ~At(r, "upload_tell")' => told' = Holders(turnIndex)]_vars

(***************************************************************************)
(* What the repository says of a game and the code does not keep: each is  *)
(* refuted by a run of its own.                                            *)
(***************************************************************************)

\* README.md:76, "o próximo jogador recebe notificação e download": somebody has
\* the turn in a game in play.  LeaveGame lowers the index only when it is greater
\* than the seat left, so the holder of the last seat takes the turn along.
TurnIsHeld == Quiet /\ status = "active" => Holders(turnIndex) # {}

\* README.md:76 again: there is one next player.  Two joins that count before
\* either inserts share a seat.
TurnIsUnique == Quiet /\ status = "active" => Cardinality(Holders(turnIndex)) <= 1

\* README.md:76 again: the next player is notified.  When the holder leaves,
\* handleLeave says only that somebody has left.
HolderWasTold == Quiet /\ status = "active" /\ turns # {} => Holders(turnIndex) \subseteq told

\* README.md:75, "Host inicia a partida quando todos entraram": a game in the lobby
\* has its host, the only one who may start it.  LeaveGame deletes any player.
LobbyHasHost == Quiet /\ status = "lobby" => host \in DOMAIN players

\* store.go:24, ErrNotYourTurn "não é seu turno": a turn is only taken from a player
\* whose turn it is.  Of two uploads of one player that both pass the check before
\* either advances the turn, both are taken.
TakenInTurn == [][\A t \in turns' \ turns : t.player \in Holders(turnIndex)]_vars
=============================================================================
