----------------------------- MODULE StoreTurns -----------------------------
(***************************************************************************)
(* Store, serving one request at a time with none of them dying,           *)
(* implements TurnGame.                                                    *)
(*                                                                         *)
(* A join takes effect at JoinInsert, a new order at OrderCommit, a start  *)
(* at StartUpdate, a turn at UploadInsert, where its row appears, and a    *)
(* leave at LeaveDelete.  What UploadTurn and LeaveGame still have to      *)
(* write after that step is read off the frame.                            *)
(***************************************************************************)
EXTENDS Store

\* The player counts and the index the requests have yet to write.
Ending(r) == At(r, "leave_finish") \/ (At(r, "leave_count") /\ PlayerCount < 2)
Lowering(r) ==
  /\ At(r, "leave_count") \/ At(r, "leave_shift") \/ At(r, "leave_index")
  /\ PlayerCount >= 2
  /\ req[r].active
  /\ req[r].idx > req[r].ord
Advancing(r) == At(r, "upload_count") \/ At(r, "upload_advance")

\* The rows in the order of turn_order, whatever gap a leave has not closed yet.
Before(rows) == [p \in DOMAIN rows |-> Cardinality({q \in DOMAIN rows : rows[q] < rows[p]})]
InOrder(rows) ==
  [i \in 1..Cardinality(DOMAIN rows) |-> CHOOSE p \in DOMAIN rows : Before(rows)[p] = i - 1]

seats == InOrder(players)
phase == IF \E r \in Requests : Ending(r) THEN "finished" ELSE status
turn ==
  IF \E r \in Requests : Lowering(r) THEN turnIndex - 1
  ELSE IF \E r \in Requests : Advancing(r) THEN (turnIndex + 1) % PlayerCount
  ELSE turnIndex

TurnGame == INSTANCE TurnGame
              WITH AuthorsStay <- ForeignKeys,
                   gone <- known \ DOMAIN players,
                   played <- {t.player : t \in turns}

\* Served one at a time, the handlers do what the rules of the game allow and
\* nothing else: every write of a request falls on one step of TurnGame.
ImplementsTurnGame == TurnGame!Init /\ [][TurnGame!Next]_(TurnGame!vars)

(***************************************************************************)
(* The inductive invariant behind it: what a request that is alone can     *)
(* rely on from one of its steps to the next.                              *)
(***************************************************************************)
Serial ==
  /\ \A r, s \in Requests : r = s
  /\ ~Failures
  /\ HostOrders # "any"

Packed(rows) == IsInjective(rows) /\ Range(rows) = 0..(Cardinality(DOMAIN rows) - 1)

\* Every seat but i.
Gapped(rows, i) ==
  /\ IsInjective(rows)
  /\ i \notin Range(rows)
  /\ Range(rows) \cup {i} = 0..Cardinality(DOMAIN rows)

Closing(r) == At(r, "leave_count") \/ At(r, "leave_shift")

\* The seats are 0..n-1 but for the gap a leave has yet to close; a game that is over,
\* where gaps stay open, has one player at the most.
InRow ==
  IF phase = "finished"
  THEN PlayerCount < 2
  ELSE /\ \A r \in Requests : Closing(r) => Gapped(players, req[r].ord)
       /\ (\A r \in Requests : ~Closing(r)) => Packed(players)
       /\ status = "active" => PlayerCount >= 2

SeatRead(r) == req[r].pc \in {"upload_game", "leave_game", "leave_delete"}
Uploading(r) == req[r].pc \in {"upload_put", "upload_insert", "upload_count", "upload_advance"}
Leaving(r) == req[r].pc \in {"leave_delete", "leave_count", "leave_shift", "leave_index"}
InLobby(r) == req[r].pc \in {"join_count", "join_insert", "order_tx", "start_count", "start_update"}

\* Nothing a request has read has changed since.
Current(r) ==
  /\ InLobby(r) => status = "lobby"
  /\ At(r, "join_insert") => req[r].count = PlayerCount
  /\ Ordering(r) => Len(req[r].list) = PlayerCount /\ Range(req[r].list) = DOMAIN players
  /\ At(r, "start_update") => PlayerCount >= 2
  /\ SeatRead(r) => req[r].who \in DOMAIN players /\ req[r].ord = players[req[r].who]
  /\ Uploading(r) => /\ status = "active"
                     /\ req[r].who \in Holders(turnIndex)
                     /\ req[r].idx = turnIndex
  /\ At(r, "upload_advance") => req[r].count = PlayerCount
  /\ At(r, "upload_mail") \/ At(r, "upload_tell") => req[r].idx = turnIndex
  /\ At(r, "upload_tell") => told \subseteq Holders(turnIndex)
  /\ Leaving(r) => req[r].idx = turnIndex /\ req[r].active = (status = "active")
  /\ At(r, "leave_shift") \/ At(r, "leave_index") => PlayerCount >= 2
  /\ At(r, "leave_index") => req[r].active
  /\ At(r, "leave_end") => status = "finished"

\* SeatsDense, ActiveHasTwo and the mapping, made inductive.
SerialInv ==
  /\ InRow
  /\ status = "none" => turnIndex = 0
  /\ status = "finished" <=> ended \/ \E r \in Requests : At(r, "leave_end")
  /\ \A r \in Requests : Current(r)
=============================================================================
