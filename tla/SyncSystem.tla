---------------------------- MODULE SyncSystem ----------------------------
(***************************************************************************)
(* A game from end to end: the turns of TurnGame, the server's handler     *)
(* that tells who is next (handlers.go, handleUpload), the websocket of    *)
(* every player, and the engine that downloads the latest file when told   *)
(* (engine.go, handleWSEvent).  The players are patient: whoever has the   *)
(* turn plays on from the latest file and has to have it first.  One       *)
(* instance of the server, so that what is sent arrives at whoever is      *)
(* connected; the first player begins without a file.                      *)
(***************************************************************************)
EXTENDS TurnGame

CONSTANTS
  Drops,   \* connections may break
  Fails,   \* the four attempts to download may all fail
  Dies     \* a handler that has passed the turn may get no further than that: the
           \* query for the players fails, the request is cancelled, the server dies

VARIABLES
  begun,    \* a file has been uploaded
  fresh,    \* the players with the latest file in their directory
  online,   \* those with a websocket
  told,     \* ... and in it a message "your turn" not yet dealt with
  telling   \* the index of every handler that has passed the turn and told nobody yet

syncVars == <<begun, fresh, online, told, telling>>
systemVars == <<vars, syncVars>>

SystemTypeOK ==
  /\ TypeOK
  /\ begun \in BOOLEAN
  /\ told \subseteq online /\ online \subseteq Players
  /\ fresh \subseteq Players
  /\ telling \subseteq Nat

SystemInit ==
  /\ Init
  /\ begun = FALSE
  /\ fresh = {}
  /\ online = {}
  /\ told = {}
  /\ telling = {}

Lobby == (Create \/ Join \/ Reorder \/ Start) /\ UNCHANGED syncVars

Ready(p) == HasTurn(p) /\ (begun => p \in fresh)

\* Fault: the handler remembers the index it found.
UploadStale(p) ==
  /\ Ready(p)
  /\ Play
  /\ begun' = TRUE
  /\ fresh' = {p}
  /\ telling' = telling \cup {turn}
  /\ UNCHANGED <<online, told>>

\* UploadTurn: the file is the latest, and the turn passes ...
Upload(p) ==
  /\ Ready(p)
  /\ Play
  /\ begun' = TRUE
  /\ fresh' = {p}
  /\ telling' = telling \cup {turn'}
  /\ UNCHANGED <<online, told>>

\* ... and who sits at that index by now is told, if connected.
Tell(i) ==
  /\ i \in telling
  /\ telling' = telling \ {i}
  /\ told' = told \cup {p \in online : i < Len(seats) /\ seats[i + 1] = p}
  /\ UNCHANGED <<vars, begun, fresh, online>>

\* ... unless playersByGame fails, whose error is dropped, or the handler is gone: the
\* broadcast, if there is one, names nobody.
TellFails(i) ==
  /\ Dies
  /\ i \in telling
  /\ telling' = telling \ {i}
  /\ UNCHANGED <<vars, begun, fresh, online, told>>

\* DownloadLatest: the latest file by now, or none after four attempts.
Download(p) ==
  /\ p \in told
  /\ told' = told \ {p}
  /\ fresh' = fresh \cup {p}
  /\ UNCHANGED <<vars, begun, online, telling>>

DownloadFails(p) ==
  /\ Fails
  /\ p \in told
  /\ told' = told \ {p}
  /\ UNCHANGED <<vars, begun, fresh, online, telling>>

Connect(p) ==
  /\ p \in Seated \ online
  /\ online' = online \cup {p}
  /\ UNCHANGED <<vars, begun, fresh, told, telling>>

Drop(p) ==
  /\ Drops
  /\ p \in online
  /\ online' = online \ {p}
  /\ told' = told \ {p}
  /\ UNCHANGED <<vars, begun, fresh, telling>>

\* handleLeave tells everybody that somebody has left, and nobody of a turn.
LeaveGame(p) ==
  /\ Leave(p)
  /\ online' = online \ {p}
  /\ told' = told \ {p}
  /\ fresh' = fresh \ {p}
  /\ UNCHANGED <<begun, telling>>

SystemNext ==
  \/ Lobby
  \/ \E i \in telling : Tell(i) \/ TellFails(i)
  \/ \E p \in Players : \/ Upload(p) \/ Download(p) \/ DownloadFails(p)
                        \/ Connect(p) \/ Drop(p) \/ LeaveGame(p)

SystemSpec == SystemInit /\ [][SystemNext]_systemVars

\* Handlers and engines go on, connections are made again, and who has the turn and the
\* file plays in the end.
SystemFairness ==
  /\ \A i \in 0..(Cardinality(Players) - 1) : WF_systemVars(Tell(i))
  /\ \A p \in Players : /\ WF_systemVars(Upload(p)) /\ WF_systemVars(Connect(p))
                        /\ WF_systemVars(Download(p))

FairSystemSpec == SystemSpec /\ SystemFairness

-----------------------------------------------------------------------------
\* As long as nobody has left: one upload at a time is being told of, to the seat whose turn
\* it is, and whoever has been told has the turn and has yet to download.
InStride ==
  /\ telling \subseteq {turn}
  /\ telling # {} => told = {} /\ \A p \in Players : HasTurn(p) => p \notin fresh
  /\ \A p \in told : HasTurn(p) /\ p \notin fresh

SystemInv ==
  /\ SystemTypeOK /\ RowInv
  /\ begun => phase \in {"active", "finished"}
  /\ ~begun => fresh = {} /\ told = {} /\ telling = {}
  /\ gone = {} => phase # "finished" /\ InStride

\* Nobody plays on: the one who has the turn has not got the file and will not be told.
Missed(p) == HasTurn(p) /\ ~Ready(p) /\ p \notin told /\ telling = {}

\* README.md:76, "o próximo jogador recebe notificação e download": in a game in play
\* everybody seated gets the turn, leaves, or sees the game end, fall vacant, or stop
\* with somebody who missed the file of the turn.
GoesOn ==
  \A p \in Players : phase = "active" /\ p \in Seated ~>
                       \/ HasTurn(p) \/ p \in gone \/ phase = "finished" \/ Vacant
                       \/ \E q \in Players : Missed(q)

\* Nobody misses the file but who is not connected, cannot download it, or was to be
\* told by a handler that gets no further, or has the turn on account of a leave: one
\* that hands it over, or one that moves the row while the handler of an upload has yet
\* to tell the seat that it found next.
MissedForCause ==
  [][\A p \in Players : Missed(p)' /\ ~Missed(p) =>
       \/ p \notin online'
       \/ Fails /\ p \in told
       \/ \E i \in telling : TellFails(i)
       \/ ~HasTurn(p)
       \/ gone # {} /\ \E i \in telling : i # turn]_systemVars
=============================================================================
