-------------------------- MODULE SyncSystemProofs --------------------------
(***************************************************************************)
(* A game from end to end plays TurnGame, keeps SystemInv, and nobody      *)
(* misses the file of the turn but for the causes MissedForCause names.    *)
(***************************************************************************)
EXTENDS SyncSystem, TurnGameProofs

LEMMA Plays == [SystemNext]_systemVars => [Next]_vars
  BY DEF SystemNext, systemVars, Lobby, Upload, Tell, TellFails, Download, DownloadFails, Connect, Drop,
         LeaveGame, Next, vars

\* What is told, downloaded and connected leaves the turns to the rules.
THEOREM SystemPlaysTurnGame == SystemSpec => Spec
<1>1. SystemInit => Init
  BY DEF SystemInit
<1> QED
  BY <1>1, Plays, PTL DEF SystemSpec, Spec

LEMMA SystemInitInv == SystemInit => SystemInv
  BY InitInv DEF SystemInit, SystemInv, SystemTypeOK, RowInv, InStride, Init

\* The frame that the steps outside the row have in common.
LEMMA RowUnchanged ==
  ASSUME SystemInv, UNCHANGED vars
  PROVE  RowInv' /\ TypeOK' /\ UNCHANGED <<phase, gone, turn, Seated>> /\ \A p \in Players : HasTurn(p)' = HasTurn(p)
  BY StepInv DEF SystemInv, RowInv, vars, HasTurn, Vacant, Seated

LEMMA LobbyInv == ASSUME SystemInv, Lobby PROVE SystemInv'
<1>1. RowInv'
  BY StepInv DEF Lobby, SystemInv, Next
<1>2. UNCHANGED <<begun, fresh, online, told, telling, gone>>
  BY DEF Lobby, syncVars, Create, Join, Reorder, Start
<1>3. phase \in {"none", "lobby"} /\ phase' \in {"lobby", "active"}
  BY DEF Lobby, Create, Join, Reorder, Start
<1>4. fresh = {} /\ told = {} /\ telling = {} /\ ~begun
  BY <1>3 DEF SystemInv
<1> QED
  BY <1>1, <1>2, <1>3, <1>4 DEF SystemInv, SystemTypeOK, InStride, RowInv

\* The turn that an upload passes on is somebody else's.
LEMMA UploadInv == ASSUME SystemInv, NEW p \in Players, Upload(p) PROVE SystemInv'
<1>1. RowInv' /\ TypeOK'
  BY StepInv DEF Upload, SystemInv, Next, RowInv
<1>2. /\ HasTurn(p) /\ (begun => p \in fresh) /\ phase = "active" /\ turn < Len(seats)
      /\ begun' = TRUE /\ fresh' = {p} /\ telling' = telling \cup {turn'}
      /\ turn' = (turn + 1) % Len(seats)
      /\ UNCHANGED <<online, told, phase, seats, gone>>
  BY DEF Upload, Ready, Play, Vacant, SystemInv, RowInv, TypeOK
<1>3. turn' \in 0..(Len(seats) - 1) /\ turn' # turn /\ turn \in Nat /\ Len(seats) \in Nat
  <2>1. Len(seats) >= 2 /\ turn \in Nat /\ Len(seats) \in Nat
    BY <1>2 DEF SystemInv, RowInv, TurnInRow, TypeOK
  <2> QED
    BY <1>2, <2>1
<1>4. ~HasTurn(p)'
  <2>1. seats[turn + 1] = p /\ turn + 1 \in DOMAIN seats /\ turn' + 1 \in DOMAIN seats
    BY <1>2, <1>3 DEF HasTurn, SystemInv, RowInv, TypeOK
  <2>2. seats[turn' + 1] # p
    BY <1>3, <2>1 DEF SystemInv, RowInv, IsInjective
  <2> QED
    BY <1>2, <2>2 DEF HasTurn
<1>5. SystemTypeOK'
  <2>1. telling' \subseteq Nat
    <3>1. turn' \in Nat
      BY <1>3
    <3> QED
      BY <1>2, <3>1 DEF SystemInv, SystemTypeOK
  <2> QED
    BY <1>1, <1>2, <2>1 DEF SystemInv, SystemTypeOK
<1>6. ASSUME gone = {} PROVE InStride'
  <2>1. telling = {}
    BY <1>2, <1>6 DEF SystemInv, InStride
  <2>2. told = {}
    <3>1. \A q \in told : q \in Players /\ HasTurn(q) /\ q \notin fresh /\ begun
      BY <1>6 DEF SystemInv, InStride, SystemTypeOK
    <3>2. \A q \in told : q = p
      BY <1>2, <3>1 DEF HasTurn
    <3> QED
      BY <1>2, <3>1, <3>2
  <2> QED
    BY <1>2, <1>4, <2>1, <2>2 DEF InStride
<1> QED
  BY <1>1, <1>2, <1>5, <1>6 DEF SystemInv

LEMMA TellInv == ASSUME SystemInv, NEW i, Tell(i) PROVE SystemInv'
<1> USE RowUnchanged DEF Tell
<1>1. /\ told' = told \cup {p \in online : i < Len(seats) /\ seats[i + 1] = p}
      /\ telling' = telling \ {i} /\ i \in telling /\ UNCHANGED <<begun, fresh, online>> /\ begun
  BY DEF SystemInv
<1>2. SystemTypeOK'
  BY <1>1 DEF SystemInv, SystemTypeOK
<1>3. ASSUME gone = {} PROVE InStride'
  <2>1. i = turn /\ telling = {turn} /\ phase = "active"
    BY <1>1, <1>3 DEF SystemInv, InStride
  <2>2. \A p \in told' : HasTurn(p) /\ p \notin fresh
    BY <1>1, <1>3, <2>1 DEF SystemInv, InStride, SystemTypeOK, HasTurn, Vacant, RowInv, TypeOK
  <2> QED
    BY <1>1, <1>3, <2>1, <2>2 DEF SystemInv, SystemTypeOK, InStride
<1> QED
  BY <1>1, <1>2, <1>3 DEF SystemInv

\* With the handler gone there is one less to tell.
LEMMA TellFailsInv == ASSUME SystemInv, NEW i, TellFails(i) PROVE SystemInv'
<1>1. telling' \subseteq telling /\ UNCHANGED <<vars, begun, fresh, online, told>>
  BY DEF TellFails
<1>2. SystemTypeOK' /\ (gone = {} => InStride')
  BY <1>1, RowUnchanged DEF SystemInv, SystemTypeOK, InStride
<1> QED
  BY <1>1, <1>2, RowUnchanged DEF SystemInv

LEMMA SocketInv ==
  ASSUME SystemInv, NEW p \in Players, Download(p) \/ DownloadFails(p) \/ Connect(p) \/ Drop(p)
  PROVE  SystemInv'
<1>1. UNCHANGED vars /\ UNCHANGED <<begun, telling>>
  BY DEF Download, DownloadFails, Connect, Drop
<1>2. /\ told' \subseteq told /\ fresh' \subseteq fresh \cup {p}
      /\ fresh' # fresh => p \in told /\ told' = told \ {p}
  BY DEF Download, DownloadFails, Connect, Drop
<1>3. told' \subseteq online' /\ online' \subseteq Players
  BY DEF Download, DownloadFails, Connect, Drop, SystemInv, SystemTypeOK
<1>4. SystemTypeOK'
  BY <1>1, <1>2, <1>3, RowUnchanged DEF SystemInv, SystemTypeOK
<1>5. ASSUME gone = {} PROVE InStride'
  BY <1>1, <1>2, <1>5, RowUnchanged DEF SystemInv, InStride, SystemTypeOK
<1> QED
  BY <1>1, <1>2, <1>4, <1>5, RowUnchanged DEF SystemInv

LEMMA LeaveGameInv == ASSUME SystemInv, NEW p \in Players, LeaveGame(p) PROVE SystemInv'
<1>1. RowInv' /\ TypeOK'
  BY LeaveInv DEF LeaveGame, SystemInv, RowInv
<1>2. gone' # {} /\ (phase' = "finished" \/ phase' = phase)
  BY DEF LeaveGame, Leave
<1> QED
  BY <1>1, <1>2 DEF LeaveGame, SystemInv, SystemTypeOK

LEMMA SystemStepInv == ASSUME SystemInv, [SystemNext]_systemVars PROVE SystemInv'
<1>1. CASE UNCHANGED systemVars
  BY <1>1, RowUnchanged DEF systemVars, syncVars, SystemInv, SystemTypeOK, InStride
<1> QED
  BY <1>1, LobbyInv, UploadInv, TellInv, TellFailsInv, SocketInv, LeaveGameInv DEF SystemNext

\* SystemInv is inductive, for any number of players, lost connections and leaves.
THEOREM SystemInvariance == SystemSpec => []SystemInv
  BY SystemInitInv, SystemStepInv, PTL DEF SystemSpec

\* What is told and downloaded keeps its type.
THEOREM SystemTypeCorrect == SystemSpec => []SystemTypeOK
  BY SystemInvariance, PTL DEF SystemInv

\* Nobody who stays connected and can download misses the file, unless a handler gets no further
\* than the turn it has passed, or somebody has left.
THEOREM NobodyMissesWithoutCause == SystemSpec => MissedForCause
<1> DEFINE ForCause ==
             \A p \in Players : Missed(p)' /\ ~Missed(p) =>
               \/ p \notin online'
               \/ Fails /\ p \in told
               \/ \E i \in telling : TellFails(i)
               \/ ~HasTurn(p)
               \/ gone # {} /\ \E i \in telling : i # turn
<1>1. ASSUME SystemInv, [SystemNext]_systemVars PROVE [ForCause]_systemVars
  <2> SUFFICES ASSUME SystemNext, NEW p \in Players, Missed(p)', ~Missed(p), p \in online', HasTurn(p),
                      ~(Fails /\ p \in told), ~\E i \in telling : TellFails(i)
               PROVE  gone # {} /\ \E i \in telling : i # turn
    BY <1>1
  <2> USE DEF Missed, Ready
  <2>1. ~Lobby
    BY DEF Lobby, Create, Join, Reorder, Start, HasTurn
  <2>2. \A q \in Players : ~Upload(q)
    BY DEF Upload
  <2>3. \A q \in Players : ~Download(q) /\ ~DownloadFails(q) /\ ~Connect(q) /\ ~Drop(q)
    BY DEF Download, DownloadFails, Connect, Drop, vars, HasTurn, Vacant
  <2>4. \A q \in Players : ~LeaveGame(q)
    BY DEF LeaveGame, HasTurn
  <2>5. PICK i \in telling : Tell(i)
    BY <2>1, <2>2, <2>3, <2>4 DEF SystemNext
  <2>6. p \notin told' /\ told' = told \cup {q \in online : i < Len(seats) /\ seats[i + 1] = q}
        /\ p \in online /\ UNCHANGED <<seats, turn>>
    BY <2>5 DEF Tell, vars
  <2>7. i # turn
    BY <1>1, <2>6 DEF HasTurn, Vacant, SystemInv, RowInv, TypeOK
  <2> QED
    BY <1>1, <2>7 DEF SystemInv, InStride
<1> QED
  BY <1>1, SystemInvariance, PTL DEF SystemSpec, MissedForCause
=============================================================================
