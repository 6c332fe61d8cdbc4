----------------------------- MODULE SyncEngine -----------------------------
(***************************************************************************)
(* The client of one player: internal/watcher sees the .vlog files of a    *)
(* directory change and internal/syncengine uploads them when it is the    *)
(* player's turn, downloads the file of the player before when told over   *)
(* the websocket, and must not take the one for the other.                 *)
(*                                                                         *)
(* Two goroutines: the loop of the watcher that runs, which handles one    *)
(* event to the end, upload included, before it takes the next; and        *)
(* runWebSocket, which handles one message to the end, download included.  *)
(* They share lastSync and the ignored values, each call to the server is  *)
(* a step, and a file is read anew whenever its content is needed.         *)
(*                                                                         *)
(* The server is abstracted to what one player sees of Store: whether it   *)
(* is the player's turn, and the file last taken.                          *)
(***************************************************************************)
EXTENDS Integers, Sequences, FiniteSets

CONSTANTS
  Saves,        \* the dateSaved values of the player's own saves
  Theirs,       \* ... and of the files the other players upload
  None,         \* no file, no directory, no value
  Dirs,         \* the directories the player may choose for watch_dir
  Patient,      \* the player saves once a turn, when its file has been downloaded
  Reconfigures, \* SetConfig may be called while the client runs
  Drops,        \* the websocket may break
  Losses,       \* what may be lost: "fetch", "request", "response", "download"
  MaxLosses     \* bound: so many times in all

ASSUME SyncEngineAssumption ==
  /\ Saves \cap Theirs = {}
  /\ None \notin Saves \cup Theirs \cup Dirs
  /\ Patient \in BOOLEAN
  /\ Reconfigures \in BOOLEAN
  /\ Drops \in BOOLEAN
  /\ Losses \subseteq {"fetch", "request", "response", "download"}
  /\ MaxLosses \in Nat

VARIABLES
  dir,        \* cfg.WatchDir
  disk,       \* the dateSaved of every file
  pending,    \* the files with an event the loop has yet to read
  watched,    \* the directory of the watcher that runs
  current,    \* e.watcher is the watcher that runs
  lastSeen, ignored,      \* of the watcher that runs
  lastUpload, lastSync,   \* of the engine
  up,         \* the frame of the watcher's goroutine
  down,       \* the frame of the websocket's goroutine
  online,     \* the websocket is connected
  inbox,      \* messages "turn_changed, your turn" not yet read from it
  mine,       \* the server: it is this player's turn
  latest,     \* ... the file last taken
  taken,      \* ... the files taken from this player, with the date_saved sent, and whether the answer came
  lost,       \* calls lost so far
  used,       \* the dateSaved values given to a file so far
  due,        \* history: the save last made in this turn, while the client ran, if not yet taken
  synced,     \* history: the values whose download is over
  hasty       \* history: a save was made out of time

vars == <<dir, disk, pending, watched, current, lastSeen, ignored, lastUpload, lastSync,
          up, down, online, inbox, mine, latest, taken, lost, used, due, synced, hasty>>

Values == Saves \cup Theirs
Paths == Dirs \X {"own", "sync"}   \* the player's own file, and <game>_sync.vlog

\* The locals of onVlogChange and upload, and of DownloadLatest.
UpFrame == [pc : {"idle", "fetch", "check", "read", "send"}, path : Paths \cup {None},
            date : Values \cup {None}, attempt : 0..3, content : Values \cup {None}]
DownFrame == [pc : {"idle", "get", "write", "date", "ignore"}, attempt : 0..3,
              path : Paths \cup {None}, data : Values \cup {None}]

UpIdle == [pc |-> "idle", path |-> None, date |-> None, attempt |-> 0, content |-> None]
DownIdle == [pc |-> "idle", attempt |-> 0, path |-> None, data |-> None]

TypeOK ==
  /\ dir \in Dirs
  /\ disk \in [Paths -> Values \cup {None}]
  /\ pending \subseteq {p \in Paths : p[1] = watched /\ disk[p] # None}
  /\ watched \in Dirs \cup {None}
  /\ current \in BOOLEAN
  /\ lastSeen \in [Paths -> Values \cup {None}]
  /\ ignored \subseteq Values
  /\ {lastUpload, lastSync, latest, due} \subseteq Values \cup {None}
  /\ up \in UpFrame
  /\ down \in DownFrame
  /\ online \in BOOLEAN
  /\ inbox \in Nat
  /\ mine \in BOOLEAN
  /\ taken \in Seq([path : Paths, date : Values, content : Values, answered : BOOLEAN])
  /\ lost \in 0..MaxLosses
  /\ used \subseteq Values
  /\ synced \subseteq used
  /\ hasty \in BOOLEAN

Init ==
  /\ dir \in Dirs
  /\ disk = [p \in Paths |-> None]
  /\ pending = {}
  /\ watched = None
  /\ current = FALSE
  /\ lastSeen = [p \in Paths |-> None]
  /\ ignored = {}
  /\ lastUpload = None
  /\ lastSync = None
  /\ up = UpIdle
  /\ down = DownIdle
  /\ online = FALSE
  /\ inbox = 0
  /\ mine \in BOOLEAN
  /\ latest = None
  /\ taken = <<>>
  /\ lost = 0
  /\ used = {}
  /\ due = None
  /\ synced = {}
  /\ hasty = FALSE

-----------------------------------------------------------------------------
config == <<dir, watched, current>>
files == <<disk, pending>>
guard == <<ignored, lastUpload, lastSync>>
server == <<mine, latest, taken>>
socket == <<online, inbox>>
history == <<due, synced, hasty>>

Lose(what) ==
  /\ what \in Losses
  /\ lost < MaxLosses
  /\ lost' = lost + 1

\* Fault: a watcher is told of every directory.
WriteHeard(p, v) ==
  /\ disk' = [disk EXCEPT ![p] = v]
  /\ pending' = pending \cup {p}

\* A file is written; the watcher that runs is told if it is in its directory.
Write(p, v) ==
  /\ disk' = [disk EXCEPT ![p] = v]
  /\ pending' = IF p[1] = watched THEN pending \cup {p} ELSE pending

-----------------------------------------------------------------------------
\* A value not given to a file yet, whichever it is.
Unused(v, values) == v \in values \ used /\ v = CHOOSE w \in values \ used : TRUE

\* The first save of a turn, whose file has been downloaded.
InTime ==
  /\ mine /\ due = None /\ watched # None
  /\ down = DownIdle /\ latest \in synced \cup {None}

\* VASSAL saves the player's file in the directory configured.
Save(v) ==
  /\ Unused(v, Saves)
  /\ Patient => InTime
  /\ used' = used \cup {v}
  /\ Write(<<dir, "own">>, v)
  /\ due' = IF mine /\ watched # None THEN v ELSE due
  /\ hasty' = (hasty \/ ~InTime)
  /\ UNCHANGED <<config, lastSeen, guard, up, down, socket, server, lost, synced>>

\* fsnotify reports more than one event for a write it has reported.
EventAgain(p) ==
  /\ p[1] = watched
  /\ disk[p] # None
  /\ disk[p] \in ignored \cup {lastSeen[p]}
  /\ pending' = pending \cup {p}
  /\ UNCHANGED <<config, disk, lastSeen, guard, up, down, socket, server, lost, used, history>>

\* Another player uploads, and who is next is told, if connected.
PlayOther(v) ==
  /\ ~mine
  /\ Unused(v, Theirs)
  /\ used' = used \cup {v}
  /\ latest' = v
  /\ mine' \in BOOLEAN
  /\ inbox' = IF mine' /\ online THEN inbox + 1 ELSE inbox
  /\ due' = IF mine' THEN None ELSE due
  /\ UNCHANGED <<config, files, lastSeen, guard, up, down, online, taken, lost, synced, hasty>>

\* SaveConfig of the UI, with the directory as it was or another: the new watcher
\* is never run.
SetConfig(d) ==
  /\ Reconfigures
  /\ dir' = d
  /\ current' = FALSE
  /\ UNCHANGED <<watched, files, lastSeen, guard, up, down, socket, server, lost, used, history>>

\* Run, once the configuration is complete.
Watch ==
  /\ watched = None
  /\ watched' = dir
  /\ current' = TRUE
  /\ UNCHANGED <<dir, files, lastSeen, guard, up, down, socket, server, lost, used, history>>

-----------------------------------------------------------------------------
\* Fault: ShouldIgnore is not asked.
HandleEventAny(p) ==
  /\ up = UpIdle
  /\ p \in pending
  /\ pending' = pending \ {p}
  /\ IF disk[p] = lastSeen[p]
     THEN UNCHANGED <<lastSeen, up>>
     ELSE /\ lastSeen' = [lastSeen EXCEPT ![p] = disk[p]]
          /\ up' = [UpIdle EXCEPT !.pc = "fetch", !.path = p, !.date = disk[p]]
  /\ UNCHANGED <<config, disk, guard, down, socket, server, lost, used, history>>

\* handleEvent: the dateSaved of the file as it is by now.
HandleEvent(p) ==
  /\ up = UpIdle
  /\ p \in pending
  /\ pending' = pending \ {p}
  /\ IF disk[p] \in ignored \/ disk[p] = lastSeen[p]
     THEN UNCHANGED <<lastSeen, up>>
     ELSE /\ lastSeen' = [lastSeen EXCEPT ![p] = disk[p]]
          /\ up' = [UpIdle EXCEPT !.pc = "fetch", !.path = p, !.date = disk[p]]
  /\ UNCHANGED <<config, disk, guard, down, socket, server, lost, used, history>>

\* onVlogChange: GET /state, once.  A save that finds no answer, or not its turn,
\* is forgotten.
Fetch ==
  /\ up.pc = "fetch"
  /\ \/ up' = (IF mine THEN [up EXCEPT !.pc = "check"] ELSE UpIdle) /\ UNCHANGED lost
     \/ up' = UpIdle /\ Lose("fetch")
  /\ UNCHANGED <<config, files, lastSeen, guard, down, socket, server, used, history>>

\* Fault: only lastUpload is compared.
CheckUploadOnly ==
  /\ up.pc = "check"
  /\ up' = IF up.date = lastUpload THEN UpIdle ELSE [up EXCEPT !.pc = "read"]
  /\ UNCHANGED <<config, files, lastSeen, guard, down, socket, server, lost, used, history>>

\* ... and not a value just uploaded or downloaded.
Check ==
  /\ up.pc = "check"
  /\ up' = IF up.date \in {lastUpload, lastSync} THEN UpIdle ELSE [up EXCEPT !.pc = "read"]
  /\ UNCHANGED <<config, files, lastSeen, guard, down, socket, server, lost, used, history>>

\* uploadOnce: the file is read for every attempt, whatever its dateSaved is by now ...
UploadRead ==
  /\ up.pc = "read"
  /\ up' = [up EXCEPT !.pc = "send", !.content = disk[up.path]]
  /\ UNCHANGED <<config, files, lastSeen, guard, down, socket, server, lost, used, history>>

\* Fault: one attempt less.
RetryThrice == up' = IF up.attempt < 2
                     THEN [up EXCEPT !.pc = "read", !.attempt = up.attempt + 1, !.content = None]
                     ELSE UpIdle

\* The next attempt, of four; the sleep between them is an interleaving.
Retry == up' = IF up.attempt < 3
               THEN [up EXCEPT !.pc = "read", !.attempt = up.attempt + 1, !.content = None]
               ELSE UpIdle

\* The server takes the file and passes the turn; the answer may be lost.
Take(answered) ==
  /\ mine
  /\ mine' = FALSE
  /\ latest' = up.content
  /\ taken' = Append(taken, [path |-> up.path, date |-> up.date, content |-> up.content,
                               answered |-> answered])
  /\ due' = IF up.content = due THEN None ELSE due

\* Fault: the loop goes on after an attempt that succeeds.
UploadSendOn ==
  /\ up.pc = "send"
  /\ \/ Take(TRUE) /\ Retry /\ lastUpload' = up.date /\ UNCHANGED lost
     \/ Take(FALSE) /\ Retry /\ Lose("response") /\ UNCHANGED lastUpload
     \/ ~mine /\ Retry /\ UNCHANGED <<server, due, lost, lastUpload>>
     \/ Retry /\ Lose("request") /\ UNCHANGED <<server, due, lastUpload>>
  /\ UNCHANGED <<config, files, lastSeen, ignored, lastSync, down, socket, used, synced, hasty>>

\* ... and posted: taken, taken with the answer lost, refused, or lost.
UploadSend ==
  /\ up.pc = "send"
  /\ \/ Take(TRUE) /\ up' = UpIdle /\ lastUpload' = up.date /\ UNCHANGED lost
     \/ Take(FALSE) /\ Retry /\ Lose("response") /\ UNCHANGED lastUpload
     \/ ~mine /\ Retry /\ UNCHANGED <<server, due, lost, lastUpload>>
     \/ Retry /\ Lose("request") /\ UNCHANGED <<server, due, lastUpload>>
  /\ UNCHANGED <<config, files, lastSeen, ignored, lastSync, down, socket, used, synced, hasty>>

-----------------------------------------------------------------------------
\* runWebSocket: a connection, which tells nothing of what went before it.
Connect ==
  /\ ~online
  /\ down = DownIdle
  /\ online' = TRUE
  /\ UNCHANGED <<config, files, lastSeen, guard, up, down, inbox, server, lost, used, history>>

\* It breaks, and what was not yet read from it is lost.
Drop ==
  /\ Drops
  /\ online
  /\ online' = FALSE
  /\ inbox' = 0
  /\ UNCHANGED <<config, files, lastSeen, guard, up, down, server, lost, used, history>>

\* handleWSEvent, "turn_changed" with your_turn.
HandleTurn ==
  /\ down = DownIdle
  /\ inbox > 0
  /\ inbox' = inbox - 1
  /\ down' = [DownIdle EXCEPT !.pc = "get"]
  /\ UNCHANGED <<config, files, lastSeen, guard, up, online, server, lost, used, history>>

\* Fault: one attempt less.
DownloadThrice ==
  /\ down.pc = "get"
  /\ \/ /\ down' = [down EXCEPT !.pc = "write", !.data = latest]
        /\ UNCHANGED lost
     \/ /\ Lose("download")
        /\ down' = IF down.attempt < 2 THEN [down EXCEPT !.attempt = down.attempt + 1] ELSE DownIdle
  /\ UNCHANGED <<config, files, lastSeen, guard, up, socket, server, used, history>>

\* downloadOnce: the latest file, or the next of four attempts ...
Download ==
  /\ down.pc = "get"
  /\ \/ /\ down' = [down EXCEPT !.pc = "write", !.data = latest]
        /\ UNCHANGED lost
     \/ /\ Lose("download")
        /\ down' = IF down.attempt < 3 THEN [down EXCEPT !.attempt = down.attempt + 1] ELSE DownIdle
  /\ UNCHANGED <<config, files, lastSeen, guard, up, socket, server, used, history>>

\* ... written to <game>_sync.vlog in the directory configured by now ...
DownloadWrite ==
  /\ down.pc = "write"
  /\ Write(<<dir, "sync">>, down.data)
  /\ down' = [down EXCEPT !.pc = "date", !.path = <<dir, "sync">>]
  /\ UNCHANGED <<config, lastSeen, guard, up, socket, server, lost, used, history>>

\* ... whose dateSaved is read back from the disk ...
DownloadDate ==
  /\ down.pc = "date"
  /\ lastSync' = disk[down.path]
  /\ down' = [down EXCEPT !.pc = "ignore", !.data = disk[down.path]]
  /\ UNCHANGED <<config, files, lastSeen, ignored, lastUpload, up, socket, server, lost, used, history>>

\* ... for e.watcher to ignore.
DownloadIgnore ==
  /\ down.pc = "ignore"
  /\ ignored' = IF current THEN ignored \cup {down.data} ELSE ignored
  /\ synced' = synced \cup {down.data}
  /\ down' = DownIdle
  /\ UNCHANGED <<config, files, lastSeen, lastUpload, lastSync, up, socket, server, lost, used, due, hasty>>

-----------------------------------------------------------------------------
Uploading == Fetch \/ Check \/ UploadRead \/ UploadSend
Downloading == HandleTurn \/ Download \/ DownloadWrite \/ DownloadDate \/ DownloadIgnore

Next ==
  \/ \E v \in Values : Save(v) \/ PlayOther(v)
  \/ \E d \in Dirs : SetConfig(d)
  \/ \E p \in Paths : EventAgain(p) \/ HandleEvent(p)
  \/ Watch \/ Uploading \/ Connect \/ Drop \/ Downloading

Spec == Init /\ [][Next]_vars

\* The two goroutines run on, and fsnotify gives the events in their order, so that
\* none waits for ever.  Nobody has to save, to play, or to lose a message.
Fairness ==
  /\ WF_vars(Watch)
  /\ WF_vars(Uploading)
  /\ WF_vars(Connect)
  /\ WF_vars(Downloading)
  /\ \A p \in Paths : SF_vars(HandleEvent(p))

FairSpec == Spec /\ Fairness

-----------------------------------------------------------------------------
\* watcher.go:20, "dateSaved values to skip (from server download)": a downloaded file is
\* not uploaded.  Refuted: between the write and the note of it, the watcher can find
\* the file, and nothing says where it comes from.
NoEcho == \A i \in DOMAIN taken : taken[i].content \in Saves

\* What an answered upload has taken is not taken again from the player's own file.  A
\* value uploaded under is uploaded under again only if the answer was lost: then the next
\* attempt posts it again, and is taken if the turn has come round by then (engine.go,
\* upload).  And a save is taken again only if, besides, it was sent under the value of an
\* older one, made before the file was read: then the event of its own is still to come.
\* Neither more events nor a new configuration make a third way.  (A save that comes
\* back as a download is another file: DateTakenOnce.)
TakenOnce ==
  \A i, j \in DOMAIN taken :
    /\ i < j
    /\ taken[i].path = taken[j].path /\ taken[i].path[2] = "own"
    /\ taken[i].answered
    => /\ taken[i].date # taken[j].date
       /\ taken[i].date = taken[i].content => taken[i].content # taken[j].content

\* What TypeOK and TakenOnce rest on: values come from the disk or from the server, who had
\* them given out; and of a file of the player's own, what was sent is what lastSeen holds,
\* until a newer save is there.
Known ==
  /\ \A p \in Paths : {disk[p], lastSeen[p]} \subseteq used \cup {None}
  /\ latest \in used \cup {None}
  /\ inbox > 0 => latest # None

UploadOK ==
  /\ up.pc # "idle" => up.path \in Paths /\ up.date \in used /\ disk[up.path] # None
  /\ up.pc = "send" => up.content \in used

DownloadOK ==
  /\ down.pc # "idle" => latest # None
  /\ down.pc \in {"write", "ignore"} => down.data \in used
  /\ down.pc \in {"date", "ignore"} => down.path \in Paths /\ disk[down.path] # None

SentOK ==
  /\ up.pc # "idle" /\ up.path[2] = "own" => up.date = lastSeen[up.path]
  /\ \A i \in DOMAIN taken :
       /\ taken[i].date \in used
       /\ taken[i].path[2] = "own" /\ disk[taken[i].path] # lastSeen[taken[i].path]
            => taken[i].date # disk[taken[i].path]
       /\ /\ up.pc # "idle" /\ up.path[2] = "own"
          /\ taken[i].path = up.path /\ taken[i].date = up.date
          => up.pc \in {"read", "send"} /\ ~taken[i].answered
       /\ /\ up.pc = "send" /\ up.path[2] = "own" /\ taken[i].path = up.path
          /\ taken[i].answered /\ taken[i].date = taken[i].content
          => up.content # taken[i].content

SendInv == TypeOK /\ Known /\ UploadOK /\ DownloadOK /\ SentOK /\ TakenOnce

\* The player plays in time, the configuration stays, every upload was answered, and nothing
\* has gone wrong so far.
Calm ==
  /\ ~hasty
  /\ current \/ watched = None
  /\ NoEcho
  /\ \A i \in DOMAIN taken : taken[i].answered

\* An event that onVlogChange will be told of.
Unseen(p) == p \in pending /\ disk[p] \notin ignored \cup {lastSeen[p]}

\* Whose file is where.
PlacesOK ==
  /\ \A d \in Dirs : disk[<<d, "own">>] \in Saves \cup {None}
  /\ mine => latest \in Theirs \cup {None}
  /\ up.pc # "idle" => up.path[1] = watched

\* In every turn at most one download, of the file of the player before, which is over
\* before the player saves ...
OneDownload ==
  /\ synced \subseteq Theirs
  /\ \A d \in Dirs : disk[<<d, "sync">>] \in Theirs \cup {None}
  /\ inbox \in {0, 1}
  /\ inbox = 1 \/ down.pc # "idle" => mine /\ latest \notin synced
  /\ inbox = 1 => down.pc = "idle"
  /\ down.pc = "write" => down.data = latest
  /\ down.pc \in {"date", "ignore"} => down.path[2] = "sync" /\ disk[down.path] = latest
  /\ down.pc = "ignore" => lastSync = latest /\ down.data = latest

\* ... so that what the watcher finds, and what onVlogChange has in hand, is that file in
\* that turn, or else the one save of the turn.
InHand(p, v) ==
  /\ mine
  /\ IF p[2] = "sync" THEN latest = v ELSE due = v /\ latest \in synced \cup {None}

OneAtHand ==
  /\ \A p \in Paths : Unseen(p) =>
       /\ InHand(p, disk[p])
       /\ p[2] = "sync" => down.pc \in {"date", "ignore"} /\ down.path = p
  /\ up.pc # "idle" =>
       /\ InHand(up.path, up.date)
       /\ up.path[2] = "own" => disk[up.path] = up.date
       /\ up.path[2] = "own" /\ up.pc = "send" => up.content = up.date
       /\ up.path[2] = "sync" /\ up.date \in synced => lastSync = up.date
       /\ up.path[2] = "sync" /\ up.pc = "send" => up.content \in Theirs

\* engine.go:140, the file and its date_saved are read at different moments: while the player
\* plays in time and nothing has gone wrong, the file sent is still the one it was named by.
LabelsTrue ==
  Calm => \A i \in DOMAIN taken : taken[i].path[2] = "own" => taken[i].date = taken[i].content

\* What NoLateEcho and LabelsTrue rest on.
CalmInv == PlacesOK /\ (Calm => OneDownload /\ OneAtHand)

EngineInv == SendInv /\ CalmInv /\ LabelsTrue

\* watcher.go:20, "dateSaved values to skip (from server download)", as far as it holds: while
\* the player plays in time, the configuration stays and nothing has gone wrong before,
\* no upload is begun of a file whose download is over, although the watcher may have
\* found it before it was noted, for lastSync names it when onVlogChange compares.
NoLateEcho ==
  [][Calm /\ up.pc = "check" /\ up'.pc = "read" => up.date \notin synced]_vars

\* A download has been uploaded: it took a turn, and perhaps left a save of that turn to be
\* found in a later one.
Echoed == \E i \in DOMAIN taken : taken[i].path[2] = "sync"

\* README.md:76, "Ao salvar .vlog no Vassal, o arquivo sobe automaticamente": a save made
\* in the player's turn while the client runs goes up in the end, whatever attempts fail.
\* Less holds once a save was made out of time or a download has been uploaded (NoEcho): an
\* upload under way may then end the turn first, or a newer save take its place.
SaveGoesUp ==
  \A s \in Saves :
    due = s ~> \/ \E i \in DOMAIN taken : taken[i].content = s
               \/ (hasty \/ Echoed) /\ (due # s \/ ~mine)

\* A turn told over a connection that lasts is downloaded (until the next one is).
ToldIsDownloaded ==
  \A v \in Theirs :
    inbox > 0 /\ mine /\ latest = v ~> ~online \/ latest # v \/ \E d \in Dirs : disk[<<d, "sync">>] = v

(***************************************************************************)
(* What the repository says and the code does not keep.                    *)
(***************************************************************************)

\* watcher.go:20 again: once a download is over, the watcher does not so much as ask for
\* the state on its account.
SkipsDownloads == [][up.pc = "idle" /\ up'.pc = "fetch" => up'.date \notin synced]_vars

\* The same of a file that comes back: a download that is slow brings the player's own
\* save of an earlier turn, which the watcher finds before it is noted, when lastUpload has
\* forgotten it.
DateTakenOnce ==
  \A i, j \in DOMAIN taken : i < j /\ taken[i].date = taken[j].date => ~taken[i].answered

\* README.md:76, "o próximo jogador recebe notificação e download": the file of the player
\* before is downloaded.  A message missed while the socket is down is not made up for,
\* even when the socket is up again for good.
NextDownloads ==
  <>[]online =>
    \A v \in Theirs :
      mine /\ latest = v ~> ~mine \/ \E d \in Dirs : disk[<<d, "sync">>] = v
=============================================================================
