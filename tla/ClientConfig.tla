---------------------------- MODULE ClientConfig ----------------------------
(***************************************************************************)
(* The games of one player: internal/clientapp and pkg/config.  There is   *)
(* one ClientConfig, and everybody has the pointer to it.  Each call of    *)
(* the UI runs in a goroutine of its own, asks the server, changes the     *)
(* structure in place and writes it to config.json, all without a lock.    *)
(*                                                                         *)
(* Of the structure the model has the active game, the fields switchTo     *)
(* copies after it (token), and the games.  Of the server it has the rows  *)
(* of the player: every time a game is joined makes another, with a token  *)
(* of its own, though the player has one already.                          *)
(***************************************************************************)
EXTENDS Integers

CONSTANTS
  Games,
  None,        \* no game, no token, no bytes
  Torn,        \* a config.json that LoadClient cannot read
  Calls,       \* the calls of the UI, one each
  MaxLosses,   \* bound: so many answers are lost, and saves of config.json fail
  MaxCrashes   \* bound: so many times the client dies

\* The token of the n-th row of a game.  In the list of games 0 stands for none.
Tokens == {None} \cup (Games \X Nat)
Config == [id : Games \cup {None}, token : Tokens, games : [Games -> Nat]]

ASSUME ClientConfigAssumption ==
  /\ None \notin Games \cup Config \cup (Games \X Nat)
  /\ Torn \notin Config
  /\ {MaxLosses, MaxCrashes} \subseteq Nat

VARIABLES
  running,    \* the client runs
  cfg,        \* the ClientConfig in memory
  disk,       \* config.json
  call,       \* the frame of every call
  rows,       \* server: the rows the player has in each game
  joined,     \* ... and how often each has been joined
  lost, crashes,
  overlap,    \* history: a call began before another was over
  doubtful,   \* history: the games of calls that were interrupted
  unsaved,    \* history: what the calls were about that failed to save, until one has saved
  dropped     \* history: the rows of which the list had the token, until the game was joined again

server == <<rows, joined>>
faults == <<lost, crashes>>
history == <<overlap, doubtful, unsaved, dropped>>
configVars == <<running, cfg, disk, call, server, faults, history>>

\* The locals of a call: the game and token its request was built with, or that switchTo
\* gets, the bytes for config.json, whether RefreshState comes last.
Frame == [pc : {"new", "join", "add", "switch", "leave", "remove", "token", "marshal",
                "truncate", "write", "done"},
          game : Games \cup {None}, token : Tokens, data : Config \cup {None}, refresh : BOOLEAN]

TypeOK ==
  /\ running \in BOOLEAN
  /\ cfg \in Config
  /\ disk \in Config \cup {Torn}
  /\ call \in [Calls -> Frame]
  /\ rows \in [Games -> SUBSET Nat]
  /\ joined \in [Games -> Nat]
  /\ lost \in 0..MaxLosses
  /\ crashes \in 0..MaxCrashes
  /\ overlap \in BOOLEAN
  /\ doubtful \subseteq Games
  /\ unsaved \subseteq Games \cup {None}
  /\ dropped \in [Games -> SUBSET Nat]

Fresh == [pc |-> "new", game |-> None, token |-> None, data |-> None, refresh |-> FALSE]
Done == [Fresh EXCEPT !.pc = "done"]

\* A client that has been started, with the games of earlier days.
Init ==
  /\ running = TRUE
  /\ joined \in [Games -> {0, 1}]
  /\ rows = [g \in Games |-> IF joined[g] = 1 THEN {1} ELSE {}]
  /\ \/ cfg = [id |-> None, token |-> None, games |-> joined]
     \/ \E g \in Games : joined[g] = 1 /\ cfg = [id |-> g, token |-> <<g, 1>>, games |-> joined]
  /\ disk = cfg
  /\ call = [u \in Calls |-> Fresh]
  /\ lost = 0
  /\ crashes = 0
  /\ overlap = FALSE
  /\ doubtful = {}
  /\ unsaved = {}
  /\ dropped = [g \in Games |-> {}]

-----------------------------------------------------------------------------
Under(u) == call[u].pc \notin {"new", "done"}
Quiet == \A u \in Calls : ~Under(u)

At(u, pc) == running /\ call[u].pc = pc
Go(u, f) == call' = [call EXCEPT ![u] = f]
GoTo(u, pc) == Go(u, [call[u] EXCEPT !.pc = pc])

Begin(u, f) ==
  /\ At(u, "new")
  /\ Go(u, f)
  /\ overlap' = (overlap \/ ~Quiet)
  /\ UNCHANGED <<running, cfg, disk, server, faults, doubtful, unsaved, dropped>>

Lose == lost < MaxLosses /\ lost' = lost + 1

\* The answer comes, or it is lost and the call gives up what the server has done.
AnswerOrLose(u, f) ==
  \/ Go(u, f) /\ UNCHANGED <<lost, doubtful>>
  \/ Go(u, Done) /\ Lose /\ doubtful' = doubtful \cup {call[u].game}

\* The server refuses, or is not reached.
Refused(u) == Go(u, Done) /\ UNCHANGED <<server, lost, doubtful>>

\* CreateGame and JoinGame, of any game: the server first, who makes a row ...
Join(u, g) == Begin(u, [Fresh EXCEPT !.pc = "join", !.game = g])

JoinAsk(u) ==
  /\ At(u, "join")
  /\ \/ \E g \in {call[u].game} :
          /\ joined' = [joined EXCEPT ![g] = joined[g] + 1]
          /\ rows' = [rows EXCEPT ![g] = rows[g] \cup {joined[g] + 1}]
          /\ AnswerOrLose(u, [call[u] EXCEPT !.pc = "add", !.token = <<g, joined[g] + 1>>])
     \/ Refused(u)
  /\ UNCHANGED <<running, cfg, disk, crashes, overlap, unsaved, dropped>>

\* ... then AddGame, which makes it the active game, over what the list had of it.
AddGame(u) ==
  /\ At(u, "add")
  /\ \E g \in {call[u].game} :
       /\ cfg' = [cfg EXCEPT !.games[g] = call[u].token[2], !.id = g]
       /\ dropped' = [dropped EXCEPT ![g] = dropped[g] \cup {cfg.games[g]}]
  /\ GoTo(u, "token")
  /\ UNCHANGED <<running, disk, server, faults, overlap, doubtful, unsaved>>

\* SwitchGame: found in the map ...
Switch(u, g) ==
  /\ cfg.games[g] # 0
  /\ Begin(u, [Fresh EXCEPT !.pc = "switch", !.game = g, !.token = <<g, cfg.games[g]>>, !.refresh = TRUE])

\* ... and made the active one.
SwitchTo(u) ==
  /\ At(u, "switch")
  /\ cfg' = [cfg EXCEPT !.id = call[u].game]
  /\ GoTo(u, "token")
  /\ UNCHANGED <<running, disk, server, faults, history>>

\* LeaveGame: the active game is left, if the server finds the row of the token there ...
Leave(u) ==
  /\ cfg.id # None
  /\ Begin(u, [Fresh EXCEPT !.pc = "leave", !.game = cfg.id, !.token = cfg.token])

LeaveAsk(u) ==
  /\ At(u, "leave")
  /\ \/ \E g \in {call[u].game}, n \in rows[call[u].game] :
          /\ call[u].token = <<g, n>>
          /\ rows' = [rows EXCEPT ![g] = rows[g] \ {n}]
          /\ AnswerOrLose(u, [call[u] EXCEPT !.pc = "remove"])
          /\ UNCHANGED joined
     \/ Refused(u)
  /\ UNCHANGED <<running, cfg, disk, crashes, overlap, unsaved, dropped>>

\* Fault: the game stays in the map.
RemoveGameActive(u) ==
  /\ At(u, "remove")
  /\ cfg' = [cfg EXCEPT !.id = None]
  /\ Go(u, [call[u] EXCEPT !.pc = "token", !.token = None])
  /\ UNCHANGED <<running, disk, server, faults, history>>

\* ... and the game that is active by now is removed.
RemoveGame(u) ==
  /\ At(u, "remove")
  /\ cfg' = [cfg EXCEPT !.games = [g \in Games |-> IF g = cfg.id THEN 0 ELSE cfg.games[g]],
                        !.id = None]
  /\ Go(u, [call[u] EXCEPT !.pc = "token", !.token = None])
  /\ UNCHANGED <<running, disk, server, faults, history>>

\* The other fields of switchTo, or of RemoveGame.
SetToken(u) ==
  /\ At(u, "token")
  /\ cfg' = [cfg EXCEPT !.token = call[u].token]
  /\ GoTo(u, "marshal")
  /\ UNCHANGED <<running, disk, server, faults, history>>

\* SaveSettings, SetWatchDir, SetServerURL: fields the model leaves out.
Settings(u) == Begin(u, [Fresh EXCEPT !.pc = "marshal"])

\* Fault: there is nothing to write, and it is written.
MarshalNothing(u) ==
  /\ At(u, "marshal")
  /\ GoTo(u, "truncate")
  /\ UNCHANGED <<running, cfg, disk, server, faults, history>>

\* SaveClient: the bytes are made ...
Marshal(u) ==
  /\ At(u, "marshal")
  /\ Go(u, [call[u] EXCEPT !.pc = "truncate", !.data = cfg])
  /\ UNCHANGED <<running, cfg, disk, server, faults, history>>

\* ... and os.WriteFile empties the file ...
Truncate(u) ==
  /\ At(u, "truncate")
  /\ disk' = Torn
  /\ GoTo(u, "write")
  /\ UNCHANGED <<running, cfg, server, faults, history>>

\* ... before it fills it, perhaps over the bytes of another call, which may be more.
WriteFile(u) ==
  /\ At(u, "write")
  /\ disk' \in {call[u].data} \cup (IF disk \in {Torn, call[u].data} THEN {} ELSE {Torn})
  /\ Go(u, Done)
  /\ unsaved' = {}
  /\ UNCHANGED <<running, cfg, server, faults, overlap, doubtful, dropped>>

\* Any of it fails, the directory, the bytes, the opening or the writing, and the call
\* gives up with memory as it has changed it.
SaveFails(u) ==
  /\ running
  /\ call[u].pc \in {"marshal", "truncate", "write"}
  /\ Lose
  /\ disk' \in {disk} \cup (IF call[u].pc = "write" THEN {Torn, call[u].data} ELSE {})
  /\ Go(u, Done)
  /\ unsaved' = unsaved \cup {call[u].game}
  /\ UNCHANGED <<running, cfg, server, crashes, overlap, doubtful, dropped>>

\* The client dies, and what was under way or not saved is never finished.
Crash ==
  /\ running
  /\ crashes < MaxCrashes
  /\ crashes' = crashes + 1
  /\ running' = FALSE
  /\ doubtful' = doubtful \cup {g \in Games : g \in unsaved \/ \E u \in Calls : call[u].game = g}
  /\ unsaved' = {}
  /\ call' = [u \in Calls |-> IF Under(u) THEN Done ELSE call[u]]
  /\ UNCHANGED <<cfg, disk, server, lost, overlap, dropped>>

\* LoadClient: without a config.json that can be read there is no client.
LoadClient ==
  /\ ~running
  /\ disk # Torn
  /\ cfg' = disk
  /\ running' = TRUE
  /\ UNCHANGED <<disk, call, server, faults, history>>

-----------------------------------------------------------------------------
Called(u) == (\E g \in Games : Join(u, g) \/ Switch(u, g)) \/ Leave(u) \/ Settings(u)
Save(u) == Marshal(u) \/ Truncate(u) \/ WriteFile(u) \/ SaveFails(u)
Continue(u) == JoinAsk(u) \/ AddGame(u) \/ SwitchTo(u) \/ LeaveAsk(u) \/ RemoveGame(u)
               \/ SetToken(u) \/ Save(u)

Next == (\E u \in Calls : Called(u) \/ Continue(u)) \/ Crash \/ LoadClient

Spec == Init /\ [][Next]_configVars

-----------------------------------------------------------------------------
\* The active game is one of the list, and the token is its own.
Sane(c) ==
  IF c.id = None THEN c.token = None
  ELSE c.games[c.id] # 0 /\ c.token = <<c.id, c.games[c.id]>>

\* Of a game that is in the list the server has the row, and it has no other of the
\* player's, in or out of the list, but those that were joined over.
Agrees(c, g) ==
  /\ c.games[g] # 0 => c.games[g] \in rows[g]
  /\ rows[g] \subseteq {c.games[g]} \cup dropped[g]

\* While the calls of the UI come one after the other, then between them config.json is
\* what memory is, unless the last save has failed; the list of games agrees with the
\* server, but for games of calls that were interrupted, by a lost answer or by a
\* crash before they had saved; and the active game is one of the list, with the token
\* of its own row, though it has been joined again.
InStep ==
  running /\ Quiet /\ ~overlap =>
    /\ unsaved = {} => disk = cfg
    /\ \A g \in Games \ doubtful : Agrees(cfg, g)
    /\ Sane(cfg)

FrameOK(f) ==
  /\ f.pc \in {"join", "add", "switch", "leave", "remove"} => f.game \in Games
  /\ f.pc = "add" => f.token # None
  /\ f.pc \in {"truncate", "write"} => f.data \in Config

\* What the one call under way has done to the structure so far ...
MemoryOK(f) ==
  /\ f.pc \in {"join", "add", "switch", "leave", "remove"} /\ unsaved = {} => disk = cfg
  /\ f.pc = "add" => f.token[1] = f.game /\ f.token[2] # 0 /\ f.token[2] \in rows[f.game]
  /\ f.pc = "switch" => cfg.games[f.game] # 0 /\ f.token = <<f.game, cfg.games[f.game]>>
  /\ f.pc \in {"leave", "remove"} => f.game = cfg.id /\ f.token = cfg.token
  /\ f.pc = "remove" => cfg.games[f.game] \notin rows[f.game]
  /\ IF f.pc = "token" THEN Sane([cfg EXCEPT !.token = f.token]) ELSE Sane(cfg)
  /\ f.pc \in {"truncate", "write"} => f.data = cfg
  /\ f.pc = "write" => disk = Torn
  /\ \A g \in Games \ doubtful :
       /\ cfg.games[g] # 0 => cfg.games[g] \in rows[g] \/ (f.pc = "remove" /\ g = f.game)
       /\ \A n \in rows[g] :
            n = cfg.games[g] \/ n \in dropped[g] \/ (f.pc = "add" /\ <<g, n>> = f.token)

\* ... and what a client started from config.json would find, unless a call that the
\* server has answered has yet to save.
Ahead(f, g) == f.pc \notin {"new", "join", "leave", "done"} /\ f.game = g

DiskOK ==
  disk # Torn =>
    /\ Sane(disk)
    /\ \A g \in Games \ (doubtful \cup unsaved) :
         Agrees(disk, g) \/ \E u \in Calls : Ahead(call[u], g)

\* What InStep rests on: calls that do not overlap are one at a time, and a client that
\* has died has none.
ConfigInv ==
  /\ TypeOK
  /\ \A u \in Calls : FrameOK(call[u])
  /\ ~running => Quiet /\ unsaved = {}
  /\ ~overlap =>
       /\ \A u, v \in Calls : Under(u) /\ Under(v) => u = v
       /\ running => \A u \in Calls : Under(u) => MemoryOK(call[u])
       /\ DiskOK
       /\ InStep

(***************************************************************************)
(* What fails once calls overlap, or the client dies at the wrong moment.  *)
(***************************************************************************)

\* Only the game that the player has left is removed.  LeaveGame reads cfg.GameID again
\* when the answer is there; a switch in between, and the other game is gone with its
\* token.
OthersStay ==
  [][\A u \in Calls : call[u].pc = "remove" /\ call'[u].pc = "token" =>
       \A g \in Games : cfg.games[g] # 0 /\ cfg'.games[g] = 0 => g = call[u].game]_configVars

\* Between calls config.json has the games that memory has.  Of two saves the one that
\* was made first may be written last, or over the other's bytes.
GamesKept == running /\ Quiet => disk # Torn /\ cfg.games = disk.games

\* A client that has died can be started again.  os.WriteFile empties config.json first.
StartsAgain == ~running => disk # Torn
=============================================================================
