# Vassal vLog Sync in TLA+

A verification of the Go program in `src/`: a server that keeps games and passes
the turn, and a client for every player that uploads the `.vlog` file the
player saves in VASSAL and downloads the one of the player before. The modules
here model the server's store with its HTTP handlers, the websocket hub with its
Redis channel, both rate limiters, the client's synchronisation engine with its
directory watcher, the client's games and configuration, and a game from end to
end. TLC checks them on small instances, and the TLA+ proof system proves every
safety property of the passing runs for every instance.

Contents: [the system](#the-system), [the modules](#the-modules),
[the runs](#the-runs), [bounds](#bounds), [fairness](#fairness),
[the proofs](#the-proofs), [findings](#what-the-code-does-not-keep),
[not modelled](#not-modelled), [the plan](#plan).

## The system

| component | state | operations | what is hard | what makes it correct |
|---|---|---|---|---|
| game store (`internal/server/store.go`), called by the handlers (`handlers.go`) | tables games, players, turns; blobs | CreateGame, JoinGame, SetTurnOrder, StartGame, UploadTurn, LeaveGame; reads GameState, GetTurnReader | one goroutine per request, transactions in only two operations, deaths between two calls | seats 0..n-1, one turn passed round, rows with blobs, references, the next player told |
| websocket hub (`internal/ws/hub.go`) | the map of clients under an RWMutex | HandleWS, BroadcastGame, BroadcastTurnChanged | writes under the read lock, two writers on one connection, peers that stop reading | no write after close, everybody gets in, every broadcast ends and reaches everybody once |
| Redis pub/sub (`internal/ws/redis.go`) | the channel | redisPublish, redisSubscribe | the publisher hears itself, the message lacks `your_turn` | events reach all instances |
| in-memory rate limiter (`ratelimit_memory.go`) | visitors: tokens, lastSeen | Allow, cleanupLoop | refilling lazily, forgetting | never more than the burst and the refill; otherwise nobody refused |
| Redis rate limiter (`ratelimit_redis.go`) | a sorted set per address | Allow | four commands, no transaction; clocks that differ; fails open | a bounded number in every window, nobody refused for what is past |
| synchronisation engine (`internal/syncengine/engine.go`) | cfg, watcher, lastUpload, lastSync | SetConfig, Run, onVlogChange, DownloadLatest, runWebSocket, pollState | two goroutines and the UI share state; retries; lost messages; the client's own downloads look like saves | every save of a turn goes up once, every turn comes down, no download goes up |
| directory watcher (`internal/watcher/watcher.go`) | lastSeen, ignored | Run, handleEvent, IgnoreDateSaved | several events for a write, files half written | one call for a save, none for a download |
| `.vlog` parser (`internal/vlog/vlog.go`) | – | ReadDateSaved | – | – |
| client configuration (`pkg/config/config.go`), changed by the client application (`internal/clientapp/app.go`) | the active game with its token, the list of games, `config.json` | CreateGame, JoinGame, SwitchGame, LeaveGame, SaveConfig; LoadClient | one structure, changed in place by every call without a lock; lost answers; death during a save | memory, `config.json` and server agree |
| client application, what it shows | the state shown, the socket | RefreshState, RefreshAllStates, pollState, the events of the socket | answers stored as they come, sockets of another game | in the end what is shown and listened to belongs to the active game |
| blob stores, mail, notifications, start and shutdown, migrations, UI, deployment | files, S3, SMTP, ... | | I/O | |

A handler calls the store, one database call after the other, and then the hub
and the mailer. The hub writes to the connections of its own instance and
publishes to Redis; each instance's subscriber repeats what Redis gives it. A
client's engine has two goroutines that matter: the watcher's loop, which calls
`onVlogChange` and through it uploads, and `runWebSocket`, which downloads when
told that it is the player's turn. They share `lastSync` and the values the
watcher ignores; the UI replaces the configuration and the watcher under both.

`PROJECT.json` lists under `hazards` what this makes hard to test, each at its
line.

## The modules

**Store** is one game in the server. Every database call of a handler is an
action, named for the operation and the call (`JoinLookup`, `JoinCount`,
`JoinInsert`), and the frame `req[r]` of a request keeps the locals the handler
still needs, so that what it read can go stale. CreateGame and the updates of
SetTurnOrder are single actions, for they are transactions (SetTurnOrder's as
serialisable as SQLite makes it). `players` is the table of players with their
`turn_order`, `turns` and `blobs` grow, `told` is whom the last upload told that
it is their turn, `ended` that `game_ended` was broadcast. `Fail` lets a handler
die between two calls: a database error, a cancelled request, the end of the
process. One game is enough: a token of another game is refused like an unknown
one. An upload that finds nobody left to divide by panics, which is the first
branch of `UploadAdvance`. Storing the blob and
taking `uploaded_at` are one step, so ids grow with time.

The host may order the seats by any list of ids ever given out, of players who have
left and with repetitions, for SetTurnOrder checks nothing of the kind
(`HostOrders = "any"`, lists up to `MaxList`): of a player listed twice the last entry
stays (`LastAt`), and an id that is no player's rolls the transaction back. `"full"` are
the orders that name everybody once. The mail of an upload (`UploadMail`) goes to
somebody in the seat that is next or, should the lookup fail or the address be empty, to
nobody, and the handler goes on; the broadcast (`UploadTell`) may name nobody too, for the
error of that lookup is dropped.

**TurnGame** is what a game promises: players in a row, a turn that goes round,
a row that closes up. **StoreTurns** shows that Store, serving one request at a
time with none dying, implements it: each request takes effect at one of its
writes, and what is still to be written after it is read off the frame. The
other modules' interleavings are exactly what this refinement excludes; the
runs with two requests say what survives them. **MCStore** has the symmetry
sets, **StoreProofs**, **StoreTurnsProofs** and **TurnGameProofs** the theorems.

**SyncSystem** puts the parts together: the turns are those of TurnGame (its
actions are TurnGame's, joined with what they mean for the rest), and around
them are the handler of an upload, which passes the turn in one step (`Upload`)
and tells the player at the index it found in a later one (`Tell`), or gets no further
than the upload or finds nobody to name (`TellFails`), the sockets, which break (`Drop`) and are made again (`Connect`), and the engines, which download
when told (`Download`) or give up after four attempts (`DownloadFails`). The engine's
inner steps are SyncEngine's business: here a player who has the file of the turn
may upload the next one. `telling` is a set of indices: two handlers that have
found the same index are one member, and what the second of them sends is a
repetition. There is one instance of the server, so Hub's events arrive; the first
player has no file to wait for. **SyncSystemProofs** has the theorems.

**TokenBucket** is the promise of a rate limiter, **MemoryRateLimiter** the code:
a visitor refilled when it is looked at and forgotten by `cleanupLoop`. Tokens
are integers of a unit that makes the rate whole; in place of `lastSeen` a
visitor has its age. `ImplementsBucket` maps the visitor to the bucket it would
be found with now, and a forgotten one to a full bucket, which is right under
`RefilledWhenStale`; the defaults of the code keep it.

**RedisRateLimiter** is the other limiter, for one address: `pipe[p]` is the frame of
one `Allow`, each of the four commands a step between which those of another
instance may fall, for a pipeline is not a transaction. A tick is a millisecond;
`ahead[p]` is how far the clock of the instance is ahead, `expires` when Redis drops the
key. A member of the sorted set is the millisecond itself, so two requests of one
millisecond are one member. `FailOpen` is an error after any prefix of the
commands, and lets the request through. `asked`, `passed` and `opened` are history of
late: the milliseconds asked for, who was let through by the count and who by a failure;
`life` is how often Redis has dropped the key. **RateLimiter** is `NewRateLimiterFromEnv`: one of the two, for good.
**RateLimiterProofs** has the theorems about both.

**SyncEngine** is one client and what it sees of the server. A file is its
`dateSaved`; a path is a directory and whether it is the player's own file or
`<game>_sync.vlog`. `up` is the frame of the watcher's goroutine (`HandleEvent`,
`Fetch`, `Check`, `UploadRead`, `UploadSend`), `down` that of the websocket's
(`HandleTurn`, `Download`, `DownloadWrite`, `DownloadDate`, `DownloadIgnore`). What
another goroutine can see between is a step of its own. `current` says whether
`e.watcher` is the watcher that runs. The server is abstracted to `mine`, `latest`
and `taken`. `due`, `synced` and `hasty` are history; `hasty` says that a save was made
out of time. With `Patient` the player waits for the download before saving; the code
does not ask for it, but the UI suggests it. A new file takes the next value unused
(`Unused`), for values are only ever compared. **MCSyncEngine** adds the symmetry of
directories; **SyncEngineProofs** has the theorems.

**ClientConfig** is the one `ClientConfig` of a client and its file. A call of the UI
(`call[u]`) asks the server, changes the structure field by field (`AddGame` or
`SwitchTo`, then `SetToken`: the other fields of `switchTo` go the way of the token),
takes the bytes (`Marshal`), empties the file (`Truncate`) and fills it (`WriteFile`),
perhaps over the bytes of another call. The server may refuse (`Refused`), an answer may
be lost when the server has acted (`AnswerOrLose`), and SaveClient may fail at the directory,
the bytes, the opening or the writing (`SaveFails`): then the call gives up with memory as
it has changed it. Calls overlap as they like, and the client may die at any point
(`Crash`) and be started again (`LoadClient`) if its file can be read. That Go may end a
program that changes and lists a map at once is a `Crash` too.
`rows[g]` are the rows the player has in a game: each time it is joined, the player being
in it or not, the server makes another (`joined` numbers them), and a token is the pair of
the game and that number. `cfg.games[g]` is the number of the token in the list, 0 if the
game is not there. Of history, `doubtful` are the games of interrupted calls, `unsaved` what
the calls were about that could not save, until a save goes through, `dropped` the rows
whose token was in the list until their game was joined again. **MCClientConfig** has the
symmetry of games and calls.

**ClientApp** adds what is read while this goes on: the state shown, asked for by
RefreshState, RefreshAllStates, the poll and the events of the socket, each
storing its answer as it comes (the refresh after an upload is one more
RefreshState); and the socket, which stays with the game it was dialled for until
its deadline. `news[g]` counts what has happened in a game; a state is `known` to whoever
asks with the token of a row the server has. An answer that does not
come is one that is not stored, and is left out. **ClientAppProofs** has the theorems
about both modules.

**Hub** is the connections of one game on one or more instances. `conn` is where
HandleWS is with each, `task` the frame of every goroutine that broadcasts: the
handlers, and the subscriber of each instance, for which the instance itself
stands. The write lock is a step, for its holder does one thing; the read lock
is held from `RLock` to `Finish`. A reader waits while a writer waits, as
`sync.RWMutex` has it. Two writes on one connection are undefined by
gorilla/websocket, which may notice and panic: `Panic` is a choice, and so is
going on. net/http recovers it in a handler; in `redisSubscribe` it ends the
process. `Stalls` lets a peer stop reading. **HubProofs** has the theorems.

Operators that begin with the comment "Fault:" are wrong variants of the
definition that follows. No specification uses them; they serve to see that each
property fails when the code is wrong.

## The runs

Passing, each with the question it answers:

| run | instance | question |
|---|---|---|
| `store_fk` | 3 players, 2 requests, deaths, any lists of up to two from the host, references enforced | do rows, blobs and seats stay consistent however two handlers interleave, and does the inductive invariant of the proofs hold? |
| `store_serial` | 4 players, 1 request, 3 turns | do the handlers one by one play `TurnGame`, and tell who is next? |
| `sync_system` | 4 players, who leave, lose connections and fail to download; handlers that tell nobody | does the game go on until somebody misses the file of the turn, and who can miss it? does a leave take the turn from nobody who stays? |
| `rate_limiters` | in memory: 2 addresses, 2/3 token a tick, burst 1; Redis: 2 pipelines, a window of 3 ms, clocks 1 ms apart, failures | is the one a token bucket, and does the other bound every window but for what its failures let through, and refuse nobody for what is past? |
| `sync_steady` | 2 saves, 2 turns of others, a connection that breaks, 3 losses | does a save of a turn go up and every turn told come down? |
| `sync_faults` | 2 saves at any time, 2 turns of others, 2 directories, the configuration saved at any time, breaking sockets, any one call lost | is what an answered upload has taken not taken from that file again; and as long as nothing has gone wrong, is each upload of the save it is dated by, and no downloaded file uploaded? |
| `client_config` | 2 games, joined and joined again, 3 calls, a lost answer or a failed save, a crash | do memory, `config.json` and server agree between calls that come one by one? |
| `client_app` | 2 games, a call, a refresh, a message, a crash | is in the end the newest state of the active game shown, and its socket open? |
| `hub_redis` | 2 instances, 1 broadcast of either kind, 2 connections | is nobody written to after the end, the lock given back when writes meet, and does whoever stays connected get the event, twice at most? |

What they show, where it is less than one might think:

- `SeatsInRange` (Store) is what is left of the range: no seat below the first, and none
  past both the seats joins have handed out and the lists of the host. That seats are
  0..n-1 each once (`SeatsDense`) is checked of a host who orders everybody once;
  `seats_repeat` refutes it otherwise.
- `GoesOn` and `MissedForCause` (SyncSystem): the game stands still for ever when one
  player misses one message. The causes are a handler of an upload that dies or fails to
  look up whom to tell, a connection that was down, four failed downloads, a leave that
  hands over the turn, and a leave that moves the row while the handler of an upload has
  yet to tell. An upload is one step here; what two overlapping uploads of one turn do is
  Store's business (`taken_in_turn`).
- `SaveGoesUp` (SyncEngine) promises a save of the turn outright as long as every save was
  made in time and no download has been uploaded. After that an upload under way may end
  the turn first or a newer save take the place of the older, and all it says is that
  the save is not left waiting while the turn lasts. GET /state is not among the calls the run
  loses: one loss there, and the save is dropped (`save_goes_up`).
- `TakenOnce` (SyncEngine) is about the player's own file. A save made between `Check` and
  `UploadRead` is sent under the date of the save before, and its own event sends it
  again, under its own date: that is the one way in which an answered content is taken
  again from there, and while nothing has gone wrong there is none (`LabelsTrue`). A save
  that comes back as a download is another file (`date_taken_once`).
- `ToldIsDownloaded` (SyncEngine) speaks of a connection that lasts; what is missed while it is
  down is `next_downloads`.
- `NoLateEcho` (SyncEngine) holds while the player saves once in a turn, after its
  file has come, no configuration was saved and no answer lost. Otherwise two
  downloads can pass while the watcher's upload is under way, `lastSync` remembers
  only the later, and the earlier is uploaded.
- `RedisWindowBound`: it counts all who are let through in a window, and those whom a
  failure of Redis lets through are allowed for one by one: as many as come, for the limiter
  fails open (`fails_open`). Of the others the bound is the burst and one for every other pipeline under
  way, in a window shortened by the skew of the clocks and the time a pipeline
  takes; it counts milliseconds, so any number of requests of one millisecond is
  one ("burst máximo" in PLANO_DEPLOY.md:155 is of requests). The rate
  (PLANO_DEPLOY.md:154) is read by `newRedisRateLimiter` and used by nothing. Refused
  requests count. A pipeline that breaks off before EXPIRE leaves a new key without an
  end, and an old one to its old end: Redis then drops it with the members of the present
  window, which may let as many through again. So the bound is said twice, for the time
  from one drop to the next (`LifeBound`) and, doubled if `Failures`, for a window with
  drops in it. The run is too small for a window to need the double; that it suffices is
  proved.
- `InStep` (ClientConfig) excepts two things between calls that come one by one:
  `config.json` after a save that failed, until one goes through, and the list of games for
  games whose call was interrupted. It excepts neither from this: the active game is one
  of the list and has the token that the list has for it. What goes wrong once calls overlap
  or the client dies in the wrong moment is `others_stay`, `games_kept` and `starts_again`.
- `LetIn` and `BroadcastEnds` (Hub) are about writers and readers of the lock, with peers
  that read; one that stops is `reaches_all_stalled`.
- `ReachesWhoStays` (Hub) is about a broadcast that meets its own repetition. Where
  those of two handlers meet, it fails (`reaches_among_others`).

Runs that refute a sentence of the repository are listed under
[findings](#what-the-code-does-not-keep).

Deadlock is not checked in the runs of Store, SyncSystem, SyncEngine and Hub: their
players, saves, broadcasts and connections are finitely many, so the system
really stops. So is it in `client_config` and
`client_app`, whose calls are finitely many. `rate_limiters` checks it.

## Bounds

- `Players`, `Requests`, `Saves`, `Theirs`, `Handlers`, `Conns`: finite sets. Every
  hazard listed needs two actors at once; three players are the fewest with a
  seat on either side of a leaver, and four let the refinement see a row close
  up in the middle. Two requests are two stale frames at a time; the proofs
  cover any number. Hub with two handlers and one connection on two instances
  was checked as well: all but `ReachesAmongOthers` hold there too.
- `IdLeft` (Store): a join starts only while an id is left for it. An id is a UUID;
  the code never runs out.
- `MaxList` (Store): the longest list of a host under `"any"`. Two entries can repeat a player,
  name one who has left or not name the third; seats past the last come from a list
  already with one player.
- `MaxTurns` (Store): no upload is admitted once so many blobs are stored. One
  (`store_fk`) is enough to bind an author; three (`store_serial`) let the turn come
  round.
- `MaxWindow` (limiters): an observation window has so many ticks; windows may be
  opened at any moment, so time itself is not bounded. `MaxLate` bounds how late
  `cleanupLoop` is; the property does not depend on it, only the state space.
- `MaxClock`, `MaxSkew`, `MaxDelay` (RedisRateLimiter): the last tick, how far a clock
  is ahead, how long a pipeline takes (here within its tick). Eight ticks are more than
  two windows, after which Redis drops a key that is not renewed: members are removed, come
  in while older ones are being removed, and go with the key. The proof covers any.
- `MaxLosses` (SyncEngine): so many calls are lost in all. `sync_steady` has 3, one
  less than the attempts: with 4 the code gives up, as its loops say. `Losses` names
  the calls that may be lost in a run. `sync_faults` loses one call of any kind: what
  it is about needs one cause each, and the proof covers any number.
- `Calls`, `MaxLosses`, `MaxCrashes` (ClientConfig): three calls are one that changes the
  games, one that overlaps with it, and one that finds what they have left; a
  loss or failed save and a crash may fall anywhere among them. `client_app` has
  `MaxLosses = 0`, for its state space; that a failed save keeps SwitchGame from refreshing is
  in the model, and such saves are the business of `client_config`. `MaxNews`, `Refreshes` (ClientApp): one
  message and one refresh that race the call, the poll and each other; the games
  change until one of them has changed `MaxNews` times.

## Fairness

SyncSystem assumes that handlers and engines go on (`Tell`, `Download`), that a
broken connection is made again (`Connect`, as `runWebSocket` does for ever), and that
whoever has the turn and its file plays in the end, which nothing but the
players can do: `GoesOn` is about a game whose players want to play.

SyncEngine assumes that its goroutines run on: weak fairness of `Watch`,
`Uploading`, `Connect` and `Downloading`, each of which is one goroutine. An event
is handled with strong fairness, since fsnotify's channel is a queue and the
watcher's loop comes back to it after each upload: an event cannot be passed
over for ever. Nobody has to save, play or lose a message.

ClientApp assumes of a client that runs that its calls, refreshes, poll and
websocket go on; the poll is a ticker, the deadline a timer. Nobody has to call,
to play, or to start a client that has died.

Hub assumes that its goroutines run on, that the scheduler and the lock are fair
to each, and that a write ends unless its peer has stopped reading. Nobody has to
connect, leave or broadcast.

Store has no liveness property: nothing in the code makes a request come.

## The proofs

**StoreProofs** proves of `Spec`, for every finite set of players, any requests, deaths
or none, any orders of the host:

- `TypeCorrect`, `BlobsBeforeRows` (`TurnsDownloadable`), `SeatsStayInRange` (`SeatsInRange`);
- where `ForeignKeys` holds: `NeverDividesByZero` (`NoDivideByZero`).

None is inductive. That the count is positive when the index is reduced rests on
the uploader's row being there since the turn was inserted, and that on the
reference; that a decrement stays in range rests on the frame of the leave
having an index greater than the seat; that a new seat is in range rests on the
count in the frame of the join being at most the ids issued, or on the length of the
host's list (`NamedLast`). `StoreInv` adds to the
properties what the frames promise (`FrameOK`) and that nobody sends a request
before there is a game (`NotYet`). `StoreInvariance` proves it with one lemma per
action; the lemmas about the frames are stated once for actions that change
one frame only. Assumptions: `StoreAssumption` of Store, and `ForeignKeys` where
named; the first three hold with the DSN of the README too, which enforces no
reference.

**StoreTurnsProofs** proves of Store, given `Serial` (one request at a time, none of which
dies, and a host who orders everybody or nobody), for any number of players and requests:
`SeatsInARow` (`SeatsDense`), `TwoInPlay` (`ActiveHasTwo`), `TellsTheHolder`
(`UploadTellsHolder`) and `PlaysTheGame` (`ImplementsTurnGame`), the refinement: each call to
the database is a step of TurnGame or a stutter. They rest on `SerialInvariance`: what a
request has read is still so when it is used (`Current`), and the seats are 0..n-1 but for
the gap that a leave is closing (`InRow`). The mapping puts each player
where the number of those before says (`InOrder`) instead of sorting, so that no induction
is needed; the lemmas at the head of the module say what inserting, removing, reordering
and closing a gap do to it. What TurnGameProofs proves then holds of Store served one at a
time, for it is implied by TurnGame's specification; the provers cannot use theorems
through `INSTANCE`, so this last inference is not theirs.

**RateLimiterProofs** proves `TypeCorrect` and, given `RefilledWhenStale`,
`WindowIsBounded` (`WindowBound`) and `LimiterIsBucket` (`ImplementsBucket`), the
refinement: initial states map to initial states, `Tick` to `Tick`, an `Allow` to a
`Request`, `Cleanup` to a stutter. `OneLimiter` says that a server with either limiter runs
as one with that limiter alone. Of the one with Redis it proves, for any number of
pipelines, any window and burst, failures or none, `RedisInvariance` (`RedisInv`),
`RedisWindowIsBounded` (`RedisWindowBound`) and `RefusesForCause` (`RedisRefusedForCause`), given
`Timely`: the skew of the clocks and the delay of a pipeline together are shorter than the
window. Its invariant has five parts. `RefuseInv`: what has been removed stays out, for what
another pipeline adds meanwhile is too young to have been removed. `PassInv`: those let
through in a window and the pipelines about to be, which have counted the former, are
together no more than the burst and one per other pipeline. `DropInv`: two windows lie
between one drop and the next, so that no window has requests of three lives. `KeyInv`:
unless pipelines fail, the key outlives its members by more than a window, and a drop
costs nothing. `OpenInv`: whom failures let through are requests, finitely many in a window.
Assumptions: `RateLimiterAssumption`, `MemoryRateLimiterAssumption`.

**TurnGameProofs** proves of `Spec`, for any finite set of players: `TurnStaysInRow`
(`TurnInRow`), `LeaveKeepsTurn` (`TurnStays`) and `TurnGoesToNext` (`PassesToNext`). The
invariant `RowInv` adds that nobody has two seats; the work is in one lemma about
`Without`, which says where everybody sits once the row has closed up.

**SyncSystemProofs** proves that every step of the system is one of TurnGame or leaves
it alone (`SystemPlaysTurnGame`), so that the theorems above hold in it, and from
them `SystemInvariance` (`SystemInv`) and `NobodyMissesWithoutCause` (`MissedForCause`). The
invariant says what is in flight as long as nobody has left (`InStride`): handlers
that tell have the index of the turn, nobody else has been told, and whoever has
been told has no file yet. After a leave nothing of it need hold, and the action
property names that as a cause.

**SyncEngineProofs** proves `EngineInvariance` (`EngineInv`), `TypeCorrect` (`TypeOK`) and
`AnsweredOnce` (`TakenOnce`), for any saves, directories, losses and reconfigurations; and, of
the time until something goes wrong, `LabelsAreTrue` (`LabelsTrue`) and `NoEchoOnceNoted`.
That the content sent is a value rests on files never being emptied and on
messages coming only after an upload (`Known`, `UploadOK`, `DownloadOK`); that what an
answered upload has taken is not taken again rests on `lastSeen` (`SentOK`): what is under
way is what `lastSeen` holds, and what was taken is that or overwritten, for the
player gives a save a value of its own. `NoEchoOnceNoted` (`NoLateEcho`) rests on `CalmInv`:
as long as nothing has gone wrong, every turn has one download at most, of the file of the
player before, which is over before the player saves (`OneDownload`); so whatever the
watcher has found or `onVlogChange` has in hand is either that file, in the turn it came
for, or the one save of the turn (`OneAtHand`), and no upload can pass the turn meanwhile but
that save's, which is why `LabelsTrue` follows from it as well. Assumption: `SyncEngineAssumption`.

**HubProofs** proves `HubInvariance` (`HubInv`), `TypeCorrect`, `NeverWritesAfterClose`
(`NoWriteAfterClose`) and `GetsItTwiceAtMost` (`TwiceAtHome`). Of the invariant, `WriteInv` says that whatever a broadcast has yet to write
to is in the map of its instance, which holds because nobody is deleted while a
reader is there, and that a goroutine that ends the process takes the others of
its instance along. `CopyInv` counts, for a connection and a broadcast, the copies written
with those that may still come, one from the handler and one from Redis; it needs
`PublishInv`: an event is published once, and an instance has it in its channel or at its
subscriber, never in both. Assumption: `HubAssumption`.

**ClientAppProofs** proves `ConfigInvariance` (`ConfigInv`) and `ConfigInStep` (`InStep`), for
any games, any number of calls, lost answers, failed saves and crashes. `InStep` speaks of
the moments between calls; what holds within one is said for each place it can be at
(`MemoryOK`), and what a client started from `config.json` would find if this one died now
(`DiskOK`). The two differ by the one call under way (`Ahead`) and by those that could not
save (`unsaved`), whose games become doubtful if the client dies before it has saved. `AppKeepsConfig` says that the app takes no step with the configuration that
ClientConfig does not take, so that both hold in it; and `AppTypeCorrect` (`AppTypeOK`) that the
app keeps its types, which rests on a socket having no more unread than its game has
changed (`AppShape`). Assumptions: `ClientConfigAssumption`, `ClientAppAssumption`.

Only model-checked: the liveness properties (`GoesOn`, `SaveGoesUp`, `ToldIsDownloaded`,
`StateSettles`, `SocketFollows`, `LetIn`, `BroadcastEnds`, `ReachesWhoStays`), which are out of
the prover's reach. Every invariant and every action property of a passing run is a
theorem. The assumptions `Serial` and `Timely` are the conditions under which the properties
are meant: without the first they are refuted (`turn_is_unique`, `taken_in_turn`), without
the second a window is over before the pipelines of its requests are.

## What the code does not keep

Three runs of `PROJECT.json` find a behaviour of the code against a sentence of
the repository, which its findings quote:

| run | module | what happens |
|---|---|---|
| `turn_is_held` | MCStore | the last seat leaves on its turn: nobody has the turn any more |
| `no_echo` | SyncEngine | a download is uploaded as the player's own turn |
| `your_turn_arrives` | Hub | through Redis the next player is not told that it is their turn |

The other configurations beside the modules ask more of the code than it gives;
TLC refutes each (`tlc -config once_each.cfg Hub`). They are not among the runs:

| configuration | module | what happens |
|---|---|---|
| `turn_is_unique` | MCStore | two joins at once share a seat |
| `seats_repeat` | StoreTurns | the host lists a player twice or leaves one out: seats repeat, or lie past the last |
| `holder_was_told` | MCStore | the turn passes by a leave and nobody is told |
| `lobby_has_host` | MCStore | the host leaves the lobby; nobody can start |
| `taken_in_turn` | MCStore | two uploads of one turn are both taken |
| `authors_stay` | MCStore | the documented DSN enforces no reference |
| `fails_open` | RateLimiter | while Redis is away the burst is not kept |
| `skips_downloads` | SyncEngine | after SetConfig the wrong watcher is told what to ignore |
| `save_goes_up` | SyncEngine | one failed GET /state and the save is dropped for good |
| `save_elsewhere` | SyncEngine | a new directory is not watched until the client is restarted |
| `next_downloads` | SyncEngine | a turn that passes while the socket is down is never downloaded |
| `date_taken_once` | SyncEngine | a slow download brings the player's own file back, and it is uploaded again |
| `others_stay` | ClientConfig | a switch while a game is being left, and the other game is removed |
| `games_kept` | ClientConfig | of two saves the older is written last: `config.json` lacks a game |
| `starts_again` | ClientConfig | the client dies while it saves and cannot be started again |
| `once_each` | Hub | an instance repeats its own broadcasts |
| `reaches_among_others` | Hub | two broadcasts meet, one panics before it publishes, and other instances never hear of it |
| `reaches_all` | Hub | a broadcast meets its echo, and the process ends |
| `reaches_all_stalled` | Hub | one peer that stops reading holds up everybody |

Seen on the way, with no sentence to hold against: with references enforced
LeaveGame fails for everybody who has uploaded, so only those who have not played
can leave; a retry after a lost answer can take the next turn; `jitteredDelay`
may exceed `maxBackoff` by half.

## Not modelled

- The lengths of the back-off (`nextBackoff`, `jitteredDelay`), the ping goroutine, whose
  pongs renew nothing, and `clientIP`, which reads a header.
- A save made for one game that goes up to another because the player switches
  while GET /state is under way: SyncEngine has one game, ClientApp no saves. The
  server refuses a token of another game (Store).
- Torn files: the watcher's five attempts are taken to end with a readable file.
  The player writes only files of their own, never `<game>_sync.vlog`.
- Lost or reordered messages between Redis and an instance.
- A mail that fails, which is logged and forgotten; what S3 or the file system
  do inside Put and Get.
- Isolation weaker than serialisable for SetTurnOrder's transaction (PostgreSQL's
  default), and clocks that differ between instances.
- `runMigrations` and `ClearIgnore`, which nobody calls; the UI and deployment.

## Plan

Done: Store, TurnGame, StoreTurns; the limiters and their choice; SyncEngine; Hub;
ClientConfig and ClientApp; SyncSystem; the proofs above.

What is left:

1. Proofs: TurnGame's `TurnStays` and `PassesToNext` stated of Store through the
   refinement; invariants that the runs do not check yet, as the model grows.
2. Clocks of several instances in Store (`uploaded_at`), and the isolation levels of
   PostgreSQL for SetTurnOrder.
3. SyncEngine with more than one game: a switch between GET /state, the upload and
   the name of the file downloaded.
