-------------------------------- MODULE Hub --------------------------------
(***************************************************************************)
(* The websocket hubs of one or more server instances and the Redis        *)
(* channel between them (internal/ws), for the connections of one game.    *)
(*                                                                         *)
(* Every connection has a goroutine (HandleWS) that takes h.mu to enter    *)
(* and to leave the map; every broadcast runs in the goroutine of its HTTP *)
(* handler, and every instance has a goroutine that repeats what comes     *)
(* from Redis; those hold h.mu for reading while they write to one         *)
(* connection after the other.  sync.RWMutex is external: a reader waits   *)
(* while a writer holds the lock or waits for it.  So is gorilla: a write  *)
(* that begins while another on the connection is under way panics, if it  *)
(* notices.                                                                *)
(***************************************************************************)
EXTENDS Integers, Sequences, FiniteSets

CONSTANTS
  Instances,   \* the server processes, which stand for their redisSubscribe too
  Handlers,    \* the goroutines that broadcast, once each
  Conns,       \* the connections
  None,        \* no connection
  Redis,       \* REDIS_ADDR is set
  Kinds,       \* what is broadcast: "turn" (BroadcastTurnChanged), "game" (BroadcastGame)
  Stalls       \* a peer may stop reading, which blocks the write for ever

ASSUME HubAssumption ==
  /\ Instances \cap Handlers = {}
  /\ None \notin Conns
  /\ Redis \in BOOLEAN
  /\ Kinds \subseteq {"turn", "game"}
  /\ Stalls \in BOOLEAN

VARIABLES
  home,      \* the instance of a connection, as the load balancer has it
  stalled,   \* the connections nobody reads
  conn,      \* where HandleWS is with a connection
  task,      \* the frame of every goroutine that broadcasts
  channel,   \* what Redis has yet to give to an instance
  got,       \* the messages written to a connection, with their your_turn
  crashed    \* the instances that are gone

vars == <<home, stalled, conn, task, channel, got, crashed>>

Tasks == Handlers \cup Instances

Stages == {"new", "joining", "in", "leaving", "closing", "closed"}

\* The event is known by the handler it comes from; "to" has the connections of the
\* players who have the turn.
Event == [from : Handlers \cup {None}, to : SUBSET Conns]
Task == [pc : {"ready", "publish", "rlock", "write", "done"}, at : Instances,
         kind : {"turn", "game", "repeat"}, event : Event, todo : SUBSET Conns,
         writing : Conns \cup {None}]

TypeOK ==
  /\ home \in [Conns -> Instances]
  /\ stalled \subseteq Conns
  /\ conn \in [Conns -> Stages]
  /\ task \in [Tasks -> Task]
  /\ channel \in [Instances -> Seq([from : Handlers, to : SUBSET Conns])]
  /\ got \in [Conns -> Seq([from : Handlers, yours : BOOLEAN])]
  /\ crashed \subseteq Instances

Idle(i, kind) == [pc |-> "ready", at |-> i, kind |-> kind, event |-> [from |-> None, to |-> {}],
                  todo |-> {}, writing |-> None]

Init ==
  /\ home \in [Conns -> Instances]
  /\ stalled \in IF Stalls THEN SUBSET Conns ELSE {{}}
  /\ conn = [c \in Conns |-> "new"]
  /\ \E at \in [Handlers -> Instances], kind \in [Handlers -> Kinds] :
       task = [x \in Tasks |-> IF x \in Handlers THEN Idle(at[x], kind[x]) ELSE Idle(x, "repeat")]
  /\ channel = [i \in Instances |-> <<>>]
  /\ got = [c \in Conns |-> <<>>]
  /\ crashed = {}

-----------------------------------------------------------------------------
fixed == <<home, stalled>>

At(c, stage) == conn[c] = stage
MoveTo(c, stage) == conn' = [conn EXCEPT ![c] = stage]
Step(x, pc) == task' = [task EXCEPT ![x].pc = pc]

\* The goroutines that hold h.mu for reading, and the connections that wait for it.
Readers(i) == {x \in Tasks : task[x].at = i /\ task[x].pc = "write"}
Waiting(i) == {c \in Conns : home[c] = i /\ conn[c] \in {"joining", "leaving"}}

\* h.clients: a connection is a member until it is deleted.
Members(i) == {c \in Conns : home[c] = i /\ conn[c] \in {"in", "leaving"}}

\* HandleWS
Upgrade(c) ==
  /\ At(c, "new")
  /\ home[c] \notin crashed
  /\ MoveTo(c, "joining")
  /\ UNCHANGED <<fixed, task, channel, got, crashed>>

Register(c) ==
  /\ At(c, "joining")
  /\ Readers(home[c]) = {}
  /\ MoveTo(c, "in")
  /\ UNCHANGED <<fixed, task, channel, got, crashed>>

ReadError(c) ==
  /\ At(c, "in")
  /\ MoveTo(c, "leaving")
  /\ UNCHANGED <<fixed, task, channel, got, crashed>>

\* Fault: the connection is closed without waiting for the lock.
UnregisterUnlocked(c) ==
  /\ At(c, "leaving")
  /\ MoveTo(c, "closing")
  /\ UNCHANGED <<fixed, task, channel, got, crashed>>

Unregister(c) ==
  /\ At(c, "leaving")
  /\ Readers(home[c]) = {}
  /\ MoveTo(c, "closing")
  /\ UNCHANGED <<fixed, task, channel, got, crashed>>

Close(c) ==
  /\ At(c, "closing")
  /\ MoveTo(c, "closed")
  /\ UNCHANGED <<fixed, task, channel, got, crashed>>

-----------------------------------------------------------------------------
\* Fault: the event is never filled in.
BroadcastBlank(h) ==
  /\ task[h].pc = "ready"
  /\ task' = [task EXCEPT ![h].pc = IF task[h].kind = "turn" THEN "rlock" ELSE "publish"]
  /\ UNCHANGED <<fixed, conn, channel, got, crashed>>

\* A handler broadcasts: BroadcastGame publishes first, BroadcastTurnChanged last.
Broadcast(h) ==
  /\ task[h].pc = "ready"
  /\ \E to \in IF task[h].kind = "turn" THEN SUBSET Conns ELSE {{}} :
       task' = [task EXCEPT ![h] = [@ EXCEPT !.pc = IF task[h].kind = "turn" THEN "rlock" ELSE "publish",
                                             !.event = [from |-> h, to |-> to]]]
  /\ UNCHANGED <<fixed, conn, channel, got, crashed>>

\* Fault: only the instance that publishes listens to the game's channel.
PublishHere(x) ==
  channel' = [i \in Instances |->
                IF Redis /\ i = task[x].at
                THEN Append(channel[i], [from |-> task[x].event.from, to |-> {}])
                ELSE channel[i]]

\* redisPublish: every instance that listens gets it, this one too, and nothing in it
\* says whose turn it is.
Publish(x) ==
  channel' = [i \in Instances |->
                IF Redis /\ i \notin crashed
                THEN Append(channel[i], [from |-> task[x].event.from, to |-> {}])
                ELSE channel[i]]

PublishFirst(h) ==
  /\ task[h].pc = "publish"
  /\ Publish(h)
  /\ Step(h, "rlock")
  /\ UNCHANGED <<fixed, conn, got, crashed>>

\* redisSubscribe hands the next message to broadcastLocal.
Receive(i) ==
  /\ task[i].pc = "ready"
  /\ channel[i] # <<>>
  /\ channel' = [channel EXCEPT ![i] = Tail(channel[i])]
  /\ task' = [task EXCEPT ![i] = [@ EXCEPT !.pc = "rlock", !.event = Head(channel[i])]]
  /\ UNCHANGED <<fixed, conn, got, crashed>>

RLock(x) ==
  /\ task[x].pc = "rlock"
  /\ Waiting(task[x].at) = {}
  /\ task' = [task EXCEPT ![x] = [@ EXCEPT !.pc = "write", !.todo = Members(task[x].at)]]
  /\ UNCHANGED <<fixed, conn, channel, got, crashed>>

WriteBegin(x, c) ==
  /\ task[x].pc = "write"
  /\ task[x].writing = None
  /\ c \in task[x].todo
  /\ task' = [task EXCEPT ![x] = [@ EXCEPT !.writing = c, !.todo = task[x].todo \ {c}]]
  /\ UNCHANGED <<fixed, conn, channel, got, crashed>>

\* Fault: the message is repeated when the peer is gone.
WriteEndAgain(x) ==
  LET c == task[x].writing IN
  /\ c # None
  /\ got' = [got EXCEPT ![c] = Append(got[c], [from |-> task[x].event.from,
                                               yours |-> c \in task[x].event.to])]
  /\ task' = [task EXCEPT ![x].writing = None,
                          ![x].todo = IF At(c, "leaving") THEN task[x].todo \cup {c} ELSE task[x].todo]
  /\ UNCHANGED <<fixed, conn, channel, crashed>>

\* Fault: the write waits for a peer that is leaving.
WriteEndWaits(x) ==
  LET c == task[x].writing IN
  /\ c # None
  /\ ~ At(c, "leaving")
  /\ got' = [got EXCEPT ![c] = Append(got[c], [from |-> task[x].event.from,
                                               yours |-> c \in task[x].event.to])]
  /\ task' = [task EXCEPT ![x].writing = None]
  /\ UNCHANGED <<fixed, conn, channel, crashed>>

\* Written, or failed and logged when the peer has left.
WriteEnd(x) ==
  LET c == task[x].writing IN
  /\ c # None
  /\ got' = [got EXCEPT ![c] = Append(got[c], [from |-> task[x].event.from,
                                               yours |-> c \in task[x].event.to])]
  /\ task' = [task EXCEPT ![x].writing = None]
  /\ UNCHANGED <<fixed, conn, channel, crashed>>

\* The loop is over: the handler is done, the subscriber takes its next message.
Finish(x) ==
  /\ task[x].pc = "write"
  /\ task[x].writing = None
  /\ task[x].todo = {}
  /\ IF task[x].kind = "turn" THEN Publish(x) ELSE UNCHANGED channel
  /\ task' = [task EXCEPT ![x] = IF x \in Handlers THEN [Idle(task[x].at, task[x].kind) EXCEPT !.pc = "done"]
                                                   ELSE Idle(x, "repeat")]
  /\ UNCHANGED <<fixed, conn, got, crashed>>

\* Two writes on one connection.  net/http recovers the panic of a handler, which
\* unlocks on its way; that of redisSubscribe ends the process.
Panic(x) ==
  /\ task[x].writing # None
  /\ \E y \in Tasks \ {x} : task[y].writing = task[x].writing
  /\ LET i == task[x].at
         Ended(y) == [Idle(i, task[y].kind) EXCEPT !.pc = "done"]
     IN IF x \in Handlers
        THEN /\ task' = [task EXCEPT ![x] = Ended(x)]
             /\ UNCHANGED <<conn, channel, crashed>>
        ELSE /\ crashed' = crashed \cup {i}
             /\ task' = [y \in Tasks |-> IF task[y].at = i THEN Ended(y) ELSE task[y]]
             /\ conn' = [c \in Conns |-> IF home[c] = i THEN "closed" ELSE conn[c]]
             /\ channel' = [channel EXCEPT ![i] = <<>>]
  /\ UNCHANGED <<fixed, got>>

-----------------------------------------------------------------------------
Serve(c) == Upgrade(c) \/ Register(c) \/ ReadError(c) \/ Unregister(c) \/ Close(c)
Work(x) == RLock(x) \/ (\E c \in Conns : WriteBegin(x, c)) \/ WriteEnd(x) \/ Finish(x)

Next ==
  \/ \E c \in Conns : Serve(c)
  \/ \E h \in Handlers : Broadcast(h) \/ PublishFirst(h)
  \/ \E i \in Instances : Receive(i)
  \/ \E x \in Tasks : Work(x) \/ Panic(x)

Spec == Init /\ [][Next]_vars

\* The goroutines run on, but for a write that nobody reads.  Nobody has to connect,
\* to leave or to broadcast.
Fairness ==
  /\ \A c \in Conns : WF_vars(Register(c)) /\ WF_vars(Unregister(c)) /\ WF_vars(Close(c))
  /\ \A h \in Handlers : WF_vars(PublishFirst(h))
  /\ \A i \in Instances : WF_vars(Receive(i))
  /\ \A x \in Tasks :
       /\ WF_vars(RLock(x))
       /\ WF_vars(\E c \in Conns : WriteBegin(x, c))
       /\ WF_vars(task[x].writing \notin stalled /\ WriteEnd(x))
       /\ WF_vars(Finish(x))

FairSpec == Spec /\ Fairness

-----------------------------------------------------------------------------
\* No broadcast writes to a connection that HandleWS has closed: the map is left first,
\* and only while no broadcast goes through it.
NoWriteAfterClose == \A x \in Tasks, c \in Conns : task[x].writing = c => conn[c] # "closed"

\* What keeps it so: whoever writes is under way with a broadcast of a handler, and all it
\* has yet to write to is in the map of its own instance.
Sound(t) ==
  /\ t.pc \in {"publish", "rlock", "write"} => t.event.from \in Handlers
  /\ t.writing # None => t.pc = "write"
  /\ t.pc = "write" =>
       \A c \in Conns : c \in t.todo \/ c = t.writing => home[c] = t.at /\ conn[c] \in {"in", "leaving"}

WriteInv ==
  /\ TypeOK
  /\ \A x \in Tasks : Sound(task[x])

\* A connection gets a broadcast once, or twice on the instance that publishes it, which
\* listens to its own channel (redis.go, redisSubscribe): never again, and never twice
\* elsewhere, whatever joins, leaves and panics on the way.
TwiceAtHome ==
  \A c \in Conns, h \in Handlers :
    Cardinality({k \in DOMAIN got[c] : got[c][k].from = h})
      <= IF Redis /\ home[c] = task[h].at THEN 2 ELSE 1

\* A goroutine at its broadcast may still write to c.
MayWrite(t, c) == t.pc = "rlock" \/ (t.pc = "write" /\ (c \in t.todo \/ c = t.writing))

Unpublished(t) == t.pc \in {"ready", "publish"} \/ (t.kind = "turn" /\ t.pc # "done")
Queued(i, h) == {k \in DOMAIN channel[i] : channel[i][k].from = h}
Repeats(i, h) == task[i].pc \in {"rlock", "write"} /\ task[i].event.from = h

\* What a connection has of a broadcast, and whether more may come: from the handler, which
\* writes where it runs, and from Redis.
Copies(c, h) == {k \in DOMAIN got[c] : got[c][k].from = h}
FromHandler(c, h) ==
  home[c] = task[h].at /\ (task[h].pc \in {"ready", "publish"} \/ MayWrite(task[h], c))
FromRedis(c, h) ==
  \/ Redis /\ Unpublished(task[h])
  \/ Queued(home[c], h) # {}
  \/ Repeats(home[c], h) /\ MayWrite(task[home[c]], c)

One(b) == IF b THEN 1 ELSE 0

\* Every event is published once, and each instance has it in its channel or at its
\* subscriber, which publishes nothing.
PublishInv ==
  /\ \A x \in Tasks : task[x].writing \notin task[x].todo
  /\ \A i \in Instances : task[i].kind = "repeat" /\ task[i].at = i
  /\ \A h \in Handlers :
       /\ task[h].kind \in {"turn", "game"}
       /\ task[h].pc \in {"publish", "rlock", "write"} => task[h].event.from = h
       /\ task[h].pc = "publish" => task[h].kind = "game"
  /\ \A i \in Instances, h \in Handlers :
       /\ \A j, k \in Queued(i, h) : j = k
       /\ Queued(i, h) # {} => ~Repeats(i, h) /\ ~Unpublished(task[h])
       /\ Repeats(i, h) => ~Unpublished(task[h])

\* A copy is written for one that was to come.
CopyInv ==
  \A c \in Conns, h \in Handlers :
    Cardinality(Copies(c, h)) + One(FromHandler(c, h)) + One(FromRedis(c, h))
      <= One(home[c] = task[h].at) + One(Redis)

HubInv == WriteInv /\ PublishInv /\ CopyInv

\* A client that connects is let in, and a broadcast comes to an end, although each
\* waits for the other.
LetIn == \A c \in Conns : conn[c] = "joining" ~> conn[c] # "joining"
BroadcastEnds == \A h \in Handlers : task[h].pc # "ready" ~> task[h].pc = "done"

Begins(h) == task[h].pc = IF task[h].kind = "turn" THEN "rlock" ELSE "publish"
Got(c, h) == \E k \in DOMAIN got[c] : got[c][k].from = h

Alone(h) == \A x \in Handlers \ {h} : task[x].pc = "ready"

\* Whoever is connected when a broadcast begins, to whatever instance, gets it, unless the
\* connection ends or another handler broadcasts: a panic where the broadcast meets its
\* own repetition does not keep it from the others.  (Where two broadcasts meet, the panic
\* of BroadcastTurnChanged comes before it publishes, and who is still to be written to
\* never hears of it.)
ReachesWhoStays ==
  \A c \in Conns, h \in Handlers :
    conn[c] = "in" /\ Begins(h) ~> Got(c, h) \/ conn[c] # "in" \/ ~Alone(h)

\* The same of any broadcasts.
ReachesAmongOthers ==
  \A c \in Conns, h \in Handlers :
    conn[c] = "in" /\ Begins(h) ~> Got(c, h) \/ conn[c] # "in"

(***************************************************************************)
(* What the repository says and the code does not keep.                    *)
(***************************************************************************)

\* PLANO_DEPLOY.md:170, "Publica no Redis para outras instâncias": a connection gets a
\* broadcast once.
OnceEach ==
  \A c \in Conns : \A j, k \in DOMAIN got[c] : got[c][j].from = got[c][k].from => j = k

\* GUIA_DEPLOY.md:190, "O Redis pub/sub garante que eventos WebSocket cheguem em todas as
\* instâncias": whoever is connected when a broadcast begins, to whatever instance, gets
\* it, or leaves of its own accord.
ReachesAll ==
  \A c \in Conns, h \in Handlers :
    conn[c] = "in" /\ Begins(h) ~> Got(c, h) \/ conn[c] = "leaving"

\* PLANO_DEPLOY.md:344, "duas instâncias do servidor, jogador A conectado na #1, jogador B
\* na #2 — evento turn_changed chega em ambos": the player whose turn it is learns it.
\* What goes through Redis does not say whose turn it is.
YourTurnArrives ==
  \A c \in Conns, h \in Handlers :
    conn[c] = "in" /\ Begins(h) /\ c \in task[h].event.to
      ~> conn[c] = "leaving" \/ \E k \in DOMAIN got[c] : got[c][k] = [from |-> h, yours |-> TRUE]
=============================================================================
