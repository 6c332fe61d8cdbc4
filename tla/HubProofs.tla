----------------------------- MODULE HubProofs -----------------------------
(***************************************************************************)
(* Hub keeps HubInv, for any number of instances, of handlers and of       *)
(* connections, with or without Redis, whoever stalls or panics: first who *)
(* may be written to, then how often.                                      *)
(***************************************************************************)
EXTENDS Hub, FiniteSetTheorems, TLAPS

Message == [from : Handlers, to : SUBSET Conns]
Receipt == [from : Handlers, yours : BOOLEAN]

\* A goroutine takes a step that leaves the connections alone.
LEMMA TaskStep ==
  ASSUME WriteInv, NEW x \in Tasks, NEW t \in Task, Sound(t),
         task' = [task EXCEPT ![x] = t],
         UNCHANGED <<fixed, conn, crashed>>,
         channel' \in [Instances -> Seq(Message)],
         got' \in [Conns -> Seq(Receipt)]
  PROVE  WriteInv'
<1>1. task' \in [Tasks -> Task]
  BY DEF WriteInv, TypeOK
<1>2. TypeOK'
  <2>1. home' \in [Conns -> Instances] /\ stalled' \subseteq Conns /\ conn' \in [Conns -> Stages] /\ crashed' \subseteq Instances
    BY DEF WriteInv, TypeOK, fixed
  <2> QED
    BY <1>1, <2>1 DEF TypeOK, Message, Receipt
<1>3. \A y \in Tasks : Sound(task[y])'
  BY DEF WriteInv, TypeOK, Sound, fixed
<1> QED
  BY <1>2, <1>3 DEF WriteInv

\* HandleWS takes a step with a connection that no broadcast may write to.
LEMMA ConnStep ==
  ASSUME WriteInv, NEW c \in Conns, NEW stage \in Stages, MoveTo(c, stage),
         UNCHANGED <<fixed, task, channel, got, crashed>>,
         \/ stage \in {"in", "leaving"}
         \/ \A x \in Tasks : task[x].pc = "write" => c \notin task[x].todo /\ c # task[x].writing
  PROVE  WriteInv'
<1>1. TypeOK'
  BY DEF WriteInv, TypeOK, MoveTo, fixed
<1>2. \A y \in Tasks : Sound(task[y])'
  BY DEF WriteInv, TypeOK, Sound, MoveTo, fixed
<1> QED
  BY <1>1, <1>2 DEF WriteInv

LEMMA IdleTask ==
  ASSUME NEW i \in Instances, NEW k \in {"turn", "game", "repeat"}
  PROVE  /\ Idle(i, k) \in Task /\ Sound(Idle(i, k))
         /\ [Idle(i, k) EXCEPT !.pc = "done"] \in Task /\ Sound([Idle(i, k) EXCEPT !.pc = "done"])
  BY DEF Idle, Task, Event, Sound

LEMMA InitInv == Init => WriteInv
<1> SUFFICES ASSUME Init PROVE WriteInv
  OBVIOUS
<1>1. PICK at \in [Handlers -> Instances], kind \in [Handlers -> Kinds] :
        task = [x \in Tasks |-> IF x \in Handlers THEN Idle(at[x], kind[x]) ELSE Idle(x, "repeat")]
  BY DEF Init
<1>2. \A x \in Tasks : task[x] \in Task /\ Sound(task[x])
  BY <1>1, IdleTask, HubAssumption DEF Tasks
<1>3. task \in [Tasks -> Task]
  BY <1>1, <1>2
<1>4. /\ channel \in [Instances -> Seq(Message)] /\ got \in [Conns -> Seq(Receipt)]
  BY DEF Init
<1>5. /\ home \in [Conns -> Instances] /\ stalled \subseteq Conns
      /\ conn \in [Conns -> Stages] /\ crashed \subseteq Instances
  BY DEF Init, Stages
<1> QED
  BY <1>2, <1>3, <1>4, <1>5 DEF WriteInv, TypeOK, Message, Receipt

LEMMA ServeInv == ASSUME WriteInv, NEW c \in Conns, Serve(c) PROVE WriteInv'
<1> USE DEF Stages, At
<1>1. \A x \in Tasks : conn[c] \notin {"in", "leaving"} /\ task[x].pc = "write"
        => c \notin task[x].todo /\ c # task[x].writing
  BY DEF WriteInv, Sound
<1>2. CASE Upgrade(c)
  BY <1>1, <1>2, ConnStep DEF Upgrade
<1>3. CASE Register(c)
  BY <1>3, ConnStep DEF Register
<1>4. CASE ReadError(c)
  BY <1>4, ConnStep DEF ReadError
<1>5. CASE Unregister(c)
  <2>1. \A x \in Tasks : task[x].pc = "write" => c \notin task[x].todo /\ c # task[x].writing
    BY <1>5 DEF Unregister, Readers, WriteInv, Sound
  <2> QED
    BY <1>5, <2>1, ConnStep DEF Unregister
<1>6. CASE Close(c)
  BY <1>1, <1>6, ConnStep DEF Close
<1> QED
  BY <1>2, <1>3, <1>4, <1>5, <1>6 DEF Serve

\* What is published is of the handler whose broadcast it is.
LEMMA PublishTypes ==
  ASSUME WriteInv, NEW x \in Tasks, task[x].event.from \in Handlers, Publish(x)
  PROVE  channel' \in [Instances -> Seq(Message)]
<1> DEFINE m == [from |-> task[x].event.from, to |-> {}]
<1>1. m \in Message
  BY DEF Message
<1>2. channel \in [Instances -> Seq(Message)]
  BY DEF WriteInv, TypeOK, Message
<1>3. channel' = [i \in Instances |-> IF Redis /\ i \notin crashed THEN Append(channel[i], m) ELSE channel[i]]
  BY DEF Publish
<1> HIDE DEF m, Message
<1> QED
  BY <1>1, <1>2, <1>3

LEMMA BroadcastInv == ASSUME WriteInv, NEW h \in Handlers, Broadcast(h) PROVE WriteInv'
<1>1. h \in Tasks /\ task[h] \in Task
  BY DEF Tasks, WriteInv, TypeOK
<1>2. PICK to \in SUBSET Conns :
        task' = [task EXCEPT ![h] = [@ EXCEPT !.pc = IF task[h].kind = "turn" THEN "rlock" ELSE "publish",
                                              !.event = [from |-> h, to |-> to]]]
  BY DEF Broadcast
<1> DEFINE t == [task[h] EXCEPT !.pc = IF task[h].kind = "turn" THEN "rlock" ELSE "publish",
                                !.event = [from |-> h, to |-> to]]
<1>3. t \in Task
  BY <1>1 DEF Task, Event
<1>4. Sound(t)
  BY <1>1 DEF Sound, Task, Broadcast, WriteInv
<1>5. task' = [task EXCEPT ![h] = t]
  BY <1>2
<1> HIDE DEF t
<1> QED
  BY <1>1, <1>3, <1>4, <1>5, TaskStep DEF Broadcast, WriteInv, TypeOK, Message, Receipt

LEMMA PublishFirstInv == ASSUME WriteInv, NEW h \in Handlers, PublishFirst(h) PROVE WriteInv'
<1>1. h \in Tasks /\ task[h] \in Task /\ task[h].event.from \in Handlers
  BY DEF Tasks, WriteInv, TypeOK, Sound, PublishFirst
<1> DEFINE t == [task[h] EXCEPT !.pc = "rlock"]
<1>2. t \in Task
  BY <1>1 DEF Task
<1>3. Sound(t)
  BY <1>1 DEF Sound, Task, PublishFirst, WriteInv
<1>4. task' = [task EXCEPT ![h] = t]
  BY DEF PublishFirst, Step
<1>5. channel' \in [Instances -> Seq(Message)]
  BY <1>1, PublishTypes DEF PublishFirst
<1> HIDE DEF t
<1> QED
  BY <1>1, <1>2, <1>3, <1>4, <1>5, TaskStep DEF PublishFirst, WriteInv, TypeOK, Receipt

LEMMA ReceiveInv == ASSUME WriteInv, NEW i \in Instances, Receive(i) PROVE WriteInv'
<1>1. i \in Tasks /\ task[i] \in Task
  BY DEF Tasks, WriteInv, TypeOK
<1>2. channel[i] \in Seq(Message) /\ channel[i] # <<>> /\ channel \in [Instances -> Seq(Message)]
  BY DEF WriteInv, TypeOK, Message, Receive
<1>3. Head(channel[i]) \in Message /\ Tail(channel[i]) \in Seq(Message)
  <2> HIDE DEF Message
  <2> QED
    BY <1>2
<1> DEFINE t == [task[i] EXCEPT !.pc = "rlock", !.event = Head(channel[i])]
<1>4. t \in Task
  BY <1>1, <1>3 DEF Task, Message, Event
<1>5. Sound(t)
  BY <1>1, <1>3 DEF Sound, Task, Message, Receive, WriteInv
<1>6. task' = [task EXCEPT ![i] = t]
  BY DEF Receive
<1>7. channel' \in [Instances -> Seq(Message)]
  BY <1>2, <1>3 DEF Receive
<1> HIDE DEF t
<1> QED
  BY <1>1, <1>4, <1>5, <1>6, <1>7, TaskStep DEF Receive, WriteInv, TypeOK, Receipt

LEMMA RLockInv == ASSUME WriteInv, NEW x \in Tasks, RLock(x) PROVE WriteInv'
<1>1. task[x] \in Task /\ Sound(task[x]) /\ task[x].pc = "rlock"
  BY DEF WriteInv, TypeOK, RLock
<1> DEFINE t == [task[x] EXCEPT !.pc = "write", !.todo = Members(task[x].at)]
<1>2. t \in Task
  BY <1>1 DEF Task, Members
<1>3. Sound(t)
  BY <1>1, HubAssumption DEF Sound, Task, Members
<1>4. task' = [task EXCEPT ![x] = t]
  BY DEF RLock
<1> HIDE DEF t
<1> QED
  BY <1>2, <1>3, <1>4, TaskStep DEF RLock, WriteInv, TypeOK, Message, Receipt

LEMMA WriteBeginInv ==
  ASSUME WriteInv, NEW x \in Tasks, NEW c \in Conns, WriteBegin(x, c) PROVE WriteInv'
<1>1. task[x] \in Task /\ Sound(task[x]) /\ task[x].pc = "write" /\ c \in task[x].todo
  BY DEF WriteInv, TypeOK, WriteBegin
<1> DEFINE t == [task[x] EXCEPT !.writing = c, !.todo = task[x].todo \ {c}]
<1>2. t \in Task
  BY <1>1 DEF Task
<1>3. Sound(t)
  <2>1. t.pc = "write" /\ t.event = task[x].event /\ t.at = task[x].at
        /\ t.todo = task[x].todo \ {c} /\ t.writing = c
    BY <1>1 DEF Task
  <2> HIDE DEF t
  <2> QED
    BY <1>1, <2>1 DEF Sound
<1>4. task' = [task EXCEPT ![x] = t]
  BY DEF WriteBegin
<1> HIDE DEF t
<1> QED
  BY <1>2, <1>3, <1>4, TaskStep DEF WriteBegin, WriteInv, TypeOK, Message, Receipt

LEMMA WriteEndInv == ASSUME WriteInv, NEW x \in Tasks, WriteEnd(x) PROVE WriteInv'
<1> DEFINE c == task[x].writing
           m == [from |-> task[x].event.from, yours |-> c \in task[x].event.to]
<1>1. task[x] \in Task /\ Sound(task[x]) /\ c \in Conns
  BY DEF WriteInv, TypeOK, WriteEnd, Task
<1>2. m \in Receipt
  BY <1>1 DEF Sound, WriteEnd, Receipt
<1>3. got' = [got EXCEPT ![c] = Append(got[c], m)] /\ got \in [Conns -> Seq(Receipt)]
  BY DEF WriteEnd, WriteInv, TypeOK, Receipt
<1>4. got' \in [Conns -> Seq(Receipt)]
  <2> HIDE DEF m, Receipt
  <2> QED
    BY <1>1, <1>2, <1>3
<1> DEFINE t == [task[x] EXCEPT !.writing = None]
<1>5. t \in Task
  BY <1>1 DEF Task
<1>6. Sound(t)
  BY <1>1, HubAssumption DEF Sound, Task
<1>7. task' = [task EXCEPT ![x] = t]
  BY DEF WriteEnd
<1> HIDE DEF t, m, c
<1> QED
  BY <1>4, <1>5, <1>6, <1>7, TaskStep DEF WriteEnd, WriteInv, TypeOK, Message

LEMMA FinishInv == ASSUME WriteInv, NEW x \in Tasks, Finish(x) PROVE WriteInv'
<1>1. /\ task[x] \in Task /\ task[x].at \in Instances /\ task[x].event.from \in Handlers
      /\ task[x].kind \in {"turn", "game", "repeat"}
  BY DEF WriteInv, TypeOK, Sound, Finish, Task
<1>2. channel' \in [Instances -> Seq(Message)]
  BY <1>1, PublishTypes DEF Finish, WriteInv, TypeOK, Message
<1> DEFINE t == IF x \in Handlers THEN [Idle(task[x].at, task[x].kind) EXCEPT !.pc = "done"] ELSE Idle(x, "repeat")
<1>3. t \in Task /\ Sound(t)
  BY <1>1, IdleTask DEF Tasks
<1>4. task' = [task EXCEPT ![x] = t]
  BY DEF Finish
<1> HIDE DEF t
<1> QED
  BY <1>2, <1>3, <1>4, TaskStep DEF Finish, WriteInv, TypeOK, Receipt

LEMMA PanicInv == ASSUME WriteInv, NEW x \in Tasks, Panic(x) PROVE WriteInv'
<1> DEFINE i == task[x].at
           Ended(y) == [Idle(i, task[y].kind) EXCEPT !.pc = "done"]
<1>1. /\ task \in [Tasks -> Task] /\ i \in Instances
      /\ \A y \in Tasks : Ended(y) \in Task /\ Sound(Ended(y))
  BY IdleTask DEF WriteInv, TypeOK, Task
<1> HIDE DEF Ended, i
<1>2. CASE x \in Handlers
  <2>1. task' = [task EXCEPT ![x] = Ended(x)]
    BY <1>2 DEF Panic, Ended, i
  <2> QED
    BY <1>1, <1>2, <2>1, TaskStep DEF Panic, WriteInv, TypeOK, Message, Receipt
<1>3. CASE x \notin Handlers
  <2>1. /\ task' = [y \in Tasks |-> IF task[y].at = i THEN Ended(y) ELSE task[y]]
        /\ conn' = [c \in Conns |-> IF home[c] = i THEN "closed" ELSE conn[c]]
        /\ channel' = [channel EXCEPT ![i] = <<>>]
        /\ crashed' = crashed \cup {i}
        /\ UNCHANGED <<home, stalled, got>>
    BY <1>3 DEF Panic, Ended, i, fixed
  <2>2. /\ task' \in [Tasks -> Task]
        /\ channel' \in [Instances -> Seq([from : Handlers, to : SUBSET Conns])]
        /\ conn' \in [Conns -> Stages]
    <3>1. task' \in [Tasks -> Task]
      BY <1>1, <2>1
    <3>2. channel' \in [Instances -> Seq([from : Handlers, to : SUBSET Conns])]
      <4>1. channel \in [Instances -> Seq(Message)]
        BY DEF WriteInv, TypeOK, Message
      <4>2. channel' \in [Instances -> Seq(Message)]
        <5>1. channel' = [channel EXCEPT ![i] = <<>>]
          BY <2>1
        <5>2. <<>> \in Seq(Message)
          OBVIOUS
        <5> HIDE DEF Message, WriteInv
        <5> QED
          BY <4>1, <5>1, <5>2, Zenon
      <4> QED
        BY <4>2 DEF Message
    <3>3. conn' \in [Conns -> Stages]
      BY <2>1 DEF WriteInv, TypeOK, Stages
    <3> QED
      BY <3>1, <3>2, <3>3
  <2>3. TypeOK'
    BY <1>1, <2>1, <2>2 DEF WriteInv, TypeOK
  <2>4. ASSUME NEW y \in Tasks PROVE Sound(task[y])'
    <3>1. CASE task[y].at = i
      <4>1. task'[y] = Ended(y)
        BY <2>1, <3>1
      <4> QED
        BY <4>1 DEF Sound, Ended, Idle
    <3>2. CASE task[y].at # i
      BY <2>1, <3>2 DEF WriteInv, Sound
    <3> QED
      BY <3>1, <3>2
  <2> QED
    BY <2>3, <2>4 DEF WriteInv
<1> QED
  BY <1>2, <1>3

-----------------------------------------------------------------------------
\* How often a connection gets a broadcast.

LEMMA Goroutines ==
  /\ \A h \in Handlers : h \in Tasks /\ h \notin Instances
  /\ \A i \in Instances : i \in Tasks /\ i \notin Handlers
  /\ \A x \in Tasks : x \in Handlers \/ x \in Instances
  BY HubAssumption DEF Tasks

\* What a goroutine may do with its frame so that nobody gets more than was to come.
Carries(t, x) ==
  /\ t.at = task[x].at /\ t.kind = task[x].kind /\ t.writing \notin t.todo
  /\ x \in Handlers =>
       /\ t.pc \in {"publish", "rlock", "write"} => t.event.from = x
       /\ t.pc = "publish" => t.kind = "game"
       /\ Unpublished(t) => Unpublished(task[x])
       /\ t.pc \in {"ready", "publish"} => task[x].pc \in {"ready", "publish"}
       /\ \A c \in Conns : MayWrite(t, c) => task[x].pc \in {"ready", "publish"} \/ MayWrite(task[x], c)
  /\ x \in Instances =>
       /\ t.pc \in {"rlock", "write"} => task[x].pc \in {"rlock", "write"} /\ t.event = task[x].event
       /\ \A c \in Conns : t.pc \in {"rlock", "write"} /\ MayWrite(t, c) => MayWrite(task[x], c)

LEMMA QuietStep ==
  ASSUME WriteInv, PublishInv, NEW x \in Tasks, NEW t, Carries(t, x),
         task' = [task EXCEPT ![x] = t], UNCHANGED <<home, channel>>
  PROVE  /\ PublishInv'
         /\ \A c \in Conns, h \in Handlers : /\ FromHandler(c, h)' => FromHandler(c, h)
                                             /\ FromRedis(c, h)' => FromRedis(c, h)
<1>1. \A y \in Tasks : task'[y] = IF y = x THEN t ELSE task[y]
  BY DEF WriteInv, TypeOK
<1>2. \A h \in Handlers : Unpublished(task[h])' => Unpublished(task[h])
  BY <1>1, Goroutines DEF Carries, Unpublished
<1>3. \A i \in Instances, h \in Handlers : /\ Queued(i, h)' = Queued(i, h)
                                           /\ Repeats(i, h)' => Repeats(i, h)
  <2>1. \A i \in Instances, h \in Handlers : Queued(i, h)' = Queued(i, h)
    BY DEF Queued
  <2>2. \A i \in Instances, h \in Handlers : Repeats(i, h)' => Repeats(i, h)
    BY <1>1, Goroutines DEF Carries, Repeats
  <2> QED
    BY <2>1, <2>2
<1>4. PublishInv'
  <2>1. \A y \in Tasks : task'[y].writing \notin task'[y].todo
    BY <1>1 DEF Carries, PublishInv
  <2>2. \A i \in Instances : task'[i].kind = "repeat" /\ task'[i].at = i
    BY <1>1, Goroutines DEF Carries, PublishInv
  <2>3. \A h \in Handlers : /\ task'[h].kind \in {"turn", "game"}
                            /\ task'[h].pc \in {"publish", "rlock", "write"} => task'[h].event.from = h
                            /\ task'[h].pc = "publish" => task'[h].kind = "game"
    BY <1>1, Goroutines DEF Carries, PublishInv
  <2>4. \A i \in Instances, h \in Handlers :
          /\ \A j, k \in Queued(i, h)' : j = k
          /\ Queued(i, h)' # {} => ~Repeats(i, h)' /\ ~Unpublished(task[h])'
          /\ Repeats(i, h)' => ~Unpublished(task[h])'
    BY <1>2, <1>3 DEF PublishInv
  <2> QED
    BY <2>1, <2>2, <2>3, <2>4 DEF PublishInv
<1>5. ASSUME NEW c \in Conns, NEW h \in Handlers PROVE FromHandler(c, h)' => FromHandler(c, h)
  <2>1. CASE h = x
    BY <1>1, <2>1 DEF FromHandler, Carries, MayWrite
  <2>2. CASE h # x
    BY <1>1, <2>2, Goroutines DEF FromHandler, MayWrite
  <2> QED
    BY <2>1, <2>2
<1>6. ASSUME NEW c \in Conns, NEW h \in Handlers PROVE FromRedis(c, h)' => FromRedis(c, h)
  <2> PICK i \in Instances : i = home[c]
    BY DEF WriteInv, TypeOK
  <2>1. Repeats(i, h)' /\ MayWrite(task[i], c)' => Repeats(i, h) /\ MayWrite(task[i], c)
    <3>1. CASE i = x
      BY <1>1, <1>3, <3>1, Goroutines DEF Carries, MayWrite, Repeats
    <3>2. CASE i # x
      BY <1>1, <1>3, <3>2, Goroutines DEF MayWrite
    <3> QED
      BY <3>1, <3>2
  <2> QED
    BY <1>2, <1>3, <2>1 DEF FromRedis
<1> QED
  BY <1>4, <1>5, <1>6

\* The event of x goes into the channels, once.
LEMMA PublishStep ==
  ASSUME WriteInv, PublishInv, NEW x \in Handlers, NEW t, Carries(t, x), ~Unpublished(t),
         Unpublished(task[x]), task[x].event.from = x, Publish(x),
         task' = [task EXCEPT ![x] = t], home' = home
  PROVE  /\ PublishInv'
         /\ \A c \in Conns, h \in Handlers : /\ FromHandler(c, h)' => FromHandler(c, h)
                                             /\ FromRedis(c, h)' => FromRedis(c, h)
<1>1. x \in Tasks /\ \A y \in Tasks : task'[y] = IF y = x THEN t ELSE task[y]
  BY Goroutines DEF WriteInv, TypeOK
<1>2. \A h \in Handlers : /\ h # x => Unpublished(task[h])' = Unpublished(task[h])
                          /\ ~Unpublished(task[x])'
  BY <1>1, Goroutines DEF Unpublished
<1>3. \A i \in Instances : task'[i] = task[i]
  BY <1>1, Goroutines
<1>4. \A i \in Instances, h \in Handlers : Repeats(i, h)' = Repeats(i, h)
  BY <1>3 DEF Repeats
<1>5. ASSUME NEW i \in Instances, NEW h \in Handlers
      PROVE  /\ h # x => Queued(i, h)' = Queued(i, h)
             /\ \A j, k \in Queued(i, x)' : j = k
             /\ Queued(i, x)' # {} => Redis
  <2> PICK m : m = [from |-> x, to |-> {}]
    OBVIOUS
  <2> PICK s : s = channel[i]
    OBVIOUS
  <2>1. channel'[i] = IF Redis /\ i \notin crashed THEN Append(s, m) ELSE s
    BY DEF Publish
  <2>2. m \in Message /\ s \in Seq(Message) /\ m.from = x
    BY DEF Message, WriteInv, TypeOK
  <2>3. Queued(i, x) = {}
    BY DEF PublishInv
  <2>4. CASE Redis /\ i \notin crashed
    <3>1. /\ DOMAIN channel'[i] = DOMAIN s \cup {Len(s) + 1} /\ Len(s) + 1 \notin DOMAIN s
          /\ channel'[i][Len(s) + 1] = m
          /\ \A k \in DOMAIN s : channel'[i][k] = s[k]
      <4> HIDE DEF Message
      <4> QED
        BY <2>1, <2>2, <2>4
    <3>2. Queued(i, x)' \subseteq {Len(s) + 1}
      BY <2>3, <3>1 DEF Queued
    <3>3. h # x => Queued(i, h)' = Queued(i, h)
      BY <2>2, <3>1 DEF Queued
    <3> QED
      BY <2>4, <3>2, <3>3
  <2>5. CASE ~(Redis /\ i \notin crashed)
    BY <2>1, <2>3, <2>5 DEF Queued
  <2> QED
    BY <2>4, <2>5
<1>6. PublishInv'
  <2>1. \A y \in Tasks : task'[y].writing \notin task'[y].todo
    BY <1>1 DEF Carries, PublishInv
  <2>2. \A i \in Instances : task'[i].kind = "repeat" /\ task'[i].at = i
    BY <1>3 DEF PublishInv
  <2>3. \A h \in Handlers : /\ task'[h].kind \in {"turn", "game"}
                            /\ task'[h].pc \in {"publish", "rlock", "write"} => task'[h].event.from = h
                            /\ task'[h].pc = "publish" => task'[h].kind = "game"
    BY <1>1, Goroutines DEF Carries, PublishInv
  <2>4. ASSUME NEW i \in Instances, NEW h \in Handlers
        PROVE  /\ \A j, k \in Queued(i, h)' : j = k
               /\ Queued(i, h)' # {} => ~Repeats(i, h)' /\ ~Unpublished(task[h])'
               /\ Repeats(i, h)' => ~Unpublished(task[h])'
    <3>1. CASE h = x
      <4>1. ~Repeats(i, x)
        BY DEF PublishInv
      <4> QED
        BY <1>2, <1>4, <1>5, <3>1, <4>1
    <3>2. CASE h # x
      BY <1>2, <1>4, <1>5, <3>2 DEF PublishInv
    <3> QED
      BY <3>1, <3>2
  <2> QED
    BY <2>1, <2>2, <2>3, <2>4 DEF PublishInv
<1>7. ASSUME NEW c \in Conns, NEW h \in Handlers PROVE FromHandler(c, h)' => FromHandler(c, h)
  <2>1. CASE h = x
    BY <1>1, <2>1 DEF FromHandler, Carries, MayWrite
  <2>2. CASE h # x
    BY <1>1, <2>2, Goroutines DEF FromHandler, MayWrite
  <2> QED
    BY <2>1, <2>2
<1>8. ASSUME NEW c \in Conns, NEW h \in Handlers PROVE FromRedis(c, h)' => FromRedis(c, h)
  <2> PICK i \in Instances : i = home[c]
    BY DEF WriteInv, TypeOK
  <2>1. MayWrite(task[i], c)' = MayWrite(task[i], c)
    BY <1>3 DEF MayWrite
  <2> QED
    BY <1>2, <1>4, <1>5, <2>1 DEF FromRedis
<1> QED
  BY <1>6, <1>7, <1>8

LEMMA OneMore ==
  ASSUME NEW S, IsFiniteSet(S), NEW x
  PROVE  /\ IsFiniteSet(S \cup {x}) /\ Cardinality(S \cup {x}) \in Nat
         /\ Cardinality(S \cup {x}) <= Cardinality(S) + 1
<1>1. IsFiniteSet(S \cup {x}) /\ Cardinality(S) \in Nat
  BY FS_AddElement, FS_CardinalityType
<1>2. Cardinality(S \cup {x}) = Cardinality(S) \/ Cardinality(S \cup {x}) = Cardinality(S) + 1
  BY FS_AddElement
<1> QED
  BY <1>1, <1>2

LEMMA CopiesFinite ==
  ASSUME WriteInv, NEW c \in Conns, NEW h
  PROVE  IsFiniteSet(Copies(c, h)) /\ Cardinality(Copies(c, h)) \in Nat
<1>1. got[c] \in Seq(Receipt)
  BY DEF WriteInv, TypeOK, Receipt
<1>2. Len(got[c]) \in Nat /\ Copies(c, h) \subseteq 1..Len(got[c])
  <2> HIDE DEF Receipt
  <2> QED
    BY <1>1 DEF Copies
<1>3. IsFiniteSet(1..Len(got[c]))
  BY <1>2, FS_Interval
<1> QED
  BY <1>2, <1>3, FS_Subset, FS_CardinalityType

\* A step after which no copy is to come that was not to come before.
LEMMA CopiesKept ==
  ASSUME WriteInv, CopyInv, UNCHANGED <<home, got>>,
         \A h \in Handlers : task'[h].at = task[h].at,
         \A c \in Conns, h \in Handlers : /\ FromHandler(c, h)' => FromHandler(c, h)
                                          /\ FromRedis(c, h)' => FromRedis(c, h)
  PROVE  CopyInv'
<1> SUFFICES ASSUME NEW c \in Conns, NEW h \in Handlers
             PROVE  Cardinality(Copies(c, h)') + One(FromHandler(c, h)') + One(FromRedis(c, h)')
                      <= One(home'[c] = task'[h].at) + One(Redis)
  BY DEF CopyInv, One
<1>1. Copies(c, h)' = Copies(c, h) /\ Cardinality(Copies(c, h)) \in Nat
  BY CopiesFinite DEF Copies
<1>2. Cardinality(Copies(c, h)) + One(FromHandler(c, h)) + One(FromRedis(c, h))
        <= One(home[c] = task[h].at) + One(Redis)
  BY DEF CopyInv
<1> QED
  BY <1>1, <1>2 DEF One

Rest == PublishInv /\ CopyInv

\* The frames of goroutines keep their place; so a quiet step keeps all of it.
LEMMA QuietRest ==
  ASSUME WriteInv, Rest, NEW x \in Tasks, NEW t, Carries(t, x),
         task' = [task EXCEPT ![x] = t], UNCHANGED <<home, channel, got>>
  PROVE  Rest'
<1>1. \A h \in Handlers : task'[h].at = task[h].at
  BY Goroutines DEF WriteInv, TypeOK, Carries
<1> QED
  BY <1>1, QuietStep, CopiesKept DEF Rest

LEMMA PublishRest ==
  ASSUME WriteInv, Rest, NEW x \in Handlers, NEW t, Carries(t, x), ~Unpublished(t),
         Unpublished(task[x]), task[x].event.from = x, Publish(x),
         task' = [task EXCEPT ![x] = t], UNCHANGED <<home, got>>
  PROVE  Rest'
<1>1. \A h \in Handlers : task'[h].at = task[h].at
  BY Goroutines DEF WriteInv, TypeOK, Carries
<1> QED
  BY <1>1, PublishStep, CopiesKept DEF Rest

LEMMA ServeRest == ASSUME WriteInv, Rest, UNCHANGED <<home, task, channel, got>> PROVE Rest'
<1>1. PublishInv'
  BY DEF Rest, PublishInv, Queued, Repeats, Unpublished
<1>2. \A c \in Conns, h \in Handlers : /\ FromHandler(c, h)' => FromHandler(c, h)
                                       /\ FromRedis(c, h)' => FromRedis(c, h)
  BY DEF FromHandler, FromRedis, Queued, Repeats, Unpublished, MayWrite
<1> QED
  BY <1>1, <1>2, CopiesKept DEF Rest

LEMMA BroadcastRest == ASSUME WriteInv, Rest, NEW h \in Handlers, Broadcast(h) PROVE Rest'
<1>1. h \in Tasks /\ h \notin Instances /\ task[h] \in Task /\ task[h].pc = "ready"
      /\ task[h].kind \in {"turn", "game"} /\ task[h].writing \notin task[h].todo
  BY Goroutines DEF WriteInv, TypeOK, Rest, PublishInv, Broadcast
<1>2. PICK to \in SUBSET Conns :
        task' = [task EXCEPT ![h] = [@ EXCEPT !.pc = IF task[h].kind = "turn" THEN "rlock" ELSE "publish",
                                              !.event = [from |-> h, to |-> to]]]
  BY DEF Broadcast
<1> PICK pc : pc = IF task[h].kind = "turn" THEN "rlock" ELSE "publish"
  OBVIOUS
<1> PICK t : t = [task[h] EXCEPT !.pc = pc, !.event = [from |-> h, to |-> to]]
  OBVIOUS
<1>3. /\ t.pc = pc /\ t.event.from = h /\ t.at = task[h].at /\ t.kind = task[h].kind
      /\ t.writing = task[h].writing /\ t.todo = task[h].todo
  BY <1>1 DEF Task
<1>4. Carries(t, h)
  BY <1>1, <1>3 DEF Carries, Unpublished
<1> QED
  BY <1>1, <1>2, <1>4, QuietRest DEF Broadcast, fixed

LEMMA PublishFirstRest == ASSUME WriteInv, Rest, NEW h \in Handlers, PublishFirst(h) PROVE Rest'
<1>1. h \in Tasks /\ h \notin Instances /\ task[h] \in Task /\ task[h].pc = "publish"
      /\ task[h].kind = "game" /\ task[h].writing \notin task[h].todo /\ task[h].event.from = h
  BY Goroutines DEF WriteInv, TypeOK, Rest, PublishInv, PublishFirst
<1> PICK t : t = [task[h] EXCEPT !.pc = "rlock"]
  OBVIOUS
<1>2. /\ t.pc = "rlock" /\ t.event.from = h /\ t.at = task[h].at /\ t.kind = task[h].kind
      /\ t.writing = task[h].writing /\ t.todo = task[h].todo
  BY <1>1 DEF Task
<1>3. Carries(t, h) /\ ~Unpublished(t) /\ Unpublished(task[h])
  BY <1>1, <1>2 DEF Carries, Unpublished
<1>4. task' = [task EXCEPT ![h] = t]
  BY DEF PublishFirst, Step
<1> QED
  BY <1>1, <1>3, <1>4, PublishRest DEF PublishFirst, fixed

LEMMA RLockRest == ASSUME WriteInv, Rest, NEW x \in Tasks, RLock(x) PROVE Rest'
<1>1. /\ task[x] \in Task /\ task[x].pc = "rlock" /\ task[x].writing = None
      /\ x \in Handlers => task[x].event.from = x
  BY DEF WriteInv, TypeOK, Sound, Rest, PublishInv, RLock
<1> PICK t : t = [task[x] EXCEPT !.pc = "write", !.todo = Members(task[x].at)]
  OBVIOUS
<1>2. /\ t.pc = "write" /\ t.event = task[x].event /\ t.at = task[x].at /\ t.kind = task[x].kind
      /\ t.writing = None /\ t.todo \subseteq Conns
  BY <1>1 DEF Task, Members
<1>3. t.writing \notin t.todo
  BY <1>2, HubAssumption
<1>4. Carries(t, x)
  BY <1>1, <1>2, <1>3 DEF Carries, Unpublished, MayWrite
<1> QED
  BY <1>4, QuietRest DEF RLock, fixed

LEMMA WriteBeginRest ==
  ASSUME WriteInv, Rest, NEW x \in Tasks, NEW c \in Conns, WriteBegin(x, c) PROVE Rest'
<1>1. /\ task[x] \in Task /\ task[x].pc = "write" /\ c \in task[x].todo
      /\ x \in Handlers => task[x].event.from = x
  BY DEF WriteInv, TypeOK, Rest, PublishInv, WriteBegin
<1> PICK t : t = [task[x] EXCEPT !.writing = c, !.todo = task[x].todo \ {c}]
  OBVIOUS
<1>2. /\ t.pc = "write" /\ t.event = task[x].event /\ t.at = task[x].at /\ t.kind = task[x].kind
      /\ t.writing = c /\ t.todo = task[x].todo \ {c}
  BY <1>1 DEF Task
<1>3. Carries(t, x)
  BY <1>1, <1>2 DEF Carries, Unpublished, MayWrite
<1> QED
  BY <1>3, QuietRest DEF WriteBegin, fixed

LEMMA FinishRest == ASSUME WriteInv, Rest, NEW x \in Tasks, Finish(x) PROVE Rest'
<1>1. /\ task[x] \in Task /\ task[x].pc = "write"
      /\ x \in Handlers => task[x].event.from = x
      /\ x \in Instances => task[x].kind = "repeat" /\ task[x].at = x
  BY DEF WriteInv, TypeOK, Rest, PublishInv, Finish
<1> PICK t : t = IF x \in Handlers THEN [Idle(task[x].at, task[x].kind) EXCEPT !.pc = "done"] ELSE Idle(x, "repeat")
  OBVIOUS
<1>2. /\ t.pc = IF x \in Handlers THEN "done" ELSE "ready"
      /\ t.at = task[x].at /\ t.kind = task[x].kind /\ t.todo = {}
  BY <1>1, Goroutines DEF Idle
<1>3. Carries(t, x) /\ (x \in Handlers => ~Unpublished(t))
  BY <1>1, <1>2, Goroutines DEF Carries, Unpublished, MayWrite
<1>4. task' = [task EXCEPT ![x] = t] /\ UNCHANGED <<home, got>>
  BY DEF Finish, fixed
<1>5. CASE task[x].kind = "turn"
  <2>1. x \in Handlers /\ Publish(x) /\ Unpublished(task[x])
    BY <1>1, <1>5, Goroutines DEF Finish, Unpublished
  <2> QED
    BY <1>1, <1>3, <1>4, <2>1, PublishRest
<1>6. CASE task[x].kind # "turn"
  BY <1>3, <1>4, <1>6, QuietRest DEF Finish
<1> QED
  BY <1>5, <1>6

\* Redis hands over what is published, and what the channel has of an event is the one copy.
LEMMA ReceiveRest == ASSUME WriteInv, Rest, NEW i \in Instances, Receive(i) PROVE Rest'
<1> PICK s : s = channel[i]
  OBVIOUS
<1>1. /\ s \in Seq(Message) /\ s # <<>> /\ channel \in [Instances -> Seq(Message)]
      /\ i \in Tasks /\ i \notin Handlers /\ task[i] \in Task /\ task[i].pc = "ready"
      /\ task[i].writing \notin task[i].todo /\ task[i].kind = "repeat" /\ task[i].at = i
      /\ task[i].writing = None
  BY Goroutines DEF WriteInv, TypeOK, Message, Receive, Rest, PublishInv, Sound
<1>2. /\ Head(s) = s[1] /\ 1 \in DOMAIN s /\ Tail(s) \in Seq(Message) /\ s[1] \in Message
      /\ \A k \in DOMAIN Tail(s) : k + 1 \in DOMAIN s /\ Tail(s)[k] = s[k + 1] /\ k \in Nat /\ k + 1 # 1
  <2> HIDE DEF Message
  <2> QED
    BY <1>1
<1> PICK t : t = [task[i] EXCEPT !.pc = "rlock", !.event = Head(s)]
  OBVIOUS
<1>3. /\ t.pc = "rlock" /\ t.event = s[1] /\ t.at = i /\ t.kind = "repeat"
      /\ t.writing = task[i].writing /\ t.todo = task[i].todo
  BY <1>1, <1>2 DEF Task
<1>4. /\ \A y \in Tasks : task'[y] = IF y = i THEN t ELSE task[y]
      /\ channel' = [channel EXCEPT ![i] = Tail(s)]
      /\ UNCHANGED <<home, got>>
  BY DEF Receive, fixed, WriteInv, TypeOK
<1>5. \A h \in Handlers : task'[h] = task[h]
  BY <1>1, <1>4, Goroutines
<1>6. \A j \in Instances : j # i => task'[j] = task[j] /\ channel'[j] = channel[j]
  BY <1>1, <1>4, Goroutines
<1>7. channel'[i] = Tail(s)
  BY <1>1, <1>4
<1>8. \A j \in Instances, h \in Handlers : j # i => Queued(j, h)' = Queued(j, h) /\ Repeats(j, h)' = Repeats(j, h)
  BY <1>6 DEF Queued, Repeats
<1>9. ASSUME NEW h \in Handlers
      PROVE  /\ \A k \in Queued(i, h)' : k + 1 \in Queued(i, h) /\ k \in Nat
             /\ Repeats(i, h)' <=> s[1].from = h
             /\ s[1].from = h => 1 \in Queued(i, h) /\ Queued(i, h)' = {}
  <2>1. \A k \in Queued(i, h)' : k + 1 \in Queued(i, h) /\ k \in Nat /\ k + 1 # 1
    BY <1>2, <1>7 DEF Queued
  <2>2. Repeats(i, h)' <=> s[1].from = h
    BY <1>1, <1>3, <1>4 DEF Repeats
  <2>3. s[1].from = h => 1 \in Queued(i, h)
    BY <1>2 DEF Queued
  <2>4. s[1].from = h => Queued(i, h)' = {}
    BY <2>1, <2>3 DEF Rest, PublishInv
  <2> QED
    BY <2>1, <2>2, <2>3, <2>4
<1>10. PublishInv'
  <2>1. \A y \in Tasks : task'[y].writing \notin task'[y].todo
    BY <1>1, <1>3, <1>4 DEF Rest, PublishInv
  <2>2. \A j \in Instances : task'[j].kind = "repeat" /\ task'[j].at = j
    <3>1. task'[i] = t
      BY <1>1, <1>4
    <3>2. \A j \in Instances : j # i => task'[j].kind = "repeat" /\ task'[j].at = j
      BY <1>6 DEF Rest, PublishInv
    <3> QED
      BY <1>3, <3>1, <3>2
  <2>3. \A h \in Handlers : /\ task'[h].kind \in {"turn", "game"}
                            /\ task'[h].pc \in {"publish", "rlock", "write"} => task'[h].event.from = h
                            /\ task'[h].pc = "publish" => task'[h].kind = "game"
    BY <1>5 DEF Rest, PublishInv
  <2>4. ASSUME NEW j \in Instances, NEW h \in Handlers
        PROVE  /\ \A k, l \in Queued(j, h)' : k = l
               /\ Queued(j, h)' # {} => ~Repeats(j, h)' /\ ~Unpublished(task[h])'
               /\ Repeats(j, h)' => ~Unpublished(task[h])'
    <3>1. Unpublished(task[h])' = Unpublished(task[h])
      BY <1>5 DEF Unpublished
    <3>2. CASE j # i
      BY <1>8, <3>1, <3>2 DEF Rest, PublishInv
    <3>3. CASE j = i
      <4>1. \A k, l \in Queued(i, h)' : k = l
        <5> SUFFICES ASSUME NEW k \in Queued(i, h)', NEW l \in Queued(i, h)' PROVE k = l
          OBVIOUS
        <5>1. k + 1 = l + 1 /\ k \in Nat /\ l \in Nat
          BY <1>9 DEF Rest, PublishInv
        <5> QED
          BY <5>1
      <4>2. Queued(i, h)' # {} => Queued(i, h) # {} /\ ~Repeats(i, h)'
        BY <1>9
      <4>3. Repeats(i, h)' => Queued(i, h) # {}
        BY <1>9
      <4> QED
        BY <3>1, <3>3, <4>1, <4>2, <4>3 DEF Rest, PublishInv
    <3> QED
      BY <3>2, <3>3
  <2> QED
    BY <2>1, <2>2, <2>3, <2>4 DEF PublishInv
<1>11. \A c \in Conns, h \in Handlers : FromHandler(c, h)' => FromHandler(c, h)
  BY <1>4, <1>5 DEF FromHandler, MayWrite
<1>12. ASSUME NEW c \in Conns, NEW h \in Handlers PROVE FromRedis(c, h)' => FromRedis(c, h)
  <2> PICK j \in Instances : j = home[c]
    BY DEF WriteInv, TypeOK
  <2>1. Unpublished(task[h])' = Unpublished(task[h])
    BY <1>5 DEF Unpublished
  <2>2. CASE j = i
    <3>1. Queued(i, h)' # {} \/ Repeats(i, h)' => Queued(i, h) # {}
      BY <1>9
    <3> QED
      BY <1>4, <2>1, <2>2, <3>1 DEF FromRedis
  <2>3. CASE j # i
    <3>1. MayWrite(task[j], c)' = MayWrite(task[j], c)
      BY <1>6, <2>3 DEF MayWrite
    <3> QED
      BY <1>4, <1>8, <2>1, <2>3, <3>1 DEF FromRedis
  <2> QED
    BY <2>2, <2>3
<1> QED
  BY <1>4, <1>5, <1>10, <1>11, <1>12, CopiesKept DEF Rest

\* What is written was to come, and is not to come again.
LEMMA WriteEndRest == ASSUME WriteInv, Rest, NEW x \in Tasks, WriteEnd(x) PROVE Rest'
<1> PICK c : c = task[x].writing
  OBVIOUS
<1> PICK h : h = task[x].event.from
  OBVIOUS
<1> PICK m : m = [from |-> h, yours |-> c \in task[x].event.to]
  OBVIOUS
<1>1. /\ task[x] \in Task /\ c \in Conns /\ c # None /\ h \in Handlers /\ task[x].pc = "write"
      /\ home[c] = task[x].at /\ c \notin task[x].todo /\ task[x].todo \subseteq Conns
      /\ MayWrite(task[x], c)
      /\ x \in Handlers => h = x
      /\ x \in Instances => task[x].at = x
  BY DEF WriteInv, TypeOK, Sound, Task, Rest, PublishInv, WriteEnd, MayWrite
<1>1a. m \in Receipt /\ m.from = h
  BY <1>1 DEF Receipt
<1> PICK t : t = [task[x] EXCEPT !.writing = None]
  OBVIOUS
<1>2. /\ t.pc = "write" /\ t.event = task[x].event /\ t.at = task[x].at /\ t.kind = task[x].kind
      /\ t.writing = None /\ t.todo = task[x].todo
  BY <1>1 DEF Task
<1>3. /\ task' = [task EXCEPT ![x] = t] /\ UNCHANGED <<home, channel>>
      /\ got' = [got EXCEPT ![c] = Append(got[c], m)]
  BY DEF WriteEnd, fixed
<1>4. Carries(t, x)
  BY <1>1, <1>2, HubAssumption DEF Carries, Unpublished, MayWrite
<1>5. /\ PublishInv'
      /\ \A d \in Conns, k \in Handlers : /\ FromHandler(d, k)' => FromHandler(d, k)
                                          /\ FromRedis(d, k)' => FromRedis(d, k)
  BY <1>3, <1>4, QuietStep DEF Rest
<1>6. task'[x] = t /\ \A k \in Handlers : task'[k].at = task[k].at
  BY <1>2, <1>3, Goroutines DEF WriteInv, TypeOK
<1>7. ~MayWrite(task[x], c)'
  BY <1>1, <1>2, <1>6 DEF MayWrite
<1>8. \/ FromHandler(c, h) /\ ~FromHandler(c, h)'
      \/ FromRedis(c, h) /\ ~FromRedis(c, h)'
  <2>1. CASE x \in Handlers
    BY <1>1, <1>2, <1>3, <1>6, <1>7, <2>1 DEF FromHandler
  <2>2. CASE x \in Instances
    <3>1. home[c] = x /\ Repeats(x, h) /\ Repeats(x, h)'
      BY <1>1, <1>2, <1>6, <2>2 DEF Repeats
    <3>2. Queued(x, h)' = {} /\ ~Unpublished(task[h])'
      BY <1>1, <1>5, <2>2, <3>1 DEF PublishInv
    <3> QED
      BY <1>1, <1>3, <1>7, <3>1, <3>2 DEF FromRedis
  <2> QED
    BY <2>1, <2>2, Goroutines
<1>9. ASSUME NEW d \in Conns, NEW k \in Handlers, d # c \/ k # h PROVE Copies(d, k)' = Copies(d, k)
  <2>1. CASE d # c
    BY <1>3, <2>1 DEF Copies, WriteInv, TypeOK
  <2>2. CASE d = c
    <3> PICK s : s = got[c]
      OBVIOUS
    <3>1. s \in Seq(Receipt) /\ m \in Receipt /\ got'[c] = Append(s, m) /\ m.from = h
      BY <1>1, <1>3, <1>1a DEF WriteInv, TypeOK, Receipt
    <3>2. /\ DOMAIN Append(s, m) = DOMAIN s \cup {Len(s) + 1}
          /\ Append(s, m)[Len(s) + 1] = m /\ \A j \in DOMAIN s : Append(s, m)[j] = s[j]
      <4> HIDE DEF Receipt
      <4> QED
        BY <3>1
    <3> QED
      BY <1>9, <2>2, <3>1, <3>2 DEF Copies
  <2> QED
    BY <2>1, <2>2
<1>10. Cardinality(Copies(c, h)') <= Cardinality(Copies(c, h)) + 1 /\ Cardinality(Copies(c, h)') \in Nat
  <2> PICK s : s = got[c]
    OBVIOUS
  <2>1. s \in Seq(Receipt) /\ m \in Receipt /\ got'[c] = Append(s, m)
    BY <1>1, <1>3, <1>1a DEF WriteInv, TypeOK, Receipt
  <2>2. /\ DOMAIN Append(s, m) = DOMAIN s \cup {Len(s) + 1}
        /\ \A j \in DOMAIN s : Append(s, m)[j] = s[j]
    <3> HIDE DEF Receipt
    <3> QED
      BY <2>1
  <2>3. Copies(c, h)' \subseteq Copies(c, h) \cup {Len(s) + 1}
    BY <2>1, <2>2 DEF Copies
  <2>4. IsFiniteSet(Copies(c, h)) /\ Cardinality(Copies(c, h)) \in Nat
    BY <1>1, CopiesFinite
  <2>5. /\ IsFiniteSet(Copies(c, h) \cup {Len(s) + 1})
        /\ Cardinality(Copies(c, h) \cup {Len(s) + 1}) \in Nat
        /\ Cardinality(Copies(c, h) \cup {Len(s) + 1}) <= Cardinality(Copies(c, h)) + 1
    BY <2>4, OneMore
  <2>6. /\ Cardinality(Copies(c, h)') <= Cardinality(Copies(c, h) \cup {Len(s) + 1})
        /\ IsFiniteSet(Copies(c, h)')
    BY <2>3, <2>5, FS_Subset
  <2> QED
    BY <2>4, <2>5, <2>6, FS_CardinalityType
<1>11. CopyInv'
  <2> SUFFICES ASSUME NEW d \in Conns, NEW k \in Handlers
               PROVE  Cardinality(Copies(d, k)') + One(FromHandler(d, k)') + One(FromRedis(d, k)')
                        <= One(home'[d] = task'[k].at) + One(Redis)
    BY DEF CopyInv, One
  <2>1. /\ Cardinality(Copies(d, k)) + One(FromHandler(d, k)) + One(FromRedis(d, k))
             <= One(home[d] = task[k].at) + One(Redis)
        /\ Cardinality(Copies(d, k)) \in Nat
    BY CopiesFinite DEF Rest, CopyInv
  <2>2. CASE d = c /\ k = h
    BY <1>3, <1>5, <1>6, <1>8, <1>10, <2>1, <2>2 DEF One
  <2>3. CASE d # c \/ k # h
    BY <1>3, <1>5, <1>6, <1>9, <2>1, <2>3 DEF One
  <2> QED
    BY <2>2, <2>3
<1> QED
  BY <1>5, <1>11 DEF Rest

LEMMA PanicRest == ASSUME WriteInv, Rest, NEW x \in Tasks, Panic(x) PROVE Rest'
<1> PICK i : i = task[x].at
  OBVIOUS
<1> DEFINE Ended(y) == [Idle(i, task[y].kind) EXCEPT !.pc = "done"]
<1>1. \A y : /\ Ended(y).pc = "done" /\ Ended(y).at = i /\ Ended(y).kind = task[y].kind
             /\ Ended(y).todo = {} /\ Ended(y).writing = None
  BY DEF Idle
<1>2. CASE x \in Handlers
  <2> PICK t : t = Ended(x)
    OBVIOUS
  <2>1. Carries(t, x) /\ task' = [task EXCEPT ![x] = t] /\ UNCHANGED <<home, channel, got>>
    BY <1>1, <1>2, Goroutines DEF Carries, Unpublished, MayWrite, Panic, fixed
  <2> QED
    BY <2>1, QuietRest
<1>3. CASE x \notin Handlers
  <2>1. /\ task' = [y \in Tasks |-> IF task[y].at = i THEN Ended(y) ELSE task[y]]
        /\ channel' = [channel EXCEPT ![i] = <<>>]
        /\ UNCHANGED <<home, got>>
    BY <1>3 DEF Panic, fixed
  <2> HIDE DEF Ended
  <2>2. \A y \in Tasks : /\ task'[y].at = task[y].at /\ task'[y].kind = task[y].kind
                         /\ \/ task'[y] = task[y]
                            \/ task'[y].pc = "done" /\ task'[y].todo = {}
    BY <1>1, <2>1
  <2>3. /\ \A h \in Handlers : Unpublished(task[h])' => Unpublished(task[h])
        /\ \A y \in Tasks, c \in Conns : MayWrite(task[y], c)' => MayWrite(task[y], c)
    BY <2>2, Goroutines DEF Unpublished, MayWrite
  <2>4. \A j \in Instances, h \in Handlers : /\ Queued(j, h)' \subseteq Queued(j, h)
                                             /\ Repeats(j, h)' => Repeats(j, h)
    <3>1. \A j \in Instances : channel'[j] = channel[j] \/ channel'[j] = <<>>
      BY <2>1 DEF WriteInv, TypeOK
    <3>2. \A j \in Instances, h \in Handlers : Queued(j, h)' \subseteq Queued(j, h)
      BY <3>1 DEF Queued
    <3>3. \A j \in Instances, h \in Handlers : Repeats(j, h)' => Repeats(j, h)
      BY <2>2, Goroutines DEF Repeats
    <3> QED
      BY <3>2, <3>3
  <2>5. PublishInv'
    <3>1. \A y \in Tasks : task'[y].writing \notin task'[y].todo
      BY <2>2 DEF Rest, PublishInv
    <3>2. \A j \in Instances : task'[j].kind = "repeat" /\ task'[j].at = j
      BY <2>2, Goroutines DEF Rest, PublishInv
    <3>3. \A h \in Handlers : /\ task'[h].kind \in {"turn", "game"}
                              /\ task'[h].pc \in {"publish", "rlock", "write"} => task'[h].event.from = h
                              /\ task'[h].pc = "publish" => task'[h].kind = "game"
      BY <2>2, Goroutines DEF Rest, PublishInv
    <3>4. \A j \in Instances, h \in Handlers :
            /\ \A k, l \in Queued(j, h)' : k = l
            /\ Queued(j, h)' # {} => ~Repeats(j, h)' /\ ~Unpublished(task[h])'
            /\ Repeats(j, h)' => ~Unpublished(task[h])'
      BY <2>3, <2>4 DEF Rest, PublishInv
    <3> QED
      BY <3>1, <3>2, <3>3, <3>4 DEF PublishInv
  <2>6. \A c \in Conns, h \in Handlers : FromHandler(c, h)' => FromHandler(c, h)
    BY <2>1, <2>2, <2>3, Goroutines DEF FromHandler
  <2>7. \A c \in Conns, h \in Handlers : FromRedis(c, h)' => FromRedis(c, h)
    <3> SUFFICES ASSUME NEW c \in Conns, NEW h \in Handlers PROVE FromRedis(c, h)' => FromRedis(c, h)
      OBVIOUS
    <3>1. home[c] \in Instances /\ home[c] \in Tasks /\ home' = home
      BY <2>1, Goroutines DEF WriteInv, TypeOK
    <3> QED
      BY <2>3, <2>4, <3>1 DEF FromRedis
  <2> QED
    BY <2>1, <2>2, <2>5, <2>6, <2>7, Goroutines, CopiesKept DEF Rest
<1> QED
  BY <1>2, <1>3

LEMMA InitRest == ASSUME Init PROVE Rest
<1>1. PICK at \in [Handlers -> Instances], kind \in [Handlers -> Kinds] :
        task = [x \in Tasks |-> IF x \in Handlers THEN Idle(at[x], kind[x]) ELSE Idle(x, "repeat")]
  BY DEF Init
<1>2. /\ \A h \in Handlers : task[h] = Idle(at[h], kind[h]) /\ kind[h] \in {"turn", "game"}
      /\ \A i \in Instances : task[i] = Idle(i, "repeat")
  BY <1>1, Goroutines, HubAssumption
<1>2a. \A i, k : /\ Idle(i, k).pc = "ready" /\ Idle(i, k).at = i /\ Idle(i, k).kind = k
                /\ Idle(i, k).todo = {} /\ Idle(i, k).writing = None
  BY DEF Idle
<1>3. /\ \A h : \A i \in Instances : Queued(i, h) = {}
      /\ \A h : \A c \in Conns : Copies(c, h) = {}
  BY DEF Init, Queued, Copies
<1>4. \A h : \A i \in Instances : ~Repeats(i, h)
  BY <1>2, <1>2a DEF Repeats
<1>5. PublishInv
  BY <1>2, <1>3, <1>4, <1>2a, Goroutines DEF PublishInv
<1>6. CopyInv
  <2> SUFFICES ASSUME NEW c \in Conns, NEW h \in Handlers
               PROVE  Cardinality(Copies(c, h)) + One(FromHandler(c, h)) + One(FromRedis(c, h))
                        <= One(home[c] = task[h].at) + One(Redis)
    BY DEF CopyInv
  <2>1. Cardinality(Copies(c, h)) = 0
    BY <1>3, FS_EmptySet
  <2>2. home[c] \in Instances
    BY DEF Init
  <2>3. /\ FromHandler(c, h) => home[c] = task[h].at
        /\ FromRedis(c, h) => Redis
    BY <1>3, <1>4, <2>2 DEF FromHandler, FromRedis
  <2> QED
    BY <2>1, <2>3 DEF One
<1> QED
  BY <1>5, <1>6 DEF Rest

-----------------------------------------------------------------------------
\* HubInv is inductive: connections come and go, broadcasts start, meet and panic, nobody is
\* ever about to write to a connection that is not in the map, and of no broadcast more is to
\* come than the handler's own round and one repetition.
THEOREM HubInvariance == Spec => []HubInv
<1>1. Init => HubInv
  BY InitInv, InitRest DEF HubInv, Rest
<1>2. HubInv /\ [Next]_vars => HubInv'
  <2> SUFFICES ASSUME WriteInv, Rest, [Next]_vars PROVE WriteInv' /\ Rest'
    BY DEF HubInv, Rest
  <2>1. CASE UNCHANGED vars
    <3>1. WriteInv'
      BY <2>1 DEF vars, WriteInv, TypeOK, Sound
    <3> QED
      BY <2>1, <3>1, ServeRest DEF vars
  <2>2. ASSUME NEW c \in Conns, Serve(c) PROVE WriteInv' /\ Rest'
    <3>1. UNCHANGED <<home, task, channel, got>>
      BY <2>2 DEF Serve, Upgrade, Register, ReadError, Unregister, Close, fixed
    <3> QED
      BY <2>2, <3>1, ServeInv, ServeRest
  <2>3. ASSUME NEW h \in Handlers, Broadcast(h) \/ PublishFirst(h) PROVE WriteInv' /\ Rest'
    BY <2>3, BroadcastInv, PublishFirstInv, BroadcastRest, PublishFirstRest
  <2>4. ASSUME NEW i \in Instances, Receive(i) PROVE WriteInv' /\ Rest'
    BY <2>4, ReceiveInv, ReceiveRest
  <2>5. ASSUME NEW x \in Tasks, Work(x) \/ Panic(x) PROVE WriteInv' /\ Rest'
    <3>1. WriteInv'
      BY <2>5, RLockInv, WriteBeginInv, WriteEndInv, FinishInv, PanicInv DEF Work
    <3>2. Rest'
      BY <2>5, RLockRest, WriteBeginRest, WriteEndRest, FinishRest, PanicRest DEF Work
    <3> QED
      BY <3>1, <3>2
  <2> QED
    BY <2>1, <2>2, <2>3, <2>4, <2>5 DEF Next
<1> QED
  BY <1>1, <1>2, PTL DEF Spec

\* The frames, the channel and what was received keep their types.
THEOREM TypeCorrect == Spec => []TypeOK
<1>1. HubInv => TypeOK
  BY DEF HubInv, WriteInv
<1> QED
  BY <1>1, HubInvariance, PTL

\* A connection is closed when no broadcast can write to it any more, for any number of
\* connections, broadcasts and instances.
THEOREM NeverWritesAfterClose == Spec => []NoWriteAfterClose
<1>1. HubInv => NoWriteAfterClose
  BY HubAssumption DEF HubInv, WriteInv, Sound, NoWriteAfterClose
<1> QED
  BY <1>1, HubInvariance, PTL

\* However broadcasts, joins, leaves, panics and what Redis repeats fall together, a connection
\* gets a broadcast once, or twice on the instance that publishes it (hub.go, BroadcastGame and
\* BroadcastTurnChanged; redis.go, redisSubscribe), for any instances, handlers and connections.
THEOREM GetsItTwiceAtMost == Spec => []TwiceAtHome
<1>1. HubInv => TwiceAtHome
  <2> SUFFICES ASSUME HubInv, NEW c \in Conns, NEW h \in Handlers
               PROVE  Cardinality(Copies(c, h)) <= IF Redis /\ home[c] = task[h].at THEN 2 ELSE 1
    BY DEF TwiceAtHome, Copies
  <2>1. /\ Cardinality(Copies(c, h)) + One(FromHandler(c, h)) + One(FromRedis(c, h))
             <= One(home[c] = task[h].at) + One(Redis)
        /\ Cardinality(Copies(c, h)) \in Nat
    BY CopiesFinite DEF HubInv, CopyInv
  <2> QED
    BY <2>1 DEF One
<1> QED
  BY <1>1, HubInvariance, PTL
=============================================================================
