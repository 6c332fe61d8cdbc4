----------------------------- MODULE ClientApp -----------------------------
(***************************************************************************)
(* What the client of one player shows, and which game it listens to, while *)
(* the calls of ClientConfig change the active game under it: RefreshState *)
(* and RefreshAllStates of internal/clientapp, pollState, runWebSocket and *)
(* handleWSEvent of internal/syncengine.  Each reads cfg when it asks and  *)
(* stores the answer when it comes; and the socket stays with the game it  *)
(* was dialled for until its read deadline.                                *)
(***************************************************************************)
EXTENDS ClientConfig

CONSTANTS
  Refreshes,   \* the calls of the UI that refresh the state shown, one each
  MaxNews      \* bound: the games change until one has changed so often

ASSUME ClientAppAssumption == Refreshes \cap Calls = {} /\ MaxNews \in Nat

VARIABLES
  news,    \* server: how often each game has changed
  shown,   \* a.state
  asks,    \* the frames of RefreshState, of SwitchGame too, and RefreshAllStates
  poll,    \* the answer pollState has got
  sock     \* the socket: the game it was dialled for, what is unread, an answer

stateVars == <<news, shown, asks, poll, sock>>
vars == <<configVars, stateVars>>

State == [game : Games, news : 0..MaxNews, known : BOOLEAN]
NoSock == [game |-> None, unread |-> 0, answer |-> None]
Ask == [pc : {"new", "fetch", "show", "again", "all", "done"}, todo : SUBSET Games, answer : State \cup {None}]

Asks(pc) == [pc |-> pc, todo |-> {}, answer |-> None]
Askers == Calls \cup Refreshes

AppTypeOK ==
  /\ TypeOK
  /\ news \in [Games -> 0..MaxNews]
  /\ shown \in State \cup {None}
  /\ asks \in [Askers -> Ask]
  /\ poll \in State \cup {None}
  /\ sock \in [game : Games \cup {None}, unread : 0..MaxNews, answer : State \cup {None}]

AppInit ==
  /\ Init
  /\ news = [g \in Games |-> 0]
  /\ shown = None
  /\ asks = [n \in Askers |-> Asks("new")]
  /\ poll = None
  /\ sock = NoSock

-----------------------------------------------------------------------------
\* GET /state: the server answers anybody, but only a token of the game learns whose
\* turn it is.
StateOf(id, token) ==
  [game |-> id, news |-> news[id], known |-> \E n \in rows[id] : token = <<id, n>>]

\* Fault: who is connected is told twice.
NewsTwice(g) ==
  /\ \A h \in Games : news[h] < MaxNews
  /\ news' = [news EXCEPT ![g] = news[g] + 1]
  /\ sock' = IF sock.game = g THEN [sock EXCEPT !.unread = sock.unread + 2] ELSE sock
  /\ UNCHANGED <<configVars, shown, asks, poll>>

\* Another player does something in a game, which those connected are told.
News(g) ==
  /\ \A h \in Games : news[h] < MaxNews
  /\ news' = [news EXCEPT ![g] = news[g] + 1]
  /\ sock' = IF sock.game = g THEN [sock EXCEPT !.unread = sock.unread + 1] ELSE sock
  /\ UNCHANGED <<configVars, shown, asks, poll>>

\* RefreshState: the game is the one that is active when it is asked for.
RefreshState(n) ==
  /\ running
  /\ asks[n].pc = "new"
  /\ asks' = [asks EXCEPT ![n].pc = "fetch"]
  /\ UNCHANGED <<configVars, news, shown, poll, sock>>

Fetch(n) ==
  /\ asks[n].pc = "fetch"
  /\ asks' = [asks EXCEPT ![n] = IF cfg.id = None THEN Asks("done")
                                 ELSE [Asks("show") EXCEPT !.answer = StateOf(cfg.id, cfg.token)]]
  /\ UNCHANGED <<configVars, news, shown, poll, sock>>

\* RefreshAllStates: the games of the map, one after the other, with their own tokens.
RefreshAllStates(n) ==
  /\ running
  /\ asks[n].pc = "new"
  /\ asks' = [asks EXCEPT ![n].pc = "all", ![n].todo = {g \in Games : cfg.games[g] # 0}]
  /\ UNCHANGED <<configVars, news, shown, poll, sock>>

RefreshNext(n, g) ==
  /\ asks[n].pc = "all"
  /\ asks[n].answer = None
  /\ g \in asks[n].todo
  /\ asks' = [asks EXCEPT ![n].todo = asks[n].todo \ {g},
                          ![n].answer = IF cfg.games[g] # 0 THEN StateOf(g, <<g, cfg.games[g]>>) ELSE None]
  /\ UNCHANGED <<configVars, news, shown, poll, sock>>

\* onStateChange, whatever is active or shown by now; of all states that of the game
\* which is active.  SwitchGame stores once more what RefreshState has stored.
Show(n) ==
  /\ asks[n].answer # None
  /\ shown' = IF asks[n].pc # "all" \/ asks[n].answer.game = cfg.id THEN asks[n].answer ELSE shown
  /\ asks' = [asks EXCEPT ![n] = CASE @.pc = "show" /\ n \in Calls -> [@ EXCEPT !.pc = "again"]
                                  [] @.pc = "all" -> [@ EXCEPT !.answer = None]
                                  [] OTHER -> Asks("done")]
  /\ UNCHANGED <<configVars, news, poll, sock>>

\* Fault: the state of the game shown is asked for.
PollShown ==
  /\ running
  /\ poll = None
  /\ cfg.id # None
  /\ poll' = StateOf(IF shown = None THEN cfg.id ELSE shown.game, cfg.token)
  /\ UNCHANGED <<configVars, news, shown, asks, sock>>

\* pollState, every 30 s; a failure waits for the next round.
Poll ==
  /\ running
  /\ poll = None
  /\ cfg.id # None
  /\ poll' = StateOf(cfg.id, cfg.token)
  /\ UNCHANGED <<configVars, news, shown, asks, sock>>

PollAnswer ==
  /\ poll # None
  /\ shown' = poll
  /\ poll' = None
  /\ UNCHANGED <<configVars, news, asks, sock>>

\* runWebSocket, for the game that is active now.
Dial ==
  /\ running
  /\ sock.game = None
  /\ cfg.id # None
  /\ cfg.token # None
  /\ sock' = [NoSock EXCEPT !.game = cfg.id]
  /\ UNCHANGED <<configVars, news, shown, asks, poll>>

\* handleWSEvent: a message of the game dialled, the state of the game active.
HandleEvent ==
  /\ sock.unread > 0
  /\ sock.answer = None
  /\ sock' = [sock EXCEPT !.unread = sock.unread - 1,
                          !.answer = IF cfg.id = None THEN None ELSE StateOf(cfg.id, cfg.token)]
  /\ UNCHANGED <<configVars, news, shown, asks, poll>>

EventAnswer ==
  /\ sock.answer # None
  /\ shown' = sock.answer
  /\ sock' = [sock EXCEPT !.answer = None]
  /\ UNCHANGED <<configVars, news, asks, poll>>

\* Fault: the pongs renew the deadline, and only when the player has left it breaks.
DeadlinePongs ==
  /\ sock.game # None
  /\ rows[sock.game] = {}
  /\ sock' = NoSock
  /\ UNCHANGED <<configVars, news, shown, asks, poll>>

\* The read deadline: 60 s without a message, for no pong renews it.
Deadline ==
  /\ sock.game # None
  /\ sock.unread = 0
  /\ sock.answer = None
  /\ sock' = NoSock
  /\ UNCHANGED <<configVars, news, shown, asks, poll>>

-----------------------------------------------------------------------------
\* SwitchGame refreshes the state when config.json is written, and not if that failed.
CallStep(u) ==
  /\ Called(u) \/ Continue(u)
  /\ asks' = IF call[u].pc = "write" /\ call[u].refresh /\ UNCHANGED lost THEN [asks EXCEPT ![u].pc = "fetch"] ELSE asks
  /\ UNCHANGED <<news, shown, poll, sock>>

Die ==
  /\ Crash
  /\ shown' = None
  /\ asks' = [n \in Askers |-> IF asks[n].pc = "new" THEN asks[n] ELSE Asks("done")]
  /\ poll' = None
  /\ sock' = NoSock
  /\ UNCHANGED news

Start == LoadClient /\ UNCHANGED stateVars

Refresh(n) == Fetch(n) \/ Show(n) \/ \E g \in Games : RefreshNext(n, g)

AppNext ==
  \/ \E u \in Calls : CallStep(u)
  \/ \E n \in Refreshes : RefreshState(n) \/ RefreshAllStates(n)
  \/ \E n \in Askers : Refresh(n)
  \/ Poll \/ PollAnswer \/ Dial \/ HandleEvent \/ EventAnswer \/ Deadline
  \/ \E g \in Games : News(g)
  \/ Die \/ Start

AppSpec == AppInit /\ [][AppNext]_vars

\* The goroutines of a client that runs go on.  Nobody has to call, to play, or to start
\* a client that has died.
Fairness ==
  /\ \A u \in Calls : WF_vars(Continue(u) /\ CallStep(u))
  /\ \A n \in Askers : WF_vars(Refresh(n))
  /\ WF_vars(Poll) /\ WF_vars(PollAnswer) /\ WF_vars(Dial)
  /\ WF_vars(HandleEvent) /\ WF_vars(EventAnswer) /\ WF_vars(Deadline)

FairSpec == AppSpec /\ Fairness

-----------------------------------------------------------------------------
\* The fields that switchTo copies have all arrived.
Active(g) == running /\ cfg.id = g /\ cfg.token # None /\ cfg.token[1] = g

\* Answers are stored as they come, late, or of another game; but once the player stays
\* with a game and the game rests, its newest state is shown and stays.
StateSettles ==
  \A g \in Games, n \in 0..MaxNews :
    <>[](Active(g) /\ StateOf(g, cfg.token) = [game |-> g, news |-> n, known |-> TRUE])
      => <>[](shown = [game |-> g, news |-> n, known |-> TRUE])

\* The socket of the game before is given up: in the end it is the active game that
\* the client listens to, again and again, and no other.
SocketFollows ==
  \A g \in Games : <>[]Active(g) => []<>(sock.game = g) /\ <>[](sock.game \in {g, None})
=============================================================================
