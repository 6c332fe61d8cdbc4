-------------------------- MODULE ClientAppProofs ---------------------------
(***************************************************************************)
(* ClientConfig keeps ConfigInv, for any games, any number of calls, lost  *)
(* answers, failed saves and crashes.  ClientApp takes no step with the    *)
(* configuration that ClientConfig does not take, and keeps its types.     *)
(***************************************************************************)
EXTENDS ClientApp, TLAPS

\* The types, but for the calls.
Shape ==
  /\ cfg \in Config
  /\ disk \in Config \cup {Torn}
  /\ rows \in [Games -> SUBSET Nat]
  /\ joined \in [Games -> Nat]
  /\ lost \in 0..MaxLosses
  /\ crashes \in 0..MaxCrashes
  /\ doubtful \subseteq Games
  /\ unsaved \subseteq Games \cup {None}
  /\ dropped \in [Games -> SUBSET Nat]

\* Nothing is under way: what InStep says.
Rest ==
  /\ unsaved = {} => disk = cfg
  /\ Sane(cfg)
  /\ \A g \in Games \ doubtful : Agrees(cfg, g)

\* What DiskOK says while the call with the frame f is the only one.
DiskOKWith(f) ==
  disk # Torn =>
    /\ Sane(disk)
    /\ \A g \in Games \ (doubtful \cup unsaved) : Agrees(disk, g) \/ Ahead(f, g)

LEMMA Frames ==
  /\ Fresh \in Frame /\ Fresh.game = None /\ Fresh.token = None
  /\ Done \in Frame /\ Done.pc = "done" /\ FrameOK(Done)
<1>1. Fresh \in Frame /\ Fresh.game = None /\ Fresh.token = None
  BY DEF Fresh, Frame, Tokens
<1>2. Done \in Frame /\ Done.pc = "done"
  BY <1>1 DEF Done, Frame
<1> QED
  BY <1>1, <1>2 DEF FrameOK

\* The fields of a frame, as they are set.
LEMMA SetPc ==
  ASSUME NEW f \in Frame, NEW pc \in {"switch", "remove", "token", "marshal", "write"}
  PROVE  /\ [f EXCEPT !.pc = pc] \in Frame
         /\ [f EXCEPT !.pc = pc].pc = pc
         /\ [f EXCEPT !.pc = pc].game = f.game
         /\ [f EXCEPT !.pc = pc].token = f.token
         /\ [f EXCEPT !.pc = pc].data = f.data
  BY DEF Frame

\* At rest InStep gives Rest.
LEMMA AtRest ==
  ASSUME ConfigInv, running, ~overlap, Quiet
  PROVE  Rest /\ \A f \in Frame : DiskOKWith(f)
<1>1. Rest
  BY DEF ConfigInv, InStep, Rest
<1>2. \A u \in Calls, g \in Games : ~Ahead(call[u], g)
  BY DEF Quiet, Under, Ahead
<1> QED
  BY <1>1, <1>2 DEF ConfigInv, DiskOK, DiskOKWith

\* The only call under way.
LEMMA OnlyCall ==
  ASSUME ConfigInv, running, ~overlap, NEW u \in Calls, Under(u)
  PROVE  MemoryOK(call[u]) /\ DiskOKWith(call[u]) /\ \A v \in Calls \ {u} : ~Under(v)
<1>1. MemoryOK(call[u]) /\ DiskOK /\ \A v \in Calls \ {u} : ~Under(v)
  BY DEF ConfigInv
<1>2. \A v \in Calls, g \in Games : Ahead(call[v], g) => v = u
  BY <1>1 DEF Ahead, Under
<1>3. DiskOKWith(call[u])
  BY <1>1, <1>2 DEF DiskOK, DiskOKWith
<1> QED
  BY <1>1, <1>3

\* The call u takes a step, alone or among others.
LEMMA FrameStep ==
  ASSUME ConfigInv, running, NEW u \in Calls, NEW f \in Frame, FrameOK(f), f.pc # "new",
         call' = [call EXCEPT ![u] = f],
         running' = running, overlap' \in BOOLEAN, Shape',
         ~overlap' => ~overlap /\ \A v \in Calls \ {u} : ~Under(v),
         ~overlap' => DiskOKWith(f)' /\ IF f.pc = "done" THEN Rest' ELSE MemoryOK(f)'
  PROVE  ConfigInv'
<1>1. TypeOK' /\ \A v \in Calls : FrameOK(call[v])'
  BY DEF ConfigInv, TypeOK, Shape, FrameOK
<1>2. call'[u] = f /\ \A v \in Calls \ {u} : call'[v] = call[v]
  BY DEF ConfigInv, TypeOK
<1>3. ASSUME ~overlap'
      PROVE  /\ \A v \in Calls \ {u} : ~Under(v)'
             /\ Under(u)' <=> f.pc # "done"
  BY <1>2, <1>3 DEF Under
<1>4. ASSUME ~overlap' PROVE DiskOK'
  BY <1>2, <1>4 DEF DiskOK, DiskOKWith, Agrees, Ahead
<1>5. ASSUME ~overlap', f.pc = "done"
      PROVE  Quiet' /\ InStep'
  BY <1>3, <1>5 DEF Quiet, InStep, Rest, Agrees, Sane
<1>6. ASSUME ~overlap', f.pc # "done"
      PROVE  MemoryOK(call[u])' /\ InStep'
  <2>1. Under(u)' /\ ~Quiet' /\ MemoryOK(f)'
    BY <1>3, <1>6 DEF Quiet
  <2>2. MemoryOK(call[u])'
    BY <1>2, <2>1 DEF MemoryOK
  <2>3. InStep'
    BY <2>1 DEF InStep
  <2> QED
    BY <2>2, <2>3
<1>7. ~overlap' => \A v \in Calls : Under(v)' => v = u /\ MemoryOK(call[v])'
  BY <1>3, <1>6
<1> QED
  BY <1>1, <1>3, <1>4, <1>5, <1>6, <1>7 DEF ConfigInv

\* A call begins.
LEMMA BeginStep ==
  ASSUME ConfigInv, NEW u \in Calls, NEW f \in Frame, FrameOK(f), f.pc \notin {"new", "done"},
         Begin(u, f),
         Rest => MemoryOK(f)
  PROVE  ConfigInv'
<1>1. /\ running /\ call[u].pc = "new" /\ call' = [call EXCEPT ![u] = f]
      /\ overlap' = (overlap \/ ~Quiet)
      /\ UNCHANGED <<running, cfg, disk, rows, joined, lost, crashes, doubtful, unsaved, dropped>>
  BY DEF Begin, At, Go, faults, server
<1>2. Shape' /\ overlap' \in BOOLEAN
  BY <1>1 DEF ConfigInv, TypeOK, Shape
<1>3. ASSUME ~overlap'
      PROVE  /\ ~overlap /\ Quiet /\ \A v \in Calls \ {u} : ~Under(v)
             /\ MemoryOK(f)' /\ DiskOKWith(f)'
  <2>1. ~overlap /\ Quiet /\ \A v \in Calls \ {u} : ~Under(v)
    BY <1>1, <1>3 DEF Quiet
  <2>2. Rest /\ DiskOKWith(f)
    BY <1>1, <2>1, AtRest
  <2>3. MemoryOK(f)'
    BY <1>1, <2>2 DEF MemoryOK, Sane
  <2>4. DiskOKWith(f)'
    BY <1>1, <2>2 DEF DiskOKWith, Agrees, Sane
  <2> QED
    BY <2>1, <2>3, <2>4
<1> QED
  BY <1>1, <1>2, <1>3, FrameStep

LEMMA CalledInv == ASSUME ConfigInv, NEW u \in Calls, Called(u) PROVE ConfigInv'
<1>t. /\ cfg \in Config /\ cfg.id \in Games \cup {None} /\ cfg.token \in Tokens /\ cfg.games \in [Games -> Nat]
      /\ None \notin Games
  BY ClientConfigAssumption DEF ConfigInv, TypeOK, Config
<1>1. CASE \E g \in Games : Join(u, g)
  <2> PICK g \in Games : Join(u, g)
    BY <1>1
  <2> DEFINE f == [Fresh EXCEPT !.pc = "join", !.game = g]
  <2>0. Begin(u, f)
    BY DEF Join
  <2>1. f \in Frame /\ FrameOK(f) /\ f.pc = "join" /\ f.game = g
    BY Frames DEF Frame, FrameOK
  <2> HIDE DEF f
  <2>2. Rest => MemoryOK(f)
    BY <2>1 DEF Rest, MemoryOK, Agrees
  <2> QED
    BY <2>0, <2>1, <2>2, BeginStep
<1>2. CASE \E g \in Games : Switch(u, g)
  <2> PICK g \in Games : Switch(u, g)
    BY <1>2
  <2> DEFINE f == [Fresh EXCEPT !.pc = "switch", !.game = g, !.token = <<g, cfg.games[g]>>, !.refresh = TRUE]
  <2>0. Begin(u, f) /\ cfg.games[g] # 0 /\ <<g, cfg.games[g]>> \in Tokens
    BY <1>t DEF Switch, Tokens
  <2>1. f \in Frame /\ FrameOK(f) /\ f.pc = "switch" /\ f.game = g /\ f.token = <<g, cfg.games[g]>>
    BY <2>0, Frames DEF Frame, FrameOK
  <2> HIDE DEF f
  <2>2. Rest => MemoryOK(f)
    BY <2>0, <2>1 DEF Rest, MemoryOK, Agrees
  <2> QED
    BY <2>0, <2>1, <2>2, BeginStep
<1>3. CASE Leave(u)
  <2> DEFINE f == [Fresh EXCEPT !.pc = "leave", !.game = cfg.id, !.token = cfg.token]
  <2>0. Begin(u, f)
    BY <1>3 DEF Leave
  <2>1. f \in Frame /\ FrameOK(f) /\ f.pc = "leave" /\ f.game = cfg.id /\ f.token = cfg.token
    BY <1>3, <1>t, Frames DEF Frame, FrameOK, Leave
  <2> HIDE DEF f
  <2>2. Rest => MemoryOK(f)
    BY <2>1 DEF Rest, MemoryOK, Agrees
  <2> QED
    BY <2>0, <2>1, <2>2, BeginStep
<1>4. CASE Settings(u)
  <2> DEFINE f == [Fresh EXCEPT !.pc = "marshal"]
  <2>0. Begin(u, f)
    BY <1>4 DEF Settings
  <2>1. f \in Frame /\ FrameOK(f) /\ f.pc = "marshal"
    BY Frames DEF Frame, FrameOK
  <2> HIDE DEF f
  <2>2. Rest => MemoryOK(f)
    BY <2>1 DEF Rest, MemoryOK, Agrees
  <2> QED
    BY <2>0, <2>1, <2>2, BeginStep
<1> QED
  BY <1>1, <1>2, <1>3, <1>4 DEF Called

\* Of the call that takes a step.
LEMMA Stepping ==
  ASSUME ConfigInv, NEW u \in Calls, running, Under(u)
  PROVE  /\ call[u] \in Frame /\ FrameOK(call[u]) /\ Shape /\ overlap \in BOOLEAN
         /\ call[u].game \in Games \cup {None} /\ call[u].token \in Tokens /\ None \notin Games
         /\ ~overlap => MemoryOK(call[u]) /\ DiskOKWith(call[u]) /\ \A v \in Calls \ {u} : ~Under(v)
  BY OnlyCall, ClientConfigAssumption DEF ConfigInv, TypeOK, Shape, Frame

\* A call that is refused, or gives up, before it has changed anything.
LEMMA GiveUp ==
  ASSUME ConfigInv, NEW u \in Calls, running, running', Under(u), Go(u, Done),
         call[u].pc \in {"join", "leave"},
         UNCHANGED <<cfg, disk, rows, joined, lost, crashes, overlap, doubtful, unsaved, dropped>>
  PROVE  ConfigInv'
<1>1. /\ Shape /\ overlap \in BOOLEAN
      /\ ~overlap => MemoryOK(call[u]) /\ DiskOKWith(call[u]) /\ \A v \in Calls \ {u} : ~Under(v)
  BY Stepping
<1>2. Shape'
  BY <1>1 DEF Shape
<1>3. ASSUME ~overlap PROVE Rest' /\ DiskOKWith(Done)'
  <2>1. MemoryOK(call[u]) /\ DiskOKWith(call[u])
    BY <1>1, <1>3
  <2>2. Rest'
    BY <2>1 DEF MemoryOK, Rest, Agrees, Sane
  <2>3. DiskOKWith(Done)'
    BY <2>1 DEF DiskOKWith, Ahead, Agrees, Sane
  <2> QED
    BY <2>2, <2>3
<1> QED
  BY <1>1, <1>2, <1>3, Frames, FrameStep DEF Go

LEMMA JoinAskInv == ASSUME ConfigInv, NEW u \in Calls, JoinAsk(u) PROVE ConfigInv'
<1>1. /\ running /\ running' /\ call[u].pc = "join" /\ Under(u)
      /\ UNCHANGED <<cfg, disk, crashes, overlap, unsaved, dropped>>
  BY DEF JoinAsk, At, Under
<1>2. /\ call[u] \in Frame /\ call[u].game \in Games /\ None \notin Games /\ Shape /\ overlap \in BOOLEAN
      /\ ~overlap => MemoryOK(call[u]) /\ DiskOKWith(call[u]) /\ \A v \in Calls \ {u} : ~Under(v)
  BY <1>1, Stepping DEF FrameOK
<1>3. CASE Refused(u)
  BY <1>1, <1>3, GiveUp DEF Refused, server
<1>4. ASSUME NEW g \in Games, g = call[u].game, NEW n \in Nat, n = joined[g] + 1,
             joined' = [joined EXCEPT ![g] = n], rows' = [rows EXCEPT ![g] = rows[g] \cup {n}],
             AnswerOrLose(u, [call[u] EXCEPT !.pc = "add", !.token = <<g, n>>])
      PROVE  ConfigInv'
  <2>1. joined' \in [Games -> Nat] /\ rows' \in [Games -> SUBSET Nat] /\ n # 0
    BY <1>2, <1>4 DEF Shape
  <2>2. \A h \in Games : rows'[h] = IF h = g THEN rows[g] \cup {n} ELSE rows[h]
    BY <1>2, <1>4 DEF Shape
  <2>3. ASSUME ~overlap
        PROVE  /\ unsaved = {} => disk = cfg
               /\ Sane(cfg)
               /\ \A h \in Games \ doubtful :
                    /\ cfg.games[h] # 0 => cfg.games[h] \in rows'[h]
                    /\ \A m \in rows'[h] : m = cfg.games[h] \/ m \in dropped[h] \/ (h = g /\ m = n)
    BY <1>1, <1>2, <2>2, <2>3 DEF MemoryOK
  <2>4. ASSUME ~overlap, disk # Torn
        PROVE  Sane(disk) /\ \A h \in Games \ (doubtful \cup unsaved) : h = g \/
                 /\ disk.games[h] # 0 => disk.games[h] \in rows'[h]
                 /\ rows'[h] \subseteq {disk.games[h]} \cup dropped[h]
    BY <1>1, <1>2, <2>2, <2>4 DEF DiskOKWith, Ahead, Agrees
  <2>5. CASE Go(u, [call[u] EXCEPT !.pc = "add", !.token = <<g, n>>]) /\ UNCHANGED <<lost, doubtful>>
    <3> PICK f : f = [call[u] EXCEPT !.pc = "add", !.token = <<g, n>>]
      OBVIOUS
    <3>1. /\ f \in Frame /\ f.pc = "add" /\ f.game = g /\ f.token = <<g, n>>
          /\ f.token[1] = g /\ f.token[2] = n
      BY <1>2, <1>4 DEF Frame, Tokens
    <3>2. FrameOK(f)
      BY <3>1, ClientConfigAssumption DEF FrameOK
    <3>3. Shape' /\ call' = [call EXCEPT ![u] = f]
      BY <1>1, <1>2, <2>1, <2>5 DEF Shape, Go
    <3>4. ASSUME ~overlap PROVE MemoryOK(f)' /\ DiskOKWith(f)'
      <4>1. MemoryOK(f)'
        BY <1>1, <2>1, <2>2, <2>3, <2>5, <3>1, <3>4 DEF MemoryOK, Sane
      <4>2. DiskOKWith(f)'
        BY <1>1, <2>4, <2>5, <3>1, <3>4 DEF DiskOKWith, Agrees, Ahead, Sane
      <4> QED
        BY <4>1, <4>2
    <3> QED
      BY <1>1, <1>2, <3>1, <3>2, <3>3, <3>4, FrameStep
  <2>6. CASE Go(u, Done) /\ Lose /\ doubtful' = doubtful \cup {call[u].game}
    <3>1. Shape'
      BY <1>1, <1>2, <2>1, <2>6, ClientConfigAssumption DEF Shape, Lose
    <3>2. ASSUME ~overlap PROVE Rest' /\ DiskOKWith(Done)'
      <4>1. Rest'
        BY <1>1, <1>4, <2>3, <2>6, <3>2 DEF Rest, Agrees, Sane
      <4>2. DiskOKWith(Done)'
        BY <1>1, <1>4, <2>4, <2>6, <3>2 DEF DiskOKWith, Agrees, Sane
      <4> QED
        BY <4>1, <4>2
    <3> QED
      BY <1>1, <1>2, <2>6, <3>1, <3>2, Frames, FrameStep DEF Go
  <2> QED
    BY <1>4, <2>5, <2>6 DEF AnswerOrLose
<1>5. joined[call[u].game] + 1 \in Nat
  BY <1>2 DEF Shape
<1> QED
  BY <1>2, <1>3, <1>4, <1>5 DEF JoinAsk

LEMMA AddGameInv == ASSUME ConfigInv, NEW u \in Calls, AddGame(u) PROVE ConfigInv'
<1> PICK f : f = [call[u] EXCEPT !.pc = "token"]
  OBVIOUS
<1> PICK g : g = call[u].game
  OBVIOUS
<1> PICK n : n = call[u].token[2]
  OBVIOUS
<1>1. /\ running /\ running' /\ call[u].pc = "add" /\ Under(u)
      /\ cfg' = [cfg EXCEPT !.games[g] = n, !.id = g]
      /\ dropped' = [dropped EXCEPT ![g] = dropped[g] \cup {cfg.games[g]}]
      /\ call' = [call EXCEPT ![u] = f]
      /\ UNCHANGED <<disk, rows, joined, lost, crashes, overlap, doubtful, unsaved>>
  BY DEF AddGame, At, Under, GoTo, Go, faults, server
<1>2. /\ call[u] \in Frame /\ g \in Games /\ Shape /\ overlap \in BOOLEAN
      /\ ~overlap => MemoryOK(call[u]) /\ DiskOKWith(call[u]) /\ \A v \in Calls \ {u} : ~Under(v)
  BY <1>1, Stepping DEF FrameOK
<1>3. call[u].token \in Games \X Nat /\ n \in Nat
  BY <1>1, Stepping DEF FrameOK, Tokens
<1>4. /\ f \in Frame /\ FrameOK(f) /\ f.pc = "token"
      /\ f.game = g /\ f.token = call[u].token
  BY <1>2, SetPc DEF FrameOK
<1>5. /\ cfg' \in Config /\ cfg'.id = g
      /\ \A h \in Games : cfg'.games[h] = IF h = g THEN n ELSE cfg.games[h]
      /\ dropped' \in [Games -> SUBSET Nat]
      /\ \A h \in Games : dropped'[h] = IF h = g THEN dropped[g] \cup {cfg.games[g]} ELSE dropped[h]
  <2>1. cfg \in Config /\ cfg.games \in [Games -> Nat] /\ dropped \in [Games -> SUBSET Nat]
    BY <1>2 DEF Shape, Config
  <2>2. cfg'.games = [cfg.games EXCEPT ![g] = n] /\ cfg'.id = g
    BY <1>1, <2>1 DEF Config
  <2>3. cfg' \in Config
    BY <1>1, <1>2, <1>3, <2>1 DEF Config
  <2>4. /\ dropped' \in [Games -> SUBSET Nat]
        /\ \A h \in Games : dropped'[h] = IF h = g THEN dropped[g] \cup {cfg.games[g]} ELSE dropped[h]
    BY <1>1, <1>2, <2>1
  <2> QED
    BY <1>2, <2>1, <2>2, <2>3, <2>4
<1>6. Shape'
  BY <1>1, <1>2, <1>5 DEF Shape
<1>7. ASSUME ~overlap PROVE MemoryOK(f)'
  <2>1. MemoryOK(call[u])
    BY <1>2, <1>7
  <2>2. call[u].token = <<g, n>> /\ n # 0 /\ n \in rows[g]
    BY <1>1, <1>3, <2>1 DEF MemoryOK
  <2>3. Sane([cfg EXCEPT !.token = f.token])'
    <3>1. cfg' \in Config
      BY <1>5
    <3>2. [cfg' EXCEPT !.token = f.token].id = g /\ [cfg' EXCEPT !.token = f.token].token = <<g, n>>
          /\ [cfg' EXCEPT !.token = f.token].games = cfg'.games
      BY <1>4, <1>5, <2>2 DEF Config
    <3> QED
      BY <1>2, <1>5, <2>2, <3>2, Stepping, <1>1 DEF Sane
  <2>4. ASSUME NEW h \in Games \ doubtful
        PROVE  /\ cfg'.games[h] # 0 => cfg'.games[h] \in rows[h]
               /\ \A m \in rows[h] : m = cfg'.games[h] \/ m \in dropped'[h]
    <3>1. CASE h = g
      BY <1>1, <1>5, <2>1, <2>2, <2>4, <3>1 DEF MemoryOK
    <3>2. CASE h # g
      BY <1>1, <1>5, <2>1, <2>2, <2>4, <3>2 DEF MemoryOK
    <3> QED
      BY <3>1, <3>2
  <2> QED
    BY <1>1, <1>4, <2>3, <2>4 DEF MemoryOK
<1>8. ASSUME ~overlap PROVE DiskOKWith(f)'
  BY <1>1, <1>2, <1>4, <1>5, <1>8 DEF DiskOKWith, Ahead, Agrees, Sane
<1> QED
  BY <1>1, <1>2, <1>4, <1>6, <1>7, <1>8, FrameStep

LEMMA SwitchToInv == ASSUME ConfigInv, NEW u \in Calls, SwitchTo(u) PROVE ConfigInv'
<1> PICK f : f = [call[u] EXCEPT !.pc = "token"]
  OBVIOUS
<1>1. /\ running /\ running' /\ call[u].pc = "switch" /\ Under(u)
      /\ cfg' = [cfg EXCEPT !.id = call[u].game] /\ call' = [call EXCEPT ![u] = f]
      /\ UNCHANGED <<disk, rows, joined, lost, crashes, overlap, doubtful, unsaved, dropped>>
  BY DEF SwitchTo, At, Under, GoTo, Go, faults, server, history
<1>2. /\ call[u] \in Frame /\ call[u].game \in Games /\ None \notin Games /\ Shape /\ overlap \in BOOLEAN
      /\ ~overlap => MemoryOK(call[u]) /\ DiskOKWith(call[u]) /\ \A v \in Calls \ {u} : ~Under(v)
  BY <1>1, Stepping DEF FrameOK
<1>3. /\ f \in Frame /\ FrameOK(f) /\ f.pc = "token"
      /\ f.game = call[u].game /\ f.token = call[u].token
  BY <1>2, SetPc DEF FrameOK
<1>4. cfg' \in Config /\ cfg'.games = cfg.games /\ cfg'.id = call[u].game
  BY <1>1, <1>2 DEF Shape, Config
<1>5. Shape'
  BY <1>1, <1>2, <1>4 DEF Shape
<1>6. ASSUME ~overlap PROVE MemoryOK(f)'
  <2>1. MemoryOK(call[u])
    BY <1>2, <1>6
  <2>2. /\ [cfg' EXCEPT !.token = f.token].id = call[u].game
        /\ [cfg' EXCEPT !.token = f.token].token = f.token
        /\ [cfg' EXCEPT !.token = f.token].games = cfg.games
    BY <1>4 DEF Config
  <2>3. Sane([cfg EXCEPT !.token = f.token])'
    BY <1>1, <1>2, <1>3, <2>1, <2>2 DEF Sane, MemoryOK
  <2> QED
    BY <1>1, <1>3, <1>4, <2>1, <2>3 DEF MemoryOK
<1>7. ASSUME ~overlap PROVE DiskOKWith(f)'
  BY <1>1, <1>2, <1>3, <1>7 DEF DiskOKWith, Ahead, Agrees, Sane
<1> QED
  BY <1>1, <1>2, <1>3, <1>5, <1>6, <1>7, FrameStep

LEMMA LeaveAskInv == ASSUME ConfigInv, NEW u \in Calls, LeaveAsk(u) PROVE ConfigInv'
<1>1. /\ running /\ running' /\ call[u].pc = "leave" /\ Under(u)
      /\ UNCHANGED <<cfg, disk, crashes, overlap, unsaved, dropped>>
  BY DEF LeaveAsk, At, Under
<1>2. /\ call[u] \in Frame /\ call[u].game \in Games /\ None \notin Games /\ Shape /\ overlap \in BOOLEAN
      /\ ~overlap => MemoryOK(call[u]) /\ DiskOKWith(call[u]) /\ \A v \in Calls \ {u} : ~Under(v)
  BY <1>1, Stepping DEF FrameOK
<1>3. CASE Refused(u)
  BY <1>1, <1>3, GiveUp DEF Refused, server
<1>4. ASSUME NEW g \in Games, g = call[u].game, NEW n \in rows[g], call[u].token = <<g, n>>,
             rows' = [rows EXCEPT ![g] = rows[g] \ {n}], joined' = joined,
             AnswerOrLose(u, [call[u] EXCEPT !.pc = "remove"])
      PROVE  ConfigInv'
  <2>1. /\ rows' \in [Games -> SUBSET Nat]
        /\ \A h \in Games : rows'[h] = IF h = g THEN rows[g] \ {n} ELSE rows[h]
    BY <1>2, <1>4 DEF Shape
  <2>2. ASSUME ~overlap
        PROVE  /\ unsaved = {} => disk = cfg
               /\ Sane(cfg) /\ g = cfg.id /\ call[u].token = cfg.token
               /\ cfg.games[g] \notin rows'[g]
               /\ \A h \in Games \ doubtful :
                    /\ cfg.games[h] # 0 => cfg.games[h] \in rows'[h] \/ h = g
                    /\ \A m \in rows'[h] : m = cfg.games[h] \/ m \in dropped[h]
    <3>1. Sane(cfg) /\ g = cfg.id /\ call[u].token = cfg.token /\ cfg.games[g] = n
      BY <1>1, <1>2, <1>4, <2>2 DEF MemoryOK, Sane
    <3> QED
      BY <1>1, <1>2, <1>4, <2>1, <2>2, <3>1 DEF MemoryOK
  <2>3. ASSUME ~overlap, disk # Torn
        PROVE  Sane(disk) /\ \A h \in Games \ (doubtful \cup unsaved) : h = g \/
                 /\ disk.games[h] # 0 => disk.games[h] \in rows'[h]
                 /\ rows'[h] \subseteq {disk.games[h]} \cup dropped[h]
    BY <1>1, <1>2, <2>1, <2>3 DEF DiskOKWith, Ahead, Agrees
  <2>4. CASE Go(u, [call[u] EXCEPT !.pc = "remove"]) /\ UNCHANGED <<lost, doubtful>>
    <3> PICK f : f = [call[u] EXCEPT !.pc = "remove"]
      OBVIOUS
    <3>1. f \in Frame /\ f.pc = "remove" /\ f.game = g /\ f.token = call[u].token
      BY <1>2, <1>4, SetPc
    <3>2. Shape' /\ call' = [call EXCEPT ![u] = f] /\ FrameOK(f)
      BY <1>1, <1>2, <1>4, <2>1, <2>4, <3>1 DEF Shape, Go, FrameOK
    <3>3. ASSUME ~overlap PROVE MemoryOK(f)' /\ DiskOKWith(f)'
      <4>1. MemoryOK(f)'
        BY <1>1, <2>2, <2>4, <3>1, <3>3 DEF MemoryOK, Sane
      <4>2. DiskOKWith(f)'
        BY <1>1, <2>3, <2>4, <3>1, <3>3 DEF DiskOKWith, Agrees, Ahead, Sane
      <4> QED
        BY <4>1, <4>2
    <3> QED
      BY <1>1, <1>2, <3>1, <3>2, <3>3, FrameStep
  <2>5. CASE Go(u, Done) /\ Lose /\ doubtful' = doubtful \cup {call[u].game}
    <3>1. Shape'
      BY <1>1, <1>2, <1>4, <2>1, <2>5, ClientConfigAssumption DEF Shape, Lose
    <3>2. ASSUME ~overlap PROVE Rest' /\ DiskOKWith(Done)'
      <4>1. Rest'
        BY <1>1, <1>4, <2>2, <2>5, <3>2 DEF Rest, Agrees, Sane
      <4>2. DiskOKWith(Done)'
        BY <1>1, <1>4, <2>3, <2>5, <3>2 DEF DiskOKWith, Agrees, Sane
      <4> QED
        BY <4>1, <4>2
    <3> QED
      BY <1>1, <1>2, <2>5, <3>1, <3>2, Frames, FrameStep DEF Go
  <2> QED
    BY <1>4, <2>4, <2>5 DEF AnswerOrLose
<1> QED
  BY <1>2, <1>3, <1>4 DEF LeaveAsk

LEMMA RemoveGameInv == ASSUME ConfigInv, NEW u \in Calls, RemoveGame(u) PROVE ConfigInv'
<1> PICK f : f = [call[u] EXCEPT !.pc = "token", !.token = None]
  OBVIOUS
<1>1. /\ running /\ running' /\ call[u].pc = "remove" /\ Under(u)
      /\ cfg' = [cfg EXCEPT !.games = [g \in Games |-> IF g = cfg.id THEN 0 ELSE cfg.games[g]], !.id = None]
      /\ call' = [call EXCEPT ![u] = f]
      /\ UNCHANGED <<disk, rows, joined, lost, crashes, overlap, doubtful, unsaved, dropped>>
  BY DEF RemoveGame, At, Under, Go, faults, server, history
<1>2. /\ call[u] \in Frame /\ call[u].game \in Games /\ None \notin Games /\ Shape /\ overlap \in BOOLEAN
      /\ ~overlap => MemoryOK(call[u]) /\ DiskOKWith(call[u]) /\ \A v \in Calls \ {u} : ~Under(v)
  BY <1>1, Stepping DEF FrameOK
<1>3. f \in Frame /\ FrameOK(f) /\ f.pc = "token" /\ f.game = call[u].game /\ f.token = None
  BY <1>2 DEF Frame, FrameOK, Tokens
<1>4. /\ cfg' \in Config /\ cfg'.id = None
      /\ \A g \in Games : cfg'.games[g] = IF g = cfg.id THEN 0 ELSE cfg.games[g]
  <2>1. [g \in Games |-> IF g = cfg.id THEN 0 ELSE cfg.games[g]] \in [Games -> Nat]
    BY <1>2 DEF Shape, Config
  <2> QED
    BY <1>1, <1>2, <2>1 DEF Shape, Config
<1>5. Shape'
  BY <1>1, <1>2, <1>4 DEF Shape
<1>6. ASSUME ~overlap PROVE MemoryOK(f)'
  <2>1. MemoryOK(call[u])
    BY <1>2, <1>6
  <2>2. [cfg' EXCEPT !.token = f.token].id = None /\ [cfg' EXCEPT !.token = f.token].token = None
    BY <1>3, <1>4 DEF Config
  <2>3. Sane([cfg EXCEPT !.token = f.token])'
    BY <2>2 DEF Sane
  <2>4. ASSUME NEW h \in Games \ doubtful
        PROVE  /\ cfg'.games[h] # 0 => cfg'.games[h] \in rows[h]
               /\ \A m \in rows[h] : m = cfg'.games[h] \/ m \in dropped[h]
    <3>1. CASE h = cfg.id
      BY <1>1, <1>4, <2>1, <2>4, <3>1 DEF MemoryOK
    <3>2. CASE h # cfg.id
      BY <1>1, <1>4, <2>1, <2>4, <3>2 DEF MemoryOK
    <3> QED
      BY <3>1, <3>2
  <2> QED
    BY <1>1, <1>3, <2>3, <2>4 DEF MemoryOK
<1>7. ASSUME ~overlap PROVE DiskOKWith(f)'
  BY <1>1, <1>2, <1>3, <1>7 DEF DiskOKWith, Ahead, Agrees, Sane
<1> QED
  BY <1>1, <1>2, <1>3, <1>5, <1>6, <1>7, FrameStep

LEMMA SetTokenInv == ASSUME ConfigInv, NEW u \in Calls, SetToken(u) PROVE ConfigInv'
<1> PICK f : f = [call[u] EXCEPT !.pc = "marshal"]
  OBVIOUS
<1>1. /\ running /\ running' /\ call[u].pc = "token" /\ Under(u)
      /\ cfg' = [cfg EXCEPT !.token = call[u].token] /\ call' = [call EXCEPT ![u] = f]
      /\ UNCHANGED <<disk, rows, joined, lost, crashes, overlap, doubtful, unsaved, dropped>>
  BY DEF SetToken, At, Under, GoTo, Go, faults, server, history
<1>2. /\ call[u] \in Frame /\ call[u].token \in Tokens /\ Shape /\ overlap \in BOOLEAN
      /\ ~overlap => MemoryOK(call[u]) /\ DiskOKWith(call[u]) /\ \A v \in Calls \ {u} : ~Under(v)
  BY <1>1, Stepping
<1>3. /\ f \in Frame /\ FrameOK(f) /\ f.pc = "marshal"
      /\ f.game = call[u].game /\ f.token = call[u].token
  BY <1>2, SetPc DEF FrameOK
<1>4. cfg' \in Config /\ cfg'.games = cfg.games /\ cfg'.id = cfg.id /\ cfg'.token = call[u].token
  BY <1>1, <1>2 DEF Shape, Config
<1>5. Shape'
  BY <1>1, <1>2, <1>4 DEF Shape
<1>6. ASSUME ~overlap PROVE MemoryOK(f)'
  <2>1. MemoryOK(call[u])
    BY <1>2, <1>6
  <2>2. Sane(cfg')
    BY <1>1, <2>1 DEF MemoryOK
  <2> QED
    BY <1>1, <1>3, <1>4, <2>1, <2>2 DEF MemoryOK, Sane
<1>7. ASSUME ~overlap PROVE DiskOKWith(f)'
  BY <1>1, <1>2, <1>3, <1>7 DEF DiskOKWith, Ahead, Agrees, Sane
<1> QED
  BY <1>1, <1>2, <1>3, <1>5, <1>6, <1>7, FrameStep

LEMMA SaveInv == ASSUME ConfigInv, NEW u \in Calls, Save(u) PROVE ConfigInv'
<1>1. /\ running /\ running' /\ Under(u)
      /\ UNCHANGED <<cfg, rows, joined, crashes, overlap, doubtful, dropped>>
  BY DEF Save, Marshal, Truncate, WriteFile, SaveFails, At, Under, faults, server, history
<1>2. /\ call[u] \in Frame /\ FrameOK(call[u]) /\ call[u].game \in Games \cup {None} /\ None \notin Games
      /\ Shape /\ overlap \in BOOLEAN
      /\ ~overlap => MemoryOK(call[u]) /\ DiskOKWith(call[u]) /\ \A v \in Calls \ {u} : ~Under(v)
  BY <1>1, Stepping
<1>3. CASE Marshal(u)
  <2> PICK f : f = [call[u] EXCEPT !.pc = "truncate", !.data = cfg]
    OBVIOUS
  <2>1. call[u].pc = "marshal" /\ call' = [call EXCEPT ![u] = f] /\ UNCHANGED <<disk, lost, unsaved>>
    BY <1>3 DEF Marshal, At, Go, faults, history
  <2>2. /\ f \in Frame /\ FrameOK(f) /\ f.pc = "truncate" /\ f.data = cfg
        /\ f.game = call[u].game /\ f.token = call[u].token
    BY <1>2 DEF Shape, Frame, FrameOK
  <2>3. Shape'
    BY <1>1, <1>2, <2>1 DEF Shape
  <2>4. ~overlap => MemoryOK(f)'
    BY <1>1, <1>2, <2>1, <2>2 DEF MemoryOK, Sane
  <2>5. ~overlap => DiskOKWith(f)'
    BY <1>1, <1>2, <2>1, <2>2 DEF DiskOKWith, Ahead, Agrees, Sane
  <2> QED
    BY <1>1, <1>2, <2>1, <2>2, <2>3, <2>4, <2>5, FrameStep
<1>4. CASE Truncate(u)
  <2> PICK f : f = [call[u] EXCEPT !.pc = "write"]
    OBVIOUS
  <2>1. call[u].pc = "truncate" /\ call' = [call EXCEPT ![u] = f] /\ disk' = Torn /\ UNCHANGED <<lost, unsaved>>
    BY <1>4 DEF Truncate, At, GoTo, Go, faults, history
  <2>2. f \in Frame /\ FrameOK(f) /\ f.pc = "write" /\ f.data = call[u].data
    BY <1>2, <2>1, SetPc DEF FrameOK
  <2>3. Shape'
    BY <1>1, <1>2, <2>1 DEF Shape
  <2>4. ~overlap => MemoryOK(f)'
    BY <1>1, <1>2, <2>1, <2>2 DEF MemoryOK, Sane
  <2>5. ~overlap => DiskOKWith(f)'
    BY <2>1 DEF DiskOKWith
  <2> QED
    BY <1>1, <1>2, <2>1, <2>2, <2>3, <2>4, <2>5, FrameStep
<1>5. CASE WriteFile(u)
  <2>1. /\ call[u].pc = "write" /\ call' = [call EXCEPT ![u] = Done]
        /\ disk' \in {call[u].data, Torn} /\ unsaved' = {} /\ lost' = lost
        /\ disk = Torn => disk' = call[u].data
    BY <1>5 DEF WriteFile, At, Go, faults
  <2>2. Shape'
    BY <1>1, <1>2, <2>1 DEF Shape, FrameOK
  <2>3. ASSUME ~overlap PROVE Rest' /\ DiskOKWith(Done)'
    <3>1. MemoryOK(call[u]) /\ disk' = cfg
      BY <1>2, <2>1, <2>3 DEF MemoryOK
    <3>2. Sane(cfg) /\ \A g \in Games \ doubtful : Agrees(cfg, g)
      BY <2>1, <3>1 DEF MemoryOK, Agrees
    <3> QED
      BY <1>1, <2>1, <3>1, <3>2 DEF Rest, DiskOKWith, Agrees, Sane
  <2> QED
    BY <1>1, <1>2, <2>1, <2>2, <2>3, Frames, FrameStep
<1>6. CASE SaveFails(u)
  <2>1. /\ call[u].pc \in {"marshal", "truncate", "write"} /\ call' = [call EXCEPT ![u] = Done]
        /\ disk' \in {disk, Torn} \/ (call[u].pc = "write" /\ disk' = call[u].data)
        /\ unsaved' = unsaved \cup {call[u].game} /\ Lose
    BY <1>6 DEF SaveFails, Go
  <2>2. Shape'
    <3>1. disk' \in Config \cup {Torn}
      BY <1>2, <2>1 DEF Shape, FrameOK
    <3>2. lost' \in 0..MaxLosses
      BY <1>2, <2>1, ClientConfigAssumption DEF Lose, Shape
    <3> QED
      BY <1>1, <1>2, <2>1, <3>1, <3>2 DEF Shape
  <2>3. ASSUME ~overlap PROVE Rest' /\ DiskOKWith(Done)'
    <3>1. MemoryOK(call[u]) /\ DiskOKWith(call[u])
      BY <1>2, <2>3
    <3>2. Sane(cfg) /\ \A g \in Games \ doubtful : Agrees(cfg, g)
      BY <2>1, <3>1 DEF MemoryOK, Agrees
    <3>3. unsaved' # {}
      BY <2>1
    <3>4. Rest'
      BY <1>1, <3>2, <3>3 DEF Rest, Agrees, Sane
    <3>5. CASE disk' \in {disk, Torn}
      BY <1>1, <2>1, <3>1, <3>4, <3>5 DEF DiskOKWith, Ahead, Agrees, Sane
    <3>6. CASE call[u].pc = "write" /\ disk' = call[u].data
      <4>1. disk' = cfg
        BY <3>1, <3>6 DEF MemoryOK
      <4> QED
        BY <1>1, <3>2, <3>4, <4>1 DEF DiskOKWith, Agrees, Sane
    <3> QED
      BY <2>1, <3>4, <3>5, <3>6
  <2> QED
    BY <1>1, <1>2, <2>1, <2>2, <2>3, Frames, FrameStep
<1> QED
  BY <1>3, <1>4, <1>5, <1>6 DEF Save

LEMMA CrashInv == ASSUME ConfigInv, Crash PROVE ConfigInv'
<1>1. /\ running' = FALSE /\ crashes < MaxCrashes /\ crashes' = crashes + 1
      /\ doubtful' = doubtful \cup {g \in Games : g \in unsaved \/ \E u \in Calls : call[u].game = g}
      /\ unsaved' = {}
      /\ call' = [u \in Calls |-> IF Under(u) THEN Done ELSE call[u]]
      /\ UNCHANGED <<cfg, disk, rows, joined, lost, overlap, dropped>>
  BY DEF Crash, server
<1>2. \A u \in Calls : /\ call'[u] \in Frame /\ FrameOK(call'[u]) /\ ~Under(u)'
  <2> TAKE u \in Calls
  <2>1. call'[u] = (IF Under(u) THEN Done ELSE call[u])
    BY <1>1
  <2>2. call[u] \in Frame /\ FrameOK(call[u])
    BY DEF ConfigInv, TypeOK
  <2>3. ~Under(u)'
    BY <2>1, Frames DEF Under
  <2> QED
    BY <2>1, <2>2, <2>3, Frames
<1>3. TypeOK'
  <2>1. doubtful' \subseteq Games /\ unsaved' \subseteq Games \cup {None}
    BY <1>1 DEF ConfigInv, TypeOK
  <2>2. call' \in [Calls -> Frame]
    BY <1>1, <1>2
  <2>3. crashes' \in 0..MaxCrashes
    BY <1>1, ClientConfigAssumption DEF ConfigInv, TypeOK
  <2> QED
    BY <1>1, <2>1, <2>2, <2>3 DEF ConfigInv, TypeOK
<1>4. Quiet' /\ \A u \in Calls : FrameOK(call[u])'
  <2>1. Quiet'
    BY <1>2 DEF Quiet
  <2> QED
    BY <1>2, <2>1 DEF FrameOK
<1>5. ASSUME ~overlap, disk # Torn
      PROVE  Sane(disk) /\ \A g \in Games \ doubtful' : Agrees(disk, g)
  BY <1>1, <1>5 DEF ConfigInv, DiskOK, Ahead
<1>6. ~overlap' => DiskOK'
  BY <1>1, <1>5 DEF DiskOK, Sane, Agrees
<1>7. InStep'
  BY <1>1 DEF InStep
<1> QED
  BY <1>1, <1>2, <1>3, <1>4, <1>6, <1>7 DEF ConfigInv

LEMMA LoadClientInv == ASSUME ConfigInv, LoadClient PROVE ConfigInv'
<1>1. /\ ~running /\ running' /\ disk # Torn /\ cfg' = disk
      /\ UNCHANGED <<disk, call, rows, joined, lost, crashes, overlap, doubtful, unsaved, dropped>>
  BY DEF LoadClient, faults, server, history
<1>2. /\ \A u \in Calls : ~Under(u) /\ ~Under(u)'
      /\ \A u \in Calls : FrameOK(call[u])'
      /\ unsaved = {}
  BY <1>1 DEF ConfigInv, Quiet, Under, FrameOK
<1>3. TypeOK'
  BY <1>1 DEF ConfigInv, TypeOK, LoadClient
<1>4. ASSUME ~overlap PROVE DiskOK' /\ InStep'
  <2>1. Sane(disk) /\ \A g \in Games \ doubtful : Agrees(disk, g)
    BY <1>1, <1>2, <1>4 DEF ConfigInv, DiskOK, Ahead, Under
  <2>2. DiskOK'
    BY <1>1, <2>1 DEF DiskOK, Sane, Agrees
  <2>3. InStep'
    BY <1>1, <2>1 DEF InStep, Sane, Agrees
  <2> QED
    BY <2>2, <2>3
<1> QED
  BY <1>1, <1>2, <1>3, <1>4 DEF ConfigInv

LEMMA InitInv == Init => ConfigInv
<1> SUFFICES ASSUME Init PROVE ConfigInv
  OBVIOUS
<1>1. joined \in [Games -> Nat] /\ rows \in [Games -> SUBSET Nat] /\ dropped \in [Games -> SUBSET Nat]
  BY DEF Init
<1>2. cfg \in Config /\ Sane(cfg) /\ cfg.games = joined /\ disk = cfg
  <2>1. CASE cfg = [id |-> None, token |-> None, games |-> joined]
    BY <1>1, <2>1 DEF Init, Config, Tokens, Sane
  <2>2. ASSUME NEW g \in Games, joined[g] = 1, cfg = [id |-> g, token |-> <<g, 1>>, games |-> joined]
        PROVE  cfg \in Config /\ Sane(cfg) /\ cfg.games = joined
    <3>1. g # None /\ <<g, 1>> \in Tokens
      BY ClientConfigAssumption DEF Tokens
    <3> QED
      BY <1>1, <2>2, <3>1 DEF Config, Sane
  <2> QED
    BY <2>1, <2>2 DEF Init
<1>3. \A g \in Games : Agrees(cfg, g)
  BY <1>1, <1>2 DEF Init, Agrees
<1>4. \A u \in Calls : call[u] = Fresh /\ Fresh.pc = "new"
  BY DEF Init, Fresh
<1>5. /\ \A u \in Calls : ~Under(u) /\ FrameOK(call[u])
      /\ running /\ unsaved = {} /\ ~overlap /\ doubtful = {}
  BY <1>4 DEF Under, FrameOK, Init
<1>6. TypeOK
  <2>1. call \in [Calls -> Frame]
    BY Frames DEF Init
  <2>2. lost \in 0..MaxLosses /\ crashes \in 0..MaxCrashes
    BY ClientConfigAssumption DEF Init
  <2> QED
    BY <1>1, <1>2, <2>1, <2>2 DEF Init, TypeOK
<1>7. DiskOK /\ InStep
  BY <1>2, <1>3, <1>5 DEF DiskOK, InStep
<1> QED
  BY <1>5, <1>6, <1>7 DEF ConfigInv

LEMMA ConfigStep == ConfigInv /\ [Next]_configVars => ConfigInv'
<1> SUFFICES ASSUME ConfigInv, [Next]_configVars PROVE ConfigInv'
  OBVIOUS
<1>1. CASE UNCHANGED configVars
  BY <1>1 DEF configVars, faults, history, server, ConfigInv, TypeOK, FrameOK, MemoryOK, DiskOK,
              InStep, Sane, Agrees, Ahead, Quiet, Under
<1>2. ASSUME NEW u \in Calls, Called(u) PROVE ConfigInv'
  BY <1>2, CalledInv
<1>3. ASSUME NEW u \in Calls, Continue(u) PROVE ConfigInv'
  BY <1>3, JoinAskInv, AddGameInv, SwitchToInv, LeaveAskInv, RemoveGameInv, SetTokenInv, SaveInv
     DEF Continue
<1> QED
  BY <1>1, <1>2, <1>3, CrashInv, LoadClientInv DEF Next

-----------------------------------------------------------------------------
\* The invariant of the client's configuration: whatever answers are lost, whatever saves
\* fail and whenever the client dies, calls of the UI that do not overlap keep memory,
\* config.json and the rows of the server together as far as InStep and DiskOK say
\* (clientapp.SwitchGame, JoinGame, LeaveGame; config.SaveClient, LoadClient).
THEOREM ConfigInvariance == Spec => []ConfigInv
  BY InitInv, ConfigStep, PTL DEF Spec

\* While calls come one after the other, then between them memory and config.json are the
\* same unless the last save has failed, the active game has the token of its own row, and
\* the list agrees with the server, but for the games of calls that were interrupted by a
\* lost answer or by a crash before they had saved (clientapp.SwitchGame, LeaveGame,
\* AddGame; config.SaveClient).
THEOREM ConfigInStep == Spec => []InStep
<1>1. ConfigInv => InStep
  BY DEF ConfigInv, InStep
<1> QED
  BY <1>1, ConfigInvariance, PTL

-----------------------------------------------------------------------------
\* What the app does beside its calls leaves the configuration as it is.
LEMMA AppConfigStep == [AppNext]_vars => [Next]_configVars
<1> SUFFICES ASSUME [AppNext]_vars PROVE [Next]_configVars
  OBVIOUS
<1>1. ASSUME NEW u \in Calls, CallStep(u) PROVE Next
  BY <1>1 DEF CallStep, Next
<1>2. ASSUME NEW n \in Askers, RefreshState(n) \/ RefreshAllStates(n) \/ Refresh(n)
      PROVE  UNCHANGED configVars
  BY <1>2 DEF RefreshState, RefreshAllStates, Refresh, Fetch, Show, RefreshNext
<1>3. CASE Poll \/ PollAnswer \/ Dial \/ HandleEvent \/ EventAnswer \/ Deadline \/ \E g \in Games : News(g)
  BY <1>3 DEF Poll, PollAnswer, Dial, HandleEvent, EventAnswer, Deadline, News
<1>4. CASE Die \/ Start
  BY <1>4 DEF Die, Start, Next
<1> QED
  BY <1>1, <1>2, <1>3, <1>4 DEF AppNext, Askers, vars

\* Every behaviour of the app is one of its configuration, so that what ClientConfig
\* promises holds while answers come, the socket is dialled and the client dies.
THEOREM AppKeepsConfig == AppSpec => Spec
  BY AppConfigStep, PTL DEF AppSpec, AppInit, Spec

-----------------------------------------------------------------------------
\* The types of the app, but for those of the configuration.  A socket has no more to read
\* than its game has changed, which is why what is unread stays within its bound.
Sockets == [game : Games \cup {None}, unread : 0..MaxNews, answer : State \cup {None}]

AppShape ==
  /\ news \in [Games -> 0..MaxNews]
  /\ shown \in State \cup {None}
  /\ asks \in [Askers -> Ask]
  /\ poll \in State \cup {None}
  /\ sock \in Sockets
  /\ sock.game # None => sock.unread <= news[sock.game]
  /\ sock.game = None => sock.unread = 0

\* An answer of the server is a state.
LEMMA Answered ==
  ASSUME AppShape, NEW g \in Games, NEW t
  PROVE  StateOf(g, t) \in State
  BY DEF AppShape, StateOf, State

LEMMA ActiveGame ==
  ASSUME TypeOK
  PROVE  /\ cfg.id \in Games \cup {None}
         /\ {g \in Games : cfg.games[g] # 0} \subseteq Games
  BY DEF TypeOK, Config

\* An asker comes to its next step.
LEMMA AskStep ==
  ASSUME AppShape, NEW n \in Askers, NEW f \in Ask,
         asks' = [asks EXCEPT ![n] = f], UNCHANGED <<news, shown, poll, sock>>
  PROVE  AppShape'
  BY DEF AppShape

LEMMA AskShape ==
  ASSUME TypeOK, AppShape, NEW n \in Askers,
         RefreshState(n) \/ RefreshAllStates(n) \/ Fetch(n) \/ \E g \in Games : RefreshNext(n, g)
  PROVE  AppShape'
<1>1. asks[n] \in Ask /\ asks \in [Askers -> Ask]
  BY DEF AppShape
<1>2. CASE RefreshState(n)
  <2> PICK f : f = [asks[n] EXCEPT !.pc = "fetch"]
    OBVIOUS
  <2>1. f \in Ask /\ asks' = [asks EXCEPT ![n] = f]
    BY <1>1, <1>2 DEF Ask, RefreshState
  <2> QED
    BY <1>2, <2>1, AskStep DEF RefreshState
<1>3. CASE RefreshAllStates(n)
  <2> PICK f : f = [asks[n] EXCEPT !.pc = "all", !.todo = {g \in Games : cfg.games[g] # 0}]
    OBVIOUS
  <2>1. f \in Ask
    BY <1>1, ActiveGame DEF Ask
  <2>2. asks' = [asks EXCEPT ![n] = f]
    BY <1>1, <1>3 DEF RefreshAllStates
  <2> QED
    BY <1>3, <2>1, <2>2, AskStep DEF RefreshAllStates
<1>4. CASE Fetch(n)
  <2> PICK f : f = IF cfg.id = None THEN Asks("done")
                   ELSE [Asks("show") EXCEPT !.answer = StateOf(cfg.id, cfg.token)]
    OBVIOUS
  <2>1. asks' = [asks EXCEPT ![n] = f]
    BY <1>4 DEF Fetch
  <2>2. f \in Ask
    BY ActiveGame, Answered DEF Asks, Ask
  <2> QED
    BY <1>4, <2>1, <2>2, AskStep DEF Fetch
<1>5. CASE \E g \in Games : RefreshNext(n, g)
  <2> PICK g \in Games : RefreshNext(n, g)
    BY <1>5
  <2> PICK new : new = IF cfg.games[g] # 0 THEN StateOf(g, <<g, cfg.games[g]>>) ELSE None
    OBVIOUS
  <2> PICK f : f = [asks[n] EXCEPT !.todo = asks[n].todo \ {g}, !.answer = new]
    OBVIOUS
  <2>1. asks' = [asks EXCEPT ![n] = f]
    BY <1>1 DEF RefreshNext
  <2>2. new \in State \cup {None}
    BY Answered
  <2>3. f \in Ask
    BY <1>1, <2>2 DEF Ask
  <2> QED
    BY <2>1, <2>3, AskStep DEF RefreshNext
<1> QED
  BY <1>2, <1>3, <1>4, <1>5

LEMMA ShowShape == ASSUME AppShape, NEW n \in Askers, Show(n) PROVE AppShape'
<1> PICK f : f = CASE asks[n].pc = "show" /\ n \in Calls -> [asks[n] EXCEPT !.pc = "again"]
                   [] asks[n].pc = "all" -> [asks[n] EXCEPT !.answer = None]
                   [] OTHER -> Asks("done")
  OBVIOUS
<1>1. /\ asks' = [asks EXCEPT ![n] = f]
      /\ shown' \in {asks[n].answer, shown}
      /\ UNCHANGED <<news, poll, sock>>
  BY DEF Show, AppShape
<1>2. asks[n] \in Ask /\ asks[n].answer \in State \cup {None}
  BY DEF AppShape, Ask
<1>3. f \in Ask
  BY <1>2 DEF Ask, Asks
<1> QED
  BY <1>1, <1>2, <1>3 DEF AppShape

\* The answers of pollState and of events, and the socket.
LEMMA ListenShape ==
  ASSUME TypeOK, AppShape, Poll \/ PollAnswer \/ Dial \/ HandleEvent \/ EventAnswer \/ Deadline
  PROVE  AppShape'
<1> PICK new : new = IF cfg.id = None THEN None ELSE StateOf(cfg.id, cfg.token)
  OBVIOUS
<1>1. UNCHANGED <<news, asks>>
  BY DEF Poll, PollAnswer, Dial, HandleEvent, EventAnswer, Deadline
<1>2. /\ cfg.id \in Games \cup {None} /\ None \notin Games /\ MaxNews \in Nat
      /\ new \in State \cup {None}
  BY ActiveGame, Answered, ClientConfigAssumption, ClientAppAssumption
<1>3. /\ news \in [Games -> 0..MaxNews] /\ shown \in State \cup {None} /\ poll \in State \cup {None}
      /\ sock.game \in Games \cup {None} /\ sock.unread \in 0..MaxNews /\ sock.answer \in State \cup {None}
      /\ sock \in Sockets
  BY DEF AppShape, Sockets
<1>4. CASE Poll
  <2>1. poll' = new /\ UNCHANGED <<shown, sock>>
    BY <1>4 DEF Poll
  <2> QED
    BY <1>1, <1>2, <2>1 DEF AppShape
<1>5. CASE PollAnswer
  <2>1. shown' = poll /\ poll' = None /\ sock' = sock
    BY <1>5 DEF PollAnswer
  <2> QED
    BY <1>1, <1>3, <2>1 DEF AppShape
<1>6. CASE Dial \/ Deadline
  <2>1. /\ sock' = [game |-> sock'.game, unread |-> 0, answer |-> None]
        /\ sock'.game \in Games \cup {None} /\ sock'.unread = 0
        /\ UNCHANGED <<shown, poll>>
    BY <1>2, <1>6 DEF Dial, Deadline, NoSock
  <2>2. sock' \in Sockets
    BY <1>2, <2>1 DEF Sockets
  <2>3. sock'.game # None => sock'.unread <= news'[sock'.game]
    BY <1>1, <1>3, <2>1
  <2> QED
    BY <1>1, <2>1, <2>2, <2>3 DEF AppShape
<1>7. CASE HandleEvent
  <2>1. /\ sock.unread > 0 /\ sock' = [sock EXCEPT !.unread = sock.unread - 1, !.answer = new]
        /\ UNCHANGED <<shown, poll>>
    BY <1>7 DEF HandleEvent
  <2>2. sock'.game = sock.game /\ sock'.unread = sock.unread - 1 /\ sock.unread - 1 \in 0..MaxNews
    BY <1>2, <1>3, <2>1 DEF Sockets
  <2>3. sock' \in Sockets
    BY <1>2, <1>3, <2>1, <2>2 DEF Sockets
  <2>4. /\ sock'.game # None => sock'.unread <= news'[sock'.game]
        /\ sock'.game # None
    BY <1>1, <1>3, <2>1, <2>2 DEF AppShape
  <2> QED
    BY <1>1, <2>1, <2>3, <2>4 DEF AppShape
<1>8. CASE EventAnswer
  <2>1. shown' = sock.answer /\ sock' = [sock EXCEPT !.answer = None] /\ poll' = poll
    BY <1>8 DEF EventAnswer
  <2>2. sock'.game = sock.game /\ sock'.unread = sock.unread /\ sock' \in Sockets
    BY <1>3, <2>1 DEF Sockets
  <2> QED
    BY <1>1, <1>3, <2>1, <2>2 DEF AppShape
<1> QED
  BY <1>4, <1>5, <1>6, <1>7, <1>8

LEMMA NewsShape == ASSUME AppShape, NEW g \in Games, News(g) PROVE AppShape'
<1>1. /\ news[g] < MaxNews /\ news' = [news EXCEPT ![g] = news[g] + 1]
      /\ sock' = (IF sock.game = g THEN [sock EXCEPT !.unread = sock.unread + 1] ELSE sock)
      /\ UNCHANGED <<shown, asks, poll>>
  BY DEF News
<1>2. /\ news \in [Games -> 0..MaxNews] /\ None \notin Games /\ MaxNews \in Nat
      /\ sock \in Sockets /\ sock.game \in Games \cup {None} /\ sock.unread \in 0..MaxNews
      /\ sock.game # None => sock.unread <= news[sock.game]
      /\ sock.game = None => sock.unread = 0
  BY ClientAppAssumption, ClientConfigAssumption DEF AppShape, Sockets
<1>3. /\ news' \in [Games -> 0..MaxNews]
      /\ \A h \in Games : news'[h] = IF h = g THEN news[g] + 1 ELSE news[h]
  BY <1>1, <1>2
<1>4. CASE sock.game = g
  <2>1. sock' = [sock EXCEPT !.unread = sock.unread + 1] /\ sock.unread + 1 \in 0..MaxNews
    BY <1>1, <1>2, <1>4
  <2>2. sock' \in Sockets /\ sock'.game = g /\ sock'.unread <= news'[g]
    BY <1>2, <1>3, <1>4, <2>1 DEF Sockets
  <2> QED
    BY <1>1, <1>2, <1>3, <2>2 DEF AppShape
<1>5. CASE sock.game # g
  BY <1>1, <1>2, <1>3, <1>5 DEF AppShape
<1> QED
  BY <1>4, <1>5

LEMMA CallShape == ASSUME AppShape, NEW u \in Calls, CallStep(u) PROVE AppShape'
<1> PICK f : f = [asks[u] EXCEPT !.pc = "fetch"]
  OBVIOUS
<1>1. /\ asks' = [asks EXCEPT ![u] = f] \/ asks' = asks
      /\ UNCHANGED <<news, shown, poll, sock>>
  BY DEF CallStep, AppShape, Askers
<1>2. u \in Askers /\ f \in Ask
  BY DEF AppShape, Askers, Ask
<1> QED
  BY <1>1, <1>2 DEF AppShape

LEMMA DieShape == ASSUME AppShape, Die PROVE AppShape'
<1>1. /\ asks' = [n \in Askers |-> IF asks[n].pc = "new" THEN asks[n] ELSE Asks("done")]
      /\ shown' = None /\ poll' = None /\ news' = news
      /\ sock' = [game |-> None, unread |-> 0, answer |-> None]
  BY DEF Die, NoSock
<1>2. asks' \in [Askers -> Ask]
  BY <1>1 DEF AppShape, Asks, Ask
<1>3. sock' \in Sockets /\ sock'.unread = 0 /\ sock'.game = None
  BY <1>1, ClientAppAssumption DEF Sockets
<1> QED
  BY <1>1, <1>2, <1>3 DEF AppShape

LEMMA AppInitShape == AppInit => AppShape
<1> SUFFICES ASSUME AppInit PROVE AppShape
  OBVIOUS
<1>1. sock = [game |-> None, unread |-> 0, answer |-> None] /\ MaxNews \in Nat
  BY ClientAppAssumption DEF AppInit, NoSock
<1>2. sock \in Sockets /\ sock.unread = 0 /\ sock.game = None
  BY <1>1 DEF Sockets
<1>3. asks \in [Askers -> Ask] /\ news \in [Games -> 0..MaxNews]
  BY <1>1 DEF AppInit, Asks, Ask
<1> QED
  BY <1>2, <1>3 DEF AppInit, AppShape

\* While answers come late and of other games, saves fail, the socket changes hands and the
\* client dies, every frame, answer and counter keeps its type; in particular the socket has
\* no more unread than its game has changed (clientapp.RefreshState, RefreshAllStates;
\* syncengine.pollState, runWebSocket, handleWSEvent).
THEOREM AppTypeCorrect == AppSpec => []AppTypeOK
<1>1. TypeOK /\ AppShape /\ [AppNext]_vars => AppShape'
  <2> SUFFICES ASSUME TypeOK, AppShape, [AppNext]_vars PROVE AppShape'
    OBVIOUS
  <2>1. CASE UNCHANGED vars
    BY <2>1 DEF vars, stateVars, AppShape
  <2>2. CASE Start
    BY <2>2 DEF Start, stateVars, AppShape
  <2>3. ASSUME NEW n \in Askers, RefreshState(n) \/ RefreshAllStates(n) \/ Refresh(n) PROVE AppShape'
    BY <2>3, AskShape, ShowShape DEF Refresh
  <2> QED
    BY <2>1, <2>2, <2>3, CallShape, ListenShape, NewsShape, DieShape DEF AppNext, Askers
<1>2. ConfigInv => TypeOK
  BY DEF ConfigInv
<1>3. TypeOK /\ AppShape => AppTypeOK
  BY DEF AppTypeOK, AppShape, Sockets
<1> QED
  BY <1>1, <1>2, <1>3, AppInitShape, AppKeepsConfig, ConfigInvariance, PTL DEF AppSpec
=============================================================================
