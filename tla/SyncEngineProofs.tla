-------------------------- MODULE SyncEngineProofs --------------------------
(***************************************************************************)
(* SyncEngine keeps EngineInv, for every set of saves and of directories,  *)
(* any number of losses, and a configuration saved at any moment.          *)
(***************************************************************************)
EXTENDS SyncEngine, TLAPS

\* What the frames are when a goroutine has nothing under way.
LEMMA IdleFrames == UpIdle \in UpFrame /\ DownIdle \in DownFrame
  BY DEF UpIdle, DownIdle, UpFrame, DownFrame

LEMMA NextAttempt ==
  ASSUME NEW f \in UpFrame, f.attempt < 3,
         NEW g, g = [f EXCEPT !.pc = "read", !.attempt = f.attempt + 1, !.content = None]
  PROVE  g \in UpFrame /\ g.pc = "read" /\ g.path = f.path /\ g.date = f.date
<1>1. f.attempt + 1 \in 0..3
  BY DEF UpFrame
<1>2. g = [pc |-> "read", path |-> f.path, date |-> f.date, attempt |-> f.attempt + 1, content |-> None]
  BY DEF UpFrame
<1> QED
  BY <1>1, <1>2 DEF UpFrame

LEMMA NoneApart == None \notin Values /\ None \notin Dirs /\ Saves \subseteq Values /\ Theirs \subseteq Values
  BY SyncEngineAssumption DEF Values

\* What was sent was sent from a file.
LEMMA SentPaths == ASSUME SendInv PROVE \A i \in DOMAIN taken : taken[i].path \in Paths
<1> DEFINE Upload == [path : Paths, date : Values, content : Values, answered : BOOLEAN]
<1>1. taken \in Seq(Upload)
  BY DEF SendInv, TypeOK
<1> SUFFICES ASSUME NEW i \in DOMAIN taken PROVE taken[i].path \in Paths
  OBVIOUS
<1>2. taken[i] \in Upload
  <2> HIDE DEF Upload
  <2> QED
    BY <1>1
<1> QED
  BY <1>2

LEMMA InitInv == Init => SendInv
<1> SUFFICES ASSUME Init PROVE SendInv
  OBVIOUS
<1>1. TypeOK
  <2>1. dir \in Dirs /\ watched \in Dirs \cup {None} /\ pending \subseteq {p \in Paths : p[1] = watched /\ disk[p] # None}
    BY DEF Init
  <2>2. disk \in [Paths -> Values \cup {None}] /\ lastSeen \in [Paths -> Values \cup {None}]
    BY DEF Init
  <2>3. up \in UpFrame /\ down \in DownFrame
    BY IdleFrames DEF Init
  <2>4. taken \in Seq([path : Paths, date : Values, content : Values, answered : BOOLEAN])
    BY DEF Init
  <2>5. lost \in 0..MaxLosses /\ inbox \in Nat
    BY SyncEngineAssumption DEF Init
  <2> QED
    BY <2>1, <2>2, <2>3, <2>4, <2>5 DEF Init, TypeOK
<1>2. Known /\ UploadOK /\ DownloadOK /\ SentOK /\ TakenOnce
  BY DEF Init, Known, UploadOK, DownloadOK, SentOK, TakenOnce, UpIdle, DownIdle
<1> QED
  BY <1>1, <1>2 DEF SendInv

LEMMA SaveInv == ASSUME SendInv, NEW v \in Values, Save(v) PROVE SendInv'
<1> USE NoneApart DEF Save, Write, SendInv, config, guard, socket, server
<1>0. <<dir, "own">> \in Paths /\ v \in Values \ used /\ v # None
  BY DEF TypeOK, Paths, Unused
<1>h. hasty' \in BOOLEAN
  BY DEF TypeOK, InTime
<1>1. TypeOK'
  <2>1. /\ disk' = [disk EXCEPT ![<<dir, "own">>] = v]
        /\ pending' = (IF dir = watched THEN pending \cup {<<dir, "own">>} ELSE pending)
        /\ due' \in {v, due} /\ used' = used \cup {v}
        /\ UNCHANGED <<dir, watched, current, lastSeen, ignored, lastUpload, lastSync, up, down,
                      online, inbox, mine, latest, taken, lost, synced>>
    OBVIOUS
  <2> HIDE DEF Save
  <2> QED
    BY <1>0, <1>h, <2>1 DEF TypeOK
<1>2. Known'
  BY <1>0 DEF TypeOK, Known
<1>3. UploadOK' /\ DownloadOK'
  BY <1>0 DEF TypeOK, UploadOK, DownloadOK
<1>4. SentOK'
  BY <1>0 DEF TypeOK, SentOK, UploadOK
<1>5. TakenOnce'
  BY DEF TakenOnce
<1> QED
  BY <1>1, <1>2, <1>3, <1>4, <1>5

LEMMA EventAgainInv == ASSUME SendInv, NEW p \in Paths, EventAgain(p) PROVE SendInv'
<1> USE NoneApart DEF EventAgain, SendInv, config, files, guard, server, socket, history
<1>1. TypeOK'
  BY DEF TypeOK
<1>2. Known'
  BY DEF TypeOK, Known
<1>3. UploadOK' /\ DownloadOK'
  BY DEF TypeOK, Known, UploadOK, DownloadOK
<1>4. SentOK'
  BY DEF TypeOK, SentOK, UploadOK
<1>5. TakenOnce'
  BY DEF TypeOK, TakenOnce
<1> QED
  BY <1>1, <1>2, <1>3, <1>4, <1>5

LEMMA PlayOtherInv == ASSUME SendInv, NEW v \in Values, PlayOther(v) PROVE SendInv'
<1> USE NoneApart DEF PlayOther, SendInv, config, files, guard, server, socket, history
<1>1. TypeOK'
  BY DEF TypeOK
<1>2. Known'
  BY DEF TypeOK, Known
<1>3. UploadOK' /\ DownloadOK'
  BY DEF TypeOK, Known, UploadOK, DownloadOK
<1>4. SentOK'
  BY DEF TypeOK, SentOK, UploadOK
<1>5. TakenOnce'
  BY DEF TypeOK, TakenOnce
<1> QED
  BY <1>1, <1>2, <1>3, <1>4, <1>5

LEMMA SetConfigInv == ASSUME SendInv, NEW d \in Dirs, SetConfig(d) PROVE SendInv'
<1> USE NoneApart DEF SetConfig, SendInv, config, files, guard, server, socket, history
<1>1. TypeOK'
  BY DEF TypeOK
<1>2. Known'
  BY DEF TypeOK, Known
<1>3. UploadOK' /\ DownloadOK'
  BY DEF TypeOK, Known, UploadOK, DownloadOK
<1>4. SentOK'
  BY DEF TypeOK, SentOK, UploadOK
<1>5. TakenOnce'
  BY DEF TypeOK, TakenOnce
<1> QED
  BY <1>1, <1>2, <1>3, <1>4, <1>5

LEMMA WatchInv == ASSUME SendInv, Watch PROVE SendInv'
<1> USE NoneApart DEF Watch, SendInv, config, files, guard, server, socket, history
<1>0. pending = {}
  BY DEF TypeOK, Paths
<1>1. TypeOK'
  BY <1>0 DEF TypeOK
<1>2. Known'
  BY DEF TypeOK, Known
<1>3. UploadOK' /\ DownloadOK'
  BY DEF TypeOK, Known, UploadOK, DownloadOK
<1>4. SentOK'
  BY DEF TypeOK, SentOK, UploadOK
<1>5. TakenOnce'
  BY DEF TypeOK, TakenOnce
<1> QED
  BY <1>1, <1>2, <1>3, <1>4, <1>5

LEMMA HandleEventInv == ASSUME SendInv, NEW p \in Paths, HandleEvent(p) PROVE SendInv'
<1> USE NoneApart DEF HandleEvent, SendInv, config, files, guard, server, socket, history
<1>0. disk[p] \in used /\ disk[p] \in Values /\ disk[p] # None
  BY DEF TypeOK, Known
<1>a. \/ UNCHANGED <<lastSeen, up>>
      \/ /\ disk[p] # lastSeen[p] /\ lastSeen' = [lastSeen EXCEPT ![p] = disk[p]]
         /\ up' \in UpFrame /\ up'.pc = "fetch" /\ up'.path = p /\ up'.date = disk[p]
  <2>1. CASE disk[p] \in ignored \/ disk[p] = lastSeen[p]
    BY <2>1
  <2>2. CASE ~(disk[p] \in ignored \/ disk[p] = lastSeen[p])
    <3>1. up' = [pc |-> "fetch", path |-> p, date |-> disk[p], attempt |-> 0, content |-> None]
      BY <2>2 DEF UpIdle
    <3>2. up' \in UpFrame
      BY <3>1, <1>0 DEF UpFrame
    <3> QED
      BY <2>2, <3>1, <3>2
  <2> QED
    BY <2>1, <2>2
<1>b. pending' \subseteq pending /\ UNCHANGED <<config, disk, guard, down, socket, server, lost, used, history>>
  OBVIOUS
<1> HIDE DEF HandleEvent
<1>1. TypeOK'
  BY <1>0, <1>a, <1>b DEF TypeOK
<1>2. Known'
  BY <1>0, <1>a, <1>b DEF TypeOK, Known
<1>3. UploadOK' /\ DownloadOK'
  BY <1>0, <1>a, <1>b DEF TypeOK, UploadOK, DownloadOK
<1>4. SentOK'
  <2>1. CASE UNCHANGED <<lastSeen, up>>
    BY <1>b, <2>1 DEF SentOK
  <2>2. CASE ~UNCHANGED <<lastSeen, up>>
    <3>1. \A i \in DOMAIN taken : taken[i].path = p /\ p[2] = "own" => taken[i].date # disk[p]
      BY <1>a, <2>2 DEF SentOK
    <3>2. \A q \in Paths : lastSeen'[q] = IF q = p THEN disk[p] ELSE lastSeen[q]
      BY <1>a, <2>2 DEF TypeOK
    <3>3. \A i \in DOMAIN taken : taken[i].path \in Paths
      BY SentPaths
    <3>4. up'.date = lastSeen'[up'.path]
      BY <1>a, <2>2, <3>2
    <3>5. ASSUME NEW i \in DOMAIN taken
          PROVE  /\ taken[i].date \in used
                 /\ taken[i].path[2] = "own" /\ disk[taken[i].path] # lastSeen'[taken[i].path]
                      => taken[i].date # disk[taken[i].path]
                 /\ up'.path[2] = "own" /\ taken[i].path = up'.path => taken[i].date # up'.date
      <4>1. taken[i].date \in used
        BY DEF SentOK
      <4>2. CASE taken[i].path = p
        <5>1. up'.path = p /\ up'.date = disk[p] /\ lastSeen'[p] = disk[p]
          BY <1>a, <2>2, <3>2
        <5> HIDE DEF SendInv
        <5> QED
          BY <3>1, <4>1, <4>2, <5>1
      <4>3. CASE taken[i].path # p
        BY <1>a, <2>2, <3>2, <3>3, <4>3 DEF SentOK
      <4> QED
        BY <4>2, <4>3
    <3>6. up'.pc = "fetch"
      BY <1>a, <2>2
    <3> HIDE DEF SendInv
    <3> QED
      BY <1>b, <3>4, <3>5, <3>6 DEF SentOK
  <2> QED
    BY <2>1, <2>2
<1>5. TakenOnce'
  BY <1>b DEF TakenOnce
<1> QED
  BY <1>1, <1>2, <1>3, <1>4, <1>5

LEMMA FetchInv == ASSUME SendInv, Fetch PROVE SendInv'
<1> USE NoneApart DEF Fetch, SendInv, config, files, guard, server, socket, history, Lose
<1>1. TypeOK'
  BY SyncEngineAssumption DEF TypeOK, UpFrame, UpIdle
<1>2. Known'
  BY DEF TypeOK, Known
<1>3. UploadOK' /\ DownloadOK'
  BY DEF TypeOK, Known, UploadOK, DownloadOK, UpFrame, UpIdle
<1>4. SentOK'
  BY DEF TypeOK, SentOK, UploadOK, UpFrame, UpIdle
<1>5. TakenOnce'
  BY DEF TypeOK, TakenOnce
<1> QED
  BY <1>1, <1>2, <1>3, <1>4, <1>5

LEMMA CheckInv == ASSUME SendInv, Check PROVE SendInv'
<1> USE NoneApart DEF Check, SendInv, config, files, guard, server, socket, history
<1>1. TypeOK'
  BY DEF TypeOK, UpFrame, UpIdle
<1>2. Known'
  BY DEF TypeOK, Known
<1>3. UploadOK' /\ DownloadOK'
  BY DEF TypeOK, Known, UploadOK, DownloadOK, UpFrame, UpIdle
<1>4. SentOK'
  BY DEF TypeOK, SentOK, UploadOK, UpFrame, UpIdle
<1>5. TakenOnce'
  BY DEF TypeOK, TakenOnce
<1> QED
  BY <1>1, <1>2, <1>3, <1>4, <1>5

LEMMA UploadReadInv == ASSUME SendInv, UploadRead PROVE SendInv'
<1> USE NoneApart DEF UploadRead, SendInv, config, files, guard, server, socket, history
<1>1. TypeOK'
  BY DEF TypeOK, UpFrame, UploadOK, Known
<1>2. Known'
  BY DEF TypeOK, Known
<1>3. UploadOK' /\ DownloadOK'
  BY DEF TypeOK, Known, UploadOK, DownloadOK, UpFrame
<1>4. SentOK'
  BY DEF TypeOK, SentOK, UploadOK, UpFrame
<1>5. TakenOnce'
  BY DEF TypeOK, TakenOnce
<1> QED
  BY <1>1, <1>2, <1>3, <1>4, <1>5

LEMMA UploadSendInv == ASSUME SendInv, UploadSend PROVE SendInv'
<1> USE NoneApart DEF UploadSend, SendInv, config, files, guard, server, socket, history, Take, Retry, Lose
<1>0. /\ up.path \in Paths /\ up.date \in used /\ up.date \in Values
      /\ up.content \in used /\ up.content \in Values
  BY DEF TypeOK, UploadOK
<1>a. /\ up' \in UpFrame /\ up'.pc \in {"idle", "read"}
      /\ up'.pc = "read" => up'.path = up.path /\ up'.date = up.date
  <2>1. CASE up' = UpIdle
    BY <2>1, IdleFrames DEF UpIdle
  <2>2. CASE up' = [up EXCEPT !.pc = "read", !.attempt = up.attempt + 1, !.content = None] /\ up.attempt < 3
    <3>1. up \in UpFrame
      BY DEF TypeOK
    <3> HIDE DEF UploadSend, SendInv
    <3> QED
      BY <2>2, <3>1, NextAttempt
  <2>3. up' = UpIdle \/ Retry
    <3> HIDE DEF Retry, SendInv, Take, Lose
    <3> QED
      BY DEF UploadSend
  <2> QED
    <3> HIDE DEF UploadSend, SendInv
    <3> QED
      BY <2>1, <2>2, <2>3 DEF Retry
<1>b. CASE UNCHANGED <<server, due, lastUpload>> /\ (UNCHANGED lost \/ Lose("request"))
  <2> HIDE DEF UploadSend
  <2>0. UNCHANGED <<config, files, lastSeen, ignored, lastSync, down, socket, used, synced, hasty>>
    BY DEF UploadSend
  <2>1. lost' \in 0..MaxLosses /\ UNCHANGED <<mine, latest, taken, due, lastUpload>>
    BY <1>b, SyncEngineAssumption DEF TypeOK
  <2>2. TypeOK'
    BY <1>a, <2>0, <2>1 DEF TypeOK
  <2>a. up.pc = "send" /\ (up'.pc # "idle" => up'.pc = "read" /\ up'.path = up.path /\ up'.date = up.date)
    BY <1>a DEF UploadSend
  <2>3. SentOK'
    BY <2>a, <2>0, <2>1 DEF SentOK
  <2> QED
    <3>1. Known' /\ TakenOnce'
      BY <2>0, <2>1 DEF Known, TakenOnce
    <3>2. UploadOK' /\ DownloadOK'
      BY <2>a, <2>0, <2>1 DEF UploadOK, DownloadOK
    <3> QED
      BY <2>2, <2>3, <3>1, <3>2
<1>c. ASSUME NEW answered \in BOOLEAN, Take(answered),
             lastUpload' \in {lastUpload, up.date}, lost' \in 0..MaxLosses,
             answered => up' = UpIdle
      PROVE  SendInv'
  <2> DEFINE new == [path |-> up.path, date |-> up.date, content |-> up.content, answered |-> answered]
             n == Len(taken) + 1
  <2> HIDE DEF UploadSend
  <2>0. /\ UNCHANGED <<config, files, lastSeen, ignored, lastSync, down, socket, used, synced, hasty>>
        /\ up.pc = "send"
    BY DEF UploadSend
  <2>1. taken' = Append(taken, new) /\ latest' = up.content /\ mine' = FALSE /\ due' \in {None, due}
    BY <1>c
  <2>2. new \in [path : Paths, date : Values, content : Values, answered : BOOLEAN]
    BY <1>0
  <2>3. /\ taken' \in Seq([path : Paths, date : Values, content : Values, answered : BOOLEAN])
        /\ DOMAIN taken' = DOMAIN taken \cup {n} /\ n \notin DOMAIN taken
        /\ taken'[n] = new /\ \A i \in DOMAIN taken : i < n /\ i \in Nat /\ taken'[i] = taken[i]
        /\ n \in Nat
    BY <2>1, <2>2 DEF TypeOK
  <2>4. TypeOK'
    <3>1. {lastUpload', lastSync', latest', due'} \subseteq Values \cup {None}
      BY <1>0, <1>c, <2>0, <2>1 DEF TypeOK
    <3>2. lost' \in 0..MaxLosses /\ mine' \in BOOLEAN
      BY <1>c, <2>1
    <3> HIDE DEF Take
    <3> QED
      BY <1>a, <2>0, <2>3, <3>1, <3>2 DEF TypeOK
  <2>5. SentOK'
    <3>1. ~answered \/ up'.pc = "idle"
      BY <1>c DEF UpIdle
    <3>2. up.path[2] = "own" => up.date = lastSeen[up.path]
      BY <2>0 DEF SentOK
    <3> SUFFICES ASSUME NEW i \in DOMAIN taken'
                 PROVE  /\ taken'[i].date \in used
                        /\ taken'[i].path[2] = "own" /\ disk[taken'[i].path] # lastSeen[taken'[i].path]
                             => taken'[i].date # disk[taken'[i].path]
                        /\ /\ up'.pc # "idle" /\ up'.path[2] = "own"
                           /\ taken'[i].path = up'.path /\ taken'[i].date = up'.date
                           => up'.pc \in {"read", "send"} /\ ~taken'[i].answered
      BY <1>a, <2>0, <3>2 DEF SentOK
    <3>3. CASE i = n
      BY <1>0, <1>a, <2>3, <3>1, <3>2, <3>3
    <3>4. CASE i \in DOMAIN taken
      BY <1>a, <2>0, <2>3, <3>4 DEF SentOK
    <3> QED
      BY <2>3, <3>3, <3>4
  <2>6. TakenOnce'
    <3> SUFFICES ASSUME NEW i \in DOMAIN taken', NEW j \in DOMAIN taken', i < j,
                        taken'[i].path = taken'[j].path, taken'[i].path[2] = "own",
                        taken'[i].answered
                 PROVE  /\ taken'[i].date # taken'[j].date
                        /\ taken'[i].date = taken'[i].content => taken'[i].content # taken'[j].content
      BY DEF TakenOnce
    <3>1. i \in DOMAIN taken
      BY <2>3
    <3>2. CASE j = n
      BY <2>0, <2>3, <3>1, <3>2 DEF SentOK
    <3>3. CASE j \in DOMAIN taken
      BY <2>3, <3>1, <3>3 DEF TakenOnce
    <3> QED
      BY <2>3, <3>2, <3>3
  <2>7. Known' /\ UploadOK' /\ DownloadOK'
    BY <1>0, <1>a, <2>0, <2>1, NoneApart DEF TypeOK, Known, UploadOK, DownloadOK
  <2> QED
    BY <2>4, <2>5, <2>6, <2>7
<1>d. lost \in 0..MaxLosses /\ (Lose("response") => lost' \in 0..MaxLosses)
  BY SyncEngineAssumption DEF TypeOK
<1>e. CASE Take(TRUE) /\ up' = UpIdle /\ lastUpload' = up.date /\ UNCHANGED lost
  <2> HIDE DEF UploadSend, Take, SendInv
  <2> QED
    BY <1>c, <1>d, <1>e
<1>f. CASE Take(FALSE) /\ Retry /\ Lose("response") /\ UNCHANGED lastUpload
  <2> HIDE DEF UploadSend, Take, SendInv, Lose
  <2> QED
    BY <1>c, <1>d, <1>f
<1> HIDE DEF Take, SendInv, Lose, server
<1> QED
  BY <1>b, <1>e, <1>f

LEMMA ConnectInv == ASSUME SendInv, Connect PROVE SendInv'
<1> USE NoneApart DEF Connect, SendInv, config, files, guard, server, socket, history
<1>1. TypeOK'
  BY DEF TypeOK
<1>2. Known'
  BY DEF TypeOK, Known
<1>3. UploadOK' /\ DownloadOK'
  BY DEF TypeOK, Known, UploadOK, DownloadOK
<1>4. SentOK'
  BY DEF TypeOK, SentOK, UploadOK
<1>5. TakenOnce'
  BY DEF TypeOK, TakenOnce
<1> QED
  BY <1>1, <1>2, <1>3, <1>4, <1>5

LEMMA DropInv == ASSUME SendInv, Drop PROVE SendInv'
<1> USE NoneApart DEF Drop, SendInv, config, files, guard, server, socket, history
<1>1. TypeOK'
  BY DEF TypeOK
<1>2. Known'
  BY DEF TypeOK, Known
<1>3. UploadOK' /\ DownloadOK'
  BY DEF TypeOK, Known, UploadOK, DownloadOK
<1>4. SentOK'
  BY DEF TypeOK, SentOK, UploadOK
<1>5. TakenOnce'
  BY DEF TypeOK, TakenOnce
<1> QED
  BY <1>1, <1>2, <1>3, <1>4, <1>5

LEMMA HandleTurnInv == ASSUME SendInv, HandleTurn PROVE SendInv'
<1> USE NoneApart DEF HandleTurn, SendInv, config, files, guard, server, socket, history
<1>1. TypeOK'
  BY DEF TypeOK, DownFrame, DownIdle, Known, DownloadOK
<1>2. Known'
  BY DEF TypeOK, Known, DownFrame, DownloadOK
<1>3. UploadOK' /\ DownloadOK'
  BY DEF TypeOK, Known, UploadOK, DownloadOK, DownFrame, DownIdle
<1>4. SentOK'
  BY DEF TypeOK, SentOK, UploadOK, DownFrame
<1>5. TakenOnce'
  BY DEF TypeOK, TakenOnce
<1> QED
  BY <1>1, <1>2, <1>3, <1>4, <1>5

LEMMA DownloadInv == ASSUME SendInv, Download PROVE SendInv'
<1> USE NoneApart DEF SendInv, config, files, guard, server, socket, history
<1>1. /\ UNCHANGED <<config, files, lastSeen, guard, up, socket, server, used, history>>
      /\ lost' \in 0..MaxLosses
  BY SyncEngineAssumption DEF Download, Lose, TypeOK
<1>2. latest # None /\ latest \in used /\ latest \in Values /\ down \in DownFrame
  BY DEF TypeOK, Known, DownloadOK, Download
<1>3. \/ down' = DownIdle
      \/ down' = [pc |-> "write", attempt |-> down.attempt, path |-> down.path, data |-> latest]
      \/ down.attempt < 3 /\ down' = [pc |-> "get", attempt |-> down.attempt + 1, path |-> down.path, data |-> down.data]
  <2> HIDE DEF SendInv
  <2> QED
    BY <1>2 DEF Download, DownFrame
<1> HIDE DEF SendInv
<1>4. /\ down' \in DownFrame /\ down'.pc \in {"idle", "write", "get"}
      /\ down'.pc = "write" => down'.data = latest
  <2>1. CASE down' = DownIdle
    BY <2>1, IdleFrames DEF DownIdle
  <2>2. CASE down' = [pc |-> "write", attempt |-> down.attempt, path |-> down.path, data |-> latest]
    BY <1>2, <2>2 DEF DownFrame
  <2>3. CASE down.attempt < 3 /\ down' = [pc |-> "get", attempt |-> down.attempt + 1, path |-> down.path, data |-> down.data]
    BY <1>2, <2>3 DEF DownFrame
  <2> QED
    BY <1>3, <2>1, <2>2, <2>3
<1> USE DEF SendInv
<1>5. TypeOK'
  BY <1>1, <1>4 DEF TypeOK
<1>6. DownloadOK'
  BY <1>1, <1>2, <1>4 DEF DownloadOK
<1> QED
  BY <1>1, <1>5, <1>6 DEF Known, UploadOK, SentOK, TakenOnce

LEMMA DownloadWriteInv == ASSUME SendInv, DownloadWrite PROVE SendInv'
<1> USE NoneApart DEF SendInv, config, files, guard, server, socket, history
<1> DEFINE file == <<dir, "sync">>
<1>1. /\ UNCHANGED <<config, lastSeen, guard, up, socket, server, lost, used, history>>
      /\ disk' = [disk EXCEPT ![file] = down.data]
      /\ pending' = IF file[1] = watched THEN pending \cup {file} ELSE pending
      /\ down' = [down EXCEPT !.pc = "date", !.path = file]
  BY DEF DownloadWrite, Write
<1>2. /\ file \in Paths /\ file[2] # "own" /\ down.data \in used /\ down.data \in Values
      /\ down.data # None /\ latest # None /\ down \in DownFrame
  BY DEF TypeOK, Paths, DownloadOK, DownloadWrite
<1>3. \A p \in Paths : disk'[p] = IF p = file THEN down.data ELSE disk[p]
  BY <1>1, <1>2 DEF TypeOK
<1>4. down' \in DownFrame /\ down'.pc = "date" /\ down'.path = file
  <2>1. down' = [pc |-> "date", attempt |-> down.attempt, path |-> file, data |-> down.data]
    BY <1>1, <1>2 DEF DownFrame
  <2> QED
    BY <1>2, <2>1 DEF DownFrame
<1> HIDE DEF file
<1>5. TypeOK'
  <2>1. disk' \in [Paths -> Values \cup {None}]
    BY <1>1, <1>2 DEF TypeOK
  <2>2. pending' \subseteq {p \in Paths : p[1] = watched /\ disk'[p] # None}
    BY <1>1, <1>2, <1>3 DEF TypeOK
  <2> QED
    BY <1>1, <1>4, <2>1, <2>2 DEF TypeOK
<1>6. Known' /\ UploadOK' /\ DownloadOK'
  BY <1>1, <1>2, <1>3, <1>4 DEF Known, UploadOK, DownloadOK
<1>7. SentOK' /\ TakenOnce'
  <2>1. \A i \in DOMAIN taken : taken[i].path \in Paths
    BY SentPaths
  <2> QED
    BY <1>1, <1>2, <1>3, <2>1 DEF SentOK, TakenOnce
<1> QED
  BY <1>5, <1>6, <1>7

LEMMA DownloadDateInv == ASSUME SendInv, DownloadDate PROVE SendInv'
<1> USE NoneApart DEF SendInv, config, files, guard, server, socket, history
<1> DEFINE value == disk[down.path]
<1>1. /\ UNCHANGED <<config, files, lastSeen, ignored, lastUpload, up, socket, server, lost, used, history>>
      /\ lastSync' = value
      /\ down' = [down EXCEPT !.pc = "ignore", !.data = value]
  BY DEF DownloadDate
<1>2. /\ down.path \in Paths /\ value \in used /\ value \in Values /\ value # None
      /\ latest # None /\ down \in DownFrame
  BY DEF TypeOK, Known, DownloadOK, DownloadDate
<1>3. /\ down' \in DownFrame /\ down'.pc = "ignore" /\ down'.path = down.path
      /\ down'.data = value
  <2>1. down' = [pc |-> "ignore", attempt |-> down.attempt, path |-> down.path, data |-> value]
    BY <1>1, <1>2 DEF DownFrame
  <2> QED
    BY <1>2, <2>1 DEF DownFrame
<1>4. TypeOK'
  BY <1>1, <1>2, <1>3 DEF TypeOK
<1>5. DownloadOK'
  BY <1>1, <1>2, <1>3 DEF DownloadOK
<1> QED
  BY <1>1, <1>4, <1>5 DEF Known, UploadOK, SentOK, TakenOnce

LEMMA DownloadIgnoreInv == ASSUME SendInv, DownloadIgnore PROVE SendInv'
<1> USE NoneApart DEF SendInv, config, files, guard, server, socket, history
<1>1. /\ UNCHANGED <<config, files, lastSeen, lastUpload, lastSync, up, socket, server, lost, used, due, hasty>>
      /\ ignored' \subseteq ignored \cup {down.data}
      /\ synced' = synced \cup {down.data}
      /\ down' = DownIdle /\ down.data \in used
  BY DEF DownloadIgnore, DownloadOK
<1>2. TypeOK'
  BY <1>1, IdleFrames DEF TypeOK
<1>3. DownloadOK'
  BY <1>1 DEF DownloadOK, DownIdle
<1> QED
  BY <1>1, <1>2, <1>3 DEF Known, UploadOK, SentOK, TakenOnce

LEMMA SendStep == SendInv /\ [Next]_vars => SendInv'
<1> SUFFICES ASSUME SendInv, [Next]_vars PROVE SendInv'
  OBVIOUS
<1>1. CASE UNCHANGED vars
  BY <1>1 DEF vars, SendInv, TypeOK, Known, UploadOK, DownloadOK, SentOK, TakenOnce
<1>2. ASSUME NEW v \in Values, Save(v) \/ PlayOther(v) PROVE SendInv'
  BY <1>2, SaveInv, PlayOtherInv
<1>3. ASSUME NEW d \in Dirs, SetConfig(d) PROVE SendInv'
  BY <1>3, SetConfigInv
<1>4. ASSUME NEW p \in Paths, EventAgain(p) \/ HandleEvent(p) PROVE SendInv'
  BY <1>4, EventAgainInv, HandleEventInv
<1>5. CASE Watch
  BY <1>5, WatchInv
<1>6. CASE Uploading
  BY <1>6, FetchInv, CheckInv, UploadReadInv, UploadSendInv DEF Uploading
<1>7. CASE Connect \/ Drop
  BY <1>7, ConnectInv, DropInv
<1>8. CASE Downloading
  BY <1>8, HandleTurnInv, DownloadInv, DownloadWriteInv, DownloadDateInv, DownloadIgnoreInv DEF Downloading
<1> QED
  BY <1>1, <1>2, <1>3, <1>4, <1>5, <1>6, <1>7, <1>8 DEF Next

-----------------------------------------------------------------------------
\* The own files and those of downloads.
LEMMA PathForms ==
  /\ \A p \in Paths : p[1] \in Dirs /\ p[2] \in {"own", "sync"} /\ p = <<p[1], p[2]>>
  /\ \A d \in Dirs : <<d, "own">> \in Paths /\ <<d, "sync">> \in Paths
  BY DEF Paths

LEMMA Contents ==
  ASSUME CalmInv, Calm, NEW p \in Paths
  PROVE  /\ p[2] = "own" => disk[p] \in Saves \cup {None}
         /\ p[2] = "sync" => disk[p] \in Theirs \cup {None}
  BY PathForms DEF CalmInv, PlacesOK, OneDownload

\* A save that onVlogChange is told of, or has in hand, leaves nothing of a download open.
LEMMA OwnAlone ==
  ASSUME CalmInv, Calm, SendInv, NEW p \in Paths, NEW v, p[2] = "own", InHand(p, v)
  PROVE  down.pc = "idle" /\ inbox = 0
  BY DEF CalmInv, OneDownload, InHand, SendInv, Known, DownloadOK, TypeOK

\* The watcher's goroutine goes on with the file it has in hand.
LEMMA UpStep ==
  ASSUME CalmInv, SendInv,
         UNCHANGED <<disk, pending, watched, current, lastSeen, ignored, lastSync, down, inbox, mine,
                     latest, taken, used, due, synced, hasty>>,
         up'.pc # "idle" =>
           /\ up.pc # "idle" /\ up'.path = up.path /\ up'.date = up.date
           /\ up'.pc = "send" => up'.content = disk[up.path]
  PROVE  CalmInv'
<1>1. Calm' <=> Calm
  BY DEF Calm, NoEcho
<1>2. PlacesOK'
  BY DEF CalmInv, PlacesOK
<1>3. ASSUME Calm PROVE OneDownload'
  BY <1>3 DEF CalmInv, OneDownload
<1>4. ASSUME Calm PROVE OneAtHand'
  <2>1. ASSUME NEW p \in Paths, Unseen(p)'
        PROVE  InHand(p, disk[p])' /\ (p[2] = "sync" => down'.pc \in {"date", "ignore"} /\ down'.path = p)
    BY <1>4, <2>1 DEF CalmInv, OneAtHand, Unseen, InHand
  <2>2. ASSUME up'.pc # "idle"
        PROVE  /\ InHand(up.path, up.date)'
               /\ up'.path[2] = "own" => disk'[up'.path] = up'.date
               /\ up'.path[2] = "own" /\ up'.pc = "send" => up'.content = up'.date
               /\ up'.path[2] = "sync" /\ up'.date \in synced' => lastSync' = up'.date
               /\ up'.path[2] = "sync" /\ up'.pc = "send" => up'.content \in Theirs
    <3>1. up.path \in Paths /\ disk[up.path] # None
      BY <2>2 DEF SendInv, UploadOK
    <3>2. up'.path[2] = "sync" /\ up'.pc = "send" => up'.content \in Theirs
      BY <1>4, <2>2, <3>1, Contents
    <3>3. InHand(up.path, up.date) => InHand(up.path, up.date)'
      BY <2>2 DEF InHand
    <3> QED
      BY <1>4, <2>2, <3>2, <3>3 DEF CalmInv, OneAtHand
  <2> QED
    BY <2>1, <2>2 DEF OneAtHand
<1> QED
  BY <1>1, <1>2, <1>3, <1>4 DEF CalmInv

\* Nothing that CalmInv says of is touched but the socket, the events and the frame of the
\* download, which stay within what it says.
LEMMA SocketStep ==
  ASSUME CalmInv, SendInv,
         UNCHANGED <<disk, watched, lastSeen, ignored, lastSync, up, mine, latest, taken, due, synced, hasty>>,
         Calm' => Calm,
         pending' \subseteq {p \in Paths : p \in pending \/ disk[p] \in ignored \cup {lastSeen[p]}},
         Calm => /\ inbox' \in {0, 1}
                 /\ inbox' = 1 \/ down'.pc # "idle" => inbox = 1 \/ down.pc # "idle"
                 /\ inbox' = 1 => down'.pc = "idle"
                 /\ down'.pc = "write" => down'.data = latest
                 /\ down'.pc \in {"date", "ignore"} \/ down.pc \in {"date", "ignore"} => down' = down
  PROVE  CalmInv'
<1>1. PlacesOK'
  BY DEF CalmInv, PlacesOK
<1>2. ASSUME Calm PROVE OneDownload'
  BY <1>2 DEF CalmInv, OneDownload
<1>3. ASSUME Calm PROVE OneAtHand'
  <2>1. ASSUME NEW p \in Paths, Unseen(p)'
        PROVE  InHand(p, disk[p])' /\ (p[2] = "sync" => down'.pc \in {"date", "ignore"} /\ down'.path = p)
    <3>1. Unseen(p)
      BY <2>1 DEF Unseen
    <3>2. InHand(p, disk[p]) /\ (p[2] = "sync" => down.pc \in {"date", "ignore"} /\ down.path = p)
      BY <1>3, <3>1 DEF CalmInv, OneAtHand
    <3>3. InHand(p, disk[p])'
      BY <3>2 DEF InHand
    <3> QED
      BY <1>3, <3>2, <3>3
  <2>2. InHand(up.path, up.date) => InHand(up.path, up.date)'
    BY DEF InHand
  <2> QED
    BY <1>3, <2>1, <2>2 DEF CalmInv, OneAtHand
<1> QED
  BY <1>1, <1>2, <1>3 DEF CalmInv

LEMMA SaveCalm == ASSUME EngineInv, NEW v \in Values, Save(v) PROVE CalmInv'
<1> DEFINE file == <<dir, "own">>
<1>1. /\ v \in Saves /\ v \notin used /\ used' = used \cup {v}
      /\ disk' = [disk EXCEPT ![file] = v]
      /\ pending' = IF file[1] = watched THEN pending \cup {file} ELSE pending
      /\ due' = IF mine /\ watched # None THEN v ELSE due
      /\ hasty' = (hasty \/ ~InTime)
      /\ UNCHANGED <<dir, watched, current, lastSeen, ignored, lastUpload, lastSync, up, down, online,
                     inbox, mine, latest, taken, synced>>
  BY DEF Save, Unused, Write, config, guard, socket, server
<1>2. /\ file \in Paths /\ file[2] = "own" /\ v # None
      /\ \A p \in Paths : disk'[p] = IF p = file THEN v ELSE disk[p]
  BY <1>1, PathForms, NoneApart DEF EngineInv, SendInv, TypeOK
<1> HIDE DEF file
<1>3. PlacesOK'
  BY <1>1, <1>2, PathForms DEF EngineInv, CalmInv, PlacesOK
<1>4. ASSUME Calm'
      PROVE  Calm /\ InTime /\ due' = v /\ mine /\ due = None /\ latest \in synced \cup {None}
  BY <1>1, <1>4 DEF Calm, NoEcho, InTime
<1>5. ASSUME Calm' PROVE OneDownload'
  <2>1. OneDownload /\ Calm
    BY <1>4, <1>5 DEF EngineInv, CalmInv
  <2>2. down.pc = "idle"
    BY <1>4, <1>5 DEF InTime, DownIdle
  <2>3. \A d \in Dirs : <<d, "sync">> # file /\ <<d, "sync">> \in Paths
    BY <1>2, PathForms
  <2> QED
    BY <1>1, <1>2, <2>1, <2>2, <2>3 DEF OneDownload
<1>6. ASSUME Calm' PROVE OneAtHand'
  <2>1. OneAtHand /\ Calm /\ down.pc = "idle"
    BY <1>4, <1>6 DEF EngineInv, CalmInv, InTime, DownIdle
  <2>2. ASSUME NEW p \in Paths, Unseen(p)'
        PROVE  InHand(p, disk[p])' /\ p[2] = "own"
    <3>1. CASE p = file
      BY <1>1, <1>2, <1>4, <1>6, <3>1 DEF InHand
    <3>2. CASE p # file
      <4>1. Unseen(p) /\ disk[p] # None /\ disk'[p] = disk[p]
        BY <1>1, <1>2, <2>2, <3>2 DEF Unseen, EngineInv, SendInv, TypeOK
      <4>2. InHand(p, disk[p]) /\ p[2] # "sync"
        BY <2>1, <4>1 DEF OneAtHand
      <4> QED
        BY <1>4, <1>6, <4>1, <4>2 DEF InHand
    <3> QED
      BY <3>1, <3>2
  <2>3. ASSUME up.pc # "idle"
        PROVE  /\ InHand(up.path, up.date)' /\ up.path[2] # "own"
               /\ up.path[2] = "sync" /\ up.date \in synced => lastSync = up.date
               /\ up.path[2] = "sync" /\ up.pc = "send" => up.content \in Theirs
    <3>1. InHand(up.path, up.date) /\ up.path \in Paths /\ up.date # None
      BY <2>1, <2>3, NoneApart DEF OneAtHand, EngineInv, SendInv, UploadOK, TypeOK
    <3>2. up.path[2] = "sync"
      BY <1>4, <1>6, <3>1, PathForms DEF InHand
    <3>3. InHand(up.path, up.date)'
      BY <1>1, <3>1, <3>2 DEF InHand
    <3> QED
      BY <2>1, <2>3, <3>2, <3>3 DEF OneAtHand
  <2> QED
    BY <1>1, <2>2, <2>3 DEF OneAtHand
<1> QED
  BY <1>3, <1>5, <1>6 DEF CalmInv

LEMMA PlayOtherCalm == ASSUME EngineInv, NEW v \in Values, PlayOther(v) PROVE CalmInv'
<1>1. /\ ~mine /\ v \in Theirs /\ v \notin used /\ latest' = v
      /\ inbox' = IF mine' /\ online THEN inbox + 1 ELSE inbox
      /\ UNCHANGED <<dir, watched, current, disk, pending, lastSeen, ignored, lastSync, up, down, taken,
                     synced, hasty>>
  BY DEF PlayOther, Unused, config, files, guard, history
<1>2. PlacesOK' /\ (Calm' => Calm)
  BY <1>1 DEF EngineInv, CalmInv, PlacesOK, Calm, NoEcho
<1>3. ASSUME Calm
      PROVE  /\ OneDownload /\ inbox = 0 /\ down.pc = "idle" /\ v \notin synced
             /\ up.pc = "idle" /\ \A p \in Paths : ~Unseen(p)
  <2>1. OneDownload /\ OneAtHand /\ v \notin synced
    BY <1>1, <1>3 DEF EngineInv, CalmInv, SendInv, TypeOK
  <2> QED
    BY <1>1, <2>1 DEF OneDownload, OneAtHand, InHand
<1>4. ASSUME Calm PROVE OneDownload' /\ OneAtHand'
  BY <1>1, <1>3, <1>4 DEF OneDownload, OneAtHand, Unseen
<1> QED
  BY <1>2, <1>4 DEF CalmInv

LEMMA EventAgainCalm == ASSUME EngineInv, NEW p \in Paths, EventAgain(p) PROVE CalmInv'
<1>1. /\ UNCHANGED <<disk, watched, current, lastSeen, ignored, lastSync, up, down, inbox, mine, latest, taken,
                      due, synced, hasty>>
      /\ pending' \subseteq {q \in Paths : q \in pending \/ disk[q] \in ignored \cup {lastSeen[q]}}
  BY DEF EventAgain, config, guard, socket, server, history, EngineInv, SendInv, TypeOK
<1>2. Calm' => Calm
  BY <1>1 DEF Calm, NoEcho
<1>3. Calm => OneDownload
  BY DEF EngineInv, CalmInv
<1> QED
  BY <1>1, <1>2, <1>3, SocketStep DEF EngineInv, OneDownload

LEMMA ConfigCalm == ASSUME EngineInv, Watch \/ \E d \in Dirs : SetConfig(d) PROVE CalmInv'
<1>1. /\ UNCHANGED <<disk, pending, lastSeen, ignored, lastSync, up, down, inbox, mine, latest, taken,
                      due, synced, hasty>>
      /\ watched' = watched \/ watched = None
      /\ current' => watched = None
  BY DEF Watch, SetConfig, files, guard, socket, server, history
<1>2. Calm' => Calm
  BY <1>1 DEF Calm, NoEcho, Watch, SetConfig
<1>3. up.pc # "idle" => watched # None
  BY PathForms, NoneApart DEF EngineInv, SendInv, UploadOK, CalmInv, PlacesOK
<1>4. PlacesOK'
  BY <1>1, <1>3 DEF EngineInv, CalmInv, PlacesOK
<1>5. ASSUME Calm PROVE OneDownload'
  BY <1>1, <1>5 DEF EngineInv, CalmInv, OneDownload
<1>6. ASSUME Calm PROVE OneAtHand'
  BY <1>1, <1>6 DEF EngineInv, CalmInv, OneAtHand, Unseen, InHand
<1> QED
  BY <1>2, <1>4, <1>5, <1>6 DEF CalmInv

LEMMA HandleEventCalm == ASSUME EngineInv, NEW p \in Paths, HandleEvent(p) PROVE CalmInv'
<1>1. /\ up = UpIdle /\ p \in pending /\ pending' = pending \ {p}
      /\ UNCHANGED <<dir, watched, current, disk, ignored, lastSync, down, inbox, mine, latest, taken, due, synced, hasty>>
  BY DEF HandleEvent, config, guard, socket, server, history
<1>2. Calm' => Calm
  BY <1>1 DEF Calm, NoEcho
<1>3. CASE ~Unseen(p)
  <2>1. UNCHANGED <<lastSeen, up>>
    BY <1>1, <1>3 DEF HandleEvent, Unseen
  <2>2. pending' \subseteq {q \in Paths : q \in pending \/ disk[q] \in ignored \cup {lastSeen[q]}}
    BY <1>1 DEF EngineInv, SendInv, TypeOK
  <2>3. Calm => OneDownload
    BY DEF EngineInv, CalmInv
  <2> QED
    BY <1>1, <1>2, <2>1, <2>2, <2>3, SocketStep DEF EngineInv, OneDownload
<1>4. CASE Unseen(p)
  <2>1. /\ lastSeen' = [lastSeen EXCEPT ![p] = disk[p]]
        /\ up'.pc = "fetch" /\ up'.path = p /\ up'.date = disk[p]
    BY <1>1, <1>4 DEF HandleEvent, Unseen, UpIdle
  <2>2. PlacesOK'
    BY <1>1, <2>1 DEF EngineInv, SendInv, TypeOK, CalmInv, PlacesOK
  <2>3. ASSUME Calm PROVE OneDownload'
    BY <1>1, <2>3 DEF EngineInv, CalmInv, OneDownload
  <2>4. ASSUME Calm PROVE OneAtHand'
    <3>1. OneAtHand /\ OneDownload
      BY <2>4 DEF EngineInv, CalmInv
    <3>2. InHand(p, disk[p]) /\ (p[2] = "sync" => down.pc \in {"date", "ignore"} /\ down.path = p)
      BY <1>4, <3>1 DEF OneAtHand
    <3>3. ASSUME NEW q \in Paths, Unseen(q)'
          PROVE  InHand(q, disk[q])' /\ (q[2] = "sync" => down'.pc \in {"date", "ignore"} /\ down'.path = q)
      <4>1. q # p /\ lastSeen'[q] = lastSeen[q] /\ Unseen(q)
        BY <1>1, <2>1, <3>3 DEF Unseen, EngineInv, SendInv, TypeOK
      <4>2. InHand(q, disk[q]) /\ (q[2] = "sync" => down.pc \in {"date", "ignore"} /\ down.path = q)
        BY <3>1, <4>1 DEF OneAtHand
      <4> QED
        BY <1>1, <4>2 DEF InHand
    <3>4. InHand(up.path, up.date)'
      BY <1>1, <2>1, <3>2 DEF InHand
    <3>5. p[2] = "sync" => disk[p] \notin synced
      BY <3>1, <3>2 DEF OneDownload
    <3> QED
      BY <1>1, <2>1, <3>3, <3>4, <3>5 DEF OneAtHand
  <2> QED
    BY <1>2, <2>2, <2>3, <2>4 DEF CalmInv
<1> QED
  BY <1>3, <1>4

LEMMA UploadingCalm == ASSUME EngineInv, Fetch \/ Check \/ UploadRead PROVE CalmInv'
<1>1. UNCHANGED <<disk, pending, watched, current, lastSeen, ignored, lastSync, down, inbox, mine,
                  latest, taken, used, due, synced, hasty>>
  BY DEF Fetch, Check, UploadRead, config, files, guard, socket, server, history
<1>2. up \in UpFrame /\ SendInv /\ CalmInv
  BY DEF EngineInv, SendInv, TypeOK
<1>3. up'.pc # "idle" =>
        /\ up.pc # "idle" /\ up'.path = up.path /\ up'.date = up.date
        /\ up'.pc = "send" => up'.content = disk[up.path]
  <2>1. CASE Fetch
    BY <1>2, <2>1 DEF Fetch, UpFrame, UpIdle
  <2>2. CASE Check
    BY <1>2, <2>2 DEF Check, UpFrame, UpIdle
  <2>3. CASE UploadRead
    BY <1>2, <2>3 DEF UploadRead, UpFrame
  <2> QED
    BY <2>1, <2>2, <2>3
<1> QED
  BY <1>1, <1>2, <1>3, UpStep

LEMMA UploadSendCalm == ASSUME EngineInv, UploadSend PROVE CalmInv'
<1>1. /\ up.pc = "send" /\ up \in UpFrame /\ SendInv /\ CalmInv
      /\ UNCHANGED <<dir, watched, current, disk, pending, lastSeen, ignored, lastSync, down, inbox, used, synced, hasty>>
  BY DEF UploadSend, EngineInv, SendInv, TypeOK, config, files, socket
<1>r. Retry \/ up' = UpIdle => (up'.pc # "idle" => up'.pc = "read" /\ up'.path = up.path /\ up'.date = up.date)
  <2>1. CASE up' = UpIdle
    BY <2>1 DEF UpIdle
  <2>2. CASE up' = [up EXCEPT !.pc = "read", !.attempt = up.attempt + 1, !.content = None]
    BY <1>1, <2>2 DEF UpFrame
  <2> QED
    BY <2>1, <2>2 DEF Retry
<1>2. CASE Retry /\ UNCHANGED <<mine, latest, taken, due>>
  BY <1>1, <1>2, <1>r, UpStep
<1>3. ASSUME NEW answered \in BOOLEAN, Take(answered), (~answered /\ Retry) \/ up' = UpIdle
      PROVE  CalmInv'
  <2> DEFINE new == [path |-> up.path, date |-> up.date, content |-> up.content, answered |-> answered]
             n == Len(taken) + 1
  <2>1. /\ mine /\ mine' = FALSE /\ taken' = Append(taken, new)
    BY <1>3 DEF Take
  <2>2. /\ n \in DOMAIN taken' /\ taken'[n] = new
        /\ \A i \in DOMAIN taken : i \in DOMAIN taken' /\ taken'[i] = taken[i]
    <3>1. taken \in Seq([path : Paths, date : Values, content : Values, answered : BOOLEAN])
      BY <1>1 DEF SendInv, TypeOK
    <3> HIDE DEF new
    <3> QED
      BY <2>1, <3>1
  <2>3. new.content = up.content /\ new.answered = answered
    OBVIOUS
  <2> HIDE DEF new, n
  <2>4. ASSUME Calm'
        PROVE  Calm /\ answered /\ up.content \in Saves /\ up'.pc = "idle"
    <3>1. answered /\ up.content \in Saves
      BY <2>2, <2>3, <2>4 DEF Calm, NoEcho
    <3>2. Calm
      BY <1>1, <2>2, <2>4 DEF Calm, NoEcho
    <3> QED
      BY <1>3, <3>1, <3>2 DEF UpIdle
  <2>5. PlacesOK'
    BY <1>1, <1>3, <1>r, <2>1 DEF CalmInv, PlacesOK
  <2>6. ASSUME Calm'
        PROVE  /\ up.path \in Paths /\ up.path[2] = "own" /\ InHand(up.path, up.date) /\ disk[up.path] = up.date
               /\ up.path[1] = watched /\ OneDownload /\ OneAtHand
    <3>1. OneDownload /\ OneAtHand /\ up.path \in Paths
      BY <1>1, <2>4, <2>6 DEF CalmInv, SendInv, UploadOK
    <3>2. up.content \notin Theirs
      BY <2>4, <2>6, SyncEngineAssumption
    <3> QED
      BY <1>1, <3>1, <3>2, PathForms DEF OneAtHand, CalmInv, PlacesOK
  <2>7. ASSUME Calm' PROVE OneDownload' /\ OneAtHand'
    <3>1. down.pc = "idle" /\ inbox = 0
      BY <1>1, <2>4, <2>6, <2>7, OwnAlone
    <3>2. \A p \in Paths : ~Unseen(p)
      <4> SUFFICES ASSUME NEW p \in Paths, Unseen(p) PROVE FALSE
        OBVIOUS
      <4>1. p[2] = "own" /\ InHand(p, disk[p])
        BY <2>6, <2>7, <3>1, PathForms DEF OneAtHand
      <4>2. p[1] = watched
        BY <1>1 DEF Unseen, SendInv, TypeOK
      <4>3. p = up.path
        BY <2>6, <2>7, <4>1, <4>2, PathForms
      <4>4. disk[p] = lastSeen[p]
        BY <1>1, <2>6, <2>7, <4>3 DEF SendInv, SentOK
      <4> QED
        BY <4>4 DEF Unseen
    <3>3. \A p \in Paths : ~Unseen(p)'
      BY <1>1, <3>2 DEF Unseen
    <3>4. OneDownload'
      BY <1>1, <2>6, <2>7, <3>1 DEF OneDownload
    <3> QED
      BY <2>4, <2>7, <3>3, <3>4 DEF OneAtHand
  <2> QED
    BY <2>5, <2>7 DEF CalmInv
<1> QED
  BY <1>2, <1>3 DEF UploadSend, server

LEMMA SocketCalm == ASSUME EngineInv, Connect \/ Drop \/ HandleTurn \/ Download PROVE CalmInv'
<1>1. /\ UNCHANGED <<disk, pending, watched, current, lastSeen, ignored, lastSync, up, mine, latest, taken,
                      due, synced, hasty>>
  BY DEF Connect, Drop, HandleTurn, Download, config, files, guard, server, history
<1>2. pending' \subseteq {q \in Paths : q \in pending \/ disk[q] \in ignored \cup {lastSeen[q]}}
  BY <1>1 DEF EngineInv, SendInv, TypeOK
<1>3. Calm' => Calm
  BY <1>1 DEF Calm, NoEcho
<1>4. ASSUME Calm
      PROVE  /\ inbox' \in {0, 1}
             /\ inbox' = 1 \/ down'.pc # "idle" => inbox = 1 \/ down.pc # "idle"
             /\ inbox' = 1 => down'.pc = "idle"
             /\ down'.pc = "write" => down'.data = latest
             /\ down'.pc \in {"date", "ignore"} \/ down.pc \in {"date", "ignore"} => down' = down
  <2>1. OneDownload /\ down \in DownFrame
    BY <1>4 DEF EngineInv, CalmInv, SendInv, TypeOK
  <2>2. CASE Connect \/ Drop
    BY <2>1, <2>2 DEF Connect, Drop, socket, OneDownload
  <2>3. CASE HandleTurn
    BY <2>1, <2>3 DEF HandleTurn, OneDownload, DownIdle
  <2>4. CASE Download
    <3>1. down.pc = "get" /\ inbox' = inbox
      BY <2>4 DEF Download, socket
    <3>2. \/ down'.pc = "write" /\ down'.data = latest
          \/ down'.pc \in {"get", "idle"}
      <4>1. CASE down' = [down EXCEPT !.pc = "write", !.data = latest]
        BY <2>1, <4>1 DEF DownFrame
      <4>2. CASE down' = (IF down.attempt < 3 THEN [down EXCEPT !.attempt = down.attempt + 1] ELSE DownIdle)
        BY <2>1, <3>1, <4>2 DEF DownFrame, DownIdle
      <4> QED
        BY <2>4, <4>1, <4>2 DEF Download
    <3> QED
      BY <2>1, <3>1, <3>2 DEF OneDownload
  <2> QED
    BY <2>2, <2>3, <2>4
<1> QED
  BY <1>1, <1>2, <1>3, <1>4, SocketStep DEF EngineInv

LEMMA DownloadWriteCalm == ASSUME EngineInv, DownloadWrite PROVE CalmInv'
<1> DEFINE file == <<dir, "sync">>
<1>1. /\ down.pc = "write" /\ down \in DownFrame
      /\ disk' = [disk EXCEPT ![file] = down.data]
      /\ pending' = IF file[1] = watched THEN pending \cup {file} ELSE pending
      /\ down'.pc = "date" /\ down'.path = file
      /\ UNCHANGED <<watched, current, lastSeen, ignored, lastSync, up, inbox, mine, latest, taken, due, synced, hasty>>
  BY DEF DownloadWrite, Write, EngineInv, SendInv, TypeOK, DownFrame, config, guard, socket, server, history
<1>2. /\ file \in Paths /\ file[2] = "sync"
      /\ \A p \in Paths : disk'[p] = IF p = file THEN down.data ELSE disk[p]
  BY <1>1, PathForms DEF EngineInv, SendInv, TypeOK
<1> HIDE DEF file
<1>3. \A d \in Dirs : <<d, "own">> # file
  BY <1>2
<1>4. PlacesOK' /\ (Calm' => Calm)
  BY <1>1, <1>2, <1>3, PathForms DEF EngineInv, CalmInv, PlacesOK, Calm, NoEcho
<1>5. ASSUME Calm
      PROVE  /\ OneDownload /\ OneAtHand /\ down.data = latest /\ latest \in Theirs
             /\ mine /\ latest \notin synced /\ inbox = 0
             /\ up.pc # "idle" => up.path[2] = "sync"
  <2>1. OneDownload /\ OneAtHand /\ SendInv /\ CalmInv
    BY <1>5 DEF EngineInv, CalmInv
  <2>2. down.data = latest /\ mine /\ latest \notin synced /\ inbox = 0
    BY <1>1, <2>1 DEF OneDownload
  <2>3. latest \in Theirs
    BY <1>1, <2>1, <2>2 DEF CalmInv, PlacesOK, SendInv, DownloadOK
  <2>4. ASSUME up.pc # "idle" PROVE up.path[2] = "sync"
    <3>1. up.path \in Paths /\ InHand(up.path, up.date)
      BY <2>1, <2>4 DEF OneAtHand, SendInv, UploadOK
    <3> QED
      BY <1>1, <1>5, <2>1, <3>1, OwnAlone, PathForms
  <2> QED
    BY <2>1, <2>2, <2>3, <2>4
<1>6. ASSUME Calm PROVE OneDownload'
  <2>1. \A d \in Dirs : disk'[<<d, "sync">>] \in Theirs \cup {None}
    BY <1>2, <1>5, <1>6, PathForms DEF OneDownload
  <2>2. disk'[file] = latest
    BY <1>2, <1>5, <1>6
  <2> QED
    BY <1>1, <1>2, <1>5, <1>6, <2>1, <2>2 DEF OneDownload
<1>7. ASSUME Calm PROVE OneAtHand'
  <2>1. ASSUME NEW p \in Paths, Unseen(p)' PROVE InHand(p, disk[p])' /\ p = file
    <3>1. CASE p = file
      BY <1>1, <1>2, <1>5, <1>7, <3>1 DEF InHand
    <3>2. CASE p # file
      <4>1. Unseen(p)
        BY <1>1, <1>2, <2>1, <3>2 DEF Unseen
      <4>2. p[2] = "own" /\ InHand(p, disk[p])
        BY <1>1, <1>5, <1>7, <4>1, PathForms DEF OneAtHand
      <4> QED
        BY <1>1, <1>7, <4>2, OwnAlone DEF EngineInv
    <3> QED
      BY <3>1, <3>2
  <2>2. InHand(up.path, up.date) => InHand(up.path, up.date)'
    BY <1>1 DEF InHand
  <2> QED
    BY <1>1, <1>5, <1>7, <2>1, <2>2 DEF OneAtHand
<1> QED
  BY <1>4, <1>6, <1>7 DEF CalmInv

LEMMA DownloadDateCalm == ASSUME EngineInv, DownloadDate PROVE CalmInv'
<1>1. /\ down.pc = "date" /\ down \in DownFrame /\ lastSync' = disk[down.path]
      /\ down'.pc = "ignore" /\ down'.path = down.path /\ down'.data = disk[down.path]
      /\ UNCHANGED <<disk, pending, watched, current, lastSeen, ignored, up, inbox, mine, latest, taken, due, synced, hasty>>
  BY DEF DownloadDate, EngineInv, SendInv, TypeOK, DownFrame, config, files, socket, server, history
<1>2. PlacesOK' /\ (Calm' => Calm)
  BY <1>1 DEF EngineInv, CalmInv, PlacesOK, Calm, NoEcho
<1>3. ASSUME Calm PROVE OneDownload' /\ lastSync' = latest
  BY <1>1, <1>3 DEF EngineInv, CalmInv, OneDownload
<1>4. ASSUME Calm PROVE OneAtHand'
  <2>1. OneAtHand
    BY <1>4 DEF EngineInv, CalmInv
  <2>2. ASSUME NEW p \in Paths, Unseen(p)'
        PROVE  InHand(p, disk[p])' /\ (p[2] = "sync" => down'.path = p)
    BY <1>1, <2>1, <2>2 DEF OneAtHand, Unseen, InHand
  <2>3. ASSUME up.pc # "idle"
        PROVE  /\ InHand(up.path, up.date)' /\ (up.path[2] = "own" => disk[up.path] = up.date)
               /\ up.path[2] = "own" /\ up.pc = "send" => up.content = up.date
               /\ up.path[2] = "sync" => latest = up.date
               /\ up.path[2] = "sync" /\ up.pc = "send" => up.content \in Theirs
    BY <1>1, <2>1, <2>3 DEF OneAtHand, InHand
  <2> QED
    BY <1>1, <1>3, <1>4, <2>2, <2>3 DEF OneAtHand
<1> QED
  BY <1>2, <1>3, <1>4 DEF CalmInv

LEMMA DownloadIgnoreCalm == ASSUME EngineInv, DownloadIgnore PROVE CalmInv'
<1>1. /\ down.pc = "ignore" /\ down' = DownIdle /\ down'.pc = "idle"
      /\ ignored' = (IF current THEN ignored \cup {down.data} ELSE ignored)
      /\ synced' = synced \cup {down.data}
      /\ UNCHANGED <<disk, pending, watched, current, lastSeen, lastSync, up, inbox, mine, latest, taken, due, hasty>>
  BY DEF DownloadIgnore, DownIdle, config, files, socket, server
<1>2. PlacesOK' /\ (Calm' => Calm)
  BY <1>1 DEF EngineInv, CalmInv, PlacesOK, Calm, NoEcho
<1>3. ASSUME Calm
      PROVE  /\ OneDownload /\ OneAtHand /\ down.data = latest /\ lastSync = latest /\ disk[down.path] = latest
             /\ latest \in Theirs /\ mine /\ inbox = 0
  <2>1. OneDownload /\ OneAtHand /\ SendInv /\ CalmInv
    BY <1>3 DEF EngineInv, CalmInv
  <2>2. down.data = latest /\ lastSync = latest /\ disk[down.path] = latest /\ mine /\ inbox = 0
    BY <1>1, <2>1 DEF OneDownload
  <2>3. latest \in Theirs
    BY <1>1, <2>1, <2>2 DEF CalmInv, PlacesOK, SendInv, DownloadOK
  <2> QED
    BY <2>1, <2>2, <2>3
<1>4. ASSUME Calm PROVE OneDownload'
  BY <1>1, <1>3, <1>4 DEF OneDownload
<1>5. ASSUME Calm PROVE OneAtHand'
  <2>1. ASSUME NEW p \in Paths, Unseen(p)' PROVE InHand(p, disk[p])' /\ p[2] = "own"
    <3>1. Unseen(p) /\ current
      <4>1. Unseen(p)
        BY <1>1, <2>1 DEF Unseen
      <4>2. watched # None
        BY <4>1, PathForms, NoneApart DEF Unseen, EngineInv, SendInv, TypeOK
      <4> QED
        BY <1>5, <4>1, <4>2 DEF Calm
    <3>2. disk[p] # latest
      BY <1>1, <1>3, <1>5, <2>1, <3>1 DEF Unseen
    <3>3. p[2] = "own" /\ InHand(p, disk[p])
      BY <1>3, <1>5, <3>1, <3>2, PathForms DEF OneAtHand
    <3> QED
      BY <1>1, <3>3 DEF InHand
  <2>2. InHand(up.path, up.date) => InHand(up.path, up.date)'
    BY <1>1 DEF InHand
  <2>3. ASSUME up.pc # "idle", up.path[2] = "sync" PROVE lastSync = up.date
    BY <1>3, <1>5, <2>3 DEF OneAtHand, InHand
  <2> QED
    BY <1>1, <1>3, <1>5, <2>1, <2>2, <2>3 DEF OneAtHand
<1> QED
  BY <1>2, <1>4, <1>5 DEF CalmInv

LEMMA InitCalm == ASSUME Init PROVE CalmInv
<1>1. /\ PlacesOK /\ OneDownload
  BY PathForms DEF Init, PlacesOK, OneDownload, UpIdle, DownIdle
<1>2. OneAtHand
  BY DEF Init, OneAtHand, Unseen, UpIdle
<1> QED
  BY <1>1, <1>2 DEF CalmInv

\* A step that takes no file leaves what is said of those taken.
LEMMA LabelsStep == ASSUME EngineInv, [Next]_vars PROVE LabelsTrue'
<1>1. CASE UploadSend
  <2>1. /\ UNCHANGED <<watched, current, hasty>>
        /\ UNCHANGED taken \/ Take(TRUE) \/ Take(FALSE)
    BY <1>1 DEF UploadSend, config, server
  <2>2. CASE UNCHANGED taken
    BY <2>1, <2>2 DEF EngineInv, LabelsTrue, Calm, NoEcho
  <2>3. ASSUME NEW answered \in BOOLEAN, Take(answered), Calm',
               NEW i \in DOMAIN taken', taken'[i].path[2] = "own"
        PROVE  taken'[i].date = taken'[i].content
    <3> DEFINE new == [path |-> up.path, date |-> up.date, content |-> up.content, answered |-> answered]
               n == Len(taken) + 1
    <3>1. taken' = Append(taken, new)
      BY <2>3 DEF Take
    <3>2. /\ DOMAIN taken' = DOMAIN taken \cup {n} /\ taken'[n] = new
          /\ \A j \in DOMAIN taken : taken'[j] = taken[j]
      <4>1. taken \in Seq([path : Paths, date : Values, content : Values, answered : BOOLEAN])
        BY DEF EngineInv, SendInv, TypeOK
      <4> HIDE DEF new
      <4> QED
        BY <3>1, <4>1
    <3>3. Calm
      BY <2>1, <2>3, <3>2 DEF Calm, NoEcho
    <3>4. CASE i \in DOMAIN taken
      BY <2>3, <3>2, <3>3, <3>4 DEF EngineInv, LabelsTrue
    <3>5. CASE i = n
      <4>1. OneAtHand /\ up.pc = "send" /\ up.path[2] = "own"
        BY <1>1, <2>3, <3>2, <3>3, <3>5 DEF EngineInv, CalmInv, UploadSend
      <4> QED
        BY <3>2, <3>5, <4>1 DEF OneAtHand
    <3> QED
      BY <2>3, <3>2, <3>4, <3>5
  <2> QED
    BY <2>1, <2>2, <2>3 DEF LabelsTrue
<1>2. CASE UNCHANGED taken /\ (hasty => hasty') /\ (current' \/ watched' = None => current \/ watched = None)
  BY <1>2 DEF EngineInv, LabelsTrue, Calm, NoEcho
<1>3. CASE UNCHANGED vars
  BY <1>2, <1>3 DEF vars
<1>4. ASSUME NEW v \in Values, Save(v) \/ PlayOther(v) PROVE LabelsTrue'
  BY <1>2, <1>4 DEF Save, PlayOther, config, server
<1>5. CASE Watch \/ \E d \in Dirs : SetConfig(d)
  BY <1>2, <1>5 DEF Watch, SetConfig, server, history
<1>6. ASSUME NEW p \in Paths, EventAgain(p) \/ HandleEvent(p) PROVE LabelsTrue'
  BY <1>2, <1>6 DEF EventAgain, HandleEvent, config, server, history
<1>7. CASE Fetch \/ Check \/ UploadRead \/ Connect \/ Drop
  BY <1>2, <1>7 DEF Fetch, Check, UploadRead, Connect, Drop, config, server, history
<1>8. CASE Downloading
  BY <1>2, <1>8 DEF Downloading, HandleTurn, Download, DownloadWrite, DownloadDate, DownloadIgnore,
                    config, server, history
<1> QED
  BY <1>1, <1>3, <1>4, <1>5, <1>6, <1>7, <1>8 DEF Next, Uploading

-----------------------------------------------------------------------------
\* EngineInv is inductive: every step of the player, of the others, of either goroutine and
\* of the network keeps it.
THEOREM EngineInvariance == Spec => []EngineInv
<1>1. EngineInv /\ [Next]_vars => EngineInv'
  <2> SUFFICES ASSUME EngineInv, [Next]_vars PROVE CalmInv'
    BY SendStep, LabelsStep DEF EngineInv
  <2>1. CASE UNCHANGED vars
    BY <2>1 DEF vars, EngineInv, CalmInv, PlacesOK, Calm, NoEcho, OneDownload, OneAtHand, Unseen, InHand
  <2>2. ASSUME NEW v \in Values, Save(v) \/ PlayOther(v) PROVE CalmInv'
    BY <2>2, SaveCalm, PlayOtherCalm
  <2>3. CASE Watch \/ \E d \in Dirs : SetConfig(d)
    BY <2>3, ConfigCalm
  <2>4. ASSUME NEW p \in Paths, EventAgain(p) \/ HandleEvent(p) PROVE CalmInv'
    BY <2>4, EventAgainCalm, HandleEventCalm
  <2>5. CASE Uploading
    BY <2>5, UploadingCalm, UploadSendCalm DEF Uploading
  <2>6. CASE Connect \/ Drop \/ Downloading
    BY <2>6, SocketCalm, DownloadWriteCalm, DownloadDateCalm, DownloadIgnoreCalm DEF Downloading
  <2> QED
    BY <2>1, <2>2, <2>3, <2>4, <2>5, <2>6 DEF Next
<1>2. Init => EngineInv
  <2>1. Init => LabelsTrue
    BY DEF Init, LabelsTrue
  <2> QED
    BY <2>1, InitInv, InitCalm DEF EngineInv
<1> QED
  BY <1>1, <1>2, PTL DEF Spec

\* The frames of both goroutines keep their types; nothing is sent or noted that no file
\* and no answer of the server held.
THEOREM TypeCorrect == Spec => []TypeOK
  BY EngineInvariance, PTL DEF EngineInv, SendInv

\* What an answered upload has taken from the player's own file is taken neither under its
\* value nor, if that was its own, at all from there, for any number of saves, turns, retries
\* and reconfigurations (engine.go, upload).
THEOREM AnsweredOnce == Spec => []TakenOnce
  BY EngineInvariance, PTL DEF EngineInv, SendInv

\* While the player plays in time and nothing has gone wrong, a save goes up under its own
\* value, however long its attempts take (engine.go, uploadOnce, which reads it anew).
THEOREM LabelsAreTrue == Spec => []LabelsTrue
  BY EngineInvariance, PTL DEF EngineInv

\* onVlogChange begins an upload in Check only: what it has in hand is the save of this turn,
\* or the file of the player before, which lastSync names once its download is over.
LEMMA NoEchoStep ==
  ASSUME EngineInv, [Next]_vars, Calm, up.pc = "check", up'.pc = "read"
  PROVE  up.date \notin synced
<1>1. Check
  <2>1. up' # up /\ up # UpIdle
    BY DEF UpIdle
  <2>2. CASE Uploading
    BY <2>2 DEF Uploading, Fetch, UploadRead, UploadSend
  <2>3. CASE Downloading \/ Connect \/ Drop \/ Watch \/ \E d \in Dirs : SetConfig(d)
    BY <2>1, <2>3 DEF Downloading, HandleTurn, Download, DownloadWrite, DownloadDate, DownloadIgnore,
                      Connect, Drop, Watch, SetConfig
  <2>4. CASE (\E v \in Values : Save(v) \/ PlayOther(v)) \/ \E p \in Paths : EventAgain(p) \/ HandleEvent(p)
    BY <2>1, <2>4 DEF Save, PlayOther, EventAgain, HandleEvent
  <2> QED
    BY <2>1, <2>2, <2>3, <2>4 DEF Next, vars
<1>2. up.date # lastSync
  BY <1>1 DEF Check, UpIdle
<1>3. up.path \in Paths /\ OneAtHand /\ OneDownload /\ CalmInv /\ up.date \in Values
  BY NoneApart DEF EngineInv, CalmInv, SendInv, UploadOK, TypeOK
<1>4. CASE up.path[2] = "sync"
  BY <1>2, <1>3, <1>4 DEF OneAtHand
<1>5. CASE up.path[2] = "own"
  BY <1>3, <1>5, Contents, SyncEngineAssumption, NoneApart DEF OneAtHand, OneDownload
<1> QED
  BY <1>3, <1>4, <1>5, PathForms

\* While the player plays in time, the configuration stays and nothing has gone wrong
\* before, no upload is begun of a file whose download is over, whenever the watcher has
\* found it (watcher.handleEvent; syncengine.onVlogChange, downloadOnce).
THEOREM NoEchoOnceNoted == Spec => NoLateEcho
<1>1. EngineInv /\ [Next]_vars => [Calm /\ up.pc = "check" /\ up'.pc = "read" => up.date \notin synced]_vars
  BY NoEchoStep
<1> QED
  BY <1>1, EngineInvariance, PTL DEF Spec, NoLateEcho
=============================================================================
