------------------------ MODULE WrapLifecycleProofs ------------------------
(***************************************************************************)
(* Proofs about WrapLifecycle, for every set of sessions, processes,       *)
(* sockets and modes.                                                      *)
(***************************************************************************)
EXTENDS WrapLifecycle, TLAPS

\* A rebroadcast keeps every cell well formed.
LEMMA RebroadcastType ==
    ASSUME TypeOK, NEW us, Rebroadcast(us),
           row' \in [Uuid -> RowState],
           wrapMode' \in [Uuid -> Mode \cup {None}]
    PROVE  view' \in [Uuid -> Cell]
  <1>1. \A u \in Uuid : Shown(u)' \in Cell
    BY DEF Shown, Cell, RowState
  <1>2. QED
    BY <1>1 DEF Rebroadcast, TypeOK

\* bindPid keeps the registry well formed.
LEMMA BindPidType ==
    ASSUME TypeOK, NEW u \in Uuid, NEW pid \in Proc, BindPid(u, pid)
    PROVE  /\ recChild' \in [Uuid -> Proc \cup {None}]
           /\ recPid' \in [Uuid -> Proc \cup {None}]
           /\ pendingFresh' \in Seq(Proc)
  BY DEF TypeOK, BindPid, BoundPid, Promotes

\* recordSpawn keeps the registry well formed.
LEMMA RecordSpawnType ==
    ASSUME TypeOK, NEW p \in Proc, NEW u \in Uuid \cup {None},
           RecordSpawn(p, u)
    PROVE  /\ recChild' \in [Uuid -> Proc \cup {None}]
           /\ recPid' \in [Uuid -> Proc \cup {None}]
           /\ pendingFresh' \in Seq(Proc)
  <1>1. Append(pendingFresh, p) \in Seq(Proc)
    BY DEF TypeOK
  <1>2. pendingFresh' \in Seq(Proc)
    BY <1>1 DEF RecordSpawn, TypeOK
  <1>3. recChild' \in [Uuid -> Proc \cup {None}]
    BY DEF RecordSpawn, TypeOK
  <1>4. recPid' \in [Uuid -> Proc \cup {None}]
    BY DEF RecordSpawn, TypeOK
  <1>5. QED
    BY <1>2, <1>3, <1>4

\* bind keeps everything it writes well formed.
LEMMA BindType ==
    ASSUME TypeOK, NEW s \in Sock, NEW u \in Uuid, NEW pid \in Proc,
           NEW m \in Mode \cup {None}, Bind(s, u, pid, m)
    PROVE  /\ registeredUuid' \in [Sock -> Uuid \cup {None}]
           /\ wrapConnections' \in [Uuid -> Sock \cup {None}]
           /\ wrapMode' \in [Uuid -> Mode \cup {None}]
           /\ staleTimer' \subseteq Uuid
           /\ recChild' \in [Uuid -> Proc \cup {None}]
           /\ recPid' \in [Uuid -> Proc \cup {None}]
           /\ pendingFresh' \in Seq(Proc)
           /\ row' \in [Uuid -> RowState]
           /\ view' \in [Uuid -> Cell]
  <1>1. /\ recChild' \in [Uuid -> Proc \cup {None}]
        /\ recPid' \in [Uuid -> Proc \cup {None}]
        /\ pendingFresh' \in Seq(Proc)
    BY BindPidType DEF Bind
  <1>2. /\ registeredUuid' \in [Sock -> Uuid \cup {None}]
        /\ wrapConnections' \in [Uuid -> Sock \cup {None}]
        /\ wrapMode' \in [Uuid -> Mode \cup {None}]
        /\ staleTimer' \subseteq Uuid
        /\ row' \in [Uuid -> RowState]
    BY DEF Bind, TypeOK, BoundTimers, RowState
  <1>3. view' \in [Uuid -> Cell]
    BY <1>2, RebroadcastType DEF Bind
  <1>4. QED
    BY <1>1, <1>2, <1>3

\* The type invariant: every variable stays in its declared set.
THEOREM TypeCorrect == Spec => []TypeOK
  <1>1. Init => TypeOK
    BY DEF Init, TypeOK, ProcState, SockState, RowState, Check, Cell, NoCell
  <1>2. TypeOK /\ [Next]_vars => TypeOK'
    <2> SUFFICES ASSUME TypeOK, [Next]_vars
                 PROVE  TypeOK'
      OBVIOUS
    <2> USE DEF ProcState, SockState
    <2>1. ASSUME NEW p \in Proc, NEW u \in Uuid \cup {None}, StartRequest(p, u)
          PROVE  TypeOK'
      BY <2>1 DEF StartRequest, TypeOK, sockVars, connVars, recVars
    <2>2. ASSUME NEW p \in Proc, NEW u \in Uuid \cup {None}, UserLaunch(p, u)
          PROVE  TypeOK'
      BY <2>2 DEF UserLaunch, TypeOK, sockVars, connVars, recVars
    <2>3. ASSUME NEW p \in Proc, StartFail(p)
          PROVE  TypeOK'
      BY <2>3 DEF StartFail, TypeOK, sockVars, connVars, recVars
    <2>4. ASSUME NEW p \in Proc, Spawn(p)
          PROVE  TypeOK'
      <3>1. resumeUuid[p] \in Uuid \cup {None}
        BY DEF TypeOK
      <3>2. /\ recChild' \in [Uuid -> Proc \cup {None}]
            /\ recPid' \in [Uuid -> Proc \cup {None}]
            /\ pendingFresh' \in Seq(Proc)
        <4>1. RecordSpawn(p, resumeUuid[p])
          BY <2>4 DEF Spawn
        <4>2. QED
          BY <3>1, <4>1, RecordSpawnType
      <3>3. QED
        BY <2>4, <3>2 DEF Spawn, TypeOK, sockVars, connVars
    <2>5. ASSUME NEW p \in Proc, NEW s \in Sock, Connect(p, s)
          PROVE  TypeOK'
      <3>1. CASE resumeUuid[p] = None
        BY <2>5, <3>1 DEF Connect, TypeOK, procVars, connVars, recVars
      <3>2. CASE resumeUuid[p] # None
        <4>1. Bind(s, resumeUuid[p], p, mode[p])
          BY <2>5, <3>2 DEF Connect
        <4>2. resumeUuid[p] \in Uuid /\ mode[p] \in Mode
          BY <3>2 DEF TypeOK
        <4>3. QED
          BY <2>5, <4>1, <4>2, BindType DEF Connect, TypeOK, procVars
      <3>3. QED
        BY <3>1, <3>2
    <2>6. ASSUME NEW p \in Proc, NEW s \in Sock, NEW u \in Uuid,
                 SdkInit(p, s, u)
          PROVE  TypeOK'
      <3>1. Bind(s, u, p, registeredMode[s])
        BY <2>6 DEF SdkInit
      <3>2. registeredMode[s] \in Mode \cup {None}
        BY DEF TypeOK
      <3>3. QED
        BY <2>6, <3>1, <3>2, BindType DEF SdkInit, TypeOK
    <2>7. ASSUME NEW p \in Proc, Turn(p)
          PROVE  TypeOK'
      <3>1. row' \in [Uuid -> RowState]
        BY <2>7 DEF Turn, TypeOK, RowState
      <3>2. view' \in [Uuid -> Cell]
        BY <2>7, <3>1, RebroadcastType DEF Turn, TypeOK, connVars
      <3>3. QED
        BY <2>7, <3>1, <3>2 DEF Turn, TypeOK, sockVars, connVars, recVars
    <2>8. ASSUME NEW p \in Proc, NEW m \in Mode, ModeChanged(p, m)
          PROVE  TypeOK'
      <3>1. wrapMode' \in [Uuid -> Mode \cup {None}]
        BY <2>8 DEF ModeChanged, TypeOK
      <3>2. view' \in [Uuid -> Cell]
        BY <2>8, <3>1, RebroadcastType DEF ModeChanged, TypeOK
      <3>3. QED
        BY <2>8, <3>1, <3>2 DEF ModeChanged, TypeOK, sockVars, recVars
    <2>9. ASSUME NEW p \in Proc, EndOfInput(p)
          PROVE  TypeOK'
      BY <2>9 DEF EndOfInput, Hangup, TypeOK, connVars, recVars
    <2>10. ASSUME NEW p \in Proc, Exit(p)
           PROVE  TypeOK'
      BY <2>10 DEF Exit, Hangup, TypeOK, connVars, recVars
    <2>11. ASSUME NEW p \in Proc, KillLands(p)
           PROVE  TypeOK'
      BY <2>11 DEF KillLands, Hangup, TypeOK, connVars, recVars
    <2>12. ASSUME NEW s \in Sock, Drop(s)
           PROVE  TypeOK'
      BY <2>12 DEF Drop, TypeOK, procVars, connVars, recVars
    <2>13. ASSUME NEW s \in Sock, Close(s)
           PROVE  TypeOK'
      <3>1. CASE Current(s, registeredUuid[s])
        <4> DEFINE u == registeredUuid[s]
        <4>1. u \in Uuid /\ Disconnect(s, u)
          BY <2>13, <3>1 DEF Close, Current, TypeOK
        <4>2. /\ recChild' \in [Uuid -> Proc \cup {None}]
              /\ recPid' \in [Uuid -> Proc \cup {None}]
              /\ pendingFresh' \in Seq(Proc)
          BY <4>1 DEF Disconnect, TakeOnClose, TypeOK
        <4>3. killing' \subseteq Proc
          BY <4>1 DEF Disconnect, TreeKill, TypeOK
        <4>4. evicting' \subseteq Check
          <5>1. recChild[u] # None =>
                   [uuid |-> u, child |-> recChild[u], empty |-> FALSE] \in Check
            BY <4>1 DEF Check, TypeOK
          <5>2. evicting \subseteq Check
            BY DEF TypeOK
          <5>3. QED
            BY <4>1, <5>1, <5>2 DEF Disconnect
        <4>5. /\ wrapConnections' \in [Uuid -> Sock \cup {None}]
              /\ wrapMode' \in [Uuid -> Mode \cup {None}]
              /\ staleTimer' \subseteq Uuid
              /\ row' \in [Uuid -> RowState]
          BY <4>1 DEF Disconnect, Unmapped, ArmTimer, TypeOK
        <4>6. view' \in [Uuid -> Cell]
          BY <4>1, <4>5, RebroadcastType DEF Disconnect
        <4>7. /\ sock' \in [Sock -> SockState]
              /\ owner' \in [Sock -> Proc \cup {None}]
              /\ registeredUuid' \in [Sock -> Uuid \cup {None}]
              /\ registeredMode' \in [Sock -> Mode \cup {None}]
          BY <2>13 DEF Close, TypeOK
        <4>8. UNCHANGED <<procVars, spawned>>
          BY <2>13 DEF Close
        <4>9. QED
          BY <4>2, <4>3, <4>4, <4>5, <4>6, <4>7, <4>8 DEF TypeOK, procVars
      <3>2. CASE ~Current(s, registeredUuid[s])
        BY <2>13, <3>2 DEF Close, TypeOK, procVars, connVars, recVars
      <3>3. QED
        BY <3>1, <3>2
    <2>14. ASSUME NEW u \in Uuid, Hook(u)
           PROVE  TypeOK'
      <3>1. row' \in [Uuid -> RowState]
        BY <2>14 DEF Hook, TypeOK, RowState
      <3>2. view' \in [Uuid -> Cell]
        BY <2>14, <3>1, RebroadcastType DEF Hook, TypeOK
      <3>3. QED
        BY <2>14, <3>1, <3>2 DEF Hook, TypeOK, sockVars, recVars
    <2>15. ASSUME NEW u \in Uuid, StaleFires(u)
           PROVE  TypeOK'
      <3>1. row' \in [Uuid -> RowState]
        BY <2>15 DEF StaleFires, TypeOK, RowState
      <3>2. view' \in [Uuid -> Cell]
        BY <2>15, <3>1, RebroadcastType DEF StaleFires, TypeOK
      <3>3. QED
        BY <2>15, <3>1, <3>2
           DEF StaleFires, TypeOK, procVars, sockVars, recVars
    <2>16. ASSUME NEW u \in Uuid, Stop(u)
           PROVE  TypeOK'
      BY <2>16 DEF Stop, TakeOnClose, TreeKill, TypeOK, procVars, sockVars,
                   connVars
    <2>17. ASSUME NEW c \in evicting, EvictRead(c)
           PROVE  TypeOK'
      <3>1. c \in Check /\ [c EXCEPT !.empty = TRUE] \in Check
        BY DEF Check, TypeOK
      <3>2. QED
        BY <2>17, <3>1 DEF EvictRead, TypeOK, procVars, sockVars, connVars,
                           recVars
    <2>18. ASSUME NEW c \in evicting, EvictFinish(c)
           PROVE  TypeOK'
      <3>1. NoCell \in Cell
        BY DEF NoCell, Cell, RowState
      <3>2. QED
        BY <2>18, <3>1 DEF EvictFinish, TypeOK, RowState, procVars, sockVars,
                           recVars
    <2>19. ASSUME Restart
           PROVE  TypeOK'
      <3>1. /\ row' \in [Uuid -> RowState]
            /\ wrapMode' \in [Uuid -> Mode \cup {None}]
        BY <2>19 DEF Restart, TypeOK, RowState
      <3>2. view' \in [Uuid -> Cell]
        <4>1. \A u \in Uuid : Shown(u)' \in Cell
          BY <3>1 DEF Shown, Cell, RowState
        <4>2. NoCell \in Cell
          BY DEF NoCell, Cell, RowState
        <4>3. QED
          BY <2>19, <4>1, <4>2 DEF Restart
      <3>3. QED
        BY <2>19, <3>1, <3>2 DEF Restart, TypeOK
    <2>20. CASE UNCHANGED vars
      BY <2>20 DEF TypeOK, vars, procVars, sockVars, connVars, recVars
    <2>21. QED
      BY <2>1, <2>2, <2>3, <2>4, <2>5, <2>6, <2>7, <2>8, <2>9, <2>10, <2>11,
         <2>12, <2>13, <2>14, <2>15, <2>16, <2>17, <2>18, <2>19, <2>20
      DEF Next
  <1>3. QED
    BY <1>1, <1>2, PTL DEF Spec

----------------------------------------------------------------------------
(* The safety invariants.                                                  *)

\* Why a push reaches its session: an open socket has a live process behind
\* it, is registered under the uuid that process speaks for, and is its
\* process's only open socket.
OpenSocketSpeaks ==
    \A s \in Sock : sock[s] = "open" =>
        /\ owner[s] \in Proc /\ Alive(owner[s])
        /\ registeredUuid[s] = resumeUuid[owner[s]]
        /\ \A t \in Sock : sock[t] = "open" /\ owner[t] = owner[s] => t = s

\* An empty registry slot carries no pid.
RecordShape == \A u \in Uuid : recChild[u] = None => recPid[u] = None

\* A free socket carries no registration into its next life.
FreeSocketBlank ==
    \A s \in Sock : sock[s] = "free" => registeredUuid[s] = None

IInv ==
    /\ OneSessionPerSocket
    /\ FreeSocketBlank
    /\ RecordShape
    /\ OpenSocketSpeaks
    /\ TimerOnlyWhenGone
    /\ RecordedPidIsOwner
    /\ DashboardInSync

\* A rebroadcast of every uuid whose row, connection or mode changed keeps
\* the dashboards in step.
LEMMA RebroadcastSync ==
    ASSUME TypeOK, TypeOK', DashboardInSync, NEW us, Rebroadcast(us),
           \A u \in Uuid \ us : /\ row'[u] = row[u]
                                /\ wrapMode'[u] = wrapMode[u]
                                /\ (wrapConnections'[u] = None)
                                     <=> (wrapConnections[u] = None),
           \A u \in us \cap Uuid : row'[u] = "absent" => row[u] = "absent"
    PROVE  DashboardInSync'
  <1> SUFFICES ASSUME NEW u \in Uuid
               PROVE  view'[u] = IF row'[u] = "absent" THEN NoCell
                                 ELSE Shown(u)'
    BY DEF DashboardInSync, NoCell
  <1>1. CASE u \in us /\ row'[u] # "absent"
    BY <1>1 DEF Rebroadcast
  <1>2. CASE u \in us /\ row'[u] = "absent"
    BY <1>2 DEF Rebroadcast, DashboardInSync
  <1>3. CASE u \notin us
    <2>1. view'[u] = view[u]
      BY <1>3 DEF Rebroadcast
    <2>2. Shown(u)' = Shown(u)
      BY <1>3 DEF Shown
    <2>3. QED
      BY <1>3, <2>1, <2>2 DEF DashboardInSync
  <1>4. QED
    BY <1>1, <1>2, <1>3

\* A step that leaves rows, maps and cells alone keeps them in step.
LEMMA SyncUnchanged ==
    ASSUME DashboardInSync, UNCHANGED <<row, view, wrapConnections, wrapMode>>
    PROVE  DashboardInSync'
  BY DEF DashboardInSync, Shown, NoCell

\* bind keeps the invariants about the maps.  The socket either already
\* belongs to p or was free.
LEMMA BindKeeps ==
    ASSUME TypeOK, TypeOK', OneSessionPerSocket, FreeSocketBlank,
           RecordShape, TimerOnlyWhenGone, RecordedPidIsOwner, DashboardInSync,
           NEW s \in Sock, NEW u \in Uuid, NEW p \in Proc,
           NEW m \in Mode \cup {None}, Bind(s, u, p, m),
           sock'[s] = "open", owner'[s] = p,
           \A t \in Sock \ {s} : sock'[t] = sock[t] /\ owner'[t] = owner[t]
    PROVE  /\ OneSessionPerSocket'
           /\ FreeSocketBlank'
           /\ RecordShape'
           /\ TimerOnlyWhenGone'
           /\ RecordedPidIsOwner'
           /\ DashboardInSync'
  <1>0. s # None /\ p # None /\ None \notin Proc
    BY NoneAssumption
  <1>1. \A v \in Uuid \ {u} : wrapConnections'[v] # None =>
            /\ wrapConnections'[v] = wrapConnections[v]
            /\ wrapConnections[v] \in Sock \ {s}
    <2> SUFFICES ASSUME NEW v \in Uuid \ {u}, wrapConnections'[v] # None
                 PROVE  /\ wrapConnections'[v] = wrapConnections[v]
                        /\ wrapConnections[v] \in Sock \ {s}
      OBVIOUS
    <2>1. v \notin Detached(s, u) /\ wrapConnections'[v] = wrapConnections[v]
      BY DEF Bind, TypeOK
    <2>2. wrapConnections[v] # s
      BY <1>0, <2>1 DEF Detached, OneSessionPerSocket
    <2>3. QED
      BY <2>1, <2>2 DEF TypeOK
  <1>2. /\ wrapConnections'[u] = s
        /\ registeredUuid' = [registeredUuid EXCEPT ![s] = u]
        /\ staleTimer' = staleTimer \ {u}
        /\ BindPid(u, p)
    BY DEF Bind, BoundTimers
  <1>3. OneSessionPerSocket'
    <2> SUFFICES ASSUME NEW v \in Uuid, wrapConnections'[v] # None
                 PROVE  /\ sock'[wrapConnections'[v]] # "free"
                        /\ registeredUuid'[wrapConnections'[v]] = v
      BY DEF OneSessionPerSocket
    <2>1. CASE v = u
      BY <1>2, <2>1 DEF TypeOK
    <2>2. CASE v # u
      BY <1>1, <1>2, <2>2 DEF TypeOK, OneSessionPerSocket
    <2>3. QED
      BY <2>1, <2>2
  <1>4. TimerOnlyWhenGone'
    BY <1>1, <1>2 DEF TimerOnlyWhenGone, TypeOK
  <1>5. RecordShape' /\ \A v \in Uuid \ {u} : recPid'[v] = recPid[v]
    BY <1>0, <1>2 DEF BindPid, BoundPid, Promotes, RecordShape, TypeOK
  <1>6. recPid'[u] \in {p, None}
    BY <1>2 DEF BindPid, BoundPid, Promotes, RecordShape, TypeOK
  <1>7. RecordedPidIsOwner'
    <2> SUFFICES ASSUME NEW v \in Uuid, wrapConnections'[v] # None,
                        recPid'[v] # None
                 PROVE  recPid'[v] = owner'[wrapConnections'[v]]
      BY DEF RecordedPidIsOwner
    <2>1. CASE v = u
      BY <1>2, <1>6, <2>1
    <2>2. CASE v # u
      BY <1>1, <1>5, <2>2 DEF RecordedPidIsOwner
    <2>3. QED
      BY <2>1, <2>2
  <1>8. DashboardInSync'
    <2> DEFINE us == Detached(s, u) \cup {u}
    <2>1. Rebroadcast(us)
      BY DEF Bind, Told
    <2>2. \A v \in Uuid \ us : /\ row'[v] = row[v]
                               /\ wrapMode'[v] = wrapMode[v]
                               /\ wrapConnections'[v] = wrapConnections[v]
      BY DEF Bind, TypeOK
    <2>3. \A v \in us \cap Uuid : row'[v] = "absent" => row[v] = "absent"
      BY DEF Bind, TypeOK
    <2> HIDE DEF us
    <2>4. QED
      BY <2>1, <2>2, <2>3, RebroadcastSync
  <1>9. FreeSocketBlank'
    BY <1>2 DEF FreeSocketBlank, TypeOK
  <1>10. QED
    BY <1>3, <1>4, <1>5, <1>7, <1>8, <1>9

\* bind records the uuid on the socket.
LEMMA BindRegisters ==
    ASSUME NEW s, NEW u, NEW p, NEW m, Bind(s, u, p, m)
    PROVE  registeredUuid' = [registeredUuid EXCEPT ![s] = u]
  BY DEF Bind

\* A step that touches neither maps nor registry nor rows, and frees no
\* socket, keeps everything but OpenSocketSpeaks.
LEMMA QuietKeeps ==
    ASSUME TypeOK, OneSessionPerSocket, FreeSocketBlank, RecordShape,
           TimerOnlyWhenGone, RecordedPidIsOwner, DashboardInSync,
           UNCHANGED <<connVars, recVars, row, view, owner, registeredUuid>>,
           \A s \in Sock : sock'[s] = "free" => sock[s] = "free"
    PROVE  /\ OneSessionPerSocket'
           /\ FreeSocketBlank'
           /\ RecordShape'
           /\ TimerOnlyWhenGone'
           /\ RecordedPidIsOwner'
           /\ DashboardInSync'
  <1>1. OneSessionPerSocket' /\ FreeSocketBlank'
    BY DEF OneSessionPerSocket, FreeSocketBlank, connVars, TypeOK
  <1>2. RecordShape' /\ TimerOnlyWhenGone' /\ RecordedPidIsOwner'
    BY DEF RecordShape, TimerOnlyWhenGone, RecordedPidIsOwner, connVars,
           recVars
  <1>3. DashboardInSync'
    BY SyncUnchanged DEF connVars
  <1>4. QED
    BY <1>1, <1>2, <1>3

\* Closing client ends, whatever else happens to the process, keeps
\* OpenSocketSpeaks for the sockets that stay open.
LEMMA HangupSpeaks ==
    ASSUME TypeOK, OpenSocketSpeaks, NEW p \in Proc, Hangup(p),
           \A q \in Proc \ {p} : proc'[q] = proc[q],
           UNCHANGED <<owner, registeredUuid, resumeUuid>>
    PROVE  /\ OpenSocketSpeaks'
           /\ \A s \in Sock : sock'[s] = "free" => sock[s] = "free"
  <1>1. \A s \in Sock : sock'[s] = "open" => sock[s] = "open" /\ owner[s] # p
    BY DEF Hangup, OpenSock, TypeOK
  <1>2. OpenSocketSpeaks'
    BY <1>1 DEF OpenSocketSpeaks, Alive, TypeOK
  <1>3. \A s \in Sock : sock'[s] = "free" => sock[s] = "free"
    BY DEF Hangup, TypeOK
  <1>4. QED
    BY <1>2, <1>3

LEMMA InvInit == Init => IInv
  BY DEF Init, IInv, OneSessionPerSocket, FreeSocketBlank, RecordShape,
         OpenSocketSpeaks, TimerOnlyWhenGone, RecordedPidIsOwner,
         DashboardInSync, NoCell

LEMMA InvStep == TypeOK /\ TypeOK' /\ IInv /\ [Next]_vars => IInv'
  <1> SUFFICES ASSUME TypeOK, TypeOK', IInv, [Next]_vars
               PROVE  IInv'
    OBVIOUS
  <1> USE DEF IInv
  <1>0. None \notin Proc /\ None \notin Sock /\ None \notin Uuid
    BY NoneAssumption
  <1>1. ASSUME NEW p \in Proc, NEW u \in Uuid \cup {None},
               StartRequest(p, u) \/ UserLaunch(p, u)
        PROVE  IInv'
    <2>1. OpenSocketSpeaks'
      <3>1. \A s \in Sock : sock[s] = "open" => owner[s] # p
        BY <1>1 DEF StartRequest, UserLaunch, OpenSocketSpeaks, Alive
      <3>2. \A q \in Proc \ {p} : /\ proc'[q] = proc[q]
                                  /\ resumeUuid'[q] = resumeUuid[q]
        BY <1>1 DEF StartRequest, UserLaunch, TypeOK
      <3>3. UNCHANGED sockVars
        BY <1>1 DEF StartRequest, UserLaunch
      <3>4. QED
        BY <3>1, <3>2, <3>3 DEF OpenSocketSpeaks, Alive, sockVars
    <2>2. QED
      BY <1>1, <2>1, QuietKeeps DEF StartRequest, UserLaunch, sockVars
  <1>2. ASSUME NEW p \in Proc, StartFail(p)
        PROVE  IInv'
    <2>1. OpenSocketSpeaks'
      BY <1>2 DEF StartFail, OpenSocketSpeaks, Alive, TypeOK, sockVars
    <2>2. QED
      BY <1>2, <2>1, QuietKeeps DEF StartFail, sockVars
  <1>3. ASSUME NEW p \in Proc, Spawn(p)
        PROVE  IInv'
    <2>1. OpenSocketSpeaks'
      BY <1>3 DEF Spawn, OpenSocketSpeaks, Alive, TypeOK, sockVars
    <2>2. RecordShape'
      BY <1>0, <1>3 DEF Spawn, RecordSpawn, RecordShape, TypeOK
    <2>3. \A u \in Uuid : recPid'[u] # None => recPid'[u] = recPid[u]
      BY <1>3 DEF Spawn, RecordSpawn, TypeOK
    <2>4. /\ OneSessionPerSocket' /\ FreeSocketBlank' /\ TimerOnlyWhenGone'
          /\ RecordedPidIsOwner'
      BY <1>3, <2>3 DEF Spawn, OneSessionPerSocket, FreeSocketBlank,
                        TimerOnlyWhenGone, RecordedPidIsOwner, sockVars,
                        connVars
    <2>5. DashboardInSync'
      BY <1>3, SyncUnchanged DEF Spawn, connVars
    <2>6. QED
      BY <2>1, <2>2, <2>4, <2>5
  <1>4. ASSUME NEW p \in Proc, NEW s \in Sock, Connect(p, s)
        PROVE  IInv'
    <2>1. /\ sock'[s] = "open" /\ owner'[s] = p
          /\ sock[s] = "free"
          /\ \A t \in Sock \ {s} : sock'[t] = sock[t] /\ owner'[t] = owner[t]
      BY <1>4 DEF Connect, TypeOK
    <2>2. /\ resumeUuid[p] # None =>
               registeredUuid' = [registeredUuid EXCEPT ![s] = resumeUuid[p]]
          /\ resumeUuid[p] = None => registeredUuid' = registeredUuid
      <3>1. CASE resumeUuid[p] = None
        BY <1>4, <3>1 DEF Connect
      <3>2. CASE resumeUuid[p] # None
        <4>1. Bind(s, resumeUuid[p], p, mode[p])
          BY <1>4, <3>2 DEF Connect
        <4>2. QED
          BY <3>2, <4>1, BindRegisters
      <3>3. QED
        BY <3>1, <3>2
    <2>3. OpenSocketSpeaks'
      <3>1. registeredUuid'[s] = resumeUuid[p]
        BY <2>1, <2>2, <1>4 DEF Connect, FreeSocketBlank, TypeOK
      <3>2. \A t \in Sock \ {s} : registeredUuid'[t] = registeredUuid[t]
        BY <2>2 DEF TypeOK
      <3>3. \A t \in Sock : sock[t] = "open" => owner[t] # p
        BY <1>4 DEF Connect, OpenSock
      <3>4. UNCHANGED <<proc, resumeUuid>> /\ Alive(p)
        BY <1>4 DEF Connect, procVars
      <3>5. QED
        BY <2>1, <3>1, <3>2, <3>3, <3>4 DEF OpenSocketSpeaks, Alive
    <2>4. CASE resumeUuid[p] = None
      <3>1. UNCHANGED <<registeredUuid, connVars, recVars, row, view>>
        BY <1>4, <2>4 DEF Connect
      <3>2. QED
        BY <2>1, <2>3, <3>1, SyncUnchanged
        DEF OneSessionPerSocket, FreeSocketBlank, RecordShape,
            TimerOnlyWhenGone, RecordedPidIsOwner, connVars, recVars, TypeOK
    <2>5. CASE resumeUuid[p] # None
      <3>1. resumeUuid[p] \in Uuid /\ mode[p] \in Mode \cup {None}
        BY <2>5 DEF TypeOK
      <3>2. Bind(s, resumeUuid[p], p, mode[p])
        BY <1>4, <2>5 DEF Connect
      <3>3. QED
        BY <2>1, <2>3, <3>1, <3>2, BindKeeps
    <2>6. QED
      BY <2>4, <2>5
  <1>5. ASSUME NEW p \in Proc, NEW s \in Sock, NEW u \in Uuid,
               SdkInit(p, s, u)
        PROVE  IInv'
    <2>1. /\ sock' = sock /\ owner' = owner
          /\ sock[s] = "open" /\ owner[s] = p
          /\ proc' = proc
          /\ resumeUuid' = [resumeUuid EXCEPT ![p] = u]
          /\ registeredUuid' = [registeredUuid EXCEPT ![s] = u]
          /\ Bind(s, u, p, registeredMode[s])
      BY <1>5 DEF SdkInit, OpenSock, Bind
    <2>2. OpenSocketSpeaks'
      BY <2>1 DEF OpenSocketSpeaks, Alive, TypeOK
    <2>3. registeredMode[s] \in Mode \cup {None}
      BY DEF TypeOK
    <2>4. QED
      BY <2>1, <2>2, <2>3, BindKeeps
  <1>6. ASSUME NEW p \in Proc, Turn(p)
        PROVE  IInv'
    <2>1. UNCHANGED <<proc, resumeUuid, sockVars, connVars, recVars>>
      BY <1>6 DEF Turn
    <2>2. /\ OneSessionPerSocket' /\ FreeSocketBlank' /\ RecordShape'
          /\ TimerOnlyWhenGone' /\ RecordedPidIsOwner' /\ OpenSocketSpeaks'
      BY <2>1 DEF OneSessionPerSocket, FreeSocketBlank, RecordShape,
                  TimerOnlyWhenGone, RecordedPidIsOwner, OpenSocketSpeaks,
                  Alive, sockVars, connVars, recVars
    <2>3. DashboardInSync'
      <3>1. CASE OpenSock(p) = {}
        BY <1>6, <2>1, <3>1, SyncUnchanged DEF Turn, connVars
      <3>2. CASE OpenSock(p) # {}
        <4>1. /\ resumeUuid[p] \in Uuid
              /\ Rebroadcast({resumeUuid[p]})
              /\ row' = [row EXCEPT ![resumeUuid[p]] = "live"]
          BY <1>6, <3>2 DEF Turn, TypeOK
        <4>2. QED
          BY <2>1, <4>1, RebroadcastSync DEF connVars, TypeOK
      <3>3. QED
        BY <3>1, <3>2
    <2>4. QED
      BY <2>2, <2>3
  <1>7. ASSUME NEW p \in Proc, NEW m \in Mode, ModeChanged(p, m)
        PROVE  IInv'
    <2>1. UNCHANGED <<proc, resumeUuid, sockVars, wrapConnections, staleTimer,
                      recVars, row>>
      BY <1>7 DEF ModeChanged
    <2>2. /\ OneSessionPerSocket' /\ FreeSocketBlank' /\ RecordShape'
          /\ TimerOnlyWhenGone' /\ RecordedPidIsOwner' /\ OpenSocketSpeaks'
      BY <2>1 DEF OneSessionPerSocket, FreeSocketBlank, RecordShape,
                  TimerOnlyWhenGone, RecordedPidIsOwner, OpenSocketSpeaks,
                  Alive, sockVars, recVars
    <2>3. DashboardInSync'
      <3>1. CASE UNCHANGED <<wrapMode, view>>
        BY <2>1, <3>1, SyncUnchanged
      <3>2. CASE /\ resumeUuid[p] \in Uuid
                 /\ Rebroadcast({resumeUuid[p]})
                 /\ wrapMode' = [wrapMode EXCEPT ![resumeUuid[p]] = m]
        BY <2>1, <3>2, RebroadcastSync DEF TypeOK
      <3>3. QED
        BY <1>7, <3>1, <3>2 DEF ModeChanged, ModeTold, TypeOK
    <2>4. QED
      BY <2>2, <2>3
  <1>8. ASSUME NEW u \in Uuid, Hook(u)
        PROVE  IInv'
    <2>1. UNCHANGED <<proc, resumeUuid, sockVars, wrapConnections, wrapMode,
                      staleTimer, recVars>>
      BY <1>8 DEF Hook
    <2>2. /\ OneSessionPerSocket' /\ FreeSocketBlank' /\ RecordShape'
          /\ TimerOnlyWhenGone' /\ RecordedPidIsOwner' /\ OpenSocketSpeaks'
      BY <2>1 DEF OneSessionPerSocket, FreeSocketBlank, RecordShape,
                  TimerOnlyWhenGone, RecordedPidIsOwner, OpenSocketSpeaks,
                  Alive, sockVars, recVars
    <2>3. DashboardInSync'
      BY <1>8, <2>1, RebroadcastSync DEF Hook, TypeOK
    <2>4. QED
      BY <2>2, <2>3
  <1>9. ASSUME NEW s \in Sock, Drop(s)
        PROVE  IInv'
    <2>1. OpenSocketSpeaks'
      BY <1>9 DEF Drop, OpenSocketSpeaks, Alive, TypeOK, procVars
    <2>2. \A t \in Sock : sock'[t] = "free" => sock[t] = "free"
      BY <1>9 DEF Drop, TypeOK
    <2>3. QED
      BY <1>9, <2>1, <2>2, QuietKeeps DEF Drop
  <1>10. ASSUME NEW p \in Proc, EndOfInput(p) \/ Exit(p) \/ KillLands(p)
         PROVE  IInv'
    <2>1. \A q \in Proc \ {p} : proc'[q] = proc[q]
      BY <1>10 DEF EndOfInput, Exit, KillLands, TypeOK
    <2>2. /\ OpenSocketSpeaks'
          /\ \A s \in Sock : sock'[s] = "free" => sock[s] = "free"
      BY <1>10, <2>1, HangupSpeaks DEF EndOfInput, Exit, KillLands
    <2>3. QED
      BY <1>10, <2>2, QuietKeeps DEF EndOfInput, Exit, KillLands
  <1>11. ASSUME NEW s \in Sock, Close(s)
         PROVE  IInv'
    <2>1. /\ sock[s] = "closing"
          /\ sock' = [sock EXCEPT ![s] = "free"]
          /\ owner' = [owner EXCEPT ![s] = None]
          /\ registeredUuid' = [registeredUuid EXCEPT ![s] = None]
          /\ UNCHANGED procVars
      BY <1>11 DEF Close
    <2>2. OpenSocketSpeaks' /\ FreeSocketBlank'
      BY <2>1 DEF OpenSocketSpeaks, FreeSocketBlank, Alive, TypeOK, procVars
    <2>3. CASE Current(s, registeredUuid[s])
      <3>1. /\ registeredUuid[s] \in Uuid
            /\ wrapConnections[registeredUuid[s]] = s
            /\ Disconnect(s, registeredUuid[s])
        BY <1>11, <2>3 DEF Close, Current, TypeOK
      <3>2. PICK u \in Uuid : u = registeredUuid[s]
        BY <3>1
      <3>3. /\ wrapConnections' = [wrapConnections EXCEPT ![u] = None]
            /\ wrapMode' = [wrapMode EXCEPT ![u] = None]
            /\ recChild' = [recChild EXCEPT ![u] = None]
            /\ recPid' = [recPid EXCEPT ![u] = None]
            /\ staleTimer' = staleTimer \cup {u}
            /\ row' = row
            /\ Rebroadcast({u})
        BY <3>1, <3>2 DEF Disconnect, Unmapped, TakeOnClose, ArmTimer
      <3>4. \A v \in Uuid : wrapConnections'[v] # None =>
                /\ v # u
                /\ wrapConnections'[v] = wrapConnections[v]
                /\ wrapConnections[v] # s
        BY <3>1, <3>2, <3>3 DEF OneSessionPerSocket, TypeOK
      <3>5. OneSessionPerSocket'
        BY <2>1, <3>4 DEF OneSessionPerSocket, TypeOK
      <3>6. RecordShape' /\ TimerOnlyWhenGone'
        BY <3>3 DEF RecordShape, TimerOnlyWhenGone, TypeOK
      <3>7. RecordedPidIsOwner'
        BY <2>1, <3>3, <3>4 DEF RecordedPidIsOwner, TypeOK
      <3>8. DashboardInSync'
        BY <3>3, RebroadcastSync DEF TypeOK
      <3>9. QED
        BY <2>2, <3>5, <3>6, <3>7, <3>8
    <2>4. CASE ~Current(s, registeredUuid[s])
      <3>1. UNCHANGED <<connVars, recVars, row, view>>
        BY <1>11, <2>4 DEF Close
      <3>2. \A v \in Uuid : wrapConnections[v] # s
        BY <1>0, <2>4 DEF Current, OneSessionPerSocket
      <3>3. OneSessionPerSocket' /\ RecordedPidIsOwner'
        BY <2>1, <3>1, <3>2 DEF OneSessionPerSocket, RecordedPidIsOwner,
                                connVars, recVars, TypeOK
      <3>4. RecordShape' /\ TimerOnlyWhenGone'
        BY <3>1 DEF RecordShape, TimerOnlyWhenGone, connVars, recVars
      <3>5. DashboardInSync'
        BY <3>1, SyncUnchanged DEF connVars
      <3>6. QED
        BY <2>2, <3>3, <3>4, <3>5
    <2>5. QED
      BY <2>3, <2>4
  <1>12. ASSUME NEW u \in Uuid, StaleFires(u)
         PROVE  IInv'
    <2>1. /\ UNCHANGED <<procVars, sockVars, recVars, wrapConnections,
                        wrapMode>>
          /\ staleTimer' \subseteq staleTimer
      BY <1>12 DEF StaleFires
    <2>2. /\ OneSessionPerSocket' /\ FreeSocketBlank' /\ RecordShape'
          /\ TimerOnlyWhenGone' /\ RecordedPidIsOwner' /\ OpenSocketSpeaks'
      BY <2>1 DEF OneSessionPerSocket, FreeSocketBlank, RecordShape,
                  TimerOnlyWhenGone, RecordedPidIsOwner, OpenSocketSpeaks,
                  Alive, procVars, sockVars, recVars
    <2>3. DashboardInSync'
      <3>1. CASE UNCHANGED <<row, view>>
        BY <2>1, <3>1, SyncUnchanged
      <3>2. CASE Rebroadcast({u}) /\ row' = [row EXCEPT ![u] = "stale"]
        BY <2>1, <3>2, RebroadcastSync DEF TypeOK
      <3>3. QED
        BY <1>12, <3>1, <3>2 DEF StaleFires
    <2>4. QED
      BY <2>2, <2>3
  <1>13. ASSUME NEW u \in Uuid, Stop(u)
         PROVE  IInv'
    <2>1. /\ UNCHANGED <<procVars, sockVars, connVars, row, view>>
          /\ recChild' = [recChild EXCEPT ![u] = None]
          /\ recPid' = [recPid EXCEPT ![u] = None]
      BY <1>13 DEF Stop, TakeOnClose
    <2>2. /\ OneSessionPerSocket' /\ FreeSocketBlank' /\ RecordShape'
          /\ TimerOnlyWhenGone' /\ RecordedPidIsOwner' /\ OpenSocketSpeaks'
      BY <2>1 DEF OneSessionPerSocket, FreeSocketBlank, RecordShape,
                  TimerOnlyWhenGone, RecordedPidIsOwner, OpenSocketSpeaks,
                  Alive, procVars, sockVars, connVars, TypeOK
    <2>3. DashboardInSync'
      BY <2>1, SyncUnchanged DEF connVars
    <2>4. QED
      BY <2>2, <2>3
  <1>14. ASSUME NEW c \in evicting, EvictRead(c)
         PROVE  IInv'
    <2>1. OpenSocketSpeaks'
      BY <1>14 DEF EvictRead, OpenSocketSpeaks, Alive, procVars, sockVars
    <2>2. QED
      BY <1>14, <2>1, QuietKeeps DEF EvictRead, sockVars
  <1>15. ASSUME NEW c \in evicting, EvictFinish(c)
         PROVE  IInv'
    <2>1. /\ UNCHANGED <<procVars, sockVars, recVars, wrapConnections,
                        wrapMode>>
          /\ staleTimer' \subseteq staleTimer
          /\ row' = [row EXCEPT ![c.uuid] = "absent"]
          /\ view' = [view EXCEPT ![c.uuid] = NoCell]
      BY <1>15 DEF EvictFinish
    <2>2. /\ OneSessionPerSocket' /\ FreeSocketBlank' /\ RecordShape'
          /\ TimerOnlyWhenGone' /\ RecordedPidIsOwner' /\ OpenSocketSpeaks'
      BY <2>1 DEF OneSessionPerSocket, FreeSocketBlank, RecordShape,
                  TimerOnlyWhenGone, RecordedPidIsOwner, OpenSocketSpeaks,
                  Alive, procVars, sockVars, recVars
    <2>3. DashboardInSync'
      BY <2>1 DEF DashboardInSync, Shown, NoCell, TypeOK
    <2>4. QED
      BY <2>2, <2>3
  <1>16. ASSUME Restart
         PROVE  IInv'
    <2>1. /\ OneSessionPerSocket' /\ FreeSocketBlank' /\ RecordShape'
          /\ TimerOnlyWhenGone' /\ RecordedPidIsOwner' /\ OpenSocketSpeaks'
      BY <1>16 DEF Restart, OneSessionPerSocket, FreeSocketBlank, RecordShape,
                   TimerOnlyWhenGone, RecordedPidIsOwner, OpenSocketSpeaks
    <2>2. DashboardInSync'
      BY <1>16 DEF Restart, DashboardInSync, NoCell, TypeOK
    <2>3. QED
      BY <2>1, <2>2
  <1>17. CASE UNCHANGED vars
    BY <1>17 DEF vars, procVars, sockVars, connVars, recVars,
                 OneSessionPerSocket, FreeSocketBlank, RecordShape,
                 OpenSocketSpeaks, Alive, TimerOnlyWhenGone,
                 RecordedPidIsOwner, DashboardInSync, Shown
  <1>18. QED
    BY <1>1, <1>2, <1>3, <1>4, <1>5, <1>6, <1>7, <1>8, <1>9, <1>10, <1>11,
       <1>12, <1>13, <1>14, <1>15, <1>16, <1>17
    DEF Next

\* The inductive invariant holds throughout.
THEOREM Inductive == Spec => []IInv
  <1>1. QED
    BY InvInit, InvStep, TypeCorrect, PTL DEF Spec

\* What /send, /wrap/stop, the close handler and the dashboards rely on.
THEOREM Safety == Spec => [](/\ DashboardInSync
                             /\ OneSessionPerSocket
                             /\ PushReachesSession
                             /\ TimerOnlyWhenGone
                             /\ RecordedPidIsOwner)
  <1>1. TypeOK /\ IInv => PushReachesSession
    BY DEF TypeOK, IInv, OneSessionPerSocket, OpenSocketSpeaks,
           PushReachesSession
  <1>2. IInv => /\ DashboardInSync /\ OneSessionPerSocket
                /\ TimerOnlyWhenGone /\ RecordedPidIsOwner
    BY DEF IInv
  <1>3. QED
    BY <1>1, <1>2, Inductive, TypeCorrect, PTL

\* After every step each cell of a dashboard shows what the daemon holds of
\* that session: no handler changes a row, a connection or a mode without
\* the broadcast that tells of it.
THEOREM DashboardsAgree == Spec => []DashboardInSync
  <1>1. IInv => DashboardInSync
    BY DEF IInv
  <1>2. QED
    BY <1>1, Inductive, PTL

\* A tree-kill only ever follows from the close of the victim's own socket
\* or from a stop of the session that carries its pid.
THEOREM KillsAreDeserved == Spec => KillsOnlyTheClosed
  <1> DEFINE Deserved(p) ==
        \/ \E s \in Sock : owner[s] = p /\ sock[s] = "closing"
                           /\ sock'[s] = "free"
        \/ \E u \in Uuid : recPid[u] = p /\ UNCHANGED sock
  <1>1. TypeOK /\ IInv /\ [Next]_vars =>
            [\A p \in Proc : p \in killing' \ killing => Deserved(p)]_vars
    <2> SUFFICES ASSUME TypeOK, IInv, Next, NEW p \in Proc,
                        p \in killing' \ killing
                 PROVE  Deserved(p)
      BY DEF vars
    <2>1. ASSUME NEW u \in Uuid, Stop(u)
          PROVE  Deserved(p)
      BY <2>1 DEF Stop, TreeKill, sockVars
    <2>2. ASSUME NEW s \in Sock, Close(s)
          PROVE  Deserved(p)
      <3>1. Current(s, registeredUuid[s])
        BY <2>2 DEF Close
      <3>2. /\ registeredUuid[s] \in Uuid
            /\ wrapConnections[registeredUuid[s]] = s
        BY <3>1 DEF Current, TypeOK
      <3>3. p = recPid[registeredUuid[s]]
        BY <2>2, <3>1 DEF Close, Disconnect, TreeKill
      <3>4. p = owner[s]
        BY <3>2, <3>3, NoneAssumption DEF IInv, RecordedPidIsOwner
      <3>5. sock[s] = "closing" /\ sock'[s] = "free"
        BY <2>2 DEF Close, TypeOK
      <3>6. QED
        BY <3>4, <3>5
    <2>3. CASE \E q \in Proc : KillLands(q)
      BY <2>3 DEF KillLands
    <2>4. CASE killing' = killing
      BY <2>4
    <2>5. QED
      BY <2>1, <2>2, <2>3, <2>4
      DEF Next, StartRequest, UserLaunch, StartFail, Spawn, Connect, SdkInit,
          Turn, ModeChanged, EndOfInput, Exit, Drop, Hook, StaleFires,
          EvictRead, EvictFinish, Restart
  <1>2. QED
    BY <1>1, TypeCorrect, Inductive, PTL DEF Spec, KillsOnlyTheClosed
----------------------------------------------------------------------------
(* A wrapper that died.                                                    *)

LEMMA DueLemma ==
    ASSUME TypeOK, IInv
    PROVE  CloseIsDue
  <1> SUFFICES ASSUME NEW u \in Uuid, DeadIsMapped(u)
               PROVE  sock[wrapConnections[u]] = "closing"
    BY DEF CloseIsDue
  <1>1. PICK s \in Sock : s = wrapConnections[u]
    BY DEF TypeOK, DeadIsMapped
  <1>2. s # None /\ ~Alive(owner[s])
    BY <1>1 DEF DeadIsMapped
  <1>3. sock[s] # "free"
    BY <1>1, <1>2 DEF IInv, OneSessionPerSocket
  <1>4. sock[s] # "open"
    BY <1>2 DEF IInv, OpenSocketSpeaks
  <1> QED
    BY <1>1, <1>3, <1>4 DEF TypeOK, SockState

\* bind takes no session of a dead wrapper from the map, and stops no timer but
\* that of the session it connects.
LEMMA BindForgetsNone ==
    ASSUME TypeOK, TypeOK', IInv, NEW p \in Proc, NEW s \in Sock, NEW v \in Uuid,
           NEW m, Bind(s, v, p, m), Alive(p)', owner'[s] = p,
           sock[s] = "free" \/ (sock[s] = "open" /\ owner[s] = p /\ Alive(p)),
           \A t \in Sock \ {s} : owner'[t] = owner[t],
           NEW u \in Uuid
    PROVE  /\ DeadIsMapped(u) => IsSettled(u)' \/ wrapConnections'[u] = wrapConnections[u]
           /\ TimerRuns(u) => IsSettled(u)' \/ TimerRuns(u)'
  <1>1. CASE u = v
    <2>1. wrapConnections'[u] = s
      BY <1>1 DEF Bind, TypeOK
    <2>2. s # None
      BY NoneAssumption
    <2> QED
      BY <2>1, <2>2 DEF IsSettled
  <1>2. CASE u # v /\ wrapConnections[u] = s
    <2>1. s # None
      BY NoneAssumption
    <2>2. sock[s] # "free"
      BY <1>2, <2>1 DEF IInv, OneSessionPerSocket
    <2> QED
      BY <1>2, <2>1, <2>2 DEF DeadIsMapped, TimerRuns
  <1>3. CASE u # v /\ wrapConnections[u] # s
    <2>1. wrapConnections'[u] = wrapConnections[u]
      BY <1>3 DEF Bind, Detached
    <2>2. u \in staleTimer => u \in staleTimer'
      BY <1>3 DEF Bind, BoundTimers
    <2> QED
      BY <2>1, <2>2 DEF TimerRuns
  <1> QED
    BY <1>1, <1>2, <1>3

LEMMA StepForgetsNone ==
    ASSUME TypeOK, TypeOK', IInv, Next, NEW u \in Uuid
    PROVE  /\ DeadIsMapped(u) =>
                \/ wrapConnections'[u] = wrapConnections[u]
                \/ TimerRuns(u)' \/ IsSettled(u)'
           /\ TimerRuns(u) => TimerRuns(u)' \/ IsSettled(u)'
  <1> DEFINE Goal == /\ DeadIsMapped(u) =>
                           \/ wrapConnections'[u] = wrapConnections[u]
                           \/ TimerRuns(u)' \/ IsSettled(u)'
                     /\ TimerRuns(u) => TimerRuns(u)' \/ IsSettled(u)'
  <1>1. ASSUME UNCHANGED <<wrapConnections, staleTimer>> PROVE Goal
    BY <1>1 DEF TimerRuns
  <1>2. ASSUME NEW p \in Proc, NEW s \in Sock, Connect(p, s) PROVE Goal
    <2>1. CASE resumeUuid[p] = None
      BY <1>1, <1>2, <2>1 DEF Connect, connVars
    <2>2. CASE resumeUuid[p] # None
      <3>1. resumeUuid[p] \in Uuid /\ Bind(s, resumeUuid[p], p, mode[p])
        BY <1>2, <2>2 DEF Connect, TypeOK
      <3>2. Alive(p)' /\ owner'[s] = p /\ sock[s] = "free"
        BY <1>2 DEF Connect, Alive, procVars, TypeOK
      <3>3. \A t \in Sock \ {s} : owner'[t] = owner[t]
        BY <1>2 DEF Connect, TypeOK
      <3> QED
        BY <3>1, <3>2, <3>3, BindForgetsNone
    <2> QED
      BY <2>1, <2>2
  <1>3. ASSUME NEW p \in Proc, NEW s \in Sock, NEW v \in Uuid, SdkInit(p, s, v)
        PROVE  Goal
    <2>1. Bind(s, v, p, registeredMode[s])
      BY <1>3 DEF SdkInit
    <2>2. sock[s] = "open" /\ owner[s] = p /\ Alive(p) /\ Alive(p)' /\ owner' = owner
      BY <1>3 DEF SdkInit, OpenSock, Alive
    <2> QED
      BY <2>1, <2>2, BindForgetsNone
  <1>4. ASSUME NEW s \in Sock, Close(s) PROVE Goal
    <2>1. CASE Current(s, registeredUuid[s]) /\ registeredUuid[s] = u
      <3>1. wrapConnections'[u] = None /\ u \in staleTimer'
        BY <1>4, <2>1 DEF Close, Disconnect, Unmapped, ArmTimer, TypeOK
      <3> QED
        BY <3>1 DEF TimerRuns
    <2>2. CASE Current(s, registeredUuid[s]) /\ registeredUuid[s] # u
      <3>1. wrapConnections'[u] = wrapConnections[u] /\ (u \in staleTimer => u \in staleTimer')
        BY <1>4, <2>2 DEF Close, Disconnect, Unmapped, ArmTimer, TypeOK
      <3> QED
        BY <3>1 DEF TimerRuns
    <2>3. CASE ~Current(s, registeredUuid[s])
      BY <1>1, <1>4, <2>3 DEF Close, connVars
    <2> QED
      BY <2>1, <2>2, <2>3
  <1>5. ASSUME NEW v \in Uuid, StaleFires(v) PROVE Goal
    <2>1. wrapConnections' = wrapConnections /\ staleTimer' = staleTimer \ {v}
      BY <1>5 DEF StaleFires
    <2>2. TimerRuns(u) /\ u = v => row'[u] \in {"stale", "absent"}
      BY <1>5 DEF StaleFires, TimerRuns, TypeOK, RowState
    <2> QED
      BY <2>1, <2>2 DEF TimerRuns, IsSettled
  <1>6. ASSUME NEW c \in evicting, EvictFinish(c) PROVE Goal
    <2>1. wrapConnections' = wrapConnections /\ staleTimer' = staleTimer \ {c.uuid}
      BY <1>6 DEF EvictFinish
    <2>2. u = c.uuid => row'[u] = "absent"
      BY <1>6 DEF EvictFinish, TypeOK
    <2> QED
      BY <2>1, <2>2 DEF TimerRuns, IsSettled
  <1>7. ASSUME Restart PROVE Goal
    <2>1. row'[u] \in {"stale", "absent"}
      BY <1>7 DEF Restart
    <2> QED
      BY <2>1 DEF IsSettled
  <1>8. ASSUME \/ \E p \in Proc :
                     \/ \E v \in Uuid \cup {None} : StartRequest(p, v) \/ UserLaunch(p, v)
                     \/ StartFail(p) \/ Spawn(p) \/ Turn(p)
                     \/ \E m \in Mode : ModeChanged(p, m)
                     \/ EndOfInput(p) \/ Exit(p) \/ KillLands(p)
               \/ \E s \in Sock : Drop(s)
               \/ \E v \in Uuid : Hook(v) \/ Stop(v)
               \/ \E c \in evicting : EvictRead(c)
        PROVE  Goal
    <2>1. UNCHANGED <<wrapConnections, staleTimer>>
      BY <1>8 DEF StartRequest, UserLaunch, StartFail, Spawn, Turn, ModeChanged, EndOfInput,
         Exit, KillLands, Drop, Hook, Stop, EvictRead, connVars
    <2> QED
      BY <1>1, <2>1
  <1> HIDE DEF Goal
  <1>9. Goal
    BY <1>2, <1>3, <1>4, <1>5, <1>6, <1>7, <1>8 DEF Next
  <1> QED
    BY <1>9 DEF Goal

\* The session of a wrapper that died is never lost from sight: its close event
\* is due, then its timer runs, and neither is cancelled by whatever else happens
\* but by a wrapper that connects to the session or by the row's going (the close
\* handler, bind and the stale timer of src/server.ts).  With the fairness of
\* the run, that is how DeadWrapSettles comes about.
THEOREM NoDeadWrapIsForgotten == Spec => []CloseIsDue /\ NeverForgotten
  <1>1. TypeOK /\ IInv => CloseIsDue
    BY DueLemma
  <1>2. TypeOK /\ TypeOK' /\ IInv /\ [Next]_vars =>
            [\A u \in Uuid :
                /\ DeadIsMapped(u) =>
                      \/ DeadIsMapped(u)' /\ wrapConnections'[u] = wrapConnections[u]
                      \/ TimerRuns(u)' \/ IsSettled(u)'
                /\ TimerRuns(u) => TimerRuns(u)' \/ IsSettled(u)']_vars
    <2> SUFFICES ASSUME TypeOK, TypeOK', IInv, Next, NEW u \in Uuid
                 PROVE  /\ DeadIsMapped(u) =>
                              \/ DeadIsMapped(u)' /\ wrapConnections'[u] = wrapConnections[u]
                              \/ TimerRuns(u)' \/ IsSettled(u)'
                        /\ TimerRuns(u) => TimerRuns(u)' \/ IsSettled(u)'
      OBVIOUS
    <2>1. DeadIsMapped(u) /\ wrapConnections'[u] = wrapConnections[u] =>
              DeadIsMapped(u)' \/ IsSettled(u)'
      BY DEF DeadIsMapped, IsSettled
    <2> QED
      BY <2>1, StepForgetsNone
  <1> QED
    BY <1>1, <1>2, TypeCorrect, Inductive, PTL DEF Spec, NeverForgotten
=============================================================================
