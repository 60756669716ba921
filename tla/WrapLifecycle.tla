--------------------------- MODULE WrapLifecycle ---------------------------
(***************************************************************************)
(* The /wrap plane of the daemon (src/src/server.ts, attachWebSockets):    *)
(* wrapper processes (src/src/cli/wrap.ts) dial the daemon, register a     *)
(* session uuid, lose their sockets, reconnect, swap uuid on /clear and    *)
(* exit; the daemon keeps the connection map, the permission-mode map, the *)
(* stale timers, the registry of the processes it spawned itself           *)
(* (src/src/wrap-process.ts), and the session rows, and tells every        *)
(* dashboard what changed.                                                 *)
(*                                                                         *)
(* A frame a wrapper sends is handled in the step that sends it: frames of *)
(* one socket are FIFO and carry the wrapper's state of the moment they    *)
(* are sent, so a later delivery is the same behaviour with the sending    *)
(* moved.  What is asynchronous in the code is a step of its own: the      *)
(* start request's file checks, the tree-kill, the close event, the stale  *)
(* timer, and the two halves of the empty-transcript check.                *)
(***************************************************************************)
EXTENDS Naturals, Sequences, FiniteSets

CONSTANTS
    Uuid,   \* session uuids
    Proc,   \* wrapper processes; each runs at most once
    Sock,   \* /wrap WebSockets
    Mode,   \* permission modes
    None    \* null

ASSUME NoneAssumption == None \notin Uuid \cup Proc \cup Sock \cup Mode

VARIABLES
    proc,            \* none, requested, running, ended (stdin gone), dead
    resumeUuid,      \* wrap.ts resumeUuid: the session a process speaks for
    mode,            \* wrap.ts currentMode
    minted,          \* uuids the SDK has handed out (a transcript file exists)
    turns,           \* uuids whose transcript holds a real turn
    sock,            \* free, open, closing (the daemon's close event is due)
    owner,           \* the process at the far end of a socket
    registeredUuid,  \* the per-socket closure variables of the handler
    registeredMode,
    wrapConnections, \* uuid -> socket
    wrapMode,        \* uuid -> permission mode (model and effort alike)
    staleTimer,      \* uuids with a pending downgrade timer
    recChild,        \* uuid -> the process a spawn record was made for
    recPid,          \* uuid -> the pid bound to that record
    pendingFresh,    \* records of --fresh spawns, oldest first
    evicting,        \* running empty-transcript checks
    killing,         \* processes with a tree-kill under way
    spawned,         \* history: the processes /wrap/start launched
    row,             \* the sessions table: absent, live, stale
    view             \* what a connected dashboard was last told

procVars   == <<proc, resumeUuid, mode, minted, turns>>
sockVars   == <<sock, owner, registeredUuid, registeredMode>>
recVars    == <<recChild, recPid, pendingFresh>>
connVars   == <<wrapConnections, wrapMode, staleTimer>>
vars == <<procVars, sockVars, connVars, recVars, evicting, killing, spawned,
          row, view>>

ProcState == {"none", "requested", "running", "ended", "dead"}
SockState == {"free", "open", "closing"}
RowState  == {"absent", "live", "stale"}
Check     == [uuid : Uuid, child : Proc, empty : BOOLEAN]
Cell      == [row : RowState, wrapped : BOOLEAN, mode : Mode \cup {None}]

----------------------------------------------------------------------------
(* Dashboards.                                                             *)

\* The enriched row a session_changed message carries.
Shown(u) == [row     |-> row[u],
             wrapped |-> wrapConnections[u] # None,
             mode    |-> wrapMode[u]]

NoCell == [row |-> "absent", wrapped |-> FALSE, mode |-> None]

\* rebroadcastSession and the store's session_changed listener: a uuid with
\* no row is not broadcast at all.
Rebroadcast(us) ==
    view' = [u \in Uuid |-> IF u \in us /\ row'[u] # "absent"
                            THEN Shown(u)' ELSE view[u]]

----------------------------------------------------------------------------
(* Processes and sockets.                                                  *)

Alive(p) == proc[p] \in {"running", "ended"}

\* The client end of a socket: wrap.ts currentWs in state OPEN.
OpenSock(p) == {s \in Sock : sock[s] = "open" /\ owner[s] = p}

\* The client end is gone: the daemon will see a close event.
Hangup(p) == sock' = [s \in Sock |-> IF s \in OpenSock(p) THEN "closing"
                                     ELSE sock[s]]

----------------------------------------------------------------------------
(* WrapProcessRegistry.                                                    *)

\* bindPid, when uuid u has no record: the oldest --fresh record is handed
\* to u, whoever registered it.
Promotes(u) == recChild[u] = None /\ pendingFresh # <<>>

BoundPid(u, pid) ==
    IF recChild[u] # None \/ Promotes(u)
    THEN [recPid EXCEPT ![u] = pid] ELSE recPid

BindPid(u, pid) ==
    /\ recChild' = IF Promotes(u)
                   THEN [recChild EXCEPT ![u] = Head(pendingFresh)]
                   ELSE recChild
    /\ pendingFresh' = IF Promotes(u) THEN Tail(pendingFresh)
                       ELSE pendingFresh
    /\ recPid' = BoundPid(u, pid)

\* takeOnClose: the record leaves the registry.
TakeOnClose(u) ==
    /\ recChild' = [recChild EXCEPT ![u] = None]
    /\ recPid' = [recPid EXCEPT ![u] = None]
    /\ UNCHANGED pendingFresh

\* killProcessTree on the pid of a record that was taken.
TreeKill(pid) == killing' = killing \cup ({pid} \ {None})

----------------------------------------------------------------------------
(* bind(uuid) of the connection handler, with the bindPid call that        *)
(* follows it at both call sites.                                          *)

\* Mutant: the old uuid stays mapped to the socket.
DetachedNever(s, u) == {}

\* The uuid this socket spoke for until now, if the map still says so.
Detached(s, u) == {v \in Uuid \ {u} : /\ registeredUuid[s] = v
                                      /\ wrapConnections[v] = s}

\* The uuids bind rebroadcasts, and the timers it leaves running.
Told(s, u) == Detached(s, u) \cup {u}
BoundTimers(u) == staleTimer \ {u}

Bind(s, u, pid, m) ==
    LET gone == Detached(s, u)
    IN  /\ registeredUuid' = [registeredUuid EXCEPT ![s] = u]
        /\ wrapConnections' = [v \in Uuid |->
               IF v = u THEN s
               ELSE IF v \in gone THEN None ELSE wrapConnections[v]]
        /\ wrapMode' = [v \in Uuid |->
               IF v = u THEN m ELSE IF v \in gone THEN None ELSE wrapMode[v]]
        /\ staleTimer' = BoundTimers(u)
        /\ row' = [row EXCEPT ![u] = "live"]
        /\ BindPid(u, pid)
        /\ Rebroadcast(Told(s, u))
----------------------------------------------------------------------------
Init ==
    /\ proc = [p \in Proc |-> "none"]
    /\ resumeUuid = [p \in Proc |-> None]
    /\ mode \in [Proc -> Mode]
    /\ minted = {}
    /\ turns = {}
    /\ sock = [s \in Sock |-> "free"]
    /\ owner = [s \in Sock |-> None]
    /\ registeredUuid = [s \in Sock |-> None]
    /\ registeredMode = [s \in Sock |-> None]
    /\ wrapConnections = [u \in Uuid |-> None]
    /\ wrapMode = [u \in Uuid |-> None]
    /\ staleTimer = {}
    /\ recChild = [u \in Uuid |-> None]
    /\ recPid = [u \in Uuid |-> None]
    /\ pendingFresh = <<>>
    /\ evicting = {}
    /\ killing = {}
    /\ spawned = {}
    /\ row = [u \in Uuid |-> "absent"]
    /\ view = [u \in Uuid |-> NoCell]

(* POST /wrap/start: the checks made before the first await.  u = None is  *)
(* a --fresh start.                                                        *)
StartRequest(p, u) ==
    /\ proc[p] = "none"
    /\ u # None => /\ row[u] # "absent"
                   /\ wrapConnections[u] = None
                   /\ u \in minted
    /\ proc' = [proc EXCEPT ![p] = "requested"]
    /\ resumeUuid' = [resumeUuid EXCEPT ![p] = u]
    /\ UNCHANGED <<mode, minted, turns, sockVars, connVars, recVars,
                   evicting, killing, row, view, spawned>>

\* ... cwd gone, or the terminal could not be spawned: no record is made.
StartFail(p) ==
    /\ proc[p] = "requested"
    /\ proc' = [proc EXCEPT ![p] = "dead"]
    /\ UNCHANGED <<resumeUuid, mode, minted, turns, sockVars, connVars,
                   recVars, evicting, killing, row, view, spawned>>

RecordSpawn(p, u) ==
    IF u = None
    THEN /\ pendingFresh' = Append(pendingFresh, p)
         /\ UNCHANGED <<recChild, recPid>>
    ELSE /\ recChild' = [recChild EXCEPT ![u] = p]
         /\ recPid' = [recPid EXCEPT ![u] = None]
         /\ UNCHANGED pendingFresh

\* ... after the awaits: the terminal is launched and the spawn recorded,
\* with no second look at the connection map.  A missing wt.exe is reported
\* by an event later on, so the record is made and no process appears.
Spawn(p) ==
    /\ proc[p] = "requested"
    /\ \E launched \in {"running", "dead"} :
          proc' = [proc EXCEPT ![p] = launched]
    /\ spawned' = spawned \cup {p}
    /\ RecordSpawn(p, resumeUuid[p])
    /\ UNCHANGED <<resumeUuid, mode, minted, turns, sockVars, connVars,
                   evicting, killing, row, view>>

\* A user types `miki claude [-r u]` in a terminal of their own.
UserLaunch(p, u) ==
    /\ proc[p] = "none"
    /\ u \in minted \cup {None}
    /\ proc' = [proc EXCEPT ![p] = "running"]
    /\ resumeUuid' = [resumeUuid EXCEPT ![p] = u]
    /\ UNCHANGED <<mode, minted, turns, sockVars, connVars, recVars,
                   evicting, killing, row, view, spawned>>

(* wrap.ts connect() and the daemon's register handler.  A process whose   *)
(* SDK stream has ended still reconnects: its close handler re-arms the    *)
(* timer that main()'s finally block cleared.                              *)
Connect(p, s) ==
    /\ Alive(p) /\ OpenSock(p) = {}
    /\ sock[s] = "free"
    /\ sock' = [sock EXCEPT ![s] = "open"]
    /\ owner' = [owner EXCEPT ![s] = p]
    /\ registeredMode' = [registeredMode EXCEPT ![s] = mode[p]]
    /\ IF resumeUuid[p] = None
       THEN UNCHANGED <<registeredUuid, connVars, recVars, row, view>>
       ELSE Bind(s, resumeUuid[p], p, mode[p])
    /\ UNCHANGED <<procVars, evicting, killing, spawned>>

\* The SDK's init message names a new session: first turn of a new one, or
\* /clear.  Nothing is recorded while the socket is down.
SdkInit(p, s, u) ==
    /\ proc[p] = "running" /\ s \in OpenSock(p)
    /\ u \notin minted
    /\ minted' = minted \cup {u}
    /\ resumeUuid' = [resumeUuid EXCEPT ![p] = u]
    /\ Bind(s, u, p, registeredMode[s])
    /\ UNCHANGED <<proc, mode, turns, sock, owner, registeredMode,
                   evicting, killing, spawned>>

\* A turn starts or ends: the transcript grows, and turn_start / turn_end
\* reach HookHandler when the socket is up.
Turn(p) ==
    /\ proc[p] = "running" /\ resumeUuid[p] # None
    /\ turns' = turns \cup {resumeUuid[p]}
    /\ UNCHANGED connVars
    /\ IF OpenSock(p) # {}
       THEN /\ row' = [row EXCEPT ![resumeUuid[p]] = "live"]
            /\ Rebroadcast({resumeUuid[p]})
       ELSE UNCHANGED <<row, view>>
    /\ UNCHANGED <<proc, resumeUuid, mode, minted, sockVars, recVars,
                   evicting, killing, spawned>>

\* Mutant: the map is updated and nobody is told.
ModeToldNobody(p) == {}

ModeTold(p) == {resumeUuid[p]}

\* setPermissionMode resolved: permission_mode_changed, if the socket is up.
ModeChanged(p, m) ==
    /\ proc[p] = "running" /\ m # mode[p]
    /\ mode' = [mode EXCEPT ![p] = m]
    /\ UNCHANGED <<wrapConnections, row>>
    /\ IF OpenSock(p) # {} /\ resumeUuid[p] # None
       THEN /\ wrapMode' = [wrapMode EXCEPT ![resumeUuid[p]] = m]
            /\ Rebroadcast(ModeTold(p))
       ELSE UNCHANGED <<wrapMode, view>>
    /\ UNCHANGED <<proc, resumeUuid, minted, turns, sockVars, staleTimer,
                   recVars, evicting, killing, spawned>>

\* A Claude session outside any wrapper fires a hook (POST /event).
Hook(u) ==
    /\ minted' = minted \cup {u}
    /\ turns' = turns \cup {u}
    /\ row' = [row EXCEPT ![u] = "live"]
    /\ UNCHANGED <<wrapConnections, wrapMode>>
    /\ Rebroadcast({u})
    /\ UNCHANGED <<proc, resumeUuid, mode, sockVars, staleTimer, recVars,
                   evicting, killing, spawned>>

\* The network or the event loop drops a socket.
Drop(s) ==
    /\ sock[s] = "open"
    /\ sock' = [sock EXCEPT ![s] = "closing"]
    /\ UNCHANGED <<procVars, owner, registeredUuid, registeredMode, connVars,
                   recVars, evicting, killing, row, view, spawned>>

\* stdin closes, the SDK stream ends, main()'s finally block runs.
EndOfInput(p) ==
    /\ proc[p] = "running"
    /\ proc' = [proc EXCEPT ![p] = "ended"]
    /\ Hangup(p)
    /\ UNCHANGED <<resumeUuid, mode, minted, turns, owner, registeredUuid,
                   registeredMode, connVars, recVars, evicting, killing,
                   row, view, spawned>>

\* The process dies: a crash, or its user kills it.
Exit(p) ==
    /\ Alive(p)
    /\ proc' = [proc EXCEPT ![p] = "dead"]
    /\ Hangup(p)
    /\ UNCHANGED <<resumeUuid, mode, minted, turns, owner, registeredUuid,
                   registeredMode, connVars, recVars, evicting, killing,
                   row, view, spawned>>

\* taskkill takes effect; it finds nothing when the process is gone.
KillLands(p) ==
    /\ p \in killing
    /\ killing' = killing \ {p}
    /\ proc' = IF Alive(p) THEN [proc EXCEPT ![p] = "dead"] ELSE proc
    /\ Hangup(p)
    /\ UNCHANGED <<resumeUuid, mode, minted, turns, owner, registeredUuid,
                   registeredMode, connVars, recVars, evicting, row, view,
                   spawned>>
----------------------------------------------------------------------------
(* The close event.  Only the socket the map names for its uuid is cleaned *)
(* up after; a superseded one leaves without a trace.                      *)

\* Mutants: a superseded socket is cleaned up after as well; no timer is armed.
CurrentAny(s, u) == u # None
ArmNoTimer(u) == staleTimer

Current(s, u) == u # None /\ wrapConnections[u] = s

Unmapped(u) == [wrapConnections EXCEPT ![u] = None]

ArmTimer(u) == staleTimer \cup {u}

Disconnect(s, u) ==
    /\ wrapConnections' = Unmapped(u)
    /\ wrapMode' = [wrapMode EXCEPT ![u] = None]
    /\ TakeOnClose(u)
    /\ TreeKill(recPid[u])
    /\ evicting' = IF recChild[u] = None THEN evicting
                   ELSE evicting \cup {[uuid |-> u, child |-> recChild[u],
                                        empty |-> FALSE]}
    /\ staleTimer' = ArmTimer(u)
    /\ row' = row
    /\ Rebroadcast({u})

Close(s) ==
    /\ sock[s] = "closing"
    /\ sock' = [sock EXCEPT ![s] = "free"]
    /\ owner' = [owner EXCEPT ![s] = None]
    /\ registeredUuid' = [registeredUuid EXCEPT ![s] = None]
    /\ registeredMode' = [registeredMode EXCEPT ![s] = None]
    /\ IF Current(s, registeredUuid[s])
       THEN Disconnect(s, registeredUuid[s])
       ELSE UNCHANGED <<connVars, recVars, evicting, killing, row, view>>
    /\ UNCHANGED <<procVars, spawned>>

\* The empty-transcript check reads the transcript ...
EvictRead(c) ==
    /\ c \in evicting /\ ~c.empty
    /\ evicting' = (evicting \ {c}) \cup
          (IF c.uuid \in turns THEN {} ELSE {[c EXCEPT !.empty = TRUE]})
    /\ UNCHANGED <<procVars, sockVars, connVars, recVars, killing, row,
                   view, spawned>>

\* ... and, in a later callback, evicts the row of a session without turns.
EvictFinish(c) ==
    /\ c \in evicting /\ c.empty
    /\ evicting' = evicting \ {c}
    /\ staleTimer' = staleTimer \ {c.uuid}
    /\ row' = [row EXCEPT ![c.uuid] = "absent"]
    /\ view' = [view EXCEPT ![c.uuid] = NoCell]
    /\ UNCHANGED <<procVars, sockVars, wrapConnections, wrapMode, recVars,
                   killing, spawned>>

\* The grace period is over.
StaleFires(u) ==
    /\ u \in staleTimer
    /\ staleTimer' = staleTimer \ {u}
    /\ UNCHANGED <<wrapConnections, wrapMode>>
    /\ IF wrapConnections[u] = None /\ row[u] = "live"
       THEN /\ row' = [row EXCEPT ![u] = "stale"]
            /\ Rebroadcast({u})
       ELSE UNCHANGED <<row, view>>
    /\ UNCHANGED <<procVars, sockVars, recVars, evicting, killing, spawned>>

\* POST /wrap/stop; a session without a record answers 404 and changes
\* nothing.
Stop(u) ==
    /\ recChild[u] # None
    /\ TakeOnClose(u)
    /\ TreeKill(recPid[u])
    /\ UNCHANGED <<procVars, sockVars, connVars, evicting, row, view, spawned>>

\* The daemon is replaced: its maps, timers and sockets are gone, the rows
\* stay and markAllStale runs, dashboards reload /sessions.  A tree-kill
\* under way is a process of its own.
Restart ==
    /\ proc' = [p \in Proc |-> IF proc[p] = "requested" THEN "dead"
                               ELSE proc[p]]
    /\ sock' = [s \in Sock |-> "free"]
    /\ owner' = [s \in Sock |-> None]
    /\ registeredUuid' = [s \in Sock |-> None]
    /\ registeredMode' = [s \in Sock |-> None]
    /\ wrapConnections' = [u \in Uuid |-> None]
    /\ wrapMode' = [u \in Uuid |-> None]
    /\ staleTimer' = {}
    /\ recChild' = [u \in Uuid |-> None]
    /\ recPid' = [u \in Uuid |-> None]
    /\ pendingFresh' = <<>>
    /\ evicting' = {}
    /\ row' = [u \in Uuid |-> IF row[u] = "absent" THEN "absent" ELSE "stale"]
    /\ view' = [u \in Uuid |-> IF row[u] = "absent" THEN NoCell
                               ELSE Shown(u)']
    /\ UNCHANGED <<resumeUuid, mode, minted, turns, killing, spawned>>

Next ==
    \/ \E p \in Proc :
          \/ \E u \in Uuid \cup {None} : StartRequest(p, u) \/ UserLaunch(p, u)
          \/ StartFail(p)
          \/ Spawn(p)
          \/ \E s \in Sock : Connect(p, s)
          \/ \E s \in Sock, u \in Uuid : SdkInit(p, s, u)
          \/ Turn(p)
          \/ \E m \in Mode : ModeChanged(p, m)
          \/ EndOfInput(p)
          \/ Exit(p)
          \/ KillLands(p)
    \/ \E s \in Sock : Drop(s) \/ Close(s)
    \/ \E u \in Uuid : Hook(u) \/ StaleFires(u) \/ Stop(u)
    \/ \E c \in evicting : EvictRead(c) \/ EvictFinish(c)
    \/ Restart

\* The event loop delivers close events, timer expiries and I/O callbacks;
\* taskkill ends.  Nothing obliges a user, a network or a wrapper to act.
Fairness ==
    /\ \A s \in Sock : WF_vars(Close(s))
    /\ \A u \in Uuid : WF_vars(StaleFires(u))
    /\ \A p \in Proc : WF_vars(KillLands(p))
    /\ \A c \in Check : WF_vars(EvictRead(c)) /\ WF_vars(EvictFinish(c))

Spec == Init /\ [][Next]_vars
FairSpec == Spec /\ Fairness

----------------------------------------------------------------------------
TypeOK ==
    /\ proc \in [Proc -> ProcState]
    /\ resumeUuid \in [Proc -> Uuid \cup {None}]
    /\ mode \in [Proc -> Mode]
    /\ minted \subseteq Uuid
    /\ turns \subseteq Uuid
    /\ sock \in [Sock -> SockState]
    /\ owner \in [Sock -> Proc \cup {None}]
    /\ registeredUuid \in [Sock -> Uuid \cup {None}]
    /\ registeredMode \in [Sock -> Mode \cup {None}]
    /\ wrapConnections \in [Uuid -> Sock \cup {None}]
    /\ wrapMode \in [Uuid -> Mode \cup {None}]
    /\ staleTimer \subseteq Uuid
    /\ recChild \in [Uuid -> Proc \cup {None}]
    /\ recPid \in [Uuid -> Proc \cup {None}]
    /\ pendingFresh \in Seq(Proc)
    /\ evicting \subseteq Check
    /\ killing \subseteq Proc
    /\ spawned \subseteq Proc
    /\ row \in [Uuid -> RowState]
    /\ view \in [Uuid -> Cell]

\* A dashboard cell shows exactly what the daemon holds: the row's status,
\* whether a wrapper is connected, and the mode in the map.  The code keeps
\* it so by choosing, in every handler, which uuids to rebroadcast and when
\* (bind's detached uuid, the close handler, the stale timer, eviction).
DashboardInSync ==
    \A u \in Uuid :
        view[u] = IF row[u] = "absent" THEN NoCell ELSE Shown(u)

\* One socket serves at most one session: the connection map names a socket
\* only for the uuid the socket registered last, and only while the daemon
\* has not seen it close.  /send, /wrap/model and /wrap/interrupt push to
\* whatever this map names.
OneSessionPerSocket ==
    \A u \in Uuid : LET s == wrapConnections[u] IN
        s # None => sock[s] # "free" /\ registeredUuid[s] = u

\* A push to a connected session reaches the process that speaks for it:
\* while the socket is up, its owner's resumeUuid is the uuid it is mapped
\* under, /clear included.
PushReachesSession ==
    \A u \in Uuid : LET s == wrapConnections[u] IN
        (s # None /\ sock[s] = "open") =>
            /\ Alive(owner[s])
            /\ resumeUuid[owner[s]] = u

\* No session is downgraded behind a live wrapper's back: a pending stale
\* timer means that nobody is connected.
TimerOnlyWhenGone ==
    \A u \in staleTimer : wrapConnections[u] = None

\* The pid kept for a connected session is the pid of the process at the far
\* end of its socket, whoever bound, rebound or re-spawned it: what the close
\* handler tree-kills is the process that closed, never a bystander.
RecordedPidIsOwner ==
    \A u \in Uuid :
        (wrapConnections[u] # None /\ recPid[u] # None) =>
            recPid[u] = owner[wrapConnections[u]]

\* A tree-kill is issued only by the close of the victim's own socket or by
\* a stop of a session whose record carries the victim's pid.
KillsOnlyTheClosed ==
    [][\A p \in Proc : p \in killing' \ killing =>
          \/ \E s \in Sock : owner[s] = p /\ sock[s] = "closing"
                             /\ sock'[s] = "free"
          \/ \E u \in Uuid : recPid[u] = p /\ UNCHANGED sock]_vars

\* The map still gives a session to a process that has died; the grace period
\* of one whose socket has closed is running; nothing more is owed.
DeadIsMapped(u) == wrapConnections[u] # None /\ ~Alive(owner[wrapConnections[u]])
TimerRuns(u) == u \in staleTimer /\ wrapConnections[u] = None
IsSettled(u) ==
    \/ row[u] \in {"stale", "absent"}
    \/ wrapConnections[u] # None /\ Alive(owner[wrapConnections[u]])

\* A wrapper that dies while connected is settled: in the end its session is
\* stale or evicted, or somebody else has connected to it.  Close, timer and
\* eviction may interleave in any order, and a hook may revive the row in
\* between.
DeadWrapSettles == \A u \in Uuid : DeadIsMapped(u) ~> IsSettled(u)

\* What this takes besides fairness: the close event of the dead wrapper's
\* socket is due, and until it comes no handler forgets the session; when it
\* has come, the timer runs until it has fired or somebody has connected or the
\* row is gone.
CloseIsDue == \A u \in Uuid : DeadIsMapped(u) => sock[wrapConnections[u]] = "closing"

NeverForgotten ==
    [][\A u \in Uuid :
          /\ DeadIsMapped(u) =>
                \/ DeadIsMapped(u)' /\ wrapConnections'[u] = wrapConnections[u]
                \/ TimerRuns(u)' \/ IsSettled(u)'
          /\ TimerRuns(u) => TimerRuns(u)' \/ IsSettled(u)']_vars

----------------------------------------------------------------------------
(* What the documents and comments say and the code does not keep.         *)

\* server.ts:1446 "External wraps (user-launched `pnpm miki claude` from their
\* own terminal) don't have a spawn record; we leave them entirely alone":
\* nothing but a process /wrap/start launched is ever tree-killed.
ExternalLeftAlone == killing \subseteq spawned
=============================================================================
