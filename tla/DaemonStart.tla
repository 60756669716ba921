----------------------------- MODULE DaemonStart -----------------------------
(***************************************************************************)
(* Starting, restarting and finding the daemon (src/src/index.ts, the      *)
(* /admin routes of src/src/server.ts, ensureDaemonRunning of src/src/cli/ *)
(* wrap.ts): daemons share the port file, the ports from DEFAULT_PORT on   *)
(* and the rows of one database.  Whoever finds no daemon starts one.      *)
(* Ports are counted from DEFAULT_PORT, which is 0.                        *)
(***************************************************************************)
EXTENDS Naturals, FiniteSets

CONSTANTS
    Daemon,      \* processes
    Wrapper,     \* wrappers, each with a row
    LastPort,    \* of those findFreePort tries
    NoPort,
    MaxMishaps   \* bound on crashes and time-outs

ASSUME StartAssumption ==
    LastPort \in Nat /\ MaxMishaps \in Nat /\ NoPort \notin Nat \cup Daemon
ASSUME HomeAssumption == "home" \notin Daemon \cup {NoPort}

VARIABLES
    portFile,
    stage,     \* how far each process is in main()
    port,      \* the port it asks, then the one it takes
    leaving,   \* serving, and about to exit
    rowStatus, \* per wrapper
    seeks,     \* how far each wrapper is in ensureDaemonRunning()
    dials,     \* its `port`, which it keeps
    attached,  \* the daemon at the other end of its socket
    mishaps,
    alone,     \* the start that runs with nothing else happening; "home" at its end
    orderly    \* no mishap so far, and no start during another

daemons == <<portFile, stage, port, leaving, rowStatus>>
wrappers == <<seeks, dials, attached>>
witness == <<mishaps, alone, orderly>>
startVars == <<daemons, wrappers, witness>>

Port == 0..LastPort
Starting == {"probe", "default", "pick", "write", "listen"}
InProgress == {d \in Daemon : stage[d] \in Starting}
Serving == {d \in Daemon : stage[d] = "serving"}
Listens(p) == {d \in Serving : port[d] = p}

StartInit ==
    /\ portFile = NoPort
    /\ stage = [d \in Daemon |-> "off"] /\ port = [d \in Daemon |-> NoPort] /\ leaving = {}
    /\ rowStatus = [w \in Wrapper |-> "stale"]
    /\ seeks = [w \in Wrapper |-> "off"] /\ dials = [w \in Wrapper |-> NoPort]
    /\ attached = [w \in Wrapper |-> NoPort]
    /\ mishaps = 0 /\ alone = NoPort /\ orderly = TRUE

Reaches(d, s) == stage' = [stage EXCEPT ![d] = s]
\* What the start of d means for the witnesses: is it alone, but for one that leaves?
Begun(d, but) ==
    /\ alone' = IF InProgress = {} /\ leaving \subseteq but THEN d ELSE NoPort
    /\ orderly' = (orderly /\ InProgress = {})
    /\ UNCHANGED mishaps
Ended(d) ==
    /\ alone' = IF alone = d THEN "home" ELSE NoPort
    /\ UNCHANGED <<mishaps, orderly>>
Mishap ==
    /\ mishaps < MaxMishaps
    /\ mishaps' = mishaps + 1
    /\ alone' = NoPort /\ orderly' = FALSE

----------------------------------------------------------------------------
(* The start: main().                                                      *)

\* The guard reads the port file.
start(d) ==
    /\ stage[d] = "off"
    /\ Reaches(d, "probe")
    /\ port' = [port EXCEPT ![d] = portFile]
    /\ Begun(d, {})
    /\ UNCHANGED <<portFile, leaving, rowStatus, wrappers>>

\* pingDaemon.
Unguarded(p) == FALSE
Alive(p) == p # NoPort /\ Listens(p) # {}

\* Another daemon answers: the port file is set right, and the process exits.
Reconciled(p) == p
Bails(d, p) ==
    /\ Alive(p)
    /\ portFile' = Reconciled(p)
    /\ Reaches(d, "gone")
    /\ Ended(d)
    /\ UNCHANGED <<port, leaving, rowStatus, wrappers>>

GoesOn(d, s) == Reaches(d, s) /\ UNCHANGED <<portFile, port, leaving, rowStatus, wrappers>>

Probe(d) ==
    /\ stage[d] = "probe"
    /\ \/ Bails(d, port[d])
       \/ ~Alive(port[d]) /\ GoesOn(d, "default") /\ UNCHANGED witness
       \/ Alive(port[d]) /\ Mishap /\ GoesOn(d, "default")

ProbeDefault(d) ==
    /\ stage[d] = "default"
    /\ \/ Bails(d, 0)
       \/ ~Alive(0) /\ GoesOn(d, "pick") /\ UNCHANGED witness
       \/ Alive(0) /\ Mishap /\ GoesOn(d, "pick")

\* findFreePort listens on a port to try it: two of them can be in each other's way.
Tried(d) == {held \in SUBSET Port : Cardinality(held) <=
                 Cardinality({e \in Daemon \ {d} : stage[e] = "pick"})}
Least(set) == CHOOSE p \in set : \A q \in set : p <= q
findFreePort(d) ==
    /\ stage[d] = "pick"
    /\ \E held \in Tried(d) :
          LET free == {p \in Port \ held : Listens(p) = {}} IN
          IF free = {} THEN /\ Reaches(d, "gone") /\ UNCHANGED <<port, mishaps, orderly>>
                            /\ alone' = NoPort
          ELSE /\ port' = [port EXCEPT ![d] = Least(free)]
               /\ Reaches(d, "write") /\ UNCHANGED witness
    /\ UNCHANGED <<portFile, leaving, rowStatus, wrappers>>

\* The port file is written before the daemon listens; every row becomes stale.
Write(d) ==
    /\ stage[d] = "write"
    /\ portFile' = port[d]
    /\ rowStatus' = [w \in Wrapper |-> "stale"]
    /\ Reaches(d, "listen")
    /\ UNCHANGED <<port, leaving, wrappers, witness>>

\* A port that was taken meanwhile is an uncaught exception: the process exits.
Listen(d) ==
    /\ stage[d] = "listen"
    /\ Reaches(d, IF Listens(port[d]) = {} THEN "serving" ELSE "gone")
    /\ Ended(d)
    /\ UNCHANGED <<portFile, port, leaving, rowStatus, wrappers>>

----------------------------------------------------------------------------
(* The end.                                                                *)

\* /admin/restart, /admin/rotate-pair: the new process skips the guard, the old
\* one exits 400 ms later, whether or not the new one has come that far.
scheduleRespawn(d, new) ==
    /\ d \in Serving \ leaving /\ stage[new] = "off"
    /\ leaving' = leaving \cup {d}
    /\ Reaches(new, "pick")
    /\ Begun(new, {d})
    /\ UNCHANGED <<portFile, port, rowStatus, wrappers>>

\* /admin/quit
Quit(d) ==
    /\ d \in Serving \ leaving
    /\ leaving' = leaving \cup {d}
    /\ alone' = NoPort
    /\ UNCHANGED <<portFile, stage, port, rowStatus, wrappers, mishaps, orderly>>

Dies(d) ==
    /\ Reaches(d, "gone")
    /\ leaving' = leaving \ {d}
    /\ attached' = [w \in Wrapper |-> IF attached[w] = d THEN NoPort ELSE attached[w]]
    /\ UNCHANGED <<portFile, port, rowStatus, seeks, dials>>

Leaves(d) == d \in leaving /\ Dies(d) /\ UNCHANGED witness
Crashes(d) == stage[d] \in Starting \cup {"serving"} /\ Dies(d) /\ Mishap

----------------------------------------------------------------------------
(* The wrapper: ensureDaemonRunning and connect.                           *)

Seek(w, s, p) ==
    /\ seeks' = [seeks EXCEPT ![w] = s]
    /\ dials' = [dials EXCEPT ![w] = p]
    /\ UNCHANGED attached

readDaemonPort(w) ==
    /\ seeks[w] = "off"
    /\ Seek(w, "ask", portFile)
    /\ UNCHANGED <<daemons, witness>>

AskRecorded(w) ==
    /\ seeks[w] = "ask"
    /\ Seek(w, IF Alive(dials[w]) THEN "found" ELSE "default", dials[w])
    /\ UNCHANGED <<daemons, witness>>

AskDefault(w) ==
    /\ seeks[w] = "default" /\ dials[w] # 0 /\ Alive(0)
    /\ Seek(w, "found", 0)
    /\ UNCHANGED <<daemons, witness>>

\* Nobody answers: a daemon is spawned, and the port file is polled for 10 s.
Spawn(w, d) ==
    /\ seeks[w] = "default" /\ (dials[w] = 0 \/ ~Alive(0))
    /\ stage[d] = "off" /\ Reaches(d, "probe")
    /\ port' = [port EXCEPT ![d] = portFile]
    /\ Begun(d, {})
    /\ Seek(w, "poll", NoPort)
    /\ UNCHANGED <<portFile, leaving, rowStatus>>

Poll(w) ==
    /\ seeks[w] = "poll"
    /\ \/ Alive(portFile) /\ Seek(w, "found", portFile) /\ UNCHANGED witness
       \/ ~Alive(portFile) /\ Mishap /\ Seek(w, "found", NoPort)
    /\ UNCHANGED daemons

\* connect: at once, and again three seconds after every close.
Dial(w) ==
    /\ seeks[w] = "found" /\ attached[w] = NoPort /\ Alive(dials[w])
    /\ attached' = [attached EXCEPT ![w] = CHOOSE d \in Listens(dials[w]) : TRUE]
    /\ rowStatus' = [rowStatus EXCEPT ![w] = "active"]
    /\ UNCHANGED <<portFile, stage, port, leaving, seeks, dials, witness>>

StartNext ==
    \/ \E d \in Daemon : \/ start(d) \/ Probe(d) \/ ProbeDefault(d) \/ findFreePort(d)
                         \/ Write(d) \/ Listen(d)
                         \/ Quit(d) \/ Leaves(d) \/ Crashes(d)
                         \/ \E new \in Daemon : scheduleRespawn(d, new)
    \/ \E w \in Wrapper : \/ readDaemonPort(w) \/ AskRecorded(w) \/ AskDefault(w)
                          \/ Poll(w) \/ Dial(w)
                          \/ \E d \in Daemon : Spawn(w, d)

StartSpec == StartInit /\ [][StartNext]_startVars

\* Processes that run go on; nobody has to start, restart or quit one.
Advances(d) == findFreePort(d) \/ Write(d) \/ Listen(d) \/ Leaves(d)
StartFairSpec ==
    /\ StartSpec
    /\ \A d \in Daemon : WF_startVars(Probe(d) \/ ProbeDefault(d)) /\ WF_startVars(Advances(d))
    /\ \A w \in Wrapper : WF_startVars(Dial(w))

StartTypeOK ==
    /\ portFile \in Port \cup {NoPort} /\ port \in [Daemon -> Port \cup {NoPort}]
    /\ stage \in [Daemon -> Starting \cup {"off", "serving", "gone"}]
    /\ leaving \subseteq Serving
    /\ rowStatus \in [Wrapper -> {"active", "stale"}]
    /\ seeks \in [Wrapper -> {"off", "ask", "default", "poll", "found"}]
    /\ dials \in [Wrapper -> Port \cup {NoPort}]
    /\ attached \in [Wrapper -> Daemon \cup {NoPort}]
    /\ mishaps \in 0..MaxMishaps /\ orderly \in BOOLEAN

\* Whatever crashes and crossed starts have left in the port file, one start that
\* runs by itself sets it right, as a new daemon or by finding one, unless it finds
\* neither one nor a free port: from then on,
\* until something else happens, the file names a daemon that answers (the guard
\* of src/src/index.ts, which "reconciles" it; the port is written before it is
\* listened on).
FileLeadsHome == alone = "home" => Alive(portFile)

\* Starts that do not overlap leave one daemon, restarts included, which take the
\* next port while the old process still holds its own (src/src/index.ts:97:
\* "Refusing to start when a live daemon is detected eliminates the race", which
\* it does for these only: two starts at once both find nobody).
OneHome == orderly => Cardinality(Serving \ leaving) <= 1

\* A wrapper that has found its daemon ends up attached if one serves, also after a
\* restart, with starts that do not overlap (src/src/cli/wrap.ts:293: "Daemon hot-reload during dev or any
\* network blip kills the connection", "we re-dial every 3s indefinitely").
WrapsComeBack ==
    <>[](orderly /\ Serving # {} =>
           \A w \in Wrapper : seeks[w] = "found" /\ dials[w] # NoPort => attached[w] # NoPort)
=============================================================================
