------------------------------ MODULE RelayLink ------------------------------
(***************************************************************************)
(* The daemon's connection to the relay: connect, challenge, back-off,     *)
(* keepalive, stop, and the acceptance of envelopes (src/src/              *)
(* relay-client.ts, src/src/relay-protocol.ts).  Time is counted in units; *)
(* `now` stands for Date.now() of the daemon.  Timers of the process are   *)
(* punctual except the reconnect timer, whose wait the model leaves open   *)
(* between nothing and RECONNECT_MAX_MS.                                   *)
(***************************************************************************)
EXTENDS Naturals, FiniteSets

CONSTANTS
    Phone,       \* paired phones: one entry of `peers` each
    Env,         \* envelopes of phones, each with a nonce of its own
    Never,
    Fresh,       \* NONCE_FRESHNESS_MS
    Beat,        \* KEEPALIVE_INTERVAL_MS
    IdleLimit,   \* the edge closes a connection that is silent this long
    Cap,         \* RECONNECT_MAX_MS, in doublings of RECONNECT_INITIAL_MS
    MaxLag,      \* bound on how far a phone's clock is behind the daemon's
    MaxTime,     \* bound on now
    MaxCopies,   \* bound on how often the relay hands over one envelope
    MaxDrops     \* bound on lost connections and restarts

ASSUME TimeAssumption ==
    /\ Fresh \in Nat /\ Beat \in Nat /\ IdleLimit \in Nat /\ Cap \in Nat
    /\ MaxLag \in Nat /\ MaxTime \in Nat /\ MaxCopies \in Nat /\ MaxDrops \in Nat
    /\ 0 < Beat /\ Beat < IdleLimit
ASSUME NeverAssumption == Never \notin Nat

VARIABLES
    alive,          \* the daemon's process runs
    stopRequested,
    sock,           \* the connection, as far as its handshake has come
    held,           \* this.ws is the connection, not null
    ready,
    timers,         \* reconnect timers armed; no handle of them is kept
    level,          \* reconnectMs, in doublings
    listeners,      \* listeners of this client on the store
    kept,           \* storeListener is set
    beat,           \* until the keepalive interval fires, Never when cleared
    idle,           \* since the relay heard the daemon
    now,
    env,            \* the envelopes sent: phone and ts, Never before
    copies,         \* how often the relay has handed each over
    recentNonces,   \* per phone: when each nonce was seen, Never if not kept
    handled,        \* how often this process has dispatched each envelope
    drops

connection == <<sock, held, ready, timers, level, listeners, kept, beat>>
envelopes == <<env, copies, recentNonces, handled>>
linkVars == <<alive, stopRequested, connection, idle, now, envelopes, drops>>

\* "open": the relay's challenge is on its way; "admitted": its "ready" is.
SockState == {"none", "connecting", "open", "answered", "admitted", "ready"}
Fits(n, limit) == IF n < limit THEN n ELSE limit

----------------------------------------------------------------------------
(* Connecting.                                                             *)

\* The TCP and WebSocket handshake is done; the relay sends its challenge.
Opens == /\ sock = "connecting"
         /\ sock' = "open" /\ idle' = 0
         /\ UNCHANGED <<alive, stopRequested, held, ready, timers, level, listeners,
                        kept, beat, now, envelopes, drops>>

\* handleMessage: after stop() this.ws is null and the answer throws, which
\* the process does not survive.
HearChallenge ==
    /\ alive /\ sock = "open"
    /\ IF held THEN sock' = "answered" /\ idle' = 0 /\ UNCHANGED alive
               ELSE alive' = FALSE /\ UNCHANGED <<sock, idle>>
    /\ UNCHANGED <<stopRequested, held, ready, timers, level, listeners, kept, beat,
                   now, envelopes, drops>>

RelayAdmits == /\ sock = "answered"
               /\ sock' = "admitted"
               /\ UNCHANGED <<alive, stopRequested, held, ready, timers, level,
                              listeners, kept, beat, idle, now, envelopes, drops>>

\* startKeepalive.
BeatStarted == Beat

\* handleMessage: ready.  The pairing token is registered, if this.ws is there.
HearReady ==
    /\ alive /\ sock = "admitted"
    /\ sock' = "ready" /\ ready' = TRUE
    /\ level' = 0
    /\ beat' = BeatStarted
    /\ listeners' = listeners + 1 /\ kept' = TRUE
    /\ idle' = IF held THEN 0 ELSE idle
    /\ UNCHANGED <<alive, stopRequested, held, timers, now, envelopes, drops>>

\* Mutants: the listener stays on the store; only a connection that had come
\* to "ready" is made again.
ListenersLeft == listeners
Unlistened == IF kept THEN listeners - 1 ELSE listeners
RearmedIfReady == IF stopRequested \/ ~ready THEN timers ELSE timers + 1
Rearmed == IF stopRequested THEN timers ELSE timers + 1
Doubled == Fits(level + 1, Cap)

\* handleClose, for whatever reason the connection went.
Closes ==
    /\ alive /\ sock # "none"
    /\ stopRequested \/ drops < MaxDrops
    /\ drops' = IF stopRequested THEN drops ELSE drops + 1
    /\ listeners' = Unlistened /\ kept' = FALSE
    /\ beat' = Never
    /\ sock' = "none" /\ held' = FALSE /\ ready' = FALSE
    /\ timers' = Rearmed
    /\ level' = IF stopRequested THEN level ELSE Doubled
    /\ UNCHANGED <<alive, stopRequested, idle, now, envelopes>>

\* The reconnect timer calls connect(), which does not look at stopRequested.
Reconnects ==
    /\ alive /\ timers > 0
    /\ timers' = timers - 1
    /\ sock' = "connecting" /\ held' = TRUE /\ ready' = FALSE
    /\ UNCHANGED <<alive, stopRequested, level, listeners, kept, beat, idle, now,
                   envelopes, drops>>

----------------------------------------------------------------------------
(* Stopping.  The shutdown calls stop() and then waits in server.close for *)
(* the last local connection: until then the process handles events.       *)

Stop == /\ alive /\ ~stopRequested
        /\ stopRequested' = TRUE
        /\ listeners' = Unlistened /\ kept' = FALSE
        /\ beat' = Never
        /\ held' = FALSE
        /\ UNCHANGED <<alive, sock, ready, timers, level, idle, now, envelopes, drops>>

Exit == /\ alive /\ stopRequested
        /\ alive' = FALSE
        /\ UNCHANGED <<stopRequested, connection, idle, now, envelopes, drops>>

\* A new process: start() connects, no nonce is remembered.
Restart ==
    /\ ~alive /\ drops < MaxDrops
    /\ drops' = drops + 1
    /\ alive' = TRUE /\ stopRequested' = FALSE
    /\ sock' = "connecting" /\ held' = TRUE /\ ready' = FALSE
    /\ timers' = 0 /\ level' = 0 /\ listeners' = 0 /\ kept' = FALSE /\ beat' = Never
    /\ recentNonces' = [p \in Phone |-> [e \in Env |-> Never]]
    /\ handled' = [e \in Env |-> 0]
    /\ UNCHANGED <<idle, now, env, copies>>

----------------------------------------------------------------------------
(* Time.                                                                   *)

KeepaliveFires ==
    /\ alive /\ beat = 0
    /\ beat' = Beat
    /\ idle' = IF held /\ sock \notin {"none", "connecting"} THEN 0 ELSE idle
    /\ UNCHANGED <<alive, stopRequested, sock, held, ready, timers, level, listeners,
                   kept, now, envelopes, drops>>

\* A due keepalive goes out first.
Tick ==
    /\ now < MaxTime /\ (alive => beat # 0)
    /\ now' = now + 1
    /\ idle' = Fits(idle + 1, IdleLimit)
    /\ beat' = IF alive /\ beat # Never THEN beat - 1 ELSE beat
    /\ UNCHANGED <<alive, stopRequested, sock, held, ready, timers, level, listeners,
                   kept, envelopes, drops>>

----------------------------------------------------------------------------
(* Envelopes.                                                              *)

\* encodeEnvelope: the phone's clock gives ts, a fresh nonce is drawn.
PhoneSends(e, p) ==
    /\ env[e] = Never
    /\ \E ts \in {t \in 0..now : now - t <= MaxLag} :
           env' = [env EXCEPT ![e] = [phone |-> p, ts |-> ts]]
    /\ UNCHANGED <<alive, stopRequested, connection, idle, now, copies,
                   recentNonces, handled, drops>>

IsFresh(e) == /\ env[e].ts <= now + Fresh
              /\ now <= env[e].ts + Fresh

\* pruneNonces.  Mutant: an entry goes as soon as it reaches the cutoff.
RemembersLess(t) == t # Never /\ t + Fresh > now
Remembers(t) == t # Never /\ t + Fresh >= now

\* handleEnvelope: only the sender's secret decrypts it; a nonce that is
\* remembered is passed over, an envelope out of the window is dropped.
Accepts(e) == IsFresh(e) /\ recentNonces[env[e].phone][e] = Never

Deliver(e) ==
    /\ alive /\ sock = "ready" /\ env[e] # Never /\ copies[e] < MaxCopies
    /\ copies' = [copies EXCEPT ![e] = @ + 1]
    /\ IF Accepts(e)
       THEN /\ handled' = [handled EXCEPT ![e] = @ + 1]
            /\ recentNonces' = [recentNonces EXCEPT ![env[e].phone] =
                   [n \in Env |-> IF n = e THEN now
                                  ELSE IF Remembers(@[n]) THEN @[n] ELSE Never]]
       ELSE UNCHANGED <<handled, recentNonces>>
    /\ UNCHANGED <<alive, stopRequested, connection, idle, now, env, drops>>

----------------------------------------------------------------------------
LinkInit ==
    /\ alive = TRUE /\ stopRequested = FALSE
    /\ sock = "connecting" /\ held = TRUE /\ ready = FALSE
    /\ timers = 0 /\ level = 0 /\ listeners = 0 /\ kept = FALSE /\ beat = Never
    /\ idle = 0 /\ now = 0 /\ drops = 0
    /\ env = [e \in Env |-> Never]
    /\ copies = [e \in Env |-> 0]
    /\ recentNonces = [p \in Phone |-> [e \in Env |-> Never]]
    /\ handled = [e \in Env |-> 0]

Handshake == Opens \/ HearChallenge \/ RelayAdmits \/ HearReady \/ Reconnects

LinkNext == \/ Handshake \/ Closes
        \/ Stop \/ Exit \/ Restart
        \/ KeepaliveFires \/ Tick
        \/ \E e \in Env : \/ Deliver(e)
                          \/ \E p \in Phone : PhoneSends(e, p)

LinkSpec == LinkInit /\ [][LinkNext]_linkVars

\* The relay answers and the process's timers fire; nobody has to stop,
\* restart or send anything.
LinkFairSpec == LinkSpec /\ WF_linkVars(Handshake)

----------------------------------------------------------------------------
Envelope == [phone : Phone, ts : Nat]

\* The state is what the client's fields can hold; the level stays at the cap.
LinkTypeOK ==
    /\ alive \in BOOLEAN /\ stopRequested \in BOOLEAN
    /\ sock \in SockState /\ held \in BOOLEAN /\ ready \in BOOLEAN
    /\ timers \in Nat /\ level \in 0..Cap
    /\ listeners \in Nat /\ kept \in BOOLEAN
    /\ beat \in 0..Beat \cup {Never} /\ idle \in 0..IdleLimit
    /\ now \in 0..MaxTime /\ drops \in Nat
    /\ env \in [Env -> Envelope \cup {Never}]
    /\ copies \in [Env -> 0..MaxCopies]
    /\ recentNonces \in [Phone -> [Env -> Nat \cup {Never}]]
    /\ handled \in [Env -> Nat]

\* One process never acts twice on one envelope, however often and however
\* late the relay hands it over: nonces are forgotten only when ts is too old
\* (handleEnvelope, pruneNonces).  Phones' clocks are not ahead here.
HandledOnce == \A e \in Env : handled[e] <= 1

\* A connection that is up and not being closed is never silent for so long
\* that the edge closes it (startKeepalive).
NeverIdledOut == alive /\ ready /\ held => idle < IdleLimit

\* There is one connection, or one attempt to come: never two of them, and a
\* change of the store is told once, on a connection that is up
\* (handleClose, connect, the listener of handleMessage).
OneLink ==
    /\ timers + (IF sock = "none" THEN 0 ELSE 1) <= 1
    /\ listeners = (IF kept THEN 1 ELSE 0)
    /\ kept => ready

\* A daemon that is not stopped and loses its connection only so often ends
\* up connected (handleClose and its timer).
LinkComesBack == <>[](alive /\ ~stopRequested => ready)

\* A daemon that was not told to stop is never without a way back: it holds the
\* connection it has, so that no answer of the relay finds this.ws null, or it
\* has a timer armed (handleClose, connect and stop of relay-client.ts).
NeverStranded ==
    alive /\ ~stopRequested => (held <=> sock # "none") /\ (sock = "none" => timers > 0)
=============================================================================
