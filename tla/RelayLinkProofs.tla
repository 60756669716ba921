--------------------------- MODULE RelayLinkProofs ---------------------------
(***************************************************************************)
(* The daemon's connection to the relay and its acceptance of envelopes,   *)
(* for any number of phones, envelopes, losses and restarts, and for any   *)
(* freshness window and keepalive interval; and what the callers of /send  *)
(* are told of prompts that VSCode helpers and headless runs enter, for    *)
(* any number of prompts, sessions, windows and connections.               *)
(***************************************************************************)
EXTENDS RelayLink, HelperBridge, SequenceTheorems, TLAPS

USE TimeAssumption, NeverAssumption

----------------------------------------------------------------------------
(* Types.                                                                  *)

LEMMA TypeInit == LinkInit => LinkTypeOK
<1> SUFFICES ASSUME LinkInit PROVE LinkTypeOK
  OBVIOUS
<1>1. alive \in BOOLEAN /\ stopRequested \in BOOLEAN /\ held \in BOOLEAN /\ ready \in BOOLEAN
      /\ kept \in BOOLEAN
  BY Zenon DEF LinkInit
<1>2. /\ env \in [Env -> Envelope \cup {Never}] /\ copies \in [Env -> 0..MaxCopies]
      /\ recentNonces \in [Phone -> [Env -> Nat \cup {Never}]] /\ handled \in [Env -> Nat]
  BY DEF LinkInit
<1> QED BY <1>1, <1>2 DEF LinkInit, LinkTypeOK, SockState

LEMMA CloseTypes ==
  ASSUME LinkTypeOK, OneLink
  PROVE  Unlistened \in Nat /\ Rearmed \in Nat /\ Doubled \in 0..Cap
  BY DEF LinkTypeOK, OneLink, Unlistened, Rearmed, Doubled, Fits

LEMMA DeliverTypes ==
  ASSUME LinkTypeOK, NEW e \in Env, Deliver(e)
  PROVE  LinkTypeOK'
<1>1. /\ env[e] \in Envelope /\ env[e].phone \in Phone
      /\ copies' = [copies EXCEPT ![e] = @ + 1] /\ copies[e] < MaxCopies
  BY DEF LinkTypeOK, Deliver, Envelope
<1>2. copies' \in [Env -> 0..MaxCopies]
  BY <1>1 DEF LinkTypeOK
<1>3. handled' \in [Env -> Nat] /\ recentNonces' \in [Phone -> [Env -> Nat \cup {Never}]]
  <2>1. CASE Accepts(e)
    <3>1. handled' = [handled EXCEPT ![e] = @ + 1]
      BY <2>1 DEF Deliver
    <3>2. DEFINE left == [n \in Env |-> IF n = e THEN now
                              ELSE IF Remembers(recentNonces[env[e].phone][n])
                                   THEN recentNonces[env[e].phone][n] ELSE Never]
    <3>3. recentNonces' = [recentNonces EXCEPT ![env[e].phone] = left]
      BY <2>1 DEF Deliver
    <3>4. left \in [Env -> Nat \cup {Never}]
      BY <1>1 DEF LinkTypeOK
    <3> HIDE DEF left
    <3>5. recentNonces' \in [Phone -> [Env -> Nat \cup {Never}]]
      BY <1>1, <3>3, <3>4 DEF LinkTypeOK
    <3>6. handled' \in [Env -> Nat]
      BY <3>1 DEF LinkTypeOK
    <3> QED BY <3>5, <3>6
  <2>2. CASE ~Accepts(e)
    BY <2>2 DEF Deliver, LinkTypeOK
  <2> QED BY <2>1, <2>2
<1> QED BY <1>2, <1>3 DEF Deliver, LinkTypeOK, connection

----------------------------------------------------------------------------
(* One connection.                                                         *)

\* A connection counts as ready only while it is the one at hand.
ReadyIsUp == ready => sock = "ready"

LinkInv == LinkTypeOK /\ OneLink /\ ReadyIsUp

LEMMA LinkInitInv == LinkInit => LinkInv
  BY TypeInit DEF LinkInit, LinkInv, OneLink, ReadyIsUp

LEMMA LinkNextInv == LinkInv /\ [LinkNext]_linkVars => LinkInv'
<1> SUFFICES ASSUME LinkInv, [LinkNext]_linkVars PROVE LinkInv'
  OBVIOUS
<1> USE DEF LinkInv
<1>0. /\ LinkTypeOK /\ OneLink /\ ReadyIsUp
  OBVIOUS
<1>1. CASE Opens
  BY <1>1 DEF Opens, LinkTypeOK, OneLink, ReadyIsUp, SockState, envelopes
<1>2. CASE HearChallenge
  <2>1. /\ sock' \in SockState /\ idle' \in 0..IdleLimit
        /\ sock # "none" /\ sock' # "none" /\ ~ready
    <3>1. sock = "open" /\ ~ready
      BY <1>2 DEF HearChallenge, ReadyIsUp
    <3>2. CASE held
      <4>1. sock' = "answered" /\ idle' = 0
        BY <1>2, <3>2 DEF HearChallenge
      <4> QED BY <3>1, <4>1 DEF SockState
    <3>3. CASE ~held
      <4>1. sock' = sock /\ idle' = idle
        BY <1>2, <3>3 DEF HearChallenge
      <4> QED BY <3>1, <4>1 DEF SockState, LinkTypeOK
    <3> QED BY <3>2, <3>3
  <2>2. alive' \in BOOLEAN
    BY <1>2, Zenon DEF HearChallenge, LinkTypeOK
  <2>3. LinkTypeOK'
    BY <1>2, <2>1, <2>2 DEF HearChallenge, LinkTypeOK, envelopes
  <2> QED BY <1>2, <2>1, <2>3 DEF HearChallenge, OneLink, ReadyIsUp
<1>3. CASE RelayAdmits
  BY <1>3 DEF RelayAdmits, LinkTypeOK, OneLink, ReadyIsUp, SockState, envelopes
<1>4. CASE HearReady
  <2>1. ~ready /\ ~kept /\ listeners = 0
    BY <1>4 DEF HearReady, OneLink, ReadyIsUp
  <2> QED BY <1>4, <2>1 DEF HearReady, LinkTypeOK, OneLink, ReadyIsUp, SockState, BeatStarted, envelopes
<1>5. CASE Reconnects
  <2>1. sock = "none" /\ timers = 1 /\ ~kept /\ listeners = 0
    BY <1>5 DEF Reconnects, OneLink, ReadyIsUp, LinkTypeOK
  <2>2. held' \in BOOLEAN /\ ready' \in BOOLEAN
    BY <1>5, Zenon DEF Reconnects
  <2>3. LinkTypeOK'
    BY <1>5, <2>1, <2>2 DEF Reconnects, LinkTypeOK, SockState, envelopes
  <2> QED BY <1>5, <2>1, <2>3 DEF Reconnects, OneLink, ReadyIsUp
<1>6. CASE Closes
  <2>1. timers = 0
    BY <1>6 DEF Closes, OneLink, LinkTypeOK
  <2>2. Unlistened = 0 /\ Rearmed \in {0, 1}
    BY <2>1 DEF Unlistened, Rearmed, OneLink
  <2>3. held' \in BOOLEAN /\ ready' \in BOOLEAN /\ kept' \in BOOLEAN
    BY <1>6, Zenon DEF Closes
  <2>4. drops' \in Nat
    BY <1>6 DEF Closes, LinkTypeOK
  <2>5. LinkTypeOK'
    BY <1>6, <2>2, <2>3, <2>4, CloseTypes DEF Closes, LinkTypeOK, SockState, envelopes
  <2>6. OneLink' /\ ReadyIsUp'
    BY <1>6, <2>2 DEF Closes, OneLink, ReadyIsUp
  <2> QED BY <2>5, <2>6
<1>7. CASE Stop
  <2>1. Unlistened = 0
    BY DEF Unlistened, OneLink
  <2> QED BY <1>7, <2>1 DEF Stop, LinkTypeOK, OneLink, ReadyIsUp, SockState, envelopes
<1>8. CASE Exit
  BY <1>8 DEF Exit, LinkTypeOK, OneLink, ReadyIsUp, connection, envelopes
<1>9. CASE Restart
  <2>1. recentNonces' \in [Phone -> [Env -> Nat \cup {Never}]] /\ handled' \in [Env -> Nat]
    BY <1>9 DEF Restart
  <2>2. alive' \in BOOLEAN /\ stopRequested' \in BOOLEAN /\ held' \in BOOLEAN /\ ready' \in BOOLEAN
        /\ kept' \in BOOLEAN
    BY <1>9, Zenon DEF Restart
  <2>3. LinkTypeOK'
    BY <1>9, <2>1, <2>2 DEF Restart, LinkTypeOK, SockState
  <2> QED BY <1>9, <2>3 DEF Restart, OneLink, ReadyIsUp
<1>10. CASE KeepaliveFires
  BY <1>10 DEF KeepaliveFires, LinkTypeOK, OneLink, ReadyIsUp, envelopes
<1>11. CASE Tick
  BY <1>11 DEF Tick, LinkTypeOK, OneLink, ReadyIsUp, Fits, envelopes
<1>12. ASSUME NEW e \in Env, Deliver(e) PROVE LinkInv'
  <2>1. LinkTypeOK'
    BY <1>12, DeliverTypes
  <2> QED BY <1>12, <2>1 DEF Deliver, OneLink, ReadyIsUp, connection
<1>13. ASSUME NEW e \in Env, NEW p \in Phone, PhoneSends(e, p) PROVE LinkInv'
  <2>1. PICK ts \in 0..now : env' = [env EXCEPT ![e] = [phone |-> p, ts |-> ts]]
    BY <1>13 DEF PhoneSends
  <2>2. [phone |-> p, ts |-> ts] \in Envelope
    BY DEF Envelope, LinkTypeOK
  <2>3. env' \in [Env -> Envelope \cup {Never}]
    BY <2>1, <2>2 DEF LinkTypeOK
  <2> QED BY <1>13, <2>3 DEF PhoneSends, LinkTypeOK, OneLink, ReadyIsUp, connection
<1>14. CASE UNCHANGED linkVars
  BY <1>14 DEF linkVars, connection, envelopes, LinkTypeOK, OneLink, ReadyIsUp
<1> QED BY <1>1, <1>2, <1>3, <1>4, <1>5, <1>6, <1>7, <1>8, <1>9, <1>10, <1>11, <1>12, <1>13,
           <1>14 DEF LinkNext, Handshake

\* Whatever the daemon's fields go through, they hold what they are meant to hold.
THEOREM TypeCorrect == LinkSpec => []LinkTypeOK
<1>1. LinkInv => LinkTypeOK
  BY DEF LinkInv
<1> QED BY <1>1, LinkInitInv, LinkNextInv, PTL DEF LinkSpec

\* Losses, stops and restarts in any order leave one connection or one attempt, and
\* one listener on the store while it is up (handleClose and connect of
\* src/src/relay-client.ts).
THEOREM OneLinkAtATime == LinkSpec => []OneLink
<1>1. LinkInv => OneLink
  BY DEF LinkInv
<1> QED BY <1>1, LinkInitInv, LinkNextInv, PTL DEF LinkSpec

\* From any state a daemon that runs and was not told to stop can come back: its
\* connection or a timer for the next one is there (handleClose and stop).  That
\* it does come back is a matter of fairness, and of the run.
THEOREM NeverIsStranded == LinkSpec => []NeverStranded
<1>1. LinkInit => NeverStranded
  BY DEF LinkInit, NeverStranded
<1>2. LinkInv /\ NeverStranded /\ [LinkNext]_linkVars => NeverStranded'
  <2> SUFFICES ASSUME LinkInv, NeverStranded, [LinkNext]_linkVars PROVE NeverStranded'
    OBVIOUS
  <2>0. timers \in Nat
    BY DEF LinkInv, LinkTypeOK
  <2>1. CASE Opens \/ HearChallenge \/ RelayAdmits \/ HearReady
    BY <2>1 DEF Opens, HearChallenge, RelayAdmits, HearReady, NeverStranded
  <2>2. CASE Reconnects \/ Restart
    BY <2>2 DEF Reconnects, Restart, NeverStranded
  <2>3. CASE Closes
    BY <2>0, <2>3 DEF Closes, Rearmed, NeverStranded
  <2>4. CASE Stop \/ Exit
    BY <2>4 DEF Stop, Exit, NeverStranded
  <2>5. CASE KeepaliveFires \/ Tick
    BY <2>5 DEF KeepaliveFires, Tick, NeverStranded
  <2>6. ASSUME NEW e \in Env, Deliver(e) \/ \E p \in Phone : PhoneSends(e, p)
        PROVE  NeverStranded'
    BY <2>6 DEF Deliver, PhoneSends, connection, NeverStranded
  <2>7. CASE UNCHANGED linkVars
    BY <2>7 DEF linkVars, connection, NeverStranded
  <2> QED BY <2>1, <2>2, <2>3, <2>4, <2>5, <2>6, <2>7 DEF LinkNext, Handshake
<1> QED BY <1>1, <1>2, LinkInitInv, LinkNextInv, PTL DEF LinkSpec

----------------------------------------------------------------------------
(* The keepalive.                                                          *)

\* The interval runs as long as the connection is up, and what it has run is what
\* the relay has waited.
BeatRuns == alive /\ ready /\ held => beat \in Nat /\ idle + beat <= Beat

LEMMA BeatInitInv == LinkInit => BeatRuns
  BY DEF LinkInit, BeatRuns

LEMMA BeatNextInv == LinkInv /\ BeatRuns /\ [LinkNext]_linkVars => BeatRuns'
<1> SUFFICES ASSUME LinkInv, BeatRuns, [LinkNext]_linkVars PROVE BeatRuns'
  OBVIOUS
<1>0. ReadyIsUp /\ idle \in 0..IdleLimit /\ beat \in 0..Beat \cup {Never}
  BY DEF LinkInv, LinkTypeOK
<1>1. CASE Opens \/ HearChallenge \/ RelayAdmits
  BY <1>0, <1>1 DEF Opens, HearChallenge, RelayAdmits, BeatRuns, ReadyIsUp
<1>2. CASE HearReady
  BY <1>2 DEF HearReady, BeatStarted, BeatRuns
<1>3. CASE Reconnects \/ Closes \/ Stop \/ Exit \/ Restart
  BY <1>3 DEF Reconnects, Closes, Stop, Exit, Restart, BeatRuns
<1>4. CASE KeepaliveFires
  BY <1>0, <1>4 DEF KeepaliveFires, BeatRuns, ReadyIsUp
<1>5. CASE Tick
  <2> SUFFICES ASSUME alive, ready, held
               PROVE  beat' \in Nat /\ idle' + beat' <= Beat
    BY <1>5 DEF Tick, BeatRuns
  <2>1. beat \in Nat /\ beat # 0 /\ idle + beat <= Beat
    BY <1>5 DEF Tick, BeatRuns
  <2>2. beat' = beat - 1 /\ idle' = idle + 1
    BY <1>0, <1>5, <2>1 DEF Tick, Fits
  <2> QED BY <1>0, <2>1, <2>2
<1>6. ASSUME NEW e \in Env, Deliver(e) \/ \E p \in Phone : PhoneSends(e, p) PROVE BeatRuns'
  BY <1>6 DEF Deliver, PhoneSends, BeatRuns, connection
<1>7. CASE UNCHANGED linkVars
  BY <1>7 DEF linkVars, connection, BeatRuns
<1> QED BY <1>1, <1>2, <1>3, <1>4, <1>5, <1>6, <1>7 DEF LinkNext, Handshake

\* With an interval shorter than the edge's patience no connection that is up is
\* ever closed for silence (startKeepalive of src/src/relay-client.ts).
THEOREM KeptAlive == LinkSpec => []NeverIdledOut
<1>1. LinkInv /\ BeatRuns => NeverIdledOut
  BY DEF LinkInv, LinkTypeOK, BeatRuns, NeverIdledOut
<1> QED BY <1>1, LinkInitInv, LinkNextInv, BeatInitInv, BeatNextInv, PTL DEF LinkSpec

----------------------------------------------------------------------------
(* Envelopes.                                                              *)

\* Forgotten for good: no clock reading to come finds it in the window.
TooOld(e) == now > env[e].ts + Fresh

\* A nonce that is remembered was seen after its envelope was written, so pruning
\* forgets it only when the envelope is too old; one that was handled is
\* remembered or too old.
NonceInv ==
    /\ \A e \in Env : env[e] # Never => env[e].ts <= now
    /\ \A e \in Env, p \in Phone : recentNonces[p][e] # Never =>
           env[e] # Never /\ env[e].ts <= recentNonces[p][e]
    /\ \A e \in Env : handled[e] # 0 =>
           /\ handled[e] = 1 /\ env[e] # Never
           /\ recentNonces[env[e].phone][e] # Never \/ TooOld(e)

LEMMA NonceInitInv == LinkInit => NonceInv
  BY DEF LinkInit, NonceInv

\* What one delivery leaves of the nonces.
LEMMA DeliverNonces ==
  ASSUME LinkTypeOK, NEW e \in Env, Deliver(e), Accepts(e), NEW f \in Env, NEW p \in Phone
  PROVE  /\ (p = env[e].phone /\ f = e) => recentNonces'[p][f] = now
         /\ (p = env[e].phone /\ f # e) =>
                recentNonces'[p][f] = IF Remembers(recentNonces[p][f])
                                      THEN recentNonces[p][f] ELSE Never
         /\ p # env[e].phone => recentNonces'[p][f] = recentNonces[p][f]
  BY DEF Deliver, LinkTypeOK

LEMMA DeliverInv ==
  ASSUME LinkTypeOK, NonceInv, NEW e \in Env, Deliver(e)
  PROVE  NonceInv'
<1>1. /\ env' = env /\ now' = now /\ now \in Nat
      /\ env[e] # Never /\ env[e] \in Envelope /\ env[e].phone \in Phone /\ env[e].ts \in Nat
  BY DEF Deliver, LinkTypeOK, Envelope
<1>2. CASE ~Accepts(e)
  <2>1. handled' = handled /\ recentNonces' = recentNonces
    BY <1>2 DEF Deliver
  <2> QED BY <1>1, <2>1 DEF NonceInv, TooOld
<1>3. CASE Accepts(e)
  <2>1. handled[e] = 0
    BY <1>1, <1>3 DEF Accepts, IsFresh, NonceInv, TooOld, LinkTypeOK
  <2>2. handled' = [handled EXCEPT ![e] = 1]
    BY <1>3, <2>1 DEF Deliver
  <2>3. ASSUME NEW f \in Env, NEW p \in Phone, recentNonces'[p][f] # Never
        PROVE  env'[f] # Never /\ env'[f].ts <= recentNonces'[p][f]
    <3>1. \/ recentNonces'[p][f] = recentNonces[p][f]
          \/ f = e /\ recentNonces'[p][f] = now
      BY <1>3, <2>3, DeliverNonces
    <3>2. CASE recentNonces'[p][f] = recentNonces[p][f]
      BY <1>1, <2>3, <3>2 DEF NonceInv
    <3>3. CASE f = e /\ recentNonces'[p][f] = now
      BY <1>1, <3>3 DEF NonceInv
    <3> QED BY <3>1, <3>2, <3>3
  <2>4. ASSUME NEW f \in Env, handled'[f] # 0
        PROVE  /\ handled'[f] = 1 /\ env'[f] # Never
               /\ recentNonces'[env'[f].phone][f] # Never \/ TooOld(f)'
    <3>1. CASE f = e
      <4>1. recentNonces'[env[e].phone][e] = now
        BY <1>1, <1>3, DeliverNonces
      <4> QED BY <1>1, <2>2, <3>1, <4>1 DEF LinkTypeOK
    <3>2. CASE f # e
      <4>1. handled'[f] = handled[f] /\ handled[f] # 0
        BY <2>2, <2>4, <3>2 DEF LinkTypeOK
      <4>2. /\ handled[f] = 1 /\ env[f] # Never
            /\ recentNonces[env[f].phone][f] # Never \/ TooOld(f)
        BY <4>1 DEF NonceInv
      <4>3. env[f].phone \in Phone /\ env[f].ts \in Nat
        BY <4>2 DEF LinkTypeOK, Envelope
      <4> DEFINE was == recentNonces[env[f].phone][f]
      <4>4. CASE TooOld(f)
        BY <1>1, <4>1, <4>2, <4>4 DEF TooOld
      <4>5. CASE was # Never /\ recentNonces'[env[f].phone][f] # Never
        BY <1>1, <4>1, <4>2, <4>5
      <4>6. CASE was # Never /\ recentNonces'[env[f].phone][f] = Never
        <5>1. was \in Nat /\ env[f].ts <= was
          BY <4>3, <4>6 DEF NonceInv, LinkTypeOK
        <5>2. ~Remembers(was)
          BY <1>3, <3>2, <4>3, <4>6, DeliverNonces
        <5>3. was + Fresh < now
          BY <1>1, <4>6, <5>1, <5>2 DEF Remembers
        <5>4. TooOld(f)
          BY <1>1, <4>3, <5>1, <5>3 DEF TooOld
        <5> QED BY <1>1, <4>1, <4>2, <5>4 DEF TooOld
      <4> QED BY <4>2, <4>4, <4>5, <4>6
    <3> QED BY <3>1, <3>2
  <2> QED BY <1>1, <2>3, <2>4 DEF NonceInv
<1> QED BY <1>2, <1>3

LEMMA NonceNextInv == LinkInv /\ NonceInv /\ [LinkNext]_linkVars => NonceInv'
<1> SUFFICES ASSUME LinkInv, NonceInv, [LinkNext]_linkVars PROVE NonceInv'
  OBVIOUS
<1>0. LinkTypeOK /\ now \in Nat
  BY DEF LinkInv, LinkTypeOK
<1>1. CASE Handshake \/ Closes \/ Stop \/ Exit \/ KeepaliveFires
  <2>1. env' = env /\ now' = now /\ recentNonces' = recentNonces /\ handled' = handled
    BY <1>1 DEF Handshake, Opens, HearChallenge, RelayAdmits, HearReady, Reconnects, Closes, Stop,
                Exit, KeepaliveFires, envelopes
  <2> QED BY <2>1 DEF NonceInv, TooOld
<1>2. CASE Restart
  BY <1>2 DEF Restart, NonceInv
<1>3. CASE Tick
  <2>1. env' = env /\ now' = now + 1 /\ recentNonces' = recentNonces /\ handled' = handled
    BY <1>3 DEF Tick, envelopes
  <2>2. \A e \in Env : env[e] # Never => env[e].ts \in Nat
    BY <1>0 DEF LinkTypeOK, Envelope
  <2> QED BY <1>0, <2>1, <2>2 DEF NonceInv, TooOld
<1>4. ASSUME NEW e \in Env, Deliver(e) PROVE NonceInv'
  BY <1>0, <1>4, DeliverInv
<1>5. ASSUME NEW e \in Env, NEW p \in Phone, PhoneSends(e, p) PROVE NonceInv'
  <2>1. PICK ts \in 0..now : env' = [env EXCEPT ![e] = [phone |-> p, ts |-> ts]]
    BY <1>5 DEF PhoneSends
  <2>2. env[e] = Never /\ now' = now /\ recentNonces' = recentNonces /\ handled' = handled
    BY <1>5 DEF PhoneSends
  <2>3. \A f \in Env : /\ f # e => env'[f] = env[f]
                       /\ f = e => env'[f].ts <= now
    BY <1>0, <2>1 DEF LinkTypeOK
  <2>4. handled[e] = 0 /\ \A q \in Phone : recentNonces[q][e] = Never
    BY <2>2 DEF NonceInv
  <2> QED BY <2>2, <2>3, <2>4 DEF NonceInv, TooOld
<1>6. CASE UNCHANGED linkVars
  BY <1>6 DEF linkVars, envelopes, NonceInv, TooOld
<1> QED BY <1>1, <1>2, <1>3, <1>4, <1>5, <1>6 DEF LinkNext

\* However often and however late the relay hands an envelope over, one process of
\* the daemon acts on it once, whatever the window, and although it forgets nonces
\* (handleEnvelope and pruneNonces of src/src/relay-client.ts).
THEOREM ActsOnce == LinkSpec => []HandledOnce
<1>1. LinkInv /\ NonceInv => HandledOnce
  BY DEF LinkInv, LinkTypeOK, NonceInv, HandledOnce
<1> QED BY <1>1, LinkInitInv, LinkNextInv, NonceInitInv, NonceNextInv, PTL DEF LinkSpec

----------------------------------------------------------------------------
(* Prompts entered into VSCode.                                            *)

\* Scripts wait for one another, and a title names one window.
Undisturbed == ~Overlap /\ \A w \in Window : Titled[w] \subseteq {w}

HelperMessage == [kind : {"ping"}, r : {None}] \cup [kind : {"submit"}, r : Req]
DaemonMessage == [kind : {"register"}, r : Window] \cup [kind : {"pong"}, r : {None}]
                 \cup [kind : {"ack_ok", "ack_fail"}, r : Req]
Text == Seq(Req \cup {User})

BridgeShape ==
    /\ req \in [Req -> Answers] /\ listens = [r \in Req |-> listens[r]]
    /\ ws \in [Window -> Sock \cup {None}]
    /\ toD \in [Sock -> Seq(DaemonMessage)] /\ toH \in [Sock -> Seq(HelperMessage)]
    /\ chain \in [Window -> Seq(Req)] /\ step \in [Window -> Steps \cup {None}]
    /\ shown \in [Window -> Session \cup {None}]
    /\ box \in [Window -> [Session -> Text]]
    /\ legacy \in Req \cup {None}
    /\ landed \in [Session -> Seq(Text)] /\ prompted \subseteq Req

\* Where a prompt can be on its way to a transcript.
Submits(s, i, r) == i \in DOMAIN toH[s] /\ toH[s][i] = Message("submit", r)
Queued(w, i, r) == i \in DOMAIN chain[w] /\ chain[w][i] = r
UnderWay(r) == \E s \in Sock : \E i \in DOMAIN toH[s] : Submits(s, i, r)
Chained(r) == \E w \in Window : \E i \in DOMAIN chain[w] : Queued(w, i, r)
Works(r, w) == ~Idle(w) /\ step[w].r = r
Ahead(r) ==
    UnderWay(r) \/ Chained(r) \/ \E w \in Window : Works(r, w) /\ step[w].at # "restore"
InBox(r, w, s) == \E k \in DOMAIN box[w][s] : box[w][s][k] = r
Boxed(r) == \E w \in Window, s \in Session : InBox(r, w, s)
Over(r) == ~Ahead(r) /\ r \notin prompted /\ ~Boxed(r)

\* The caller was told that it was entered, or will be if it still listens.
AckedOk(r) == \E s \in Sock : \E i \in DOMAIN toD[s] : toD[s][i] = Message("ack_ok", r)
Told(r) ==
    \/ req[r] = "ok" \/ AckedOk(r)
    \/ \E w \in Window : Works(r, w) /\ step[w].at = "restore"
Typed(r) == req[r] \in {"prefilled", "legacy", "entered"}

\* One script at a time has the desktop, and it finds what it put there.
DesktopAlone ==
    /\ \A v, w \in Window : ~Idle(v) /\ ~Idle(w) => v = w
    /\ \A w \in Window : ~Idle(w) => legacy = None

ScriptRight ==
    \A w \in Window : ~Idle(w) /\ step[w].at # "restore" =>
        /\ shown[w] = Target[step[w].r]
        /\ step[w].at # "copy" => clip = step[w].r
        /\ step[w].at \in {"paste", "enter"} => fg = w
        /\ step[w].at = "enter" => box[w][Target[step[w].r]] = <<step[w].r>>

\* A prompt for a helper is in one place only.
OneToken(r) ==
    /\ \A s, t \in Sock : \A i \in DOMAIN toH[s], j \in DOMAIN toH[t] :
          Submits(s, i, r) /\ Submits(t, j, r) => s = t /\ i = j
    /\ \A v, w \in Window : \A i \in DOMAIN chain[v], j \in DOMAIN chain[w] :
          Queued(v, i, r) /\ Queued(w, j, r) => v = w /\ i = j
    /\ UnderWay(r) => ~Chained(r)
    /\ UnderWay(r) \/ Chained(r) => \A w \in Window : ~Works(r, w)

CallersWait ==
    /\ \A r \in Req : listens[r] # None => req[r] = "waiting"
    /\ legacy # None => req[legacy] = "legacy"

\* Only a script about to press Enter, and what was typed in, fill a box.
BoxRight(r) ==
    \A w \in Window, s \in Session :
        InBox(r, w, s) => \/ Typed(r)
                          \/ At(w, "enter") /\ step[w].r = r /\ s = Target[r]

Stage(r) ==
    /\ req[r] \in {"new", "nohelper"} => Over(r) /\ NotLanded(r)
    /\ Ahead(r) => NotLanded(r) /\ r \notin prompted /\ ~Typed(r) /\ req[r] # "running"
    /\ Told(r) => LandedOnce(r) /\ Over(r)
    /\ req[r] = "running" /\ r \notin prompted => LandedOnce(r) /\ Over(r)
    /\ r \in prompted => NotLanded(r) /\ ~Boxed(r)

BridgeInv ==
    /\ BridgeShape /\ DesktopAlone /\ ScriptRight /\ CallersWait
    /\ \A r \in Req : OneToken(r) /\ BoxRight(r) /\ Stage(r)

LEMMA PostedRight ==
  ASSUME NEW M, NEW queue \in [Sock -> Seq(M)], NEW m \in M, NEW s
  PROVE  /\ Posted(queue, s, m) \in [Sock -> Seq(M)]
         /\ \A t \in Sock : \/ Posted(queue, s, m)[t] = queue[t]
                            \/ t = s /\ Posted(queue, s, m)[t] = Append(queue[t], m)
<1>1. CASE Posted(queue, s, m) = queue
  BY <1>1
<1>2. CASE Posted(queue, s, m) = [queue EXCEPT ![s] = Append(@, m)]
  <2>1. s \in Sock => Append(queue[s], m) \in Seq(M)
    OBVIOUS
  <2> QED BY <1>2, <2>1
<1> QED BY <1>1, <1>2 DEF Posted

LEMMA MessagesTyped ==
  /\ Message("ping", None) \in HelperMessage
  /\ \A r \in Req : Message("submit", r) \in HelperMessage
  /\ \A w \in Window : Message("register", w) \in DaemonMessage
  /\ Message("pong", None) \in DaemonMessage
  /\ \A r \in Req : Message("ack_ok", r) \in DaemonMessage /\ Message("ack_fail", r) \in DaemonMessage
  BY DEF Message, HelperMessage, DaemonMessage

\* What leaves the head of a queue was in it.
LEMMA Taken ==
  ASSUME NEW S, NEW q \in Seq(S), q # <<>>
  PROVE  /\ Head(q) \in S /\ Tail(q) \in Seq(S) /\ 1 \in DOMAIN q /\ Head(q) = q[1]
         /\ \A i \in DOMAIN Tail(q) : i + 1 \in DOMAIN q /\ i + 1 # 1 /\ Tail(q)[i] = q[i + 1]
<1>1. Head(q) \in S /\ Tail(q) \in Seq(S) /\ 1 \in DOMAIN q /\ Head(q) = q[1]
  OBVIOUS
<1>2. /\ DOMAIN Tail(q) = 1 .. Len(Tail(q)) /\ DOMAIN q = 1 .. Len(q) /\ Len(q) \in Nat
      /\ Len(Tail(q)) = Len(q) - 1
      /\ \A i \in 1 .. Len(Tail(q)) : Tail(q)[i] = q[i + 1]
  BY HeadTailProperties, LenProperties
<1>3. \A i \in 1 .. (Len(q) - 1) : i + 1 \in 1 .. Len(q) /\ i + 1 # 1
  BY <1>2
<1> QED BY <1>1, <1>2, <1>3

LEMMA Added ==
  ASSUME NEW S, NEW q \in Seq(S), NEW e \in S
  PROVE  /\ Append(q, e) \in Seq(S)
         /\ \A i \in DOMAIN Append(q, e) :
               \/ i \in DOMAIN q /\ Append(q, e)[i] = q[i]
               \/ i = Len(q) + 1 /\ Append(q, e)[i] = e /\ i \notin DOMAIN q
  OBVIOUS

LEMMA BoxFilled ==
  ASSUME BridgeShape, NEW w \in Window, NEW s \in Session, NEW x \in Text
  PROVE  /\ [box EXCEPT ![w][s] = x] \in [Window -> [Session -> Text]]
         /\ \A v \in Window, t \in Session :
               [box EXCEPT ![w][s] = x][v][t] = IF v = w /\ t = s THEN x ELSE box[v][t]
<1>1. box \in [Window -> [Session -> Text]]
  BY DEF BridgeShape
<1>2. [box[w] EXCEPT ![s] = x] \in [Session -> Text]
  BY <1>1
<1> QED BY <1>1, <1>2

LEMMA PressShape ==
  ASSUME BridgeShape, NEW w \in Window, PressEnter(w)
  PROVE  box' \in [Window -> [Session -> Text]] /\ landed' \in [Session -> Seq(Text)]
<1>1. CASE UNCHANGED <<box, landed>>
  BY <1>1 DEF BridgeShape
<1>2. CASE /\ shown[w] # None
           /\ landed' = [landed EXCEPT ![shown[w]] = Append(@, box[w][shown[w]])]
           /\ box' = [box EXCEPT ![w][shown[w]] = <<>>]
  <2>1. shown[w] \in Session
    BY <1>2 DEF BridgeShape
  <2>2. box[w][shown[w]] \in Text /\ <<>> \in Text
    BY <2>1 DEF BridgeShape, Text
  <2> QED BY <1>2, <2>1, <2>2 DEF BridgeShape
<1> QED BY <1>1, <1>2 DEF PressEnter

LEMMA AddressShape ==
  ASSUME BridgeShape, NEW r \in Req, OpensAddress(r)
  PROVE  /\ shown' \in [Window -> Session \cup {None}]
         /\ box' \in [Window -> [Session -> Text]]
<1>1. Target[r] \in Session /\ <<r>> \in Text
  BY HelperAssumption DEF Text
<1>2. PICK w \in Window :
         /\ shown' = [shown EXCEPT ![w] = Target[r]]
         /\ box' = [box EXCEPT ![w][Target[r]] = <<r>>] \/ box' = box
  BY DEF OpensAddress
<1>3. shown' \in [Window -> Session \cup {None}]
  BY <1>1, <1>2 DEF BridgeShape
<1>4. [box EXCEPT ![w][Target[r]] = <<r>>] \in [Window -> [Session -> Text]]
  BY <1>1, BoxFilled
<1>5. box \in [Window -> [Session -> Text]]
  BY DEF BridgeShape
<1> QED BY <1>2, <1>3, <1>4, <1>5

\* What the daemon makes of a message of a helper.
LEMMA DaemonHearing ==
  ASSUME BridgeShape, NEW s \in Sock, DaemonHears(s)
  PROVE  LET m == Head(toD[s]) IN
         /\ toD[s] # <<>> /\ toD[s] \in Seq(DaemonMessage)
         /\ toD' = [toD EXCEPT ![s] = Tail(@)]
         /\ \/ UNCHANGED <<req, listens>>
            \/ m = Message("ack_ok", m.r) /\ m.r \in Req /\ Acked(s, m.r, "ok")
            \/ m = Message("ack_fail", m.r) /\ m.r \in Req /\ Acked(s, m.r, "failed")
         /\ UNCHANGED <<dsock, hsock, ws, toH, windows, desktop, landed, prompted>>
<1> DEFINE m == Head(toD[s])
<1>1. toD[s] # <<>> /\ toD[s] \in Seq(DaemonMessage) /\ m \in DaemonMessage
  BY Taken DEF DaemonHears, BridgeShape
<1>2. \/ m.kind \in {"register", "pong"}
      \/ m.kind = "ack_ok" /\ m.r \in Req /\ m = Message("ack_ok", m.r)
      \/ m.kind = "ack_fail" /\ m.r \in Req /\ m = Message("ack_fail", m.r)
  <2> HIDE DEF m
  <2> QED BY <1>1 DEF DaemonMessage, Message
<1>3. CASE m.kind = "register"
  BY <1>1, <1>3 DEF DaemonHears
<1>4. CASE m.kind = "pong"
  BY <1>1, <1>4 DEF DaemonHears
<1>5. CASE m.kind = "ack_ok" /\ m.r \in Req /\ m = Message("ack_ok", m.r)
  BY <1>1, <1>5 DEF DaemonHears
<1>6. CASE m.kind = "ack_fail" /\ m.r \in Req /\ m = Message("ack_fail", m.r)
  BY <1>1, <1>6 DEF DaemonHears
<1> QED BY <1>2, <1>3, <1>4, <1>5, <1>6

\* What an extension makes of a message of the daemon.
LEMMA HelperHearing ==
  ASSUME BridgeShape, NEW w \in Window, HelperHears(w)
  PROVE  LET m == Head(toH[ws[w]]) IN
         /\ ws[w] \in Sock /\ toH[ws[w]] # <<>> /\ toH[ws[w]] \in Seq(HelperMessage)
         /\ toH' = [toH EXCEPT ![ws[w]] = Tail(@)]
         /\ \/ /\ m # Message("submit", m.r)
               /\ toD' = Posted(toD, ws[w], Message("pong", None)) /\ chain' = chain
            \/ /\ m = Message("submit", m.r) /\ m.r \in Req
               /\ chain' = [chain EXCEPT ![w] = Append(@, m.r)] /\ toD' = toD
         /\ UNCHANGED <<daemon, dsock, hsock, ws, step, desktop, landed, prompted>>
<1> DEFINE m == Head(toH[ws[w]])
<1>1. ws[w] \in Sock /\ toH[ws[w]] # <<>> /\ toH[ws[w]] \in Seq(HelperMessage)
  BY DEF HelperHears, BridgeShape
<1>2. m \in HelperMessage
  BY <1>1, Taken
<1>3. \/ m.kind = "ping" /\ m # Message("submit", m.r)
      \/ m.kind # "ping" /\ m.r \in Req /\ m = Message("submit", m.r)
  <2> HIDE DEF m
  <2> QED BY <1>2 DEF HelperMessage, Message
<1> QED BY <1>1, <1>3 DEF HelperHears

LEMMA AckSent ==
  ASSUME BridgeShape, NEW w \in Window, NEW how \in {"ack_ok", "ack_fail"}, NEW r \in Req,
         SendAck(w, how, r)
  PROVE  /\ toD' \in [Sock -> Seq(DaemonMessage)]
         /\ \A s \in Sock : \/ toD'[s] = toD[s]
                            \/ toD'[s] = Append(toD[s], Message(how, r))
<1>1. toD \in [Sock -> Seq(DaemonMessage)] /\ Message(how, r) \in DaemonMessage
  BY MessagesTyped DEF BridgeShape
<1>2. toD' = toD \/ toD' = Posted(toD, ws[w], Message(how, r))
  BY DEF SendAck
<1>3. CASE toD' = toD
  BY <1>1, <1>3
<1>4. CASE toD' = Posted(toD, ws[w], Message(how, r))
  <2> DEFINE m == Message(how, r)
             after == Posted(toD, ws[w], m)
  <2>1. /\ after \in [Sock -> Seq(DaemonMessage)]
        /\ \A t \in Sock : after[t] = toD[t] \/ after[t] = Append(toD[t], m)
    <3>1. m \in DaemonMessage
      BY <1>1
    <3> HIDE DEF m
    <3> QED BY <1>1, <3>1, PostedRight
  <2>2. toD' = after
    BY <1>4
  <2> HIDE DEF after, m
  <2>3. /\ toD' \in [Sock -> Seq(DaemonMessage)]
        /\ \A t \in Sock : toD'[t] = toD[t] \/ toD'[t] = Append(toD[t], m)
    BY <2>1, <2>2
  <2> QED BY <2>3 DEF m
<1> QED BY <1>2, <1>3, <1>4

\* A script goes on with what it works on.
LEMMA OnwardShape ==
  ASSUME BridgeShape, NEW w \in Window, ~Idle(w),
         NEW where \in {"front", "paste", "enter", "restore"}, Onward(w, where)
  PROVE  /\ step[w] \in Steps
         /\ step' \in [Window -> Steps \cup {None}]
         /\ step'[w] = [r |-> step[w].r, at |-> where]
         /\ \A v \in Window \ {w} : step'[v] = step[v]
<1>1. step[w] \in Steps
  BY DEF BridgeShape, Idle
<1>2. [step[w] EXCEPT !.at = where] = [r |-> step[w].r, at |-> where]
  BY <1>1 DEF Steps
<1>3. [r |-> step[w].r, at |-> where] \in Steps
  BY <1>1 DEF Steps
<1>4. step' = [step EXCEPT ![w] = [r |-> step[w].r, at |-> where]]
  BY <1>2 DEF Onward
<1> QED BY <1>1, <1>3, <1>4 DEF BridgeShape

LEMMA ShapeStep == BridgeShape /\ ScriptRight /\ [BridgeNext]_bridgeVars => BridgeShape'
<1> SUFFICES ASSUME BridgeShape, ScriptRight, [BridgeNext]_bridgeVars PROVE BridgeShape'
  OBVIOUS
<1> USE DEF daemon, links, windows, desktop
<1>1. ASSUME NEW r \in Req, SendHelper(r) PROVE BridgeShape'
  <2> DEFINE s == FindForCwd(r)
  <2> HIDE DEF s
  <2>1. /\ req' = [req EXCEPT ![r] = IF s = None THEN "nohelper" ELSE "waiting"]
        /\ listens' = [listens EXCEPT ![r] = s]
        /\ toH' = toH \/ toH' = Posted(toH, s, Message("submit", r))
    BY <1>1 DEF SendHelper, s
  <2>2. req' \in [Req -> Answers]
    BY <2>1 DEF BridgeShape, Answers
  <2>3. listens' = [q \in Req |-> listens'[q]]
    BY <2>1 DEF BridgeShape
  <2>4. Posted(toH, s, Message("submit", r)) \in [Sock -> Seq(HelperMessage)]
    BY MessagesTyped, PostedRight DEF BridgeShape
  <2>5. toH' \in [Sock -> Seq(HelperMessage)]
    BY <2>1, <2>4 DEF BridgeShape
  <2> QED BY <1>1, <2>2, <2>3, <2>5 DEF SendHelper, BridgeShape
<1>2. ASSUME NEW r \in Req, SendPrefill(r) \/ SendLegacy(r) PROVE BridgeShape'
  <2>1. req' \in [Req -> Answers]
    BY <1>2 DEF SendPrefill, SendLegacy, BridgeShape, Answers
  <2>2. shown' \in [Window -> Session \cup {None}] /\ box' \in [Window -> [Session -> Text]]
    BY <1>2, AddressShape DEF SendPrefill, SendLegacy
  <2> QED BY <1>2, <2>1, <2>2 DEF SendPrefill, SendLegacy, BridgeShape
<1>3. ASSUME NEW r \in Req, SendSubmit(r) PROVE BridgeShape'
  BY <1>3 DEF SendSubmit, BridgeShape, Answers
<1>4. ASSUME NEW r \in Req, SubmitTimeout(r) PROVE BridgeShape'
  BY <1>4 DEF SubmitTimeout, BridgeShape, Answers
<1>5. ASSUME NEW r \in Req, HeadlessTakes(r) PROVE BridgeShape'
  <2>1. Target[r] \in Session /\ <<r>> \in Text
    BY HelperAssumption DEF Text
  <2>2. landed' \in [Session -> Seq(Text)]
    BY <1>5, <2>1 DEF HeadlessTakes, BridgeShape
  <2> QED BY <1>5, <2>2 DEF HeadlessTakes, BridgeShape
<1>6. ASSUME NEW r \in Req, HeadlessExits(r) \/ HeadlessTimesOut(r) PROVE BridgeShape'
  BY <1>6 DEF HeadlessExits, HeadlessTimesOut, BridgeShape, Answers
<1>7. ASSUME NEW s \in Sock, DaemonHears(s) PROVE BridgeShape'
  <2>0. Tail(toD[s]) \in Seq(DaemonMessage) /\ toD' = [toD EXCEPT ![s] = Tail(toD[s])]
    BY <1>7, DaemonHearing, Taken
  <2>1. toD' \in [Sock -> Seq(DaemonMessage)]
    BY <2>0 DEF BridgeShape
  <2>2. req' \in [Req -> Answers] /\ listens' = [r \in Req |-> listens'[r]]
    BY <1>7, DaemonHearing DEF BridgeShape, Acked, Answers
  <2> QED BY <1>7, <2>1, <2>2, DaemonHearing DEF BridgeShape
<1>8. ASSUME NEW s \in Sock, SeesClose(s) PROVE BridgeShape'
  BY <1>8 DEF SeesClose, BridgeShape
<1>9. ASSUME NEW s \in Sock, Heartbeat(s) PROVE BridgeShape'
  <2>1. toH' = toH \/ toH' = Posted(toH, s, Message("ping", None))
    BY <1>9 DEF Heartbeat
  <2>2. Posted(toH, s, Message("ping", None)) \in [Sock -> Seq(HelperMessage)]
    BY MessagesTyped, PostedRight DEF BridgeShape
  <2>3. toH' \in [Sock -> Seq(HelperMessage)]
    BY <2>1, <2>2 DEF BridgeShape
  <2> QED BY <1>9, <2>3 DEF Heartbeat, BridgeShape
<1>10. ASSUME NEW w \in Window, ConnectHelper(w) PROVE BridgeShape'
  <2>1. <<Message("register", w)>> \in Seq(DaemonMessage)
    BY MessagesTyped
  <2> QED BY <1>10, <2>1 DEF ConnectHelper, BridgeShape
<1>11. ASSUME NEW w \in Window, Loses(w) PROVE BridgeShape'
  BY <1>11 DEF Loses, BridgeShape
<1>12. ASSUME NEW w \in Window, HelperHears(w) PROVE BridgeShape'
  <2> DEFINE m == Head(toH[ws[w]])
  <2> HIDE DEF m
  <2>0. /\ Tail(toH[ws[w]]) \in Seq(HelperMessage)
        /\ toH' = [toH EXCEPT ![ws[w]] = Tail(toH[ws[w]])]
    BY <1>12, HelperHearing, Taken
  <2>1. toH' \in [Sock -> Seq(HelperMessage)]
    BY <2>0 DEF BridgeShape
  <2>2. Posted(toD, ws[w], Message("pong", None)) \in [Sock -> Seq(DaemonMessage)]
    BY MessagesTyped, PostedRight DEF BridgeShape
  <2>3. toD' = toD \/ toD' = Posted(toD, ws[w], Message("pong", None))
    BY <1>12, HelperHearing
  <2>4. \/ chain' = chain
        \/ m.r \in Req /\ chain' = [chain EXCEPT ![w] = Append(@, m.r)]
    BY <1>12, HelperHearing DEF m
  <2>5. chain' \in [Window -> Seq(Req)]
    <3>1. chain \in [Window -> Seq(Req)]
      BY DEF BridgeShape
    <3>2. m.r \in Req => Append(chain[w], m.r) \in Seq(Req)
      BY <3>1
    <3> QED BY ONLY <2>4, <3>1, <3>2
  <2>6. toD' \in [Sock -> Seq(DaemonMessage)]
    BY <2>2, <2>3 DEF BridgeShape
  <2> QED BY <1>12, <2>1, <2>5, <2>6 DEF HelperHears, BridgeShape
<1>13. ASSUME NEW w \in Window, Reveal(w) PROVE BridgeShape'
  <2>1. Head(chain[w]) \in Req /\ Tail(chain[w]) \in Seq(Req)
    BY <1>13 DEF Reveal, BridgeShape
  <2>2. [r |-> Head(chain[w]), at |-> "copy"] \in Steps /\ Target[Head(chain[w])] \in Session
    BY <2>1, HelperAssumption DEF Steps
  <2> QED BY <1>13, <2>1, <2>2 DEF Reveal, ChainLeft, PanelOf, BridgeShape
<1>14. ASSUME NEW w \in Window, Fails(w) PROVE BridgeShape'
  <2>1. step[w].r \in Req
    BY <1>14 DEF Fails, At, Idle, BridgeShape, Steps
  <2>2. toD' \in [Sock -> Seq(DaemonMessage)]
    BY <1>14, <2>1, AckSent DEF Fails
  <2> QED BY <1>14, <2>2 DEF Fails, BridgeShape
<1>15. ASSUME NEW w \in Window, Copy(w) \/ Front(w) PROVE BridgeShape'
  <2>1. step' \in [Window -> Steps \cup {None}]
    BY <1>15, OnwardShape DEF Copy, Front, At
  <2> QED BY <1>15, <2>1 DEF Copy, Front, BridgeShape
<1>16. ASSUME NEW w \in Window, Paste(w) PROVE BridgeShape'
  <2>1. step' \in [Window -> Steps \cup {None}] /\ step[w] \in Steps
    BY <1>16, OnwardShape DEF Paste, At
  <2>2. clip \in Req /\ fg = w
    BY <1>16, <2>1 DEF Paste, At, ScriptRight, Steps
  <2>3. <<clip>> \in Text
    BY <2>2 DEF Text
  <2>4. box' \in [Window -> [Session -> Text]]
    <3>1. CASE box' = box
      BY <3>1 DEF BridgeShape
    <3>2. CASE shown[w] # None /\ box' = [box EXCEPT ![w][shown[w]] = <<clip>>]
      BY <2>3, <3>2, BoxFilled DEF BridgeShape
    <3> QED BY <1>16, <2>2, <3>1, <3>2 DEF Paste
  <2> QED BY <1>16, <2>1, <2>4 DEF Paste, BridgeShape
<1>17. ASSUME NEW w \in Window, Enter(w) PROVE BridgeShape'
  <2>1. step' \in [Window -> Steps \cup {None}]
    BY <1>17, OnwardShape DEF Enter, At
  <2>2. fg = w
    BY <1>17 DEF Enter, At, ScriptRight
  <2>3. box' \in [Window -> [Session -> Text]] /\ landed' \in [Session -> Seq(Text)]
    BY <1>17, <2>2, PressShape DEF Enter
  <2> QED BY <1>17, <2>1, <2>3 DEF Enter, BridgeShape
<1>18. ASSUME NEW w \in Window, Restore(w) PROVE BridgeShape'
  <2>1. step[w].r \in Req
    BY <1>18 DEF Restore, At, Idle, BridgeShape, Steps
  <2>2. toD' \in [Sock -> Seq(DaemonMessage)]
    BY <1>18, <2>1, AckSent DEF Restore
  <2> QED BY <1>18, <2>2 DEF Restore, BridgeShape
<1>19. CASE LegacyEnters
  <2>1. box' \in [Window -> [Session -> Text]] /\ landed' \in [Session -> Seq(Text)]
    BY <1>19, PressShape DEF LegacyEnters
  <2> QED BY <1>19, <2>1 DEF LegacyEnters, BridgeShape, Answers
<1>20. CASE UNCHANGED bridgeVars
  BY <1>20 DEF bridgeVars, BridgeShape
<1> QED BY <1>1, <1>2, <1>3, <1>4, <1>5, <1>6, <1>7, <1>8, <1>9, <1>10, <1>11, <1>12, <1>13,
           <1>14, <1>15, <1>16, <1>17, <1>18, <1>19, <1>20 DEF BridgeNext, Send, Script

LEMMA OthersIdle ==
  ASSUME DesktopAlone, NEW w \in Window, ~Idle(w)
  PROVE  legacy = None /\ \A v \in Window \ {w} : Idle(v)
  BY DEF DesktopAlone

\* Nothing has the desktop when something new takes it.
LEMMA FreeDesktop ==
  ASSUME Undisturbed, NEW w, DesktopFree(w)
  PROVE  legacy = None /\ \A v \in Window \ {w} : Idle(v)
  BY DEF Undisturbed, DesktopFree

LEMMA AllIdle ==
  ASSUME Undisturbed, DesktopFree(None)
  PROVE  legacy = None /\ \A v \in Window : Idle(v)
<1>1. None \notin Window
  BY HelperAssumption
<1> QED BY <1>1, FreeDesktop

LEMMA AloneStep ==
  ASSUME Undisturbed, BridgeShape, DesktopAlone, [BridgeNext]_bridgeVars
  PROVE  DesktopAlone'
<1> USE DEF daemon, links, windows, desktop
<1>0. ASSUME \A v \in Window : Idle(v) => Idle(v)', legacy' = legacy \/ legacy' = None
      PROVE  DesktopAlone'
  BY <1>0 DEF DesktopAlone
<1>1. ASSUME NEW w \in Window, Reveal(w) PROVE DesktopAlone'
  <2>1. legacy = None /\ \A v \in Window \ {w} : Idle(v)
    BY <1>1, FreeDesktop DEF Reveal
  <2>2. legacy' = legacy /\ \A v \in Window \ {w} : step'[v] = step[v]
    BY <1>1 DEF Reveal, BridgeShape
  <2> QED BY <2>1, <2>2 DEF DesktopAlone, Idle
<1>2. ASSUME NEW w \in Window, ~Idle(w), legacy' = legacy,
             \A v \in Window \ {w} : step'[v] = step[v]
      PROVE  DesktopAlone'
  BY <1>0, <1>2 DEF Idle
<1>3. ASSUME NEW w \in Window, Copy(w) \/ Front(w) \/ Paste(w) \/ Enter(w) PROVE DesktopAlone'
  <2>1. /\ ~Idle(w) /\ legacy' = legacy
        /\ \E where \in {"front", "paste", "enter", "restore"} : Onward(w, where)
    BY <1>3 DEF Copy, Front, Paste, Enter, At
  <2> QED BY <1>2, <2>1, OnwardShape
<1>4. ASSUME NEW w \in Window, Fails(w) \/ Restore(w) PROVE DesktopAlone'
  <2>1. ~Idle(w) /\ legacy' = legacy /\ step' = [step EXCEPT ![w] = None]
    BY <1>4 DEF Fails, Restore, At
  <2> QED BY <1>2, <2>1 DEF BridgeShape
<1>5. ASSUME NEW r \in Req, SendLegacy(r) PROVE DesktopAlone'
  <2>1. \A v \in Window : Idle(v)
    BY <1>5, AllIdle DEF SendLegacy
  <2>2. step' = step
    BY <1>5 DEF SendLegacy
  <2> QED BY <2>1, <2>2 DEF DesktopAlone, Idle
<1>6. CASE LegacyEnters
  BY <1>0, <1>6 DEF LegacyEnters, Idle
<1>7. ASSUME UNCHANGED <<step, legacy>> PROVE DesktopAlone'
  BY <1>0, <1>7 DEF Idle
<1>8. CASE \/ \E r \in Req : \/ SendHelper(r) \/ SendPrefill(r) \/ SendSubmit(r) \/ SubmitTimeout(r)
                             \/ HeadlessTakes(r) \/ HeadlessExits(r) \/ HeadlessTimesOut(r)
           \/ \E s \in Sock : DaemonHears(s) \/ SeesClose(s) \/ Heartbeat(s)
           \/ \E w \in Window : ConnectHelper(w) \/ Loses(w) \/ HelperHears(w)
           \/ UNCHANGED bridgeVars
  BY <1>7, <1>8 DEF SendHelper, SendPrefill, SendSubmit, SubmitTimeout, HeadlessTakes, HeadlessExits,
     HeadlessTimesOut, DaemonHears, SeesClose, Heartbeat, ConnectHelper, Loses, HelperHears, bridgeVars
<1> QED BY <1>1, <1>3, <1>4, <1>5, <1>6, <1>8 DEF BridgeNext, Send, Script

LEMMA ScriptStep ==
  ASSUME Undisturbed, BridgeShape, DesktopAlone, ScriptRight, [BridgeNext]_bridgeVars
  PROVE  ScriptRight'
<1> USE DEF daemon, links, windows, desktop
<1>0. ASSUME \A v \in Window : Idle(v)' PROVE ScriptRight'
  BY <1>0 DEF ScriptRight
<1>1. ASSUME NEW w \in Window, Reveal(w) PROVE ScriptRight'
  <2> DEFINE r == Head(chain[w])
  <2>1. /\ \A v \in Window \ {w} : Idle(v)'
        /\ step'[w] = [r |-> r, at |-> "copy"] /\ shown'[w] = Target[r]
    BY <1>1, FreeDesktop DEF Reveal, PanelOf, BridgeShape, Idle
  <2> HIDE DEF r
  <2>2. step'[w].r = r /\ step'[w].at = "copy"
    BY <2>1
  <2> QED BY <2>1, <2>2 DEF ScriptRight
<1>2. ASSUME NEW w \in Window, Fails(w) \/ Restore(w) PROVE ScriptRight'
  <2>1. ~Idle(w) /\ step' = [step EXCEPT ![w] = None]
    BY <1>2 DEF Fails, Restore, At
  <2> QED BY <1>0, <2>1, OthersIdle DEF BridgeShape, Idle
<1>a. ASSUME NEW w \in Window, ~Idle(w),
             NEW where \in {"front", "paste", "enter", "restore"}, Onward(w, where)
      PROVE  /\ step[w].r \in Req /\ Target[step[w].r] \in Session
             /\ step'[w].r = step[w].r /\ step'[w].at = where
             /\ \A v \in Window \ {w} : Idle(v)'
  <2>1. /\ step[w] \in Steps /\ step'[w] = [r |-> step[w].r, at |-> where]
        /\ \A v \in Window \ {w} : step'[v] = step[v]
    BY <1>a, OnwardShape
  <2>2. step'[w].r = step[w].r /\ step'[w].at = where
    BY <2>1
  <2> QED BY <1>a, <2>1, <2>2, OthersIdle, HelperAssumption DEF Steps, Idle
<1>3. ASSUME NEW w \in Window, Copy(w) PROVE ScriptRight'
  BY <1>3, <1>a DEF Copy, At, ScriptRight
<1>4. ASSUME NEW w \in Window, Front(w) PROVE ScriptRight'
  <2>1. fg' = w
    BY <1>4 DEF Front, Undisturbed
  <2> QED BY <1>4, <1>a, <2>1 DEF Front, At, ScriptRight
<1>5. ASSUME NEW w \in Window, Paste(w) PROVE ScriptRight'
  <2>1. /\ step'[w].r = step[w].r /\ step'[w].at = "enter" /\ Target[step[w].r] \in Session
        /\ \A v \in Window \ {w} : Idle(v)'
    BY <1>5, <1>a DEF Paste, At
  <2>2. shown[w] = Target[step[w].r] /\ clip = step[w].r /\ fg = w
    BY <1>5 DEF Paste, At, ScriptRight
  <2>3. shown[w] # None
    BY <2>1, <2>2, HelperAssumption
  <2>4. box' = [box EXCEPT ![w][shown[w]] = <<clip>>]
    BY <1>5, <2>2, <2>3 DEF Paste
  <2>5. box'[w][Target[step[w].r]] = <<step[w].r>>
    BY <2>1, <2>2, <2>4 DEF BridgeShape
  <2>6. UNCHANGED <<shown, clip, fg>>
    BY <1>5 DEF Paste
  <2> QED BY <2>1, <2>2, <2>5, <2>6 DEF ScriptRight
<1>6. ASSUME NEW w \in Window, Enter(w) PROVE ScriptRight'
  BY <1>6, <1>a DEF Enter, At, ScriptRight
<1>7. ASSUME NEW r \in Req, SendPrefill(r) \/ SendLegacy(r) PROVE ScriptRight'
  BY <1>0, <1>7, AllIdle DEF SendPrefill, SendLegacy, Idle
<1>8. CASE LegacyEnters
  <2>1. \A v \in Window : Idle(v)
    BY <1>8 DEF LegacyEnters, DesktopAlone
  <2> QED BY <1>0, <1>8, <2>1 DEF LegacyEnters, Idle
<1>9. ASSUME UNCHANGED <<step, shown, clip, fg, box>> PROVE ScriptRight'
  BY <1>9 DEF ScriptRight, Idle
<1>10. CASE \/ \E r \in Req : \/ SendHelper(r) \/ SendSubmit(r) \/ SubmitTimeout(r)
                              \/ HeadlessTakes(r) \/ HeadlessExits(r) \/ HeadlessTimesOut(r)
            \/ \E s \in Sock : DaemonHears(s) \/ SeesClose(s) \/ Heartbeat(s)
            \/ \E w \in Window : ConnectHelper(w) \/ Loses(w) \/ HelperHears(w)
            \/ UNCHANGED bridgeVars
  BY <1>9, <1>10 DEF SendHelper, SendSubmit, SubmitTimeout, HeadlessTakes, HeadlessExits,
     HeadlessTimesOut, DaemonHears, SeesClose, Heartbeat, ConnectHelper, Loses, HelperHears, bridgeVars
<1> QED BY <1>1, <1>2, <1>3, <1>4, <1>5, <1>6, <1>7, <1>8, <1>10 DEF BridgeNext, Send, Script

LEMMA WaitStep == BridgeShape /\ CallersWait /\ [BridgeNext]_bridgeVars => CallersWait'
<1> SUFFICES ASSUME BridgeShape, CallersWait, [BridgeNext]_bridgeVars PROVE CallersWait'
  OBVIOUS
<1> USE DEF daemon, links, windows, desktop
<1>0. legacy # None => legacy \in Req
  BY DEF BridgeShape
<1>1. ASSUME NEW r \in Req, SendHelper(r) PROVE CallersWait'
  <2> DEFINE s == FindForCwd(r)
  <2> HIDE DEF s
  <2>1. /\ req[r] = "new" /\ legacy' = legacy
        /\ req' = [req EXCEPT ![r] = IF s = None THEN "nohelper" ELSE "waiting"]
        /\ listens' = [listens EXCEPT ![r] = s]
    BY <1>1 DEF SendHelper, s
  <2>2. /\ listens'[r] = s /\ req'[r] = (IF s = None THEN "nohelper" ELSE "waiting")
        /\ \A q \in Req \ {r} : listens'[q] = listens[q] /\ req'[q] = req[q]
    BY <2>1 DEF BridgeShape
  <2> QED BY <1>0, <2>1, <2>2 DEF CallersWait
<1>2. ASSUME NEW r \in Req, NEW a, req' = [req EXCEPT ![r] = a], UNCHANGED <<listens, legacy>>,
             req[r] \in {"new", "running"}
      PROVE  CallersWait'
  <2>1. listens[r] = None /\ (legacy # None => legacy # r)
    BY <1>2 DEF CallersWait
  <2> QED BY <1>0, <1>2, <2>1 DEF CallersWait, BridgeShape
<1>3. ASSUME NEW r \in Req, SendPrefill(r) PROVE CallersWait'
  BY <1>2, <1>3 DEF SendPrefill
<1>4. ASSUME NEW r \in Req, SendLegacy(r) PROVE CallersWait'
  <2>1. listens[r] = None
    BY <1>4 DEF SendLegacy, CallersWait
  <2> QED BY <1>4, <2>1 DEF SendLegacy, CallersWait, BridgeShape
<1>5. ASSUME NEW r \in Req, SendSubmit(r) PROVE CallersWait'
  BY <1>2, <1>5 DEF SendSubmit
<1>6. ASSUME NEW r \in Req, SubmitTimeout(r) PROVE CallersWait'
  <2>1. req[r] = "waiting"
    BY <1>6 DEF SubmitTimeout, CallersWait
  <2> QED BY <1>0, <1>6, <2>1 DEF SubmitTimeout, CallersWait, BridgeShape
<1>7. ASSUME NEW r \in Req, HeadlessExits(r) \/ HeadlessTimesOut(r) PROVE CallersWait'
  <2>1. CASE HeadlessExits(r)
    BY <1>2, <2>1 DEF HeadlessExits
  <2>2. CASE HeadlessTimesOut(r)
    BY <1>2, <2>2 DEF HeadlessTimesOut
  <2> QED BY <1>7, <2>1, <2>2
<1>8. ASSUME NEW s \in Sock, NEW r \in Req, NEW how, Acked(s, r, how), legacy' = legacy
      PROVE  CallersWait'
  <2>1. s # None
    BY HelperAssumption DEF Sock
  <2>2. \A q \in Req : \/ listens'[q] = None /\ req[q] = "waiting"
                       \/ listens'[q] = listens[q] /\ req'[q] = req[q]
    BY <1>8, <2>1 DEF Acked, AckFor, CallersWait
  <2> QED BY <1>0, <1>8, <2>2 DEF CallersWait
<1>9. ASSUME NEW s \in Sock, DaemonHears(s) PROVE CallersWait'
  <2>1. CASE UNCHANGED <<req, listens>>
    BY <1>9, <2>1, DaemonHearing DEF CallersWait
  <2> QED BY <1>8, <1>9, <2>1, DaemonHearing
<1>10. CASE LegacyEnters
  <2>1. req[legacy] = "legacy" /\ legacy \in Req
    BY <1>0, <1>10 DEF LegacyEnters, CallersWait
  <2> QED BY <1>10, <2>1 DEF LegacyEnters, CallersWait, BridgeShape
<1>11. ASSUME UNCHANGED <<req, listens, legacy>> PROVE CallersWait'
  BY <1>11 DEF CallersWait
<1>12. CASE \/ \E r \in Req : HeadlessTakes(r)
            \/ \E s \in Sock : SeesClose(s) \/ Heartbeat(s)
            \/ \E w \in Window : \/ ConnectHelper(w) \/ Loses(w) \/ HelperHears(w) \/ Reveal(w)
                                 \/ Script(w)
            \/ UNCHANGED bridgeVars
  BY <1>11, <1>12 DEF HeadlessTakes, SeesClose, Heartbeat, ConnectHelper, Loses, HelperHears, Reveal,
     Script, Copy, Front, Paste, Enter, Restore, Fails, bridgeVars
<1> QED BY <1>1, <1>3, <1>4, <1>5, <1>6, <1>7, <1>9, <1>10, <1>12 DEF BridgeNext, Send

----------------------------------------------------------------------------
(* Where a prompt is on its way.                                           *)

LEMMA SubmitsDiffer ==
  ASSUME NEW q, NEW r
  PROVE  /\ Message("submit", q) = Message("submit", r) => q = r
         /\ Message("ping", q) # Message("submit", r)
  BY DEF Message

\* Nothing new comes under way, into a chain or into a script.
LEMMA TokenKept ==
  ASSUME NEW r \in Req, OneToken(r),
         \A s \in Sock : \A i : Submits(s, i, r)' => Submits(s, i, r),
         \A w \in Window : \A i : Queued(w, i, r)' => Queued(w, i, r),
         \A w \in Window : Works(r, w)' => Works(r, w)
  PROVE  OneToken(r)'
<1>1. (UnderWay(r)' => UnderWay(r)) /\ (Chained(r)' => Chained(r))
  BY DEF UnderWay, Chained, Submits, Queued
<1>2. ASSUME NEW s \in Sock, NEW t \in Sock, NEW i \in DOMAIN toH'[s], NEW j \in DOMAIN toH'[t],
             Submits(s, i, r)', Submits(t, j, r)'
      PROVE  s = t /\ i = j
  <2>1. Submits(s, i, r) /\ Submits(t, j, r)
    BY <1>2
  <2>2. i \in DOMAIN toH[s] /\ j \in DOMAIN toH[t]
    BY <2>1 DEF Submits
  <2> QED BY <2>1, <2>2 DEF OneToken
<1>3. ASSUME NEW v \in Window, NEW w \in Window, NEW i \in DOMAIN chain'[v], NEW j \in DOMAIN chain'[w],
             Queued(v, i, r)', Queued(w, j, r)'
      PROVE  v = w /\ i = j
  <2>1. Queued(v, i, r) /\ Queued(w, j, r)
    BY <1>3
  <2>2. i \in DOMAIN chain[v] /\ j \in DOMAIN chain[w]
    BY <2>1 DEF Queued
  <2> QED BY <2>1, <2>2 DEF OneToken
<1>4. (UnderWay(r) => ~Chained(r)) /\ (UnderWay(r) \/ Chained(r) => \A w \in Window : ~Works(r, w))
  BY DEF OneToken
<1>5. (UnderWay(r)' => ~Chained(r)') /\ (UnderWay(r)' \/ Chained(r)' => \A w \in Window : ~Works(r, w)')
  BY <1>1, <1>4
<1> QED BY <1>2, <1>3, <1>5 DEF OneToken

\* A message that is no submit of the prompt joins a queue.
LEMMA OtherSent ==
  ASSUME BridgeShape, NEW r \in Req, NEW m \in HelperMessage, m # Message("submit", r), NEW s,
         toH' = toH \/ toH' = Posted(toH, s, m)
  PROVE  \A t \in Sock : \A i : Submits(t, i, r)' => Submits(t, i, r)
<1> SUFFICES ASSUME NEW t \in Sock, NEW i, Submits(t, i, r)' PROVE Submits(t, i, r)
  OBVIOUS
<1>0. toH \in [Sock -> Seq(HelperMessage)]
  BY DEF BridgeShape
<1>1. toH'[t] = toH[t] \/ toH'[t] = Append(toH[t], m)
  <2>1. \/ toH' = toH
        \/ toH' = [toH EXCEPT ![s] = Append(@, m)]
    BY DEF Posted
  <2> QED BY <1>0, <2>1
<1>2. toH[t] \in Seq(HelperMessage)
  BY <1>0
<1>3. CASE toH'[t] = toH[t]
  BY <1>3 DEF Submits
<1>4. CASE toH'[t] = Append(toH[t], m)
  BY <1>2, <1>4, Added DEF Submits
<1> QED BY <1>1, <1>3, <1>4

LEMMA WorksOnward ==
  ASSUME BridgeShape, NEW w \in Window, ~Idle(w),
         NEW where \in {"front", "paste", "enter", "restore"}, Onward(w, where)
  PROVE  \A r \in Req, v \in Window : Works(r, v)' => Works(r, v)
<1>1. /\ step'[w] = [r |-> step[w].r, at |-> where]
      /\ \A v \in Window \ {w} : step'[v] = step[v]
  BY OnwardShape
<1>2. step'[w].r = step[w].r
  BY <1>1
<1> QED BY <1>1, <1>2 DEF Works, Idle

\* The four steps of a script before it is through.
LEMMA ScriptGoesOn ==
  ASSUME BridgeShape, NEW w \in Window, Copy(w) \/ Front(w) \/ Paste(w) \/ Enter(w)
  PROVE  /\ ~Idle(w) /\ step[w].at # "restore"
         /\ \E where \in {"front", "paste", "enter", "restore"} :
               Onward(w, where) /\ (where = "restore" <=> Enter(w))
<1>1. CASE Copy(w)
  BY <1>1 DEF Copy, Enter, At
<1>2. CASE Front(w)
  BY <1>2 DEF Front, Enter, At
<1>3. CASE Paste(w)
  BY <1>3 DEF Paste, Enter, At
<1>4. CASE Enter(w)
  BY <1>4 DEF Enter, At
<1> QED BY <1>1, <1>2, <1>3, <1>4

LEMMA TokenStep ==
  ASSUME BridgeShape, NEW r \in Req, OneToken(r), Stage(r), [BridgeNext]_bridgeVars
  PROVE  OneToken(r)' /\ (Ahead(r)' => Ahead(r) \/ SendHelper(r))
<1> DEFINE Goal == OneToken(r)' /\ (Ahead(r)' => Ahead(r) \/ SendHelper(r))
<1> USE DEF daemon, links, windows, desktop
<1>u. ASSUME UNCHANGED toH PROVE \A s \in Sock : \A i : Submits(s, i, r)' => Submits(s, i, r)
  BY <1>u DEF Submits
<1>c. ASSUME UNCHANGED chain PROVE \A w \in Window : \A i : Queued(w, i, r)' => Queued(w, i, r)
  BY <1>c DEF Queued
<1>s. ASSUME UNCHANGED step
      PROVE  \A w \in Window : (Works(r, w)' <=> Works(r, w)) /\ (Works(r, w) => step'[w].at = step[w].at)
  BY <1>s DEF Works, Idle
<1>k. ASSUME \A s \in Sock : \A i : Submits(s, i, r)' => Submits(s, i, r),
             \A w \in Window : \A i : Queued(w, i, r)' => Queued(w, i, r),
             \A w \in Window : Works(r, w)' => Works(r, w),
             \A w \in Window : Works(r, w)' /\ step'[w].at # "restore" => step[w].at # "restore"
      PROVE  Goal
  <2>1. (UnderWay(r)' => UnderWay(r)) /\ (Chained(r)' => Chained(r))
    BY <1>k DEF UnderWay, Chained, Submits, Queued
  <2> QED BY <1>k, <2>1, TokenKept DEF Ahead
<1>1. ASSUME NEW q \in Req, SendHelper(q), q # r PROVE Goal
  <2>1. Message("submit", q) \in HelperMessage /\ Message("submit", q) # Message("submit", r)
    BY <1>1, MessagesTyped, SubmitsDiffer
  <2>2. toH' = toH \/ toH' = Posted(toH, FindForCwd(q), Message("submit", q))
    BY <1>1 DEF SendHelper
  <2>3. \A t \in Sock : \A i : Submits(t, i, r)' => Submits(t, i, r)
    BY <2>1, <2>2, OtherSent
  <2>4. UNCHANGED <<chain, step>>
    BY <1>1 DEF SendHelper
  <2> QED BY <1>c, <1>s, <1>k, <2>3, <2>4
<1>2. CASE SendHelper(r)
  <2> DEFINE s == FindForCwd(r)
             m == Message("submit", r)
  <2> HIDE DEF s
  <2>1. /\ req[r] = "new" /\ UNCHANGED <<chain, step>>
        /\ toH' = toH \/ toH' = Posted(toH, s, m)
    BY <1>2 DEF SendHelper, s
  <2>2. ~Ahead(r) /\ NotLanded(r)
    BY <2>1 DEF Stage, Over
  <2>3. \A w \in Window : ~Works(r, w)
    <3>1. ~LandedOnce(r)
      BY <2>2, HelperAssumption DEF LandedOnce, NotLanded, StandsIn
    <3> QED BY <2>2, <3>1 DEF Stage, Told, Ahead
  <2>4. \A t \in Sock : \A i : ~Submits(t, i, r)
    BY <2>2 DEF Ahead, UnderWay, Submits
  <2>5. ~Chained(r)' /\ \A w \in Window : ~Works(r, w)'
    BY <2>1, <2>2, <2>3 DEF Ahead, Chained, Queued, Works, Idle
  <2>6. ASSUME NEW t \in Sock, NEW i, Submits(t, i, r)'
        PROVE  t = s /\ i = Len(toH[s]) + 1
    <3>1. toH'[t] # toH[t]
      BY <2>4, <2>6 DEF Submits
    <3>2. m \in HelperMessage /\ toH \in [Sock -> Seq(HelperMessage)]
      BY MessagesTyped DEF BridgeShape
    <3> HIDE DEF m
    <3>3. t = s /\ toH'[t] = Append(toH[t], m)
      BY <2>1, <3>1, <3>2, PostedRight
    <3>4. i \in DOMAIN Append(toH[t], m) /\ ~(i \in DOMAIN toH[t] /\ Append(toH[t], m)[i] = toH[t][i])
      <4>1. i \in DOMAIN toH'[t] /\ toH'[t][i] = Message("submit", r)
        BY <2>6 DEF Submits
      <4>2. ~(i \in DOMAIN toH[t] /\ toH[t][i] = Message("submit", r))
        BY <2>4 DEF Submits
      <4> QED BY <3>3, <4>1, <4>2
    <3>5. i = Len(toH[t]) + 1
      BY <3>2, <3>4, Added
    <3> QED BY <3>3, <3>5
  <2>7. ~Chained(r)' /\ \A v \in Window : \A i : ~Queued(v, i, r)'
    BY <2>5 DEF Chained, Queued
  <2> QED BY <1>2, <2>5, <2>6, <2>7 DEF OneToken
<1>3. ASSUME NEW s \in Sock, Heartbeat(s) PROVE Goal
  <2>1. Message("ping", None) \in HelperMessage /\ Message("ping", None) # Message("submit", r)
    BY MessagesTyped, SubmitsDiffer
  <2>2. toH' = toH \/ toH' = Posted(toH, s, Message("ping", None))
    BY <1>3 DEF Heartbeat
  <2>3. \A t \in Sock : \A i : Submits(t, i, r)' => Submits(t, i, r)
    BY <2>1, <2>2, OtherSent
  <2>4. UNCHANGED <<chain, step>>
    BY <1>3 DEF Heartbeat
  <2> QED BY <1>c, <1>s, <1>k, <2>3, <2>4
<1>4. ASSUME NEW w \in Window, Loses(w) PROVE Goal
  <2>1. \A t \in Sock : toH'[t] = toH[t] \/ toH'[t] = <<>>
    BY <1>4 DEF Loses, BridgeShape
  <2>2. \A t \in Sock : \A i : Submits(t, i, r)' => Submits(t, i, r)
    BY <2>1 DEF Submits
  <2>3. UNCHANGED <<chain, step>>
    BY <1>4 DEF Loses
  <2> QED BY <1>c, <1>s, <1>k, <2>2, <2>3
<1>5. ASSUME NEW w \in Window, HelperHears(w) PROVE Goal
  <2> DEFINE s == ws[w]
             m == Head(toH[s])
  <2>1. /\ s \in Sock /\ toH[s] # <<>> /\ toH[s] \in Seq(HelperMessage)
        /\ toH' = [toH EXCEPT ![s] = Tail(toH[s])] /\ step' = step
        /\ \/ m # Message("submit", m.r) /\ chain' = chain
           \/ /\ m = Message("submit", m.r) /\ m.r \in Req
              /\ chain' = [chain EXCEPT ![w] = Append(@, m.r)]
    BY <1>5, HelperHearing
  <2>2. /\ toH'[s] = Tail(toH[s]) /\ \A t \in Sock \ {s} : toH'[t] = toH[t]
        /\ m = toH[s][1] /\ 1 \in DOMAIN toH[s]
        /\ \A i \in DOMAIN Tail(toH[s]) : i + 1 \in DOMAIN toH[s] /\ i + 1 # 1
                                            /\ Tail(toH[s])[i] = toH[s][i + 1]
        /\ DOMAIN Tail(toH[s]) \subseteq Nat
    <3>1. Tail(toH[s]) \in Seq(HelperMessage)
      BY <2>1, Taken
    <3> QED BY <2>1, <3>1, Taken DEF BridgeShape
  <2> HIDE DEF m, s
  <2>3. \A t \in Sock : \A i : Submits(t, i, r)' =>
           (t # s /\ Submits(t, i, r)) \/ (t = s /\ i \in Nat /\ i + 1 # 1 /\ Submits(s, i + 1, r))
    BY <2>2 DEF Submits
  <2>4. UnderWay(r)' => UnderWay(r)
    BY <2>1, <2>3 DEF UnderWay, Submits
  <2>5. \A t, v \in Sock : \A i \in DOMAIN toH'[t], j \in DOMAIN toH'[v] :
           Submits(t, i, r)' /\ Submits(v, j, r)' => t = v /\ i = j
    <3> SUFFICES ASSUME NEW t \in Sock, NEW v \in Sock, NEW i, NEW j,
                        Submits(t, i, r)', Submits(v, j, r)'
                 PROVE  t = v /\ i = j
      OBVIOUS
    <3>1. PICK k : Submits(t, k, r) /\ ((t # s /\ k = i) \/ (t = s /\ i \in Nat /\ k = i + 1))
      BY <2>3
    <3>2. PICK l : Submits(v, l, r) /\ ((v # s /\ l = j) \/ (v = s /\ j \in Nat /\ l = j + 1))
      BY <2>3
    <3>3. t = v /\ k = l
      BY <3>1, <3>2 DEF OneToken, Submits
    <3> QED BY <3>1, <3>2, <3>3
  <2>6. CASE m = Message("submit", r)
    <3>1. Submits(s, 1, r)
      BY <2>2, <2>6 DEF Submits
    <3>2. UnderWay(r) /\ ~Chained(r) /\ \A v \in Window : ~Works(r, v)
      BY <2>1, <3>1 DEF UnderWay, Submits, OneToken
    <3>3. ~UnderWay(r)'
      <4> SUFFICES ASSUME NEW t \in Sock, NEW i, Submits(t, i, r)' PROVE FALSE
        BY DEF UnderWay, Submits
      <4>1. CASE t # s /\ Submits(t, i, r)
        BY <2>1, <3>1, <4>1 DEF OneToken, Submits
      <4>2. CASE t = s /\ i + 1 # 1 /\ Submits(s, i + 1, r)
        BY <2>1, <3>1, <4>2 DEF OneToken, Submits
      <4> QED BY <2>3, <4>1, <4>2
    <3>4. chain' = [chain EXCEPT ![w] = Append(@, m.r)] /\ m.r = r
      BY <2>1, <2>6 DEF Message
    <3>5. \A v \in Window : \A i : ~Queued(v, i, r)
      BY <3>2 DEF Chained, Queued
    <3>6. ASSUME NEW v \in Window, NEW i, Queued(v, i, r)'
          PROVE  v = w /\ i = Len(chain[w]) + 1
      <4>1. v = w
        BY <3>4, <3>5, <3>6 DEF Queued, BridgeShape
      <4>2. chain[w] \in Seq(Req) /\ chain'[w] = Append(chain[w], r)
        BY <3>4 DEF BridgeShape
      <4>3. i \in DOMAIN Append(chain[w], r) /\ ~(i \in DOMAIN chain[w] /\ Append(chain[w], r)[i] = chain[w][i])
        BY <3>5, <3>6, <4>1, <4>2 DEF Queued
      <4> QED BY <4>1, <4>2, <4>3, Added
    <3>7. \A v \in Window : ~Works(r, v)'
      BY <2>1, <3>2 DEF Works, Idle
    <3> QED BY <2>5, <3>2, <3>3, <3>6, <3>7 DEF OneToken, Ahead
  <2>7. CASE m # Message("submit", r)
    <3>1. \A v \in Window : \A i : Queued(v, i, r)' => Queued(v, i, r)
      <4>1. CASE chain' = chain
        BY <4>1, <1>c
      <4>2. CASE m.r # r /\ m.r \in Req /\ chain' = [chain EXCEPT ![w] = Append(@, m.r)]
        <5>1. chain[w] \in Seq(Req) /\ chain'[w] = Append(chain[w], m.r)
              /\ \A v \in Window \ {w} : chain'[v] = chain[v]
          BY <4>2 DEF BridgeShape
        <5> QED BY <4>2, <5>1, Added DEF Queued
      <4> QED BY <2>1, <2>7, <4>1, <4>2
    <3>2. Chained(r)' => Chained(r)
      BY <3>1 DEF Chained, Queued
    <3>3. \A v, x \in Window : \A i \in DOMAIN chain'[v], j \in DOMAIN chain'[x] :
             Queued(v, i, r)' /\ Queued(x, j, r)' => v = x /\ i = j
      BY <3>1 DEF OneToken, Queued
    <3>4. \A v \in Window : (Works(r, v)' <=> Works(r, v)) /\ (Works(r, v) => step'[v].at = step[v].at)
      BY <2>1, <1>s
    <3> QED BY <2>4, <2>5, <3>2, <3>3, <3>4 DEF OneToken, Ahead
  <2> QED BY <2>6, <2>7
<1>6. ASSUME NEW w \in Window, Reveal(w) PROVE Goal
  <2> DEFINE q == Head(chain[w])
  <2>1. /\ chain[w] # <<>> /\ chain[w] \in Seq(Req) /\ chain' = [chain EXCEPT ![w] = Tail(chain[w])]
        /\ step' = [step EXCEPT ![w] = [r |-> q, at |-> "copy"]] /\ toH' = toH
    BY <1>6 DEF Reveal, ChainLeft, BridgeShape
  <2>2. /\ chain'[w] = Tail(chain[w]) /\ \A v \in Window \ {w} : chain'[v] = chain[v]
        /\ q = chain[w][1] /\ 1 \in DOMAIN chain[w]
        /\ \A i \in DOMAIN Tail(chain[w]) : i + 1 \in DOMAIN chain[w] /\ i + 1 # 1
                                              /\ Tail(chain[w])[i] = chain[w][i + 1]
        /\ DOMAIN Tail(chain[w]) \subseteq Nat
    <3>1. Tail(chain[w]) \in Seq(Req)
      BY <2>1, Taken
    <3> QED BY <2>1, <3>1, Taken DEF BridgeShape
  <2>3. /\ step'[w] = [r |-> q, at |-> "copy"]
        /\ \A v \in Window \ {w} : step'[v] = step[v]
    BY <2>1 DEF BridgeShape
  <2> HIDE DEF q
  <2>4. step'[w].r = q
    BY <2>3
  <2>5. \A v \in Window : \A i : Queued(v, i, r)' =>
           (v # w /\ Queued(v, i, r)) \/ (v = w /\ i \in Nat /\ i + 1 # 1 /\ Queued(w, i + 1, r))
    BY <2>2 DEF Queued
  <2>6. Chained(r)' => Chained(r)
    BY <2>5 DEF Chained, Queued
  <2>7. \A v, x \in Window : \A i \in DOMAIN chain'[v], j \in DOMAIN chain'[x] :
           Queued(v, i, r)' /\ Queued(x, j, r)' => v = x /\ i = j
    <3> SUFFICES ASSUME NEW v \in Window, NEW x \in Window, NEW i, NEW j,
                        Queued(v, i, r)', Queued(x, j, r)'
                 PROVE  v = x /\ i = j
      OBVIOUS
    <3>1. PICK k : Queued(v, k, r) /\ ((v # w /\ k = i) \/ (v = w /\ i \in Nat /\ k = i + 1))
      BY <2>5
    <3>2. PICK l : Queued(x, l, r) /\ ((x # w /\ l = j) \/ (x = w /\ j \in Nat /\ l = j + 1))
      BY <2>5
    <3>3. v = x /\ k = l
      BY <3>1, <3>2 DEF OneToken, Queued
    <3> QED BY <3>1, <3>2, <3>3
  <2>8. (UnderWay(r)' <=> UnderWay(r))
        /\ \A s, t \in Sock : \A i \in DOMAIN toH'[s], j \in DOMAIN toH'[t] :
              Submits(s, i, r)' /\ Submits(t, j, r)' => s = t /\ i = j
    BY <2>1 DEF UnderWay, Submits, OneToken
  <2>9. CASE q = r
    <3>1. Queued(w, 1, r)
      BY <2>2, <2>9 DEF Queued
    <3>2. Chained(r) /\ ~UnderWay(r)
      BY <3>1 DEF Chained, Queued, OneToken
    <3>3. ~Chained(r)'
      <4> SUFFICES ASSUME NEW v \in Window, NEW i, Queued(v, i, r)' PROVE FALSE
        BY DEF Chained, Queued
      <4>1. CASE v # w /\ Queued(v, i, r)
        BY <3>1, <4>1 DEF OneToken, Queued
      <4>2. CASE v = w /\ i + 1 # 1 /\ Queued(w, i + 1, r)
        BY <3>1, <4>2 DEF OneToken, Queued
      <4> QED BY <2>5, <4>1, <4>2
    <3> QED BY <2>7, <2>8, <3>2, <3>3 DEF OneToken, Ahead
  <2>10. CASE q # r
    <3>1. \A v \in Window : Works(r, v)' => Works(r, v) /\ step'[v].at = step[v].at
      BY <2>3, <2>4, <2>10 DEF Works, Idle
    <3> QED BY <2>6, <2>7, <2>8, <3>1 DEF OneToken, Ahead
  <2> QED BY <2>9, <2>10
<1>7. ASSUME NEW w \in Window, Fails(w) \/ Restore(w) PROVE Goal
  <2>1. UNCHANGED <<toH, chain>> /\ step' = [step EXCEPT ![w] = None]
    BY <1>7 DEF Fails, Restore
  <2>2. \A v \in Window : Works(r, v)' => Works(r, v) /\ step'[v].at = step[v].at
    BY <2>1 DEF Works, Idle, BridgeShape
  <2> QED BY <1>u, <1>c, <1>k, <2>1, <2>2
<1>8. ASSUME NEW w \in Window, Copy(w) \/ Front(w) \/ Paste(w) \/ Enter(w) PROVE Goal
  <2>1. UNCHANGED <<toH, chain>>
    BY <1>8 DEF Copy, Front, Paste, Enter
  <2>2. PICK where \in {"front", "paste", "enter", "restore"} : Onward(w, where)
    BY <1>8, ScriptGoesOn
  <2>3. ~Idle(w) /\ step[w].at # "restore"
    BY <1>8, ScriptGoesOn
  <2>4. \A v \in Window : Works(r, v)' => Works(r, v)
    BY <2>2, <2>3, WorksOnward
  <2>5. \A v \in Window \ {w} : step'[v] = step[v]
    BY <2>2, <2>3, OnwardShape
  <2> QED BY <1>u, <1>c, <1>k, <2>1, <2>3, <2>4, <2>5
<1>9. ASSUME UNCHANGED <<toH, chain, step>> PROVE Goal
  BY <1>9, <1>u, <1>c, <1>s, <1>k
<1>10. CASE \/ \E q \in Req : \/ SendPrefill(q) \/ SendLegacy(q) \/ SendSubmit(q) \/ SubmitTimeout(q)
                              \/ HeadlessTakes(q) \/ HeadlessExits(q) \/ HeadlessTimesOut(q)
            \/ \E s \in Sock : DaemonHears(s) \/ SeesClose(s)
            \/ \E w \in Window : ConnectHelper(w)
            \/ LegacyEnters \/ UNCHANGED bridgeVars
  BY <1>9, <1>10 DEF SendPrefill, SendLegacy, SendSubmit, SubmitTimeout, HeadlessTakes, HeadlessExits,
     HeadlessTimesOut, DaemonHears, SeesClose, ConnectHelper, LegacyEnters, bridgeVars
<1> QED BY <1>1, <1>2, <1>3, <1>4, <1>5, <1>6, <1>7, <1>8, <1>10 DEF BridgeNext, Send, Script
----------------------------------------------------------------------------
(* What the callers are told, and what the boxes hold.                     *)

\* How the answer to a caller can change.
LEMMA AnswerStep ==
  ASSUME BridgeShape, CallersWait, NEW r \in Req, [BridgeNext]_bridgeVars
  PROVE  \/ req'[r] = req[r]
         \/ SendHelper(r) \/ SendPrefill(r) \/ SendLegacy(r) \/ SendSubmit(r) \/ HeadlessExits(r)
         \/ req[r] = "waiting" /\ req'[r] \in {"timeout", "failed"}
         \/ req[r] = "waiting" /\ req'[r] = "ok" /\ AckedOk(r)
         \/ req[r] = "legacy" /\ req'[r] = "entered"
         \/ req[r] = "running" /\ req'[r] = "failed"
<1> DEFINE Goal == \/ req'[r] = req[r]
                   \/ SendHelper(r) \/ SendPrefill(r) \/ SendLegacy(r) \/ SendSubmit(r) \/ HeadlessExits(r)
                   \/ req[r] = "waiting" /\ req'[r] \in {"timeout", "failed"}
                   \/ req[r] = "waiting" /\ req'[r] = "ok" /\ AckedOk(r)
                   \/ req[r] = "legacy" /\ req'[r] = "entered"
                   \/ req[r] = "running" /\ req'[r] = "failed"
<1> SUFFICES Goal
  OBVIOUS
<1> USE DEF daemon, links, windows, desktop
<1>0. req \in [Req -> Answers]
  BY DEF BridgeShape
<1>1. ASSUME NEW q \in Req, q # r,
             SendHelper(q) \/ SendPrefill(q) \/ SendLegacy(q) \/ SendSubmit(q) \/ HeadlessExits(q)
      PROVE  Goal
  <2>1. \E a : req' = [req EXCEPT ![q] = a]
    BY <1>1 DEF SendHelper, SendPrefill, SendLegacy, SendSubmit, HeadlessExits
  <2>2. req'[r] = req[r]
    BY <1>0, <1>1, <2>1
  <2> QED BY <2>2
<1>2. ASSUME NEW q \in Req, SubmitTimeout(q) PROVE Goal
  <2>1. req' = [req EXCEPT ![q] = "timeout"] /\ req[q] = "waiting"
    BY <1>2 DEF SubmitTimeout, CallersWait
  <2>2. \/ req'[r] = req[r]
        \/ req[r] = "waiting" /\ req'[r] = "timeout"
    BY <1>0, <2>1
  <2> QED BY <2>2
<1>3. ASSUME NEW q \in Req, HeadlessTimesOut(q) PROVE Goal
  <2>1. req' = [req EXCEPT ![q] = "failed"] /\ req[q] = "running"
    BY <1>3 DEF HeadlessTimesOut
  <2>2. \/ req'[r] = req[r]
        \/ req[r] = "running" /\ req'[r] = "failed"
    BY <1>0, <2>1
  <2> QED BY <2>2
<1>4. CASE LegacyEnters
  <2>1. legacy \in Req /\ req[legacy] = "legacy" /\ req' = [req EXCEPT ![legacy] = "entered"]
    BY <1>4 DEF LegacyEnters, CallersWait, BridgeShape
  <2>2. \/ req'[r] = req[r]
        \/ req[r] = "legacy" /\ req'[r] = "entered"
    BY <1>0, <2>1
  <2> QED BY <2>2
<1>5. ASSUME NEW s \in Sock, DaemonHears(s) PROVE Goal
  <2> DEFINE m == Head(toD[s])
  <2>1. \/ UNCHANGED <<req, listens>>
        \/ m = Message("ack_ok", m.r) /\ m.r \in Req /\ Acked(s, m.r, "ok")
        \/ m = Message("ack_fail", m.r) /\ m.r \in Req /\ Acked(s, m.r, "failed")
    BY <1>5, DaemonHearing
  <2>2. 1 \in DOMAIN toD[s] /\ toD[s][1] = m
    <3>1. toD[s] \in Seq(DaemonMessage) /\ toD[s] # <<>>
      BY <1>5 DEF BridgeShape, DaemonHears
    <3> QED BY <3>1, Taken
  <2> HIDE DEF m
  <2>3. s # None
    BY HelperAssumption DEF Sock
  <2>4. ASSUME NEW how, Acked(s, m.r, how), m.r \in Req
        PROVE  \/ req'[r] = req[r]
               \/ req[r] = "waiting" /\ r = m.r /\ req'[r] = how
    <3>1. req'[r] = IF listens[r] = s /\ r = m.r THEN how ELSE req[r]
      BY <2>4 DEF Acked, AckFor
    <3>2. CASE listens[r] = s /\ r = m.r
      BY <2>3, <3>1, <3>2 DEF CallersWait
    <3>3. CASE ~(listens[r] = s /\ r = m.r)
      BY <3>1, <3>3
    <3> QED BY <3>2, <3>3
  <2>5. CASE UNCHANGED <<req, listens>>
    BY <2>5
  <2>6. CASE m = Message("ack_ok", m.r) /\ m.r \in Req /\ Acked(s, m.r, "ok")
    <3>1. r = m.r => AckedOk(r)
      BY <2>2, <2>6 DEF AckedOk
    <3> QED BY <2>4, <2>6, <3>1
  <2>7. CASE m = Message("ack_fail", m.r) /\ m.r \in Req /\ Acked(s, m.r, "failed")
    BY <2>4, <2>7
  <2> QED BY <2>1, <2>5, <2>6, <2>7
<1>6. CASE \/ \E q \in Req : HeadlessTakes(q)
           \/ \E s \in Sock : SeesClose(s) \/ Heartbeat(s)
           \/ \E w \in Window : \/ ConnectHelper(w) \/ Loses(w) \/ HelperHears(w) \/ Reveal(w)
                                \/ Script(w)
           \/ UNCHANGED bridgeVars
  <2>1. req' = req
    BY <1>6 DEF HeadlessTakes, SeesClose, Heartbeat, ConnectHelper, Loses, HelperHears, Reveal,
       Script, Copy, Front, Paste, Enter, Restore, Fails, bridgeVars
  <2> QED BY <2>1
<1> HIDE DEF Goal
<1>7. \A q \in Req : SendHelper(q) \/ SendPrefill(q) \/ SendLegacy(q) \/ SendSubmit(q) \/ HeadlessExits(q)
         => Goal
  BY <1>1 DEF Goal
<1> QED BY <1>2, <1>3, <1>4, <1>5, <1>6, <1>7 DEF BridgeNext, Send

LEMMA TypedStays ==
  ASSUME BridgeShape, CallersWait, NEW r \in Req, Typed(r), [BridgeNext]_bridgeVars
  PROVE  Typed(r)'
<1>1. ~(SendHelper(r) \/ SendPrefill(r) \/ SendLegacy(r) \/ SendSubmit(r) \/ HeadlessExits(r))
  BY DEF Typed, SendHelper, SendPrefill, SendLegacy, SendSubmit, HeadlessExits
<1> QED BY <1>1, AnswerStep DEF Typed
\* Enter takes the text out of one box, and into the transcript of its panel.
LEMMA PressTakes ==
  ASSUME BridgeShape, NEW w \in Window, PressEnter(w)
  PROVE  \/ UNCHANGED <<box, landed>>
         \/ /\ shown[w] \in Session /\ box[w][shown[w]] \in Text
            /\ landed' = [landed EXCEPT ![shown[w]] = Append(@, box[w][shown[w]])]
            /\ \A v \in Window, s \in Session :
                  box'[v][s] = IF v = w /\ s = shown[w] THEN <<>> ELSE box[v][s]
<1>1. CASE shown[w] = None \/ box[w][shown[w]] = <<>>
  BY <1>1 DEF PressEnter
<1>2. CASE ~(shown[w] = None \/ box[w][shown[w]] = <<>>)
  <2>1. /\ landed' = [landed EXCEPT ![shown[w]] = Append(@, box[w][shown[w]])]
        /\ box' = [box EXCEPT ![w][shown[w]] = <<>>]
    BY <1>2 DEF PressEnter
  <2>2. shown[w] \in Session /\ <<>> \in Text
    BY <1>2 DEF BridgeShape, Text
  <2>3. box[w][shown[w]] \in Text
    BY <2>2 DEF BridgeShape
  <2> QED BY <2>1, <2>2, <2>3, BoxFilled
<1> QED BY <1>1, <1>2

\* A script that presses Enter submits its own prompt, by itself.
LEMMA OwnEnter ==
  ASSUME Undisturbed, BridgeShape, DesktopAlone, ScriptRight, NEW w \in Window, Enter(w)
  PROVE  LET q == step[w].r IN
         /\ ~Idle(w) /\ step[w].at = "enter" /\ q \in Req /\ Target[q] \in Session
         /\ landed' = [landed EXCEPT ![Target[q]] = Append(@, <<q>>)]
         /\ \A v \in Window, s \in Session :
               box'[v][s] = IF v = w /\ s = Target[q] THEN <<>> ELSE box[v][s]
         /\ step'[w].at = "restore" /\ step'[w].r = q
         /\ \A v \in Window \ {w} : step'[v] = step[v] /\ Idle(v)
<1> DEFINE q == step[w].r
<1>1. ~Idle(w) /\ step[w].at = "enter" /\ Onward(w, "restore") /\ PressEnter(fg)
  BY DEF Enter, At
<1>2. /\ step[w] \in Steps /\ step'[w] = [r |-> q, at |-> "restore"]
      /\ \A v \in Window \ {w} : step'[v] = step[v]
  BY <1>1, OnwardShape
<1>3. step'[w].at = "restore" /\ step'[w].r = q
  BY <1>2
<1>4. q \in Req /\ Target[q] \in Session
  BY <1>2, HelperAssumption DEF Steps
<1>5. fg = w /\ shown[w] = Target[q] /\ box[w][Target[q]] = <<q>>
  BY <1>1 DEF ScriptRight
<1>6. ~(shown[w] = None \/ box[w][shown[w]] = <<>>)
  BY <1>4, <1>5, HelperAssumption
<1>7. /\ landed' = [landed EXCEPT ![Target[q]] = Append(@, <<q>>)]
      /\ box' = [box EXCEPT ![w][Target[q]] = <<>>]
  BY <1>1, <1>5, <1>6 DEF PressEnter
<1>8. <<>> \in Text
  BY DEF Text
<1>9. \A v \in Window, s \in Session :
         box'[v][s] = IF v = w /\ s = Target[q] THEN <<>> ELSE box[v][s]
  BY <1>4, <1>7, <1>8, BoxFilled
<1>10. \A v \in Window \ {w} : Idle(v)
  BY <1>1, OthersIdle
<1> QED BY <1>1, <1>2, <1>3, <1>4, <1>7, <1>9, <1>10

\* A script that pastes fills the box of its own panel.
LEMMA OwnPaste ==
  ASSUME Undisturbed, BridgeShape, DesktopAlone, ScriptRight, NEW w \in Window, Paste(w)
  PROVE  LET q == step[w].r IN
         /\ ~Idle(w) /\ step[w].at = "paste" /\ q \in Req /\ Target[q] \in Session
         /\ \A v \in Window, s \in Session :
               box'[v][s] = IF v = w /\ s = Target[q] THEN <<q>> ELSE box[v][s]
         /\ ~Idle(w)' /\ step'[w].at = "enter" /\ step'[w].r = q
         /\ \A v \in Window \ {w} : step'[v] = step[v] /\ Idle(v)
<1> DEFINE q == step[w].r
<1>1. ~Idle(w) /\ step[w].at = "paste" /\ Onward(w, "enter")
  BY DEF Paste, At
<1>2. /\ step[w] \in Steps /\ step'[w] = [r |-> q, at |-> "enter"]
      /\ step' \in [Window -> Steps \cup {None}]
      /\ \A v \in Window \ {w} : step'[v] = step[v]
  BY <1>1, OnwardShape
<1>3. step'[w].at = "enter" /\ step'[w].r = q /\ ~Idle(w)'
  <2>1. step'[w] \in Steps
    BY <1>2 DEF Steps
  <2>2. None \notin Steps
    BY HelperAssumption
  <2>3. step'[w].at = "enter" /\ step'[w].r = q
    BY <1>2
  <2> QED BY <2>1, <2>2, <2>3 DEF Idle
<1>4. q \in Req /\ Target[q] \in Session /\ <<q>> \in Text
  BY <1>2, HelperAssumption DEF Steps, Text
<1>5. fg = w /\ shown[w] = Target[q] /\ clip = q /\ shown[w] # None
  BY <1>1, <1>4, HelperAssumption DEF ScriptRight
<1>6. box' = [box EXCEPT ![w][Target[q]] = <<q>>]
  BY <1>5 DEF Paste
<1>7. \A v \in Window, s \in Session :
         box'[v][s] = IF v = w /\ s = Target[q] THEN <<q>> ELSE box[v][s]
  BY <1>4, <1>6, BoxFilled
<1>8. \A v \in Window \ {w} : Idle(v)
  BY <1>1, OthersIdle
<1> QED BY <1>1, <1>2, <1>3, <1>4, <1>7, <1>8
\* A text gets into a box by its own prompt only.
LEMMA BoxStep ==
  ASSUME Undisturbed, BridgeShape, DesktopAlone, ScriptRight, CallersWait,
         NEW r \in Req, BoxRight(r), [BridgeNext]_bridgeVars
  PROVE  /\ BoxRight(r)'
         /\ Boxed(r)' => \/ Boxed(r) \/ SendPrefill(r) \/ SendLegacy(r)
                         \/ \E w \in Window : Paste(w) /\ step[w].r = r
<1> DEFINE Goal == /\ BoxRight(r)'
                   /\ Boxed(r)' => \/ Boxed(r) \/ SendPrefill(r) \/ SendLegacy(r)
                                   \/ \E w \in Window : Paste(w) /\ step[w].r = r
<1> SUFFICES Goal
  OBVIOUS
<1> USE DEF daemon, links, windows, desktop
<1>t. Typed(r) => Typed(r)'
  BY TypedStays
<1>a. ASSUME \A w \in Window, s \in Session : InBox(r, w, s)' => InBox(r, w, s),
             \A w \in Window : At(w, "enter") => step'[w] = step[w]
      PROVE  Goal
  <2>1. Boxed(r)' => Boxed(r)
    BY <1>a DEF Boxed
  <2>2. \A w \in Window : At(w, "enter") => At(w, "enter")' /\ step'[w] = step[w]
    BY <1>a DEF At, Idle
  <2>3. BoxRight(r)'
    BY <1>a, <1>t, <2>2 DEF BoxRight
  <2> QED BY <2>1, <2>3
<1>b. ASSUME UNCHANGED box, \A w \in Window : At(w, "enter") => step'[w] = step[w] PROVE Goal
  <2>1. \A w \in Window, s \in Session : InBox(r, w, s)' => InBox(r, w, s)
    BY <1>b DEF InBox
  <2> QED BY <1>a, <1>b, <2>1
<1>1. ASSUME NEW q \in Req, SendPrefill(q) \/ SendLegacy(q) PROVE Goal
  <2>1. OpensAddress(q) /\ DesktopFree(None) /\ step' = step
    BY <1>1 DEF SendPrefill, SendLegacy
  <2>2. \A w \in Window : Idle(w) /\ ~At(w, "enter")
    BY <2>1, AllIdle DEF At
  <2>3. \A w \in Window, s \in Session : InBox(r, w, s) => Typed(r)
    BY <2>2 DEF BoxRight
  <2>4. CASE q = r
    <3>1. Typed(r)'
      BY <1>1, <2>4 DEF SendPrefill, SendLegacy, Typed, BridgeShape
    <3> QED BY <1>1, <2>4, <3>1 DEF BoxRight
  <2>5. CASE q # r
    <3>1. Target[q] \in Session /\ <<q>> \in Text
      BY HelperAssumption DEF Text
    <3>2. PICK w \in Window : box' = box \/ box' = [box EXCEPT ![w][Target[q]] = <<q>>]
      BY <2>1 DEF OpensAddress
    <3>3. \A v \in Window, s \in Session : box'[v][s] = box[v][s] \/ box'[v][s] = <<q>>
      BY <3>1, <3>2, BoxFilled
    <3>4. \A v \in Window, s \in Session : InBox(r, v, s)' => InBox(r, v, s)
      BY <2>5, <3>3 DEF InBox
    <3> QED BY <1>a, <2>2, <3>4
  <2> QED BY <2>4, <2>5
<1>2. ASSUME NEW w \in Window, Paste(w) PROVE Goal
  <2> DEFINE q == step[w].r
  <2>1. /\ ~Idle(w) /\ step[w].at = "paste" /\ q \in Req /\ Target[q] \in Session
        /\ \A v \in Window, s \in Session :
              box'[v][s] = IF v = w /\ s = Target[q] THEN <<q>> ELSE box[v][s]
        /\ ~Idle(w)' /\ step'[w].at = "enter" /\ step'[w].r = q
        /\ \A v \in Window \ {w} : step'[v] = step[v] /\ Idle(v)
    BY <1>2, OwnPaste
  <2>2. \A v \in Window : ~At(v, "enter")
    BY <2>1 DEF At
  <2>3. \A v \in Window, s \in Session : InBox(r, v, s) => Typed(r)
    BY <2>2 DEF BoxRight
  <2>4. \A v \in Window, s \in Session :
           \/ box'[v][s] = box[v][s]
           \/ v = w /\ s = Target[q] /\ box'[v][s] = <<q>>
    BY <2>1
  <2>5. \A v \in Window, s \in Session :
           InBox(r, v, s)' => InBox(r, v, s) \/ (v = w /\ s = Target[q] /\ r = q)
    BY <2>4 DEF InBox
  <2>6. At(w, "enter")'
    BY <2>1 DEF At
  <2>7. BoxRight(r)'
    BY <1>t, <2>1, <2>3, <2>5, <2>6 DEF BoxRight
  <2>8. Boxed(r)' => Boxed(r) \/ r = q
    BY <2>5 DEF Boxed
  <2> QED BY <1>2, <2>7, <2>8
<1>3. ASSUME NEW w \in Window, Enter(w) PROVE Goal
  <2> DEFINE q == step[w].r
  <2>1. /\ ~Idle(w) /\ step[w].at = "enter" /\ q \in Req /\ Target[q] \in Session
        /\ \A v \in Window, s \in Session :
              box'[v][s] = IF v = w /\ s = Target[q] THEN <<>> ELSE box[v][s]
        /\ \A v \in Window \ {w} : step'[v] = step[v] /\ Idle(v)
    BY <1>3, OwnEnter
  <2>2. \A v \in Window, s \in Session :
           InBox(r, v, s)' => InBox(r, v, s) /\ ~(v = w /\ s = Target[q])
    BY <2>1 DEF InBox
  <2>3. \A v \in Window, s \in Session : InBox(r, v, s)' => Typed(r)
    BY <2>1, <2>2 DEF BoxRight, At
  <2>4. BoxRight(r)'
    BY <1>t, <2>3 DEF BoxRight
  <2> QED BY <2>2, <2>4 DEF Boxed
<1>4. CASE LegacyEnters
  <2>1. PICK w \in Window : PressEnter(w)
    BY <1>4 DEF LegacyEnters
  <2>2. \A v \in Window, s \in Session : box'[v][s] = box[v][s] \/ box'[v][s] = <<>>
    BY <2>1, PressTakes
  <2>3. \A v \in Window, s \in Session : InBox(r, v, s)' => InBox(r, v, s)
    BY <2>2 DEF InBox
  <2> QED BY <1>4, <1>a, <2>3 DEF LegacyEnters
<1>5. ASSUME NEW w \in Window, Copy(w) \/ Front(w) PROVE Goal
  <2>1. /\ box' = box /\ ~Idle(w) /\ ~At(w, "enter")
        /\ \E where \in {"front", "paste", "enter", "restore"} : Onward(w, where)
    BY <1>5 DEF Copy, Front, At
  <2> QED BY <1>b, <2>1, OnwardShape
<1>6. ASSUME NEW w \in Window, Fails(w) \/ Restore(w) PROVE Goal
  <2>1. box' = box /\ ~At(w, "enter") /\ step' = [step EXCEPT ![w] = None]
    BY <1>6 DEF Fails, Restore, At
  <2> QED BY <1>b, <2>1 DEF BridgeShape
<1>7. ASSUME NEW w \in Window, Reveal(w) PROVE Goal
  <2>1. box' = box /\ ~At(w, "enter") /\ \A v \in Window \ {w} : step'[v] = step[v]
    BY <1>7 DEF Reveal, At, BridgeShape
  <2> QED BY <1>b, <2>1
<1>8. ASSUME UNCHANGED <<box, step>> PROVE Goal
  BY <1>b, <1>8
<1>9. CASE \/ \E q \in Req : \/ SendHelper(q) \/ SendSubmit(q) \/ SubmitTimeout(q)
                             \/ HeadlessTakes(q) \/ HeadlessExits(q) \/ HeadlessTimesOut(q)
           \/ \E s \in Sock : DaemonHears(s) \/ SeesClose(s) \/ Heartbeat(s)
           \/ \E w \in Window : ConnectHelper(w) \/ Loses(w) \/ HelperHears(w)
           \/ UNCHANGED bridgeVars
  BY <1>8, <1>9 DEF SendHelper, SendSubmit, SubmitTimeout, HeadlessTakes, HeadlessExits,
     HeadlessTimesOut, DaemonHears, SeesClose, Heartbeat, ConnectHelper, Loses, HelperHears, bridgeVars
<1> HIDE DEF Goal
<1> QED BY <1>1, <1>2, <1>3, <1>4, <1>5, <1>6, <1>7, <1>9 DEF BridgeNext, Send, Script
----------------------------------------------------------------------------
(* What was submitted.                                                     *)

LEMMA LandedElsewhere ==
  ASSUME BridgeShape, NEW r \in Req, NEW t \in Session, NEW c \in Text,
         landed' = [landed EXCEPT ![t] = Append(@, c)], \A k \in DOMAIN c : c[k] # r
  PROVE  (NotLanded(r) => NotLanded(r)') /\ (LandedOnce(r) => LandedOnce(r)')
<1>1. /\ landed'[t] = Append(landed[t], c) /\ \A s \in Session \ {t} : landed'[s] = landed[s]
      /\ landed[t] \in Seq(Text)
  BY DEF BridgeShape
<1>2. \A s \in Session : \A i \in DOMAIN landed'[s] :
         \/ i \in DOMAIN landed[s] /\ landed'[s][i] = landed[s][i]
         \/ landed'[s][i] = c
  BY <1>1, Added
<1>3. \A s \in Session : \A i \in DOMAIN landed'[s] :
         StandsIn(r, s, i)' => i \in DOMAIN landed[s] /\ StandsIn(r, s, i)
  BY <1>2 DEF StandsIn
<1>4. \A s \in Session : \A i \in DOMAIN landed[s] :
         i \in DOMAIN landed'[s] /\ landed'[s][i] = landed[s][i]
  BY <1>1
<1>5. NotLanded(r) => NotLanded(r)'
  BY <1>3 DEF NotLanded
<1>6. ASSUME LandedOnce(r) PROVE LandedOnce(r)'
  <2>1. PICK i \in DOMAIN landed[Target[r]] :
           /\ landed[Target[r]][i] = <<r>>
           /\ \A s \in Session : \A j \in DOMAIN landed[s] :
                 StandsIn(r, s, j) => s = Target[r] /\ j = i
    BY <1>6 DEF LandedOnce
  <2>2. Target[r] \in Session
    BY HelperAssumption
  <2>3. i \in DOMAIN landed'[Target[r]] /\ landed'[Target[r]][i] = <<r>>
    BY <1>4, <2>1, <2>2
  <2>4. \A s \in Session : \A j \in DOMAIN landed'[s] :
           StandsIn(r, s, j)' => s = Target[r] /\ j = i
    BY <1>3, <2>1
  <2> QED BY <2>3, <2>4 DEF LandedOnce
<1> QED BY <1>5, <1>6

LEMMA LandsOnce ==
  ASSUME BridgeShape, NEW r \in Req, NotLanded(r),
         landed' = [landed EXCEPT ![Target[r]] = Append(@, <<r>>)]
  PROVE  LandedOnce(r)'
<1> DEFINE t == Target[r]
           n == Len(landed[t]) + 1
<1>1. t \in Session /\ <<r>> \in Text
  BY HelperAssumption DEF Text
<1>2. /\ landed'[t] = Append(landed[t], <<r>>) /\ \A s \in Session \ {t} : landed'[s] = landed[s]
      /\ landed[t] \in Seq(Text)
  BY <1>1 DEF BridgeShape
<1>3. n \in DOMAIN landed'[t] /\ landed'[t][n] = <<r>>
  BY <1>2
<1>4. ASSUME NEW s \in Session, NEW j \in DOMAIN landed'[s], StandsIn(r, s, j)'
      PROVE  s = t /\ j = n
  <2>1. ~(j \in DOMAIN landed[s] /\ landed'[s][j] = landed[s][j])
    BY <1>4 DEF NotLanded, StandsIn
  <2>2. s = t
    BY <1>2, <1>4, <2>1
  <2>3. j \in DOMAIN Append(landed[t], <<r>>)
        /\ ~(j \in DOMAIN landed[t] /\ Append(landed[t], <<r>>)[j] = landed[t][j])
    BY <1>2, <1>4, <2>1, <2>2
  <2> QED BY <1>1, <1>2, <2>2, <2>3, Added
<1> HIDE DEF n
<1> QED BY <1>3, <1>4 DEF LandedOnce

LEMMA LandedStep ==
  ASSUME Undisturbed, BridgeShape, DesktopAlone, ScriptRight, NEW r \in Req,
         [BridgeNext]_bridgeVars, ~HeadlessTakes(r), ~LegacyEnters,
         ~\E w \in Window : Enter(w) /\ step[w].r = r
  PROVE  (NotLanded(r) => NotLanded(r)') /\ (LandedOnce(r) => LandedOnce(r)')
<1> USE DEF daemon, links, windows, desktop
<1> DEFINE Goal == (NotLanded(r) => NotLanded(r)') /\ (LandedOnce(r) => LandedOnce(r)')
<1> SUFFICES Goal
  OBVIOUS
<1>1. ASSUME NEW q \in Req, q # r, landed' = [landed EXCEPT ![Target[q]] = Append(@, <<q>>)]
      PROVE  Goal
  <2>1. Target[q] \in Session /\ <<q>> \in Text /\ \A k \in DOMAIN <<q>> : <<q>>[k] # r
    BY <1>1, HelperAssumption DEF Text
  <2> QED BY <1>1, <2>1, LandedElsewhere
<1>2. ASSUME NEW q \in Req, HeadlessTakes(q) PROVE Goal
  BY <1>1, <1>2 DEF HeadlessTakes
<1>3. ASSUME NEW w \in Window, Enter(w) PROVE Goal
  BY <1>1, <1>3, OwnEnter
<1>4. ASSUME UNCHANGED landed PROVE Goal
  BY <1>4 DEF NotLanded, LandedOnce, StandsIn
<1>5. CASE \/ \E q \in Req : \/ SendHelper(q) \/ SendPrefill(q) \/ SendLegacy(q) \/ SendSubmit(q)
                             \/ SubmitTimeout(q) \/ HeadlessExits(q) \/ HeadlessTimesOut(q)
           \/ \E s \in Sock : DaemonHears(s) \/ SeesClose(s) \/ Heartbeat(s)
           \/ \E w \in Window : \/ ConnectHelper(w) \/ Loses(w) \/ HelperHears(w) \/ Reveal(w)
                                \/ Copy(w) \/ Front(w) \/ Paste(w) \/ Restore(w) \/ Fails(w)
           \/ UNCHANGED bridgeVars
  BY <1>4, <1>5 DEF SendHelper, SendPrefill, SendLegacy, SendSubmit, SubmitTimeout, HeadlessExits,
     HeadlessTimesOut, DaemonHears, SeesClose, Heartbeat, ConnectHelper, Loses, HelperHears, Reveal,
     Copy, Front, Paste, Restore, Fails, bridgeVars
<1> HIDE DEF Goal
<1> QED BY <1>2, <1>3, <1>5 DEF BridgeNext, Send, Script

\* News that a prompt was entered comes from its own script or run.
LEMMA ToldStep ==
  ASSUME Undisturbed, BridgeShape, CallersWait, NEW r \in Req, [BridgeNext]_bridgeVars,
         ~HeadlessExits(r), ~\E w \in Window : Enter(w) /\ step[w].r = r
  PROVE  Told(r)' => Told(r)
<1> USE DEF daemon, links, windows, desktop
<1> DEFINE m == Message("ack_ok", r)
           Restores == \E w \in Window : Works(r, w) /\ step[w].at = "restore"
<1>1. req'[r] = "ok" => req[r] = "ok" \/ AckedOk(r)
  <2>1. ~(SendHelper(r) \/ SendPrefill(r) \/ SendLegacy(r) \/ SendSubmit(r)) \/ req'[r] # "ok"
    BY DEF SendHelper, SendPrefill, SendLegacy, SendSubmit, BridgeShape
  <2> QED BY <2>1, AnswerStep
<1>2. AckedOk(r)' => AckedOk(r) \/ Restores
  <2> DEFINE Goal == AckedOk(r)' => AckedOk(r) \/ Restores
  <2> SUFFICES Goal
    OBVIOUS
  <2>0. toD \in [Sock -> Seq(DaemonMessage)] /\ m \in DaemonMessage
    BY MessagesTyped DEF BridgeShape
  <2>1. ASSUME NEW e \in DaemonMessage, e # m,
               \A s \in Sock : toD'[s] = toD[s] \/ toD'[s] = Append(toD[s], e)
        PROVE  Goal
    <3>1. ASSUME NEW s \in Sock, NEW i \in DOMAIN toD'[s], toD'[s][i] = m PROVE AckedOk(r)
      <4>1. CASE toD'[s] = toD[s]
        BY <3>1, <4>1 DEF AckedOk
      <4>2. CASE toD'[s] = Append(toD[s], e)
        <5>1. i \in DOMAIN toD[s] /\ toD[s][i] = m
          BY <2>0, <2>1, <3>1, <4>2, Added
        <5> QED BY <5>1 DEF AckedOk
      <4> QED BY <2>1, <4>1, <4>2
    <3> QED BY <3>1 DEF AckedOk
  <2>2. ASSUME NEW w \in Window, HelperHears(w) PROVE Goal
    <3>1. toD' = toD \/ toD' = Posted(toD, ws[w], Message("pong", None))
      BY <2>2, HelperHearing
    <3>2. Message("pong", None) \in DaemonMessage /\ Message("pong", None) # m
      BY MessagesTyped DEF Message
    <3>3. \A s \in Sock : toD'[s] = toD[s] \/ toD'[s] = Append(toD[s], Message("pong", None))
      <4>1. \/ toD' = toD
            \/ toD' = [toD EXCEPT ![ws[w]] = Append(@, Message("pong", None))]
        BY <3>1 DEF Posted
      <4> QED BY <2>0, <4>1
    <3> QED BY <2>1, <3>2, <3>3
  <2>3. ASSUME NEW w \in Window, Fails(w) PROVE Goal
    <3>1. step[w].r \in Req /\ SendAck(w, "ack_fail", step[w].r)
      BY <2>3 DEF Fails, At, Idle, BridgeShape, Steps
    <3>2. Message("ack_fail", step[w].r) \in DaemonMessage /\ Message("ack_fail", step[w].r) # m
      BY <3>1, MessagesTyped DEF Message
    <3> QED BY <2>1, <3>1, <3>2, AckSent
  <2>4. ASSUME NEW w \in Window, Restore(w) PROVE Goal
    <3>1. /\ ~Idle(w) /\ step[w].at = "restore" /\ step[w].r \in Req
          /\ SendAck(w, "ack_ok", step[w].r)
      BY <2>4 DEF Restore, At, Idle, BridgeShape, Steps
    <3>2. CASE step[w].r = r
      BY <3>1, <3>2 DEF Works
    <3>3. CASE step[w].r # r
      <4>1. Message("ack_ok", step[w].r) \in DaemonMessage /\ Message("ack_ok", step[w].r) # m
        BY <3>1, <3>3, MessagesTyped DEF Message
      <4> QED BY <2>1, <3>1, <4>1, AckSent
    <3> QED BY <3>2, <3>3
  <2>5. ASSUME NEW s \in Sock, DaemonHears(s) PROVE Goal
    <3>1. /\ toD[s] # <<>> /\ toD[s] \in Seq(DaemonMessage)
          /\ toD' = [toD EXCEPT ![s] = Tail(@)]
      BY <2>5, DaemonHearing
    <3>2. \A i \in DOMAIN Tail(toD[s]) : i + 1 \in DOMAIN toD[s] /\ Tail(toD[s])[i] = toD[s][i + 1]
      BY <3>1, Taken
    <3>3. toD'[s] = Tail(toD[s]) /\ \A t \in Sock \ {s} : toD'[t] = toD[t]
      BY <2>0, <3>1
    <3>4. ASSUME NEW t \in Sock, NEW i \in DOMAIN toD'[t], toD'[t][i] = m PROVE AckedOk(r)
      <4>1. CASE t = s
        <5>1. i + 1 \in DOMAIN toD[s] /\ toD[s][i + 1] = m
          BY <3>2, <3>3, <3>4, <4>1
        <5> QED BY <5>1 DEF AckedOk
      <4>2. CASE t # s
        BY <3>3, <3>4, <4>2 DEF AckedOk
      <4> QED BY <4>1, <4>2
    <3> QED BY <3>4 DEF AckedOk
  <2>6. ASSUME NEW w \in Window, ConnectHelper(w) \/ Loses(w) PROVE Goal
    <3>1. \A s \in Sock : \/ toD'[s] = toD[s] \/ toD'[s] = <<>>
                          \/ toD'[s] = <<Message("register", w)>>
      BY <2>0, <2>6 DEF ConnectHelper, Loses
    <3>2. Message("register", w) # m
      BY DEF Message
    <3>3. ASSUME NEW s \in Sock, NEW i \in DOMAIN toD'[s], toD'[s][i] = m PROVE AckedOk(r)
      <4>1. toD'[s] = toD[s]
        BY <3>1, <3>2, <3>3
      <4> QED BY <3>3, <4>1 DEF AckedOk
    <3> QED BY <3>3 DEF AckedOk
  <2>7. ASSUME UNCHANGED toD PROVE Goal
    BY <2>7 DEF AckedOk
  <2>8. CASE \/ \E q \in Req : \/ SendHelper(q) \/ SendPrefill(q) \/ SendLegacy(q) \/ SendSubmit(q)
                               \/ SubmitTimeout(q) \/ HeadlessTakes(q) \/ HeadlessExits(q)
                               \/ HeadlessTimesOut(q)
             \/ \E s \in Sock : SeesClose(s) \/ Heartbeat(s)
             \/ \E w \in Window : Reveal(w) \/ Copy(w) \/ Front(w) \/ Paste(w) \/ Enter(w)
             \/ LegacyEnters \/ UNCHANGED bridgeVars
    BY <2>7, <2>8 DEF SendHelper, SendPrefill, SendLegacy, SendSubmit, SubmitTimeout, HeadlessTakes,
       HeadlessExits, HeadlessTimesOut, SeesClose, Heartbeat, Reveal, Copy, Front, Paste, Enter,
       LegacyEnters, bridgeVars
  <2> HIDE DEF Goal
  <2> QED BY <2>2, <2>3, <2>4, <2>5, <2>6, <2>8 DEF BridgeNext, Send, Script
<1>3. ASSUME NEW w \in Window, Works(r, w)', step'[w].at = "restore"
      PROVE  Works(r, w) /\ step[w].at = "restore"
  <2>1. ASSUME NEW v \in Window, Copy(v) \/ Front(v) \/ Paste(v) \/ Enter(v) PROVE step'[w] = step[w]
    <3>1. PICK where \in {"front", "paste", "enter", "restore"} :
             Onward(v, where) /\ (where = "restore" <=> Enter(v))
      BY <2>1, ScriptGoesOn
    <3>2. ~Idle(v)
      BY <2>1, ScriptGoesOn
    <3>3. /\ step'[v] = [r |-> step[v].r, at |-> where]
          /\ \A u \in Window \ {v} : step'[u] = step[u]
      BY <3>1, <3>2, OnwardShape
    <3>4. step'[v].r = step[v].r /\ step'[v].at = where
      BY <3>3
    <3>5. CASE v = w
      <4>1. Enter(w) /\ step[w].r = r
        BY <1>3, <3>1, <3>4, <3>5 DEF Works
      <4> QED BY <4>1
    <3> QED BY <3>3, <3>5
  <2>2. ASSUME NEW v \in Window, Reveal(v) PROVE step'[w] = step[w]
    <3>1. step' = [step EXCEPT ![v] = [r |-> Head(chain[v]), at |-> "copy"]]
      BY <2>2 DEF Reveal
    <3> QED BY <1>3, <3>1 DEF BridgeShape
  <2>3. ASSUME NEW v \in Window, Fails(v) \/ Restore(v) PROVE step'[w] = step[w]
    <3>1. step' = [step EXCEPT ![v] = None]
      BY <2>3 DEF Fails, Restore
    <3> QED BY <1>3, <3>1 DEF Works, Idle, BridgeShape
  <2>4. ASSUME UNCHANGED step PROVE step'[w] = step[w]
    BY <2>4
  <2>5. CASE \/ \E q \in Req : \/ SendHelper(q) \/ SendPrefill(q) \/ SendLegacy(q) \/ SendSubmit(q)
                               \/ SubmitTimeout(q) \/ HeadlessTakes(q) \/ HeadlessExits(q)
                               \/ HeadlessTimesOut(q)
             \/ \E s \in Sock : DaemonHears(s) \/ SeesClose(s) \/ Heartbeat(s)
             \/ \E v \in Window : ConnectHelper(v) \/ Loses(v) \/ HelperHears(v)
             \/ LegacyEnters \/ UNCHANGED bridgeVars
    <3>1. step' = step
      BY <2>5 DEF SendHelper, SendPrefill, SendLegacy, SendSubmit, SubmitTimeout, HeadlessTakes,
         HeadlessExits, HeadlessTimesOut, DaemonHears, SeesClose, Heartbeat, ConnectHelper, Loses,
         HelperHears, LegacyEnters, bridgeVars
    <3> QED BY <1>3, <3>1 DEF Works, Idle
  <2>6. step'[w] = step[w] => Works(r, w) /\ step[w].at = "restore"
    BY <1>3 DEF Works, Idle
  <2> QED BY <2>1, <2>2, <2>3, <2>5, <2>6 DEF BridgeNext, Send, Script
<1> QED BY <1>1, <1>2, <1>3 DEF Told
----------------------------------------------------------------------------
(* How far a prompt is.                                                    *)

\* A step that is none of the prompt's own leaves it at its stage.
LEMMA StageKept ==
  ASSUME NEW r \in Req, Stage(r),
         req'[r] \in {"new", "nohelper"} => req[r] \in {"new", "nohelper"},
         req'[r] = "running" => req[r] = "running",
         Typed(r)' => Typed(r), r \in prompted' <=> r \in prompted,
         Ahead(r)' => Ahead(r), Boxed(r)' => Boxed(r), Told(r)' => Told(r),
         NotLanded(r) => NotLanded(r)', LandedOnce(r) => LandedOnce(r)'
  PROVE  Stage(r)'
<1>1. Over(r) => Over(r)'
  BY DEF Over
<1> QED BY <1>1 DEF Stage

LEMMA NotBoth == \A r \in Req : ~(NotLanded(r) /\ LandedOnce(r))
  BY HelperAssumption DEF LandedOnce, NotLanded, StandsIn

\* A new prompt is nowhere.
LEMMA NewIsNowhere ==
  ASSUME NEW r \in Req, Stage(r), req[r] = "new"
  PROVE  /\ ~Ahead(r) /\ r \notin prompted /\ ~Boxed(r) /\ NotLanded(r) /\ ~AckedOk(r)
         /\ \A w \in Window : ~(Works(r, w) /\ step[w].at = "restore")
<1>1. Over(r) /\ NotLanded(r)
  BY DEF Stage
<1>2. ~Told(r)
  BY <1>1, NotBoth DEF Stage
<1> QED BY <1>1, <1>2 DEF Over, Told

\* What a step leaves alone of where prompts are.
LEMMA SamePlaces ==
  ASSUME NEW r \in Req
  PROVE  /\ UNCHANGED <<toH, chain, step>> => (Ahead(r)' <=> Ahead(r))
         /\ UNCHANGED box => (Boxed(r)' <=> Boxed(r))
         /\ UNCHANGED <<toD, step>> /\ req'[r] # "ok" => (Told(r)' => Told(r))
         /\ UNCHANGED landed => (NotLanded(r)' <=> NotLanded(r)) /\ (LandedOnce(r)' <=> LandedOnce(r))
<1>1. UNCHANGED <<toH, chain, step>> => (Ahead(r)' <=> Ahead(r))
  BY DEF Ahead, UnderWay, Submits, Chained, Queued, Works, Idle
<1>2. UNCHANGED box => (Boxed(r)' <=> Boxed(r))
  BY DEF Boxed, InBox
<1>3. UNCHANGED <<toD, step>> /\ req'[r] # "ok" => (Told(r)' => Told(r))
  BY DEF Told, AckedOk, Works, Idle
<1>4. UNCHANGED landed => (NotLanded(r)' <=> NotLanded(r)) /\ (LandedOnce(r)' <=> LandedOnce(r))
  BY DEF NotLanded, LandedOnce, StandsIn
<1> QED BY <1>1, <1>2, <1>3, <1>4

LEMMA StageStep ==
  ASSUME Undisturbed, BridgeShape, DesktopAlone, ScriptRight, CallersWait,
         NEW r \in Req, OneToken(r), BoxRight(r), Stage(r), [BridgeNext]_bridgeVars
  PROVE  Stage(r)'
<1> USE DEF daemon, links, windows, desktop
<1>0. req \in [Req -> Answers]
  BY DEF BridgeShape
<1>1. CASE SendHelper(r)
  <2>1. /\ req[r] = "new" /\ UNCHANGED <<toD, step, chain, box, landed, prompted>>
        /\ \/ req' = [req EXCEPT ![r] = "nohelper"] /\ toH' = toH
           \/ req' = [req EXCEPT ![r] = "waiting"]
    BY <1>1 DEF SendHelper
  <2>2. (req'[r] = "nohelper" /\ toH' = toH) \/ req'[r] = "waiting"
    BY <1>0, <2>1
  <2>3. ~Boxed(r)' /\ NotLanded(r)' /\ ~Told(r)' /\ r \notin prompted'
    BY <2>1, <2>2, NewIsNowhere, SamePlaces DEF Told
  <2>4. req'[r] = "nohelper" => ~Ahead(r)'
    BY <2>1, <2>2, NewIsNowhere, SamePlaces
  <2> QED BY <2>2, <2>3, <2>4 DEF Stage, Over, Typed
<1>2. CASE SendPrefill(r) \/ SendLegacy(r)
  <2>1. req[r] = "new" /\ UNCHANGED <<toD, toH, step, chain, landed, prompted>> /\ Typed(r)'
    BY <1>0, <1>2 DEF SendPrefill, SendLegacy, Typed
  <2>2. req'[r] # "ok"
    BY <2>1 DEF Typed
  <2>3. ~Ahead(r)' /\ ~Told(r)' /\ r \notin prompted'
    BY <2>1, <2>2, NewIsNowhere, SamePlaces DEF Told
  <2> QED BY <2>1, <2>3 DEF Stage, Typed
<1>3. CASE SendSubmit(r)
  <2>1. req[r] = "new" /\ UNCHANGED <<toD, toH, step, chain, box, landed>>
        /\ req'[r] = "running" /\ r \in prompted'
    BY <1>0, <1>3 DEF SendSubmit
  <2>2. ~Ahead(r)' /\ ~Told(r)' /\ ~Boxed(r)' /\ NotLanded(r)'
    BY <2>1, NewIsNowhere, SamePlaces DEF Told
  <2> QED BY <2>1, <2>2 DEF Stage
<1>4. CASE HeadlessTakes(r)
  <2>1. /\ r \in prompted /\ r \notin prompted' /\ UNCHANGED <<req, toH, toD, chain, step, box>>
        /\ landed' = [landed EXCEPT ![Target[r]] = Append(@, <<r>>)]
    BY <1>4 DEF HeadlessTakes
  <2>2. NotLanded(r) /\ ~Boxed(r) /\ ~Ahead(r) /\ req[r] \notin {"new", "nohelper"}
    BY <2>1 DEF Stage, Over
  <2>3. LandedOnce(r)' /\ Over(r)' /\ ~Ahead(r)'
    BY <2>1, <2>2, LandsOnce, SamePlaces DEF Over
  <2> QED BY <2>1, <2>2, <2>3 DEF Stage
<1>5. CASE HeadlessExits(r)
  <2>1. /\ req[r] = "running" /\ UNCHANGED <<toH, toD, chain, step, box, landed>>
        /\ req'[r] = (IF r \notin prompted THEN "ok" ELSE "failed")
        /\ r \notin prompted'
    BY <1>0, <1>5 DEF HeadlessExits
  <2>2. ~Ahead(r) /\ ~Ahead(r)'
    BY <2>1, SamePlaces DEF Stage
  <2>3. CASE r \notin prompted
    <3>1. LandedOnce(r)' /\ Over(r)' /\ req'[r] = "ok"
      BY <2>1, <2>2, <2>3, SamePlaces DEF Stage, Over
    <3> QED BY <2>1, <2>2, <3>1 DEF Stage
  <2>4. CASE r \in prompted
    <3>1. ~Told(r)
      BY <2>4 DEF Stage, Over
    <3>2. req'[r] = "failed" /\ ~Told(r)'
      BY <2>1, <2>4, <3>1, SamePlaces
    <3> QED BY <2>1, <2>2, <3>2 DEF Stage
  <2> QED BY <2>3, <2>4
<1>6. ASSUME NEW w \in Window, Paste(w), step[w].r = r PROVE Stage(r)'
  <2>1. ~Idle(w) /\ step[w].at = "paste" /\ UNCHANGED <<req, landed, prompted>>
    BY <1>6 DEF Paste, At
  <2>2. Ahead(r)
    BY <1>6, <2>1 DEF Ahead, Works
  <2>3. /\ req[r] \notin {"new", "nohelper", "running"} /\ ~Typed(r) /\ r \notin prompted /\ NotLanded(r)
        /\ ~Told(r)
    BY <2>2 DEF Stage, Over
  <2>4. ~HeadlessExits(r) /\ ~\E v \in Window : Enter(v) /\ step[v].r = r
    <3>1. ~HeadlessExits(r)
      BY <2>3 DEF HeadlessExits
    <3>2. ASSUME NEW v \in Window, Enter(v) PROVE FALSE
      <4>1. ~Idle(v) /\ step[v].at = "enter"
        BY <3>2 DEF Enter, At
      <4>2. v = w
        BY <2>1, <4>1 DEF DesktopAlone
      <4> QED BY <2>1, <4>1, <4>2
    <3> QED BY <3>1, <3>2
  <2>5. ~Told(r)'
    BY <2>3, <2>4, ToldStep
  <2>6. NotLanded(r)'
    BY <2>1, <2>3, SamePlaces
  <2>7. ~Typed(r)'
    BY <2>1, <2>3 DEF Typed
  <2> QED BY <2>1, <2>3, <2>5, <2>6, <2>7 DEF Stage
<1>7. ASSUME NEW w \in Window, Enter(w), step[w].r = r PROVE Stage(r)'
  <2>1. /\ ~Idle(w) /\ step[w].at = "enter"
        /\ landed' = [landed EXCEPT ![Target[r]] = Append(@, <<r>>)]
        /\ \A v \in Window, s \in Session :
              box'[v][s] = IF v = w /\ s = Target[r] THEN <<>> ELSE box[v][s]
        /\ step'[w].at = "restore"
        /\ \A v \in Window \ {w} : step'[v] = step[v] /\ Idle(v)
    <3> DEFINE q == step[w].r
    <3>1. Enter(w) /\ q = r
      BY <1>7
    <3>2. /\ ~Idle(w) /\ step[w].at = "enter"
          /\ landed' = [landed EXCEPT ![Target[q]] = Append(@, <<q>>)]
          /\ \A v \in Window, s \in Session :
                box'[v][s] = IF v = w /\ s = Target[q] THEN <<>> ELSE box[v][s]
          /\ step'[w].at = "restore"
          /\ \A v \in Window \ {w} : step'[v] = step[v] /\ Idle(v)
      BY <3>1, OwnEnter, Zenon
    <3> HIDE DEF q
    <3> QED BY <3>1, <3>2
  <2>2. UNCHANGED <<req, prompted, toH, chain>>
    BY <1>7 DEF Enter
  <2>3. Works(r, w) /\ Ahead(r)
    BY <1>7, <2>1 DEF Ahead, Works
  <2>4. /\ req[r] \notin {"new", "nohelper", "running"} /\ ~Typed(r) /\ r \notin prompted /\ NotLanded(r)
    BY <2>3 DEF Stage, Over
  <2>5. LandedOnce(r)'
    BY <2>1, <2>4, LandsOnce
  <2>6. ~UnderWay(r) /\ ~Chained(r)
    BY <2>3 DEF OneToken
  <2>7. ~Ahead(r)'
    <3>1. ~UnderWay(r)' /\ ~Chained(r)'
      BY <2>2, <2>6 DEF UnderWay, Submits, Chained, Queued
    <3>2. \A v \in Window : ~(Works(r, v)' /\ step'[v].at # "restore")
      BY <2>1 DEF Works, Idle
    <3> QED BY <3>1, <3>2 DEF Ahead
  <2>8. ~Boxed(r)'
    <3> SUFFICES ASSUME NEW v \in Window, NEW s \in Session, InBox(r, v, s)' PROVE FALSE
      BY DEF Boxed
    <3>1. InBox(r, v, s) /\ ~(v = w /\ s = Target[r])
      BY <2>1 DEF InBox
    <3>2. At(v, "enter") /\ s = Target[r]
      BY <2>4, <3>1 DEF BoxRight
    <3> QED BY <2>1, <3>1, <3>2 DEF At
  <2>9. Over(r)' /\ ~Typed(r)'
    BY <2>2, <2>4, <2>7, <2>8 DEF Over, Typed
  <2> QED BY <2>2, <2>4, <2>5, <2>7, <2>9 DEF Stage
<1>8. CASE LegacyEnters
  <2>1. PICK w \in Window : PressEnter(w)
    BY <1>8 DEF LegacyEnters
  <2>2. legacy \in Req /\ req[legacy] = "legacy" /\ \A v \in Window : Idle(v)
    BY <1>8 DEF LegacyEnters, CallersWait, BridgeShape, DesktopAlone
  <2>3. /\ req' = [req EXCEPT ![legacy] = "entered"]
        /\ UNCHANGED <<toH, toD, chain, step, prompted>>
    BY <1>8 DEF LegacyEnters
  <2>4. req'[r] = req[r] \/ (Typed(r) /\ Typed(r)' /\ req'[r] = "entered")
    BY <1>0, <2>2, <2>3 DEF Typed
  <2>5. req'[r] = "ok" => req[r] = "ok"
    BY <2>4
  <2>6. (Ahead(r)' => Ahead(r)) /\ (Told(r)' => Told(r))
    <3>1. Told(r)' => Told(r)
      BY <2>3, <2>5 DEF Told, AckedOk, Works, Idle
    <3> QED BY <2>3, <3>1, SamePlaces
  <2>7. Boxed(r)' => Boxed(r)
    <3>1. ~SendPrefill(r) /\ ~SendLegacy(r) /\ \A v \in Window : ~Paste(v)
      BY <1>8, <2>2 DEF SendPrefill, SendLegacy, LegacyEnters, DesktopFree, Undisturbed, Paste, At
    <3> QED BY <3>1, BoxStep
  <2>8. CASE UNCHANGED <<box, landed>>
    <3>1. (NotLanded(r) => NotLanded(r)') /\ (LandedOnce(r) => LandedOnce(r)')
      BY <2>8, SamePlaces
    <3>2. Typed(r)' => Typed(r)
      BY <2>4 DEF Typed
    <3>3. /\ req'[r] \in {"new", "nohelper"} => req[r] \in {"new", "nohelper"}
          /\ req'[r] = "running" => req[r] = "running"
      BY <2>4
    <3> QED BY <2>3, <2>6, <2>7, <3>1, <3>2, <3>3, StageKept
  <2>9. CASE /\ shown[w] \in Session /\ box[w][shown[w]] \in Text
             /\ landed' = [landed EXCEPT ![shown[w]] = Append(@, box[w][shown[w]])]
    <3>1. CASE InBox(r, w, shown[w])
      <4>1. Boxed(r) /\ Typed(r)
        BY <2>2, <2>9, <3>1 DEF Boxed, BoxRight, At
      <4>2. Typed(r)'
        BY <4>1, TypedStays
      <4>3. ~Ahead(r) /\ ~Told(r) /\ r \notin prompted
        BY <4>1 DEF Stage, Over
      <4> QED BY <2>3, <2>6, <4>2, <4>3 DEF Stage, Typed
    <3>2. CASE ~InBox(r, w, shown[w])
      <4>1. \A k \in DOMAIN box[w][shown[w]] : box[w][shown[w]][k] # r
        BY <3>2 DEF InBox
      <4>2. (NotLanded(r) => NotLanded(r)') /\ (LandedOnce(r) => LandedOnce(r)')
        BY <2>9, <4>1, LandedElsewhere
      <4>3. Typed(r)' => Typed(r)
        BY <2>4 DEF Typed
      <4>4. /\ req'[r] \in {"new", "nohelper"} => req[r] \in {"new", "nohelper"}
            /\ req'[r] = "running" => req[r] = "running"
        BY <2>4
      <4> QED BY <2>3, <2>6, <2>7, <4>2, <4>3, <4>4, StageKept
    <3> QED BY <3>1, <3>2
  <2> QED BY <2>1, <2>8, <2>9, PressTakes
<1>9. ASSUME ~SendHelper(r), ~SendPrefill(r), ~SendLegacy(r), ~SendSubmit(r), ~HeadlessTakes(r),
             ~HeadlessExits(r), ~LegacyEnters,
             ~\E w \in Window : Paste(w) /\ step[w].r = r,
             ~\E w \in Window : Enter(w) /\ step[w].r = r
      PROVE  Stage(r)'
  <2>1. \/ req'[r] = req[r]
        \/ req[r] = "waiting" /\ req'[r] \in {"timeout", "failed", "ok"}
        \/ req[r] = "legacy" /\ req'[r] = "entered"
        \/ req[r] = "running" /\ req'[r] = "failed"
    BY <1>9, AnswerStep
  <2>2. /\ req'[r] \in {"new", "nohelper"} => req[r] \in {"new", "nohelper"}
        /\ req'[r] = "running" => req[r] = "running"
    BY <2>1
  <2>3. Typed(r)' => Typed(r)
    BY <2>1 DEF Typed
  <2>4. Ahead(r)' => Ahead(r)
    BY <1>9, TokenStep
  <2>5. Boxed(r)' => Boxed(r)
    BY <1>9, BoxStep
  <2>6. Told(r)' => Told(r)
    BY <1>9, ToldStep
  <2>7. (NotLanded(r) => NotLanded(r)') /\ (LandedOnce(r) => LandedOnce(r)')
    BY <1>9, LandedStep
  <2>8. r \in prompted' <=> r \in prompted
    <3>1. ASSUME NEW q \in Req, q # r, HeadlessTakes(q) \/ HeadlessExits(q) \/ SendSubmit(q)
          PROVE  r \in prompted' <=> r \in prompted
      BY <3>1 DEF HeadlessTakes, HeadlessExits, SendSubmit
    <3>2. CASE \/ \E q \in Req : \/ SendHelper(q) \/ SendPrefill(q) \/ SendLegacy(q)
                                 \/ SubmitTimeout(q) \/ HeadlessTimesOut(q)
               \/ \E s \in Sock : DaemonHears(s) \/ SeesClose(s) \/ Heartbeat(s)
               \/ \E w \in Window : \/ ConnectHelper(w) \/ Loses(w) \/ HelperHears(w) \/ Reveal(w)
                                    \/ Script(w)
               \/ UNCHANGED bridgeVars
      <4>1. prompted' = prompted
        BY <3>2 DEF SendHelper, SendPrefill, SendLegacy, SubmitTimeout, HeadlessTimesOut, DaemonHears,
           SeesClose, Heartbeat, ConnectHelper, Loses, HelperHears, Reveal, Script, Copy, Front,
           Paste, Enter, Restore, Fails, bridgeVars
      <4> QED BY <4>1
    <3> QED BY <1>9, <3>1, <3>2 DEF BridgeNext, Send
  <2> QED BY <2>2, <2>3, <2>4, <2>5, <2>6, <2>7, <2>8, StageKept
<1> QED BY <1>1, <1>2, <1>3, <1>4, <1>5, <1>6, <1>7, <1>8, <1>9
LEMMA BridgeInitInv == BridgeInit => BridgeInv
<1> SUFFICES ASSUME BridgeInit PROVE BridgeInv
  OBVIOUS
<1> USE DEF BridgeInit
<1>1. BridgeShape
  <2>1. [w \in Window |-> [s \in Session |-> <<>>]] \in [Window -> [Session -> Text]]
    BY DEF Text
  <2>2. [s \in Session |-> <<>>] \in [Session -> Seq(Text)]
    OBVIOUS
  <2> QED BY <2>1, <2>2 DEF BridgeShape, Answers
<1>2. DesktopAlone /\ ScriptRight /\ CallersWait
  BY DEF DesktopAlone, ScriptRight, CallersWait, Idle
<1>3. ASSUME NEW r \in Req PROVE OneToken(r) /\ BoxRight(r) /\ Stage(r)
  <2>1. ~UnderWay(r) /\ ~Chained(r) /\ \A w \in Window : ~Works(r, w)
    BY DEF UnderWay, Chained, Works, Idle
  <2>2. OneToken(r)
    BY <2>1 DEF OneToken
  <2>3. \A w \in Window, s \in Session : ~InBox(r, w, s)
    BY DEF InBox
  <2>4. NotLanded(r)
    BY DEF NotLanded
  <2>5. ~AckedOk(r) /\ req[r] = "new" /\ r \notin prompted
    BY DEF AckedOk
  <2>6. Over(r) /\ ~Told(r)
    BY <2>1, <2>3, <2>5 DEF Over, Ahead, Boxed, Told
  <2> QED BY <2>2, <2>3, <2>4, <2>5, <2>6 DEF BoxRight, Stage, Over, Typed
<1> QED BY <1>1, <1>2, <1>3 DEF BridgeInv

LEMMA BridgeNextInv ==
  ASSUME Undisturbed, BridgeInv, [BridgeNext]_bridgeVars PROVE BridgeInv'
<1>1. BridgeShape' /\ DesktopAlone' /\ ScriptRight' /\ CallersWait'
  BY ShapeStep, AloneStep, ScriptStep, WaitStep DEF BridgeInv
<1>2. ASSUME NEW r \in Req PROVE OneToken(r)' /\ BoxRight(r)' /\ Stage(r)'
  BY TokenStep, BoxStep, StageStep DEF BridgeInv
<1> QED BY <1>1, <1>2 DEF BridgeInv

\* As long as scripts of two windows do not overlap and a window's title is its
\* own, a caller of /send that is told its prompt was entered finds it in the
\* session's transcript, by itself and once, and one that is told there is no
\* helper will not find it there, however acks, timeouts, reconnects and typing
\* of others fall together (submitViaHelper of src/src/vscode-bridge.ts, submit
\* of extension/src, the headless run of src/src/server.ts).
THEOREM HelperAnswersTrue ==
  ASSUME Undisturbed
  PROVE  BridgeSpec => []AnswerTellsTruth
<1>1. BridgeInv => AnswerTellsTruth
  BY DEF BridgeInv, Stage, Told, AnswerTellsTruth
<1>2. BridgeInv /\ [BridgeNext]_bridgeVars => BridgeInv'
  BY BridgeNextInv
<1> QED BY <1>1, <1>2, BridgeInitInv, PTL DEF BridgeSpec
=============================================================================
