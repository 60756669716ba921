------------------------------- MODULE Tunnel --------------------------------
(***************************************************************************)
(* The dashboard on a phone: HTTP calls and WebSockets of the page go      *)
(* through the relay to the daemon, which makes them against its own       *)
(* server on localhost (src/web/transport-tunnel.ts,                       *)
(* src/web-phone/main-tunnel.tsx, src/src/relay-client.ts,                 *)
(* src/worker/src/daemon-relay.ts).  One phone, one daemon.                *)
(*                                                                         *)
(* `toDaemon` and `toPhone` are what is under way, in order; the relay is  *)
(* somewhere in between, so either link takes with it what was on its      *)
(* side.  What the relay or the daemon drops is lost: nobody sends again.  *)
(* How the daemon's connection comes and goes, and which envelopes it      *)
(* accepts, is RelayLink's subject.                                        *)
(***************************************************************************)
EXTENDS Naturals, Sequences, FiniteSets

CONSTANTS
    Req,       \* HTTP calls of pages, each with its own request_id
    Wsid,      \* WebSockets opened by pages, each with its own tunnel_ws_id
    MaxMsgs,   \* bound on what the local server sends on one socket
    MaxSends,  \* bound on what a page sends on one socket
    MaxCuts,  \* bound on lost links
    MaxNet     \* bound on messages under way in one direction

ASSUME BoundAssumption == /\ MaxMsgs \in Nat /\ MaxSends \in Nat
                          /\ MaxCuts \in Nat /\ MaxNet \in Nat
ASSUME IdAssumption == Req \cap Wsid = {}

VARIABLES
    page,     \* the phone's page and its relay socket
    call,     \* what the page knows of each call; pendingHttp has "pending"
    shim,     \* readyState of each ProxiedWebSocket
    shims,    \* ids in wsShims
    quit,     \* sockets their owner has closed itself
    got,      \* messages each socket's owner has had
    dlink,    \* the daemon's relay socket
    fetching, \* handleHttpProxy, per call
    served,   \* how often the local server has handled each call
    local,    \* the daemon's socket to its own server, per id
    tunnels,  \* ids in tunnelWsByPeer
    sent,     \* messages the local server has sent on each
    heard,    \* messages the local server has had on each
    said,     \* messages the page has sent on each
    toDaemon, toPhone,  \* under way
    lossy,    \* ids some message of which was lost
    cuts

Message(kind, of, n) == [kind |-> kind, of |-> of, n |-> n]
UpMessage == [kind : {"http_proxy"}, of : Req, n : {0}]
    \cup [kind : {"ws_proxy_open", "ws_proxy_close"}, of : Wsid, n : {0}]
    \cup [kind : {"ws_proxy_send"}, of : Wsid, n : Nat]
DownMessage == [kind : {"ok", "failed"}, of : Req, n : {0}]
    \cup [kind : {"ws_proxy_opened", "ws_proxy_close"}, of : Wsid, n : {0}]
    \cup [kind : {"ws_proxy_msg"}, of : Wsid, n : Nat]

phone == <<page, call, shim, shims, quit, got, said>>
daemon == <<fetching, local, tunnels>>
server == <<served, sent, heard>>
net == <<toDaemon, toPhone, lossy>>
vars == <<phone, daemon, server, net, dlink, cuts>>

Ids(msgs) == {msgs[i].of : i \in 1..Len(msgs)}

----------------------------------------------------------------------------
(* The page: TunnelTransport.                                              *)

\* send.  On a socket that has closed the browser drops it.
Send(m) ==
    IF page = "on"
    THEN toDaemon' = Append(toDaemon, m) /\ UNCHANGED <<toPhone, lossy>>
    ELSE lossy' = lossy \cup {m.of} /\ UNCHANGED <<toDaemon, toPhone>>

\* activateTunnel: the relay said ready, the transport is installed.
Activate ==
    /\ page = "connecting"
    /\ page' = "on"
    /\ UNCHANGED <<call, shim, shims, quit, got, said, daemon, server, net,
                   dlink, cuts>>

Fetch(r) ==
    /\ page \in {"on", "cut"} /\ call[r] = "new" /\ Len(toDaemon) < MaxNet
    /\ call' = [call EXCEPT ![r] = "pending"]
    /\ Send(Message("http_proxy", r, 0))
    /\ UNCHANGED <<page, shim, shims, quit, got, said, daemon, server,
                   dlink, cuts>>

\* Mutant: the timer is only looked at while the relay socket is toDaemon.
TimerRunsOnline(r) == call[r] = "pending" /\ page = "on"
TimerRuns(r) == call[r] = "pending"

\* The 30 s timer of fetch.
GiveUp(r) ==
    /\ TimerRuns(r)
    /\ call' = [call EXCEPT ![r] = "timedout"]
    /\ UNCHANGED <<page, shim, shims, quit, got, said, daemon, server, net,
                   dlink, cuts>>

OpenWebSocket(w) ==
    /\ page \in {"on", "cut"} /\ shim[w] = "new" /\ Len(toDaemon) < MaxNet
    /\ shim' = [shim EXCEPT ![w] = "connecting"]
    /\ shims' = shims \cup {w}
    /\ Send(Message("ws_proxy_open", w, 0))
    /\ UNCHANGED <<page, call, quit, got, said, daemon, server,
                   dlink, cuts>>

WsSend(w) ==
    /\ page \in {"on", "cut"} /\ shim[w] = "open"
    /\ said[w] < MaxSends /\ Len(toDaemon) < MaxNet
    /\ said' = [said EXCEPT ![w] = @ + 1]
    /\ Send(Message("ws_proxy_send", w, said[w] + 1))
    /\ UNCHANGED <<page, call, shim, shims, quit, got, daemon, server,
                   dlink, cuts>>

\* close: the owner gets its event at once, wsShims keeps the id.  An owner
\* closes a socket once (bound).
WsClose(w) ==
    /\ page \in {"on", "cut"} /\ shim[w] \in {"connecting", "open"}
    /\ w \notin quit /\ Len(toDaemon) < MaxNet
    /\ shim' = [shim EXCEPT ![w] = "closed"]
    /\ quit' = quit \cup {w}
    /\ Send(Message("ws_proxy_close", w, 0))
    /\ UNCHANGED <<page, call, shims, got, said, daemon, server,
                   dlink, cuts>>

Settles(r, q) == q = r /\ call[q] = "pending"

\* The owner is given what is in the frame.
Data(m) == m.n

\* dispatch.
DispatchToPage ==
    /\ page = "on" /\ toPhone # <<>>
    /\ toPhone' = Tail(toPhone)
    /\ LET m == Head(toPhone) IN
       \/ /\ m.kind \in {"ok", "failed"}
          /\ call' = [q \in Req |-> IF Settles(m.of, q) THEN m.kind
                                    ELSE call[q]]
          /\ UNCHANGED <<shim, shims, quit, got>>
       \/ /\ m.kind = "ws_proxy_opened"
          /\ shim' = IF m.of \in shims THEN [shim EXCEPT ![m.of] = "open"]
                     ELSE shim
          /\ UNCHANGED <<call, shims, quit, got>>
       \/ /\ m.kind = "ws_proxy_msg"
          /\ got' = IF m.of \in shims
                    THEN [got EXCEPT ![m.of] = Append(@, Data(m))] ELSE got
          /\ UNCHANGED <<call, shim, shims>>
       \/ /\ m.kind = "ws_proxy_close"
          /\ IF m.of \in shims
             THEN /\ shim' = [shim EXCEPT ![m.of] = "closed"]
                  /\ shims' = shims \ {m.of}
             ELSE UNCHANGED <<shim, shims>>
          /\ UNCHANGED <<call, got>>
    /\ UNCHANGED <<page, quit, said, daemon, server, toDaemon, lossy, dlink,
                   cuts>>

\* The user reloads a page whose link is gone; nothing else brings it back.
Reload ==
    /\ page = "cut"
    /\ page' = "connecting"
    /\ call' = [r \in Req |-> IF call[r] = "pending" THEN "dropped"
                              ELSE call[r]]
    /\ shim' = [w \in Wsid |-> IF shim[w] = "new" THEN "new" ELSE "dropped"]
    /\ shims' = {}
    /\ UNCHANGED <<quit, got, said, daemon, server, net, dlink,
                   cuts>>

----------------------------------------------------------------------------
(* The links and the relay.                                                *)

\* The daemon's link goes, with what is on its side of the relay; the phone's
\* link goes, likewise.
LoseDaemonSide ==
    \E i \in 0..Len(toDaemon), j \in 0..Len(toPhone) :
        /\ toDaemon' = SubSeq(toDaemon, i + 1, Len(toDaemon))
        /\ toPhone' = SubSeq(toPhone, 1, j)
        /\ lossy' = lossy \cup Ids(SubSeq(toDaemon, 1, i))
                          \cup Ids(SubSeq(toPhone, j + 1, Len(toPhone)))
LosePhoneSide ==
    \E i \in 0..Len(toDaemon), j \in 0..Len(toPhone) :
        /\ toDaemon' = SubSeq(toDaemon, 1, i)
        /\ toPhone' = SubSeq(toPhone, j + 1, Len(toPhone))
        /\ lossy' = lossy \cup Ids(SubSeq(toDaemon, i + 1, Len(toDaemon)))
                          \cup Ids(SubSeq(toPhone, 1, j))

DropDaemonLink ==
    /\ dlink # "away" /\ cuts < MaxCuts
    /\ cuts' = cuts + 1 /\ dlink' = "away"
    /\ LoseDaemonSide
    /\ UNCHANGED <<phone, daemon, server>>

CutPhone ==
    /\ page = "on" /\ cuts < MaxCuts
    /\ cuts' = cuts + 1 /\ page' = "cut"
    /\ LosePhoneSide
    /\ UNCHANGED <<call, shim, shims, quit, got, said, daemon, server,
                   dlink>>

\* connect; the challenge is answered; the relay says ready.
Reconnect ==
    /\ dlink' = CASE dlink = "away" -> "open" [] dlink = "open" -> "authing"
                  [] OTHER -> "ready"
    /\ dlink # "ready"
    /\ UNCHANGED <<phone, daemon, server, net, cuts>>

\* The relay has no daemon to give it to, or the daemon is not ready.
DiscardUp ==
    /\ dlink # "ready" /\ toDaemon # <<>>
    /\ toDaemon' = Tail(toDaemon) /\ lossy' = lossy \cup {Head(toDaemon).of}
    /\ UNCHANGED <<phone, daemon, server, toPhone, dlink, cuts>>

\* The relay has no phone of that peer_id.
DiscardDown ==
    /\ page # "on" /\ toPhone # <<>>
    /\ toPhone' = Tail(toPhone) /\ lossy' = lossy \cup {Head(toPhone).of}
    /\ UNCHANGED <<phone, daemon, server, toDaemon, dlink, cuts>>

----------------------------------------------------------------------------
(* The daemon: RelayClient.                                                *)

\* sendToPeer: only on an open socket.  The relay closes one on which
\* anything but the challenge's response comes first.
SendToPeer(m) ==
    IF dlink \in {"authing", "ready"}
    THEN toPhone' = Append(toPhone, m) /\ UNCHANGED <<lossy, dlink>>
    ELSE /\ lossy' = lossy \cup {m.of} /\ dlink' = "away"
         /\ UNCHANGED toPhone

\* Mutant: a socket that is not open is not closed.
ClosedIfOpen(state) == IF state = "open" THEN "closing" ELSE state
ClosedLocal(state) == CASE state = "open" -> "closing"
                        [] state = "connecting" -> "failed"
                        [] OTHER -> state

\* handleWsProxyClose forgets the socket and closes it; one that is still
\* connecting fails instead.
ProxyClose(w) ==
    IF w \in tunnels
    THEN /\ tunnels' = tunnels \ {w}
         /\ local' = [local EXCEPT ![w] = ClosedLocal(@)]
    ELSE UNCHANGED <<tunnels, local>>

\* dispatchPlaintext.
DispatchToServer ==
    /\ dlink = "ready" /\ toDaemon # <<>>
    /\ toDaemon' = Tail(toDaemon)
    /\ LET m == Head(toDaemon) IN
       \/ /\ m.kind = "http_proxy"
          /\ fetching' = [fetching EXCEPT ![m.of] = "asked"]
          /\ UNCHANGED <<local, tunnels, heard>>
       \/ /\ m.kind = "ws_proxy_open"
          /\ local' = [local EXCEPT ![m.of] = "connecting"]
          /\ tunnels' = tunnels \cup {m.of}
          /\ UNCHANGED <<fetching, heard>>
       \/ /\ m.kind = "ws_proxy_send"
          /\ heard' = IF m.of \in tunnels /\ local[m.of] = "open"
                      THEN [heard EXCEPT ![m.of] = Append(@, m.n)] ELSE heard
          /\ UNCHANGED <<fetching, local, tunnels>>
       \/ /\ m.kind = "ws_proxy_close"
          /\ ProxyClose(m.of)
          /\ UNCHANGED <<fetching, heard>>
    /\ UNCHANGED <<phone, served, sent, toPhone, lossy, dlink, cuts>>

\* The server handles a call whose request has reached it; the daemon may
\* have given toDaemon on it by then.
ServerHandles(r) ==
    /\ fetching[r] \in {"asked", "aborted"}
    /\ served' = [served EXCEPT ![r] = @ + 1]
    /\ fetching' = [fetching EXCEPT ![r] = IF @ = "asked" THEN "served"
                                           ELSE "over"]
    /\ UNCHANGED <<phone, local, tunnels, sent, heard, net, dlink, cuts>>

\* Mutant: a call that timed out is tried again.
Retried(r) == "asked"
Aborted(r) == IF fetching[r] = "asked" THEN "aborted" ELSE "over"

\* handleHttpProxy: the answer, or a 502 because fetch threw or 30 s passed.
ProxyAnswer(r) ==
    /\ fetching[r] \in {"asked", "served"} /\ Len(toPhone) < MaxNet
    /\ \/ /\ fetching[r] = "served"
          /\ fetching' = [fetching EXCEPT ![r] = "over"]
          /\ SendToPeer(Message("ok", r, 0))
       \/ /\ fetching' = [fetching EXCEPT ![r] = Aborted(r)]
          /\ SendToPeer(Message("failed", r, 0))
    /\ UNCHANGED <<phone, local, tunnels, server, toDaemon, cuts>>

\* Mutant: what is said of a socket the phone has closed is not sent.
ForwardsKnown(w) == w \in tunnels
Forwards(w) == TRUE

\* handleWsProxyOpen: the local socket's open, message, error and close
\* events.
LocalOpen(w) ==
    /\ local[w] = "connecting" /\ Len(toPhone) < MaxNet
    /\ local' = [local EXCEPT ![w] = "open"]
    /\ SendToPeer(Message("ws_proxy_opened", w, 0))
    /\ UNCHANGED <<phone, fetching, tunnels, server, toDaemon, cuts>>

LocalMessage(w) ==
    /\ local[w] \in {"open", "closing"} /\ sent[w] < MaxMsgs
    /\ Len(toPhone) < MaxNet
    /\ sent' = [sent EXCEPT ![w] = @ + 1]
    /\ IF Forwards(w) THEN SendToPeer(Message("ws_proxy_msg", w, sent[w] + 1))
                      ELSE UNCHANGED <<toPhone, lossy, dlink>>
    /\ UNCHANGED <<phone, fetching, local, tunnels, served, heard, toDaemon,
                   cuts>>

\* It fails; the server closes it, of itself or because it was asked to.
LocalFails(w) ==
    /\ local[w] \in {"connecting", "open"}
    /\ local' = [local EXCEPT ![w] = "failed"]
    /\ UNCHANGED <<phone, fetching, tunnels, server, net, dlink, cuts>>

LocalEnds(w) ==
    /\ local[w] \in {"open", "closing"}
    /\ local' = [local EXCEPT ![w] = "ended"]
    /\ UNCHANGED <<phone, fetching, tunnels, server, net, dlink, cuts>>

\* The error event; the close event follows.
LocalError(w) ==
    /\ local[w] = "failed" /\ Len(toPhone) < MaxNet
    /\ local' = [local EXCEPT ![w] = "ended"]
    /\ tunnels' = tunnels \ {w}
    /\ SendToPeer(Message("ws_proxy_close", w, 0))
    /\ UNCHANGED <<phone, fetching, server, toDaemon, cuts>>

LocalClose(w) ==
    /\ local[w] = "ended" /\ Len(toPhone) < MaxNet
    /\ local' = [local EXCEPT ![w] = "closed"]
    /\ tunnels' = tunnels \ {w}
    /\ SendToPeer(Message("ws_proxy_close", w, 0))
    /\ UNCHANGED <<phone, fetching, server, toDaemon, cuts>>

----------------------------------------------------------------------------
Init ==
    /\ page = "connecting" /\ dlink = "ready" /\ cuts = 0
    /\ call = [r \in Req |-> "new"] /\ fetching = [r \in Req |-> "none"]
    /\ served = [r \in Req |-> 0]
    /\ shim = [w \in Wsid |-> "new"] /\ local = [w \in Wsid |-> "none"]
    /\ shims = {} /\ quit = {} /\ tunnels = {} /\ lossy = {}
    /\ sent = [w \in Wsid |-> 0]
    /\ said = [w \in Wsid |-> 0]
    /\ got = [w \in Wsid |-> <<>>] /\ heard = [w \in Wsid |-> <<>>]
    /\ toDaemon = <<>> /\ toPhone = <<>>

Next ==
    \/ Activate \/ DispatchToPage \/ Reload
    \/ DropDaemonLink \/ CutPhone \/ Reconnect \/ DiscardUp \/ DiscardDown
    \/ DispatchToServer
    \/ \E r \in Req : Fetch(r) \/ GiveUp(r) \/ ServerHandles(r)
                      \/ ProxyAnswer(r)
    \/ \E w \in Wsid : \/ OpenWebSocket(w) \/ WsSend(w) \/ WsClose(w)
                       \/ LocalOpen(w) \/ LocalMessage(w) \/ LocalFails(w)
                       \/ LocalEnds(w) \/ LocalError(w) \/ LocalClose(w)

Spec == Init /\ [][Next]_vars

Refused(w) == local[w] = "connecting" /\ LocalFails(w)

\* The timer of every fetch fires; the daemon connects again for ever, the
\* network and the event loops move; a local socket that connects opens or
\* fails, and the server answers a close.  Nobody has to use the page, and
\* links need not drop.
Fairness ==
    /\ WF_vars(DispatchToPage) /\ WF_vars(DiscardDown)
    /\ WF_vars(DispatchToServer) /\ WF_vars(DiscardUp) /\ WF_vars(Reconnect)
    /\ \A r \in Req : WF_vars(GiveUp(r))
    /\ \A w \in Wsid : /\ WF_vars(LocalOpen(w) \/ Refused(w))
                       /\ WF_vars(local[w] = "closing" /\ LocalEnds(w))
                       /\ WF_vars(LocalError(w)) /\ WF_vars(LocalClose(w))

FairSpec == Spec /\ Fairness

----------------------------------------------------------------------------
TypeOK ==
    /\ page \in {"connecting", "on", "cut"}
    /\ call \in [Req -> {"new", "pending", "ok", "failed", "timedout",
                         "dropped"}]
    /\ shim \in [Wsid -> {"new", "connecting", "open", "closed", "dropped"}]
    /\ shims \subseteq Wsid /\ quit \subseteq Wsid /\ tunnels \subseteq Wsid
    /\ sent \in [Wsid -> Nat] /\ said \in [Wsid -> Nat]
    /\ got \in [Wsid -> Seq(Nat)] /\ heard \in [Wsid -> Seq(Nat)]
    /\ dlink \in {"away", "open", "authing", "ready"}
    /\ fetching \in [Req -> {"none", "asked", "served", "aborted", "over"}]
    /\ served \in [Req -> Nat]
    /\ local \in [Wsid -> {"none", "connecting", "open", "closing", "failed",
                           "ended", "closed"}]
    /\ toDaemon \in Seq(UpMessage) /\ toPhone \in Seq(DownMessage)
    /\ lossy \subseteq Req \cup Wsid
    /\ cuts \in Nat

\* Every call is a remote call as RemoteCalls says: served at most once,
\* settled at most once, and told "ok" only when it was served.
Calls == INSTANCE RemoteCalls WITH result <- call
CallsAreCalls == Calls!Spec

\* The places of a socket's messages on their way to the page.
Coming(w) == {i \in DOMAIN toPhone : /\ toPhone[i].kind = "ws_proxy_msg"
                                     /\ toPhone[i].of = w}

\* While nothing of a socket was lost, its owner has had a prefix of what the
\* server sent and the rest is under way, in order, also when the page has
\* closed it and the daemon has not.
StreamIntact ==
    \A w \in shims \ lossy :
        /\ Len(got[w]) <= sent[w] /\ got[w] = [i \in 1..Len(got[w]) |-> i]
        /\ {toPhone[i].n : i \in Coming(w)} = (Len(got[w]) + 1)..sent[w]
        /\ \A i, j \in Coming(w) : i < j => toPhone[i].n < toPhone[j].n

\* A fetch settles, link or no link.
CallSettles == \A r \in Req : call[r] = "pending" ~> call[r] # "pending"

\* A socket that is opened opens or fails, and the two ends of one that is
\* closed on either side are both closed in the end, unless something of it
\* was lost.
Settled(w) == w \in lossy \/ shim[w] = "dropped"
SocketsSettle ==
    \A w \in Wsid :
        /\ shim[w] = "connecting" ~> shim[w] # "connecting" \/ Settled(w)
        /\ shim[w] = "closed" ~> local[w] \in {"none", "closed"} \/ Settled(w)
        /\ local[w] = "closed" ~> shim[w] = "closed" \/ Settled(w)

\* A message of this kind of this socket is under way.
UnderWay(msgs, w, kind) == \E i \in DOMAIN msgs : msgs[i].of = w /\ msgs[i].kind = kind

\* Nobody waits for nothing: while a page waits for a socket to open, its request,
\* the daemon's own attempt or the answer is under way; when the page has closed
\* one, the daemon has heard it or will; when the daemon has, the page has heard
\* it or will; unless something of the socket was lost or the page was reloaded.
NobodyWaitsInVain ==
    \A w \in Wsid : ~Settled(w) =>
        /\ shim[w] = "connecting" =>
              \/ UnderWay(toDaemon, w, "ws_proxy_open") \/ local[w] \in {"connecting", "failed"}
              \/ UnderWay(toPhone, w, "ws_proxy_opened") \/ UnderWay(toPhone, w, "ws_proxy_close")
        /\ shim[w] = "closed" =>
              \/ UnderWay(toDaemon, w, "ws_proxy_close")
              \/ local[w] \in {"closing", "failed", "ended", "closed"}
        /\ local[w] = "closed" => shim[w] = "closed" \/ UnderWay(toPhone, w, "ws_proxy_close")
=============================================================================
