------------------------------ MODULE RelayHub ------------------------------
(***************************************************************************)
(* Pairing through the relay: the Cloudflare worker                        *)
(* (src/worker/src/index.ts), its coordinator of pairing codes             *)
(* (pairing-coordinator.ts), the durable object of one daemon              *)
(* (daemon-relay.ts), and who talks to it: the daemon's RelayClient        *)
(* (src/src/relay-client.ts), the `pair` command (src/src/cli/pair.ts) and *)
(* the phones (src/web-phone/).                                            *)
(*                                                                         *)
(* Codes are persistent (generation numbers: `pair --rotate` makes the     *)
(* next) or one-time (`pair --new`).  A handler of a durable object is one *)
(* step: its input gate holds other events back while it awaits storage.   *)
(* Challenge and signature checks succeed, so a connection and its         *)
(* handshake are one step; what the relay sends a socket earlier is        *)
(* dropped by both clients.  The handlers of the daemon decide at once     *)
(* here; RelayPeers has their overlap and their failing saves.             *)
(***************************************************************************)
EXTENDS Naturals, Sequences, FiniteSets

CONSTANTS
    Phone,      \* phones, one signing key each
    OneTime,    \* codes `pair --new` may draw
    MaxUnauth,  \* MAX_UNAUTH_PHONE_SOCKETS
    MaxGen,     \* bound: generations of the persistent code
    MaxUp,      \* bound: frames under way to the relay, per socket
    MaxDown,    \* bound: frames under way from the relay, per socket
    MaxLosses,  \* bound: connections that break, pages that are closed
    MaxClaims,  \* bound: attempts to pair
    None

Gen  == 1 .. MaxGen
Code == Gen \cup OneTime

ASSUME BoundAssumption ==
    /\ MaxUnauth \in Nat /\ MaxGen \in Nat \ {0}
    /\ MaxUp \in Nat /\ MaxDown \in Nat /\ MaxLosses \in Nat
    /\ MaxClaims \in Nat
ASSUME CodeAssumption == Nat \cap OneTime = {} /\ None \notin Nat \cup OneTime

VARIABLES
    claimable,    \* PairingCoordinator.pending
    pendingPair,  \* the durable object's pending_pair
    listed,       \* its paired_phones
    up, down,     \* frames from and to the daemon's and the command's socket
    pair,         \* each phone's pairing socket, seen from both ends
    session,      \* each phone's reconnect-mode socket: none, open, leaving
    believes,     \* the phone has a saved PhoneState
    link,         \* the daemon: off, dialing, ready
    config,       \* RelayClient.deps.config: paired phones, pair_token
    deciding,     \* offers a handler of the daemon is still at work on
    file,         \* config.json
    cli,          \* the `pair --new` command: waiting, and what it loaded
    minted,       \* generations of the persistent code so far
    drawn,        \* one-time codes already drawn
    newest,       \* history: newest generation the relay was given
    admitted,     \* history: phones a one-time code let in
    stray,        \* history: the ack a phone took came before its offer
    kicked,       \* history: struck off paired_phones since it was listed
    losses,       \* counts to MaxLosses
    claims        \* counts to MaxClaims

relayVars == <<claimable, pendingPair, listed, newest, admitted>>
phoneVars == <<pair, session, believes, stray, kicked, claims>>
cliVars   == <<cli, minted, drawn>>
linkVars  == <<up, down, link, losses>>
confVars  == <<config, deciding, file>>
vars == <<relayVars, phoneVars, cliVars, linkVars, confVars>>

Src    == {"daemon", "cli"}
Config == [peers : SUBSET Phone, token : Gen]
Frame  == [type : {"register"}, code : Code] \cup [type : {"ack"}]
          \cup [type : {"kick"}, phone : Phone]
Notice == [type : {"offer", "left"}, phone : Phone]

\* claimed: the worker has the code claimed, the durable object has not seen
\* the request; hello: pair_init under way; sent: pair_offer under way;
\* offered: the relay took the offer; passed: it passed it on from a socket
\* already acknowledged; late: the phone closed with its offer under way.
Held    == {"hello", "sent", "offered", "passed", "late"}
Attempt == [stage : {"none", "claimed"} \cup Held, code : Code \cup {None},
            acked : BOOLEAN, early : BOOLEAN]
Idle    == [stage |-> "none", code |-> None, acked |-> FALSE, early |-> FALSE]

----------------------------------------------------------------------------
(* The relay.                                                              *)

\* broadcastToDaemons, as far as the sockets' owners listen: the revoking
\* command ignores whatever it is sent.
Listening(s) == IF s = "daemon" THEN link = "ready" ELSE cli.waiting

Broadcast(n) ==
    down' = [s \in Src |->
               IF Listening(s) THEN Append(down[s], n) ELSE down[s]]

RoomDown == \A s \in Src : Len(down[s]) < MaxDown

Loss == losses < MaxLosses /\ losses' = losses + 1

Send(s, f) == up' = [up EXCEPT ![s] = Append(@, f)]

Unauthed == {p \in Phone : pair[p].stage \in Held /\ ~pair[p].acked}

\* Mutant: a claim leaves a one-time code in the map.
StillClaimable(c) == claimable

\* PairingCoordinator.claim: a one-time code is consumed.
Claimed(c) == IF c \in OneTime THEN claimable \ {c} ELSE claimable

\* The worker: /v1/phone with a token.  A page that pairs starts without a
\* saved state and without the earlier page's socket.
PhoneClaims(p, c) ==
    /\ pair[p].stage = "none" /\ c \in claimable
    /\ claims < MaxClaims /\ claims' = claims + 1
    /\ claimable' = Claimed(c)
    /\ pair' = [pair EXCEPT ![p] = [Idle EXCEPT !.stage = "claimed",
                                                !.code = c]]
    /\ believes' = [believes EXCEPT ![p] = FALSE]
    /\ session' = [session EXCEPT ![p] = "none"]
    /\ UNCHANGED <<pendingPair, listed, newest, admitted, stray, kicked,
                   cliVars, linkVars, confVars>>

\* acceptPhone with a token: pair_init, or the socket is closed (4002, 4029).
AcceptPhone(p) ==
    LET c  == pair[p].code
        ok == pendingPair = c /\ Cardinality(Unauthed) < MaxUnauth
    IN
    /\ pair[p].stage = "claimed"
    /\ pair' = [pair EXCEPT ![p] = IF ok THEN [@ EXCEPT !.stage = "hello"]
                                   ELSE Idle]
    /\ admitted' = IF ok /\ c \in OneTime
                   THEN [admitted EXCEPT ![c] = @ \cup {p}] ELSE admitted
    /\ UNCHANGED <<claimable, pendingPair, listed, newest, session, believes,
                   stray, kicked, cliVars, linkVars, claims, confVars>>

\* A pairing socket after its offer was handled.
AfterOffer(p, next) == IF pair[p].stage = "late" THEN Idle
                       ELSE [pair[p] EXCEPT !.stage = next]

\* Mutant: only the socket learns who it is.
OnlySocketKnows(p) == listed

\* handlePhoneMessage lists the signing key of the offer.
Listed(p) == listed \cup {p}

\* webSocketMessage and handlePhoneMessage, pair_offer: unauthenticated and
\* in time, the phone is listed before the daemon has decided; the socket of
\* a late offer is closed; on an acknowledged socket it is passed on.
HandleOffer(p) ==
    /\ pair[p].stage \in {"sent", "late"}
    /\ RoomDown
    /\ \/ /\ ~pair[p].acked
          /\ listed' = Listed(p)
          /\ kicked' = [kicked EXCEPT ![p] = FALSE]
          /\ pair' = [pair EXCEPT ![p] = AfterOffer(p, "offered")]
          /\ Broadcast([type |-> "offer", phone |-> p])
       \/ /\ ~pair[p].acked
          /\ pair' = [pair EXCEPT ![p] = Idle]
          /\ UNCHANGED <<listed, kicked, down>>
       \/ /\ pair[p].acked
          /\ pair' = [pair EXCEPT ![p] = AfterOffer(p, "passed")]
          /\ Broadcast([type |-> "offer", phone |-> p])
          /\ UNCHANGED <<listed, kicked>>
    /\ UNCHANGED <<claimable, pendingPair, newest, admitted, session, believes,
                   stray, cliVars, up, link, losses, claims, confVars>>

\* handleDaemonMessage, register_pairing: one pending_pair, whoever set it
\* before; the coordinator keeps every code it is given.
Register(c) ==
    /\ pendingPair' = c
    /\ claimable' = claimable \cup {c}
    /\ newest' = IF c \in Gen /\ c > newest THEN c ELSE newest
    /\ UNCHANGED <<listed, pair, session, kicked>>

\* handleDaemonMessage, pair_ack: it names no phone, so every pairing socket
\* that has none yet gets it; a one-time pending_pair is used up.
Ack ==
    /\ pair' = [p \in Phone |->
                  IF p \in Unauthed
                  THEN [pair[p] EXCEPT !.acked = TRUE,
                                       !.early = pair[p].stage # "offered"]
                  ELSE pair[p]]
    /\ pendingPair' = IF pendingPair \in Gen THEN pendingPair ELSE None
    /\ UNCHANGED <<claimable, listed, newest, session, kicked>>

\* Mutant: the phone is struck off but its sockets stay.
StaysOn(p) == session

\* revoke_phone closes the sockets that carry the phone's signing key.
ClosedFor(p) == [session EXCEPT ![p] = "none"]

Kick(p) ==
    /\ listed' = listed \ {p}
    /\ kicked' = [kicked EXCEPT ![p] = TRUE]
    /\ session' = ClosedFor(p)
    /\ pair' = [pair EXCEPT ![p] = IF @.stage = "offered" THEN Idle ELSE @]
    /\ UNCHANGED <<claimable, pendingPair, newest>>

HandleDaemonMessage(s) ==
    /\ up[s] # <<>>
    /\ up' = [up EXCEPT ![s] = Tail(@)]
    /\ LET f == Head(up[s]) IN
         \/ f.type = "register" /\ Register(f.code)
         \/ f.type = "ack" /\ Ack
         \/ f.type = "kick" /\ Kick(f.phone)
    /\ UNCHANGED <<admitted, believes, stray, cliVars, down, link, losses,
                   claims, confVars>>

\* The coordinator's and the durable object's ten minutes are over.
CodeExpires(c) ==
    /\ c \in claimable \cup {pendingPair}
    /\ claimable' = claimable \ {c}
    /\ pendingPair' = IF pendingPair = c THEN None ELSE pendingPair
    /\ UNCHANGED <<listed, newest, admitted, phoneVars, cliVars, linkVars,
                   confVars>>

----------------------------------------------------------------------------
(* Phones.                                                                 *)

\* performPairing: pair_init is answered with the offer.
HearInit(p) ==
    /\ pair[p].stage = "hello"
    /\ pair' = [pair EXCEPT ![p].stage = "sent"]
    /\ UNCHANGED <<relayVars, session, believes, stray, kicked, cliVars,
                   linkVars, claims, confVars>>

\* The phone closes its pairing socket; an offer under way still arrives.
Closed(p) == [pair EXCEPT ![p] = IF @.stage = "sent"
                                 THEN [@ EXCEPT !.stage = "late"] ELSE Idle]

\* performPairing: pair_ack after pair_init settles it; the state is saved.
HearAck(p) ==
    /\ pair[p].acked /\ pair[p].stage \in {"sent", "offered", "passed"}
    /\ believes' = [believes EXCEPT ![p] = TRUE]
    /\ stray' = [stray EXCEPT ![p] = pair[p].early]
    /\ pair' = Closed(p)
    /\ UNCHANGED <<relayVars, session, kicked, cliVars, linkVars, claims,
                   confVars>>

\* The page is closed, or the connection fails.
GiveUp(p) ==
    /\ pair[p].stage \notin {"none", "late"}
    /\ Loss
    /\ pair' = Closed(p)
    /\ UNCHANGED <<relayVars, session, believes, stray, kicked, cliVars, up,
                   down, link, claims, confVars>>

\* connectAuthed and acceptPhone with a signature: a phone that is not listed
\* is refused (4001), which changes nothing.
Reconnect(p) ==
    /\ believes[p] /\ session[p] = "none" /\ pair[p].stage \in {"none", "late"}
    /\ p \in listed
    /\ session' = [session EXCEPT ![p] = "open"]
    /\ UNCHANGED <<relayVars, pair, believes, stray, kicked, cliVars, linkVars,
                   claims, confVars>>

\* The connection of a session, or a revoke_self under way, is lost.
SessionDrops(p) ==
    /\ session[p] # "none"
    /\ Loss
    /\ session' = [session EXCEPT ![p] = "none"]
    /\ UNCHANGED <<relayVars, pair, believes, stray, kicked, cliVars, up, down,
                   link, claims, confVars>>

\* requestUnpair: revoke_self on an open socket; the state goes in any case.
Leave(p) ==
    /\ believes[p] /\ session[p] \in {"none", "open"}
    /\ believes' = [believes EXCEPT ![p] = FALSE]
    /\ session' = [session EXCEPT ![p] = IF @ = "open" THEN "leaving" ELSE @]
    /\ UNCHANGED <<relayVars, pair, stray, kicked, cliVars, linkVars, claims,
                   confVars>>

\* handlePhoneMessage, revoke_self.
HandleLeave(p) ==
    /\ session[p] = "leaving"
    /\ RoomDown
    /\ listed' = listed \ {p}
    /\ kicked' = [kicked EXCEPT ![p] = TRUE]
    /\ session' = [session EXCEPT ![p] = "none"]
    /\ Broadcast([type |-> "left", phone |-> p])
    /\ UNCHANGED <<claimable, pendingPair, newest, admitted, pair, believes,
                   stray, cliVars, up, link, losses, claims, confVars>>

----------------------------------------------------------------------------
(* The daemon.                                                             *)

DaemonStarts ==
    /\ link = "off"
    /\ link' = "dialing" /\ config' = file
    /\ UNCHANGED <<relayVars, phoneVars, cliVars, up, down, deciding, file,
                   losses>>

\* RelayClient.handleMessage, ready: the persistent code is registered again.
DaemonReady ==
    /\ link = "dialing"
    /\ link' = "ready"
    /\ up' = [up EXCEPT !["daemon"] =
                <<[type |-> "register", code |-> config.token]>>]
    /\ UNCHANGED <<relayVars, phoneVars, cliVars, down, losses, confVars>>

\* The connection breaks, or the process ends: frames under way are lost.
\* What the relay handles first it handles before this step.
LinkLost(next) ==
    /\ Loss
    /\ link' = next
    /\ up' = [up EXCEPT !["daemon"] = <<>>]
    /\ down' = [down EXCEPT !["daemon"] = <<>>]
    /\ UNCHANGED <<relayVars, phoneVars, cliVars, config, file>>

LinkDrops   == link = "ready" /\ LinkLost("dialing") /\ UNCHANGED deciding
DaemonExits == link # "off" /\ LinkLost("off") /\ deciding' = {}

\* handlePairOffer of a known phone acknowledges again; of another it starts
\* to work.  handlePhoneRevoked drops the phone and saves the whole config.
DaemonHears ==
    /\ down["daemon"] # <<>> /\ Len(up["daemon"]) < MaxUp
    /\ down' = [down EXCEPT !["daemon"] = Tail(@)]
    /\ LET n == Head(down["daemon"])
           p == n.phone
       IN  \/ /\ n.type = "offer" /\ p \in config.peers
              /\ Send("daemon", [type |-> "ack"])
              /\ UNCHANGED <<config, deciding, file>>
           \/ /\ n.type = "offer" /\ p \notin config.peers
              /\ deciding' = deciding \cup {p}
              /\ UNCHANGED <<up, config, file>>
           \/ /\ n.type = "left"
              /\ config' = [config EXCEPT !.peers = @ \ {p}]
              /\ file' = IF p \in config.peers THEN config' ELSE file
              /\ UNCHANGED <<up, deciding>>
    /\ UNCHANGED <<relayVars, phoneVars, cliVars, link, losses>>

\* The rest of handlePairOffer: accepted, saved and acknowledged on whatever
\* connection there is by then; or refused, and the nack reaches no phone.
Decide(p) ==
    /\ p \in deciding /\ Len(up["daemon"]) < MaxUp
    /\ deciding' = deciding \ {p}
    /\ \/ /\ config' = [config EXCEPT !.peers = @ \cup {p}]
          /\ file' = config'
          /\ IF link = "ready" THEN Send("daemon", [type |-> "ack"])
             ELSE UNCHANGED up
       \/ UNCHANGED <<config, file, up>>
    /\ UNCHANGED <<relayVars, phoneVars, cliVars, down, link, losses>>

----------------------------------------------------------------------------
(* The pair command.                                                       *)

\* cmdNew up to its register_pairing, with the config it loaded.
CliNew(c) ==
    /\ ~cli.waiting /\ up["cli"] = <<>> /\ c \notin drawn
    /\ cli' = [waiting |-> TRUE, config |-> file]
    /\ drawn' = drawn \cup {c}
    /\ Send("cli", [type |-> "register", code |-> c])
    /\ UNCHANGED <<relayVars, phoneVars, minted, down, link, losses, confVars>>

CliGone == cli' = [cli EXCEPT !.waiting = FALSE]

\* cmdNew, pair_offer: acknowledge, save the loaded config with the phone,
\* close.  Every other message is ignored.
CliHears ==
    /\ down["cli"] # <<>> /\ Len(up["cli"]) < MaxUp
    /\ LET n == Head(down["cli"]) IN
         \/ /\ n.type = "offer"
            /\ Send("cli", [type |-> "ack"])
            /\ file' = [cli.config EXCEPT !.peers = @ \cup {n.phone}]
            /\ CliGone
            /\ down' = [down EXCEPT !["cli"] = <<>>]
         \/ /\ n.type = "left"
            /\ down' = [down EXCEPT !["cli"] = Tail(@)]
            /\ UNCHANGED <<cli, up, file>>
    /\ UNCHANGED <<relayVars, phoneVars, minted, drawn, link, config, deciding,
                   losses>>

\* The command's ten minutes are over, or the user stops it.
CliEnds ==
    /\ cli.waiting
    /\ CliGone
    /\ down' = [down EXCEPT !["cli"] = <<>>]
    /\ UNCHANGED <<relayVars, phoneVars, minted, drawn, up, link, losses,
                   confVars>>

\* cmdRevoke: the file first, then the relay, if it can be reached.
CliRevoke(p) ==
    /\ p \in file.peers /\ ~cli.waiting /\ up["cli"] = <<>>
    /\ file' = [file EXCEPT !.peers = @ \ {p}]
    /\ \/ Send("cli", [type |-> "kick", phone |-> p])
       \/ UNCHANGED up
    /\ UNCHANGED <<relayVars, phoneVars, cliVars, down, link, config, deciding,
                   losses>>

\* cmdRotate and /admin/rotate-pair: the daemon is then restarted, which is
\* DaemonExits and DaemonStarts.
Rotate ==
    /\ minted < MaxGen
    /\ minted' = minted + 1
    /\ file' = [file EXCEPT !.token = minted + 1]
    /\ UNCHANGED <<relayVars, phoneVars, cli, drawn, linkVars, config,
                   deciding>>

----------------------------------------------------------------------------

Init ==
    /\ claimable = {} /\ pendingPair = None /\ listed = {}
    /\ up = [s \in Src |-> <<>>] /\ down = [s \in Src |-> <<>>]
    /\ pair = [p \in Phone |-> Idle]
    /\ session = [p \in Phone |-> "none"]
    /\ believes = [p \in Phone |-> FALSE]
    /\ link = "off" /\ deciding = {}
    /\ file = [peers |-> {}, token |-> 1] /\ config = file
    /\ cli = [waiting |-> FALSE, config |-> file]
    /\ minted = 1 /\ drawn = {} /\ newest = 1
    /\ admitted = [c \in OneTime |-> {}]
    /\ stray = [p \in Phone |-> FALSE]
    /\ kicked = [p \in Phone |-> FALSE]
    /\ losses = 0 /\ claims = 0

PhoneNext(p) ==
    \/ \E c \in Code : PhoneClaims(p, c)
    \/ AcceptPhone(p) \/ HearInit(p) \/ HandleOffer(p) \/ HearAck(p)
    \/ GiveUp(p) \/ Reconnect(p) \/ SessionDrops(p)
    \/ Leave(p) \/ HandleLeave(p)

DaemonNext ==
    \/ DaemonStarts \/ DaemonReady \/ LinkDrops \/ DaemonExits \/ DaemonHears
    \/ \E p \in Phone : Decide(p)

CliNext ==
    \/ \E c \in OneTime : CliNew(c)
    \/ CliHears \/ CliEnds \/ Rotate
    \/ \E p \in Phone : CliRevoke(p)

Next ==
    \/ \E p \in Phone : PhoneNext(p)
    \/ \E s \in Src : HandleDaemonMessage(s)
    \/ \E c \in OneTime : CodeExpires(c)
    \/ DaemonNext
    \/ CliNext

Spec == Init /\ [][Next]_vars

----------------------------------------------------------------------------
(* Properties.                                                             *)

\* Every variable keeps its type.
TypeOK ==
    /\ claimable \subseteq Code /\ pendingPair \in Code \cup {None}
    /\ listed \subseteq Phone
    /\ up \in [Src -> Seq(Frame)] /\ down \in [Src -> Seq(Notice)]
    /\ pair \in [Phone -> Attempt]
    /\ session \in [Phone -> {"none", "open", "leaving"}]
    /\ believes \in [Phone -> BOOLEAN]
    /\ link \in {"off", "dialing", "ready"}
    /\ config \in Config /\ file \in Config /\ deciding \subseteq Phone
    /\ cli \in [waiting : BOOLEAN, config : Config]
    /\ minted \in Gen /\ drawn \subseteq OneTime /\ newest \in Gen
    /\ admitted \in [OneTime -> SUBSET Phone]
    /\ stray \in [Phone -> BOOLEAN] /\ kicked \in [Phone -> BOOLEAN]
    /\ losses \in 0 .. MaxLosses /\ claims \in 0 .. MaxClaims

\* A code of `pair --new` lets one phone in, however claims, the durable
\* object's single pending_pair and reconnecting daemons interleave.
OneTimeCodePairsOne == \A c \in OneTime : Cardinality(admitted[c]) <= 1

\* A phone with a session is one the durable object lists: striking a phone
\* off, from either side, leaves it no socket.
SessionsAreListed ==
    \A p \in Phone : session[p] # "none" => p \in listed

\* A phone that took an ack for the offer it made can come back: it is in
\* paired_phones until it leaves or is revoked.
BelieverIsListed ==
    \A p \in Phone : believes[p] /\ ~stray[p] => p \in listed \/ kicked[p]

\* README.md: a rotated code is invalid.  Once the relay was given a newer
\* persistent code, it never lets phones in with an older one.
RotatedCodeStaysDead == pendingPair \in Gen => pendingPair >= newest
=============================================================================
