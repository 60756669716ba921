---------------------------- MODULE HelperBridge -----------------------------
(***************************************************************************)
(* A prompt for a session without a wrapper is entered into VSCode: /send  *)
(* (src/src/server.ts), the registry of helper extensions and the submit   *)
(* with its ack (src/src/vscode-bridge.ts, src/src/ext-registry.ts), the   *)
(* extension in every window (src/extension/src) and the desktop its       *)
(* scripts work on: one foreground window, one clipboard, the input box of *)
(* every panel.  A lost message is never sent again.                       *)
(***************************************************************************)
EXTENDS Naturals, Sequences, FiniteSets

CONSTANTS
    Req,        \* prompts sent, each with its request_id
    Session,
    Window,     \* VSCode windows with the helper
    None, User, \* User: what the user has copied
    Target,     \* the session each prompt is for
    Ways,       \* how each may be sent: by "helper", "prefill", "legacy", "submit"
    Covers,     \* the windows whose root is an ancestor of its cwd
    Depth,      \* length of each window's root
    Titled,     \* the windows whose title matches the folder of each window
    MaxSock,    \* bound on connections of extensions
    Overlap     \* scripts of two windows may run at the same time

\* A submit and how far its script is.
Steps == [r : Req, at : {"copy", "front", "paste", "enter", "restore"}]

ASSUME HelperAssumption ==
    /\ Target \in [Req -> Session] /\ Covers \in [Req -> SUBSET Window]
    /\ Depth \in [Window -> Nat] /\ Titled \in [Window -> SUBSET Window]
    /\ Ways \in [Req -> SUBSET {"helper", "prefill", "legacy", "submit"}]
    /\ MaxSock \in Nat /\ Overlap \in BOOLEAN
    /\ None \notin Req \cup Session \cup Window \cup Nat \cup Steps /\ User \notin Req

Sock == 1..MaxSock

VARIABLES
    req,      \* what the caller of /send was told
    listens,  \* the socket each submitViaHelper listens on
    registry, \* entries of ExtRegistry: socket and window, oldest first
    pinged,   \* sockets in pendingPong
    dsock, hsock,  \* each connection as the daemon and the window see it
    ws,       \* WsClient.ws of each window
    toD, toH, \* under way on each connection
    chain,    \* submitChain of each window
    step,     \* the submit it works on and how far it is
    fg, shown, box,  \* foreground window, panel in front, text in each panel
    clip, saved,     \* the clipboard, and what each script put aside
    legacy,   \* the prompt of a legacy script that is running
    landed,   \* what was submitted in each session
    prompted  \* prompts handed to a headless run that has not ended

daemon == <<req, listens, registry, pinged>>
links == <<dsock, hsock, ws, toD, toH>>
windows == <<chain, step>>
desktop == <<fg, shown, box, clip, saved, legacy>>
bridgeVars == <<daemon, links, windows, desktop, landed, prompted>>

Message(kind, r) == [kind |-> kind, r |-> r]

\* A message to a side that is gone is lost without an error.
Posted(queue, s, m) ==
    IF dsock[s] = "open" /\ hsock[s] = "open"
    THEN [queue EXCEPT ![s] = Append(@, m)] ELSE queue

----------------------------------------------------------------------------
(* The daemon.                                                             *)

Without(s) == SelectSeq(registry, LAMBDA e : e.sock # s)

CoveringFor(r) == {i \in 1..Len(registry) : registry[i].window \in Covers[r]}
\* ExtRegistry.findForCwd: the deepest roots.
DeepestFor(r) == {i \in CoveringFor(r) : \A j \in CoveringFor(r) :
                      Depth[registry[j].window] <= Depth[registry[i].window]}

\* The sort is stable: the oldest of them.
FindForCwd(r) ==
    IF DeepestFor(r) = {} THEN None
    ELSE registry[CHOOSE i \in DeepestFor(r) : \A j \in DeepestFor(r) : i <= j].sock

\* /send without submit, submitViaHelper.
SendHelper(r) ==
    /\ req[r] = "new"
    /\ LET s == FindForCwd(r) IN
       /\ req' = [req EXCEPT ![r] = IF s = None THEN "nohelper" ELSE "waiting"]
       /\ listens' = [listens EXCEPT ![r] = s]
       /\ toH' = IF s = None THEN toH ELSE Posted(toH, s, Message("submit", r))
    /\ UNCHANGED <<registry, pinged, dsock, hsock, ws, toD, windows, desktop, landed,
                   prompted>>

\* Mutant: every ack of the socket is taken for this prompt's.
AnyAck(r, s, q) == listens[q] = s
AckFor(r, s, q) == listens[q] = s /\ q = r

Acked(s, r, how) ==
    /\ req' = [q \in Req |-> IF AckFor(r, s, q) THEN how ELSE req[q]]
    /\ listens' = [q \in Req |-> IF AckFor(r, s, q) THEN None ELSE listens[q]]

SubmitTimeout(r) ==
    /\ listens[r] # None
    /\ req' = [req EXCEPT ![r] = "timeout"]
    /\ listens' = [listens EXCEPT ![r] = None]
    /\ UNCHANGED <<registry, pinged, links, windows, desktop, landed, prompted>>

\* The message handler of /ws_ext, and the listener of a submit.
DaemonHears(s) ==
    /\ dsock[s] = "open" /\ toD[s] # <<>>
    /\ toD' = [toD EXCEPT ![s] = Tail(@)]
    /\ LET m == Head(toD[s]) IN
       CASE m.kind = "register" ->
                /\ registry' = Append(Without(s), [sock |-> s, window |-> m.r])
                /\ UNCHANGED <<req, listens, pinged>>
         [] m.kind = "pong" ->
                pinged' = pinged \ {s} /\ UNCHANGED <<req, listens, registry>>
         [] m.kind = "ack_ok" -> Acked(s, m.r, "ok") /\ UNCHANGED <<registry, pinged>>
         [] m.kind = "ack_fail" ->
                Acked(s, m.r, "failed") /\ UNCHANGED <<registry, pinged>>
    /\ UNCHANGED <<dsock, hsock, ws, toH, windows, desktop, landed, prompted>>

\* The daemon's close event, from the peer or from its own terminate.
DaemonCloses(s) == /\ dsock' = [dsock EXCEPT ![s] = "closed"]
                   /\ registry' = Without(s)
                   /\ pinged' = pinged \ {s}

SeesClose(s) == /\ dsock[s] = "open" /\ hsock[s] = "gone"
                /\ DaemonCloses(s)
                /\ UNCHANGED <<req, listens, hsock, ws, toD, toH, windows, desktop,
                               landed, prompted>>

\* The ping of the interval before is still unanswered.
Overdue(s) == s \in pinged

\* The heartbeat's interval; the deadline of a ping is over before the next.
\* A window that is up but slow is disconnected as well.
Heartbeat(s) ==
    /\ dsock[s] = "open"
    /\ IF Overdue(s)
       THEN DaemonCloses(s) /\ UNCHANGED toH
       ELSE /\ s \notin pinged
            /\ pinged' = pinged \cup {s}
            /\ toH' = Posted(toH, s, Message("ping", None))
            /\ UNCHANGED <<dsock, registry>>
    /\ UNCHANGED <<req, listens, hsock, ws, toD, windows, desktop, landed, prompted>>

----------------------------------------------------------------------------
(* The extension.                                                          *)

\* WsClient.connect: a connection of its own for every attempt that works.
ConnectHelper(w) ==
    /\ ws[w] = None
    /\ \E s \in Sock :
          /\ dsock[s] = "unused" /\ \A t \in 1..(s - 1) : dsock[t] # "unused"
          /\ ws' = [ws EXCEPT ![w] = s]
          /\ dsock' = [dsock EXCEPT ![s] = "open"]
          /\ hsock' = [hsock EXCEPT ![s] = "open"]
          /\ toD' = [toD EXCEPT ![s] = <<Message("register", w)>>]
    /\ UNCHANGED <<daemon, toH, windows, desktop, landed, prompted>>

\* The window loses the connection: at once, and the daemon hears of it later.
Loses(w) ==
    /\ ws[w] # None
    /\ hsock' = [hsock EXCEPT ![ws[w]] = "gone"]
    /\ toD' = [toD EXCEPT ![ws[w]] = <<>>] /\ toH' = [toH EXCEPT ![ws[w]] = <<>>]
    /\ ws' = [ws EXCEPT ![w] = None]
    /\ UNCHANGED <<daemon, dsock, windows, desktop, landed, prompted>>

\* handleMessage: a ping is answered at once, a submit joins the chain.
HelperHears(w) ==
    /\ ws[w] # None /\ toH[ws[w]] # <<>>
    /\ LET s == ws[w]  m == Head(toH[s]) IN
       /\ toH' = [toH EXCEPT ![s] = Tail(@)]
       /\ IF m.kind = "ping"
          THEN toD' = Posted(toD, s, Message("pong", None)) /\ UNCHANGED chain
          ELSE chain' = [chain EXCEPT ![w] = Append(@, m.r)] /\ UNCHANGED toD
    /\ UNCHANGED <<daemon, dsock, hsock, ws, step, desktop, landed, prompted>>

\* sendMsg goes out on the connection of now, if there is one.
SendAck(w, how, r) == toD' = IF ws[w] = None THEN toD
                             ELSE Posted(toD, ws[w], Message(how, r))

Idle(w) == step[w] = None
At(w, where) == ~Idle(w) /\ step[w].at = where
Onward(w, where) == step' = [step EXCEPT ![w].at = where]
DesktopFree(w) == \/ Overlap
                  \/ legacy = None /\ \A v \in Window \ {w} : Idle(v)

\* What is left of the chain when a submit starts, and whose panel it opens.
ChainLeft(w) == Tail(chain[w])
PanelOf(r) == Target[r]

\* submit: the panel is revealed, then focused.
Reveal(w) ==
    /\ Idle(w) /\ chain[w] # <<>> /\ DesktopFree(w)
    /\ chain' = [chain EXCEPT ![w] = ChainLeft(w)]
    /\ step' = [step EXCEPT ![w] = [r |-> Head(chain[w]), at |-> "copy"]]
    /\ shown' = [shown EXCEPT ![w] = PanelOf(Head(chain[w]))]
    /\ UNCHANGED <<daemon, links, fg, box, clip, saved, legacy, landed, prompted>>

\* A command of the panel fails, or the script finds no window: the ack says
\* so.  The clipboard is not given back.
Fails(w) ==
    /\ At(w, "copy") \/ At(w, "front")
    /\ step' = [step EXCEPT ![w] = None]
    /\ SendAck(w, "ack_fail", step[w].r)
    /\ UNCHANGED <<daemon, dsock, hsock, ws, toH, chain, desktop, landed, prompted>>

Copy(w) == /\ At(w, "copy") /\ Onward(w, "front")
           /\ saved' = [saved EXCEPT ![w] = clip]
           /\ clip' = step[w].r
           /\ UNCHANGED <<daemon, links, chain, fg, shown, box, legacy, landed, prompted>>

\* The first window whose title matches comes to the front.
Front(w) == /\ At(w, "front") /\ Onward(w, "paste")
            /\ \E v \in Titled[w] : fg' = v
            /\ UNCHANGED <<daemon, links, chain, shown, box, clip, saved, legacy,
                           landed, prompted>>

\* What is left in the box is cleared first.
Paste(w) ==
    /\ At(w, "paste") /\ Onward(w, "enter")
    /\ box' = IF shown[fg] = None THEN box
              ELSE [box EXCEPT ![fg][shown[fg]] = <<clip>>]
    /\ UNCHANGED <<daemon, links, chain, fg, shown, clip, saved, legacy, landed, prompted>>

\* Enter submits the text of the panel that is in front; an empty box is not.
PressEnter(w) ==
    IF shown[w] = None \/ box[w][shown[w]] = <<>> THEN UNCHANGED <<box, landed>>
    ELSE /\ landed' = [landed EXCEPT ![shown[w]] = Append(@, box[w][shown[w]])]
         /\ box' = [box EXCEPT ![w][shown[w]] = <<>>]

Enter(w) == /\ At(w, "enter") /\ Onward(w, "restore") /\ PressEnter(fg)
            /\ UNCHANGED <<daemon, links, chain, fg, shown, clip, saved, legacy, prompted>>

Restore(w) == /\ At(w, "restore")
              /\ step' = [step EXCEPT ![w] = None]
              /\ clip' = saved[w]
              /\ SendAck(w, "ack_ok", step[w].r)
              /\ UNCHANGED <<daemon, dsock, hsock, ws, toH, chain, fg, shown, box,
                             saved, legacy, landed, prompted>>

----------------------------------------------------------------------------
(* The other ways of /send.                                                *)

\* The vscode:// address: the window used last opens the session's panel; one
\* that is open already does not take the prompt.
OpensAddress(r) ==
    \E w \in Window :
       /\ fg' = w
       /\ shown' = [shown EXCEPT ![w] = Target[r]]
       /\ \/ box' = [box EXCEPT ![w][Target[r]] = <<r>>]
          \/ shown[w] = Target[r] /\ UNCHANGED box

\* auto_enter = false: the prompt is left in the box.
SendPrefill(r) ==
    /\ req[r] = "new" /\ DesktopFree(None)
    /\ OpensAddress(r)
    /\ req' = [req EXCEPT ![r] = "prefilled"]
    /\ UNCHANGED <<listens, registry, pinged, links, windows, clip, saved, legacy,
                   landed, prompted>>

\* prefillAndSubmitLegacy: the address, a second's sleep, then Enter.
SendLegacy(r) ==
    /\ req[r] = "new" /\ legacy = None /\ DesktopFree(None)
    /\ OpensAddress(r)
    /\ req' = [req EXCEPT ![r] = "legacy"] /\ legacy' = r
    /\ UNCHANGED <<listens, registry, pinged, links, windows, clip, saved, landed,
                   prompted>>

\* It brings a VSCode window to the front by its title or its place.
LegacyEnters ==
    /\ legacy # None
    /\ \E w \in Window : fg' = w /\ PressEnter(w)
    /\ req' = [req EXCEPT ![legacy] = "entered"] /\ legacy' = None
    /\ UNCHANGED <<listens, registry, pinged, links, windows, shown, clip, saved,
                   prompted>>

\* submit = true: claude -r in the session's directory, at most 120 s.
SendSubmit(r) ==
    /\ req[r] = "new"
    /\ req' = [req EXCEPT ![r] = "running"]
    /\ prompted' = prompted \cup {r}
    /\ UNCHANGED <<listens, registry, pinged, links, windows, desktop, landed>>

\* The run takes the prompt into the transcript, answered in time or not.
HeadlessTakes(r) ==
    /\ r \in prompted
    /\ prompted' = prompted \ {r}
    /\ landed' = [landed EXCEPT ![Target[r]] = Append(@, <<r>>)]
    /\ UNCHANGED <<daemon, links, windows, desktop>>

\* A reply on stdout is success, whatever the exit code.
HeadlessExits(r) ==
    /\ req[r] = "running"
    /\ req' = [req EXCEPT ![r] = IF r \notin prompted THEN "ok" ELSE "failed"]
    /\ prompted' = prompted \ {r}
    /\ UNCHANGED <<listens, registry, pinged, links, windows, desktop, landed>>

\* The timer kills the run; what it is doing meanwhile it may still finish.
HeadlessTimesOut(r) ==
    /\ req[r] = "running"
    /\ req' = [req EXCEPT ![r] = "failed"]
    /\ UNCHANGED <<listens, registry, pinged, links, windows, desktop, landed, prompted>>

----------------------------------------------------------------------------
BridgeInit ==
    /\ req = [r \in Req |-> "new"] /\ listens = [r \in Req |-> None]
    /\ registry = <<>> /\ pinged = {}
    /\ dsock = [s \in Sock |-> "unused"] /\ hsock = [s \in Sock |-> "unused"]
    /\ ws = [w \in Window |-> None]
    /\ toD = [s \in Sock |-> <<>>] /\ toH = [s \in Sock |-> <<>>]
    /\ chain = [w \in Window |-> <<>>] /\ step = [w \in Window |-> None]
    /\ fg = CHOOSE w \in Window : TRUE
    /\ shown = [w \in Window |-> None]
    /\ box = [w \in Window |-> [s \in Session |-> <<>>]]
    /\ clip = User /\ saved = [w \in Window |-> User]
    /\ legacy = None
    /\ landed = [s \in Session |-> <<>>] /\ prompted = {}

Script(w) == Copy(w) \/ Front(w) \/ Paste(w) \/ Enter(w) \/ Restore(w) \/ Fails(w)

Send(r) == \/ "helper" \in Ways[r] /\ SendHelper(r)
           \/ "prefill" \in Ways[r] /\ SendPrefill(r)
           \/ "legacy" \in Ways[r] /\ SendLegacy(r)
           \/ "submit" \in Ways[r] /\ SendSubmit(r)

BridgeNext ==
    \/ \E r \in Req : \/ Send(r) \/ SubmitTimeout(r)
                      \/ HeadlessTakes(r) \/ HeadlessExits(r) \/ HeadlessTimesOut(r)
    \/ \E s \in Sock : DaemonHears(s) \/ SeesClose(s) \/ Heartbeat(s)
    \/ \E w \in Window : \/ ConnectHelper(w) \/ Loses(w) \/ HelperHears(w)
                         \/ Reveal(w) \/ Script(w)
    \/ LegacyEnters

BridgeSpec == BridgeInit /\ [][BridgeNext]_bridgeVars

----------------------------------------------------------------------------
Answers == {"new", "waiting", "nohelper", "ok", "failed", "timeout", "prefilled",
            "legacy", "entered", "running"}

\* The state is what the code's variables can hold; a connection carries at
\* most one ping, one pong or register, and a submit or ack per prompt.
BridgeTypeOK ==
    /\ req \in [Req -> Answers] /\ listens \in [Req -> Sock \cup {None}]
    /\ registry \in Seq([sock : Sock, window : Window]) /\ pinged \subseteq Sock
    /\ dsock \in [Sock -> {"unused", "open", "closed"}]
    /\ hsock \in [Sock -> {"unused", "open", "gone"}]
    /\ ws \in [Window -> Sock \cup {None}]
    /\ \A s \in Sock : /\ Len(toD[s]) <= Cardinality(Req) + 2
                       /\ Len(toH[s]) <= Cardinality(Req) + 2
    /\ chain \in [Window -> Seq(Req)] /\ step \in [Window -> Steps \cup {None}]
    /\ fg \in Window /\ shown \in [Window -> Session \cup {None}]
    /\ box \in [Window -> [Session -> Seq(Req \cup {User})]]
    /\ clip \in Req \cup {User} /\ legacy \in Req \cup {None}
    /\ landed \in [Session -> Seq(Seq(Req \cup {User}))]
    /\ prompted \subseteq Req

\* What was submitted as entry i of a session holds the prompt, alone or not.
StandsIn(r, s, i) == \E k \in DOMAIN landed[s][i] : landed[s][i][k] = r

\* It was submitted once, by itself, in its own session; it was not submitted.
LandedOnce(r) ==
    \E i \in DOMAIN landed[Target[r]] :
       /\ landed[Target[r]][i] = <<r>>
       /\ \A s \in Session : \A j \in DOMAIN landed[s] :
             StandsIn(r, s, j) => s = Target[r] /\ j = i
NotLanded(r) == \A s \in Session : \A i \in DOMAIN landed[s] : ~StandsIn(r, s, i)

\* A caller who is told that its prompt was entered can rely on it: the prompt
\* stands in its session's transcript, by itself and once.  One who is told
\* that there is no helper can send it again: it was not entered and never
\* will be (submitViaHelper, submit, the scripts, headless).
AnswerTellsTruth ==
    \A r \in Req : /\ req[r] = "ok" => LandedOnce(r)
                   /\ req[r] = "nohelper" => NotLanded(r)
=============================================================================
