------------------------------ MODULE WrapModes ------------------------------
(***************************************************************************)
(* The permission mode, the model and the effort of one wrapped session:   *)
(* the chips of a dashboard (src/web/app.tsx), POST /wrap/permission-mode, *)
(* /wrap/model and /wrap/effort and the maps of the daemon                 *)
(* (src/src/server.ts), the wrapper (src/src/cli/wrap.ts) and the SDK query*)
(* that runs with them.  WrapLifecycle takes a change as one step; here    *)
(* every frame, every SDK call and the link have steps of their own.       *)
(***************************************************************************)
EXTENDS Naturals, Sequences

CONSTANTS
    Value,     \* what each of the three may be
    Launched,  \* what the session was launched with
    MaxPicks,  \* bound on picks
    MaxDrops,  \* bound on links lost
    MaxClears, \* bound on /clear
    Unset      \* the map has no entry

ASSUME WrapModesAssumption ==
    /\ Launched \in Value /\ Unset \notin Value
    /\ MaxPicks \in Nat /\ MaxDrops \in Nat /\ MaxClears \in Nat

VARIABLES
    ready,      \* currentQ is set
    runs,       \* what the SDK query runs with
    calls,      \* setPermissionMode, setModel, applyFlagSettings under way
    replies,    \* resolved, their .then not run yet
    current,    \* wrap.ts currentMode, currentModel, currentEffort
    link,       \* the wrapper's socket is open
    up, down,   \* frames under way to the daemon, to the wrapper
    conn,       \* the socket in wrapConnections: "none", "old" (dead), "live"
    registered, \* registeredPermissionMode, registeredModel, registeredEffort
    hub,        \* wrapPermissionMode, wrapModel, wrapEffort
    out,        \* session_changed under way to the dashboard
    chip,      \* what the chips show
    pending,    \* a chip's POST under way
    renamed,    \* the session got a new id on this socket
    spent       \* picks, drops, clears so far

modesVars == <<ready, runs, calls, replies, current, link, up, down, conn,
               registered, hub, out, chip, pending, renamed, spent>>
sdk == <<ready, runs, calls, replies>>
hubside == <<conn, registered, hub, out>>
chips == <<chip, pending>>

Kind == {"mode", "model", "effort"}
All(v) == [k \in Kind |-> v]
Set(k, v) == [kind |-> k, value |-> v]

----------------------------------------------------------------------------
(* The dashboard's chips and the three routes.                             *)

\* A chip takes one pick at a time.
Pick(k, v) ==
    /\ spent.picks < MaxPicks /\ pending[k] = Unset
    /\ pending' = [pending EXCEPT ![k] = v]
    /\ spent' = [spent EXCEPT !.picks = @ + 1]
    /\ UNCHANGED <<sdk, current, link, up, down, hubside, chip, renamed>>

\* The mode chip ignores the mode it shows.
PickMode(v) == v # chip["mode"] /\ Pick("mode", v)
PickModel(v) == Pick("model", v)
PickEffort(v) == Pick("effort", v)

\* 202 when the frame is sent, whether or not it arrives; 409 without a socket.
Push(k) ==
    /\ pending[k] # Unset
    /\ down' = IF conn = "live" THEN Append(down, Set(k, pending[k])) ELSE down
    /\ pending' = [pending EXCEPT ![k] = Unset]
    /\ UNCHANGED <<sdk, current, link, up, hubside, chip, renamed, spent>>

PostMode == Push("mode")
PostModel == Push("model")
PostEffort == Push("effort")

----------------------------------------------------------------------------
(* The wrapper.                                                            *)

\* main() makes the query after the first connect().
QueryMade ==
    /\ ~ready /\ ready' = TRUE
    /\ UNCHANGED <<runs, calls, replies, current, link, up, down, hubside, chips, renamed, spent>>

\* Without a query the frame is dropped.
WrapHears ==
    /\ down # <<>>
    /\ down' = Tail(down)
    /\ calls' = IF ready THEN Append(calls, Head(down)) ELSE calls
    /\ UNCHANGED <<ready, runs, replies, current, link, up, hubside, chips, renamed, spent>>

\* The SDK takes its control requests in the order they were made.
SdkApplies ==
    /\ calls # <<>>
    /\ runs' = [runs EXCEPT ![Head(calls).kind] = Head(calls).value]
    /\ calls' = Tail(calls)
    /\ replies' = Append(replies, Head(calls))
    /\ UNCHANGED <<ready, current, link, up, down, hubside, chips, renamed, spent>>

SdkRefuses ==
    /\ calls # <<>>
    /\ calls' = Tail(calls)
    /\ UNCHANGED <<ready, runs, replies, current, link, up, down, hubside, chips, renamed, spent>>

\* .then: remembered, and told on whatever socket is open now.
Resolved ==
    /\ replies # <<>>
    /\ replies' = Tail(replies)
    /\ current' = [current EXCEPT ![Head(replies).kind] = Head(replies).value]
    /\ up' = IF link THEN Append(up, [type |-> "changed", set |-> Head(replies)]) ELSE up
    /\ UNCHANGED <<ready, runs, calls, link, down, hubside, chips, renamed, spent>>

\* Mutant: a reconnect registers what the session was launched with.
RegistersLaunch == All(Launched)
Registers == current

Reconnects ==
    /\ ~link /\ link' = TRUE
    /\ up' = <<[type |-> "register", values |-> Registers]>>
    /\ UNCHANGED <<sdk, current, down, hubside, chips, renamed, spent>>

\* The socket is lost and what was under way on it.
LinkLost ==
    /\ link /\ spent.drops < MaxDrops
    /\ link' = FALSE /\ up' = <<>> /\ down' = <<>>
    /\ conn' = IF conn = "live" THEN "old" ELSE conn
    /\ spent' = [spent EXCEPT !.drops = @ + 1]
    /\ UNCHANGED <<sdk, current, registered, hub, out, chips, renamed>>

\* /clear: the SDK's init message names a new session.
Cleared ==
    /\ ready /\ link /\ spent.clears < MaxClears
    /\ up' = Append(up, [type |-> "session_uuid"])
    /\ spent' = [spent EXCEPT !.clears = @ + 1]
    /\ UNCHANGED <<sdk, current, link, down, hubside, chips, renamed>>

----------------------------------------------------------------------------
(* The daemon.                                                             *)

Rebroadcast(values) == hub' = values /\ out' = Append(out, values)

Registered ==
    /\ up # <<>> /\ Head(up).type = "register" /\ up' = Tail(up)
    /\ conn' = "live" /\ renamed' = FALSE
    /\ registered' = Head(up).values
    /\ Rebroadcast(Head(up).values)
    /\ UNCHANGED <<sdk, current, link, down, chips, spent>>

\* bind under the new id: seeded with what was buffered at register time.
Renamed ==
    /\ up # <<>> /\ Head(up).type = "session_uuid" /\ up' = Tail(up)
    /\ renamed' = TRUE
    /\ Rebroadcast(registered)
    /\ UNCHANGED <<sdk, current, link, down, conn, registered, chips, spent>>

SetTold ==
    /\ up # <<>> /\ Head(up).type = "changed" /\ up' = Tail(up)
    /\ Rebroadcast([hub EXCEPT ![Head(up).set.kind] = Head(up).set.value])
    /\ UNCHANGED <<sdk, current, link, down, conn, registered, chips, renamed, spent>>

\* The old socket's close, when no newer one has taken its place.
HubSeesClose ==
    /\ conn = "old" /\ conn' = "none"
    /\ Rebroadcast(All(Unset))
    /\ UNCHANGED <<sdk, current, link, up, down, registered, chips, renamed, spent>>

ChipsHear ==
    /\ out # <<>> /\ out' = Tail(out)
    /\ chip' = Head(out)
    /\ UNCHANGED <<sdk, current, link, up, down, conn, registered, hub, pending, renamed, spent>>

----------------------------------------------------------------------------
ModesInit ==
    /\ ready = FALSE /\ runs = All(Launched) /\ calls = <<>> /\ replies = <<>>
    /\ current = All(Launched) /\ link = FALSE /\ up = <<>> /\ down = <<>>
    /\ conn = "none" /\ registered = All(Unset) /\ hub = All(Unset) /\ out = <<>>
    /\ chip = All(Unset) /\ pending = All(Unset)
    /\ renamed = FALSE /\ spent = [picks |-> 0, drops |-> 0, clears |-> 0]

ModesNext ==
    \/ \E v \in Value : PickMode(v) \/ PickModel(v) \/ PickEffort(v)
    \/ PostMode \/ PostModel \/ PostEffort
    \/ QueryMade \/ WrapHears \/ SdkApplies \/ SdkRefuses \/ Resolved
    \/ Reconnects \/ LinkLost \/ Cleared
    \/ Registered \/ Renamed \/ SetTold \/ HubSeesClose \/ ChipsHear

----------------------------------------------------------------------------
Quiet ==
    /\ link /\ conn = "live"
    /\ calls = <<>> /\ replies = <<>> /\ up = <<>> /\ out = <<>>

\* Once nothing is under way the chips show what the SDK runs with: picks that
\* overtake each other, answers that find no link, a reconnect between a call
\* and its answer and an old socket's late close leave no chip behind.  After
\* /clear a chip may instead fall back to the value of the last register.
ModesSettle ==
    Quiet => \A k \in Kind :
        \/ chip[k] = runs[k]
        \/ renamed /\ chip[k] = registered[k]
=============================================================================
