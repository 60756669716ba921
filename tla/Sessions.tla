------------------------------ MODULE Sessions -------------------------------
(***************************************************************************)
(* The session rows of the daemon and everybody who writes them: the hook  *)
(* processes of Claude and of codex (src/hooks), POST /event and its       *)
(* handler (src/src/hook-handler.ts), the row store                        *)
(* (src/src/session-store.ts), codex launches and the codex runs of /send  *)
(* (src/src/server.ts), and the records of how fast a reply came           *)
(* (src/src/perf-tracker.ts).  The wrapper's own state is in WrapLifecycle.*)
(***************************************************************************)
EXTENDS Naturals, FiniteSets

CONSTANTS
    Claude, Codex, \* session ids each agent gives out
    Pending,   \* codex-pending ids, each used for one launch
    Dir, None,
    MaxTime,   \* bound on the clock
    MaxHooks,  \* bound on hook posts under way
    MaxNotify, \* bound on codex notifiers under way
    MaxRuns,   \* bound on codex runs under way
    MaxChars   \* bound on the characters counted for one reply

ASSUME SessionsAssumption ==
    /\ MaxTime \in Nat /\ MaxHooks \in Nat /\ MaxNotify \in Nat /\ MaxRuns \in Nat /\ MaxChars \in Nat
    /\ None \notin Claude \cup Codex \cup Pending \cup Dir \cup Nat
    /\ Claude \cap Codex = {} /\ (Claude \cup Codex) \cap Pending = {}

Real == Claude \cup Codex
Id == Real \cup Pending
\* A codex notifier stamps up to two milliseconds ahead.
Time == 0..(MaxTime + 2)

VARIABLES
    uses,     \* the agent in use: sessions of two agents share nothing
    now,      \* Date.now(), one clock for every process of the machine
    store,    \* the sessions table
    hooks,    \* posts of Claude's hook processes under way
    notify,   \* codex notify processes: session, cwd, stamp, what is posted next
    seen,     \* codex-seen-uuids.json
    rollout,  \* codex session files on disk: their cwd
    launched, \* pending ids that were used
    runs,     \* codex runs of /send, by the session they were started for
    execs,    \* activeCodexExecs
    alias,    \* codexSessionAliases
    turns,    \* PerfTracker.turns
    ttft,     \* the last record: when the prompt came, when the reply began
    newest    \* of everything written or delivered for a row: the newest

table == <<store, newest>>
hookside == <<hooks, notify, seen, rollout>>
codex == <<launched, runs, execs, alias>>
perf == <<turns, ttft>>
vars == <<uses, now, table, hookside, codex, perf>>

Row == [cwd : Dir, status : {"active", "waiting", "stale"}, at : Time]
Event == {"session_start", "user_prompt", "stop"}
Run == [cwd : Dir, state : {"running", "looking"}]
Turn == [prompt : Nat \cup {None}, start : Nat \cup {None}, chars : Nat]
NoTurn == [prompt |-> None, start |-> None, chars |-> 0]

ASSUME NoneAssumption == None \notin Row \cup Run

----------------------------------------------------------------------------
(* The table.                                                              *)

\* What a reader who saw every report in any order would believe.
Believe(u, status, t) ==
    LET n == newest[u] IN
    IF store[u] = None \/ t > n.at THEN [at |-> t, says |-> {status}]
    ELSE IF t = n.at THEN [n EXCEPT !.says = @ \cup {status}] ELSE n

Reported(u, status, t) ==
    [c \in Claude |-> IF c = u THEN Believe(u, status, t) ELSE newest[c]]

Upsert(u, row) == store' = [store EXCEPT ![u] = row]

CwdKept(u, cwd) == IF store[u] = None THEN cwd ELSE store[u].cwd

\* STATUS_BY_EVENT.
StatusBy(event) == IF event = "stop" THEN "waiting" ELSE "active"

----------------------------------------------------------------------------
(* POST /event and HookHandler.handle.                                     *)

\* Mutant: reports are applied in the order they arrive.
NeverLate(u, t) == FALSE
TooLate(u, t) == store[u] # None /\ store[u].at > t

\* The newest row of a launch in this directory, whatever launch it was.
Launches(cwd) == {p \in Pending : store[p] # None /\ store[p].cwd = cwd}
NewestLaunch(cwd) == {p \in Launches(cwd) :
                          \A q \in Launches(cwd) : store[q].at <= store[p].at}

\* PerfTracker.onUserPrompt; a mutant of it that keeps a reply's beginning.
PromptKeepsReply(u, t) == [turns EXCEPT ![u].prompt = t]
OnUserPrompt(u, t) == [turns EXCEPT ![u] = [NoTurn EXCEPT !.prompt = t]]

Handle(u, cwd, event, t) ==
    /\ newest' = Reported(u, StatusBy(event), t)
    /\ IF TooLate(u, t)
       THEN UNCHANGED <<store, turns>>
       ELSE /\ \/ /\ u \in Claude \/ NewestLaunch(cwd) = {}
                  /\ Upsert(u, [cwd |-> CwdKept(u, cwd),
                                status |-> StatusBy(event), at |-> t])
               \/ /\ u \in Codex
                  /\ \E p \in NewestLaunch(cwd) :
                        store' = [store EXCEPT
                            ![p] = None,
                            ![u] = [cwd |-> CwdKept(u, cwd),
                                    status |-> StatusBy(event), at |-> t]]
            /\ turns' = IF event = "user_prompt" /\ u \in Claude
                        THEN OnUserPrompt(u, t) ELSE turns

\* Claude runs miki-emit.ps1 in a process of its own for every hook, in the
\* directory the agent happens to be in.
HookFires(u, cwd, event) ==
    /\ uses = "claude" /\ Cardinality(hooks) < MaxHooks
    /\ hooks' = hooks \cup {[of |-> u, cwd |-> cwd, event |-> event, at |-> now]}
    /\ UNCHANGED <<uses, now, table, notify, seen, rollout, codex, perf>>

HookArrives(h) ==
    /\ hooks' = hooks \ {h}
    /\ Handle(h.of, h.cwd, h.event, h.at)
    /\ UNCHANGED <<uses, now, notify, seen, rollout, codex, ttft>>

\* No daemon on the port, or no answer in time: swallowed.
HookLost(h) ==
    /\ hooks' = hooks \ {h}
    /\ UNCHANGED <<uses, now, table, notify, seen, rollout, codex, perf>>

----------------------------------------------------------------------------
(* miki-emit-codex.mjs, one process per turn of codex.                     *)

\* The session's file names the directory; codex's own word is the fallback.
NotifyStarts(u, cwd) ==
    /\ rollout[u] # None /\ notify[u] = None
    /\ Cardinality({v \in Codex : notify[v] # None}) < MaxNotify
    /\ notify' = [notify EXCEPT ![u] =
           [cwd |-> cwd, at |-> now, ids |-> seen,
            next |-> IF u \in seen THEN "user_prompt" ELSE "session_start"]]
    /\ UNCHANGED <<uses, now, table, hooks, seen, rollout, codex, perf>>

Stamp(n) == CASE n.next = "session_start" -> n.at
              [] n.next = "user_prompt" -> n.at + 1
              [] n.next = "stop" -> n.at + 2

NotifyPosts(u) ==
    /\ notify[u] # None
    /\ LET n == notify[u] IN
       /\ Handle(u, n.cwd, n.next, Stamp(n))
       /\ seen' = IF n.next = "session_start" THEN n.ids \cup {u} ELSE seen
       /\ notify' = [notify EXCEPT ![u] =
              CASE n.next = "session_start" -> [n EXCEPT !.next = "user_prompt"]
                [] n.next = "user_prompt" -> [n EXCEPT !.next = "stop"]
                [] n.next = "stop" -> None]
    /\ UNCHANGED <<uses, now, hooks, rollout, codex, ttft>>

NotifyFails(u) ==
    /\ notify[u] # None
    /\ notify' = [notify EXCEPT ![u] = None]
    /\ UNCHANGED <<uses, now, table, hooks, seen, rollout, codex, perf>>

----------------------------------------------------------------------------
(* Codex launched and driven from the dashboard.                           *)

\* /wrap/start for a fresh codex: a row before the session has an id.
StartCodex(p, cwd) ==
    /\ uses = "codex" /\ p \notin launched
    /\ launched' = launched \cup {p}
    /\ Upsert(p, [cwd |-> cwd, status |-> "active", at |-> now])
    /\ UNCHANGED <<uses, now, newest, hookside, runs, execs, alias, perf>>

\* A codex in a terminal writes its session file on its first turn.
TerminalTurn(u, cwd) ==
    /\ uses = "codex" /\ rollout[u] = None
    /\ rollout' = [rollout EXCEPT ![u] = cwd]
    /\ UNCHANGED <<uses, now, table, hooks, notify, seen, codex, perf>>

\* resolveSession; a mutant of it that only knows the ids of rows.
ResolveRow(u) == IF store[u] # None THEN u ELSE None
Resolve(u) == IF store[u] # None THEN u
              ELSE IF alias[u] # None /\ store[alias[u]] # None THEN alias[u] ELSE None

\* /send to a codex session, up to the run it waits for.  Of the row it
\* keeps, the directory is what it will not overwrite itself.
SendCodex(u) ==
    LET s == Resolve(u) IN
    /\ s # None
    /\ s \notin execs /\ Cardinality(execs) < MaxRuns
    /\ execs' = execs \cup {s}
    /\ runs' = [runs EXCEPT ![s] = [cwd |-> store[s].cwd, state |-> "running"]]
    /\ UNCHANGED <<uses, now, table, hookside, launched, alias, perf>>

Running(u) == runs[u] # None /\ runs[u].state = "running"

\* A run for a pending row is a new session of codex, with its own file.
RunWritesFile(u, r) ==
    /\ Running(u) /\ u \in Pending
    /\ rollout[r] = None
    /\ rollout' = [rollout EXCEPT ![r] = runs[u].cwd]
    /\ UNCHANGED <<uses, now, table, hooks, notify, seen, codex, perf>>

\* Exit code 0: settled, and the session file is looked up.
RunExits(u) ==
    /\ Running(u)
    /\ runs' = [runs EXCEPT ![u].state = "looking"]
    /\ UNCHANGED <<uses, now, table, hookside, launched, execs, alias, perf>>

\* The lookup goes by directory and time: any codex there will do, and it may
\* find none.
Found(u) == {r \in Codex : rollout[r] = runs[u].cwd} \cup {None}

\* Mutant: the entry of the session the reply came from is dropped.
ExecFreedActual(u, actual) == execs \ {actual}
ExecFreed(u, actual) == execs \ {u}

Aliased(u, actual) == IF actual = u THEN alias ELSE [alias EXCEPT ![u] = actual]

\* The reply: the row as it was before the run is written back, renamed.
RunAnswers(u, found) ==
    /\ runs[u] # None /\ runs[u].state = "looking"
    /\ found \in Found(u)
    /\ LET actual == IF u \in Pending /\ found # None THEN found ELSE u
           row == [cwd |-> runs[u].cwd, status |-> "active", at |-> now]
       IN
       /\ store' = [x \in Id |-> CASE x = actual -> row
                                   [] x = u /\ x # actual -> None
                                   [] OTHER -> store[x]]
       /\ alias' = Aliased(u, actual)
       /\ execs' = ExecFreed(u, actual)
    /\ runs' = [runs EXCEPT ![u] = None]
    /\ UNCHANGED <<uses, now, newest, hookside, launched, perf>>

RunEnds(u) ==
    /\ Running(u)
    /\ runs' = [runs EXCEPT ![u] = None]
    /\ execs' = ExecFreed(u, u)
    /\ UNCHANGED <<uses, now, table, hookside, launched, alias, perf>>

\* /wrap/interrupt: only under the id the run was started for, and only while
\* that row exists.
Interrupt(u) == /\ store[u] # None /\ u \in execs
                /\ RunEnds(u)
\* Another exit code, or the 600 s timer.
RunFails(u) == RunEnds(u)

----------------------------------------------------------------------------
(* Claude sessions: the daemon's own writes, and the reply's tempo.        *)

Stamped(u, status) ==
    /\ Upsert(u, [cwd |-> store[u].cwd, status |-> status, at |-> now])
    /\ newest' = Reported(u, status, now)
    /\ UNCHANGED <<uses, now, hookside, codex, perf>>

\* bind: a wrapper registered, with the directory it was started in.
WrapBinds(u, cwd) ==
    /\ uses = "claude"
    /\ Upsert(u, [cwd |-> CwdKept(u, cwd), status |-> "active", at |-> now])
    /\ newest' = Reported(u, "active", now)
    /\ UNCHANGED <<uses, now, hookside, codex, perf>>

\* The grace timer of a wrapper that went away.
WrapGoesStale(u) ==
    /\ uses = "claude" /\ store[u] # None /\ store[u].status # "stale"
    /\ Stamped(u, "stale")

\* A spawned wrapper closed without a turn: its row is evicted.
RowEvicted(u) ==
    /\ uses = "claude" /\ store[u] # None
    /\ Upsert(u, None)
    /\ UNCHANGED <<uses, now, newest, hookside, codex, perf>>

OnDeltaStart(u) ==
    /\ uses = "claude"
    /\ turns' = [turns EXCEPT ![u].start = now]
    /\ UNCHANGED <<uses, now, table, hookside, codex, ttft>>

OnDelta(u) ==
    /\ uses = "claude" /\ turns[u].chars < MaxChars
    /\ turns' = [turns EXCEPT ![u].chars = @ + 1]
    /\ UNCHANGED <<uses, now, table, hookside, codex, ttft>>

OnDeltaEnd(u) ==
    /\ uses = "claude" /\ turns[u].start # None
    /\ ttft' = IF turns[u].prompt = None THEN ttft
               ELSE <<turns[u].prompt, turns[u].start>>
    /\ turns' = [turns EXCEPT ![u] = NoTurn]
    /\ UNCHANGED <<uses, now, table, hookside, codex>>

----------------------------------------------------------------------------
(* Time and restarts.                                                      *)

Tick ==
    /\ now < MaxTime /\ now' = now + 1
    /\ UNCHANGED <<uses, table, hookside, codex, perf>>

\* The daemon ends and starts: markAllStale.  A codex run goes on without
\* anybody to take its reply.
Restart ==
    /\ store' = [u \in Id |-> IF store[u] = None THEN None
                              ELSE [store[u] EXCEPT !.status = "stale"]]
    /\ newest' = [u \in Claude |-> IF store[u] = None THEN newest[u]
                               ELSE [at |-> store[u].at, says |-> {"stale"}]]
    /\ runs' = [u \in Id |-> None] /\ execs' = {} /\ alias' = [u \in Id |-> None]
    /\ turns' = [u \in Claude |-> NoTurn]
    /\ UNCHANGED <<uses, now, hookside, launched, ttft>>

----------------------------------------------------------------------------
Init ==
    /\ uses \in {"claude", "codex"}
    /\ now = 0
    /\ store = [u \in Id |-> None]
    /\ hooks = {} /\ notify = [u \in Codex |-> None] /\ seen = {}
    /\ rollout = [u \in Codex |-> None]
    /\ launched = {} /\ runs = [u \in Id |-> None] /\ execs = {}
    /\ alias = [u \in Id |-> None]
    /\ turns = [u \in Claude |-> NoTurn] /\ ttft = <<>>
    /\ newest = [u \in Claude |-> [at |-> 0, says |-> {}]]

HookNext ==
    \/ \E u \in Claude, cwd \in Dir, event \in Event : HookFires(u, cwd, event)
    \/ \E h \in hooks : HookArrives(h) \/ HookLost(h)
    \/ \E u \in Codex, cwd \in Dir : NotifyStarts(u, cwd)
    \/ \E u \in Codex : NotifyPosts(u) \/ NotifyFails(u)

CodexNext ==
    \/ \E p \in Pending, cwd \in Dir : StartCodex(p, cwd)
    \/ \E u \in Codex, cwd \in Dir : TerminalTurn(u, cwd)
    \/ \E u \in Codex \cup Pending :
            SendCodex(u) \/ RunExits(u) \/ Interrupt(u) \/ RunFails(u)
    \/ \E p \in Pending, r \in Codex : RunWritesFile(p, r)
    \/ \E u \in Codex \cup Pending, found \in Codex \cup {None} : RunAnswers(u, found)

ClaudeNext ==
    \/ \E u \in Claude, cwd \in Dir : WrapBinds(u, cwd)
    \/ \E u \in Claude : \/ WrapGoesStale(u) \/ RowEvicted(u)
                         \/ OnDeltaStart(u) \/ OnDelta(u) \/ OnDeltaEnd(u)

Next == HookNext \/ CodexNext \/ ClaudeNext \/ Tick \/ Restart

Spec == Init /\ [][Next]_vars

----------------------------------------------------------------------------
\* A report of a process is not from the future, but for codex, whose three are
\* stamped one after the other.
HookPost == [of : Claude, cwd : Dir, event : Event, at : 0..now]
Notifier == [cwd : Dir, at : 0..now, ids : SUBSET Codex, next : Event]

TypeOK ==
    /\ uses \in {"claude", "codex"} /\ now \in 0..MaxTime
    /\ store \in [Id -> Row \cup {None}]
    /\ newest \in [Claude -> [at : Nat, says : SUBSET {"active", "waiting", "stale"}]]
    /\ hooks \subseteq HookPost /\ notify \in [Codex -> Notifier \cup {None}]
    /\ seen \subseteq Codex /\ rollout \in [Codex -> Dir \cup {None}]
    /\ launched \subseteq Pending /\ execs \subseteq Id
    /\ runs \in [Id -> Run \cup {None}] /\ alias \in [Id -> Codex \cup {None}]
    /\ turns \in [Claude -> Turn] /\ (ttft = <<>> \/ ttft \in Nat \X Nat)

\* Hook processes race each other and the daemon's own writes, yet the row of
\* a Claude session says what the newest of all reports said, whatever the
\* order they came in: "last-write-wins" goes by the time of the event.
NewestWins ==
    \A u \in Claude : store[u] # None =>
        store[u].at = newest[u].at /\ store[u].status \in newest[u].says

\* The directory a Claude session is resumed in is the one of its first
\* report, wherever the agent or its wrapper went since.
CwdSticks ==
    [][\A u \in Claude : store[u] # None /\ store'[u] # None
           => store'[u].cwd = store[u].cwd]_vars

\* A card that was opened before codex had an id keeps reaching its session:
\* the old row is gone for good and the new one is there.
AliasReaches ==
    \A p \in Pending : alias[p] # None =>
        store[p] = None /\ Resolve(p) = alias[p]

\* No reply is recorded as begun before the prompt it answers.
ReplyAfterPrompt == ttft # <<>> => ttft[1] <= ttft[2]

\* A session is never left refusing prompts, with 409, for a run that is no
\* longer under way, and every run under way can be interrupted by its id.
ExecsAreRuns == execs = {u \in Id : runs[u] # None}
=============================================================================
