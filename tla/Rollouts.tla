------------------------------ MODULE Rollouts -------------------------------
(***************************************************************************)
(* Which session file a card shows before codex has given its session an   *)
(* id.  The card of a launch knows its folder and its instant; the files   *)
(* under ~/.codex/sessions know a folder, a source and when they were last *)
(* written.  src/src/server.ts matches them by a window of time            *)
(* (pendingCodexMtimeWindow), src/src/session-resolver.ts finds the newest *)
(* file in it, and a codex run of /send is matched to its file the same    *)
(* way.  The rows' other fields are in Sessions.                           *)
(***************************************************************************)
EXTENDS Naturals

CONSTANTS
    Card,     \* codex-pending ids: one for each fresh codex launched
    File,     \* session files of codex, named by the session's id
    Folder, Nil,
    Slack,    \* how long before a run its file may have been written: 5 s
    Near,     \* how far from a send the file of its card may be: 10 min
    MaxClock  \* bound on the clock

ASSUME RolloutsAssumption ==
    /\ Slack \in Nat /\ Near \in Nat /\ Slack <= Near /\ MaxClock \in Nat
    /\ Nil \notin Card \cup File \cup Folder \cup Nat

VARIABLES
    clock,    \* Date.now and the times of the files
    launches, \* when and where a card was launched, part of its id
    rows,     \* the card's row in the table: its time, and its launch text
    files,    \* the session files
    sends,    \* runs of /send to a card: when they started
    known     \* codexSessionAliases

rolloutVars == <<clock, launches, rows, files, sends, known>>

Launch == [folder : Folder, at : Nat]
CardRow == [at : Nat, fresh : BOOLEAN]
SessionFile == [folder : Folder, at : Nat, source : {"cli", "vscode"}, of : Card \cup {Nil}]

ASSUME NilAssumption == Nil \notin Launch \cup CardRow \cup SessionFile

RolloutsOK ==
    /\ clock \in 0..MaxClock
    /\ launches \in [Card -> Launch \cup {Nil}] /\ rows \in [Card -> CardRow \cup {Nil}]
    /\ files \in [File -> SessionFile \cup {Nil}]
    /\ sends \in [Card -> Nat \cup {Nil}] /\ known \in [Card -> File \cup {Nil}]

----------------------------------------------------------------------------
(* The lookups.                                                            *)

Existing == {u \in File : files[u] # Nil}
Newest(S) == {u \in S : \A v \in S : files[v].at <= files[u].at}

\* findLatestCodexRolloutByCwd: VS Code's own sessions are left out.
LatestByCwd(folder, window) ==
    Newest({u \in Existing : /\ files[u].folder = folder /\ files[u].source # "vscode"
                             /\ files[u].at \in window})

\* findCodexRolloutPath.
NamedBy(id) == {u \in Existing : u = id}

Minus(a, b) == IF b < a THEN a - b ELSE 0

RowsOf(folder) == {q \in Card : rows[q] # Nil /\ launches[q].folder = folder}
NewestRow(p) == \A q \in RowsOf(launches[p].folder) : rows[q].at <= rows[p].at

\* A newer card of the folder waits, too: nothing is shown on this one.
\* Mutant: two launches of a folder do not keep apart.
NeverSuperseded(p) == FALSE
Superseded(p) == \E q \in RowsOf(launches[p].folder) : rows[q].at > rows[p].at

\* pendingCodexMtimeWindow.  An id without a row goes by the launch in its name;
\* no bound above is the present.
Window(p) ==
    IF rows[p] # Nil /\ ~rows[p].fresh
    THEN Minus(rows[p].at, Near)..(rows[p].at + Near)
    ELSE IF rows[p] # Nil /\ Superseded(p) THEN {}
    ELSE launches[p].at..clock

\* findTranscript: an id whose session is known was replaced by that one's.
Shown(p) == IF known[p] # Nil THEN NamedBy(known[p])
            ELSE LatestByCwd(launches[p].folder, Window(p))

----------------------------------------------------------------------------
\* POST /wrap/start for a fresh codex.  Two launches are milliseconds apart.
StartFresh(p, folder) ==
    /\ launches[p] = Nil
    /\ \A q \in Card : launches[q] # Nil => launches[q].at # clock
    /\ launches' = [launches EXCEPT ![p] = [folder |-> folder, at |-> clock]]
    /\ rows' = [rows EXCEPT ![p] = [at |-> clock, fresh |-> TRUE]]
    /\ UNCHANGED <<clock, files, sends, known>>

FileMade(u, folder, source, p) ==
    /\ files[u] = Nil
    /\ files' = [files EXCEPT ![u] = [folder |-> folder, at |-> clock, source |-> source, of |-> p]]
    /\ UNCHANGED <<clock, launches, rows, sends, known>>

\* The codex of a launch, or the codex a /send to its card runs, makes the file
\* of its session when it takes its first turn.
FirstTurn(p, u) == launches[p] # Nil /\ FileMade(u, launches[p].folder, "cli", p)

\* A codex nobody launched from the dashboard.
Elsewhere(u, folder, source) == FileMade(u, folder, source, Nil)

\* Another turn of any session, a resumed one included.
FileGrowsLater(u) ==
    /\ files[u] # Nil
    /\ files' = [files EXCEPT ![u].at = clock]
    /\ UNCHANGED <<clock, launches, rows, sends, known>>

\* A post of codex's notifier takes the newest card of the folder away.
NotifierPosts(u) ==
    /\ files[u] # Nil
    /\ \E p \in RowsOf(files[u].folder) :
          /\ NewestRow(p)
          /\ rows' = [rows EXCEPT ![p] = Nil]
    /\ UNCHANGED <<clock, launches, files, sends, known>>

\* /send to a card runs codex in its folder.
SendRuns(p) ==
    /\ rows[p] # Nil /\ sends[p] = Nil
    /\ sends' = [sends EXCEPT ![p] = clock]
    /\ UNCHANGED <<clock, launches, rows, files, known>>

RunsFile(p) == LatestByCwd(launches[p].folder, Minus(sends[p], Slack)..clock)

\* The run succeeded: the row moves to the session of the file that was found.
FileFound(p) ==
    /\ sends[p] # Nil
    /\ \E u \in RunsFile(p) : known' = [known EXCEPT ![p] = u]
    /\ rows' = [rows EXCEPT ![p] = Nil]
    /\ sends' = [sends EXCEPT ![p] = Nil]
    /\ UNCHANGED <<clock, launches, files>>

\* No file was found, or reading one failed: the row is written back.
FileMissed(p) ==
    /\ sends[p] # Nil
    /\ rows' = [rows EXCEPT ![p] = [at |-> clock, fresh |-> FALSE]]
    /\ sends' = [sends EXCEPT ![p] = Nil]
    /\ UNCHANGED <<clock, launches, files, known>>

SendFails(p) ==
    /\ sends[p] # Nil
    /\ sends' = [sends EXCEPT ![p] = Nil]
    /\ UNCHANGED <<clock, launches, rows, files, known>>

\* The rows are kept on disk; runs and aliases are not.
DaemonRestarts ==
    /\ sends' = [p \in Card |-> Nil] /\ known' = [p \in Card |-> Nil]
    /\ UNCHANGED <<clock, launches, rows, files>>

ClockTicks ==
    /\ clock < MaxClock /\ clock' = clock + 1
    /\ UNCHANGED <<launches, rows, files, sends, known>>

RolloutsInit ==
    /\ clock = 0
    /\ launches = [p \in Card |-> Nil] /\ rows = [p \in Card |-> Nil]
    /\ files = [u \in File |-> Nil]
    /\ sends = [p \in Card |-> Nil] /\ known = [p \in Card |-> Nil]

RolloutsNext ==
    \/ \E p \in Card, folder \in Folder : StartFresh(p, folder)
    \/ \E p \in Card, u \in File : FirstTurn(p, u)
    \/ \E u \in File, folder \in Folder, source \in {"cli", "vscode"} : Elsewhere(u, folder, source)
    \/ \E u \in File : FileGrowsLater(u) \/ NotifierPosts(u)
    \/ \E p \in Card : SendRuns(p) \/ FileFound(p) \/ FileMissed(p) \/ SendFails(p)
    \/ DaemonRestarts \/ ClockTicks

RolloutsSpec == RolloutsInit /\ [][RolloutsNext]_rolloutVars

----------------------------------------------------------------------------
Waits(p) == rows[p] # Nil /\ rows[p].fresh /\ known[p] = Nil
Own(p) == {u \in Existing : files[u].of = p}

\* Nothing but the card's own codex was written to in its folder since shortly
\* before its launch; VS Code's sessions aside.
Alone(p) ==
    \A u \in Existing \ Own(p) :
        \/ files[u].folder # launches[p].folder \/ files[u].source = "vscode"
        \/ files[u].at + Near < launches[p].at

\* Cards are told from each other, and from what else codex does, by instants
\* alone, yet: two waiting cards never show one session
\* (src/tests/server.test.ts:212), and an older session of the folder is never
\* shown on a waiting card (src/tests/server.test.ts:176).  A card whose folder
\* nobody else works in shows its own session or none, through runs that find
\* no file, posts that take its row away and restarts of the daemon, and shows
\* one as soon as there is one while it waits.
CardsShowTheirOwn ==
    /\ \A p, q \in Card : p # q /\ Waits(p) /\ Waits(q) => Shown(p) \cap Shown(q) = {}
    /\ \A p \in Card : Waits(p) => \A u \in Shown(p) : files[u].at >= launches[p].at
    /\ \A p \in Card : launches[p] # Nil /\ Alone(p) =>
          /\ Shown(p) \subseteq Own(p)
          /\ Waits(p) /\ NewestRow(p) /\ Own(p) # {} => Shown(p) # {}
=============================================================================
