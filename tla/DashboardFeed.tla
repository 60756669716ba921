---------------------------- MODULE DashboardFeed ----------------------------
(***************************************************************************)
(* One browser's copy of the daemon's session rows and activity badges     *)
(* (src/web/app.tsx): the first GET /sessions, the /ws events, the         *)
(* refetch after a reconnect and the poll every two seconds.  A row is the *)
(* number of its last change, 0 when there is none.  An answer carries     *)
(* what the daemon knew when it made it and is applied at any later time.  *)
(***************************************************************************)
EXTENDS DashboardIds, Naturals, Sequences

CONSTANTS
    RowUuid,     \* the sessions rows are of
    MaxChange,   \* bound on changes of rows
    MaxLabels,   \* bound on changes of activities
    MaxWire,     \* bound on events under way to this browser
    MaxTrouble   \* bound on lost links, failed fetches and reloads together

ASSUME FeedBounds ==
    MaxChange \in Nat /\ MaxLabels \in Nat /\ MaxWire \in Nat /\ MaxTrouble \in Nat

\* The fetches that can be out together: the first, the one after a reconnect, a poll.
FetchKind == {"init", "again", "poll"}

VARIABLES
    rows,      \* the daemon's session_store
    labels,    \* the daemon's wrapActivity: sessions with a label
    changes,
    labelled,  \* changes of labels so far
    wsOpen,
    wire,      \* events sent on /ws and not yet handled by the page
    owed,      \* "init", "again": fetches the page has issued
    answers,   \* per fetch what the daemon answered, None when none is out
    sessions,  \* the page's rows
    activities,
    trouble

daemonVars == <<rows, labels, changes, labelled>>
pageVars == <<sessions, activities>>
feedVars == <<daemonVars, wsOpen, wire, owed, answers, pageVars, trouble>>

NoRows == [u \in RowUuid |-> 0]
Snapshot == [rows |-> rows, labels |-> {u \in labels : rows[u] # 0}]
Without(set, u) == set \ {u}

FeedInit ==
    /\ rows \in [RowUuid -> {0, 1}] /\ labels = {} /\ changes = 1 /\ labelled = 0
    /\ wsOpen = FALSE /\ wire = <<>> /\ owed = {"init"}
    /\ answers = [f \in FetchKind |-> None]
    /\ sessions = NoRows /\ activities = {} /\ trouble = 0

\* An event goes to the browsers whose socket is open at that moment.
Pushed(event) ==
    /\ Len(wire) < MaxWire
    /\ wire' = IF wsOpen THEN Append(wire, event) ELSE wire

----------------------------------------------------------------------------
(* The daemon.                                                             *)

\* A hook, a send or a wrapper changes a row.
RowChanges(u) ==
    /\ changes < MaxChange
    /\ changes' = changes + 1
    /\ rows' = [rows EXCEPT ![u] = changes']
    /\ Pushed([type |-> "session_changed", uuid |-> u, row |-> changes'])
    /\ UNCHANGED <<labels, labelled, wsOpen, owed, answers, pageVars, trouble>>

RowRemoved(u) ==
    /\ rows[u] # 0 /\ changes < MaxChange
    /\ changes' = changes + 1
    /\ rows' = [rows EXCEPT ![u] = 0]
    /\ labels' = Without(labels, u)
    /\ Pushed([type |-> "session_removed", uuid |-> u])
    /\ UNCHANGED <<labelled, wsOpen, owed, answers, pageVars, trouble>>

\* A wrapper reports what it is doing, or that it is done.
Activity(u, on) ==
    /\ rows[u] # 0 /\ labelled < MaxLabels
    /\ labelled' = labelled + 1
    /\ labels' = IF on THEN labels \cup {u} ELSE Without(labels, u)
    /\ Pushed([type |-> "activity", uuid |-> u, on |-> on])
    /\ UNCHANGED <<rows, changes, wsOpen, owed, answers, pageVars, trouble>>

\* A wrapper's socket closes: its label goes, and only the row is announced.
WrapCloses(u) ==
    /\ u \in labels /\ changes < MaxChange
    /\ changes' = changes + 1
    /\ rows' = [rows EXCEPT ![u] = changes']
    /\ labels' = Without(labels, u)
    /\ Pushed([type |-> "session_changed", uuid |-> u, row |-> changes'])
    /\ UNCHANGED <<labelled, wsOpen, owed, answers, pageVars, trouble>>

----------------------------------------------------------------------------
(* The link.                                                               *)

\* reconnectAttempts > 0 exactly when the page has lost a link before.
WsOpens(again) ==
    /\ ~wsOpen
    /\ again => trouble > 0
    /\ wsOpen' = TRUE
    /\ owed' = IF again THEN owed \cup {"again"} ELSE owed
    /\ UNCHANGED <<daemonVars, wire, answers, pageVars, trouble>>

WsCloses ==
    /\ wsOpen /\ trouble < MaxTrouble
    /\ trouble' = trouble + 1
    /\ wsOpen' = FALSE /\ wire' = <<>>
    /\ UNCHANGED <<daemonVars, owed, answers, pageVars>>

\* F5: a new page, with nothing of the old one.
PageReload ==
    /\ trouble < MaxTrouble
    /\ trouble' = trouble + 1
    /\ wsOpen' = FALSE /\ wire' = <<>> /\ owed' = {"init"}
    /\ answers' = [f \in FetchKind |-> None]
    /\ sessions' = NoRows /\ activities' = {}
    /\ UNCHANGED daemonVars

----------------------------------------------------------------------------
(* The page.                                                               *)

\* GET /sessions is answered; a poll is issued every two seconds.
Answered(f) ==
    /\ answers[f] = None
    /\ f = "poll" \/ f \in owed
    /\ answers' = [answers EXCEPT ![f] = Snapshot]
    /\ owed' = owed \ {f}
    /\ UNCHANGED <<daemonVars, wsOpen, wire, pageVars, trouble>>

FetchFails(f) ==
    /\ answers[f] # None /\ trouble < MaxTrouble
    /\ trouble' = trouble + 1
    /\ answers' = [answers EXCEPT ![f] = None]
    /\ UNCHANGED <<daemonVars, wsOpen, wire, owed, pageVars>>

\* The first answer seeds the badges unless it has none.
Seeded(old, seed) == IF seed = {} THEN old ELSE seed
\* A poll keeps the rows the answer still has, as the answer has them, drops the
\* others and adds the new ones; badges are merged into those shown.
KeepsVanished(old, answer) ==
    [u \in RowUuid |-> IF answer[u] # 0 THEN answer[u] ELSE old[u]]
Merged(old, answer) == answer

Apply(f) ==
    /\ answers[f] # None
    /\ answers' = [answers EXCEPT ![f] = None]
    /\ \/ /\ f = "init"
          /\ sessions' = answers[f].rows
          /\ activities' = Seeded(activities, answers[f].labels)
       \/ /\ f = "again"
          /\ sessions' = answers[f].rows
          /\ activities' = answers[f].labels
       \/ /\ f = "poll"
          /\ sessions' = Merged(sessions, answers[f].rows)
          /\ activities' = activities \cup answers[f].labels
    /\ UNCHANGED <<daemonVars, wsOpen, wire, owed, trouble>>

handleWsMessage ==
    /\ wire # <<>>
    /\ wire' = Tail(wire)
    /\ LET e == Head(wire) IN
       \/ /\ e.type = "session_changed"
          /\ sessions' = [sessions EXCEPT ![e.uuid] = e.row]
          /\ UNCHANGED activities
       \/ /\ e.type = "session_removed"
          /\ sessions' = [sessions EXCEPT ![e.uuid] = 0]
          /\ activities' = Without(activities, e.uuid)
       \/ /\ e.type = "activity"
          /\ activities' = IF e.on THEN activities \cup {e.uuid}
                           ELSE Without(activities, e.uuid)
          /\ UNCHANGED sessions
    /\ UNCHANGED <<daemonVars, wsOpen, owed, answers, trouble>>

FeedNext ==
    \/ \E u \in RowUuid : \/ RowChanges(u) \/ RowRemoved(u) \/ WrapCloses(u)
                       \/ \E on \in BOOLEAN : Activity(u, on)
    \/ \E again \in BOOLEAN : WsOpens(again)
    \/ WsCloses \/ PageReload
    \/ \E f \in FetchKind : Answered(f) \/ FetchFails(f) \/ Apply(f)
    \/ handleWsMessage

\* The interval runs for as long as the page is open and the browser delivers
\* what has arrived; nothing is assumed of the socket.
FeedFairness ==
    /\ WF_feedVars(Answered("poll"))
    /\ \A f \in FetchKind : WF_feedVars(Apply(f))
    /\ WF_feedVars(handleWsMessage)

FeedSpec == FeedInit /\ [][FeedNext]_feedVars /\ FeedFairness

FeedTypeOK ==
    /\ rows \in [RowUuid -> 0..MaxChange] /\ sessions \in [RowUuid -> 0..MaxChange]
    /\ labels \subseteq RowUuid /\ activities \subseteq RowUuid
    /\ wsOpen \in BOOLEAN /\ owed \subseteq {"init", "again"} /\ Len(wire) <= MaxWire

\* Once the daemon's rows stop changing, the page shows exactly them, and every
\* activity the daemon has, whatever was lost on the way and in whatever order
\* answers and events arrived (poll and handleWsMessage of src/web/app.tsx).
\* The converse for badges does not hold: a poll only adds them.
FeedConverges ==
    <>[](/\ sessions = rows
         /\ labels \subseteq activities)

\* What this takes besides fairness, while the daemon's row and badge of a
\* session stay as they are: what is said of it from now on is what it is, so
\* the events up to the last that says otherwise only get fewer and an answer
\* that does is gone once applied; when nothing old is under way the next answer
\* shows the session right, and it stays shown right until the page is reloaded.
RowStays(u) == rows'[u] = rows[u] /\ (u \in labels' <=> u \in labels)
AnswerTells(f, u) ==
    answers[f] # None => /\ answers[f].rows[u] = rows[u]
                         /\ u \in answers[f].labels <=> u \in labels
EventTells(e, u) ==
    e.uuid = u => /\ e.type = "session_changed" => e.row = rows[u]
                  /\ e.type = "session_removed" => rows[u] = 0
                  /\ e.type = "activity" => (e.on <=> u \in labels)
TellsFrom(n, u) == \A i \in n..Len(wire) : EventTells(wire[i], u)
NothingOld(u) == TellsFrom(1, u) /\ \A f \in FetchKind : AnswerTells(f, u)
RowShown(u) == sessions[u] = rows[u] /\ (u \in labels => u \in activities)

PageCatchesUp ==
    [][\A u \in RowUuid : RowStays(u) =>
        /\ \A f \in FetchKind : AnswerTells(f, u) \/ Apply(f) => AnswerTells(f, u)'
        /\ \A n \in 1..MaxWire + 1 :
             TellsFrom(n, u) => /\ TellsFrom(n, u)'
                                /\ handleWsMessage /\ n > 1 => TellsFrom(n - 1, u)'
        /\ NothingOld(u) /\ (RowShown(u) \/ \E f \in FetchKind : Apply(f)) =>
             RowShown(u)' \/ PageReload]_feedVars
=============================================================================
