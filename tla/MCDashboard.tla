---------------------------- MODULE MCDashboard ------------------------------
(***************************************************************************)
(* The parts of the dashboard share no state, so they are checked side by  *)
(* side: a behaviour is one of one part, chosen at the start, and the      *)
(* others stay as they are.                                                *)
(***************************************************************************)
EXTENDS DashboardFeed, DashboardTurns, DashboardModal, DashboardAsks, DashboardCells,
        DashboardTabs, DashboardSpawn, WrapModes, Transcripts

VARIABLE part
dashboardVars == <<part, feedVars, turnVars, modalVars, asksVars, cellVars, tabVars, spawnVars,
                   modesVars, transcriptVars>>

CONSTANTS c1, r1
MCRealOf(u) == r1

Message(role, injected, form, blocks) ==
    [kind |-> "message", role |-> role, injected |-> injected, form |-> form,
     blocks |-> blocks, synthetic |-> FALSE]

\* Every kind of line, and the messages of several blocks that try the order
\* of blocks and where images go.
MCClaudeLine ==
    {[kind |-> k] : k \in {"command", "stdout", "other"}}
    \cup {Message(r, FALSE, "string", <<b>>) :
            r \in {"user", "assistant"}, b \in {"text", "holder", "blank"}}
    \cup {Message("user", TRUE, f, <<"text">>) : f \in {"string", "blocks"}}
    \cup {Message("user", FALSE, "blocks", c) : c \in
            {<<"text">>, <<"image">>, <<"result">>, <<"image", "blank">>,
             <<"result", "image">>, <<"text", "image", "text">>}}
    \cup {Message("assistant", FALSE, "blocks", c) : c \in
            {<<"text">>, <<"holder">>, <<"use">>, <<"text", "use">>, <<"text", "use", "text", "use">>}}
    \cup {[Message("assistant", FALSE, "blocks", <<"holder">>) EXCEPT !.synthetic = TRUE]}

MCCodexLine ==
    {[kind |-> k] : k \in {"call", "output", "other"}}
    \cup {[kind |-> "message", role |-> r, text |-> x] :
            r \in {"user", "assistant", "developer", "system"},
            x \in {"text", "blank", "injected"}}

Init ==
    /\ part \in {"feed", "turns", "modal", "asks", "cells", "tabs", "spawn", "modes", "file"}
    /\ FeedInit /\ TurnsInit /\ ModalInit /\ AsksInit /\ CellsInit /\ TabsInit /\ SpawnInit
    /\ ModesInit /\ TranscriptsInit
    /\ part # "file" => source = "claude"
    /\ part # "feed" => rows = NoRows
    /\ part # "spawn" => made = [l \in Launch |-> 0]

FeedPart == /\ part = "feed" /\ FeedNext
            /\ UNCHANGED <<part, turnVars, modalVars, asksVars, cellVars, tabVars, spawnVars,
                           modesVars, transcriptVars>>
TurnsPart == /\ part = "turns" /\ TurnsNext
             /\ UNCHANGED <<part, feedVars, modalVars, asksVars, cellVars, tabVars, spawnVars,
                           modesVars, transcriptVars>>
ModalPart == /\ part = "modal" /\ ModalNext
             /\ UNCHANGED <<part, feedVars, turnVars, asksVars, cellVars, tabVars, spawnVars,
                           modesVars, transcriptVars>>
AsksPart == /\ part = "asks" /\ AsksNext
            /\ UNCHANGED <<part, feedVars, turnVars, modalVars, cellVars, tabVars, spawnVars,
                           modesVars, transcriptVars>>
CellsPart == /\ part = "cells" /\ CellsNext
             /\ UNCHANGED <<part, feedVars, turnVars, modalVars, asksVars, tabVars, spawnVars,
                           modesVars, transcriptVars>>
TabsPart == /\ part = "tabs" /\ TabsNext
            /\ UNCHANGED <<part, feedVars, turnVars, modalVars, asksVars, cellVars, spawnVars,
                           modesVars, transcriptVars>>
SpawnPart == /\ part = "spawn" /\ SpawnNext
             /\ UNCHANGED <<part, feedVars, turnVars, modalVars, asksVars, cellVars, tabVars,
                           modesVars, transcriptVars>>

ModesPart == /\ part = "modes" /\ ModesNext
             /\ UNCHANGED <<part, feedVars, turnVars, modalVars, asksVars, cellVars, tabVars,
                           spawnVars, transcriptVars>>
FilePart == /\ part = "file" /\ TranscriptsNext
            /\ UNCHANGED <<part, feedVars, turnVars, modalVars, asksVars, cellVars, tabVars,
                          spawnVars, modesVars>>

\* The fairness of each part's module; a part that stands still owes none.
Fairness ==
    /\ WF_feedVars(part = "feed" /\ Answered("poll"))
    /\ \A f \in FetchKind : WF_feedVars(part = "feed" /\ Apply(f))
    /\ WF_feedVars(part = "feed" /\ handleWsMessage)
    /\ WF_turnVars(part = "turns" /\ UserTurnWritten)
    /\ SF_turnVars(part = "turns" /\ ReplyEnds)
    /\ WF_turnVars(part = "turns" /\ ReplyWritten)
    /\ WF_turnVars(part = "turns" /\ handleTurnEvent)
    /\ \A l \in Lane : /\ WF_turnVars(part = "turns" /\ PreviewsAnswered(l))
                      /\ WF_turnVars(part = "turns" /\ loadPreviews(l))
    /\ \A u \in Uuid : WF_modalVars(part = "modal" /\ loadTranscript(u))
    /\ SF_modalVars(part = "modal" /\ MetaAnswered(TRUE))
    /\ WF_modalVars(part = "modal" /\ SuspensionEnds)
    /\ SF_modalVars(part = "modal" /\ maybeRefreshTranscript)
    /\ \A l \in Launch : WF_spawnVars(part = "spawn" /\ SessionsSet(l))
    /\ WF_spawnVars(part = "spawn" /\ TimedOut)

Next == FeedPart \/ TurnsPart \/ ModalPart \/ AsksPart \/ CellsPart \/ TabsPart \/ SpawnPart
        \/ ModesPart \/ FilePart
Spec == Init /\ [][Next]_dashboardVars /\ Fairness
=============================================================================
