--------------------------- MODULE DashboardTurns ----------------------------
(***************************************************************************)
(* What a cell shows of the running turn (src/web/app.tsx): the preview    *)
(* read from the transcript file, laid over by the prompt just sent and by *)
(* the reply being streamed, until the file has caught up.  One session;   *)
(* instants are counted, and the page's clock is the machine's.  The       *)
(* refresh timers of scheduleRefresh are counted in steps of 300 ms.       *)
(***************************************************************************)
EXTENDS DashboardIds, Naturals, Sequences

CONSTANTS
    MaxInstant,   \* bound on instants
    MaxEvents,    \* bound on events under way
    MaxFlaws      \* bound on lost links, failed fetches, failed sends, reloads

ASSUME TurnsBounds ==
    MaxInstant \in Nat /\ MaxEvents \in Nat /\ MaxFlaws \in Nat

Lane == {"first", "second"}

VARIABLES
    instant,
    file,        \* timestamps of the last user and assistant turn in the file
    taken,       \* instant of the last prompt the wrapper took
    reply,       \* the reply: "none", "streamed", "ended" (not yet in the file)
    socket,      \* the page's /ws is open
    events,
    previews,    \* per lane an answer of /sessions/previews, or None
    preview,     \* what the page shows of the file
    userOverlay, \* instant of the prompt laid over, 0 when there is none
    streaming,   \* the streamed reply laid over: "none", "empty", "text"
    startTs,     \* streamingStartTs, 0 when there is none
    flaws

wrapper == <<instant, file, taken, reply>>
overlays == <<preview, userOverlay, streaming, startTs>>
turnVars == <<wrapper, socket, events, previews, overlays, flaws>>

Blank == [user |-> 0, asst |-> 0]

TurnsInit ==
    /\ instant = 1 /\ file = Blank /\ taken = 0 /\ reply = "none"
    /\ socket = TRUE /\ events = <<>> /\ previews = [l \in Lane |-> None]
    /\ preview = Blank /\ userOverlay = 0 /\ streaming = "none" /\ startTs = 0
    /\ flaws = 0

Sent(event) ==
    /\ Len(events) < MaxEvents
    /\ events' = IF socket THEN Append(events, event) ELSE events
Later == instant < MaxInstant /\ instant' = instant + 1

----------------------------------------------------------------------------
(* The wrapper and Claude's transcript.                                    *)

\* A prompt is typed in the terminal, or pushed by another dashboard.
Prompted ==
    /\ Later /\ taken <= file.user
    /\ taken' = instant'
    /\ Sent([type |-> "user_message", ts |-> instant'])
    /\ UNCHANGED <<file, reply, socket, previews, overlays, flaws>>

UserTurnWritten ==
    /\ file.user < taken
    /\ file' = [file EXCEPT !.user = instant]
    /\ UNCHANGED <<instant, taken, reply, socket, events, previews, overlays, flaws>>

ReplyStarts ==
    /\ reply = "none" /\ taken > file.asst
    /\ reply' = "streamed"
    /\ Sent([type |-> "assistant_delta_start"])
    /\ UNCHANGED <<instant, file, taken, socket, previews, overlays, flaws>>

ReplyGrows ==
    /\ reply = "streamed"
    /\ Sent([type |-> "assistant_delta"])
    /\ UNCHANGED <<wrapper, socket, previews, overlays, flaws>>

ReplyEnds ==
    /\ reply = "streamed"
    /\ reply' = "ended"
    /\ Sent([type |-> "assistant_delta_end"])
    /\ UNCHANGED <<instant, file, taken, socket, previews, overlays, flaws>>

ReplyWritten ==
    /\ reply = "ended" /\ Later
    /\ reply' = "none"
    /\ file' = [file EXCEPT !.asst = instant']
    /\ UNCHANGED <<taken, socket, events, previews, overlays, flaws>>

----------------------------------------------------------------------------
(* The page.                                                               *)

handleTurnEvent ==
    /\ events # <<>>
    /\ events' = Tail(events)
    /\ LET e == Head(events) IN
       \/ /\ e.type = "user_message"
          /\ userOverlay' = e.ts
          /\ UNCHANGED <<streaming, startTs>>
       \/ /\ e.type = "assistant_delta_start"
          /\ streaming' = "empty" /\ startTs' = instant
          /\ UNCHANGED userOverlay
       \/ /\ e.type = "assistant_delta"
          /\ streaming' = "text"
          /\ UNCHANGED <<userOverlay, startTs>>
       \/ /\ e.type = "assistant_delta_end"
          /\ UNCHANGED <<userOverlay, streaming, startTs>>
    /\ UNCHANGED <<wrapper, socket, previews, preview, flaws>>

\* A prompt sent from this page is laid over before the POST, which may fail.
onSend(ok) ==
    /\ Later
    /\ userOverlay' = instant'
    /\ IF ok THEN /\ taken <= file.user /\ taken' = instant'
                  /\ Sent([type |-> "user_message", ts |-> instant'])
                  /\ UNCHANGED flaws
             ELSE /\ flaws < MaxFlaws /\ flaws' = flaws + 1
                  /\ UNCHANGED <<taken, events>>
    /\ UNCHANGED <<file, reply, socket, previews, preview, streaming, startTs>>

\* GET /sessions/previews, by the poll or a refresh, is answered.
PreviewsAnswered(l) ==
    /\ previews[l] = None
    /\ previews' = [previews EXCEPT ![l] = file]
    /\ UNCHANGED <<wrapper, socket, events, overlays, flaws>>

PreviewsFail(l) ==
    /\ previews[l] # None /\ flaws < MaxFlaws
    /\ flaws' = flaws + 1
    /\ previews' = [previews EXCEPT ![l] = None]
    /\ UNCHANGED <<wrapper, socket, events, overlays>>

\* The file has caught up with a prompt, or with a reply's start.
CaughtUpLate(written, ts) == written # 0 /\ written > ts
CaughtUp(written, ts) == written # 0 /\ written >= ts

loadPreviews(l) ==
    /\ previews[l] # None
    /\ preview' = previews[l]
    /\ userOverlay' = IF CaughtUp(previews[l].user, userOverlay) THEN 0 ELSE userOverlay
    /\ IF startTs # 0 /\ CaughtUp(previews[l].asst, startTs)
       THEN streaming' = "none" /\ startTs' = 0
       ELSE UNCHANGED <<streaming, startTs>>
    /\ previews' = [previews EXCEPT ![l] = None]
    /\ UNCHANGED <<wrapper, socket, events, flaws>>

SocketCloses ==
    /\ socket /\ flaws < MaxFlaws
    /\ flaws' = flaws + 1
    /\ socket' = FALSE /\ events' = <<>>
    /\ UNCHANGED <<wrapper, previews, overlays>>

SocketOpens ==
    /\ ~socket
    /\ socket' = TRUE
    /\ UNCHANGED <<wrapper, events, previews, overlays, flaws>>

PageReloads ==
    /\ flaws < MaxFlaws
    /\ flaws' = flaws + 1
    /\ socket' = FALSE /\ events' = <<>> /\ previews' = [l \in Lane |-> None]
    /\ preview' = Blank /\ userOverlay' = 0 /\ streaming' = "none" /\ startTs' = 0
    /\ UNCHANGED wrapper

TurnsNext ==
    \/ Prompted \/ UserTurnWritten
    \/ ReplyStarts \/ ReplyGrows \/ ReplyEnds \/ ReplyWritten
    \/ handleTurnEvent
    \/ \E ok \in BOOLEAN : onSend(ok)
    \/ \E l \in Lane : PreviewsAnswered(l) \/ PreviewsFail(l) \/ loadPreviews(l)
    \/ SocketCloses \/ SocketOpens \/ PageReloads

\* The wrapper writes what it took and what it said, the page polls, and what
\* has arrived is handled.  The socket need never come back.
TurnsFairness ==
    /\ WF_turnVars(UserTurnWritten)
    /\ SF_turnVars(ReplyEnds) /\ WF_turnVars(ReplyWritten)
    /\ WF_turnVars(handleTurnEvent)
    /\ \A l \in Lane : WF_turnVars(PreviewsAnswered(l)) /\ WF_turnVars(loadPreviews(l))

TurnsSpec == TurnsInit /\ [][TurnsNext]_turnVars /\ TurnsFairness

TurnsTypeOK ==
    /\ instant \in 1..MaxInstant /\ taken \in 0..instant
    /\ file.user \in 0..instant /\ file.asst \in 0..instant
    /\ userOverlay \in 0..instant /\ startTs \in 0..instant
    /\ reply \in {"none", "streamed", "ended"}
    /\ streaming \in {"none", "empty", "text"} /\ Len(events) <= MaxEvents

\* A prompt the wrapper took does not stay laid over the preview: once the file
\* has it the overlay goes, whatever answers and events cross and whatever is lost
\* (user_message and loadPreviews of src/web/app.tsx).
Yielded == userOverlay = 0 \/ userOverlay > taken
OverlayYields == <>[]Yielded

\* What this takes besides fairness, while the wrapper takes no other prompt: a
\* prompt that is in the file stays there, an answer made then has it, the number
\* of events before the last that could lay it over again only falls, and when
\* none is left the next such answer ends the overlay, for good.
HasPrompt(l) == previews[l] = None \/ previews[l].user >= taken
NoPromptFrom(n) == \A i \in n..Len(events) : events[i].type # "user_message"

OverlayStaysAway ==
    [][taken' = taken =>
        /\ file.user >= taken =>
             /\ file'.user >= taken
             /\ \A l \in Lane : HasPrompt(l) \/ loadPreviews(l) => HasPrompt(l)'
        /\ \A n \in 1..MaxEvents + 1 :
             NoPromptFrom(n) => /\ NoPromptFrom(n)'
                                /\ handleTurnEvent /\ n > 1 => NoPromptFrom(n - 1)'
        /\ NoPromptFrom(1) =>
             /\ Yielded => Yielded' /\ NoPromptFrom(1)'
             /\ \A l \in Lane : loadPreviews(l) /\ HasPrompt(l) => Yielded']_turnVars
=============================================================================
