---------------------------- MODULE DashboardCells ---------------------------
(***************************************************************************)
(* The timers of the dashboard (src/web/app.tsx): a cell's flash and its   *)
(* long-waiting colour, and the refresh that events ask for.  A timer is   *)
(* the time it still has to run, Off when it is not armed; timers are      *)
(* punctual and time passes only when none is due.                         *)
(***************************************************************************)
EXTENDS Naturals

CONSTANTS
    ArmFor,      \* a session waits this long before its cell flashes
    FlashFor,    \* and flashes this long
    StaleAfter,  \* and is painted as left waiting after this long
    Debounce,    \* a refresh follows the last event by this much
    MaxWait,     \* MAX_REFRESH_INTERVAL_MS
    MaxTicks,    \* bound on time
    Off

ASSUME CellsBounds ==
    /\ ArmFor \in Nat \ {0} /\ FlashFor \in Nat \ {0} /\ StaleAfter \in Nat \ {0}
    /\ Debounce \in Nat \ {0} /\ MaxWait \in Nat \ {0} /\ MaxTicks \in Nat /\ Off \notin Nat

VARIABLES
    ticks,
    status,         \* of the row: "active", "waiting", "idle"
    lastEventAt,
    lastUserTs,     \* of the preview
    flashing, armTimer, flashTimer,
    staleWaiting, staleTimer,
    refreshTimer, refreshMaxTimer,
    unserved        \* when the oldest event came that no refresh has followed

cell == <<status, lastEventAt, lastUserTs, flashing, armTimer, flashTimer, staleWaiting,
          staleTimer>>
refresh == <<refreshTimer, refreshMaxTimer, unserved>>
cellVars == <<ticks, cell, refresh>>

CellsInit ==
    /\ ticks = 0 /\ status = "active" /\ lastEventAt = 0 /\ lastUserTs = 0
    /\ flashing = FALSE /\ armTimer = Off /\ flashTimer = Off
    /\ staleWaiting = FALSE /\ staleTimer = Off
    /\ refreshTimer = Off /\ refreshMaxTimer = Off /\ unserved = Off

----------------------------------------------------------------------------
(* The effects that run when the row or the preview changes.               *)

\* Entering "waiting" arms the flash; leaving it ends everything.
Entered(to) == status # "waiting" /\ to = "waiting"
Left(to) == status = "waiting" /\ to # "waiting"
LeftAndQuiet(to) == Left(to) /\ ~flashing
Stops(to) == Left(to)
FlashEffect(to) ==
    IF Stops(to) THEN /\ armTimer' = Off /\ flashTimer' = Off /\ flashing' = FALSE
    ELSE IF Entered(to) THEN armTimer' = ArmFor /\ flashTimer' = Off /\ UNCHANGED flashing
    ELSE UNCHANGED <<armTimer, flashTimer, flashing>>

\* A user turn newer than the row's last event says that the user has replied.
StaleEffect(to, event, user) ==
    IF to # "waiting" \/ user > event
    THEN staleWaiting' = FALSE /\ staleTimer' = Off
    ELSE IF ticks - event >= StaleAfter
    THEN staleWaiting' = TRUE /\ staleTimer' = Off
    ELSE staleWaiting' = FALSE /\ staleTimer' = StaleAfter - (ticks - event)

\* scheduleRefresh: a trailing timer, and one that is armed once for a burst.
MaxTimerAfter == IF refreshMaxTimer = Off THEN MaxWait ELSE refreshMaxTimer
scheduleRefresh ==
    /\ refreshTimer' = Debounce
    /\ refreshMaxTimer' = MaxTimerAfter
    /\ unserved' = IF unserved = Off THEN ticks ELSE unserved

\* session_changed, or a poll after a time without events: the row, whose last
\* event may lie behind.
RowArrives(to, age) ==
    /\ lastEventAt + age <= ticks /\ lastEventAt' = ticks - age
    /\ status' = to
    /\ FlashEffect(to) /\ StaleEffect(to, ticks - age, lastUserTs)
    /\ scheduleRefresh
    /\ UNCHANGED <<ticks, lastUserTs>>

\* The previews bring a user turn whose hook may never have fired.
UserTurnSeen ==
    /\ lastUserTs < ticks /\ lastUserTs' = ticks
    /\ StaleEffect(status, lastEventAt, ticks)
    /\ UNCHANGED <<ticks, status, lastEventAt, flashing, armTimer, flashTimer, refresh>>

----------------------------------------------------------------------------
(* Timers.                                                                 *)

ArmFires ==
    /\ armTimer = 0
    /\ armTimer' = Off /\ flashing' = TRUE /\ flashTimer' = FlashFor
    /\ UNCHANGED <<ticks, status, lastEventAt, lastUserTs, staleWaiting, staleTimer, refresh>>

FlashFires ==
    /\ flashTimer = 0
    /\ flashTimer' = Off /\ flashing' = FALSE
    /\ UNCHANGED <<ticks, status, lastEventAt, lastUserTs, armTimer, staleWaiting, staleTimer,
                   refresh>>

StaleFires ==
    /\ staleTimer = 0
    /\ staleTimer' = Off /\ staleWaiting' = TRUE
    /\ UNCHANGED <<ticks, status, lastEventAt, lastUserTs, flashing, armTimer, flashTimer,
                   refresh>>

\* Whichever of the two is first clears both and loads.
RefreshFires ==
    /\ refreshTimer = 0 \/ refreshMaxTimer = 0
    /\ refreshTimer' = Off /\ refreshMaxTimer' = Off /\ unserved' = Off
    /\ UNCHANGED <<ticks, cell>>

Timers == {armTimer, flashTimer, staleTimer, refreshTimer, refreshMaxTimer}
Run(timer) == IF timer = Off THEN Off ELSE timer - 1

TimePasses ==
    /\ ticks < MaxTicks /\ 0 \notin Timers
    /\ ticks' = ticks + 1
    /\ armTimer' = Run(armTimer) /\ flashTimer' = Run(flashTimer)
    /\ staleTimer' = Run(staleTimer)
    /\ refreshTimer' = Run(refreshTimer) /\ refreshMaxTimer' = Run(refreshMaxTimer)
    /\ UNCHANGED <<status, lastEventAt, lastUserTs, flashing, staleWaiting, unserved>>

CellsNext ==
    \/ \E to \in {"active", "waiting", "idle"}, age \in {0, StaleAfter} : RowArrives(to, age)
    \/ UserTurnSeen
    \/ ArmFires \/ FlashFires \/ StaleFires \/ RefreshFires
    \/ TimePasses

CellsSpec == CellsInit /\ [][CellsNext]_cellVars

CellsTypeOK ==
    /\ status \in {"active", "waiting", "idle"}
    /\ flashing \in BOOLEAN /\ staleWaiting \in BOOLEAN
    /\ ticks \in 0..MaxTicks /\ lastEventAt \in 0..ticks /\ lastUserTs \in 0..ticks
    /\ armTimer \in 0..ArmFor \cup {Off} /\ flashTimer \in 0..FlashFor \cup {Off}
    /\ staleTimer \in 0..StaleAfter \cup {Off}
    /\ refreshTimer \in 0..Debounce \cup {Off} /\ refreshMaxTimer \in 0..MaxWait \cup {Off}
    /\ unserved \in 0..ticks \cup {Off}

\* A cell flashes only while its session waits for the user, and is painted as
\* left waiting only when it has waited that long and no reply of the user is in
\* the transcript (the effects of the small card in src/web/app.tsx).
CellTellsTruth ==
    /\ flashing => status = "waiting"
    /\ staleWaiting => /\ status = "waiting" /\ lastUserTs <= lastEventAt
                       /\ ticks - lastEventAt >= StaleAfter

\* However fast events come, a refresh follows each within MAX_REFRESH_INTERVAL_MS
\* (scheduleRefresh of src/web/app.tsx).
RefreshIsPrompt == unserved # Off => ticks - unserved <= MaxWait
=============================================================================
