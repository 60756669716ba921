--------------------------- MODULE DashboardSpawn ----------------------------
(***************************************************************************)
(* Starting a session from the dashboard (src/web/app.tsx): the popover's  *)
(* POST /wrap/start and the banner that stands in until the session's card *)
(* appears.  A launch is a directory with an agent.                        *)
(***************************************************************************)
EXTENDS DashboardIds, Naturals, FiniteSets

CONSTANTS
    Launch,
    Named,      \* launches whose row the daemon makes at once and names (codex)
    Grace,      \* how much older than the banner a matching row may be
    Patience,   \* after this long the banner says that nothing came
    MaxMoment,  \* bound on time
    MaxPosted   \* bound on POSTs

ASSUME SpawnBounds ==
    /\ Grace \in Nat /\ Patience \in Nat /\ MaxMoment \in Nat /\ MaxPosted \in Nat
    /\ Named \subseteq Launch

VARIABLES
    moment,
    posting,    \* the launch POST /wrap/start is out for
    started,    \* the daemon has handled the POST and not yet answered
    made,       \* last_event_at of the launch's newest row, 0 when there is none
    listed,     \* the same, as the page has it
    pendings,   \* the banner's entries
    posted

spawnVars == <<moment, posting, started, made, listed, pendings, posted>>

SpawnInit ==
    /\ moment = 1 /\ posting = None /\ started = {} /\ posted = 0
    /\ made \in [Launch -> {0, 1}] /\ listed = made /\ pendings = {}

\* NewCliButton.submit
submit(l) ==
    /\ posting = None /\ posted < MaxPosted
    /\ posting' = l /\ posted' = posted + 1
    /\ UNCHANGED <<moment, started, made, listed, pendings>>

\* The daemon opens a terminal; codex gets its row at once.
Start ==
    /\ posting # None /\ posting \notin started
    /\ started' = started \cup {posting}
    /\ made' = IF posting \in Named THEN [made EXCEPT ![posting] = moment] ELSE made
    /\ UNCHANGED <<moment, posting, listed, pendings, posted>>

StartRefused ==
    /\ posting # None /\ posting \notin started
    /\ posting' = None
    /\ UNCHANGED <<moment, started, made, listed, pendings, posted>>

\* A row that ends the banner's entry: the one the daemon named, or one of the
\* same directory and agent that is not older than the entry by much.
MatchesByTime(p) == listed[p.launch] >= p.startedAt
Matches(p) ==
    \/ p.launch \in Named /\ listed[p.launch] >= p.rowOf
    \/ listed[p.launch] + Grace >= p.startedAt
EndsEntry(p) == listed[p.launch] # 0 /\ Matches(p)
Kept(set) == {p \in set : ~EndsEntry(p)}

\* The answer: an entry of the same directory is replaced, and the effect that
\* looks for the row runs when their number changes.
StartAnswered ==
    /\ posting \in started
    /\ LET without == {p \in pendings : p.launch # posting}
           with == without \cup {[launch |-> posting, rowOf |-> made[posting],
                                  startedAt |-> moment, timedOut |-> FALSE]}
       IN pendings' = IF Cardinality(with) # Cardinality(pendings) THEN Kept(with) ELSE with
    /\ posting' = None
    /\ started' = started \ {posting}
    /\ UNCHANGED <<moment, made, listed, posted>>

\* The wrapper of a launch registers, or any session there has an event.
RowEvent(l) ==
    /\ made[l] < moment
    /\ made' = [made EXCEPT ![l] = moment]
    /\ UNCHANGED <<moment, posting, started, listed, pendings, posted>>

\* An event or the poll replaces the page's sessions, and the effect runs.
SessionsSet(l) ==
    /\ listed' = [listed EXCEPT ![l] = made[l]]
    /\ pendings' = {p \in pendings : ~(p.launch = l /\ made[l] # 0 /\ Matches(p)')}
    /\ UNCHANGED <<moment, posting, started, made, posted>>

\* The interval: once a second.
TimedOut ==
    /\ \E p \in pendings : ~p.timedOut /\ moment - p.startedAt > Patience
    /\ pendings' = {[p EXCEPT !.timedOut = @ \/ moment - p.startedAt > Patience] : p \in pendings}
    /\ UNCHANGED <<moment, posting, started, made, listed, posted>>

dismiss(p) ==
    /\ pendings' = pendings \ {p}
    /\ UNCHANGED <<moment, posting, started, made, listed, posted>>

MomentPasses ==
    /\ moment < MaxMoment /\ moment' = moment + 1
    /\ UNCHANGED <<posting, started, made, listed, pendings, posted>>

SpawnNext ==
    \/ \E l \in Launch : submit(l) \/ RowEvent(l) \/ SessionsSet(l)
    \/ Start \/ StartRefused \/ StartAnswered
    \/ TimedOut \/ MomentPasses
    \/ \E p \in pendings : dismiss(p)

\* The poll replaces the page's sessions every two seconds and the interval runs.
SpawnFairness ==
    /\ \A l \in Launch : WF_spawnVars(SessionsSet(l))
    /\ WF_spawnVars(TimedOut)

SpawnSpec == SpawnInit /\ [][SpawnNext]_spawnVars /\ SpawnFairness

SpawnTypeOK ==
    /\ moment \in 1..MaxMoment /\ posting \in Launch \cup {None} /\ started \subseteq Launch
    /\ made \in [Launch -> 0..moment] /\ listed \in [Launch -> 0..moment]
    /\ Cardinality(pendings) <= Cardinality(Launch)

\* The session an entry of the banner stands for has its row.
Fulfilled(p) ==
    /\ made[p.launch] # 0
    /\ made[p.launch] >= IF p.launch \in Named THEN p.rowOf ELSE p.startedAt

\* The banner ends up without any entry whose session has come, and says of every
\* other that it timed out, however POSTs, answers and row events are ordered
\* (the auto-dismiss effect of SpawnPendingBanner in src/web/app.tsx).
AllSaid == \A p \in pendings : moment - p.startedAt > Patience => p.timedOut
BannerSettles == <>[](AllSaid /\ \A p \in pendings : ~Fulfilled(p))

\* What this takes besides fairness: whenever the page gets the sessions no entry
\* of the launch is left that its row has come for, and until another row is made
\* or a POST of that launch answered none comes back; what the interval has said
\* of the overdue entries is true until the clock moves on.
NoneFulfilled(l) == \A p \in pendings : p.launch = l => ~Fulfilled(p)

BannerStaysClear ==
    [][/\ \A l \in Launch :
            /\ SessionsSet(l) => NoneFulfilled(l)'
            /\ NoneFulfilled(l) => \/ NoneFulfilled(l)'
                                   \/ made'[l] # made[l]
                                   \/ posting = l /\ StartAnswered
       /\ AllSaid => AllSaid' \/ moment' # moment
       /\ TimedOut => AllSaid']_spawnVars
=============================================================================
