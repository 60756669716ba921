---------------------------- MODULE DashboardAsks ----------------------------
(***************************************************************************)
(* Claude's questions in the dashboard (src/web/app.tsx): which one the    *)
(* modal shows, what the user has clicked away, and what of that is kept   *)
(* in localStorage.  The banner's hidden flags are kept just as the        *)
(* dismissals are and are left out.  An answer of GET /sessions may        *)
(* overtake events and be overtaken by them.                               *)
(***************************************************************************)
EXTENDS DashboardIds, Naturals, Sequences, FiniteSets, SequencesExt

CONSTANTS
    Qid,
    MaxPosts,    \* bound on events under way to this browser
    MaxUpsets    \* bound on lost links, failed answers and reloads together

ASSUME AsksBounds ==
    /\ MaxPosts \in Nat /\ MaxUpsets \in Nat
    /\ IsFiniteSet(Uuid) /\ None \notin Qid

VARIABLES
    wrapAsks,         \* the daemon's: session -> question or None
    asked,            \* questions there have been
    askLink,          \* the page's /ws is open
    posts,            \* events under way
    answered,         \* answers of GET /sessions under way, which no event waits for
    askOwed,          \* "init", "again": GET /sessions issued
    asks,             \* the page's, in the order of its keys
    dismissedAsks,
    dismissedAskQids, \* with its copy in localStorage
    submitting,       \* the question POST /wrap/answer is out for
    away,             \* questions this page's user has clicked away
    awayEver,         \* the same, over reloads
    upsets

asking == <<wrapAsks, asked>>
wired == <<posts, answered, askOwed>>
fetches == <<answered, askOwed>>
flags == <<dismissedAsks, dismissedAskQids>>
users == <<away, awayEver>>
asksVars == <<asking, askLink, wired, asks, flags, submitting, users, upsets>>

\* A map with the order of its keys, as a sequence of its entries; the place of
\* a key, or 0.
Place(map, u) == SelectInSeq(map, LAMBDA e : e.uuid = u)
QidOf(map, u) == IF Place(map, u) = 0 THEN None ELSE map[Place(map, u)].qid
Drop(map, u) == IF Place(map, u) = 0 THEN map ELSE RemoveAt(map, Place(map, u))
Put(map, u, q) ==
    IF Place(map, u) = 0 THEN Append(map, [uuid |-> u, qid |-> q])
    ELSE [map EXCEPT ![Place(map, u)] = [uuid |-> u, qid |-> q]]
\* GET /sessions lists every session with its pending_ask.
Seed == LET with == SetToSeq({u \in Uuid : wrapAsks[u] # None})
        IN  [i \in DOMAIN with |-> [uuid |-> with[i], qid |-> wrapAsks[with[i]]]]

\* The modal shows the first question that was not clicked away.
Shown == LET first == SelectInSeq(asks, LAMBDA e : e.uuid \notin dismissedAsks)
         IN  IF first = 0 THEN None ELSE asks[first]

AsksInit ==
    /\ wrapAsks = [u \in Uuid |-> None] /\ asked = {}
    /\ askLink = FALSE /\ posts = <<>> /\ answered = {} /\ askOwed = {"init"}
    /\ asks = <<>> /\ dismissedAsks = {} /\ dismissedAskQids = {}
    /\ submitting = None /\ away = {} /\ awayEver = {} /\ upsets = 0

\* What the user decided of a session's questions, but for some, no longer counts.
Undecided(u, but) ==
    /\ away' = {e \in away : e.uuid = u => e.qid \in but}
    /\ awayEver' = {e \in awayEver : e.uuid = u => e.qid \in but}

Posted(event) ==
    /\ Len(posts) < MaxPosts
    /\ posts' = IF askLink THEN Append(posts, event) ELSE posts

----------------------------------------------------------------------------
(* Wrappers and the daemon.                                                *)

\* A question may take the place of one that is pending.
Asks(u, q) ==
    /\ q \notin asked
    /\ asked' = asked \cup {q}
    /\ wrapAsks' = [wrapAsks EXCEPT ![u] = q]
    /\ Posted([type |-> "ask_question", uuid |-> u, qid |-> q])
    /\ UNCHANGED <<askLink, fetches, asks, flags, submitting, users, upsets>>

Done(u) ==
    /\ wrapAsks[u] # None
    /\ wrapAsks' = [wrapAsks EXCEPT ![u] = None]
    /\ Posted([type |-> "ask_question_done", uuid |-> u])
    /\ UNCHANGED <<asked, askLink, fetches, asks, flags, submitting, users, upsets>>

\* The wrapper's socket closes: the question goes without an event.
WrapGone(u) ==
    /\ wrapAsks[u] # None
    /\ wrapAsks' = [wrapAsks EXCEPT ![u] = None]
    /\ UNCHANGED <<asked, askLink, wired, asks, flags, submitting, users,
                   upsets>>

----------------------------------------------------------------------------
(* The page's link and fetches.                                            *)

AskLinkOpens ==
    /\ ~askLink /\ askLink' = TRUE
    /\ askOwed' = IF upsets = 0 THEN askOwed ELSE askOwed \cup {"again"}
    /\ UNCHANGED <<asking, posts, answered, asks, flags, submitting, users, upsets>>

\* The events go with the socket, an answer on its way does not.
AskLinkCloses ==
    /\ askLink /\ upsets < MaxUpsets
    /\ upsets' = upsets + 1
    /\ askLink' = FALSE /\ posts' = <<>>
    /\ UNCHANGED <<asking, fetches, asks, flags, submitting, users>>

SessionsAnswered(f) ==
    /\ f \in askOwed
    /\ askOwed' = askOwed \ {f}
    /\ answered' = answered \cup {[type |-> f, seed |-> Seed]}
    /\ UNCHANGED <<asking, askLink, posts, asks, flags, submitting, users, upsets>>

\* The first answer sets the questions unless it has none; the one after a
\* reconnect sets them in any case.  Neither touches the flags.
SessionsApplied(a) ==
    /\ answered' = answered \ {a}
    /\ asks' = IF a.type = "init" /\ a.seed = <<>> THEN asks ELSE a.seed
    /\ UNCHANGED <<asking, askLink, posts, askOwed, flags, submitting, users, upsets>>

\* F5: dismissedAskQids is read from localStorage, dismissedAsks starts empty.
AskReload ==
    /\ upsets < MaxUpsets
    /\ upsets' = upsets + 1
    /\ askLink' = FALSE /\ posts' = <<>> /\ answered' = {} /\ askOwed' = {"init"}
    /\ asks' = <<>> /\ dismissedAsks' = {} /\ submitting' = None /\ away' = {}
    /\ UNCHANGED <<asking, dismissedAskQids, awayEver>>

----------------------------------------------------------------------------
(* Events.                                                                 *)

AlwaysNew(u, q) == dismissedAsks \ {u}
\* dismissedAsks after a question of u arrives: a new one is on show unless its
\* id was clicked away before.
AfterQuestion(u, q) ==
    IF QidOf(asks, u) = q THEN dismissedAsks
    ELSE IF q \in dismissedAskQids THEN dismissedAsks \cup {u} ELSE dismissedAsks \ {u}

QuestionArrives ==
    /\ posts # <<>> /\ Head(posts).type = "ask_question"
    /\ LET e == Head(posts) IN
       /\ dismissedAsks' = AfterQuestion(e.uuid, e.qid)
       /\ asks' = Put(asks, e.uuid, e.qid)
       /\ Undecided(e.uuid, {e.qid})
    /\ posts' = Tail(posts)
    /\ UNCHANGED <<asking, askLink, fetches, dismissedAskQids, submitting, upsets>>

\* Every trace of the question goes: whichever the page has for the session.
Forget(u) ==
    /\ asks' = Drop(asks, u)
    /\ dismissedAsks' = dismissedAsks \ {u}
    /\ dismissedAskQids' = dismissedAskQids \ {QidOf(asks, u)}

DoneArrives ==
    /\ posts # <<>> /\ Head(posts).type = "ask_question_done"
    /\ Forget(Head(posts).uuid)
    /\ posts' = Tail(posts)
    /\ Undecided(Head(posts).uuid, {})
    /\ UNCHANGED <<asking, askLink, fetches, submitting, upsets>>

----------------------------------------------------------------------------
(* The user.                                                               *)

dismissAskForSession ==
    /\ Shown # None
    /\ dismissedAsks' = dismissedAsks \cup {Shown.uuid}
    /\ dismissedAskQids' = dismissedAskQids \cup {Shown.qid}
    /\ away' = away \cup {Shown} /\ awayEver' = awayEver \cup {Shown}
    /\ UNCHANGED <<asking, askLink, wired, asks, submitting, upsets>>

reopenAskForSession(u) ==
    /\ QidOf(asks, u) # None /\ u \in dismissedAsks
    /\ dismissedAsks' = dismissedAsks \ {u}
    /\ dismissedAskQids' = dismissedAskQids \ {QidOf(asks, u)}
    /\ Undecided(u, {})
    /\ UNCHANGED <<asking, askLink, wired, asks, submitting, upsets>>

Submit ==
    /\ Shown # None /\ submitting = None
    /\ submitting' = Shown
    /\ UNCHANGED <<asking, askLink, wired, asks, flags, users, upsets>>

\* The daemon took the answer: the session's entry goes, whichever question it
\* is by now, and the flags of the question that was answered.
onSubmitted ==
    /\ submitting # None
    /\ asks' = Drop(asks, submitting.uuid)
    /\ dismissedAsks' = dismissedAsks \ {submitting.uuid}
    /\ dismissedAskQids' = dismissedAskQids \ {submitting.qid}
    /\ Undecided(submitting.uuid, {})
    /\ submitting' = None
    /\ UNCHANGED <<asking, askLink, wired, upsets>>

SubmitFails ==
    /\ submitting # None /\ upsets < MaxUpsets
    /\ upsets' = upsets + 1 /\ submitting' = None
    /\ UNCHANGED <<asking, askLink, wired, asks, flags, users>>

AsksNext ==
    \/ \E u \in Uuid : \/ Done(u) \/ WrapGone(u) \/ reopenAskForSession(u)
                       \/ \E q \in Qid : Asks(u, q)
    \/ AskLinkOpens \/ AskLinkCloses \/ AskReload
    \/ \E f \in {"init", "again"} : SessionsAnswered(f)
    \/ \E a \in answered : SessionsApplied(a)
    \/ QuestionArrives \/ DoneArrives
    \/ dismissAskForSession \/ Submit \/ onSubmitted \/ SubmitFails

AsksSpec == AsksInit /\ [][AsksNext]_asksVars

AsksTypeOK ==
    /\ wrapAsks \in [Uuid -> Qid \cup {None}] /\ asked \subseteq Qid
    /\ asks \in Seq([uuid : Uuid, qid : Qid]) /\ dismissedAsks \subseteq Uuid
    /\ dismissedAskQids \subseteq Qid /\ away \subseteq awayEver

Pending(e) == e # None /\ wrapAsks[e.uuid] = e.qid

\* A question that still waits and that the user of this page has clicked away
\* does not pop up again, whatever is lost, fetched again or known twice (the
\* ask_question handler of src/web/app.tsx).  The end of a question, its answer
\* and the bell forget the decision for whichever question the session has, and
\* so does the event of another of its questions, even of an earlier one.
DismissedStaysAway == Pending(Shown) => Shown \notin away

\* The same over reloads (src/web/app.tsx:4183: "F5 -> the user's ... decision
\* survives").
DismissSurvives == Pending(Shown) => Shown \notin awayEver
=============================================================================
