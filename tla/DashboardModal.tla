--------------------------- MODULE DashboardModal ----------------------------
(***************************************************************************)
(* The big card of the dashboard (src/web/app.tsx): which session it is    *)
(* of, the transcript it shows, and the ref through which the poll and the *)
(* /ws handler know the session.  A transcript is the session it is of,    *)
(* the version of the file it was read from and how many turns were asked  *)
(* for; its meta is what GET /transcript-meta answers for that file (two   *)
(* files differ in it; two sessions without a file do not, nor does what   *)
(* is shown of them, and every session here has one).                      *)
(***************************************************************************)
EXTENDS DashboardIds, Naturals, FiniteSets

CONSTANTS
    Codex,              \* sessions whose id a send may replace
    RealOf(_),          \* the id the daemon answers such a send with
    MaxVersion,         \* bound on a file's versions
    MaxMoves,           \* bound on what the user opens and closes
    MaxBlips,           \* bound on failed fetches
    MaxOut,             \* bound on answers of GET /transcript under way
    SwitchWhileSending, \* the user opens another card while a send is out
    GrowsWhileRead      \* a file grows between being read and being looked up

ASSUME ModalBounds ==
    /\ MaxVersion \in Nat /\ MaxMoves \in Nat
    /\ MaxBlips \in Nat /\ MaxOut \in Nat
    /\ SwitchWhileSending \in BOOLEAN /\ GrowsWhileRead \in BOOLEAN
\* An answer of GET /transcript: how much it holds, and what the daemon said of
\* the file.
TranscriptOf == [of : Uuid, version : Nat, meta : [of : Uuid, version : Nat], limit : {"few", "many"}]
ASSUME ModalNone == None \notin TranscriptOf
ASSUME ModalIds == Codex \subseteq Uuid /\ \A u \in Codex : RealOf(u) \in Uuid \ Codex

VARIABLES
    versions,   \* per session the transcript's version
    modalFor,
    modalRef,   \* modalSessionUuidRef
    transcript,
    metaRef,    \* transcriptMetaRef
    limit,      \* transcriptLimit and showTools: "few" or "many" turns
    fetched,    \* answers of GET /transcript on their way
    metaOut,    \* the answer of /transcript-meta on its way
    suspended,  \* transcriptMeta404Until lies ahead
    sending,    \* the session a codex send is out for
    moves, blips

shown == <<modalFor, modalRef, transcript, metaRef, limit>>
modalVars == <<versions, shown, fetched, metaOut, suspended, sending, moves, blips>>

\* What the daemon answers of a session now.
Meta(u) == [of |-> u, version |-> versions[u]]
Answer(u) == [of |-> u, version |-> versions[u], meta |-> Meta(u), limit |-> limit]

ModalInit ==
    /\ versions = [u \in Uuid |-> 1] /\ modalFor = None /\ modalRef = None
    /\ transcript = None /\ metaRef = None /\ limit = "few"
    /\ fetched = {} /\ metaOut = None /\ suspended = FALSE
    /\ sending = None /\ moves = 0 /\ blips = 0

\* GET /transcript is issued, while others may still be out.
LoadWith(u, l) ==
    /\ Cardinality(fetched) < MaxOut
    /\ fetched' = fetched \cup {[Answer(u) EXCEPT !.limit = l]}
Load(u) == LoadWith(u, limit)
Moves == moves < MaxMoves /\ moves' = moves + 1
MayMove == SwitchWhileSending \/ sending = None

----------------------------------------------------------------------------
(* The user.                                                               *)

\* openCellModal, and the effects of the new modalFor: the ref follows it and the
\* transcript is loaded.
openCellModal(u) ==
    /\ Moves /\ MayMove /\ modalFor # u
    /\ modalFor' = u /\ modalRef' = u
    /\ Load(u)
    /\ UNCHANGED <<versions, transcript, metaRef, limit, metaOut, suspended, sending, blips>>

closeCellModal ==
    /\ Moves /\ MayMove /\ modalFor # None
    /\ modalFor' = None /\ modalRef' = None
    /\ transcript' = None /\ metaRef' = None
    /\ UNCHANGED <<versions, limit, fetched, metaOut, suspended, sending, blips>>

SetLimit(l) ==
    /\ Moves /\ l # limit
    /\ limit' = l
    /\ IF modalFor # None THEN LoadWith(modalFor, l) ELSE UNCHANGED fetched
    /\ UNCHANGED <<versions, modalFor, modalRef, transcript, metaRef, metaOut, suspended,
                   sending, blips>>

onSendStarts ==
    /\ modalFor \in Codex /\ sending = None
    /\ sending' = modalFor
    /\ UNCHANGED <<versions, shown, fetched, metaOut, suspended, moves, blips>>

\* POST /send answers with the id the session has now.
RefAfterSend(next) == next
onSendAnswered ==
    /\ sending # None
    /\ LET next == RealOf(sending) IN
       /\ modalFor' = IF modalFor = sending THEN next ELSE modalFor
       /\ modalRef' = RefAfterSend(next)
       /\ Load(next)
    /\ sending' = None
    /\ UNCHANGED <<versions, transcript, metaRef, limit, metaOut, suspended, moves, blips>>

onSendFails ==
    /\ sending # None /\ blips < MaxBlips
    /\ blips' = blips + 1 /\ sending' = None
    /\ UNCHANGED <<versions, shown, fetched, metaOut, suspended, moves>>

----------------------------------------------------------------------------
(* The daemon and the page.                                                *)

FileGrows(u) ==
    /\ versions[u] < MaxVersion
    /\ versions' = [versions EXCEPT ![u] = @ + 1]
    /\ \/ UNCHANGED fetched
       \/ \E a \in fetched :
             /\ GrowsWhileRead /\ a.of = u
             /\ fetched' = (fetched \ {a}) \cup {[a EXCEPT !.meta.version = versions'[u]]}
    /\ UNCHANGED <<shown, metaOut, suspended, sending, moves, blips>>

loadTranscript(u) ==
    /\ \E a \in fetched :
          /\ a.of = u
          /\ transcript' = a /\ metaRef' = a.meta
          /\ fetched' = fetched \ {a}
    /\ UNCHANGED <<versions, modalFor, modalRef, limit, metaOut, suspended, sending, moves, blips>>

TranscriptFails(u) ==
    /\ blips < MaxBlips
    /\ blips' = blips + 1
    /\ \E a \in fetched : a.of = u /\ fetched' = fetched \ {a}
    /\ UNCHANGED <<versions, shown, metaOut, suspended, sending, moves>>

\* scheduleRefresh fires after an event.
Refresh ==
    /\ modalRef # None
    /\ Load(modalRef)
    /\ UNCHANGED <<versions, shown, metaOut, suspended, sending, moves, blips>>

\* The poll asks for the meta of the session the ref names; an older daemon
\* without the route answers 404, and the poll waits five seconds.
MetaAnswered(known) ==
    /\ modalRef # None /\ ~suspended /\ metaOut = None
    /\ IF known THEN metaOut' = Meta(modalRef) /\ UNCHANGED <<suspended, blips>>
                ELSE /\ blips < MaxBlips /\ blips' = blips + 1
                     /\ suspended' = TRUE /\ UNCHANGED metaOut
    /\ UNCHANGED <<versions, shown, fetched, sending, moves>>

SuspensionEnds ==
    /\ suspended /\ suspended' = FALSE
    /\ UNCHANGED <<versions, shown, fetched, metaOut, sending, moves, blips>>

\* When to read the whole transcript again.
OnlyWhenNone(meta) == metaRef = None
Changed(meta) == metaRef = None \/ meta # metaRef

maybeRefreshTranscript ==
    /\ metaOut # None
    /\ metaOut' = None
    /\ IF Changed(metaOut) THEN Load(metaOut.of) ELSE UNCHANGED fetched
    /\ UNCHANGED <<versions, shown, suspended, sending, moves, blips>>

ModalNext ==
    \/ \E u \in Uuid : \/ openCellModal(u) \/ FileGrows(u)
                       \/ loadTranscript(u) \/ TranscriptFails(u)
    \/ closeCellModal
    \/ \E l \in {"few", "many"} : SetLimit(l)
    \/ onSendStarts \/ onSendAnswered \/ onSendFails
    \/ Refresh \/ SuspensionEnds \/ maybeRefreshTranscript
    \/ \E known \in BOOLEAN : MetaAnswered(known)

\* The poll runs and answers are handled; the send's answer and the events that
\* make a refresh may never come.
ModalFairness ==
    /\ \A u \in Uuid : WF_modalVars(loadTranscript(u))
    /\ SF_modalVars(MetaAnswered(TRUE))
    /\ WF_modalVars(SuspensionEnds) /\ SF_modalVars(maybeRefreshTranscript)

ModalSpec == ModalInit /\ [][ModalNext]_modalVars /\ ModalFairness

ModalTypeOK ==
    /\ versions \in [Uuid -> 1..MaxVersion]
    /\ modalFor \in Uuid \cup {None} /\ modalRef \in Uuid \cup {None}
    /\ sending \in Codex \cup {None} /\ suspended \in BOOLEAN
    /\ limit \in {"few", "many"} /\ fetched \subseteq TranscriptOf

\* An open card ends up showing its own session's transcript as the file is now,
\* whichever answers came late, failed or were of the card opened before, and
\* with no event to help (the poll of src/web/app.tsx).  How many turns it shows
\* is not covered: an answer with the earlier limit may come last.
TranscriptConverges ==
    <>[](modalFor # None =>
           /\ transcript # None /\ transcript.of = modalFor
           /\ transcript.version = versions[modalFor])

\* The ref mirrors the session of the open card, so that what the poll and the
\* events load is the card's own transcript (src/web/app.tsx:4417: "Mirror of
\* modalFor's session_uuid for use inside the WS handler + 2s polling tick").
RefMirrorsModal == modalFor # None => modalRef = modalFor

\* The poll cannot take an old transcript for the file's: as long as the open
\* card shows anything but its own session's file as it is now, what
\* /transcript-meta answers next differs from what the page holds, and
\* maybeRefreshTranscript reads it again (src/web/app.tsx:4711).
PollNotices ==
    modalFor # None =>
        \/ /\ transcript # None /\ transcript.of = modalFor
           /\ transcript.version = versions[modalFor]
        \/ Changed(Meta(modalFor))
=============================================================================
