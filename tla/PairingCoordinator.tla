------------------------- MODULE PairingCoordinator -------------------------
(***************************************************************************)
(* The coordinator of pairing codes (src/worker/src/pairing-coordinator.ts)*)
(* and the routes of the worker that reach it (index.ts, daemon-relay.ts): *)
(* codes with their expiry, the limit on a daemon's registrations and the  *)
(* back-off after failed claims.  A code stands for a token; codes that    *)
(* were never registered are the guesses.                                  *)
(*                                                                         *)
(* A handler is one step (input gate); each map is stored before the       *)
(* answer is given, so that a coordinator that is put to sleep comes back  *)
(* with what it had and a restart is no step here.                         *)
(***************************************************************************)
EXTENDS Naturals, Sequences, FiniteSets

CONSTANTS
    Token, Kept,     \* pairing codes, and those registered as persistent
    Daemon, Nobody,
    DrawnBy,         \* the daemon that draws a code
    Prefix, PrefixOf,\* the first CLAIM_FAIL_PREFIX_LEN characters
    Ttl,             \* PAIRING_TTL_MS
    RateWindow, RateLimit,       \* REGISTER_RATE_*
    FailWindow, FailMax,         \* CLAIM_FAIL_*
    MaxPending,      \* size of pending past which a registration is refused
    MaxBuckets,      \* size of claimFails past which the oldest is dropped
    MaxNow,          \* bound: the clock
    MaxCalls         \* bound: registrations and claims in one instant

Entry == [daemon : Daemon, expires : Nat]

ASSUME CodesAssumption == Nobody \notin Daemon \cup Entry /\ Kept \subseteq Token
ASSUME LimitsAssumption == /\ Ttl \in Nat /\ RateWindow \in Nat /\ FailWindow \in Nat
                           /\ RateLimit \in Nat \ {0} /\ FailMax \in Nat \ {0}
ASSUME BoundsAssumption == MaxNow \in Nat /\ MaxCalls \in Nat
ASSUME MapsAssumption == DrawnBy \in [Token -> Daemon]
                         /\ PrefixOf \in [Token -> Prefix]

VARIABLES
    instant,     \* Date.now()
    pending,     \* the codes, each with its expiry
    rateLimits,  \* registrations of a daemon in its window
    claimFails,  \* failed claims of a prefix in its window
    sentTo,      \* the daemon the last claim led to
    calls,       \* calls in this instant, to MaxCalls
    registered,  \* history: instants of a daemon's registrations
    failed,      \* history: instants of a prefix's failed claims
    dropped      \* history: prefixes whose entry was dropped for room

coordVars == <<instant, pending, rateLimits, claimFails, sentTo, calls,
               registered, failed, dropped>>

Never == MaxNow + Ttl + 1
Unset == [count |-> 0, since |-> 0]

Full == Cardinality({t \in Token : pending[t] # Nobody}) > MaxPending

Running(w, width) == w # Unset /\ instant - w.since < width

\* Mutant: every count starts the window anew.
Slides(w, width) ==
    IF Running(w, width) THEN [count |-> w.count + 1, since |-> instant]
    ELSE [count |-> 1, since |-> instant]

\* One more in the window under way, or the first of the next.
Counted(w, width) ==
    IF Running(w, width) THEN [w EXCEPT !.count = @ + 1]
    ELSE [count |-> 1, since |-> instant]

RateLimited(d) ==
    Running(rateLimits[d], RateWindow) /\ rateLimits[d].count >= RateLimit
BackedOff(p) ==
    Running(claimFails[p], FailWindow) /\ claimFails[p].count >= FailMax

Call == calls < MaxCalls /\ calls' = calls + 1

----------------------------------------------------------------------------

\* register: a code again is a new entry.
RegisterToken(t) ==
    LET d == DrawnBy[t] IN
    /\ Call
    /\ ~Full /\ ~RateLimited(d)
    /\ rateLimits' = [rateLimits EXCEPT ![d] = Counted(@, RateWindow)]
    /\ pending' = [pending EXCEPT ![t] =
                     [daemon |-> d,
                      expires |-> IF t \in Kept THEN Never ELSE instant + Ttl]]
    /\ registered' = [registered EXCEPT ![d] = Append(@, instant)]
    /\ UNCHANGED <<instant, claimFails, sentTo, failed, dropped>>

\* coordinator_full, rate_limited: the durable object does not look at the
\* answer (handleDaemonMessage), and nothing changes.
RegisterRefused(t) ==
    /\ Full \/ RateLimited(DrawnBy[t])
    /\ UNCHANGED coordVars

\* Entries that are over, one instant past their time.
Expired(t) == pending[t] # Nobody /\ instant > pending[t].expires

\* recordClaimFail: past the cap the oldest entry goes; which of several of
\* one age is left open.
RecordClaimFail(p) ==
    LET fails == [claimFails EXCEPT ![p] = Counted(@, FailWindow)]
        held  == {q \in Prefix : fails[q] # Unset}
        oldest == {q \in held : \A r \in held : fails[q].since <= fails[r].since}
    IN
    /\ failed' = [failed EXCEPT ![p] = Append(@, instant)]
    /\ \/ /\ Cardinality(held) <= MaxBuckets
          /\ claimFails' = fails /\ UNCHANGED dropped
       \/ /\ Cardinality(held) > MaxBuckets
          /\ \E q \in oldest : /\ claimFails' = [fails EXCEPT ![q] = Unset]
                               /\ dropped' = dropped \cup {q}

\* claim: a prefix that is backed off is refused before the code is looked up,
\* and not counted.
ClaimBlocked(t) ==
    /\ Call
    /\ BackedOff(PrefixOf[t])
    /\ sentTo' = Nobody
    /\ UNCHANGED <<instant, pending, rateLimits, claimFails, registered,
                   failed, dropped>>

ClaimFails(t) ==
    /\ Call
    /\ ~BackedOff(PrefixOf[t])
    /\ pending[t] = Nobody \/ Expired(t)
    /\ pending' = [pending EXCEPT ![t] = Nobody]
    /\ sentTo' = Nobody
    /\ RecordClaimFail(PrefixOf[t])
    /\ UNCHANGED <<instant, rateLimits, registered>>

\* Mutant: the entry of a one-time code is left for the sweep.
LeftPending(t) == pending

\* A one-time code is consumed; a persistent one serves the next device too.
Consumed(t) == IF t \in Kept THEN pending ELSE [pending EXCEPT ![t] = Nobody]

ClaimSucceeds(t) ==
    /\ Call
    /\ ~BackedOff(PrefixOf[t])
    /\ pending[t] # Nobody /\ ~Expired(t)
    /\ sentTo' = pending[t].daemon
    /\ pending' = Consumed(t)
    /\ UNCHANGED <<instant, rateLimits, claimFails, registered, failed, dropped>>

\* /v1/pairing/revoke
Revoked(t) == [pending EXCEPT ![t] = Nobody]

\* cmdRotate revokes the code of a relay it moves away from.
RevokeToken(t) ==
    /\ t \in Kept
    /\ pending' = Revoked(t)
    /\ UNCHANGED <<instant, rateLimits, claimFails, sentTo, calls, registered,
                   failed, dropped>>

\* alarm: entries and windows that are over are swept.
Alarm ==
    /\ pending' = [t \in Token |->
                     IF t \notin Kept /\ Expired(t) THEN Nobody ELSE pending[t]]
    /\ rateLimits' = [d \in Daemon |->
                        IF instant - rateLimits[d].since > RateWindow
                        THEN Unset ELSE rateLimits[d]]
    /\ claimFails' = [p \in Prefix |->
                        IF instant - claimFails[p].since > FailWindow
                        THEN Unset ELSE claimFails[p]]
    /\ UNCHANGED <<instant, sentTo, calls, registered, failed, dropped>>

TimePasses ==
    /\ instant < MaxNow
    /\ instant' = instant + 1 /\ calls' = 0
    /\ UNCHANGED <<pending, rateLimits, claimFails, sentTo, registered, failed,
                   dropped>>

CoordInit ==
    /\ instant = 0 /\ calls = 0 /\ sentTo = Nobody /\ dropped = {}
    /\ pending = [t \in Token |-> Nobody]
    /\ rateLimits = [d \in Daemon |-> Unset]
    /\ claimFails = [p \in Prefix |-> Unset]
    /\ registered = [d \in Daemon |-> <<>>]
    /\ failed = [p \in Prefix |-> <<>>]

CoordNext ==
    \/ \E t \in Token : \/ RegisterToken(t) \/ RegisterRefused(t)
                        \/ ClaimBlocked(t) \/ ClaimFails(t) \/ ClaimSucceeds(t)
                        \/ RevokeToken(t)
    \/ Alarm
    \/ TimePasses

CoordSpec == CoordInit /\ [][CoordNext]_coordVars

----------------------------------------------------------------------------
(* Properties.                                                             *)

\* Every variable keeps its type.
Window(max) == [count : Nat, since : 0 .. max]
CoordTypeOK ==
    /\ instant \in 0 .. MaxNow /\ calls \in 0 .. MaxCalls
    /\ sentTo \in Daemon \cup {Nobody} /\ dropped \subseteq Prefix
    /\ pending \in [Token -> Entry \cup {Nobody}]
    /\ \A t \in Kept : pending[t] # Nobody => pending[t].expires = Never
    /\ rateLimits \in [Daemon -> Window(MaxNow)]
    /\ claimFails \in [Prefix -> Window(MaxNow)]
    /\ registered \in [Daemon -> Seq(Nat)] /\ failed \in [Prefix -> Seq(Nat)]

\* The coordinator keeps the promise of PairingCodes: what a claim is answered
\* follows from who registered the code last, whether it was used and whether
\* its time is over, whatever expiry, sweep, limits and revocations do.
LeadsTo(t) == IF pending[t] = Nobody \/ Expired(t) THEN Nobody
              ELSE pending[t].daemon
Codes == INSTANCE PairingCodes WITH Code <- Token,
                                    leads <- [t \in Token |-> LeadsTo(t)],
                                    answer <- sentTo
KeepsCodes == Codes!Spec

\* The last n of the instants s lie within one window that is not over.
Recent(s, n, width) == Len(s) >= n /\ instant - s[Len(s) - n + 1] < width

\* No span of one window's length holds more than twice the limit less one.
Spread(s, limit, width) ==
    \A i \in 1 .. Len(s) :
        i + 2 * limit - 1 <= Len(s) => s[i + 2 * limit - 1] - s[i] >= width

\* The limits are neither loose nor sticky: nobody is turned away who has not
\* used up the limit within the last window, and in no span of a window's length
\* gets anybody twice the limit, however windows end, counts are swept and
\* entries are dropped for room (a prefix whose entry was dropped starts anew).
LimitsHold ==
    /\ \A d \in Daemon :
         /\ RateLimited(d) => Recent(registered[d], RateLimit, RateWindow)
         /\ Spread(registered[d], RateLimit, RateWindow)
    /\ \A p \in Prefix :
         /\ BackedOff(p) => Recent(failed[p], FailMax, FailWindow)
         /\ p \notin dropped => Spread(failed[p], FailMax, FailWindow)
=============================================================================
