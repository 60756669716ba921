---------------------------- MODULE PairingCodes ----------------------------
(***************************************************************************)
(* What the coordinator promises of pairing codes, and all that RelayHub   *)
(* assumes of it: a code that is live leads to the daemon that registered  *)
(* it, a one-time code once; any other code leads nowhere.  Which daemons  *)
(* and phones it turns away is left open.                                  *)
(***************************************************************************)
CONSTANTS
    Code,     \* pairing codes
    Kept,     \* the persistent ones
    Daemon,
    Nobody

VARIABLES
    leads,    \* the daemon a code leads to, or Nobody
    answer    \* the daemon the last phone was sent to, or Nobody

Init == leads = [c \in Code |-> Nobody] /\ answer = Nobody

Register(c, d) == leads' = [leads EXCEPT ![c] = d] /\ UNCHANGED answer

Claim(c) ==
    /\ leads[c] # Nobody
    /\ answer' = leads[c]
    /\ leads' = IF c \in Kept THEN leads ELSE [leads EXCEPT ![c] = Nobody]

Refuse == answer' = Nobody /\ UNCHANGED leads

\* Persistent codes do not lapse.
Lapse ==
    /\ leads' \in [Code -> Daemon \cup {Nobody}]
    /\ \A c \in Code : \/ leads'[c] = leads[c]
                       \/ c \notin Kept /\ leads'[c] = Nobody
    /\ UNCHANGED answer

Revoke(c) == leads' = [leads EXCEPT ![c] = Nobody] /\ UNCHANGED answer

Next ==
    \/ Lapse \/ Refuse
    \/ \E c \in Code : \/ Claim(c) \/ Revoke(c)
                       \/ \E d \in Daemon : Register(c, d)

Spec == Init /\ [][Next]_<<leads, answer>>
=============================================================================
