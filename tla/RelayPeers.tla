----------------------------- MODULE RelayPeers -----------------------------
(***************************************************************************)
(* Which phones the daemon is paired with: RelayClient's in-memory config  *)
(* and hot list of peers (src/src/relay-client.ts), config.json on disk    *)
(* (src/src/config.ts), and the `pair` command line that edits the same    *)
(* file from another process (src/src/cli/pair.ts).                        *)
(*                                                                         *)
(* A handler that writes the file is a job: it changes memory, starts      *)
(* saveConfig, and continues when the rename has landed or failed.  Jobs   *)
(* overlap, because nothing in RelayClient waits for an earlier save.      *)
(*                                                                         *)
(* Of a peer's record the model keeps the phone and whether it was ever    *)
(* seen (last_seen_at is not null): a new peer was never seen, so no       *)
(* order between two seen peers decides an eviction.  Which never-seen     *)
(* peers are older than 30 days, or the oldest, is left open.              *)
(***************************************************************************)
EXTENDS Naturals, FiniteSets

CONSTANTS
    Phone,        \* phones, one X25519 key each
    Cap,          \* pairedPeersCap()
    Job,          \* slots for handlers under way (bounds their overlap)
    Approval,     \* MIKI_PAIR_REQUIRE_APPROVAL=1
    CliRuns,      \* the pair command line is used too
    MaxFails,     \* bound on failing saves
    MaxRestarts,  \* bound on daemon restarts
    NoJob, NoPhone

ASSUME CapAssumption == Cap \in Nat \ {0}
ASSUME BoundAssumption == MaxFails \in Nat /\ MaxRestarts \in Nat
ASSUME FlagAssumption == Approval \in BOOLEAN /\ CliRuns \in BOOLEAN
ASSUME NoPhoneAssumption == NoPhone \notin Phone

VARIABLES
    config,   \* RelayClient.deps.config.paired_peers
    peers,    \* RelayClient.peers: entries of each phone, 2 for several
    disk,     \* paired_peers of config.json
    job,      \* the handlers under way
    answer,   \* what each phone was told last
    evicted,  \* history: phones the daemon's addPairedPeer left out since
    cli,      \* the pair command: the config it loaded, and its edit
    fails, restarts

vars == <<config, peers, disk, job, answer, evicted, cli, fails, restarts>>

Config == {c \in [seen : SUBSET Phone, fresh : SUBSET Phone] :
             c.seen \cap c.fresh = {}}
Paired(c) == c.seen \cup c.fresh
Empty == [seen |-> {}, fresh |-> {}]

JobStates == {"asking", "writing", "landed", "failed"}
JobRec == [kind : {"pair", "revoke", "touch"}, phone : Phone,
           config : Config, prev : Config, st : JobStates]
ASSUME NoJobAssumption == NoJob \notin JobRec

\* What a phone knows: nothing, it offered, the daemon's answer, it left, the
\* daemon mirrored that, the pair command paired it, or unpaired it.
Answers == {"none", "waiting", "ack", "nack", "left", "gone",
            "cliAck", "cliGone"}
CliRec == [st : {"idle", "loaded", "saving"}, config : Config,
           phone : Phone \cup {NoPhone}]

----------------------------------------------------------------------------
(* config.ts.                                                              *)

\* touchPeerLastSeen.
Touched(c, p) == [seen |-> c.seen \cup {p}, fresh |-> c.fresh \ {p}]

\* Mutant: the filter misses the row of a phone that was seen.
KeptIfSeen(c, p) == [c EXCEPT !.fresh = @ \ {p}]

\* removePairedPeer, and the filter of handlePhoneRevoked.
Without(c, p) == [seen |-> c.seen \ {p}, fresh |-> c.fresh \ {p}]

\* The peers left when the never-seen ones in `stale` are pruned and p added.
Pruned(c, p, stale) == [seen  |-> c.seen \ {p},
                        fresh |-> (c.fresh \ stale) \cup {p}]

\* Mutant: a peer that was seen can be evicted for the new one.
AnyOlder(c, p) == Paired(c) \ {p}

\* Who slice(0, cap) drops: the peer that sorts last.  Never-seen peers sort
\* after all others and, among them, the newest first: the new peer itself
\* is last when every other peer was seen.
Victims(c, p) == IF c.fresh = {p} THEN {p} ELSE c.fresh \ {p}

\* The cap: a config that held at most Cap peers has at most one too many.
Capped(c, p) == IF Cardinality(Paired(c)) <= Cap THEN {c}
                ELSE {Without(c, v) : v \in Victims(c, p)}

\* addPairedPeer: the configs it may return.
AddPairedPeer(c, p) ==
    UNION {Capped(Pruned(c, p, stale), p) : stale \in SUBSET (c.fresh \ {p})}

----------------------------------------------------------------------------
(* RelayClient.                                                            *)

Fresh(j) == job[j] = NoJob
Quiet == \A j \in Job : Fresh(j)

Save(j, kind, p, c, prev) ==
    job' = [job EXCEPT ![j] = [kind |-> kind, phone |-> p, config |-> c,
                               prev |-> prev, st |-> "writing"]]

\* addPairedPeer into memory, then saveConfig.
Persist(j, p) ==
    \E c \in AddPairedPeer(config, p) :
        /\ config' = c
        /\ evicted' = ((evicted \cup Paired(config) \cup {p}) \ Paired(c))
        /\ Save(j, "pair", p, c, config)

\* handlePairOffer.  The phone asks, or asks again.
Offer(j, p) ==
    /\ Fresh(j)
    /\ IF p \in Paired(config)
       THEN /\ answer' = [answer EXCEPT ![p] = "ack"]
            /\ UNCHANGED <<config, job, evicted>>
       ELSE /\ answer' = [answer EXCEPT ![p] = "waiting"]
            /\ IF Approval
               THEN /\ job' = [job EXCEPT ![j] =
                                 [kind |-> "pair", phone |-> p,
                                  config |-> config, prev |-> config,
                                  st |-> "asking"]]
                    /\ UNCHANGED <<config, evicted>>
               ELSE Persist(j, p)
    /\ UNCHANGED <<peers, disk, cli, fails, restarts>>

\* The phone hears the answer if it is still waiting for one.
Told(p, a) == IF answer[p] = "waiting" THEN [answer EXCEPT ![p] = a]
              ELSE answer

\* promptForPairApproval resolves: yes, or no and the 60 s timeout.
Approve(j) ==
    /\ job[j] # NoJob /\ job[j].st = "asking"
    /\ Persist(j, job[j].phone)
    /\ UNCHANGED <<peers, disk, answer, cli, fails, restarts>>

Deny(j) ==
    /\ job[j] # NoJob /\ job[j].st = "asking"
    /\ answer' = Told(job[j].phone, "nack")
    /\ job' = [job EXCEPT ![j] = NoJob]
    /\ UNCHANGED <<config, peers, disk, evicted, cli, fails, restarts>>

\* The filter of handlePhoneRevoked on the hot list.
NotHot(p) == [peers EXCEPT ![p] = 0]

\* A paired phone leaves and handlePhoneRevoked mirrors it; a phone the
\* config does not hold changes nothing here.
Revoke(j, p) ==
    /\ Fresh(j)
    /\ answer[p] \in {"ack", "cliAck"}
    /\ answer' = [answer EXCEPT ![p] = "left"]
    /\ IF p \in Paired(config)
       THEN /\ config' = Without(config, p)
            /\ peers' = NotHot(p)
            /\ Save(j, "revoke", p, config', config)
       ELSE UNCHANGED <<config, peers, job>>
    /\ UNCHANGED <<disk, evicted, cli, fails, restarts>>

\* handleEnvelope accepts an envelope of p, and touchPeerSeen is not
\* throttled: the stamp goes to memory and to disk.
Touch(j, p) ==
    /\ Fresh(j)
    /\ answer[p] \notin {"left", "gone", "cliGone"}
    /\ peers[p] > 0 /\ p \in Paired(config)
    /\ config' = Touched(config, p)
    /\ Save(j, "touch", p, config', config)
    /\ UNCHANGED <<peers, disk, answer, evicted, cli, fails, restarts>>

\* saveConfig's rename takes effect, or mkdir, writeFile or rename fails.
Land(j) ==
    /\ job[j] # NoJob /\ job[j].st = "writing"
    /\ disk' = job[j].config
    /\ job' = [job EXCEPT ![j].st = "landed"]
    /\ UNCHANGED <<config, peers, answer, evicted, cli, fails, restarts>>

Fail(j) ==
    /\ job[j] # NoJob /\ job[j].st = "writing"
    /\ fails < MaxFails
    /\ fails' = fails + 1
    /\ job' = [job EXCEPT ![j].st = "failed"]
    /\ UNCHANGED <<config, peers, disk, answer, evicted, cli, restarts>>

\* Mutants: the rollback is forgotten; the peer is not hot-added.
NotRolledBack(j) == config
NotHotAdded(p) == peers
RolledBack(j) == job[j].prev
HotAdded(p) == [peers EXCEPT ![p] = IF @ < 2 THEN @ + 1 ELSE @]

\* The handler continues: a new peer is hot-added and acknowledged, or rolled
\* back and refused; a revocation or a stamp has nothing left to do.
Finish(j) ==
    /\ job[j] # NoJob /\ job[j].st \in {"landed", "failed"}
    /\ job' = [job EXCEPT ![j] = NoJob]
    /\ \/ /\ job[j].kind = "pair" /\ job[j].st = "landed"
          /\ peers' = HotAdded(job[j].phone)
          /\ answer' = Told(job[j].phone, "ack")
          /\ UNCHANGED <<config, evicted>>
       \/ /\ job[j].kind = "pair" /\ job[j].st = "failed"
          /\ config' = RolledBack(j)
          /\ evicted' = evicted \ Paired(config')
          /\ answer' = Told(job[j].phone, "nack")
          /\ UNCHANGED peers
       \/ /\ job[j].kind = "revoke" /\ job[j].st = "landed"
          /\ answer' = IF answer[job[j].phone] = "left"
                       THEN [answer EXCEPT ![job[j].phone] = "gone"]
                       ELSE answer
          /\ UNCHANGED <<config, peers, evicted>>
       \/ /\ job[j].kind # "pair"
          /\ job[j].kind = "revoke" => job[j].st = "failed"
          /\ UNCHANGED <<config, peers, answer, evicted>>
    /\ UNCHANGED <<disk, cli, fails, restarts>>

\* The daemon dies and starts again: main loads the file, the RelayClient
\* constructor takes its peers from it.
Restart ==
    /\ restarts < MaxRestarts
    /\ restarts' = restarts + 1
    /\ config' = disk
    /\ peers' = [p \in Phone |-> IF p \in Paired(disk) THEN 1 ELSE 0]
    /\ job' = [j \in Job |-> NoJob]
    /\ UNCHANGED <<disk, answer, evicted, cli, fails>>

----------------------------------------------------------------------------
(* The pair command: load, edit, save, in a process of its own.            *)

CliLoad ==
    /\ CliRuns
    /\ cli.st = "idle"
    /\ cli' = [st |-> "loaded", config |-> disk, phone |-> NoPhone]
    /\ UNCHANGED <<config, peers, disk, job, answer, evicted, fails,
                   restarts>>

\* --revoke p, and --rotate or the first --show, which edit the token only.
CliEdit ==
    /\ cli.st = "loaded"
    /\ \/ \E p \in Paired(cli.config) :
            cli' = [st |-> "saving", config |-> Without(cli.config, p),
                    phone |-> p]
       \/ cli' = [cli EXCEPT !.st = "saving"]
    /\ UNCHANGED <<config, peers, disk, job, answer, evicted, fails,
                   restarts>>

\* --new: the offer of p reaches this process too.  It acknowledges, then
\* saves the config it loaded at its start with p added.
CliPair(p) ==
    /\ cli.st = "loaded"
    /\ answer' = [answer EXCEPT ![p] = "cliAck"]
    /\ \E c \in AddPairedPeer(cli.config, p) :
         cli' = [st |-> "saving", config |-> c, phone |-> NoPhone]
    /\ UNCHANGED <<config, peers, disk, job, evicted, fails, restarts>>

\* The save lands; cmdRevoke then tells the relay, which drops the phone.
CliSave ==
    /\ cli.st = "saving"
    /\ disk' = cli.config
    /\ answer' = IF cli.phone = NoPhone THEN answer
                 ELSE [answer EXCEPT ![cli.phone] = "cliGone"]
    /\ cli' = [st |-> "idle", config |-> Empty, phone |-> NoPhone]
    /\ UNCHANGED <<config, peers, job, evicted, fails, restarts>>

----------------------------------------------------------------------------
Init ==
    /\ config = Empty
    /\ disk = Empty
    /\ peers = [p \in Phone |-> 0]
    /\ job = [j \in Job |-> NoJob]
    /\ answer = [p \in Phone |-> "none"]
    /\ evicted = {}
    /\ cli = [st |-> "idle", config |-> Empty, phone |-> NoPhone]
    /\ fails = 0
    /\ restarts = 0

Next ==
    \/ \E j \in Job, p \in Phone : Offer(j, p) \/ Revoke(j, p) \/ Touch(j, p)
    \/ \E j \in Job : Approve(j) \/ Deny(j) \/ Land(j) \/ Fail(j) \/ Finish(j)
    \/ \E p \in Phone : CliPair(p)
    \/ Restart \/ CliLoad \/ CliEdit \/ CliSave

Spec == Init /\ [][Next]_vars

----------------------------------------------------------------------------
(* Properties.                                                             *)

TypeOK ==
    /\ config \in Config /\ disk \in Config
    /\ peers \in [Phone -> 0..2]
    /\ job \in [Job -> JobRec \cup {NoJob}]
    /\ answer \in [Phone -> Answers]
    /\ evicted \subseteq Phone
    /\ cli \in CliRec
    /\ fails \in 0..MaxFails /\ restarts \in 0..MaxRestarts

\* The file and the memory never hold more peers than the cap, whatever
\* handlers, rollbacks and commands wrote them.
WithinCap == \A c \in {config, disk} : Cardinality(Paired(c)) <= Cap

\* A phone that was told it is paired is in the file, so the next daemon
\* knows it, unless addPairedPeer itself chose to leave it out.
AckedSurvives ==
    \A p \in Phone : answer[p] = "ack" => p \in Paired(disk) \cup evicted

\* A phone that was told it is paired can be decrypted by the daemon.
AckedIsHot ==
    \A p \in Phone : answer[p] = "ack" => peers[p] > 0 \/ p \in evicted

\* A revocation the daemon has mirrored is final: neither the file nor the
\* memory nor the hot list takes the phone back by itself.
GoneStaysGone ==
    \A p \in Phone : answer[p] = "gone" =>
        p \notin Paired(disk) \cup Paired(config) /\ peers[p] = 0

\* Memory forgets a phone only when the phone left, was refused, or was left
\* out by addPairedPeer; and that never happens to a phone that was seen,
\* whose slot a new peer cannot take.
ForgetsOnlyTheRefused ==
    [][\A p \in Paired(config) \ Paired(config') :
         \/ restarts' # restarts
         \/ answer'[p] \in {"left", "nack"}
         \/ p \in evicted' /\ p \in config.fresh]_vars

\* Memory alone: as long as no save fails and the daemon lives, memory holds
\* every acknowledged phone and no phone that left, however saves overlap.
MemoryIsRight ==
    \A p \in Phone :
        /\ answer[p] = "ack" => p \in Paired(config) \cup evicted
        /\ answer[p] \in {"left", "gone"} => p \notin Paired(config)

----------------------------------------------------------------------------
(* What comments and documents promise and the code does not keep.         *)

\* relay-client.ts:246-250: "PERSIST FIRST, then ACK. The previous order
\* swallowed save errors and ACKed anyway - leaving in-memory peers + a happy
\* phone, but next daemon restart had no record of this peer".  A phone that
\* hears the acknowledgement it waits for is in the file at that moment.
AckMeansStored ==
    [][\A p \in Phone : answer[p] = "waiting" /\ answer'[p] = "ack" =>
         p \in Paired(disk')]_vars

\* relay-client.ts:248-249: "paired_peers IS the source of truth; there's no
\* rebuild path".  Once every save has ended, the file holds the phones that
\* were acknowledged and not left out.
StoredForGood == Quiet => AckedSurvives
=============================================================================
