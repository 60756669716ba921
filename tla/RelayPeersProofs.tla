-------------------------- MODULE RelayPeersProofs --------------------------
(***************************************************************************)
(* Proofs about RelayPeers, for every set of phones, every cap and every   *)
(* number of overlapping handlers.                                         *)
(***************************************************************************)
EXTENDS RelayPeers, FiniteSetTheorems, TLAPS

----------------------------------------------------------------------------
(* What the helpers of config.ts return.                                   *)

LEMMA TouchedConfig ==
    ASSUME NEW c \in Config, NEW p \in Phone
    PROVE  /\ Touched(c, p) \in Config
           /\ Paired(Touched(c, p)) = Paired(c) \cup {p}
  BY DEF Touched, Config, Paired

LEMMA WithoutConfig ==
    ASSUME NEW c \in Config, NEW p
    PROVE  /\ Without(c, p) \in Config
           /\ Paired(Without(c, p)) = Paired(c) \ {p}
  BY DEF Without, Config, Paired

LEMMA PrunedConfig ==
    ASSUME NEW c \in Config, NEW p \in Phone, NEW stale \in SUBSET c.fresh
    PROVE  /\ Pruned(c, p, stale) \in Config
           /\ Paired(Pruned(c, p, stale)) \subseteq Paired(c) \cup {p}
           /\ p \in Pruned(c, p, stale).fresh
  BY DEF Pruned, Config, Paired

\* addPairedPeer returns a config that holds nobody but the peers of the old
\* one and the new peer.
LEMMA AddedConfig ==
    ASSUME NEW c \in Config, NEW p \in Phone, NEW d \in AddPairedPeer(c, p)
    PROVE  /\ d \in Config
           /\ Paired(d) \subseteq Paired(c) \cup {p}
  <1>1. PICK stale \in SUBSET (c.fresh \ {p}) :
          d \in Capped(Pruned(c, p, stale), p)
    BY DEF AddPairedPeer
  <1> DEFINE b == Pruned(c, p, stale)
  <1>2. b \in Config /\ Paired(b) \subseteq Paired(c) \cup {p}
    BY PrunedConfig
  <1>3. d = b \/ \E v : d = Without(b, v)
    BY <1>1 DEF Capped
  <1>4. QED
    BY <1>2, <1>3, WithoutConfig

\* A config that respects the cap.
Fits(c) == IsFiniteSet(Paired(c)) /\ Cardinality(Paired(c)) <= Cap

LEMMA SubsetFits ==
    ASSUME NEW c, NEW d, Fits(c), Paired(d) \subseteq Paired(c)
    PROVE  Fits(d)
  <1>1. /\ IsFiniteSet(Paired(d))
        /\ Cardinality(Paired(d)) <= Cardinality(Paired(c))
    BY FS_Subset DEF Fits
  <1>2. Cardinality(Paired(d)) \in Nat /\ Cardinality(Paired(c)) \in Nat
    BY <1>1, FS_CardinalityType DEF Fits
  <1>3. QED
    BY <1>1, <1>2, CapAssumption DEF Fits

\* The peer dropped is one of the config's, so a config one over the cap
\* comes back to it.
LEMMA AddedFits ==
    ASSUME NEW c \in Config, NEW p \in Phone, Fits(c),
           NEW d \in AddPairedPeer(c, p)
    PROVE  Fits(d)
  <1>1. PICK stale \in SUBSET (c.fresh \ {p}) :
          d \in Capped(Pruned(c, p, stale), p)
    BY DEF AddPairedPeer
  <1> DEFINE b == Pruned(c, p, stale)
  <1>2. /\ b \in Config
        /\ Paired(b) \subseteq Paired(c) \cup {p}
        /\ p \in b.fresh
    BY PrunedConfig
  <1>3. /\ IsFiniteSet(Paired(c) \cup {p})
        /\ Cardinality(Paired(c) \cup {p}) \in Nat
        /\ Cardinality(Paired(c) \cup {p}) <= Cap + 1
    <2>1. Cardinality(Paired(c)) \in Nat
      BY FS_CardinalityType DEF Fits
    <2>2. /\ IsFiniteSet(Paired(c) \cup {p})
          /\ Cardinality(Paired(c) \cup {p}) =
               IF p \in Paired(c) THEN Cardinality(Paired(c))
                                  ELSE Cardinality(Paired(c)) + 1
      BY FS_AddElement DEF Fits
    <2>3. QED
      BY <2>1, <2>2, CapAssumption DEF Fits
  <1>4. /\ IsFiniteSet(Paired(b))
        /\ Cardinality(Paired(b)) \in Nat
        /\ Cardinality(Paired(b)) <= Cap + 1
    <2>1. /\ IsFiniteSet(Paired(b))
          /\ Cardinality(Paired(b)) <= Cardinality(Paired(c) \cup {p})
      BY <1>2, <1>3, FS_Subset
    <2>2. Cardinality(Paired(b)) \in Nat
      BY <2>1, FS_CardinalityType
    <2>3. QED
      BY <1>3, <2>1, <2>2, CapAssumption
  <1>5. CASE Cardinality(Paired(b)) <= Cap
    BY <1>1, <1>4, <1>5 DEF Capped, Fits
  <1>6. CASE ~(Cardinality(Paired(b)) <= Cap)
    <2>1. PICK v \in Victims(b, p) : d = Without(b, v)
      BY <1>1, <1>6 DEF Capped
    <2>2. v \in Paired(b)
      BY <1>2, <2>1 DEF Victims, Paired, Config
    <2>3. Paired(d) = Paired(b) \ {v}
      BY <1>2, <2>1, WithoutConfig
    <2>4. /\ IsFiniteSet(Paired(d))
          /\ Cardinality(Paired(d)) = Cardinality(Paired(b)) - 1
      BY <1>4, <2>2, <2>3, FS_RemoveElement
    <2>5. QED
      BY <1>4, <2>4, CapAssumption DEF Fits
  <1>7. QED
    BY <1>5, <1>6

----------------------------------------------------------------------------
(* Type correctness.                                                       *)

LEMMA SaveType ==
    ASSUME job \in [Job -> JobRec \cup {NoJob}], NEW j \in Job,
           NEW kind \in {"pair", "revoke", "touch"}, NEW p \in Phone,
           NEW c \in Config, NEW d \in Config, Save(j, kind, p, c, d)
    PROVE  /\ job' \in [Job -> JobRec \cup {NoJob}]
           /\ job'[j] = [kind |-> kind, phone |-> p, config |-> c,
                         prev |-> d, st |-> "writing"]
           /\ job'[j] # NoJob
  <1>1. [kind |-> kind, phone |-> p, config |-> c, prev |-> d,
         st |-> "writing"] \in JobRec
    BY DEF JobRec, JobStates
  <1>2. QED
    BY <1>1, NoJobAssumption DEF Save

LEMMA PersistType ==
    ASSUME TypeOK, NEW j \in Job, NEW p \in Phone, Persist(j, p)
    PROVE  /\ config' \in Config
           /\ evicted' \subseteq Phone
           /\ job' \in [Job -> JobRec \cup {NoJob}]
  <1>1. PICK c \in AddPairedPeer(config, p) :
          /\ config' = c
          /\ evicted' = ((evicted \cup Paired(config) \cup {p}) \ Paired(c))
          /\ Save(j, "pair", p, c, config)
    BY DEF Persist
  <1>2. c \in Config
    BY <1>1, AddedConfig DEF TypeOK
  <1>3. job' \in [Job -> JobRec \cup {NoJob}]
    BY <1>1, <1>2, SaveType DEF TypeOK
  <1>4. evicted' \subseteq Phone
    BY <1>1 DEF TypeOK, Config, Paired
  <1>5. QED
    BY <1>1, <1>2, <1>3, <1>4

LEMMA ToldType ==
    ASSUME answer \in [Phone -> Answers], NEW p \in Phone,
           NEW a \in Answers
    PROVE  Told(p, a) \in [Phone -> Answers]
  BY DEF Told

LEMMA JobType ==
    ASSUME TypeOK, NEW j \in Job, job[j] # NoJob
    PROVE  /\ job[j] \in JobRec
           /\ job[j].phone \in Phone
           /\ job[j].config \in Config /\ job[j].prev \in Config
  BY DEF TypeOK, JobRec

\* A job moves to a later state of its save.
LEMMA JobStateType ==
    ASSUME TypeOK, NEW j \in Job, job[j] # NoJob, NEW st \in JobStates,
           job' = [job EXCEPT ![j].st = st]
    PROVE  /\ job' \in [Job -> JobRec \cup {NoJob}]
           /\ job'[j] = [job[j] EXCEPT !.st = st]
           /\ job'[j] # NoJob
  <1>1. job[j] \in JobRec
    BY JobType
  <1>2. [job[j] EXCEPT !.st = st] \in JobRec
    BY <1>1 DEF JobRec
  <1>3. job' = [job EXCEPT ![j] = [job[j] EXCEPT !.st = st]]
    BY DEF TypeOK
  <1>4. QED
    BY <1>2, <1>3, NoJobAssumption DEF TypeOK

LEMMA TypeStep == TypeOK /\ [Next]_vars => TypeOK'
  <1> SUFFICES ASSUME TypeOK, [Next]_vars PROVE TypeOK'
    OBVIOUS
  <1>1. ASSUME NEW j \in Job, NEW p \in Phone, Offer(j, p) PROVE TypeOK'
    <2>1. answer' \in [Phone -> Answers]
      BY <1>1 DEF Offer, TypeOK, Answers
    <2>2. CASE p \in Paired(config)
      BY <1>1, <2>1, <2>2 DEF Offer, TypeOK
    <2>3. CASE p \notin Paired(config) /\ Approval
      <3>1. [kind |-> "pair", phone |-> p, config |-> config,
             prev |-> config, st |-> "asking"] \in JobRec
        BY DEF JobRec, JobStates, TypeOK
      <3>2. job' \in [Job -> JobRec \cup {NoJob}]
        BY <1>1, <2>3, <3>1 DEF Offer, TypeOK
      <3>3. QED
        BY <1>1, <2>1, <2>3, <3>2 DEF Offer, TypeOK
    <2>4. CASE p \notin Paired(config) /\ ~Approval
      <3>1. Persist(j, p)
        BY <1>1, <2>4 DEF Offer
      <3>2. QED
        BY <1>1, <2>1, <3>1, PersistType DEF Offer, TypeOK
    <2>5. QED
      BY <2>2, <2>3, <2>4
  <1>2. ASSUME NEW j \in Job, NEW p \in Phone, Revoke(j, p) PROVE TypeOK'
    <2>1. answer' \in [Phone -> Answers]
      BY <1>2 DEF Revoke, TypeOK, Answers
    <2>2. CASE p \in Paired(config)
      <3>1. config' \in Config
        BY <1>2, <2>2, WithoutConfig DEF Revoke, TypeOK
      <3>2. Save(j, "revoke", p, config', config)
        BY <1>2, <2>2 DEF Revoke
      <3>3. job' \in [Job -> JobRec \cup {NoJob}]
        BY <3>1, <3>2, SaveType DEF TypeOK
      <3>4. peers' \in [Phone -> 0..2]
        BY <1>2, <2>2 DEF Revoke, NotHot, TypeOK
      <3>5. QED
        BY <1>2, <2>1, <3>1, <3>3, <3>4 DEF Revoke, TypeOK
    <2>3. CASE p \notin Paired(config)
      BY <1>2, <2>1, <2>3 DEF Revoke, TypeOK
    <2>4. QED
      BY <2>2, <2>3
  <1>3. ASSUME NEW j \in Job, NEW p \in Phone, Touch(j, p) PROVE TypeOK'
    <2>1. config' \in Config
      BY <1>3, TouchedConfig DEF Touch, TypeOK
    <2>2. Save(j, "touch", p, config', config)
      BY <1>3 DEF Touch
    <2>3. job' \in [Job -> JobRec \cup {NoJob}]
      BY <2>1, <2>2, SaveType DEF TypeOK
    <2>4. QED
      BY <1>3, <2>1, <2>3 DEF Touch, TypeOK
  <1>4. ASSUME NEW j \in Job, Approve(j) PROVE TypeOK'
    <2>1. job[j].phone \in Phone
      BY <1>4, JobType DEF Approve
    <2>2. QED
      BY <1>4, <2>1, PersistType DEF Approve, TypeOK
  <1>5. ASSUME NEW j \in Job, Deny(j) PROVE TypeOK'
    <2>1. job[j].phone \in Phone
      BY <1>5, JobType DEF Deny
    <2>2. answer' \in [Phone -> Answers]
      BY <1>5, <2>1, ToldType DEF Deny, TypeOK, Answers
    <2>3. QED
      BY <1>5, <2>2 DEF Deny, TypeOK
  <1>6. ASSUME NEW j \in Job, Land(j) PROVE TypeOK'
    <2>1. job' \in [Job -> JobRec \cup {NoJob}]
      BY <1>6, JobStateType DEF Land, JobStates
    <2>2. disk' \in Config
      BY <1>6, JobType DEF Land
    <2>3. QED
      BY <1>6, <2>1, <2>2 DEF Land, TypeOK
  <1>7. ASSUME NEW j \in Job, Fail(j) PROVE TypeOK'
    <2>1. job' \in [Job -> JobRec \cup {NoJob}]
      BY <1>7, JobStateType DEF Fail, JobStates
    <2>2. fails' \in 0..MaxFails
      BY <1>7, BoundAssumption DEF Fail, TypeOK
    <2>3. QED
      BY <1>7, <2>1, <2>2 DEF Fail, TypeOK
  <1>8. ASSUME NEW j \in Job, Finish(j) PROVE TypeOK'
    <2>1. job[j].phone \in Phone /\ job[j].prev \in Config
      BY <1>8, JobType DEF Finish
    <2>2. answer' \in [Phone -> Answers]
      BY <1>8, <2>1, ToldType DEF Finish, TypeOK, Answers
    <2>3. peers' \in [Phone -> 0..2]
      BY <1>8, <2>1 DEF Finish, HotAdded, TypeOK
    <2>4. config' \in Config /\ evicted' \subseteq Phone
      BY <1>8, <2>1 DEF Finish, RolledBack, TypeOK
    <2>5. job' \in [Job -> JobRec \cup {NoJob}]
      BY <1>8 DEF Finish, TypeOK
    <2>6. QED
      BY <1>8, <2>2, <2>3, <2>4, <2>5 DEF Finish, TypeOK
  <1>9. ASSUME NEW p \in Phone, CliPair(p) PROVE TypeOK'
    <2>1. PICK c \in AddPairedPeer(cli.config, p) :
            cli' = [st |-> "saving", config |-> c, phone |-> NoPhone]
      BY <1>9 DEF CliPair
    <2>2. cli.config \in Config
      BY DEF TypeOK, CliRec
    <2>3. c \in Config
      BY <2>1, <2>2, AddedConfig
    <2>4. cli' \in CliRec
      BY <2>1, <2>3 DEF CliRec
    <2>5. answer' \in [Phone -> Answers]
      BY <1>9 DEF CliPair, TypeOK, Answers
    <2>6. QED
      BY <1>9, <2>4, <2>5 DEF CliPair, TypeOK
  <1>10. ASSUME Restart PROVE TypeOK'
    <2>1. restarts' \in 0..MaxRestarts
      BY <1>10, BoundAssumption DEF Restart, TypeOK
    <2>2. job' \in [Job -> JobRec \cup {NoJob}] /\ peers' \in [Phone -> 0..2]
      BY <1>10 DEF Restart
    <2>3. QED
      BY <1>10, <2>1, <2>2 DEF Restart, TypeOK
  <1>11. ASSUME CliLoad PROVE TypeOK'
    <2>1. cli' \in CliRec
      BY <1>11 DEF CliLoad, CliRec, TypeOK
    <2>2. QED
      BY <1>11, <2>1 DEF CliLoad, TypeOK
  <1>12. ASSUME CliEdit PROVE TypeOK'
    <2>1. cli.config \in Config /\ cli \in CliRec
      BY DEF TypeOK, CliRec
    <2>2. CASE cli' = [cli EXCEPT !.st = "saving"]
      <3>1. cli' \in CliRec
        BY <2>1, <2>2 DEF CliRec
      <3>2. QED
        BY <1>12, <3>1 DEF CliEdit, TypeOK
    <2>3. ASSUME NEW p \in Paired(cli.config),
                 cli' = [st |-> "saving", config |-> Without(cli.config, p),
                         phone |-> p]
          PROVE  TypeOK'
      <3>1. Without(cli.config, p) \in Config /\ p \in Phone
        BY <2>1, WithoutConfig DEF Paired, Config
      <3>2. cli' \in CliRec
        BY <2>3, <3>1 DEF CliRec
      <3>3. QED
        BY <1>12, <3>2 DEF CliEdit, TypeOK
    <2>4. QED
      BY <1>12, <2>2, <2>3 DEF CliEdit
  <1>13. ASSUME CliSave PROVE TypeOK'
    <2>1. cli.config \in Config /\ cli.phone \in Phone \cup {NoPhone}
      BY DEF TypeOK, CliRec
    <2>2. cli' \in CliRec
      BY <1>13 DEF CliSave, CliRec, Empty, Config
    <2>3. answer' \in [Phone -> Answers]
      BY <1>13, <2>1 DEF CliSave, TypeOK, Answers
    <2>4. QED
      BY <1>13, <2>1, <2>2, <2>3 DEF CliSave, TypeOK
  <1>14. CASE UNCHANGED vars
    BY <1>14 DEF TypeOK, vars
  <1>15. QED
    BY <1>1, <1>2, <1>3, <1>4, <1>5, <1>6, <1>7, <1>8, <1>9, <1>10, <1>11,
       <1>12, <1>13, <1>14 DEF Next

\* Every variable keeps its type.
THEOREM TypeCorrect == Spec => []TypeOK
  <1>1. Init => TypeOK
    BY BoundAssumption
    DEF Init, TypeOK, Config, Empty, Answers, CliRec
  <1>2. QED
    BY <1>1, TypeStep, PTL DEF Spec

----------------------------------------------------------------------------
(* The cap, whatever handlers, rollbacks, restarts and commands do.        *)

\* Every config in play fits: a save under way will put its config on disk,
\* a failed one will put the previous config back into memory.
CapInv ==
    /\ Fits(config) /\ Fits(disk) /\ Fits(cli.config)
    /\ \A j \in Job :
          job[j] # NoJob => Fits(job[j].config) /\ Fits(job[j].prev)

LEMMA SaveFits ==
    ASSUME TypeOK, CapInv, NEW j \in Job,
           NEW kind \in {"pair", "revoke", "touch"}, NEW p \in Phone,
           NEW c \in Config, NEW d \in Config, Save(j, kind, p, c, d),
           Fits(c), Fits(d)
    PROVE  \A i \in Job : job'[i] # NoJob =>
             Fits(job'[i].config) /\ Fits(job'[i].prev)
  <1> TAKE i \in Job
  <1>1. CASE i = j
    <2>1. job'[j] = [kind |-> kind, phone |-> p, config |-> c, prev |-> d,
                     st |-> "writing"]
      BY SaveType DEF TypeOK
    <2>2. QED
      BY <1>1, <2>1
  <1>2. CASE i # j
    <2>1. job'[i] = job[i]
      BY <1>2 DEF Save, TypeOK
    <2>2. QED
      BY <2>1 DEF CapInv
  <1>3. QED
    BY <1>1, <1>2

LEMMA PersistFits ==
    ASSUME TypeOK, CapInv, NEW j \in Job, NEW p \in Phone, Persist(j, p)
    PROVE  /\ Fits(config')
           /\ \A i \in Job : job'[i] # NoJob =>
                Fits(job'[i].config) /\ Fits(job'[i].prev)
  <1>1. PICK c \in AddPairedPeer(config, p) :
          config' = c /\ Save(j, "pair", p, c, config)
    BY DEF Persist
  <1>2. c \in Config /\ Fits(c) /\ config \in Config /\ Fits(config)
    BY <1>1, AddedConfig, AddedFits DEF TypeOK, CapInv
  <1>3. QED
    BY <1>1, <1>2, SaveFits

LEMMA CapStep == TypeOK /\ CapInv /\ [Next]_vars => CapInv'
  <1> SUFFICES ASSUME TypeOK, CapInv, [Next]_vars PROVE CapInv'
    OBVIOUS
  <1> USE DEF CapInv
  <1>1. ASSUME NEW j \in Job, NEW p \in Phone, Offer(j, p) PROVE CapInv'
    <2>1. CASE p \in Paired(config)
      BY <1>1, <2>1 DEF Offer, Fits, Paired
    <2>2. CASE p \notin Paired(config) /\ Approval
      <3>1. \A i \in Job : job'[i] =
              IF i = j THEN [kind |-> "pair", phone |-> p, config |-> config,
                             prev |-> config, st |-> "asking"]
                       ELSE job[i]
        BY <1>1, <2>2 DEF Offer, TypeOK
      <3>2. \A i \in Job : job'[i] # NoJob =>
              Fits(job'[i].config) /\ Fits(job'[i].prev)
        BY <3>1
      <3>3. QED
        BY <1>1, <2>2, <3>2 DEF Offer, Fits, Paired
    <2>3. CASE p \notin Paired(config) /\ ~Approval
      <3>1. Persist(j, p)
        BY <1>1, <2>3 DEF Offer
      <3>2. QED
        BY <1>1, <3>1, PersistFits DEF Offer, Fits, Paired
    <2>4. QED
      BY <2>1, <2>2, <2>3
  <1>2. ASSUME NEW j \in Job, NEW p \in Phone, Revoke(j, p) PROVE CapInv'
    <2>1. CASE p \in Paired(config)
      <3>1. /\ config' = Without(config, p)
            /\ Save(j, "revoke", p, config', config)
        BY <1>2, <2>1 DEF Revoke
      <3>2. config' \in Config /\ Fits(config')
        BY <3>1, WithoutConfig, SubsetFits DEF TypeOK
      <3>3. \A i \in Job : job'[i] # NoJob =>
              Fits(job'[i].config) /\ Fits(job'[i].prev)
        BY <3>1, <3>2, SaveFits DEF TypeOK
      <3>4. QED
        BY <1>2, <3>2, <3>3 DEF Revoke, Fits, Paired
    <2>2. CASE p \notin Paired(config)
      BY <1>2, <2>2 DEF Revoke, Fits, Paired
    <2>3. QED
      BY <2>1, <2>2
  <1>3. ASSUME NEW j \in Job, NEW p \in Phone, Touch(j, p) PROVE CapInv'
    <2>1. config' = Touched(config, p) /\ Save(j, "touch", p, config', config)
      BY <1>3 DEF Touch
    <2>2. config' \in Config /\ Paired(config') = Paired(config)
      <3>1. config \in Config /\ p \in Paired(config)
        BY <1>3 DEF Touch, TypeOK
      <3>2. /\ Touched(config, p) \in Config
            /\ Paired(Touched(config, p)) = Paired(config)
        <4>1. /\ Touched(config, p) \in Config
              /\ Paired(Touched(config, p)) = Paired(config) \cup {p}
          BY <3>1, TouchedConfig
        <4>2. Paired(config) \cup {p} = Paired(config)
          BY <3>1
        <4>3. QED
          BY <4>1, <4>2
      <3>3. QED
        BY <2>1, <3>2
    <2>3. Fits(config')
      BY <2>2, SubsetFits
    <2>4. \A i \in Job : job'[i] # NoJob =>
            Fits(job'[i].config) /\ Fits(job'[i].prev)
      BY <2>1, <2>2, <2>3, SaveFits DEF TypeOK
    <2>5. QED
      BY <1>3, <2>3, <2>4 DEF Touch, Fits, Paired
  <1>4. ASSUME NEW j \in Job, Approve(j) PROVE CapInv'
    <2>1. job[j].phone \in Phone
      BY <1>4, JobType DEF Approve
    <2>2. QED
      BY <1>4, <2>1, PersistFits DEF Approve, Fits, Paired
  <1>5. ASSUME NEW j \in Job, Deny(j) PROVE CapInv'
    <2>1. \A i \in Job : job'[i] # NoJob => job'[i] = job[i]
      BY <1>5 DEF Deny, TypeOK
    <2>2. QED
      BY <1>5, <2>1 DEF Deny, Fits, Paired
  <1>6. ASSUME NEW j \in Job, NEW st \in JobStates, job[j] # NoJob,
               job' = [job EXCEPT ![j].st = st]
        PROVE  \A i \in Job : job'[i] # NoJob =>
                 Fits(job'[i].config) /\ Fits(job'[i].prev)
    <2>1. job'[j] = [job[j] EXCEPT !.st = st] /\ job[j] \in JobRec
      BY <1>6, JobStateType, JobType
    <2>2. job'[j].config = job[j].config /\ job'[j].prev = job[j].prev
      BY <2>1 DEF JobRec
    <2>3. \A i \in Job \ {j} : job'[i] = job[i]
      BY <1>6 DEF TypeOK
    <2>4. QED
      BY <1>6, <2>2, <2>3
  <1>7. ASSUME NEW j \in Job, Land(j) PROVE CapInv'
    <2>1. \A i \in Job : job'[i] # NoJob =>
            Fits(job'[i].config) /\ Fits(job'[i].prev)
      BY <1>6, <1>7 DEF Land, JobStates
    <2>2. Fits(disk')
      BY <1>7 DEF Land
    <2>3. QED
      BY <1>7, <2>1, <2>2 DEF Land, Fits, Paired
  <1>8. ASSUME NEW j \in Job, Fail(j) PROVE CapInv'
    <2>1. \A i \in Job : job'[i] # NoJob =>
            Fits(job'[i].config) /\ Fits(job'[i].prev)
      BY <1>6, <1>8 DEF Fail, JobStates
    <2>2. QED
      BY <1>8, <2>1 DEF Fail, Fits, Paired
  <1>9. ASSUME NEW j \in Job, Finish(j) PROVE CapInv'
    <2>1. \A i \in Job : job'[i] # NoJob => job'[i] = job[i]
      BY <1>9 DEF Finish, TypeOK
    <2>2. Fits(config')
      BY <1>9 DEF Finish, RolledBack
    <2>3. QED
      BY <1>9, <2>1, <2>2 DEF Finish, Fits, Paired
  <1>10. ASSUME NEW p \in Phone, CliPair(p) PROVE CapInv'
    <2>1. PICK c \in AddPairedPeer(cli.config, p) :
            cli' = [st |-> "saving", config |-> c, phone |-> NoPhone]
      BY <1>10 DEF CliPair
    <2>2. cli.config \in Config
      BY DEF TypeOK, CliRec
    <2>3. Fits(cli'.config)
      BY <2>1, <2>2, AddedFits
    <2>4. QED
      BY <1>10, <2>3 DEF CliPair, Fits, Paired
  <1>11. ASSUME Restart PROVE CapInv'
    BY <1>11 DEF Restart, Fits, Paired
  <1>12. ASSUME CliLoad PROVE CapInv'
    BY <1>12 DEF CliLoad, Fits, Paired
  <1>13. ASSUME CliEdit PROVE CapInv'
    <2>1. cli.config \in Config /\ cli \in CliRec
      BY DEF TypeOK, CliRec
    <2>2. Fits(cli'.config)
      <3>1. ASSUME NEW p \in Paired(cli.config),
                   cli' = [st |-> "saving", phone |-> p,
                           config |-> Without(cli.config, p)]
            PROVE  Fits(cli'.config)
        BY <2>1, <3>1, WithoutConfig, SubsetFits
      <3>2. CASE cli' = [cli EXCEPT !.st = "saving"]
        BY <2>1, <3>2 DEF CliRec
      <3>3. QED
        BY <1>13, <3>1, <3>2 DEF CliEdit
    <2>3. QED
      BY <1>13, <2>2 DEF CliEdit, Fits, Paired
  <1>14. ASSUME CliSave PROVE CapInv'
    <2>1. Fits(Empty)
      BY FS_EmptySet, CapAssumption DEF Fits, Paired, Empty
    <2>2. QED
      BY <1>14, <2>1 DEF CliSave, Fits, Paired
  <1>15. CASE UNCHANGED vars
    BY <1>15 DEF vars, Fits, Paired
  <1>16. QED
    BY <1>1, <1>2, <1>3, <1>4, <1>5, <1>7, <1>8, <1>9, <1>10, <1>11, <1>12,
       <1>13, <1>14, <1>15 DEF Next

\* Memory and file never hold more peers than the cap.
THEOREM CapHolds == Spec => []WithinCap
  <1>1. Init => CapInv
    BY FS_EmptySet, CapAssumption
    DEF Init, CapInv, Fits, Paired, Empty
  <1>2. CapInv => WithinCap
    BY DEF CapInv, WithinCap, Fits
  <1>3. QED
    BY <1>1, <1>2, CapStep, TypeCorrect, PTL DEF Spec

----------------------------------------------------------------------------
(* One handler at a time, nobody else editing the file: an acknowledged    *)
(* phone survives failing saves and restarts.                              *)

\* With one handler at a time, what memory, file and handler say of a phone.
AckedKept ==
    \A p \in Phone : answer[p] = "ack" =>
        /\ p \in Paired(config) \cup evicted
        /\ p \in Paired(disk) \cup evicted

\* A job past the approval holds the config memory holds; what the file holds
\* depends on how far its save has come.
JobAgrees(r) ==
    /\ r.kind = "pair" => answer[r.phone] = "waiting"
    /\ r.st = "landed" => Paired(disk) = Paired(config)
    /\ r.st # "asking" => r.config = config
    /\ r.kind = "pair" /\ r.st # "asking" =>
         r.phone \in Paired(config) \cup evicted
    /\ r.kind = "pair" /\ r.st \in {"writing", "failed"} =>
         /\ Paired(r.prev) \subseteq Paired(disk)
         /\ Paired(config) \subseteq Paired(r.prev) \cup {r.phone}
    /\ r.kind # "pair" /\ r.st \in {"writing", "failed"} =>
         Paired(config) \subseteq Paired(disk)
    /\ r.st = "asking" => r.kind = "pair"

\* No save under way: the file holds every peer memory holds.
Settled == \A j \in Job : job[j] = NoJob \/ job[j].st = "asking"
FileHoldsMemory == Settled => Paired(config) \subseteq Paired(disk)

IInv ==
    /\ TypeOK
    /\ cli.st = "idle"
    /\ AckedKept
    /\ FileHoldsMemory
    /\ \A j \in Job : job[j] # NoJob => JobAgrees(job[j])

LEMMA IInvStep ==
    ASSUME \A i, j \in Job : i = j, ~CliRuns, IInv, [Next]_vars, TypeOK'
    PROVE  IInv'
  <1> USE DEF IInv
  <1>0. cli'.st = "idle"
    BY DEF Next, Offer, Revoke, Touch, Approve, Deny, Land, Fail, Finish,
           CliPair, Restart, CliLoad, CliEdit, CliSave, vars
  <1>a. ASSUME NEW j \in Job, job'[j] # NoJob, JobAgrees(job[j])',
               job'[j].st # "asking", AckedKept'
        PROVE  IInv'
    <2>1. FileHoldsMemory'
      BY <1>a DEF FileHoldsMemory, Settled
    <2>2. \A i \in Job : job'[i] # NoJob => JobAgrees(job[i])'
      BY <1>a
    <2>3. QED
      BY <1>0, <1>a, <2>1, <2>2
  <1>b. ASSUME NEW j \in Job, job'[j] = NoJob, AckedKept',
               Paired(config') \subseteq Paired(disk')
        PROVE  IInv'
    <2>1. FileHoldsMemory'
      BY <1>b DEF FileHoldsMemory, Paired
    <2>2. \A i \in Job : job'[i] # NoJob => JobAgrees(job[i])'
      BY <1>b
    <2>3. QED
      BY <1>0, <1>b, <2>1, <2>2
  <1>c. ASSUME NEW j \in Job, NEW p \in Phone, Persist(j, p),
               answer' = [answer EXCEPT ![p] = "waiting"], disk' = disk,
               Settled
        PROVE  IInv'
    <2>1. PICK c \in AddPairedPeer(config, p) :
            /\ config' = c
            /\ evicted' = ((evicted \cup Paired(config) \cup {p}) \ Paired(c))
            /\ Save(j, "pair", p, c, config)
      BY <1>c DEF Persist
    <2>2. /\ c \in Config /\ config \in Config
          /\ Paired(c) \subseteq Paired(config) \cup {p}
      BY <2>1, AddedConfig DEF TypeOK
    <2>3. Paired(config) \subseteq Paired(disk)
      BY <1>c DEF FileHoldsMemory
    <2>4. /\ job'[j] = [kind |-> "pair", phone |-> p, config |-> c,
                        prev |-> config, st |-> "writing"]
          /\ job'[j] # NoJob
      BY <2>1, <2>2, SaveType DEF TypeOK
    <2>5. JobAgrees(job[j])'
      BY <1>c, <2>1, <2>2, <2>3, <2>4 DEF JobAgrees, Paired, TypeOK
    <2>6. AckedKept'
      BY <1>c, <2>1, <2>2, <2>3 DEF AckedKept, Paired, TypeOK
    <2>7. QED
      BY <1>a, <2>4, <2>5, <2>6
  <1>1. ASSUME NEW j \in Job, NEW p \in Phone, Offer(j, p) PROVE IInv'
    <2>1. Settled /\ Paired(config) \subseteq Paired(disk)
      BY <1>1 DEF Offer, Fresh, Settled, FileHoldsMemory
    <2>2. CASE p \in Paired(config)
      <3>1. /\ job'[j] = NoJob
            /\ UNCHANGED <<config, disk, evicted>>
            /\ answer' = [answer EXCEPT ![p] = "ack"]
        BY <1>1, <2>2 DEF Offer, Fresh
      <3>2. AckedKept'
        BY <2>1, <2>2, <3>1 DEF AckedKept, Paired, TypeOK
      <3>3. QED
        BY <1>b, <2>1, <3>1, <3>2
    <2>3. CASE p \notin Paired(config) /\ Approval
      <3>1. /\ UNCHANGED <<config, disk, evicted>>
            /\ answer' = [answer EXCEPT ![p] = "waiting"]
            /\ job' = [job EXCEPT ![j] =
                         [kind |-> "pair", phone |-> p, config |-> config,
                          prev |-> config, st |-> "asking"]]
        BY <1>1, <2>3 DEF Offer
      <3>2. job'[j] = [kind |-> "pair", phone |-> p, config |-> config,
                       prev |-> config, st |-> "asking"]
        BY <3>1 DEF TypeOK
      <3>3. JobAgrees(job[j])'
        BY <3>1, <3>2 DEF JobAgrees, TypeOK
      <3>4. AckedKept'
        BY <3>1 DEF AckedKept, Paired, TypeOK
      <3>5. FileHoldsMemory'
        BY <2>1, <3>1 DEF FileHoldsMemory, Paired
      <3>6. \A i \in Job : job'[i] # NoJob => JobAgrees(job[i])'
        BY <3>3
      <3>7. QED
        BY <1>0, <3>4, <3>5, <3>6
    <2>4. CASE p \notin Paired(config) /\ ~Approval
      BY <1>1, <1>c, <2>1, <2>4 DEF Offer
    <2>5. QED
      BY <2>2, <2>3, <2>4
  <1>2. ASSUME NEW j \in Job, NEW p \in Phone, Revoke(j, p) PROVE IInv'
    <2>1. Settled /\ Paired(config) \subseteq Paired(disk)
      BY <1>2 DEF Revoke, Fresh, Settled, FileHoldsMemory
    <2>2. answer' = [answer EXCEPT ![p] = "left"] /\ disk' = disk
            /\ evicted' = evicted
      BY <1>2 DEF Revoke
    <2>3. CASE p \in Paired(config)
      <3>1. /\ config' = Without(config, p)
            /\ Save(j, "revoke", p, config', config)
        BY <1>2, <2>3 DEF Revoke
      <3>2. /\ config' \in Config /\ config \in Config
            /\ Paired(config') = Paired(config) \ {p}
        <4>1. config \in Config
          BY DEF TypeOK
        <4>2. QED
          BY <3>1, <4>1, WithoutConfig
      <3>3. /\ job'[j] = [kind |-> "revoke", phone |-> p, config |-> config',
                          prev |-> config, st |-> "writing"]
            /\ job'[j] # NoJob
        BY <3>1, <3>2, SaveType DEF TypeOK
      <3>4. Paired(disk)' = Paired(disk) /\ Paired(config)' = Paired(config')
        BY <2>2 DEF Paired
      <3>5. JobAgrees(job[j])'
        BY <2>1, <3>2, <3>3, <3>4 DEF JobAgrees
      <3>6. AckedKept'
        BY <2>2, <3>2, <3>4 DEF AckedKept, TypeOK
      <3>7. QED
        BY <1>a, <3>3, <3>5, <3>6
    <2>4. CASE p \notin Paired(config)
      <3>1. UNCHANGED <<config, job>>
        BY <1>2, <2>4 DEF Revoke
      <3>2. AckedKept'
        BY <2>2, <3>1 DEF AckedKept, Paired, TypeOK
      <3>3. QED
        BY <1>2, <1>b, <2>1, <2>2, <3>1, <3>2 DEF Revoke, Fresh
    <2>5. QED
      BY <2>3, <2>4
  <1>3. ASSUME NEW j \in Job, NEW p \in Phone, Touch(j, p) PROVE IInv'
    <2>1. Paired(config) \subseteq Paired(disk)
      BY <1>3 DEF Touch, Fresh, Settled, FileHoldsMemory
    <2>2. /\ config' = Touched(config, p)
          /\ Save(j, "touch", p, config', config)
          /\ UNCHANGED <<disk, evicted, answer>>
      BY <1>3 DEF Touch
    <2>3. /\ config' \in Config /\ config \in Config
          /\ Paired(config') = Paired(config)
      <3>1. config \in Config /\ p \in Paired(config)
        BY <1>3 DEF Touch, TypeOK
      <3>2. /\ Touched(config, p) \in Config
            /\ Paired(Touched(config, p)) = Paired(config)
        <4>1. /\ Touched(config, p) \in Config
              /\ Paired(Touched(config, p)) = Paired(config) \cup {p}
          BY <3>1, TouchedConfig
        <4>2. Paired(config) \cup {p} = Paired(config)
          BY <3>1
        <4>3. QED
          BY <4>1, <4>2
      <3>3. QED
        BY <2>2, <3>1, <3>2
    <2>4. /\ job'[j] = [kind |-> "touch", phone |-> p, config |-> config',
                        prev |-> config, st |-> "writing"]
          /\ job'[j] # NoJob
      BY <2>2, <2>3, SaveType DEF TypeOK
    <2>5. Paired(disk)' = Paired(disk) /\ Paired(config)' = Paired(config')
      BY <2>2 DEF Paired
    <2>6. JobAgrees(job[j])'
      BY <2>1, <2>3, <2>4, <2>5 DEF JobAgrees
    <2>7. AckedKept'
      BY <2>2, <2>3, <2>5 DEF AckedKept
    <2>8. QED
      BY <1>a, <2>4, <2>6, <2>7
  <1>4. ASSUME NEW j \in Job, Approve(j) PROVE IInv'
    <2>1. /\ job[j] # NoJob /\ job[j].st = "asking"
          /\ Persist(j, job[j].phone)
          /\ UNCHANGED <<disk, answer>>
      BY <1>4 DEF Approve
    <2>2. job[j].phone \in Phone /\ job[j].kind = "pair"
      BY <2>1, JobType DEF JobAgrees
    <2>3. answer[job[j].phone] = "waiting"
      BY <2>1, <2>2 DEF JobAgrees
    <2>4. answer' = [answer EXCEPT ![job[j].phone] = "waiting"]
      BY <2>1, <2>2, <2>3 DEF TypeOK
    <2>5. Settled
      BY <2>1 DEF Settled
    <2>6. QED
      BY <1>c, <2>1, <2>2, <2>4, <2>5
  <1>5. ASSUME NEW j \in Job, Deny(j) PROVE IInv'
    <2>1. /\ Paired(config) \subseteq Paired(disk)
          /\ UNCHANGED <<config, disk, evicted>>
          /\ job'[j] = NoJob
          /\ answer' = Told(job[j].phone, "nack")
      BY <1>5 DEF Deny, Settled, FileHoldsMemory, TypeOK
    <2>2. AckedKept'
      BY <2>1 DEF AckedKept, Told, Paired, TypeOK
    <2>3. QED
      BY <1>b, <2>1, <2>2
  <1>6. ASSUME NEW j \in Job, Land(j) PROVE IInv'
    <2>1. /\ job[j] # NoJob /\ job[j].st = "writing"
          /\ disk' = job[j].config
          /\ UNCHANGED <<config, answer, evicted>>
      BY <1>6 DEF Land
    <2>2. /\ job[j] \in JobRec
          /\ job'[j] = [job[j] EXCEPT !.st = "landed"] /\ job'[j] # NoJob
      BY <1>6, JobType, JobStateType DEF Land, JobStates
    <2>3. JobAgrees(job[j]) /\ job[j].config = config
      BY <2>1 DEF JobAgrees
    <2>4. /\ job'[j].kind = job[j].kind /\ job'[j].phone = job[j].phone
          /\ job'[j].config = job[j].config /\ job'[j].st = "landed"
      BY <2>2 DEF JobRec
    <2>5. JobAgrees(job[j])'
      BY <2>1, <2>3, <2>4 DEF JobAgrees, Paired
    <2>6. AckedKept'
      BY <2>1, <2>3 DEF AckedKept, Paired
    <2>7. QED
      BY <1>a, <2>2, <2>4, <2>5, <2>6
  <1>7. ASSUME NEW j \in Job, Fail(j) PROVE IInv'
    <2>1. /\ job[j] # NoJob /\ job[j].st = "writing"
          /\ UNCHANGED <<config, disk, answer, evicted>>
      BY <1>7 DEF Fail
    <2>2. /\ job[j] \in JobRec
          /\ job'[j] = [job[j] EXCEPT !.st = "failed"] /\ job'[j] # NoJob
      BY <1>7, JobType, JobStateType DEF Fail, JobStates
    <2>3. JobAgrees(job[j])
      BY <2>1
    <2>4. /\ job'[j].kind = job[j].kind /\ job'[j].phone = job[j].phone
          /\ job'[j].config = job[j].config /\ job'[j].st = "failed"
          /\ job'[j].prev = job[j].prev
      BY <2>2 DEF JobRec
    <2>5. JobAgrees(job[j])'
      BY <2>1, <2>3, <2>4 DEF JobAgrees, Paired
    <2>6. AckedKept'
      BY <2>1 DEF AckedKept, Paired
    <2>7. QED
      BY <1>a, <2>2, <2>4, <2>5, <2>6
  <1>8. ASSUME NEW j \in Job, Finish(j) PROVE IInv'
    <2>1. /\ job[j] # NoJob /\ job[j].st \in {"landed", "failed"}
          /\ job'[j] = NoJob /\ disk' = disk
      BY <1>8 DEF Finish, TypeOK
    <2>2. JobAgrees(job[j]) /\ job[j].phone \in Phone
      BY <2>1, JobType
    <2>3. CASE job[j].kind = "pair" /\ job[j].st = "landed"
      <3>1. /\ UNCHANGED <<config, evicted>>
            /\ answer' = Told(job[j].phone, "ack")
        BY <1>8, <2>3 DEF Finish
      <3>2. /\ Paired(disk) = Paired(config)
            /\ job[j].phone \in Paired(config) \cup evicted
        BY <2>2, <2>3 DEF JobAgrees
      <3>3. AckedKept'
        BY <2>1, <2>2, <3>1, <3>2 DEF AckedKept, Told, Paired, TypeOK
      <3>4. Paired(config') \subseteq Paired(disk')
        BY <2>1, <3>1, <3>2
      <3>5. QED
        BY <1>b, <2>1, <3>3, <3>4
    <2>4. CASE job[j].kind = "pair" /\ job[j].st = "failed"
      <3>1. /\ config' = job[j].prev
            /\ evicted' = evicted \ Paired(config')
            /\ answer' = Told(job[j].phone, "nack")
        BY <1>8, <2>4 DEF Finish, RolledBack
      <3>2. /\ answer[job[j].phone] = "waiting"
            /\ Paired(job[j].prev) \subseteq Paired(disk)
            /\ Paired(config) \subseteq Paired(job[j].prev) \cup {job[j].phone}
        BY <2>2, <2>4 DEF JobAgrees
      <3>3. Paired(config') \subseteq Paired(disk')
        BY <2>1, <3>1, <3>2
      <3>4. \A q \in Phone : answer'[q] = "ack" => answer[q] = "ack"
        BY <2>2, <3>1 DEF Told, TypeOK
      <3>5. /\ Paired(config)' = Paired(job[j].prev)
            /\ Paired(disk)' = Paired(disk)
        BY <2>1, <3>1 DEF Paired
      <3>6. AckedKept'
        <4> SUFFICES ASSUME NEW q \in Phone, answer'[q] = "ack"
                     PROVE  /\ q \in Paired(config)' \cup evicted'
                            /\ q \in Paired(disk)' \cup evicted'
          BY DEF AckedKept
        <4>1. /\ answer[q] = "ack" /\ q # job[j].phone
              /\ q \in Paired(config) \cup evicted
              /\ q \in Paired(disk) \cup evicted
          BY <3>2, <3>4 DEF AckedKept
        <4>2. evicted' = evicted \ Paired(job[j].prev)
          BY <3>1
        <4>3. QED
          BY <3>2, <3>5, <4>1, <4>2
      <3>7. QED
        BY <1>b, <2>1, <3>3, <3>6
    <2>5. CASE job[j].kind # "pair"
      <3>1. /\ UNCHANGED <<config, evicted>>
            /\ \A q \in Phone : answer'[q] = "ack" => answer[q] = "ack"
        BY <1>8, <2>2, <2>5 DEF Finish, TypeOK
      <3>2. Paired(config) \subseteq Paired(disk)
        BY <2>1, <2>2, <2>5 DEF JobAgrees
      <3>3. AckedKept'
        BY <2>1, <3>1 DEF AckedKept, Paired
      <3>4. QED
        BY <1>b, <2>1, <3>1, <3>2, <3>3
    <2>6. QED
      BY <2>1, <2>3, <2>4, <2>5
  <1>9. ASSUME Restart PROVE IInv'
    <2>1. /\ config' = disk /\ UNCHANGED <<disk, answer, evicted>>
          /\ job' = [j \in Job |-> NoJob]
      BY <1>9 DEF Restart
    <2>2. AckedKept'
      BY <2>1 DEF AckedKept, Paired
    <2>3. FileHoldsMemory'
      BY <2>1 DEF FileHoldsMemory, Paired
    <2>4. QED
      BY <1>0, <2>1, <2>2, <2>3
  <1>10. CASE UNCHANGED vars
    <2>1. AckedKept' /\ FileHoldsMemory'
      BY <1>10 DEF vars, AckedKept, FileHoldsMemory, Settled, Paired
    <2>2. \A j \in Job : job'[j] # NoJob => JobAgrees(job[j])'
      BY <1>10 DEF vars, JobAgrees, Paired
    <2>3. QED
      BY <1>0, <2>1, <2>2
  <1>11. ~CliLoad /\ ~CliEdit /\ ~CliSave /\ \A p \in Phone : ~CliPair(p)
    BY DEF CliLoad, CliEdit, CliSave, CliPair
  <1>12. QED
    BY <1>1, <1>2, <1>3, <1>4, <1>5, <1>6, <1>7, <1>8, <1>9, <1>10, <1>11
    DEF Next

LEMMA OneHandlerInvariant ==
    ASSUME \A i, j \in Job : i = j, ~CliRuns
    PROVE  Spec => []IInv
  <1>1. Init => IInv
    <2>1. ASSUME Init PROVE IInv
      <3>1. TypeOK
        BY <2>1, BoundAssumption
        DEF Init, TypeOK, Config, Empty, Answers, CliRec
      <3>2. QED
        BY <2>1, <3>1
        DEF Init, IInv, AckedKept, FileHoldsMemory, Empty, Paired
    <2>2. QED
      BY <2>1
  <1>2. IInv /\ [Next]_vars => IInv'
    <2>1. ASSUME IInv, [Next]_vars PROVE IInv'
      <3>1. TypeOK'
        BY <2>1, TypeStep DEF IInv
      <3>2. QED
        BY <2>1, <3>1, IInvStep
    <2>2. QED
      BY <2>1
  <1>3. QED
    BY <1>1, <1>2, PTL DEF Spec

\* With handlers one at a time and no pair command, a phone that was told it
\* is paired is in the file after every failure and restart, unless
\* addPairedPeer left it out.
THEOREM AckedSurvivesAlone ==
    ASSUME \A i, j \in Job : i = j, ~CliRuns
    PROVE  Spec => []AckedSurvives
  <1>1. IInv => AckedSurvives
    BY DEF IInv, AckedKept, AckedSurvives
  <1>2. QED
    BY <1>1, OneHandlerInvariant, PTL

----------------------------------------------------------------------------
(* Still one handler at a time: who is hot, and whom memory forgets.       *)

Adds(j) == job[j] # NoJob /\ job[j].kind = "pair" /\ job[j].st # "asking"

\* Every peer in memory is hot but the one a handler is adding; so is every
\* peer a rollback would bring back.
HotInv ==
    /\ AckedIsHot
    /\ \A p \in Paired(config) :
          peers[p] > 0 \/ \E j \in Job : Adds(j) /\ job[j].phone = p
    /\ \A j \in Job : Adds(j) => \A q \in Paired(job[j].prev) : peers[q] > 0

\* A new peer takes the place of nobody but a peer that was never seen.
LEMMA AddedForgets ==
    ASSUME NEW c \in Config, NEW p \in Phone, p \notin Paired(c),
           NEW d \in AddPairedPeer(c, p), NEW q \in Paired(c) \ Paired(d)
    PROVE  q \in c.fresh
  <1>1. PICK stale \in SUBSET (c.fresh \ {p}) :
          d \in Capped(Pruned(c, p, stale), p)
    BY DEF AddPairedPeer
  <1> DEFINE b == Pruned(c, p, stale)
  <1>2. /\ b \in Config
        /\ b.seen = c.seen /\ b.fresh = (c.fresh \ stale) \cup {p}
    BY PrunedConfig DEF Pruned, Config, Paired
  <1>3. CASE d = b
    BY <1>2, <1>3 DEF Paired
  <1>4. CASE d # b
    <2>1. PICK v \in Victims(b, p) : d = Without(b, v)
      BY <1>1, <1>4 DEF Capped
    <2>2. Paired(d) = Paired(b) \ {v}
      BY <1>2, <2>1, WithoutConfig
    <2>3. v \in b.fresh
      BY <1>2, <2>1 DEF Victims
    <2>4. QED
      BY <1>2, <2>2, <2>3 DEF Paired
  <1>5. QED
    BY <1>3, <1>4

\* What a handler that adds p does to memory.
LEMMA PersistMeaning ==
    ASSUME TypeOK, NEW j \in Job, NEW p \in Phone, Persist(j, p)
    PROVE  /\ config' \in AddPairedPeer(config, p)
           /\ Paired(config') \subseteq Paired(config) \cup {p}
           /\ evicted' = (evicted \cup Paired(config) \cup {p}) \ Paired(config')
           /\ job'[j] = [kind |-> "pair", phone |-> p, config |-> config',
                         prev |-> config, st |-> "writing"]
           /\ job'[j] # NoJob
           /\ \A i \in Job \ {j} : job'[i] = job[i]
  <1>1. PICK c \in AddPairedPeer(config, p) :
          /\ config' = c
          /\ evicted' = ((evicted \cup Paired(config) \cup {p}) \ Paired(c))
          /\ Save(j, "pair", p, c, config)
    BY DEF Persist
  <1>2. c \in Config /\ config \in Config /\ Paired(c) \subseteq Paired(config) \cup {p}
    BY <1>1, AddedConfig DEF TypeOK
  <1>3. /\ job'[j] = [kind |-> "pair", phone |-> p, config |-> c,
                      prev |-> config, st |-> "writing"]
        /\ job'[j] # NoJob
    BY <1>1, <1>2, SaveType DEF TypeOK
  <1>4. \A i \in Job \ {j} : job'[i] = job[i]
    BY <1>1 DEF Save, TypeOK
  <1>5. QED
    BY <1>1, <1>2, <1>3, <1>4

LEMMA HotStep ==
    ASSUME \A i, j \in Job : i = j, ~CliRuns, IInv, HotInv, [Next]_vars
    PROVE  HotInv'
  <1> USE DEF HotInv, AckedIsHot
  <1>0. TypeOK /\ AckedKept /\ \A j \in Job : job[j] # NoJob => JobAgrees(job[j])
    BY DEF IInv
  <1>a. ASSUME NEW j \in Job, NEW p \in Phone, Persist(j, p), ~Adds(j),
               answer' = [answer EXCEPT ![p] = "waiting"], peers' = peers
        PROVE  HotInv'
    <2>1. \A q \in Paired(config) : peers[q] > 0
      BY <1>a
    <2>0. /\ Paired(config') \subseteq Paired(config) \cup {p}
          /\ evicted' = (evicted \cup Paired(config) \cup {p}) \ Paired(config')
          /\ job'[j] = [kind |-> "pair", phone |-> p, config |-> config',
                        prev |-> config, st |-> "writing"]
          /\ job'[j] # NoJob
      <3>1. Persist(j, p)
        BY <1>a
      <3>2. QED
        BY ONLY <1>0, <3>1, PersistMeaning
    <2>2. /\ Paired(config') \subseteq Paired(config) \cup {p}
          /\ evicted' = (evicted \cup Paired(config) \cup {p}) \ Paired(config')
          /\ job'[j] # NoJob /\ job'[j].kind = "pair" /\ job'[j].st = "writing"
          /\ job'[j].phone = p /\ job'[j].prev = config
      BY ONLY <2>0
    <2>3. Adds(j)'
      BY <2>2 DEF Adds
    <2>4. AckedIsHot'
      BY <1>0, <1>a, <2>1, <2>2 DEF TypeOK
    <2>5. Paired(config)' \subseteq Paired(config) \cup {p}
      BY <2>2 DEF Paired
    <2>6. \A q \in Paired(config)' : peers'[q] > 0 \/ q = p
      BY <1>a, <2>1, <2>5
    <2>7. (\A i \in Job : Adds(i) => \A q \in Paired(job[i].prev) : peers[q] > 0)'
      <3>1. \A i \in Job : job'[i].prev = config
        BY <1>a, <2>2
      <3>2. \A i \in Job : Paired(job[i].prev)' = Paired(config)
        BY <3>1 DEF Paired
      <3>3. QED
        BY <1>a, <2>1, <3>2
    <2>8. QED
      BY <2>2, <2>3, <2>4, <2>6, <2>7
  <1>b. ASSUME \A q \in Paired(config)' : peers'[q] > 0,
               \A j \in Job : ~Adds(j)', AckedIsHot'
        PROVE  HotInv'
    BY <1>b
  <1>1. ASSUME NEW j \in Job, NEW p \in Phone, Offer(j, p) PROVE HotInv'
    <2>1. ~Adds(j) /\ peers' = peers
      BY <1>1 DEF Offer, Fresh, Adds
    <2>2. \A q \in Paired(config) : peers[q] > 0
      BY <1>1, <2>1
    <2>3. CASE p \in Paired(config)
      <3>1. UNCHANGED <<config, job, evicted>> /\ answer' = [answer EXCEPT ![p] = "ack"]
        BY <1>1, <2>3 DEF Offer
      <3>2. AckedIsHot'
        BY <1>0, <2>1, <2>2, <2>3, <3>1 DEF TypeOK
      <3>3. \A q \in Paired(config)' : peers'[q] > 0
        BY <2>1, <2>2, <3>1 DEF Paired
      <3>4. \A i \in Job : ~Adds(i)'
        BY <1>1, <2>1, <3>1 DEF Adds
      <3>5. QED
        BY <1>b, <3>2, <3>3, <3>4
    <2>4. CASE p \notin Paired(config) /\ Approval
      <3>1. /\ UNCHANGED <<config, evicted>> /\ answer' = [answer EXCEPT ![p] = "waiting"]
            /\ job' = [job EXCEPT ![j] =
                         [kind |-> "pair", phone |-> p, config |-> config,
                          prev |-> config, st |-> "asking"]]
        BY <1>1, <2>4 DEF Offer
      <3>2. AckedIsHot'
        BY <1>0, <2>1, <3>1 DEF TypeOK
      <3>3. \A q \in Paired(config)' : peers'[q] > 0
        BY <2>1, <2>2, <3>1 DEF Paired
      <3>4. \A i \in Job : ~Adds(i)'
        <4>1. job'[j].st = "asking"
          BY <1>0, <3>1 DEF TypeOK
        <4>2. QED
          BY <4>1 DEF Adds
      <3>5. QED
        BY <1>b, <3>2, <3>3, <3>4
    <2>5. CASE p \notin Paired(config) /\ ~Approval
      BY <1>1, <1>a, <2>1, <2>5 DEF Offer
    <2>6. QED
      BY <2>3, <2>4, <2>5
  <1>2. ASSUME NEW j \in Job, NEW p \in Phone, Revoke(j, p) PROVE HotInv'
    <2>1. /\ ~Adds(j) /\ evicted' = evicted
          /\ answer' = [answer EXCEPT ![p] = "left"]
      BY <1>2 DEF Revoke, Fresh, Adds
    <2>2. \A q \in Paired(config) : peers[q] > 0
      BY <1>2, <2>1
    <2>3. CASE p \in Paired(config)
      <3>1. /\ config' = Without(config, p) /\ peers' = NotHot(p)
            /\ Save(j, "revoke", p, config', config)
        BY <1>2, <2>3 DEF Revoke
      <3>2. config' \in Config /\ Paired(config') = Paired(config) \ {p}
        <4>1. config \in Config
          BY <1>0 DEF TypeOK
        <4>2. QED
          BY <3>1, <4>1, WithoutConfig
      <3>3. \A q \in Phone \ {p} : peers'[q] = peers[q]
        BY <1>0, <3>1 DEF NotHot, TypeOK
      <3>4. AckedIsHot'
        BY <1>0, <2>1, <3>3 DEF TypeOK
      <3>5. Paired(config)' = Paired(config) \ {p} /\ Paired(config) \subseteq Phone
        BY <1>0, <3>2 DEF Paired, TypeOK, Config
      <3>6. job'[j] = [kind |-> "revoke", phone |-> p, config |-> config',
                       prev |-> config, st |-> "writing"]
        BY <1>0, <3>1, <3>2, SaveType DEF TypeOK
      <3>7. \A i \in Job : ~Adds(i)'
        BY <3>6 DEF Adds
      <3>8. QED
        BY <1>b, <2>2, <3>3, <3>4, <3>5, <3>7
    <2>4. CASE p \notin Paired(config)
      <3>1. UNCHANGED <<config, job, peers>>
        BY <1>2, <2>4 DEF Revoke
      <3>2. AckedIsHot' /\ \A q \in Paired(config)' : peers'[q] > 0
        BY <1>0, <2>1, <2>2, <3>1 DEF TypeOK, Paired
      <3>3. \A i \in Job : ~Adds(i)'
        BY <2>1, <3>1 DEF Adds
      <3>4. QED
        BY <1>b, <3>2, <3>3
    <2>5. QED
      BY <2>3, <2>4
  <1>3. ASSUME NEW j \in Job, NEW p \in Phone, Touch(j, p) PROVE HotInv'
    <2>1. /\ ~Adds(j) /\ UNCHANGED <<peers, answer, evicted>>
          /\ config' = Touched(config, p) /\ p \in Paired(config)
          /\ Save(j, "touch", p, config', config)
      BY <1>3 DEF Touch, Fresh, Adds
    <2>2. \A q \in Paired(config) : peers[q] > 0
      BY <2>1
    <2>3. config' \in Config /\ Paired(config') = Paired(config) \cup {p}
      <3>1. config \in Config
        BY <1>0 DEF TypeOK
      <3>2. QED
        BY <2>1, <3>1, TouchedConfig
    <2>4. \A q \in Paired(config)' : peers'[q] > 0
      BY <2>1, <2>2, <2>3 DEF Paired
    <2>5. job'[j] = [kind |-> "touch", phone |-> p, config |-> config',
                     prev |-> config, st |-> "writing"]
      BY <1>0, <2>1, <2>3, SaveType DEF TypeOK
    <2>6. \A i \in Job : ~Adds(i)'
      BY <2>5 DEF Adds
    <2>7. QED
      BY <1>b, <2>1, <2>4, <2>6
  <1>4. ASSUME NEW j \in Job, Approve(j) PROVE HotInv'
    <2>1. /\ job[j] # NoJob /\ job[j].st = "asking" /\ peers' = peers
          /\ Persist(j, job[j].phone) /\ answer' = answer
      BY <1>4 DEF Approve
    <2>2. job[j].phone \in Phone /\ answer[job[j].phone] = "waiting"
      BY <1>0, <2>1, JobType DEF JobAgrees
    <2>3. answer' = [answer EXCEPT ![job[j].phone] = "waiting"]
      BY <1>0, <2>1, <2>2 DEF TypeOK
    <2>4. ~Adds(j)
      BY <2>1 DEF Adds
    <2>5. QED
      BY <1>a, <2>1, <2>2, <2>3, <2>4
  <1>5. ASSUME NEW j \in Job, Deny(j) PROVE HotInv'
    <2>1. /\ ~Adds(j) /\ UNCHANGED <<config, peers, evicted>>
          /\ job'[j] = NoJob
          /\ \A q \in Phone : answer'[q] = "ack" => answer[q] = "ack"
      BY <1>0, <1>5, JobType DEF Deny, Adds, Told, TypeOK
    <2>2. \A i \in Job : ~Adds(i)'
      BY <2>1 DEF Adds
    <2>3. QED
      BY <1>b, <2>1, <2>2 DEF Paired
  <1>6. ASSUME NEW j \in Job, NEW st \in {"landed", "failed"}, job[j] # NoJob,
               job[j].st = "writing", job' = [job EXCEPT ![j].st = st],
               UNCHANGED <<config, peers, answer, evicted>>
        PROVE  HotInv'
    <2>1. /\ job'[j] = [job[j] EXCEPT !.st = st] /\ job'[j] # NoJob
          /\ job[j] \in JobRec
      BY <1>0, <1>6, JobStateType, JobType DEF JobStates
    <2>2. /\ job'[j].kind = job[j].kind /\ job'[j].phone = job[j].phone
          /\ job'[j].prev = job[j].prev /\ job'[j].st = st
      BY <2>1 DEF JobRec
    <2>3. Adds(j)' = Adds(j)
      BY <1>6, <2>1, <2>2 DEF Adds
    <2>4. QED
      BY <1>6, <2>2, <2>3 DEF Paired
  <1>7. ASSUME NEW j \in Job, Land(j) PROVE HotInv'
    BY <1>6, <1>7 DEF Land
  <1>8. ASSUME NEW j \in Job, Fail(j) PROVE HotInv'
    BY <1>6, <1>8 DEF Fail
  <1>9. ASSUME NEW j \in Job, Finish(j) PROVE HotInv'
    <2>1. /\ job[j] # NoJob /\ job[j].st \in {"landed", "failed"}
          /\ job'[j] = NoJob /\ job[j].phone \in Phone
      BY <1>0, <1>9, JobType DEF Finish, TypeOK
    <2>2. \A i \in Job : ~Adds(i)'
      BY <2>1 DEF Adds
    <2>3. CASE job[j].kind = "pair" /\ job[j].st = "landed"
      <3>1. /\ UNCHANGED <<config, evicted>> /\ peers' = HotAdded(job[j].phone)
            /\ answer' = Told(job[j].phone, "ack")
        BY <1>9, <2>3 DEF Finish
      <3>2. \A q \in Phone : peers[q] > 0 => peers'[q] > 0
        BY <1>0, <2>1, <3>1 DEF HotAdded, TypeOK
      <3>3. peers'[job[j].phone] > 0
        BY <1>0, <2>1, <3>1 DEF HotAdded, TypeOK
      <3>4. AckedIsHot'
        <4>1. \A q \in Phone :
                answer'[q] = "ack" => answer[q] = "ack" \/ q = job[j].phone
          BY <1>0, <2>1, <3>1 DEF Told, TypeOK
        <4>2. QED
          BY <3>1, <3>2, <3>3, <4>1
      <3>5. \A q \in Paired(config) : q \in Phone /\ (peers[q] > 0 \/ q = job[j].phone)
        BY <1>0 DEF TypeOK, Config, Paired
      <3>6. \A q \in Paired(config)' : peers'[q] > 0
        <4>1. Paired(config)' = Paired(config)
          BY <3>1 DEF Paired
        <4>2. QED
          BY <3>2, <3>3, <3>5, <4>1
      <3>7. QED
        BY <1>b, <2>2, <3>4, <3>6
    <2>4. CASE job[j].kind = "pair" /\ job[j].st = "failed"
      <3>1. /\ config' = job[j].prev /\ peers' = peers
            /\ evicted' = evicted \ Paired(config')
            /\ answer' = Told(job[j].phone, "nack")
        BY <1>9, <2>4 DEF Finish, RolledBack
      <3>2. \A q \in Paired(job[j].prev) : peers[q] > 0
        BY <2>1, <2>4 DEF Adds
      <3>3. \A q \in Paired(config)' : peers'[q] > 0
        BY <3>1, <3>2 DEF Paired
      <3>4. \A q \in Phone : answer'[q] = "ack" => answer[q] = "ack"
        BY <1>0, <2>1, <3>1 DEF Told, TypeOK
      <3>5. AckedIsHot'
        BY <3>1, <3>2, <3>4
      <3>6. QED
        BY <1>b, <2>2, <3>3, <3>5
    <2>5. CASE job[j].kind # "pair"
      <3>1. /\ UNCHANGED <<config, peers, evicted>>
            /\ \A q \in Phone : answer'[q] = "ack" => answer[q] = "ack"
        BY <1>0, <1>9, <2>1, <2>5 DEF Finish, TypeOK
      <3>2. ~Adds(j)
        BY <2>5 DEF Adds
      <3>3. AckedIsHot' /\ \A q \in Paired(config)' : peers'[q] > 0
        BY <3>1, <3>2 DEF Paired
      <3>4. QED
        BY <1>b, <2>2, <3>3
    <2>6. QED
      BY <2>1, <2>3, <2>4, <2>5
  <1>10. ASSUME Restart PROVE HotInv'
    <2>1. /\ config' = disk /\ UNCHANGED <<disk, answer, evicted>>
          /\ peers' = [p \in Phone |-> IF p \in Paired(disk) THEN 1 ELSE 0]
          /\ job' = [j \in Job |-> NoJob]
      BY <1>10 DEF Restart
    <2>2. \A q \in Paired(config)' : peers'[q] > 0
      BY <1>0, <2>1 DEF Paired, TypeOK, Config
    <2>3. AckedIsHot'
      BY <1>0, <2>1 DEF AckedKept
    <2>4. \A i \in Job : ~Adds(i)'
      BY <2>1 DEF Adds
    <2>5. QED
      BY <1>b, <2>2, <2>3, <2>4
  <1>11. CASE UNCHANGED vars
    BY <1>11 DEF vars, Adds, Paired
  <1>12. ~CliLoad /\ ~CliEdit /\ ~CliSave /\ \A p \in Phone : ~CliPair(p)
    BY DEF CliLoad, CliEdit, CliSave, CliPair, IInv
  <1>13. QED
    BY <1>1, <1>2, <1>3, <1>4, <1>5, <1>7, <1>8, <1>9, <1>10, <1>11, <1>12
    DEF Next

\* With handlers one at a time and no pair command, a phone that was told it
\* is paired is on the hot list, so its envelopes decrypt, unless
\* addPairedPeer left it out.
THEOREM AckedIsHotAlone ==
    ASSUME \A i, j \in Job : i = j, ~CliRuns
    PROVE  Spec => []AckedIsHot
  <1>1. Init => HotInv
    BY DEF Init, HotInv, AckedIsHot, Adds, Empty, Paired
  <1>2. IInv /\ HotInv /\ [Next]_vars => HotInv'
    BY HotStep
  <1>3. HotInv => AckedIsHot
    BY DEF HotInv
  <1>4. QED
    BY <1>1, <1>2, <1>3, OneHandlerInvariant, PTL DEF Spec
\* A phone the user is asked about is not paired.
Asked == \A j \in Job : job[j] # NoJob /\ job[j].st = "asking" =>
                          job[j].phone \notin Paired(config)

LEMMA AskedStep ==
    ASSUME \A i, j \in Job : i = j, ~CliRuns, TypeOK, Asked, [Next]_vars
    PROVE  Asked'
  <1>a. ASSUME UNCHANGED <<config, job>> PROVE Asked'
    BY <1>a DEF Asked, Paired
  <1>b. ASSUME NEW j \in Job, job'[j] = NoJob \/ job'[j].st # "asking"
        PROVE  Asked'
    BY <1>b DEF Asked
  <1>c. ASSUME NEW j \in Job, NEW p \in Phone, Persist(j, p) PROVE Asked'
    <2>1. job'[j] = [kind |-> "pair", phone |-> p, config |-> config',
                     prev |-> config, st |-> "writing"]
      BY ONLY <1>c, TypeOK, PersistMeaning
    <2>2. QED
      BY <1>b, <2>1
  <1>d. ASSUME NEW j \in Job, NEW kind \in {"pair", "revoke", "touch"},
               NEW p \in Phone, config' \in Config,
               Save(j, kind, p, config', config)
        PROVE  Asked'
    <2>1. job'[j] = [kind |-> kind, phone |-> p, config |-> config',
                     prev |-> config, st |-> "writing"]
      BY <1>d, SaveType DEF TypeOK
    <2>2. QED
      BY <1>b, <2>1
  <1>1. ASSUME NEW j \in Job, NEW p \in Phone, Offer(j, p) PROVE Asked'
    <2>1. CASE p \in Paired(config)
      BY <1>1, <1>a, <2>1 DEF Offer
    <2>2. CASE p \notin Paired(config) /\ Approval
      <3>1. job' = [job EXCEPT ![j] =
                      [kind |-> "pair", phone |-> p, config |-> config,
                       prev |-> config, st |-> "asking"]]
            /\ config' = config
        BY <1>1, <2>2 DEF Offer
      <3>2. job'[j].phone = p
        BY <3>1 DEF TypeOK
      <3>3. QED
        BY <2>2, <3>1, <3>2 DEF Asked, Paired
    <2>3. CASE p \notin Paired(config) /\ ~Approval
      BY <1>1, <1>c, <2>3 DEF Offer
    <2>4. QED
      BY <2>1, <2>2, <2>3
  <1>2. ASSUME NEW j \in Job, NEW p \in Phone, Revoke(j, p) PROVE Asked'
    <2>1. CASE p \in Paired(config)
      <3>1. config' = Without(config, p) /\ Save(j, "revoke", p, config', config)
        BY <1>2, <2>1 DEF Revoke
      <3>2. config' \in Config
        BY <3>1, WithoutConfig DEF TypeOK
      <3>3. QED
        BY <1>d, <3>1, <3>2
    <2>2. CASE p \notin Paired(config)
      BY <1>2, <1>a, <2>2 DEF Revoke
    <2>3. QED
      BY <2>1, <2>2
  <1>3. ASSUME NEW j \in Job, NEW p \in Phone, Touch(j, p) PROVE Asked'
    <2>1. config' = Touched(config, p) /\ Save(j, "touch", p, config', config)
      BY <1>3 DEF Touch
    <2>2. config' \in Config
      BY <2>1, TouchedConfig DEF TypeOK
    <2>3. QED
      BY <1>d, <2>1, <2>2
  <1>4. ASSUME NEW j \in Job, Approve(j) PROVE Asked'
    <2>1. Persist(j, job[j].phone) /\ job[j].phone \in Phone
      BY <1>4, JobType DEF Approve
    <2>2. QED
      BY <1>c, <2>1
  <1>5. ASSUME NEW j \in Job, Deny(j) \/ Finish(j) PROVE Asked'
    <2>1. job'[j] = NoJob
      BY <1>5 DEF Deny, Finish, TypeOK
    <2>2. QED
      BY <1>b, <2>1
  <1>6. ASSUME NEW j \in Job, Land(j) \/ Fail(j) PROVE Asked'
    <2>1. PICK st \in {"landed", "failed"} :
            job[j] # NoJob /\ job' = [job EXCEPT ![j].st = st]
      BY <1>6 DEF Land, Fail
    <2>2. job[j] \in JobRec /\ job'[j] = [job[j] EXCEPT !.st = st]
      BY <2>1, JobType, JobStateType DEF JobStates
    <2>3. job'[j].st = st
      BY <2>2 DEF JobRec
    <2>4. QED
      BY <1>b, <2>1, <2>3
  <1>7. ASSUME Restart PROVE Asked'
    BY <1>7 DEF Restart, Asked
  <1>8. CASE UNCHANGED vars
    BY <1>8, <1>a DEF vars
  <1>9. ASSUME CliLoad \/ CliEdit \/ CliSave \/ \E p \in Phone : CliPair(p)
        PROVE  Asked'
    BY <1>9, <1>a DEF CliLoad, CliEdit, CliSave, CliPair
  <1>10. QED
    BY <1>1, <1>2, <1>3, <1>4, <1>5, <1>6, <1>7, <1>8, <1>9 DEF Next

LEMMA ForgetsStep ==
    ASSUME ~CliRuns, IInv, Asked, [Next]_vars, UNCHANGED restarts,
           NEW p \in Paired(config) \ Paired(config')
    PROVE  \/ answer'[p] \in {"left", "nack"}
           \/ p \in evicted' /\ p \in config.fresh
  <1>0. /\ TypeOK /\ config \in Config
        /\ \A j \in Job : job[j] # NoJob => JobAgrees(job[j])
    BY DEF IInv, TypeOK
  <1>a. config' # config
    OBVIOUS
  <1>b. ASSUME NEW j \in Job, NEW q \in Phone, Persist(j, q),
               q \notin Paired(config)
        PROVE  p \in evicted' /\ p \in config.fresh
    <2>1. /\ config' \in AddPairedPeer(config, q)
          /\ evicted' = (evicted \cup Paired(config) \cup {q})
                          \ Paired(config')
      BY ONLY <1>0, <1>b, PersistMeaning
    <2>2. p \in config.fresh
      BY ONLY <1>0, <1>b, <2>1, AddedForgets, p \in Paired(config) \ Paired(config')
    <2>3. QED
      BY <2>1, <2>2
  <1>1. ASSUME NEW j \in Job, NEW q \in Phone, Offer(j, q)
        PROVE  p \in evicted' /\ p \in config.fresh
    <2>1. q \notin Paired(config) /\ Persist(j, q)
      BY <1>1, <1>a DEF Offer
    <2>2. QED
      BY <1>b, <2>1
  <1>2. ASSUME NEW j \in Job, NEW q \in Phone, Revoke(j, q)
        PROVE  answer'[p] = "left"
    <2>1. config' = Without(config, q) /\ answer' = [answer EXCEPT ![q] = "left"]
      BY <1>2, <1>a DEF Revoke
    <2>2. p = q
      BY <1>0, <2>1, WithoutConfig
    <2>3. QED
      BY <1>0, <2>1, <2>2 DEF TypeOK
  <1>3. ASSUME NEW j \in Job, NEW q \in Phone, Touch(j, q) PROVE FALSE
    <2>1. config' = Touched(config, q)
      BY <1>3 DEF Touch
    <2>2. QED
      BY <1>0, <2>1, TouchedConfig
  <1>4. ASSUME NEW j \in Job, Approve(j)
        PROVE  p \in evicted' /\ p \in config.fresh
    <2>1. job[j].phone \in Phone /\ Persist(j, job[j].phone)
      BY <1>0, <1>4, JobType DEF Approve
    <2>2. job[j].phone \notin Paired(config)
      BY <1>4 DEF Approve, Asked
    <2>3. QED
      BY <1>b, <2>1, <2>2
  <1>5. ASSUME NEW j \in Job, Finish(j) PROVE answer'[p] = "nack"
    <2>1. /\ job[j] # NoJob /\ job[j].kind = "pair" /\ job[j].st = "failed"
          /\ config' = job[j].prev /\ answer' = Told(job[j].phone, "nack")
      BY <1>5, <1>a DEF Finish, RolledBack
    <2>2. /\ answer[job[j].phone] = "waiting"
          /\ Paired(config) \subseteq Paired(job[j].prev) \cup {job[j].phone}
      BY <1>0, <2>1 DEF JobAgrees
    <2>3. p = job[j].phone
      BY <2>1, <2>2
    <2>4. p \in Phone
      BY <1>0 DEF Config, Paired
    <2>5. QED
      BY <1>0, <2>1, <2>2, <2>3, <2>4 DEF Told, TypeOK
  <1>6. ASSUME Restart PROVE FALSE
    BY <1>0, <1>6, BoundAssumption DEF Restart, TypeOK
  <1>7. \A j \in Job : ~Deny(j) /\ ~Land(j) /\ ~Fail(j)
    BY <1>a DEF Deny, Land, Fail
  <1>8. /\ ~CliLoad /\ ~CliEdit /\ ~CliSave /\ \A q \in Phone : ~CliPair(q)
        /\ ~UNCHANGED vars
    BY <1>a DEF CliLoad, CliEdit, CliSave, CliPair, vars
  <1>9. QED
    BY <1>1, <1>2, <1>3, <1>4, <1>5, <1>6, <1>7, <1>8 DEF Next

\* With handlers one at a time and no pair command, the running daemon forgets
\* a phone only when it left, was refused, or lost its place to a new peer,
\* which no phone that was ever seen does.
THEOREM ForgetsOnlyTheRefusedAlone ==
    ASSUME \A i, j \in Job : i = j, ~CliRuns
    PROVE  Spec => ForgetsOnlyTheRefused
  <1>1. Init => Asked
    BY DEF Init, Asked
  <1>2. IInv /\ Asked /\ [Next]_vars => Asked'
    BY AskedStep DEF IInv
  <1>3. ASSUME IInv, Asked, [Next]_vars
        PROVE  [\A p \in Paired(config) \ Paired(config') :
                  \/ restarts' # restarts
                  \/ answer'[p] \in {"left", "nack"}
                  \/ p \in evicted' /\ p \in config.fresh]_vars
    BY <1>3, ForgetsStep
  <1>4. QED
    BY <1>1, <1>2, <1>3, OneHandlerInvariant, PTL
    DEF Spec, ForgetsOnlyTheRefused
----------------------------------------------------------------------------
(* Overlapping handlers, and the pair command in the same file: memory     *)
(* alone, while every save succeeds and the daemon lives.                  *)

\* Nobody is asked and no save has failed; a phone that asked or was
\* acknowledged is in memory or left out, one that left is not in memory.
MemoryInv ==
    /\ \A j \in Job : job[j] # NoJob => job[j].st \notin {"asking", "failed"}
    /\ \A p \in Phone :
          /\ answer[p] \in {"waiting", "ack"} => p \in Paired(config) \cup evicted
          /\ answer[p] \in {"left", "gone"} => p \notin Paired(config)

LEMMA MemoryStep ==
    ASSUME ~Approval, TypeOK, MemoryInv, [Next]_vars,
           fails = 0, fails' = 0, restarts = 0, restarts' = 0
    PROVE  MemoryInv'
  <1> USE DEF MemoryInv
  <1>0. config \in Config /\ Paired(config)' = Paired(config')
    BY DEF TypeOK, Paired
  <1>a. ASSUME UNCHANGED <<config, job, answer, evicted>> PROVE MemoryInv'
    BY <1>0, <1>a
  <1>b. ASSUME NEW j \in Job, NEW kind \in {"pair", "revoke", "touch"},
               NEW p \in Phone, NEW c \in Config, Save(j, kind, p, c, config)
        PROVE  \A i \in Job : job'[i] # NoJob =>
                 job'[i].st \notin {"asking", "failed"}
    <2>1. job'[j] = [kind |-> kind, phone |-> p, config |-> c,
                     prev |-> config, st |-> "writing"]
      BY <1>0, <1>b, SaveType DEF TypeOK
    <2>2. \A i \in Job \ {j} : job'[i] = job[i]
      BY <1>b DEF Save, TypeOK
    <2>3. QED
      BY <2>1, <2>2
  <1>1. ASSUME NEW j \in Job, NEW p \in Phone, Offer(j, p) PROVE MemoryInv'
    <2>1. CASE p \in Paired(config)
      <3>1. /\ UNCHANGED <<config, job, evicted>>
            /\ answer' = [answer EXCEPT ![p] = "ack"]
        BY <1>1, <2>1 DEF Offer
      <3>2. QED
        BY <1>0, <2>1, <3>1 DEF TypeOK
    <2>2. CASE p \notin Paired(config)
      <3>1. Persist(j, p) /\ answer' = [answer EXCEPT ![p] = "waiting"]
        BY <1>1, <2>2 DEF Offer
      <3>2. /\ Paired(config') \subseteq Paired(config) \cup {p}
            /\ evicted' = (evicted \cup Paired(config) \cup {p})
                            \ Paired(config')
            /\ job'[j] = [kind |-> "pair", phone |-> p, config |-> config',
                          prev |-> config, st |-> "writing"]
            /\ \A i \in Job \ {j} : job'[i] = job[i]
        BY ONLY <3>1, TypeOK, PersistMeaning
      <3>3. \A i \in Job : job'[i] # NoJob =>
              job'[i].st \notin {"asking", "failed"}
        BY <3>2
      <3>4. \A q \in Phone \ {p} : answer'[q] = answer[q]
        BY <3>1 DEF TypeOK
      <3>5. answer'[p] = "waiting"
        BY <3>1 DEF TypeOK
      <3>6. QED
        BY <1>0, <3>2, <3>3, <3>4, <3>5
    <2>3. QED
      BY <2>1, <2>2
  <1>2. ASSUME NEW j \in Job, NEW p \in Phone, Revoke(j, p) PROVE MemoryInv'
    <2>1. answer' = [answer EXCEPT ![p] = "left"] /\ evicted' = evicted
      BY <1>2 DEF Revoke
    <2>2. CASE p \in Paired(config)
      <3>1. config' = Without(config, p) /\ Save(j, "revoke", p, config', config)
        BY <1>2, <2>2 DEF Revoke
      <3>2. config' \in Config /\ Paired(config') = Paired(config) \ {p}
        BY <1>0, <3>1, WithoutConfig
      <3>3. \A i \in Job : job'[i] # NoJob =>
              job'[i].st \notin {"asking", "failed"}
        BY <1>b, <3>1, <3>2
      <3>4. QED
        BY <1>0, <2>1, <3>2, <3>3 DEF TypeOK
    <2>3. CASE p \notin Paired(config)
      <3>1. UNCHANGED <<config, job>>
        BY <1>2, <2>3 DEF Revoke
      <3>2. QED
        BY <1>0, <2>1, <2>3, <3>1 DEF TypeOK
    <2>4. QED
      BY <2>2, <2>3
  <1>3. ASSUME NEW j \in Job, NEW p \in Phone, Touch(j, p) PROVE MemoryInv'
    <2>1. /\ config' = Touched(config, p) /\ p \in Paired(config)
          /\ Save(j, "touch", p, config', config)
          /\ UNCHANGED <<answer, evicted>>
      BY <1>3 DEF Touch
    <2>2. config' \in Config /\ Paired(config') = Paired(config) \cup {p}
      BY <1>0, <2>1, TouchedConfig
    <2>3. Paired(config') = Paired(config)
      BY <2>1, <2>2
    <2>4. \A i \in Job : job'[i] # NoJob =>
            job'[i].st \notin {"asking", "failed"}
      BY <1>b, <2>1, <2>2
    <2>5. QED
      BY <1>0, <2>1, <2>3, <2>4
  <1>4. ASSUME NEW j \in Job, Land(j) PROVE MemoryInv'
    <2>1. /\ job[j] # NoJob /\ job' = [job EXCEPT ![j].st = "landed"]
          /\ UNCHANGED <<config, answer, evicted>>
      BY <1>4 DEF Land
    <2>2. job[j] \in JobRec /\ job'[j] = [job[j] EXCEPT !.st = "landed"]
      BY <2>1, JobType, JobStateType DEF JobStates
    <2>3. job'[j].st = "landed" /\ \A i \in Job \ {j} : job'[i] = job[i]
      BY <2>1, <2>2 DEF JobRec, TypeOK
    <2>4. QED
      BY <1>0, <2>1, <2>3
  <1>5. ASSUME NEW j \in Job, Finish(j) PROVE MemoryInv'
    <2>1. /\ job[j] # NoJob /\ job[j].st = "landed" /\ job[j].phone \in Phone
          /\ job' = [job EXCEPT ![j] = NoJob]
          /\ UNCHANGED <<config, evicted>>
      BY <1>5, JobType DEF Finish
    <2>2. \A i \in Job : job'[i] # NoJob => job'[i] = job[i]
      BY <2>1 DEF TypeOK
    <2>3. \A q \in Phone :
            \/ answer'[q] = answer[q]
            \/ answer[q] = "waiting" /\ answer'[q] = "ack"
            \/ answer[q] = "left" /\ answer'[q] = "gone"
      BY <1>5, <2>1 DEF Finish, Told, TypeOK
    <2>4. QED
      BY <1>0, <2>1, <2>2, <2>3
  <1>6. ASSUME NEW p \in Phone, CliPair(p) PROVE MemoryInv'
    <2>1. /\ answer' = [answer EXCEPT ![p] = "cliAck"]
          /\ UNCHANGED <<config, job, evicted>>
      BY <1>6 DEF CliPair
    <2>2. QED
      BY <1>0, <2>1 DEF TypeOK
  <1>7. ASSUME CliSave PROVE MemoryInv'
    <2>1. UNCHANGED <<config, job, evicted>>
      BY <1>7 DEF CliSave
    <2>2. \A q \in Phone : answer'[q] = answer[q] \/ answer'[q] = "cliGone"
      BY <1>7 DEF CliSave, TypeOK
    <2>3. QED
      BY <1>0, <2>1, <2>2
  <1>8. ASSUME CliLoad \/ CliEdit \/ UNCHANGED vars PROVE MemoryInv'
    BY <1>8, <1>a DEF CliLoad, CliEdit, vars
  <1>9. ~Restart /\ \A j \in Job : ~Approve(j) /\ ~Deny(j) /\ ~Fail(j)
    BY DEF Restart, Approve, Deny, Fail
  <1>10. QED
    BY <1>1, <1>2, <1>3, <1>4, <1>5, <1>6, <1>7, <1>8, <1>9 DEF Next

\* While no save fails and the daemon lives, memory holds every acknowledged
\* phone that addPairedPeer kept and no phone that left, however handlers and
\* the pair command overlap.
THEOREM MemoryStaysRight ==
    ASSUME ~Approval
    PROVE  Spec /\ [](fails = 0 /\ restarts = 0) => []MemoryIsRight
  <1>1. Init => MemoryInv
    BY DEF Init, MemoryInv
  <1>2. /\ TypeOK /\ MemoryInv /\ [Next]_vars
        /\ (fails = 0 /\ restarts = 0) /\ (fails = 0 /\ restarts = 0)'
        => MemoryInv'
    BY MemoryStep
  <1>3. MemoryInv => MemoryIsRight
    BY DEF MemoryInv, MemoryIsRight
  <1>4. QED
    BY <1>1, <1>2, <1>3, TypeCorrect, PTL DEF Spec
----------------------------------------------------------------------------
(* One handler at a time again: a mirrored revocation is final.            *)

\* No rollback can bring back a phone whose revocation was mirrored; while a
\* revocation is under way its phone has left memory and the hot list.
GoneInv ==
    /\ GoneStaysGone
    /\ \A j \in Job : job[j] # NoJob =>
          /\ job[j].kind = "pair" =>
               \A p \in Paired(job[j].prev) : answer[p] # "gone"
          /\ job[j].kind = "revoke" =>
               /\ answer[job[j].phone] = "left"
               /\ job[j].phone \notin Paired(config)
               /\ peers[job[j].phone] = 0

LEMMA GoneStep ==
    ASSUME \A i, j \in Job : i = j, ~CliRuns, IInv, GoneInv, [Next]_vars
    PROVE  GoneInv'
  <1> USE DEF GoneInv, GoneStaysGone
  <1>0. /\ TypeOK /\ config \in Config /\ disk \in Config
        /\ Paired(config)' = Paired(config') /\ Paired(disk)' = Paired(disk')
        /\ \A j \in Job : job[j] # NoJob => JobAgrees(job[j])
    BY DEF IInv, TypeOK, Paired
  <1>a. ASSUME NEW j \in Job, job'[j] = NoJob, GoneStaysGone' PROVE GoneInv'
    BY <1>a
  <1>b. ASSUME NEW j \in Job, NEW p \in Phone, Persist(j, p),
               answer' = [answer EXCEPT ![p] = "waiting"],
               UNCHANGED <<peers, disk>>
        PROVE  GoneInv'
    <2>1. /\ Paired(config') \subseteq Paired(config) \cup {p}
          /\ job'[j] = [kind |-> "pair", phone |-> p, config |-> config',
                        prev |-> config, st |-> "writing"]
      BY ONLY <1>0, <1>b, PersistMeaning
    <2>2. \A q \in Phone : answer'[q] = "gone" => answer[q] = "gone" /\ q # p
      BY <1>0, <1>b DEF TypeOK
    <2>3. GoneStaysGone'
      BY <1>0, <1>b, <2>1, <2>2
    <2>4. Paired(job'[j].prev) = Paired(config)
      BY <2>1
    <2>5. \A q \in Paired(config) : q \in Phone /\ answer[q] # "gone"
      BY <1>0 DEF Config, Paired
    <2>6. Paired(job[j].prev)' = Paired(job'[j].prev)
      BY DEF Paired
    <2>7. QED
      BY <2>1, <2>2, <2>3, <2>4, <2>5, <2>6
  <1>1. ASSUME NEW j \in Job, NEW p \in Phone, Offer(j, p) PROVE GoneInv'
    <2>1. job[j] = NoJob /\ UNCHANGED <<peers, disk>>
      BY <1>1 DEF Offer, Fresh
    <2>2. CASE p \in Paired(config)
      <3>1. UNCHANGED <<config, job>> /\ answer' = [answer EXCEPT ![p] = "ack"]
        BY <1>1, <2>2 DEF Offer
      <3>2. GoneStaysGone'
        BY <1>0, <2>1, <3>1 DEF TypeOK
      <3>3. QED
        BY <1>a, <2>1, <3>1, <3>2
    <2>3. CASE p \notin Paired(config) /\ Approval
      <3>1. /\ config' = config
            /\ answer' = [answer EXCEPT ![p] = "waiting"]
            /\ job' = [job EXCEPT ![j] =
                         [kind |-> "pair", phone |-> p, config |-> config,
                          prev |-> config, st |-> "asking"]]
        BY <1>1, <2>3 DEF Offer
      <3>2. \A q \in Phone : answer'[q] = "gone" => answer[q] = "gone"
        BY <1>0, <3>1 DEF TypeOK
      <3>3. GoneStaysGone'
        BY <1>0, <2>1, <3>1, <3>2
      <3>4. job'[j] = [kind |-> "pair", phone |-> p, config |-> config,
                       prev |-> config, st |-> "asking"]
        BY <1>0, <3>1 DEF TypeOK
      <3>5. \A q \in Paired(config) : answer'[q] # "gone"
        BY <1>0, <3>2 DEF Config, Paired
      <3>6. Paired(job[j].prev)' = Paired(config)
        BY <3>4 DEF Paired
      <3>7. QED
        BY <3>3, <3>4, <3>5, <3>6
    <2>4. CASE p \notin Paired(config) /\ ~Approval
      BY <1>1, <1>b, <2>1, <2>4 DEF Offer
    <2>5. QED
      BY <2>2, <2>3, <2>4
  <1>2. ASSUME NEW j \in Job, NEW p \in Phone, Revoke(j, p) PROVE GoneInv'
    <2>1. /\ job[j] = NoJob /\ answer' = [answer EXCEPT ![p] = "left"]
          /\ disk' = disk
      BY <1>2 DEF Revoke, Fresh
    <2>2. /\ answer'[p] = "left"
          /\ \A q \in Phone : answer'[q] = "gone" => answer[q] = "gone"
      BY <1>0, <2>1 DEF TypeOK
    <2>3. CASE p \in Paired(config)
      <3>1. /\ config' = Without(config, p) /\ peers' = NotHot(p)
            /\ Save(j, "revoke", p, config', config)
        BY <1>2, <2>3 DEF Revoke
      <3>2. config' \in Config /\ Paired(config') = Paired(config) \ {p}
        BY <1>0, <3>1, WithoutConfig
      <3>3. \A q \in Phone : peers'[q] = IF q = p THEN 0 ELSE peers[q]
        BY <1>0, <3>1 DEF NotHot, TypeOK
      <3>4. job'[j] = [kind |-> "revoke", phone |-> p, config |-> config',
                       prev |-> config, st |-> "writing"]
        BY <1>0, <3>1, <3>2, SaveType DEF TypeOK
      <3>5. GoneStaysGone'
        BY <1>0, <2>1, <2>2, <3>2, <3>3
      <3>6. QED
        BY <1>0, <2>2, <3>2, <3>3, <3>4, <3>5
    <2>4. CASE p \notin Paired(config)
      <3>1. UNCHANGED <<config, peers, job>>
        BY <1>2, <2>4 DEF Revoke
      <3>2. GoneStaysGone'
        BY <1>0, <2>1, <2>2, <3>1
      <3>3. QED
        BY <1>a, <2>1, <3>1, <3>2
    <2>5. QED
      BY <2>3, <2>4
  <1>3. ASSUME NEW j \in Job, NEW p \in Phone, Touch(j, p) PROVE GoneInv'
    <2>1. /\ config' = Touched(config, p) /\ p \in Paired(config)
          /\ Save(j, "touch", p, config', config)
          /\ UNCHANGED <<peers, disk, answer>>
      BY <1>3 DEF Touch
    <2>2. config' \in Config /\ Paired(config') = Paired(config) \cup {p}
      BY <1>0, <2>1, TouchedConfig
    <2>3. Paired(config') = Paired(config)
      BY <2>1, <2>2
    <2>4. job'[j] = [kind |-> "touch", phone |-> p, config |-> config',
                     prev |-> config, st |-> "writing"]
      BY <1>0, <2>1, <2>2, SaveType DEF TypeOK
    <2>5. QED
      BY <1>0, <2>1, <2>3, <2>4
  <1>4. ASSUME NEW j \in Job, Approve(j) PROVE GoneInv'
    <2>1. /\ job[j] # NoJob /\ job[j].st = "asking" /\ job[j].phone \in Phone
          /\ Persist(j, job[j].phone) /\ UNCHANGED <<peers, disk, answer>>
      BY <1>0, <1>4, JobType DEF Approve
    <2>2. answer[job[j].phone] = "waiting"
      BY <1>0, <2>1 DEF JobAgrees
    <2>3. answer' = [answer EXCEPT ![job[j].phone] = "waiting"]
      BY <1>0, <2>1, <2>2 DEF TypeOK
    <2>4. QED
      BY <1>b, <2>1, <2>3
  <1>5. ASSUME NEW j \in Job, Deny(j) PROVE GoneInv'
    <2>1. /\ UNCHANGED <<config, peers, disk>> /\ job'[j] = NoJob
          /\ answer' = Told(job[j].phone, "nack") /\ job[j].phone \in Phone
      BY <1>0, <1>5, JobType DEF Deny, TypeOK
    <2>2. \A q \in Phone : answer'[q] = "gone" => answer[q] = "gone"
      BY <1>0, <2>1 DEF Told, TypeOK
    <2>3. QED
      BY <1>0, <1>a, <2>1, <2>2
  <1>6. ASSUME NEW j \in Job, Land(j) \/ Fail(j) PROVE GoneInv'
    <2>1. PICK st \in {"landed", "failed"} :
            /\ job[j] # NoJob /\ job' = [job EXCEPT ![j].st = st]
            /\ UNCHANGED <<config, peers, answer>>
      BY <1>6 DEF Land, Fail
    <2>2. job[j] \in JobRec /\ job'[j] = [job[j] EXCEPT !.st = st]
      BY <1>0, <2>1, JobType, JobStateType DEF JobStates
    <2>3. /\ job'[j].kind = job[j].kind /\ job'[j].phone = job[j].phone
          /\ job'[j].prev = job[j].prev
      BY <2>2 DEF JobRec
    <2>4. disk' = disk \/ disk' = config
      BY <1>0, <1>6 DEF Land, Fail, JobAgrees
    <2>5. GoneStaysGone'
      BY <1>0, <2>1, <2>4
    <2>6. Paired(job[j].prev)' = Paired(job[j].prev)
      BY <2>3 DEF Paired
    <2>7. QED
      BY <1>0, <2>1, <2>3, <2>5, <2>6
  <1>7. ASSUME NEW j \in Job, Finish(j) PROVE GoneInv'
    <2>1. /\ job[j] # NoJob /\ job[j].phone \in Phone /\ job'[j] = NoJob
          /\ job[j].st \in {"landed", "failed"} /\ disk' = disk
          /\ JobAgrees(job[j])
      BY <1>0, <1>7, JobType DEF Finish, TypeOK
    <2>2. CASE job[j].kind = "pair" /\ job[j].st = "landed"
      <3>1. /\ config' = config /\ peers' = HotAdded(job[j].phone)
            /\ answer' = Told(job[j].phone, "ack")
        BY <1>7, <2>2 DEF Finish
      <3>2. answer[job[j].phone] = "waiting"
        BY <2>1, <2>2 DEF JobAgrees
      <3>3. \A q \in Phone : answer'[q] = "gone" =>
              /\ answer[q] = "gone" /\ peers'[q] = peers[q]
        BY <1>0, <2>1, <3>1, <3>2 DEF Told, HotAdded, TypeOK
      <3>4. QED
        BY <1>0, <1>a, <2>1, <3>1, <3>3
    <2>3. CASE job[j].kind = "pair" /\ job[j].st = "failed"
      <3>1. /\ config' = job[j].prev /\ peers' = peers
            /\ answer' = Told(job[j].phone, "nack")
        BY <1>7, <2>3 DEF Finish, RolledBack
      <3>2. \A q \in Phone : answer'[q] = "gone" => answer[q] = "gone"
        BY <1>0, <2>1, <3>1 DEF Told, TypeOK
      <3>3. \A q \in Paired(config') : answer[q] # "gone"
        BY <2>1, <2>3, <3>1
      <3>4. QED
        BY <1>0, <1>a, <2>1, <3>1, <3>2, <3>3
    <2>4. CASE job[j].kind = "revoke" /\ job[j].st = "landed"
      <3>1. /\ UNCHANGED <<config, peers>>
            /\ \A q \in Phone : answer'[q] = "gone" =>
                 answer[q] = "gone" \/ q = job[j].phone
        BY <1>0, <1>7, <2>1, <2>4 DEF Finish, TypeOK
      <3>2. /\ Paired(disk) = Paired(config)
            /\ job[j].phone \notin Paired(config)
            /\ peers[job[j].phone] = 0
        BY <2>1, <2>4 DEF JobAgrees
      <3>3. QED
        BY <1>0, <1>a, <2>1, <3>1, <3>2
    <2>5. CASE /\ job[j].kind # "pair"
               /\ job[j].kind = "revoke" => job[j].st = "failed"
      <3>1. UNCHANGED <<config, peers, answer>>
        BY <1>7, <2>1, <2>5 DEF Finish
      <3>2. QED
        BY <1>0, <1>a, <2>1, <3>1
    <2>6. QED
      BY <2>1, <2>2, <2>3, <2>4, <2>5
  <1>8. ASSUME Restart PROVE GoneInv'
    BY <1>0, <1>8 DEF Restart, TypeOK
  <1>9. CASE UNCHANGED vars
    <2>1. UNCHANGED <<config, peers, disk, job, answer>>
      BY <1>9 DEF vars
    <2>2. \A j \in Job : Paired(job[j].prev)' = Paired(job[j].prev)
      BY <2>1 DEF Paired
    <2>3. QED
      BY <1>0, <2>1, <2>2
  <1>10. ~CliLoad /\ ~CliEdit /\ ~CliSave /\ \A p \in Phone : ~CliPair(p)
    BY DEF CliLoad, CliEdit, CliSave, CliPair, IInv
  <1>11. QED
    BY <1>1, <1>2, <1>3, <1>4, <1>5, <1>6, <1>7, <1>8, <1>9, <1>10 DEF Next

\* With handlers one at a time and no pair command, a phone whose revocation
\* the daemon has mirrored never comes back by itself: not from the file of a
\* restart, not from a rollback, not onto the hot list.
THEOREM GoneStaysGoneAlone ==
    ASSUME \A i, j \in Job : i = j, ~CliRuns
    PROVE  Spec => []GoneStaysGone
  <1>1. Init => GoneInv
    BY DEF Init, GoneInv, GoneStaysGone
  <1>2. IInv /\ GoneInv /\ [Next]_vars => GoneInv'
    BY GoneStep
  <1>3. GoneInv => GoneStaysGone
    BY DEF GoneInv
  <1>4. QED
    BY <1>1, <1>2, <1>3, OneHandlerInvariant, PTL DEF Spec
=============================================================================
