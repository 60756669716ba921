--------------------------- MODULE RelayHubProofs ---------------------------
(***************************************************************************)
(* What RelayHub's steps keep, for any phones, codes and bounds, and what  *)
(* the coordinator it draws its codes from keeps (PairingCoordinator).     *)
(***************************************************************************)
EXTENDS RelayHub, PairingCoordinator, FiniteSetTheorems, TLAPS

\* An offered socket belongs to a phone that is listed or was struck off.
OfferedIsListed ==
    \A p \in Phone : pair[p].stage = "offered" => p \in listed \/ kicked[p]

\* An ack that did not come early came after the relay listed the phone, and
\* the socket is still that one.
TimelyAckIsOffered ==
    \A p \in Phone :
      pair[p].acked /\ ~pair[p].early => pair[p].stage = "offered"

ListInv == /\ SessionsAreListed
           /\ OfferedIsListed
           /\ TimelyAckIsOffered
           /\ BelieverIsListed

\* The worker has p's claim of c, the durable object has not.
Holds(p, c) == pair[p].stage = "claimed" /\ pair[p].code = c

\* The command's register_pairing of c is under way.
Sent(c) == \E i \in DOMAIN up["cli"] : /\ up["cli"][i].type = "register"
                                       /\ up["cli"][i].code = c

\* Nobody has been let in with c, nobody is about to be.
Unspent(c) == admitted[c] = {} /\ \A p \in Phone : ~Holds(p, c)

\* A code has one place at a time: not drawn yet, on its way to the relay,
\* claimable, held by one claim, or spent by one phone.
OnePlace ==
    \A c \in OneTime :
      /\ c \notin drawn => ~Sent(c) /\ c \notin claimable /\ Unspent(c)
      /\ Sent(c) => c \notin claimable /\ Unspent(c)
      /\ c \in claimable => Unspent(c)
      /\ \A p \in Phone : Holds(p, c) =>
            admitted[c] = {} /\ \A q \in Phone : Holds(q, c) => q = p
      /\ \A p, q \in admitted[c] : p = q

\* The command registers first and once, the daemon only its own code.
RegistersOnce ==
    /\ \A i \in DOMAIN up["cli"] : up["cli"][i].type = "register" => i = 1
    /\ \A i \in DOMAIN up["daemon"] :
          up["daemon"][i].type = "register" => up["daemon"][i].code \in Gen

CodeInv == OnePlace /\ RegistersOnce

----------------------------------------------------------------------------

LEMMA IdleTyped == Idle \in Attempt
BY DEF Idle, Attempt

LEMMA StageTyped ==
    ASSUME NEW a \in Attempt, NEW st \in {"none", "claimed"} \cup Held
    PROVE  [a EXCEPT !.stage = st] \in Attempt
BY DEF Attempt

LEMMA ClosedTyped ==
    ASSUME TypeOK, NEW p \in Phone
    PROVE  Closed(p) \in [Phone -> Attempt]
<1>1. pair[p] \in Attempt /\ "late" \in Held
  BY DEF TypeOK, Held
<1>2. [pair[p] EXCEPT !.stage = "late"] \in Attempt
  BY <1>1, StageTyped
<1> QED
  BY <1>2, IdleTyped DEF Closed, TypeOK

LEMMA AfterOfferTyped ==
    ASSUME TypeOK, NEW p \in Phone, NEW st \in Held
    PROVE  AfterOffer(p, st) \in Attempt
<1>1. pair[p] \in Attempt
  BY DEF TypeOK
<1>2. [pair[p] EXCEPT !.stage = st] \in Attempt
  BY <1>1, StageTyped
<1> QED
  BY <1>2, IdleTyped DEF AfterOffer

LEMMA PeersTyped ==
    ASSUME NEW c \in Config, NEW S \in SUBSET Phone
    PROVE  [c EXCEPT !.peers = S] \in Config
BY DEF Config

LEMMA ClearedTyped ==
    ASSUME TypeOK, NEW s \in Src
    PROVE  /\ [up EXCEPT ![s] = <<>>] \in [Src -> Seq(Frame)]
           /\ [down EXCEPT ![s] = <<>>] \in [Src -> Seq(Notice)]
<1>1. <<>> \in Seq(Frame) /\ <<>> \in Seq(Notice)
  OBVIOUS
<1> QED
  BY <1>1 DEF TypeOK

LEMMA SendTyped ==
    ASSUME TypeOK, NEW s \in Src, NEW f \in Frame, Send(s, f)
    PROVE  up' \in [Src -> Seq(Frame)]
BY DEF Send, TypeOK

LEMMA BroadcastTyped ==
    ASSUME TypeOK, NEW n \in Notice, Broadcast(n)
    PROVE  down' \in [Src -> Seq(Notice)]
BY DEF Broadcast, TypeOK

LEMMA LossTyped ==
    ASSUME TypeOK, Loss
    PROVE  losses' \in 0 .. MaxLosses
BY BoundAssumption DEF Loss, TypeOK

LEMMA FrameTyped ==
    /\ \A c \in Code : [type |-> "register", code |-> c] \in Frame
    /\ [type |-> "ack"] \in Frame
    /\ \A p \in Phone : [type |-> "kick", phone |-> p] \in Frame
BY DEF Frame

LEMMA NoticeTyped ==
    \A p \in Phone : /\ [type |-> "offer", phone |-> p] \in Notice
                     /\ [type |-> "left", phone |-> p] \in Notice
BY DEF Notice

LEMMA TypeInit == Init => TypeOK
<1> SUFFICES ASSUME Init PROVE TypeOK
  OBVIOUS
<1>1. 1 \in Gen
  BY BoundAssumption DEF Gen
<1>2. file \in Config /\ config \in Config
  BY <1>1 DEF Init, Config
<1>3. cli \in [waiting : BOOLEAN, config : Config]
  BY <1>2 DEF Init
<1>4. pair \in [Phone -> Attempt]
  BY DEF Init, Idle, Attempt
<1>5. up \in [Src -> Seq(Frame)] /\ down \in [Src -> Seq(Notice)]
  BY DEF Init
<1>6. losses \in 0 .. MaxLosses /\ claims \in 0 .. MaxClaims
  BY BoundAssumption DEF Init
<1> QED
  BY <1>1, <1>2, <1>3, <1>4, <1>5, <1>6 DEF Init, TypeOK

LEMMA TypePhones == ASSUME TypeOK, NEW p \in Phone, PhoneNext(p) PROVE TypeOK'
<1>1. ASSUME NEW c \in Code, PhoneClaims(p, c) PROVE TypeOK'
  <2>1. claims' \in 0 .. MaxClaims
    BY <1>1, BoundAssumption DEF PhoneClaims, TypeOK
  <2>2. pair' \in [Phone -> Attempt]
    <3>1. [Idle EXCEPT !.stage = "claimed", !.code = c] \in Attempt
      BY DEF Idle, Attempt
    <3> QED
      BY <1>1, <3>1 DEF PhoneClaims, TypeOK
  <2> QED
    BY <1>1, <2>1, <2>2 DEF PhoneClaims, Claimed, TypeOK, cliVars, linkVars,
       confVars
<1>2. CASE AcceptPhone(p)
  <2>1. pair' \in [Phone -> Attempt]
    <3>1. [pair[p] EXCEPT !.stage = "hello"] \in Attempt
      BY StageTyped DEF TypeOK, Held
    <3> QED
      BY <1>2, <3>1, IdleTyped DEF AcceptPhone, TypeOK
  <2>2. admitted' \in [OneTime -> SUBSET Phone]
    BY <1>2 DEF AcceptPhone, TypeOK
  <2> QED
    BY <1>2, <2>1, <2>2 DEF AcceptPhone, TypeOK, cliVars, linkVars, confVars
<1>3. CASE HearInit(p)
  <2>1. pair' \in [Phone -> Attempt]
    <3>1. [pair[p] EXCEPT !.stage = "sent"] \in Attempt
      BY StageTyped DEF TypeOK, Held
    <3> QED
      BY <1>3, <3>1 DEF HearInit, TypeOK
  <2> QED
    BY <1>3, <2>1 DEF HearInit, TypeOK, relayVars, cliVars, linkVars, confVars
<1>4. CASE HandleOffer(p)
  <2>1. pair' \in [Phone -> Attempt]
    <3>1. AfterOffer(p, "offered") \in Attempt
          /\ AfterOffer(p, "passed") \in Attempt
      BY AfterOfferTyped DEF Held
    <3> QED
      BY <1>4, <3>1, IdleTyped DEF HandleOffer, TypeOK
  <2>2. down' \in [Src -> Seq(Notice)]
    BY <1>4, BroadcastTyped, NoticeTyped DEF HandleOffer, TypeOK
  <2> QED
    BY <1>4, <2>1, <2>2 DEF HandleOffer, Listed, TypeOK, cliVars, confVars
<1>5. CASE HearAck(p)
  <2>1. pair' \in [Phone -> Attempt]
    BY <1>5, ClosedTyped DEF HearAck
  <2>2. stray' \in [Phone -> BOOLEAN]
    BY <1>5 DEF HearAck, TypeOK, Attempt
  <2> QED
    BY <1>5, <2>1, <2>2 DEF HearAck, TypeOK, relayVars, cliVars, linkVars,
       confVars
<1>6. CASE GiveUp(p)
  BY <1>6, ClosedTyped, LossTyped DEF GiveUp, TypeOK, relayVars, cliVars,
     confVars
<1>7. CASE Reconnect(p)
  BY <1>7 DEF Reconnect, TypeOK, relayVars, cliVars, linkVars, confVars
<1>8. CASE SessionDrops(p)
  BY <1>8, LossTyped DEF SessionDrops, TypeOK, relayVars, cliVars, confVars
<1>9. CASE Leave(p)
  BY <1>9 DEF Leave, TypeOK, relayVars, cliVars, linkVars, confVars
<1>10. CASE HandleLeave(p)
  <2>1. down' \in [Src -> Seq(Notice)]
    BY <1>10, BroadcastTyped, NoticeTyped DEF HandleLeave
  <2> QED
    BY <1>10, <2>1 DEF HandleLeave, TypeOK, cliVars, confVars
<1> QED
  BY <1>1, <1>2, <1>3, <1>4, <1>5, <1>6, <1>7, <1>8, <1>9, <1>10 DEF PhoneNext

LEMMA TypeRelay ==
    ASSUME TypeOK, NEW s \in Src, HandleDaemonMessage(s)
    PROVE  TypeOK'
<1> DEFINE f == Head(up[s])
<1>1. up[s] \in Seq(Frame) /\ f \in Frame
  BY DEF TypeOK, HandleDaemonMessage
<1>2. up' \in [Src -> Seq(Frame)]
  BY <1>1 DEF TypeOK, HandleDaemonMessage
<1>3. CASE f.type = "register" /\ Register(f.code)
  <2>1. f.code \in Code
    BY <1>1, <1>3 DEF Frame
  <2> QED
    BY <1>2, <1>3, <2>1 DEF HandleDaemonMessage, Register, TypeOK, cliVars,
       confVars
<1>4. CASE f.type = "ack" /\ Ack
  <2>1. pair' \in [Phone -> Attempt]
    <3>1. \A q \in Phone :
            [pair[q] EXCEPT !.acked = TRUE,
                            !.early = pair[q].stage # "offered"] \in Attempt
      <4> TAKE q \in Phone
      <4>1. pair[q] \in Attempt /\ (pair[q].stage # "offered") \in BOOLEAN
        BY DEF TypeOK
      <4> QED
        BY <4>1 DEF Attempt
    <3> QED
      BY <1>4, <3>1 DEF Ack, TypeOK
  <2> QED
    BY <1>2, <1>4, <2>1 DEF HandleDaemonMessage, Ack, TypeOK, cliVars, confVars
<1>5. CASE f.type = "kick" /\ Kick(f.phone)
  <2>1. f.phone \in Phone
    BY <1>1, <1>5 DEF Frame
  <2>2. pair' \in [Phone -> Attempt]
    BY <1>5, <2>1 DEF Kick, TypeOK, Attempt, Idle
  <2> QED
    BY <1>2, <1>5, <2>1, <2>2 DEF HandleDaemonMessage, Kick, ClosedFor, TypeOK,
       cliVars, confVars
<1> QED
  BY <1>3, <1>4, <1>5 DEF HandleDaemonMessage

LEMMA TypeDaemon == ASSUME TypeOK, DaemonNext PROVE TypeOK'
<1>0. "daemon" \in Src
  BY DEF Src
<1>1. CASE DaemonStarts
  BY <1>1 DEF DaemonStarts, TypeOK, relayVars, phoneVars, cliVars
<1>2. CASE DaemonReady
  <2>1. config.token \in Code
    BY DEF TypeOK, Config, Code
  <2>2. up' \in [Src -> Seq(Frame)]
    <3>1. [type |-> "register", code |-> config.token] \in Frame
      BY <2>1, FrameTyped
    <3>2. <<[type |-> "register", code |-> config.token]>> \in Seq(Frame)
      BY <3>1
    <3> QED
      BY <1>2, <3>2 DEF DaemonReady, TypeOK
  <2> QED
    BY <1>2, <2>2 DEF DaemonReady, TypeOK, relayVars, phoneVars, cliVars,
       confVars
<1>3. CASE LinkDrops
  BY <1>0, <1>3, LossTyped, ClearedTyped
  DEF LinkDrops, LinkLost, TypeOK, relayVars, phoneVars, cliVars
<1>4. CASE DaemonExits
  BY <1>0, <1>4, LossTyped, ClearedTyped
  DEF DaemonExits, LinkLost, TypeOK, relayVars, phoneVars, cliVars
<1>5. CASE DaemonHears
  <2> DEFINE n == Head(down["daemon"])
  <2>1. "daemon" \in Src /\ n \in Notice
    BY <1>5 DEF DaemonHears, TypeOK, Src
  <2>2. down' \in [Src -> Seq(Notice)]
    BY <1>5 DEF DaemonHears, TypeOK, Src
  <2>3. up' \in [Src -> Seq(Frame)]
    BY <1>5, <2>1, SendTyped, FrameTyped DEF DaemonHears, TypeOK
  <2>4. config' \in Config /\ file' \in Config /\ deciding' \subseteq Phone
    BY <1>5, <2>1 DEF DaemonHears, TypeOK, Config, Notice
  <2> QED
    BY <1>5, <2>2, <2>3, <2>4 DEF DaemonHears, TypeOK, relayVars, phoneVars,
       cliVars
<1>6. ASSUME NEW p \in Phone, Decide(p) PROVE TypeOK'
  <2>1. up' \in [Src -> Seq(Frame)]
    BY <1>6, SendTyped, FrameTyped DEF Decide, TypeOK, Src
  <2>2. config' \in Config /\ file' \in Config
    <3>1. config.peers \cup {p} \in SUBSET Phone
      BY <1>6 DEF TypeOK, Config
    <3>2. [config EXCEPT !.peers = config.peers \cup {p}] \in Config
      BY <3>1, PeersTyped DEF TypeOK
    <3> QED
      BY <1>6, <3>2 DEF Decide, TypeOK
  <2> QED
    BY <1>6, <2>1, <2>2 DEF Decide, TypeOK, relayVars, phoneVars, cliVars
<1> QED
  BY <1>1, <1>2, <1>3, <1>4, <1>5, <1>6 DEF DaemonNext

LEMMA TypeCli == ASSUME TypeOK, CliNext PROVE TypeOK'
<1>0. "cli" \in Src
  BY DEF Src
<1>1. ASSUME NEW c \in OneTime, CliNew(c) PROVE TypeOK'
  <2>1. up' \in [Src -> Seq(Frame)]
    BY <1>0, <1>1, SendTyped, FrameTyped DEF CliNew, Code
  <2> QED
    BY <1>1, <2>1 DEF CliNew, TypeOK, relayVars, phoneVars, confVars
<1>2. CASE CliHears
  <2> DEFINE n == Head(down["cli"])
  <2>1. n \in Notice
    BY <1>0, <1>2 DEF CliHears, TypeOK
  <2>2. down' \in [Src -> Seq(Notice)]
    <3>1. [down EXCEPT !["cli"] = Tail(@)] \in [Src -> Seq(Notice)]
      BY <1>0, <1>2 DEF CliHears, TypeOK
    <3> QED
      BY <1>0, <1>2, <3>1, ClearedTyped DEF CliHears
  <2>3. up' \in [Src -> Seq(Frame)]
    BY <1>0, <1>2, SendTyped, FrameTyped DEF CliHears, TypeOK
  <2>4. file' \in Config /\ cli' \in [waiting : BOOLEAN, config : Config]
    <3>1. n.phone \in Phone /\ cli.config \in Config
      BY <2>1 DEF Notice, TypeOK
    <3>2. cli.config.peers \cup {n.phone} \in SUBSET Phone
      BY <3>1 DEF Config
    <3>3. [cli.config EXCEPT !.peers = cli.config.peers \cup {n.phone}]
            \in Config
      BY <3>1, <3>2, PeersTyped
    <3> QED
      BY <1>2, <3>3 DEF CliHears, CliGone, TypeOK
  <2> QED
    BY <1>2, <2>2, <2>3, <2>4 DEF CliHears, TypeOK, relayVars, phoneVars
<1>3. CASE CliEnds
  BY <1>0, <1>3, ClearedTyped
  DEF CliEnds, CliGone, TypeOK, relayVars, phoneVars, confVars
<1>4. CASE Rotate
  <2>1. minted' \in Gen
    BY <1>4, BoundAssumption DEF Rotate, TypeOK, Gen
  <2>2. file' \in Config
    BY <1>4, <2>1 DEF Rotate, TypeOK, Config
  <2> QED
    BY <1>4, <2>1, <2>2 DEF Rotate, TypeOK, relayVars, phoneVars, linkVars
<1>5. ASSUME NEW p \in Phone, CliRevoke(p) PROVE TypeOK'
  <2>1. up' \in [Src -> Seq(Frame)]
    BY <1>0, <1>5, SendTyped, FrameTyped DEF CliRevoke, TypeOK
  <2>2. file' \in Config
    BY <1>5 DEF CliRevoke, TypeOK, Config
  <2> QED
    BY <1>5, <2>1, <2>2 DEF CliRevoke, TypeOK, relayVars, phoneVars, cliVars
<1> QED
  BY <1>1, <1>2, <1>3, <1>4, <1>5 DEF CliNext

LEMMA TypeStep == TypeOK /\ [Next]_vars => TypeOK'
<1> SUFFICES ASSUME TypeOK, [Next]_vars PROVE TypeOK'
  OBVIOUS
<1>1. ASSUME NEW c \in OneTime, CodeExpires(c) PROVE TypeOK'
  BY <1>1 DEF CodeExpires, TypeOK, phoneVars, cliVars, linkVars, confVars
<1>2. CASE UNCHANGED vars
  BY <1>2 DEF TypeOK, vars, relayVars, phoneVars, cliVars, linkVars, confVars
<1> QED
  BY <1>1, <1>2, TypePhones, TypeRelay, TypeDaemon, TypeCli DEF Next

\* Every reachable state is well typed: no action of the relay, the phones,
\* the daemon or the pair command leaves a variable of another kind behind.
THEOREM TypeCorrect == Spec => []TypeOK
<1> QED
  BY TypeInit, TypeStep, PTL DEF Spec

----------------------------------------------------------------------------

\* The daemon and the command change the relay only through their frames.
LEMMA RelayApart ==
    DaemonNext \/ CliNext => UNCHANGED <<relayVars, phoneVars>>
BY DEF DaemonNext, DaemonStarts, DaemonReady, LinkDrops, DaemonExits, LinkLost,
   DaemonHears, Decide, CliNext, CliNew, CliHears, CliEnds, Rotate, CliRevoke

LEMMA ListInit == Init => ListInv
BY DEF Init, Idle, ListInv, SessionsAreListed, OfferedIsListed,
   TimelyAckIsOffered, BelieverIsListed

LEMMA ListPhones ==
    ASSUME TypeOK, ListInv, NEW p \in Phone, PhoneNext(p)
    PROVE  ListInv'
<1> USE DEF ListInv, SessionsAreListed, OfferedIsListed, TimelyAckIsOffered,
            BelieverIsListed
<1>0. pair[p] \in Attempt /\ Idle.stage = "none" /\ ~Idle.acked
  BY DEF TypeOK, Idle
<1>1. ASSUME NEW c \in Code, PhoneClaims(p, c) PROVE ListInv'
  BY <1>1 DEF PhoneClaims, TypeOK, Idle
<1>2. CASE AcceptPhone(p)
  BY <1>0, <1>2 DEF AcceptPhone, TypeOK, Attempt
<1>3. CASE HearInit(p)
  BY <1>0, <1>3 DEF HearInit, TypeOK, Attempt, relayVars
<1>4. CASE HandleOffer(p)
  <2>1. CASE ~pair[p].acked /\ listed' = Listed(p)
             /\ kicked' = [kicked EXCEPT ![p] = FALSE]
             /\ pair' = [pair EXCEPT ![p] = AfterOffer(p, "offered")]
    BY <1>0, <1>4, <2>1 DEF HandleOffer, Listed, AfterOffer, TypeOK, Attempt
  <2>2. CASE pair' = [pair EXCEPT ![p] = Idle] /\ UNCHANGED <<listed, kicked>>
    BY <1>0, <1>4, <2>2 DEF HandleOffer, TypeOK
  <2>3. CASE pair[p].acked /\ UNCHANGED <<listed, kicked>>
             /\ pair' = [pair EXCEPT ![p] = AfterOffer(p, "passed")]
    BY <1>0, <1>4, <2>3 DEF HandleOffer, AfterOffer, TypeOK, Attempt
  <2> QED
    BY <1>4, <2>1, <2>2, <2>3 DEF HandleOffer
<1>5. CASE HearAck(p)
  BY <1>0, <1>5 DEF HearAck, Closed, TypeOK, Attempt, relayVars
<1>6. CASE GiveUp(p)
  BY <1>0, <1>6 DEF GiveUp, Closed, TypeOK, Attempt, relayVars
<1>7. CASE Reconnect(p)
  BY <1>7 DEF Reconnect, TypeOK, relayVars
<1>8. CASE SessionDrops(p)
  BY <1>8 DEF SessionDrops, TypeOK, relayVars
<1>9. CASE Leave(p)
  BY <1>9 DEF Leave, TypeOK, relayVars
<1>10. CASE HandleLeave(p)
  BY <1>10 DEF HandleLeave, TypeOK
<1> QED
  BY <1>1, <1>2, <1>3, <1>4, <1>5, <1>6, <1>7, <1>8, <1>9, <1>10 DEF PhoneNext

LEMMA ListRelay ==
    ASSUME TypeOK, ListInv, NEW s \in Src, HandleDaemonMessage(s)
    PROVE  ListInv'
<1> USE DEF ListInv, SessionsAreListed, OfferedIsListed, TimelyAckIsOffered,
            BelieverIsListed
<1> DEFINE f == Head(up[s])
<1>1. f \in Frame
  BY DEF TypeOK, HandleDaemonMessage
<1>2. CASE f.type = "register" /\ Register(f.code)
  BY <1>2 DEF HandleDaemonMessage, Register
<1>3. CASE f.type = "ack" /\ Ack
  <2>1. \A p \in Phone :
          /\ pair'[p].stage = pair[p].stage
          /\ pair'[p].acked /\ ~pair'[p].early => pair[p].stage = "offered"
    <3> TAKE p \in Phone
    <3>1. pair[p] \in Attempt
      BY DEF TypeOK
    <3> QED
      BY <1>3, <3>1 DEF Ack, Attempt
  <2> QED
    BY <1>3, <2>1 DEF HandleDaemonMessage, Ack
<1>4. CASE f.type = "kick" /\ Kick(f.phone)
  <2>1. f.phone \in Phone
    BY <1>1, <1>4 DEF Frame
  <2> QED
    BY <1>4, <2>1 DEF HandleDaemonMessage, Kick, ClosedFor, TypeOK, Idle
<1> QED
  BY <1>2, <1>3, <1>4 DEF HandleDaemonMessage

LEMMA ListStep == TypeOK /\ ListInv /\ [Next]_vars => ListInv'
<1> SUFFICES ASSUME TypeOK, ListInv, [Next]_vars PROVE ListInv'
  OBVIOUS
<1>1. ASSUME UNCHANGED <<listed, phoneVars>> PROVE ListInv'
  BY <1>1 DEF ListInv, SessionsAreListed, OfferedIsListed, TimelyAckIsOffered,
     BelieverIsListed, phoneVars
<1>2. ASSUME NEW c \in OneTime, CodeExpires(c)
      PROVE  UNCHANGED <<listed, phoneVars>>
  BY <1>2 DEF CodeExpires
<1>3. DaemonNext \/ CliNext => UNCHANGED <<listed, phoneVars>>
  BY RelayApart DEF relayVars
<1>4. UNCHANGED vars => UNCHANGED <<listed, phoneVars>>
  BY DEF vars, relayVars
<1> QED
  BY <1>1, <1>2, <1>3, <1>4, ListPhones, ListRelay DEF Next

\* Every reachable state keeps the lists: what PhonesAreListed and
\* BelieversAreListed rest on.
THEOREM ListsKept == Spec => [](TypeOK /\ ListInv)
<1> QED
  BY TypeInit, TypeStep, ListInit, ListStep, PTL DEF Spec

\* Whatever the daemon, the command and the phones send in whatever order, a
\* session at the relay belongs to a phone that is still paired.
THEOREM PhonesAreListed == Spec => []SessionsAreListed
<1>1. TypeOK /\ ListInv => SessionsAreListed
  BY DEF ListInv
<1> QED
  BY <1>1, ListsKept, PTL

\* A phone whose pairing was acknowledged after its offer stays able to come
\* back until it leaves or is revoked.
THEOREM BelieversAreListed == Spec => []BelieverIsListed
<1>1. TypeOK /\ ListInv => BelieverIsListed
  BY DEF ListInv
<1> QED
  BY <1>1, ListsKept, PTL

----------------------------------------------------------------------------

LEMMA CodeInit == Init => CodeInv
BY DEF Init, Idle, Src, CodeInv, OnePlace, RegistersOnce, Sent, Unspent, Holds

\* A step that touches neither a code's frames nor its claims keeps OnePlace.
LEMMA CodeKept ==
    ASSUME CodeInv,
           UNCHANGED <<admitted, claimable, drawn>>,
           \A c \in OneTime : Sent(c)' <=> Sent(c),
           \A c \in OneTime, p \in Phone : Holds(p, c)' => Holds(p, c)
    PROVE  OnePlace'
BY DEF CodeInv, OnePlace, Unspent

\* Only the worker and the durable object's accept change who holds a code.
LEMMA CodePhones ==
    ASSUME TypeOK, CodeInv, NEW p \in Phone, PhoneNext(p)
    PROVE  CodeInv'
<1>0. UNCHANGED <<up, drawn>>
  BY DEF PhoneNext, PhoneClaims, AcceptPhone, HearInit, HandleOffer, HearAck,
     GiveUp, Reconnect, SessionDrops, Leave, HandleLeave, cliVars, linkVars
<1>1. RegistersOnce' /\ \A c \in OneTime : Sent(c)' <=> Sent(c)
  BY <1>0 DEF CodeInv, RegistersOnce, Sent
<1>2. ASSUME NEW c \in Code, PhoneClaims(p, c) PROVE OnePlace'
  <2>1. \A d \in OneTime, q \in Phone :
          Holds(q, d)' <=> IF q = p THEN d = c ELSE Holds(q, d)
    BY <1>2 DEF PhoneClaims, TypeOK, Idle, Holds
  <2>2. claimable' = IF c \in OneTime THEN claimable \ {c} ELSE claimable
    BY <1>2 DEF PhoneClaims, Claimed
  <2>3. c \in claimable /\ UNCHANGED <<admitted, drawn>>
    BY <1>0, <1>2 DEF PhoneClaims
  <2> QED
    BY <1>1, <2>1, <2>2, <2>3 DEF CodeInv, OnePlace, Unspent
<1>3. CASE AcceptPhone(p)
  <2>1. \A d \in OneTime, q \in Phone :
          Holds(q, d)' <=> q # p /\ Holds(q, d)
    BY <1>3 DEF AcceptPhone, TypeOK, Attempt, Idle, Holds
  <2>2. \A d \in OneTime :
          \/ admitted'[d] = admitted[d]
          \/ Holds(p, d) /\ admitted'[d] = admitted[d] \cup {p}
    <3>1. admitted \in [OneTime -> SUBSET Phone] /\ pair[p].stage = "claimed"
      BY <1>3 DEF AcceptPhone, TypeOK
    <3>2. \/ admitted' = admitted
          \/ admitted' = [admitted EXCEPT ![pair[p].code] = @ \cup {p}]
      BY <1>3 DEF AcceptPhone
    <3> QED
      <4> TAKE d \in OneTime
      <4>1. CASE d = pair[p].code
        BY <3>1, <3>2, <4>1 DEF Holds
      <4>2. CASE d # pair[p].code
        BY <3>1, <3>2, <4>2
      <4> QED
        BY <4>1, <4>2
  <2>3. UNCHANGED <<claimable, drawn>>
    BY <1>0, <1>3 DEF AcceptPhone
  <2> QED
    BY <1>1, <2>1, <2>2, <2>3 DEF CodeInv, OnePlace, Unspent
<1>4. CASE HearInit(p) \/ HandleOffer(p) \/ HearAck(p) \/ GiveUp(p)
  <2>1. \A q \in Phone : pair'[q].stage = "claimed" => pair'[q] = pair[q]
    BY <1>4 DEF HearInit, HandleOffer, HearAck, GiveUp, Closed, AfterOffer,
       TypeOK, Attempt, Idle
  <2>2. UNCHANGED <<admitted, claimable>>
    BY <1>4 DEF HearInit, HandleOffer, HearAck, GiveUp, relayVars
  <2>3. \A c \in OneTime, q \in Phone : Holds(q, c)' => Holds(q, c)
    BY <2>1 DEF Holds
  <2> QED
    BY <1>0, <1>1, <2>2, <2>3, CodeKept DEF CodeInv
<1>5. CASE Reconnect(p) \/ SessionDrops(p) \/ Leave(p) \/ HandleLeave(p)
  <2>1. UNCHANGED <<pair, admitted, claimable>>
    BY <1>5 DEF Reconnect, SessionDrops, Leave, HandleLeave, relayVars
  <2>2. \A c \in OneTime, q \in Phone : Holds(q, c)' => Holds(q, c)
    BY <2>1 DEF Holds
  <2> QED
    BY <1>0, <1>1, <2>1, <2>2, CodeKept DEF CodeInv
<1> QED
  BY <1>1, <1>2, <1>3, <1>4, <1>5 DEF PhoneNext, CodeInv

LEMMA CodeRelay ==
    ASSUME TypeOK, CodeInv, NEW s \in Src, HandleDaemonMessage(s)
    PROVE  CodeInv'
<1> DEFINE f == Head(up[s])
<1>1. /\ up \in [Src -> Seq(Frame)] /\ up[s] # <<>> /\ f \in Frame
      /\ up' = [up EXCEPT ![s] = Tail(up[s])]
      /\ UNCHANGED <<admitted, drawn>>
  BY DEF TypeOK, HandleDaemonMessage, cliVars
<1>2. RegistersOnce'
  BY <1>1 DEF CodeInv, RegistersOnce, Src
<1>3. s = "cli" => \A c \in OneTime : ~Sent(c)'
  <2>1. SUFFICES ASSUME s = "cli", NEW i \in DOMAIN up'["cli"]
                 PROVE  up'["cli"][i].type # "register"
    BY DEF Sent
  <2>2. up'["cli"][i] = up["cli"][i + 1] /\ i + 1 \in DOMAIN up["cli"]
        /\ i + 1 # 1
    BY <1>1, <2>1
  <2> QED
    BY <2>2 DEF CodeInv, RegistersOnce
<1>4. s # "cli" => \A c \in OneTime : Sent(c)' <=> Sent(c)
  BY <1>1 DEF Sent, Src
<1>5. \A p \in Phone : pair'[p].stage = "claimed" =>
        pair[p].stage = "claimed" /\ pair'[p].code = pair[p].code
  <2> SUFFICES ASSUME NEW p \in Phone, pair'[p].stage = "claimed"
               PROVE  /\ pair[p].stage = "claimed"
                      /\ pair'[p].code = pair[p].code
    OBVIOUS
  <2>1. pair \in [Phone -> Attempt] /\ pair[p] \in Attempt
    BY DEF TypeOK
  <2>2. CASE Register(f.code)
    BY <2>2 DEF Register
  <2>3. CASE Ack
    BY <2>1, <2>3 DEF Ack, Attempt
  <2>4. CASE f.type = "kick" /\ Kick(f.phone)
    BY <2>1, <2>4 DEF Kick, Idle
  <2> QED
    BY <2>2, <2>3, <2>4 DEF HandleDaemonMessage
<1>6. \A c \in OneTime, p \in Phone : Holds(p, c)' => Holds(p, c)
  BY <1>5 DEF Holds
<1>7. CASE f.type = "register" /\ Register(f.code)
  <2>1. claimable' = claimable \cup {f.code}
    BY <1>7 DEF Register
  <2>2. s = "daemon" => f.code \notin OneTime
    <3>1. s = "daemon" => f = up["daemon"][1] /\ 1 \in DOMAIN up["daemon"]
      BY <1>1 DEF Src
    <3> QED
      BY <1>7, <3>1, CodeAssumption DEF CodeInv, RegistersOnce, Gen
  <2>3. s = "cli" => \A c \in OneTime : f.code = c => Sent(c)
    BY <1>1, <1>7 DEF Sent
  <2> QED
    BY <1>1, <1>2, <1>3, <1>4, <1>6, <2>1, <2>2, <2>3
    DEF CodeInv, OnePlace, Unspent, Src
<1>8. CASE UNCHANGED claimable
  BY <1>1, <1>2, <1>3, <1>4, <1>6, <1>8 DEF CodeInv, OnePlace, Unspent
<1> QED
  BY <1>7, <1>8 DEF HandleDaemonMessage, Ack, Kick

LEMMA CodeDaemon == ASSUME TypeOK, CodeInv, DaemonNext PROVE CodeInv'
<1>1. UNCHANGED <<relayVars, phoneVars, drawn>> /\ up'["cli"] = up["cli"]
  BY RelayApart
  DEF DaemonNext, DaemonStarts, DaemonReady, LinkDrops, DaemonExits, LinkLost,
      DaemonHears, Decide, Send, cliVars, TypeOK, Src
<1>2. OnePlace'
  BY <1>1, CodeKept DEF Sent, Holds, relayVars, phoneVars
<1>3. ASSUME NEW i \in DOMAIN up'["daemon"],
             up'["daemon"][i].type = "register"
      PROVE  up'["daemon"][i].code \in Gen
  <2>1. up["daemon"] \in Seq(Frame) /\ config.token \in Gen
    BY DEF TypeOK, Src, Config
  <2>2. CASE up'["daemon"] = up["daemon"]
    BY <1>3, <2>2 DEF CodeInv, RegistersOnce
  <2>3. CASE up'["daemon"] = <<>>
    BY <1>3, <2>3
  <2>4. CASE up'["daemon"] = <<[type |-> "register", code |-> config.token]>>
    BY <1>3, <2>1, <2>4
  <2>5. CASE up'["daemon"] = Append(up["daemon"], [type |-> "ack"])
    BY <1>3, <2>1, <2>5 DEF CodeInv, RegistersOnce
  <2> QED
    BY <2>2, <2>3, <2>4, <2>5
    DEF DaemonNext, DaemonStarts, DaemonReady, LinkDrops, DaemonExits, LinkLost,
        DaemonHears, Decide, Send, TypeOK, Src
<1> QED
  BY <1>1, <1>2, <1>3 DEF CodeInv, RegistersOnce

LEMMA CodeCli == ASSUME TypeOK, CodeInv, CliNext PROVE CodeInv'
<1>0. UNCHANGED <<relayVars, phoneVars>> /\ up["cli"] \in Seq(Frame)
  BY RelayApart DEF TypeOK, Src
<1>1. ASSUME NEW c \in OneTime, CliNew(c) PROVE CodeInv'
  <2>1. /\ up'["cli"] = <<[type |-> "register", code |-> c]>>
        /\ up'["daemon"] = up["daemon"]
        /\ up["cli"] = <<>> /\ c \notin drawn /\ drawn' = drawn \cup {c}
    BY <1>1 DEF CliNew, Send, TypeOK, Src
  <2>2. RegistersOnce'
    BY <2>1 DEF CodeInv, RegistersOnce
  <2>3. \A d \in OneTime : Sent(d)' <=> d = c
    BY <2>1 DEF Sent
  <2>4. \A d \in OneTime, p \in Phone : Holds(p, d)' <=> Holds(p, d)
    BY <1>0 DEF Holds, phoneVars
  <2> QED
    BY <1>0, <2>1, <2>2, <2>3, <2>4
    DEF CodeInv, OnePlace, Unspent, relayVars
<1>2. CASE CliHears \/ \E p \in Phone : CliRevoke(p)
  <2>1. PICK g \in Frame :
          /\ g.type # "register"
          /\ up'["cli"] = up["cli"] \/ up'["cli"] = Append(up["cli"], g)
    BY <1>2, FrameTyped DEF CliHears, CliRevoke, Send, TypeOK, Src
  <2>2. up'["daemon"] = up["daemon"] /\ UNCHANGED drawn
    BY <1>2 DEF CliHears, CliRevoke, Send, TypeOK, Src, cliVars
  <2>3. \A i \in DOMAIN up'["cli"] : up'["cli"][i].type = "register" =>
          i \in DOMAIN up["cli"] /\ up'["cli"][i] = up["cli"][i]
    BY <1>0, <2>1
  <2>4. \A i \in DOMAIN up["cli"] :
          i \in DOMAIN up'["cli"] /\ up'["cli"][i] = up["cli"][i]
    BY <1>0, <2>1
  <2>5. RegistersOnce'
    BY <2>2, <2>3 DEF CodeInv, RegistersOnce
  <2>6. \A c \in OneTime : Sent(c)' <=> Sent(c)
    BY <2>3, <2>4 DEF Sent
  <2> QED
    BY <1>0, <2>2, <2>5, <2>6, CodeKept DEF CodeInv, Holds, relayVars, phoneVars
<1>3. CASE CliEnds \/ Rotate
  <2>1. UNCHANGED <<up, drawn>>
    BY <1>3 DEF CliEnds, Rotate, linkVars
  <2> QED
    BY <1>0, <2>1, CodeKept
    DEF CodeInv, RegistersOnce, Holds, Sent, relayVars, phoneVars
<1> QED
  BY <1>1, <1>2, <1>3 DEF CliNext

LEMMA CodeStep == TypeOK /\ CodeInv /\ [Next]_vars => CodeInv'
<1> SUFFICES ASSUME TypeOK, CodeInv, [Next]_vars PROVE CodeInv'
  OBVIOUS
<1>1. ASSUME NEW c \in OneTime, CodeExpires(c) PROVE CodeInv'
  <2>1. /\ claimable' = claimable \ {c}
        /\ UNCHANGED <<admitted, phoneVars, up, drawn>>
    BY <1>1 DEF CodeExpires, cliVars, linkVars
  <2>2. RegistersOnce' /\ \A d \in OneTime : Sent(d)' <=> Sent(d)
    BY <2>1 DEF CodeInv, RegistersOnce, Sent
  <2>3. \A d \in OneTime, p \in Phone : Holds(p, d)' <=> Holds(p, d)
    BY <2>1 DEF Holds, phoneVars
  <2> QED
    BY <2>1, <2>2, <2>3 DEF CodeInv, OnePlace, Unspent
<1>2. CASE UNCHANGED vars
  BY <1>2, CodeKept
  DEF CodeInv, RegistersOnce, Holds, Sent, vars, relayVars, phoneVars, cliVars,
      linkVars
<1> QED
  BY <1>1, <1>2, CodePhones, CodeRelay, CodeDaemon, CodeCli DEF Next

LEMMA OnePlacePairsOne == TypeOK /\ CodeInv => OneTimeCodePairsOne
<1> SUFFICES ASSUME TypeOK, CodeInv, NEW c \in OneTime
             PROVE  Cardinality(admitted[c]) <= 1
  BY DEF OneTimeCodePairsOne
<1>1. CASE admitted[c] = {}
  BY <1>1, FS_EmptySet
<1>2. CASE admitted[c] # {}
  <2>1. PICK p \in admitted[c] : TRUE
    BY <1>2
  <2>2. admitted[c] = {p}
    BY <2>1 DEF CodeInv, OnePlace
  <2> QED
    BY <2>2, FS_Singleton
<1> QED
  BY <1>1, <1>2

\* A one-time code lets one phone in, for any number of phones, codes,
\* connections and claims: a code is claimed once because it is registered
\* once and the coordinator drops it at its claim.
THEOREM OnePhonePerCode == Spec => []OneTimeCodePairsOne
<1>1. Init => TypeOK /\ CodeInv
  BY TypeInit, CodeInit
<1>2. TypeOK /\ CodeInv /\ [Next]_vars => (TypeOK /\ CodeInv)'
  BY TypeStep, CodeStep
<1> QED
  BY <1>1, <1>2, OnePlacePairsOne, PTL DEF Spec

----------------------------------------------------------------------------
(* The coordinator of pairing codes.                                       *)

----------------------------------------------------------------------------
(* The coordinator of pairing codes.                                       *)

\* The instants s of what was counted end with the c instants of the window
\* that began at b; there is none when c is 0.
Shape(s, c, b, limit, now) ==
    /\ \A i \in 1 .. Len(s) : s[i] <= now
    /\ \A i, j \in 1 .. Len(s) : i <= j => s[i] <= s[j]
    /\ c # 0 => c <= limit /\ c <= Len(s) /\ s[Len(s) - c + 1] = b

\* The limit-th instant before the window lies a whole width before it: the
\* windows before hold no more than the limit each.
Gap(s, c, b, limit, width, now) ==
    Len(s) - c >= limit =>
      s[Len(s) - c - limit + 1] + width <= (IF c = 0 THEN now ELSE b)

\* Places in a sequence that one instant is appended to.
LEMMA Appended ==
    ASSUME NEW s \in Seq(Nat), NEW now \in Nat
    PROVE  /\ Append(s, now) \in Seq(Nat)
           /\ Len(s) \in Nat /\ Len(Append(s, now)) = Len(s) + 1
           /\ Append(s, now)[Len(s) + 1] = now
           /\ \A i \in 1 .. Len(s) : Append(s, now)[i] = s[i] /\ s[i] \in Nat
  OBVIOUS

LEMMA StillSorted ==
    ASSUME NEW s \in Seq(Nat), NEW now \in Nat,
           \A i \in 1 .. Len(s) : s[i] <= now,
           \A i, j \in 1 .. Len(s) : i <= j => s[i] <= s[j]
    PROVE  LET r == Append(s, now) IN
           /\ \A i \in 1 .. Len(r) : r[i] <= now
           /\ \A i, j \in 1 .. Len(r) : i <= j => r[i] <= r[j]
<1> DEFINE r == Append(s, now)
<1>1. /\ Len(s) \in Nat /\ Len(r) = Len(s) + 1 /\ r[Len(s) + 1] = now
      /\ \A i \in 1 .. Len(s) : r[i] = s[i] /\ s[i] \in Nat
  BY Appended
<1> HIDE DEF r
<1>2. \A i \in 1 .. Len(r) : r[i] <= now
  BY <1>1
<1>3. ASSUME NEW i \in 1 .. Len(r), NEW j \in 1 .. Len(r), i <= j
      PROVE  r[i] <= r[j]
  <2>1. CASE j = Len(s) + 1
    BY <1>1, <1>2, <2>1
  <2>2. CASE j # Len(s) + 1
    BY <1>1, <1>3, <2>2
  <2> QED
    BY <2>1, <2>2
<1> QED
  BY <1>2, <1>3 DEF r

\* One more in the window under way.
LEMMA ShapeJoined ==
    ASSUME NEW s \in Seq(Nat), NEW c \in Nat, NEW b \in Nat, NEW limit \in Nat,
           NEW now \in Nat, Shape(s, c, b, limit, now), c # 0, c < limit
    PROVE  Shape(Append(s, now), c + 1, b, limit, now)
<1> DEFINE r == Append(s, now)
<1>1. /\ Len(s) \in Nat /\ Len(r) = Len(s) + 1
      /\ \A i \in 1 .. Len(s) : r[i] = s[i]
  BY Appended
<1>2. /\ \A i \in 1 .. Len(r) : r[i] <= now
      /\ \A i, j \in 1 .. Len(r) : i <= j => r[i] <= r[j]
  BY StillSorted DEF Shape
<1>3. c <= Len(s) /\ s[Len(s) - c + 1] = b
  BY DEF Shape
<1> HIDE DEF r
<1>4. r[Len(r) - (c + 1) + 1] = b
  <2>1. Len(r) - (c + 1) + 1 = Len(s) - c + 1
    BY <1>1
  <2>2. Len(s) - c + 1 \in 1 .. Len(s)
    BY <1>1, <1>3
  <2> QED
    BY <1>1, <1>3, <2>1, <2>2
<1>5. c + 1 <= limit /\ c + 1 <= Len(r)
  BY <1>1, <1>3
<1>6. Shape(r, c + 1, b, limit, now)
  BY <1>2, <1>4, <1>5 DEF Shape
<1> QED
  BY <1>6 DEF r

\* The first of a new window.
LEMMA ShapeOpened ==
    ASSUME NEW s \in Seq(Nat), NEW c \in Nat, NEW b \in Nat,
           NEW limit \in Nat \ {0}, NEW now \in Nat, Shape(s, c, b, limit, now)
    PROVE  Shape(Append(s, now), 1, now, limit, now)
<1> DEFINE r == Append(s, now)
<1>1. Len(s) \in Nat /\ Len(r) = Len(s) + 1 /\ r[Len(s) + 1] = now
  BY Appended
<1>2. /\ \A i \in 1 .. Len(r) : r[i] <= now
      /\ \A i, j \in 1 .. Len(r) : i <= j => r[i] <= r[j]
  BY StillSorted DEF Shape
<1> HIDE DEF r
<1>3. 1 <= limit /\ 1 <= Len(r) /\ r[Len(r) - 1 + 1] = now
  BY <1>1
<1>4. Shape(r, 1, now, limit, now)
  BY <1>2, <1>3 DEF Shape
<1> QED
  BY <1>4 DEF r

\* The gap before a window stays while the window fills.
LEMMA GapJoined ==
    ASSUME NEW s \in Seq(Nat), NEW c \in Nat, NEW b \in Nat,
           NEW limit \in Nat \ {0}, NEW width \in Nat, NEW now \in Nat, c # 0,
           c <= Len(s), Gap(s, c, b, limit, width, now)
    PROVE  Gap(Append(s, now), c + 1, b, limit, width, now)
<1> DEFINE r == Append(s, now)
<1>1. /\ Len(s) \in Nat /\ Len(r) = Len(s) + 1
      /\ \A i \in 1 .. Len(s) : r[i] = s[i]
  BY Appended
<1> HIDE DEF r
<1> SUFFICES ASSUME Len(r) - (c + 1) >= limit
             PROVE  r[Len(r) - (c + 1) - limit + 1] + width <= b
  BY DEF Gap, r
<1>2. /\ Len(r) - (c + 1) - limit + 1 = Len(s) - c - limit + 1
      /\ Len(s) - c >= limit
  BY <1>1
<1>3. Len(s) - c - limit + 1 \in 1 .. Len(s)
  BY <1>1, <1>2
<1>4. s[Len(s) - c - limit + 1] + width <= b
  BY <1>2 DEF Gap
<1> QED
  BY <1>1, <1>2, <1>3, <1>4

\* Once the window is over, the limit-th instant from the end lies a width back.
LEMMA GapOver ==
    ASSUME NEW s \in Seq(Nat), NEW c \in Nat, NEW b \in Nat,
           NEW limit \in Nat \ {0}, NEW width \in Nat, NEW now \in Nat,
           c = 0 \/ b + width <= now, Shape(s, c, b, limit, now),
           Gap(s, c, b, limit, width, now), Len(s) >= limit
    PROVE  s[Len(s) - limit + 1] + width <= now
<1>1. Len(s) \in Nat /\ \A i \in 1 .. Len(s) : s[i] \in Nat
  OBVIOUS
<1>2. CASE c = 0
  <2>1. Len(s) - c = Len(s)
    BY <1>1, <1>2
  <2> QED
    BY <1>1, <1>2, <2>1 DEF Gap
<1>3. CASE c # 0
  <2>1. /\ c <= limit /\ c <= Len(s) /\ s[Len(s) - c + 1] = b
        /\ b + width <= now
    BY <1>3 DEF Shape
  <2>2. Len(s) - limit + 1 \in 1 .. Len(s) /\ Len(s) - c + 1 \in 1 .. Len(s)
    BY <1>1, <1>3, <2>1
  <2>3. Len(s) - limit + 1 <= Len(s) - c + 1
    BY <1>1, <2>1
  <2>4. s[Len(s) - limit + 1] <= b
    BY <2>1, <2>2, <2>3 DEF Shape
  <2>5. s[Len(s) - limit + 1] \in Nat
    BY <1>1, <2>2
  <2> QED
    BY <2>1, <2>4, <2>5
<1> QED
  BY <1>2, <1>3

LEMMA GapOpened ==
    ASSUME NEW s \in Seq(Nat), NEW c \in Nat, NEW b \in Nat,
           NEW limit \in Nat \ {0}, NEW width \in Nat, NEW now \in Nat,
           c = 0 \/ b + width <= now, Shape(s, c, b, limit, now),
           Gap(s, c, b, limit, width, now)
    PROVE  Gap(Append(s, now), 1, now, limit, width, now)
<1> DEFINE r == Append(s, now)
<1>1. /\ Len(s) \in Nat /\ Len(r) = Len(s) + 1
      /\ \A i \in 1 .. Len(s) : r[i] = s[i]
  BY Appended
<1> HIDE DEF r
<1>2. Len(r) - 1 = Len(s)
  BY <1>1
<1> SUFFICES ASSUME Len(s) >= limit
             PROVE  r[Len(s) - limit + 1] + width <= now
  BY <1>2 DEF Gap, r
<1>3. Len(s) - limit + 1 \in 1 .. Len(s)
  BY <1>1
<1>4. s[Len(s) - limit + 1] + width <= now
  BY GapOver
<1> QED
  BY <1>1, <1>3, <1>4

\* A swept window leaves the gap to the present.
LEMMA GapSwept ==
    ASSUME NEW s \in Seq(Nat), NEW c \in Nat, NEW b \in Nat,
           NEW limit \in Nat \ {0}, NEW width \in Nat, NEW now \in Nat,
           c = 0 \/ b + width <= now, Shape(s, c, b, limit, now),
           Gap(s, c, b, limit, width, now)
    PROVE  Gap(s, 0, 0, limit, width, now)
<1>1. Len(s) \in Nat /\ Len(s) - 0 = Len(s)
  OBVIOUS
<1> SUFFICES ASSUME Len(s) >= limit
             PROVE  s[Len(s) - limit + 1] + width <= now
  BY <1>1 DEF Gap
<1> QED
  BY GapOver

\* What the gap is for: an instant counted is a width after the one that comes
\* twice the limit, less one, before it.
LEMMA SpreadGrows ==
    ASSUME NEW s \in Seq(Nat), NEW limit \in Nat \ {0}, NEW width \in Nat,
           NEW c \in Nat \ {0}, NEW b \in Nat, NEW now \in Nat,
           Spread(s, limit, width), Shape(Append(s, now), c, b, limit, now),
           Gap(Append(s, now), c, b, limit, width, now)
    PROVE  Spread(Append(s, now), limit, width)
<1> DEFINE r == Append(s, now)
<1>1. /\ Len(s) \in Nat /\ Len(r) = Len(s) + 1 /\ r[Len(s) + 1] = now
      /\ \A i \in 1 .. Len(s) : r[i] = s[i]
  BY Appended
<1>2. \A i \in 1 .. Len(r) : r[i] \in Nat
  BY Appended
<1>3. /\ \A i, j \in 1 .. Len(r) : i <= j => r[i] <= r[j]
      /\ \A i \in 1 .. Len(r) : r[i] <= now
      /\ c <= limit /\ c <= Len(r) /\ r[Len(r) - c + 1] = b
  BY DEF Shape
<1>4. Len(r) - c >= limit => r[Len(r) - c - limit + 1] + width <= b
  BY DEF Gap
<1>5. \A i \in 1 .. Len(s) :
        i + 2 * limit - 1 <= Len(s) => s[i + 2 * limit - 1] - s[i] >= width
  BY DEF Spread
<1> HIDE DEF r
<1>6. ASSUME NEW i \in 1 .. Len(r), i + 2 * limit - 1 <= Len(r)
      PROVE  r[i + 2 * limit - 1] - r[i] >= width
  <2>1. CASE i + 2 * limit - 1 <= Len(s)
    <3>1. i \in 1 .. Len(s) /\ i + 2 * limit - 1 \in 1 .. Len(s)
      BY <1>1, <2>1
    <3> QED
      BY <1>1, <1>5, <2>1, <3>1
  <2>2. CASE i + 2 * limit - 1 = Len(r)
    <3>1. b <= now
      <4>1. Len(r) - c + 1 \in 1 .. Len(r)
        BY <1>1, <1>3
      <4> QED
        BY <1>3, <4>1
    <3>2. Len(r) - c >= limit /\ i <= Len(r) - c - limit + 1
      BY <1>1, <1>3, <2>2
    <3>3. Len(r) - c - limit + 1 \in 1 .. Len(r)
      BY <1>1, <3>2
    <3>4. r[i] <= r[Len(r) - c - limit + 1]
      BY <1>3, <3>2, <3>3
    <3>5. r[Len(r) - c - limit + 1] + width <= b
      BY <1>4, <3>2
    <3>6. r[i] \in Nat /\ r[Len(r) - c - limit + 1] \in Nat
      BY <1>2, <3>3
    <3>7. r[i + 2 * limit - 1] = now
      BY <1>1, <2>2
    <3> QED
      BY <3>1, <3>4, <3>5, <3>6, <3>7
  <2>3. i + 2 * limit - 1 <= Len(s) \/ i + 2 * limit - 1 = Len(r)
    BY <1>1, <1>6
  <2> QED
    BY <2>1, <2>2, <2>3
<1> QED
  BY <1>6 DEF Spread, r

\* What is counted of one daemon's registrations, or of one prefix's failed
\* claims: the instants s and the window w.
Counts(s, w, limit, now) ==
    /\ s \in Seq(Nat)
    /\ w = Unset \/ w \in [count : Nat \ {0}, since : Nat]
    /\ Shape(s, w.count, w.since, limit, now)

Spaced(s, w, limit, width, now) ==
    Gap(s, w.count, w.since, limit, width, now) /\ Spread(s, limit, width)

LEMMA NumbersOf ==
    ASSUME NEW w, w = Unset \/ w \in [count : Nat \ {0}, since : Nat]
    PROVE  /\ w.count \in Nat /\ w.since \in Nat
           /\ w = Unset <=> w.count = 0
           /\ w \in [count : Nat, since : Nat]
  BY DEF Unset

\* register and recordClaimFail count one more.
LEMMA CountedCounts ==
    ASSUME instant \in Nat, NEW s, NEW w, NEW limit \in Nat \ {0},
           NEW width \in Nat, Counts(s, w, limit, instant),
           Running(w, width) => w.count < limit
    PROVE  /\ Counts(Append(s, instant), Counted(w, width), limit, instant)
           /\ Counted(w, width) # Unset
<1>1. /\ w.count \in Nat /\ w.since \in Nat /\ s \in Seq(Nat)
      /\ w = Unset <=> w.count = 0
      /\ w \in [count : Nat, since : Nat]
  BY NumbersOf DEF Counts
<1>2. Append(s, instant) \in Seq(Nat)
  BY <1>1
<1>3. CASE Running(w, width)
  <2>1. w # Unset /\ w.count < limit
    BY <1>3 DEF Running
  <2>2. Shape(Append(s, instant), w.count + 1, w.since, limit, instant)
    BY <1>1, <2>1, ShapeJoined DEF Counts
  <2>3. /\ Counted(w, width) \in [count : Nat \ {0}, since : Nat]
        /\ Counted(w, width).count = w.count + 1
        /\ Counted(w, width).since = w.since
    BY <1>1, <1>3 DEF Counted
  <2> QED
    BY <1>2, <2>2, <2>3 DEF Counts, Unset
<1>4. CASE ~Running(w, width)
  <2>1. Shape(Append(s, instant), 1, instant, limit, instant)
    BY <1>1, ShapeOpened DEF Counts
  <2>2. Counted(w, width) = [count |-> 1, since |-> instant]
    BY <1>4 DEF Counted
  <2>3. /\ Counted(w, width) \in [count : Nat \ {0}, since : Nat]
        /\ Counted(w, width).count = 1
        /\ Counted(w, width).since = instant
    BY <2>2
  <2> QED
    BY <1>2, <2>1, <2>3 DEF Counts, Unset
<1> QED
  BY <1>3, <1>4

LEMMA CountedSpaces ==
    ASSUME instant \in Nat, NEW s, NEW w, NEW limit \in Nat \ {0},
           NEW width \in Nat, Counts(s, w, limit, instant),
           Spaced(s, w, limit, width, instant),
           Running(w, width) => w.count < limit
    PROVE  Spaced(Append(s, instant), Counted(w, width), limit, width, instant)
<1>1. /\ w.count \in Nat /\ w.since \in Nat /\ s \in Seq(Nat)
      /\ w = Unset <=> w.count = 0
      /\ w \in [count : Nat, since : Nat]
  BY NumbersOf DEF Counts
<1>2. /\ Shape(s, w.count, w.since, limit, instant)
      /\ Gap(s, w.count, w.since, limit, width, instant)
      /\ Spread(s, limit, width)
  BY DEF Counts, Spaced
<1>3. CASE Running(w, width)
  <2>1. w.count # 0 /\ w.count < limit /\ w.count <= Len(s)
    BY <1>1, <1>2, <1>3 DEF Running, Shape
  <2>2. Shape(Append(s, instant), w.count + 1, w.since, limit, instant)
    BY <1>1, <1>2, <2>1, ShapeJoined
  <2>3. Gap(Append(s, instant), w.count + 1, w.since, limit, width, instant)
    BY <1>1, <1>2, <2>1, GapJoined
  <2>4. w.count + 1 \in Nat \ {0}
    BY <1>1
  <2>5. Spread(Append(s, instant), limit, width)
    BY <1>1, <1>2, <2>2, <2>3, <2>4, SpreadGrows
  <2>6. /\ Counted(w, width).count = w.count + 1
        /\ Counted(w, width).since = w.since
    BY <1>1, <1>3 DEF Counted
  <2> QED
    BY <2>3, <2>5, <2>6 DEF Spaced
<1>4. CASE ~Running(w, width)
  <2>1. w.count = 0 \/ w.since + width <= instant
    BY <1>1, <1>4 DEF Running
  <2>2. Shape(Append(s, instant), 1, instant, limit, instant)
    BY <1>1, <1>2, ShapeOpened
  <2>3. Gap(Append(s, instant), 1, instant, limit, width, instant)
    BY <1>1, <1>2, <2>1, GapOpened
  <2>4. Spread(Append(s, instant), limit, width)
    BY <1>1, <1>2, <2>2, <2>3, SpreadGrows
  <2>5. Counted(w, width).count = 1 /\ Counted(w, width).since = instant
    BY <1>4 DEF Counted
  <2> QED
    BY <2>3, <2>4, <2>5 DEF Spaced
<1> QED
  BY <1>3, <1>4

\* The sweep forgets a window that is over.
LEMMA SweptCounts ==
    ASSUME instant \in Nat, NEW s, NEW w, NEW limit \in Nat \ {0},
           NEW width \in Nat, Counts(s, w, limit, instant)
    PROVE  /\ Counts(s, Unset, limit, instant)
           /\ Spaced(s, w, limit, width, instant) /\ instant - w.since > width
              => Spaced(s, Unset, limit, width, instant)
<1>1. /\ w.count \in Nat /\ w.since \in Nat /\ s \in Seq(Nat)
      /\ Unset.count = 0 /\ Unset.since = 0
      /\ Shape(s, w.count, w.since, limit, instant)
  BY NumbersOf DEF Counts, Unset
<1>2. Counts(s, Unset, limit, instant)
  BY <1>1 DEF Counts, Shape
<1>3. ASSUME Spaced(s, w, limit, width, instant), instant - w.since > width
      PROVE  Spaced(s, Unset, limit, width, instant)
  <2>1. w.since + width <= instant
    BY <1>1, <1>3
  <2>2. Gap(s, w.count, w.since, limit, width, instant)
    BY <1>3 DEF Spaced
  <2>3. Gap(s, 0, 0, limit, width, instant)
    BY <1>1, <2>1, <2>2, GapSwept
  <2> QED
    BY <1>1, <1>3, <2>3 DEF Spaced
<1> QED
  BY <1>2, <1>3

LEMMA TimeCounts ==
    ASSUME NEW now \in Nat, NEW s, NEW w, NEW limit \in Nat \ {0},
           NEW width \in Nat, Counts(s, w, limit, now)
    PROVE  /\ Counts(s, w, limit, now + 1)
           /\ Spaced(s, w, limit, width, now)
              => Spaced(s, w, limit, width, now + 1)
<1>1. /\ w.count \in Nat /\ w.since \in Nat /\ s \in Seq(Nat)
      /\ Len(s) \in Nat /\ \A i \in 1 .. Len(s) : s[i] \in Nat
  BY NumbersOf DEF Counts
<1>2. \A i \in 1 .. Len(s) : s[i] <= now + 1
  BY <1>1 DEF Counts, Shape
<1>3. Counts(s, w, limit, now + 1)
  BY <1>2 DEF Counts, Shape
<1>4. ASSUME Spaced(s, w, limit, width, now)
      PROVE  Spaced(s, w, limit, width, now + 1)
  <2>1. ASSUME Len(s) - w.count >= limit
        PROVE  s[Len(s) - w.count - limit + 1] \in Nat
    BY <1>1, <2>1
  <2>2. Gap(s, w.count, w.since, limit, width, now + 1)
    BY <1>1, <1>4, <2>1 DEF Gap, Spaced
  <2> QED
    BY <1>4, <2>2 DEF Spaced
<1> QED
  BY <1>3, <1>4

LEMMA CoordTypeInit == CoordInit => CoordTypeOK
<1> SUFFICES ASSUME CoordInit PROVE CoordTypeOK
  OBVIOUS
<1> USE CodesAssumption, LimitsAssumption, BoundsAssumption
<1>1. Unset \in Window(MaxNow)
  BY DEF Unset, Window
<1>2. rateLimits \in [Daemon -> Window(MaxNow)] /\ claimFails \in [Prefix -> Window(MaxNow)]
  BY <1>1 DEF CoordInit
<1>3. registered \in [Daemon -> Seq(Nat)] /\ failed \in [Prefix -> Seq(Nat)]
  BY DEF CoordInit
<1>4. /\ pending \in [Token -> Entry \cup {Nobody}]
      /\ \A t \in Kept : pending[t] = Nobody
  BY DEF CoordInit
<1>5. /\ instant \in 0 .. MaxNow /\ calls \in 0 .. MaxCalls
      /\ sentTo \in Daemon \cup {Nobody} /\ dropped \subseteq Prefix
  BY DEF CoordInit
<1> QED
  BY <1>2, <1>3, <1>4, <1>5 DEF CoordTypeOK

LEMMA CountedTypes ==
    ASSUME instant \in 0 .. MaxNow, NEW w \in Window(MaxNow), NEW width
    PROVE  Counted(w, width) \in Window(MaxNow)
  BY DEF Counted, Window

LEMMA CoordTypeStep == CoordTypeOK /\ [CoordNext]_coordVars => CoordTypeOK'
<1> SUFFICES ASSUME CoordTypeOK, [CoordNext]_coordVars
             PROVE  CoordTypeOK'
  OBVIOUS
<1> USE LimitsAssumption, BoundsAssumption, MapsAssumption
<1>1. ASSUME NEW t \in Token, RegisterToken(t) PROVE CoordTypeOK'
  <2>1. /\ DrawnBy[t] \in Daemon /\ instant \in Nat /\ Never \in Nat
        /\ calls' \in 0 .. MaxCalls
    <3>1. instant \in 0 .. MaxNow /\ calls \in 0 .. MaxCalls
      BY DEF CoordTypeOK
    <3>2. calls < MaxCalls /\ calls' = calls + 1
      BY <1>1 DEF RegisterToken, Call
    <3> QED
      BY <3>1, <3>2 DEF Never
  <2>2. rateLimits' \in [Daemon -> Window(MaxNow)]
    BY <1>1, <2>1, CountedTypes DEF CoordTypeOK, RegisterToken
  <2>3. registered' \in [Daemon -> Seq(Nat)]
    BY <1>1, <2>1 DEF CoordTypeOK, RegisterToken
  <2>4. /\ pending' \in [Token -> Entry \cup {Nobody}]
        /\ \A u \in Kept : pending'[u] # Nobody => pending'[u].expires = Never
    <3> DEFINE e == [daemon |-> DrawnBy[t],
                     expires |-> IF t \in Kept THEN Never ELSE instant + Ttl]
    <3>1. e \in Entry /\ (t \in Kept => e.expires = Never)
      BY <2>1 DEF Entry
    <3>2. pending' = [pending EXCEPT ![t] = e]
      BY <1>1 DEF RegisterToken
    <3> HIDE DEF e
    <3> QED
      BY <3>1, <3>2, CodesAssumption DEF CoordTypeOK
  <2> QED
    BY <1>1, <2>1, <2>2, <2>3, <2>4 DEF CoordTypeOK, RegisterToken
<1>2. ASSUME NEW t \in Token, ClaimFails(t) PROVE CoordTypeOK'
  <2>1. PrefixOf[t] \in Prefix /\ instant \in Nat /\ calls' \in 0 .. MaxCalls
    BY <1>2 DEF CoordTypeOK, ClaimFails, Call
  <2>2. failed' \in [Prefix -> Seq(Nat)]
    BY <1>2, <2>1 DEF CoordTypeOK, ClaimFails, RecordClaimFail
  <2>3. [claimFails EXCEPT ![PrefixOf[t]] = Counted(@, FailWindow)]
          \in [Prefix -> Window(MaxNow)]
    BY <2>1, CountedTypes DEF CoordTypeOK
  <2>4. Unset \in Window(MaxNow)
    BY DEF Unset, Window
  <2>5. claimFails' \in [Prefix -> Window(MaxNow)] /\ dropped' \subseteq Prefix
    <3> DEFINE fails == [claimFails EXCEPT ![PrefixOf[t]] = Counted(@, FailWindow)]
    <3>1. \/ claimFails' = fails /\ dropped' = dropped
          \/ \E q \in Prefix : /\ claimFails' = [fails EXCEPT ![q] = Unset]
                               /\ dropped' = dropped \cup {q}
      BY <1>2 DEF ClaimFails, RecordClaimFail
    <3>2. dropped \subseteq Prefix
      BY DEF CoordTypeOK
    <3> HIDE DEF fails
    <3> QED
      BY <2>3, <2>4, <3>1, <3>2 DEF fails
  <2>6. sentTo' = Nobody /\ UNCHANGED <<instant, rateLimits, registered>>
    BY <1>2 DEF ClaimFails
  <2>7. /\ pending' \in [Token -> Entry \cup {Nobody}]
        /\ \A u \in Kept : pending'[u] # Nobody => pending'[u].expires = Never
    <3>1. pending' = [pending EXCEPT ![t] = Nobody]
      BY <1>2 DEF ClaimFails
    <3> QED
      BY <3>1, CodesAssumption DEF CoordTypeOK
  <2> QED
    BY <2>1, <2>2, <2>5, <2>6, <2>7 DEF CoordTypeOK
<1>3. ASSUME NEW t \in Token, ClaimBlocked(t) PROVE CoordTypeOK'
  BY <1>3 DEF CoordTypeOK, ClaimBlocked, Call
<1>4. ASSUME NEW t \in Token, ClaimSucceeds(t) PROVE CoordTypeOK'
  <2>1. sentTo' \in Daemon
    BY <1>4, CodesAssumption DEF CoordTypeOK, ClaimSucceeds, Entry
  <2>2. /\ pending' \in [Token -> Entry \cup {Nobody}]
        /\ \A u \in Kept : pending'[u] # Nobody => pending'[u].expires = Never
    BY <1>4, CodesAssumption DEF CoordTypeOK, ClaimSucceeds, Consumed
  <2> QED
    BY <1>4, <2>1, <2>2 DEF CoordTypeOK, ClaimSucceeds, Call
<1>5. ASSUME NEW t \in Token, RevokeToken(t) PROVE CoordTypeOK'
  <2>1. /\ pending' \in [Token -> Entry \cup {Nobody}]
        /\ \A u \in Kept : pending'[u] # Nobody => pending'[u].expires = Never
    BY <1>5, CodesAssumption DEF CoordTypeOK, RevokeToken, Revoked
  <2> QED
    BY <1>5, <2>1 DEF CoordTypeOK, RevokeToken
<1>6. CASE Alarm
  <2>1. Unset \in Window(MaxNow)
    BY DEF Unset, Window
  <2>2. /\ pending' \in [Token -> Entry \cup {Nobody}]
        /\ \A u \in Kept : pending'[u] # Nobody => pending'[u].expires = Never
    BY <1>6, CodesAssumption DEF CoordTypeOK, Alarm
  <2> QED
    BY <1>6, <2>1, <2>2 DEF CoordTypeOK, Alarm
<1>7. CASE TimePasses
  BY <1>7 DEF CoordTypeOK, TimePasses
<1>8. CASE UNCHANGED coordVars
  BY <1>8 DEF CoordTypeOK, coordVars
<1> QED
  BY <1>1, <1>2, <1>3, <1>4, <1>5, <1>6, <1>7, <1>8
  DEF CoordNext, RegisterRefused

\* Codes, windows and histories keep their types.
THEOREM CoordTypes == CoordSpec => []CoordTypeOK
  BY CoordTypeInit, CoordTypeStep, PTL DEF CoordSpec

\* Every map of windows agrees with the history of what it counts.
LimitInv ==
    /\ instant \in Nat
    /\ \A d \in Daemon :
         /\ Counts(registered[d], rateLimits[d], RateLimit, instant)
         /\ Spaced(registered[d], rateLimits[d], RateLimit, RateWindow, instant)
    /\ \A p \in Prefix :
         /\ Counts(failed[p], claimFails[p], FailMax, instant)
         /\ p \notin dropped =>
              Spaced(failed[p], claimFails[p], FailMax, FailWindow, instant)

LEMMA LimitInit == CoordInit => LimitInv
<1> SUFFICES ASSUME CoordInit PROVE LimitInv
  OBVIOUS
<1> USE LimitsAssumption
<1>1. /\ <<>> \in Seq(Nat) /\ Len(<<>>) = 0 /\ Unset.count = 0
      /\ instant = 0
  BY DEF CoordInit, Unset
<1>2. ASSUME NEW limit \in Nat \ {0}, NEW width \in Nat
      PROVE  Counts(<<>>, Unset, limit, 0) /\ Spaced(<<>>, Unset, limit, width, 0)
  BY <1>1 DEF Counts, Spaced, Shape, Gap, Spread
<1> QED
  BY <1>1, <1>2 DEF CoordInit, LimitInv

LEMMA LimitStep ==
    CoordTypeOK /\ LimitInv /\ [CoordNext]_coordVars => LimitInv'
<1> SUFFICES ASSUME CoordTypeOK, LimitInv, [CoordNext]_coordVars
             PROVE  LimitInv'
  OBVIOUS
<1> USE LimitsAssumption, MapsAssumption
<1>1. ASSUME NEW t \in Token, RegisterToken(t) PROVE LimitInv'
  <2> DEFINE d == DrawnBy[t]
  <2>1. d \in Daemon /\ instant \in Nat
    BY DEF LimitInv
  <2>2. Running(rateLimits[d], RateWindow) => rateLimits[d].count < RateLimit
    <3>1. rateLimits[d].count \in Nat
      BY <2>1 DEF CoordTypeOK, Window
    <3> QED
      BY <1>1, <3>1 DEF RegisterToken, RateLimited
  <2>3. /\ Counts(registered[d], rateLimits[d], RateLimit, instant)
        /\ Spaced(registered[d], rateLimits[d], RateLimit, RateWindow, instant)
    BY <2>1 DEF LimitInv
  <2> DEFINE s == Append(registered[d], instant)
             w == Counted(rateLimits[d], RateWindow)
  <2>4. /\ Counts(s, w, RateLimit, instant)
        /\ Spaced(s, w, RateLimit, RateWindow, instant)
    BY <2>1, <2>2, <2>3, CountedCounts, CountedSpaces
  <2>5. /\ registered' = [registered EXCEPT ![d] = s]
        /\ rateLimits' = [rateLimits EXCEPT ![d] = w]
        /\ UNCHANGED <<instant, claimFails, failed, dropped>>
    BY <1>1 DEF RegisterToken
  <2> HIDE DEF d, s, w
  <2>6. ASSUME NEW e \in Daemon
        PROVE  /\ Counts(registered'[e], rateLimits'[e], RateLimit, instant')
               /\ Spaced(registered'[e], rateLimits'[e], RateLimit, RateWindow,
                         instant')
    <3>1. CASE e = d
      <4>1. registered'[e] = s /\ rateLimits'[e] = w /\ instant' = instant
        BY <2>5, <3>1 DEF CoordTypeOK
      <4> QED
        BY <2>4, <4>1
    <3>2. CASE e # d
      <4>1. /\ registered'[e] = registered[e] /\ rateLimits'[e] = rateLimits[e]
            /\ instant' = instant
        BY <2>5, <3>2 DEF CoordTypeOK
      <4> QED
        BY <4>1 DEF LimitInv
    <3> QED
      BY <3>1, <3>2
  <2> QED
    BY <2>5, <2>6 DEF LimitInv
<1>2. ASSUME NEW t \in Token, ClaimFails(t) PROVE LimitInv'
  <2> DEFINE p == PrefixOf[t]
             s == Append(failed[p], instant)
             w == Counted(claimFails[p], FailWindow)
             fails == [claimFails EXCEPT ![p] = w]
  <2>1. p \in Prefix /\ instant \in Nat
    BY DEF LimitInv
  <2>2. Running(claimFails[p], FailWindow) => claimFails[p].count < FailMax
    <3>1. claimFails[p].count \in Nat
      BY <2>1 DEF CoordTypeOK, Window
    <3> QED
      BY <1>2, <3>1 DEF ClaimFails, BackedOff
  <2>3. /\ Counts(failed[p], claimFails[p], FailMax, instant)
        /\ p \notin dropped =>
             Spaced(failed[p], claimFails[p], FailMax, FailWindow, instant)
    BY <2>1 DEF LimitInv
  <2>4. /\ Counts(s, w, FailMax, instant)
        /\ p \notin dropped => Spaced(s, w, FailMax, FailWindow, instant)
    BY <2>1, <2>2, <2>3, CountedCounts, CountedSpaces
  <2>5. /\ failed' = [failed EXCEPT ![p] = s]
        /\ UNCHANGED <<instant, rateLimits, registered>>
    BY <1>2 DEF ClaimFails, RecordClaimFail
  <2>6. \/ claimFails' = fails /\ dropped' = dropped
        \/ \E q \in Prefix : /\ claimFails' = [fails EXCEPT ![q] = Unset]
                             /\ dropped' = dropped \cup {q}
    BY <1>2 DEF ClaimFails, RecordClaimFail
  <2>7. claimFails \in [Prefix -> Window(MaxNow)] /\ failed \in [Prefix -> Seq(Nat)]
    BY DEF CoordTypeOK
  <2> HIDE DEF p, s, w
  <2>8. ASSUME NEW q \in Prefix
        PROVE  /\ Counts(failed'[q], fails[q], FailMax, instant)
               /\ q \notin dropped =>
                    Spaced(failed'[q], fails[q], FailMax, FailWindow, instant)
    <3>1. CASE q = p
      <4>1. failed'[q] = s /\ fails[q] = w
        BY <2>5, <2>7, <3>1
      <4> QED
        BY <2>4, <3>1, <4>1
    <3>2. CASE q # p
      <4>1. failed'[q] = failed[q] /\ fails[q] = claimFails[q]
        BY <2>5, <2>7, <3>2
      <4> QED
        BY <4>1 DEF LimitInv
    <3> QED
      BY <3>1, <3>2
  <2>9. DOMAIN fails = Prefix
    BY <2>7
  <2> HIDE DEF fails
  <2>10. ASSUME NEW q \in Prefix
         PROVE  /\ Counts(failed'[q], claimFails'[q], FailMax, instant')
                /\ q \notin dropped' =>
                     Spaced(failed'[q], claimFails'[q], FailMax, FailWindow,
                            instant')
    <3>1. instant' = instant
      BY <2>5
    <3>2. CASE claimFails' = fails /\ dropped' = dropped
      BY <2>8, <3>1, <3>2
    <3>3. ASSUME NEW o \in Prefix, claimFails' = [fails EXCEPT ![o] = Unset],
                 dropped' = dropped \cup {o}
          PROVE  <2>10!2
      <4>1. CASE q = o
        <5>1. claimFails'[q] = Unset /\ q \in dropped'
          BY <2>9, <3>3, <4>1
        <5>2. Counts(failed'[q], Unset, FailMax, instant)
          BY <2>1, <2>8, SweptCounts
        <5> QED
          BY <3>1, <5>1, <5>2
      <4>2. CASE q # o
        <5>1. claimFails'[q] = fails[q] /\ (q \notin dropped' => q \notin dropped)
          BY <2>9, <3>3, <4>2
        <5> QED
          BY <2>8, <3>1, <5>1
      <4> QED
        BY <4>1, <4>2
    <3> QED
      BY <2>6, <3>2, <3>3
  <2> QED
    BY <2>5, <2>10 DEF LimitInv
<1>3. ASSUME NEW t \in Token, ClaimBlocked(t) PROVE LimitInv'
  BY <1>3 DEF LimitInv, ClaimBlocked
<1>4. ASSUME NEW t \in Token, ClaimSucceeds(t) PROVE LimitInv'
  BY <1>4 DEF LimitInv, ClaimSucceeds
<1>5. ASSUME NEW t \in Token, RevokeToken(t) PROVE LimitInv'
  BY <1>5 DEF LimitInv, RevokeToken
<1>6. CASE Alarm
  <2>1. instant \in Nat /\ UNCHANGED <<instant, registered, failed, dropped>>
    BY <1>6 DEF Alarm, LimitInv
  <2>2. ASSUME NEW d \in Daemon
        PROVE  /\ Counts(registered[d], rateLimits'[d], RateLimit, instant)
               /\ Spaced(registered[d], rateLimits'[d], RateLimit, RateWindow,
                         instant)
    <3>1. /\ Counts(registered[d], rateLimits[d], RateLimit, instant)
          /\ Spaced(registered[d], rateLimits[d], RateLimit, RateWindow, instant)
      BY DEF LimitInv
    <3>2. \/ rateLimits'[d] = rateLimits[d]
          \/ rateLimits'[d] = Unset /\ instant - rateLimits[d].since > RateWindow
      BY <1>6 DEF Alarm
    <3> QED
      BY <2>1, <3>1, <3>2, SweptCounts
  <2>3. ASSUME NEW p \in Prefix
        PROVE  /\ Counts(failed[p], claimFails'[p], FailMax, instant)
               /\ p \notin dropped =>
                    Spaced(failed[p], claimFails'[p], FailMax, FailWindow,
                           instant)
    <3>1. /\ Counts(failed[p], claimFails[p], FailMax, instant)
          /\ p \notin dropped =>
               Spaced(failed[p], claimFails[p], FailMax, FailWindow, instant)
      BY DEF LimitInv
    <3>2. \/ claimFails'[p] = claimFails[p]
          \/ claimFails'[p] = Unset /\ instant - claimFails[p].since > FailWindow
      BY <1>6 DEF Alarm
    <3> QED
      BY <2>1, <3>1, <3>2, SweptCounts
  <2> QED
    BY <2>1, <2>2, <2>3 DEF LimitInv
<1>7. CASE TimePasses
  <2>1. /\ instant \in Nat /\ instant' = instant + 1
        /\ UNCHANGED <<rateLimits, claimFails, registered, failed, dropped>>
    BY <1>7 DEF TimePasses, LimitInv
  <2> QED
    BY <2>1, TimeCounts DEF LimitInv
<1>8. CASE UNCHANGED coordVars
  BY <1>8 DEF LimitInv, coordVars
<1> QED
  BY <1>1, <1>2, <1>3, <1>4, <1>5, <1>6, <1>7, <1>8
  DEF CoordNext, RegisterRefused

LEMMA UsedUp ==
    ASSUME NEW s, NEW w, NEW limit \in Nat \ {0}, NEW width \in Nat,
           instant \in Nat, Counts(s, w, limit, instant), Running(w, width),
           w.count >= limit
    PROVE  Recent(s, limit, width)
<1>1. /\ w.count \in Nat /\ w.since \in Nat /\ w # Unset
      /\ w = Unset <=> w.count = 0
  BY NumbersOf DEF Counts, Running
<1>2. w.count <= limit /\ w.count <= Len(s) /\ s[Len(s) - w.count + 1] = w.since
  BY <1>1 DEF Counts, Shape
<1>3. w.count = limit
  BY <1>1, <1>2
<1> QED
  BY <1>2, <1>3 DEF Recent, Running

LEMMA LimitsFollow == LimitInv => LimitsHold
<1> SUFFICES ASSUME LimitInv PROVE LimitsHold
  OBVIOUS
<1> USE LimitsAssumption
<1>1. ASSUME NEW d \in Daemon
      PROVE  /\ RateLimited(d) => Recent(registered[d], RateLimit, RateWindow)
             /\ Spread(registered[d], RateLimit, RateWindow)
  BY UsedUp DEF LimitInv, RateLimited, Spaced
<1>2. ASSUME NEW p \in Prefix
      PROVE  /\ BackedOff(p) => Recent(failed[p], FailMax, FailWindow)
             /\ p \notin dropped => Spread(failed[p], FailMax, FailWindow)
  BY UsedUp DEF LimitInv, BackedOff, Spaced
<1> QED
  BY <1>1, <1>2 DEF LimitsHold

\* For any limits, windows and sizes of the maps: who is turned away has used
\* up the limit within the last window, and nobody gets twice the limit in the
\* span of one.  The windows before the present one hold at most the limit each
\* and end where the next begins (Gap).
THEOREM LimitsAreHeld == CoordSpec => []LimitsHold
<1>1. CoordInit => CoordTypeOK /\ LimitInv
  BY CoordTypeInit, LimitInit
<1>2. CoordTypeOK /\ LimitInv /\ [CoordNext]_coordVars
      => (CoordTypeOK /\ LimitInv)'
  BY CoordTypeStep, LimitStep
<1> QED
  BY <1>1, <1>2, LimitsFollow, PTL DEF CoordSpec

LEMMA CodesStep ==
    ASSUME CoordTypeOK, CoordTypeOK', [CoordNext]_coordVars
    PROVE  [Codes!Next]_<<[t \in Token |-> LeadsTo(t)], sentTo>>
<1> DEFINE L == [t \in Token |-> LeadsTo(t)]
<1> USE CodesAssumption, LimitsAssumption, MapsAssumption
<1>0. /\ pending \in [Token -> Entry \cup {Nobody}]
      /\ pending' \in [Token -> Entry \cup {Nobody}]
      /\ instant \in Nat /\ Nobody \notin Entry /\ Nobody \notin Daemon
      /\ \A t \in Token : LeadsTo(t) \in Daemon \cup {Nobody}
  <2>1. pending \in [Token -> Entry \cup {Nobody}]
        /\ pending' \in [Token -> Entry \cup {Nobody}] /\ instant \in Nat
    BY DEF CoordTypeOK
  <2> QED
    BY <2>1 DEF LeadsTo, Entry
<1>1. ASSUME NEW t \in Token, RegisterToken(t) PROVE Codes!Register(t, DrawnBy[t])
  <2> DEFINE e == [daemon |-> DrawnBy[t],
                   expires |-> IF t \in Kept THEN Never ELSE instant + Ttl]
  <2>1. pending' = [pending EXCEPT ![t] = e] /\ UNCHANGED <<instant, sentTo>>
    BY <1>1 DEF RegisterToken
  <2>2. pending'[t] = e /\ e \in Entry /\ e.daemon = DrawnBy[t]
    <3>1. pending'[t] = e
      BY <1>0, <2>1
    <3>2. t \in Kept => Never \in Nat
      BY BoundsAssumption DEF Never
    <3>3. instant + Ttl \in Nat
      BY <1>0
    <3> QED
      BY <3>1, <3>2, <3>3 DEF Entry
  <2>3. ~(instant > e.expires)
    <3>1. instant \in 0 .. MaxNow
      BY DEF CoordTypeOK
    <3> QED
      BY <3>1, BoundsAssumption DEF Never
  <2> HIDE DEF e
  <2>4. LeadsTo(t)' = DrawnBy[t]
    BY <1>0, <2>1, <2>2, <2>3 DEF LeadsTo, Expired
  <2>5. \A u \in Token : u # t => LeadsTo(u)' = LeadsTo(u)
    BY <1>0, <2>1 DEF LeadsTo, Expired
  <2>6. L' = [L EXCEPT ![t] = DrawnBy[t]]
    BY <2>4, <2>5
  <2> QED
    BY <2>1, <2>6 DEF Codes!Register
<1>2. ASSUME NEW t \in Token, ClaimBlocked(t) PROVE Codes!Refuse
  BY <1>2 DEF ClaimBlocked, Codes!Refuse, LeadsTo, Expired
<1>3. ASSUME NEW t \in Token, ClaimFails(t) PROVE Codes!Refuse
  <2>1. /\ pending' = [pending EXCEPT ![t] = Nobody] /\ instant' = instant
        /\ pending[t] = Nobody \/ Expired(t)
        /\ sentTo' = Nobody
    BY <1>3 DEF ClaimFails
  <2>2. \A u \in Token : LeadsTo(u)' = LeadsTo(u)
    BY <1>0, <2>1 DEF LeadsTo, Expired
  <2> QED
    BY <2>1, <2>2 DEF Codes!Refuse
<1>4. ASSUME NEW t \in Token, ClaimSucceeds(t) PROVE Codes!Claim(t)
  <2>1. /\ pending[t] # Nobody /\ ~Expired(t) /\ sentTo' = pending[t].daemon
        /\ pending' = Consumed(t) /\ instant' = instant
    BY <1>4 DEF ClaimSucceeds
  <2>2. LeadsTo(t) = pending[t].daemon /\ pending[t].daemon # Nobody
    BY <1>0, <2>1 DEF LeadsTo, Entry
  <2>3. L' = IF t \in Kept THEN L ELSE [L EXCEPT ![t] = Nobody]
    <3>1. CASE t \in Kept
      BY <2>1, <3>1 DEF Consumed, LeadsTo, Expired
    <3>2. CASE t \notin Kept
      <4>1. pending' = [pending EXCEPT ![t] = Nobody]
        BY <2>1, <3>2 DEF Consumed
      <4>2. LeadsTo(t)' = Nobody /\ \A u \in Token : u # t => LeadsTo(u)' = LeadsTo(u)
        BY <1>0, <2>1, <4>1 DEF LeadsTo, Expired
      <4> QED
        BY <3>2, <4>2
    <3> QED
      BY <3>1, <3>2
  <2> QED
    BY <2>1, <2>2, <2>3 DEF Codes!Claim
<1>5. ASSUME NEW t \in Token, RevokeToken(t) PROVE Codes!Revoke(t)
  <2>1. pending' = [pending EXCEPT ![t] = Nobody] /\ UNCHANGED <<instant, sentTo>>
    BY <1>5 DEF RevokeToken, Revoked
  <2>2. LeadsTo(t)' = Nobody /\ \A u \in Token : u # t => LeadsTo(u)' = LeadsTo(u)
    BY <1>0, <2>1 DEF LeadsTo, Expired
  <2>3. L' = [L EXCEPT ![t] = Nobody]
    BY <2>2
  <2> QED
    BY <2>1, <2>3 DEF Codes!Revoke
<1>6. ASSUME Alarm PROVE UNCHANGED <<L, sentTo>>
  <2>1. \A u \in Token : LeadsTo(u)' = LeadsTo(u)
    BY <1>0, <1>6 DEF Alarm, LeadsTo, Expired
  <2> QED
    BY <1>6, <2>1 DEF Alarm
<1>7. ASSUME TimePasses PROVE Codes!Lapse
  <2>1. UNCHANGED <<pending, sentTo>> /\ instant' = instant + 1
    BY <1>7 DEF TimePasses
  <2>2. ASSUME NEW u \in Token
        PROVE  LeadsTo(u)' = LeadsTo(u) \/ (u \notin Kept /\ LeadsTo(u)' = Nobody)
    <3>1. CASE pending[u] = Nobody
      BY <2>1, <3>1 DEF LeadsTo
    <3>2. CASE pending[u] # Nobody
      <4>1. pending[u].expires \in Nat
        BY <1>0, <3>2 DEF Entry
      <4>2. ASSUME u \in Kept PROVE ~(instant' > pending[u].expires)
        <5>1. pending[u].expires = Never /\ instant' \in 0 .. MaxNow
          BY <3>2, <4>2 DEF CoordTypeOK
        <5> QED
          BY <5>1, BoundsAssumption DEF Never
      <4>3. instant > pending[u].expires => instant' > pending[u].expires
        BY <1>0, <2>1, <4>1
      <4>4. CASE instant' > pending[u].expires
        <5>1. u \notin Kept
          BY <4>2, <4>4
        <5>2. LeadsTo(u)' = Nobody
          BY <2>1, <3>2, <4>4 DEF LeadsTo, Expired
        <5> QED
          BY <5>1, <5>2
      <4>5. CASE ~(instant' > pending[u].expires)
        <5>1. LeadsTo(u) = pending[u].daemon
          BY <3>2, <4>3, <4>5 DEF LeadsTo, Expired
        <5>2. LeadsTo(u)' = pending[u].daemon
          BY <2>1, <3>2, <4>5 DEF LeadsTo, Expired
        <5> QED
          BY <5>1, <5>2
      <4> QED
        BY <4>4, <4>5
    <3> QED
      BY <3>1, <3>2
  <2>3. \A u \in Token : LeadsTo(u)' \in Daemon \cup {Nobody}
    BY <1>0, <2>2
  <2>4. L' \in [Token -> Daemon \cup {Nobody}]
    BY <2>3
  <2>5. \A u \in Token : L'[u] = L[u] \/ (u \notin Kept /\ L'[u] = Nobody)
    BY <2>2
  <2> QED
    BY <2>1, <2>4, <2>5 DEF Codes!Lapse
<1>8. ASSUME UNCHANGED coordVars PROVE UNCHANGED <<L, sentTo>>
  BY <1>8 DEF coordVars, LeadsTo, Expired
<1>9. \A t \in Token : RegisterToken(t) => Codes!Next
  BY <1>1 DEF Codes!Next
<1>10. ASSUME NEW t \in Token,
              ClaimBlocked(t) \/ ClaimFails(t) \/ ClaimSucceeds(t) \/ RevokeToken(t)
       PROVE  Codes!Next
  BY <1>10, <1>2, <1>3, <1>4, <1>5 DEF Codes!Next
<1>11. TimePasses => Codes!Next
  BY <1>7 DEF Codes!Next
<1> QED
  BY <1>6, <1>8, <1>9, <1>10, <1>11 DEF CoordNext, RegisterRefused

\* The coordinator implements PairingCodes, for any expiry, limits and bounds:
\* a registration, a claim and a revocation are the step of that name, a claim
\* that is turned away refuses, time lapses codes, and a sweep is a stutter.
THEOREM CodesAreKept == CoordSpec => KeepsCodes
<1>1. CoordInit => Codes!Init
  BY DEF CoordInit, Codes!Init, LeadsTo
<1>2. CoordTypeOK /\ CoordTypeOK' /\ [CoordNext]_coordVars
      => [Codes!Next]_<<[t \in Token |-> LeadsTo(t)], sentTo>>
  BY CodesStep
<1> QED
  BY <1>1, <1>2, CoordTypes, PTL DEF CoordSpec, KeepsCodes, Codes!Spec
=============================================================================
