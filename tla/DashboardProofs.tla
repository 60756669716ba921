--------------------------- MODULE DashboardProofs ---------------------------
(***************************************************************************)
(* The tabs' hidden cards, the timers of cells and refreshes, the chips of *)
(* a wrapped session, the questions of Claude, the big card, the rows,     *)
(* overlays and banners, the tunnel through which a phone's dashboard      *)
(* reaches the daemon, and the readers of transcript files: for any number *)
(* of tabs, cards, rows, writes, picks, lost links, requests, sockets and  *)
(* lines and for any lengths of time.                                      *)
(***************************************************************************)
EXTENDS DashboardTabs, DashboardCells, DashboardModal, WrapModes, DashboardAsks, DashboardFeed,
        DashboardTurns, DashboardSpawn, Tunnel, Transcripts, SequenceTheorems, FiniteSetTheorems,
        WellFoundedInduction, TLAPS

----------------------------------------------------------------------------
(* Tabs.                                                                   *)

TabsInv == TabsTypeOK /\ TabsAgree

LEMMA TabsInitInv == TabsInit => TabsInv
  BY TabsBound DEF TabsInit, TabsInv, TabsTypeOK, TabsAgree

\* A write of one tab: it agrees with what it wrote, and all others are told.
LEMMA WriteInv ==
  ASSUME NEW t \in Tab, NEW set \in SUBSET Card, TabsInv, Changes(t, set)
  PROVE  TabsInv'
<1>1. TabsTypeOK'
  BY TabsBound DEF TabsInv, TabsTypeOK, Changes, ToldAfter, ViewAfter
<1>2. TabsAgree'
  <2> SUFFICES ASSUME NEW u \in Tab
               PROVE  /\ u \notin told' => hiddenSet'[u] = stored'
                      /\ showHidden'[u] => hiddenSet'[u] # {}
    BY DEF TabsAgree
  <2>1. CASE u = t
    BY <2>1 DEF TabsInv, TabsTypeOK, Changes, ViewAfter
  <2>2. CASE u # t
    BY <2>2 DEF TabsInv, TabsTypeOK, TabsAgree, Changes, ToldAfter
  <2> QED BY <2>1, <2>2
<1> QED BY <1>1, <1>2 DEF TabsInv

LEMMA TabsNextInv == TabsInv /\ [TabsNext]_tabVars => TabsInv'
<1> SUFFICES ASSUME TabsInv, [TabsNext]_tabVars PROVE TabsInv'
  OBVIOUS
<1>1. ASSUME NEW t \in Tab, NEW c \in Card, hideSession(t, c) PROVE TabsInv'
  <2>1. hiddenSet[t] \cup {c} \in SUBSET Card
    BY DEF TabsInv, TabsTypeOK
  <2> QED BY <1>1, <2>1, WriteInv DEF hideSession
<1>2. ASSUME NEW t \in Tab, NEW c \in Card, unhideSession(t, c) PROVE TabsInv'
  <2>1. hiddenSet[t] \ {c} \in SUBSET Card
    BY DEF TabsInv, TabsTypeOK
  <2> QED BY <1>2, <2>1, WriteInv DEF unhideSession
<1>3. ASSUME NEW t \in Tab, ToggleView(t) PROVE TabsInv'
  BY <1>3 DEF TabsInv, TabsTypeOK, TabsAgree, ToggleView
<1>4. ASSUME NEW t \in Tab, onStorage(t) PROVE TabsInv'
  BY <1>4 DEF TabsInv, TabsTypeOK, TabsAgree, onStorage, ViewAfter
<1>5. CASE UNCHANGED tabVars
  BY <1>5 DEF TabsInv, TabsTypeOK, TabsAgree, tabVars
<1> QED BY <1>1, <1>2, <1>3, <1>4, <1>5 DEF TabsNext

\* However the writes of any number of tabs cross, a tab that no event is on its
\* way to hides what is stored, and no tab shows an empty view of hidden cards
\* (src/web/lib/hidden-sessions.ts).
THEOREM TabsStayInStep == TabsSpec => []TabsAgree
<1>1. TabsInv => TabsAgree
  BY DEF TabsInv
<1> QED BY <1>1, TabsInitInv, TabsNextInv, PTL DEF TabsSpec

----------------------------------------------------------------------------
(* Cells.                                                                  *)

\* A timer that would flash belongs to a session that waits; one that would call
\* it left waiting runs out exactly StaleAfter after the row's last event.
TimersMeanIt ==
    /\ armTimer # Off => status = "waiting"
    /\ staleTimer # Off => /\ status = "waiting" /\ lastUserTs <= lastEventAt
                           /\ (ticks - lastEventAt) + staleTimer = StaleAfter

\* The second refresh timer runs as long as an event waits for its refresh, and
\* has run since the event came.
RefreshIsDue ==
    /\ unserved = Off <=> refreshMaxTimer = Off
    /\ unserved # Off => (ticks - unserved) + refreshMaxTimer = MaxWait

CellsInv == CellsTypeOK /\ CellTellsTruth /\ TimersMeanIt /\ RefreshIsDue

LEMMA CellsInitInv == CellsInit => CellsInv
<1> SUFFICES ASSUME CellsInit PROVE CellsInv
  OBVIOUS
<1>1. CellsTypeOK
  <2>1. flashing \in BOOLEAN /\ staleWaiting \in BOOLEAN
    BY Zenon DEF CellsInit
  <2> QED BY <2>1, CellsBounds DEF CellsInit, CellsTypeOK
<1>2. CellTellsTruth /\ TimersMeanIt /\ RefreshIsDue
  BY DEF CellsInit, CellTellsTruth, TimersMeanIt, RefreshIsDue
<1> QED BY <1>1, <1>2 DEF CellsInv

\* What the two effects leave behind, whatever row came.
LEMMA FlashEffectIsTrue ==
  ASSUME CellsInv, NEW to \in {"active", "waiting", "idle"}, status' = to, FlashEffect(to)
  PROVE  /\ flashing' \in BOOLEAN
         /\ armTimer' \in 0..ArmFor \cup {Off} /\ flashTimer' \in 0..FlashFor \cup {Off}
         /\ flashing' => status' = "waiting"
         /\ armTimer' # Off => status' = "waiting"
<1>1. CASE status = "waiting" /\ to # "waiting"
  BY <1>1 DEF FlashEffect, Stops, Left
<1>2. CASE status # "waiting" /\ to = "waiting"
  <2>1. armTimer' = ArmFor /\ flashTimer' = Off /\ flashing' = flashing
    BY <1>2 DEF FlashEffect, Stops, Left, Entered
  <2>2. flashing \in BOOLEAN
    BY DEF CellsInv, CellsTypeOK
  <2> QED BY <1>2, <2>1, <2>2, CellsBounds
<1>3. CASE (status = "waiting") <=> (to = "waiting")
  <2>1. armTimer' = armTimer /\ flashTimer' = flashTimer /\ flashing' = flashing
    BY <1>3 DEF FlashEffect, Stops, Left, Entered
  <2> QED BY <1>3, <2>1 DEF CellsInv, CellsTypeOK, CellTellsTruth, TimersMeanIt
<1> QED BY <1>1, <1>2, <1>3

LEMMA StaleEffectIsTrue ==
  ASSUME NEW to \in {"active", "waiting", "idle"}, NEW event \in 0..ticks, NEW user \in 0..ticks,
         ticks \in Nat, StaleEffect(to, event, user)
  PROVE  /\ staleWaiting' \in BOOLEAN /\ staleTimer' \in 0..StaleAfter \cup {Off}
         /\ staleWaiting' => to = "waiting" /\ user <= event /\ ticks - event >= StaleAfter
         /\ staleTimer' # Off => /\ to = "waiting" /\ user <= event
                                 /\ (ticks - event) + staleTimer' = StaleAfter
<1>1. CASE to # "waiting" \/ user > event
  <2>1. staleWaiting' = FALSE /\ staleTimer' = Off
    BY <1>1 DEF StaleEffect
  <2> QED BY <2>1
<1>2. CASE to = "waiting" /\ ~(user > event) /\ ticks - event >= StaleAfter
  <2>1. staleWaiting' = TRUE /\ staleTimer' = Off
    BY <1>2 DEF StaleEffect
  <2>2. user <= event
    BY <1>2
  <2> QED BY <1>2, <2>1, <2>2
<1>3. CASE to = "waiting" /\ ~(user > event) /\ ~(ticks - event >= StaleAfter)
  <2>1. staleWaiting' = FALSE /\ staleTimer' = StaleAfter - (ticks - event)
    BY <1>3 DEF StaleEffect
  <2>2. /\ user <= event /\ StaleAfter - (ticks - event) \in 0..StaleAfter
        /\ (ticks - event) + (StaleAfter - (ticks - event)) = StaleAfter
    BY <1>3, CellsBounds
  <2> QED BY <1>3, <2>1, <2>2
<1> QED BY <1>1, <1>2, <1>3

LEMMA ScheduleIsDue ==
  ASSUME CellsInv, scheduleRefresh, ticks' = ticks
  PROVE  /\ refreshTimer' \in 0..Debounce \cup {Off} /\ refreshMaxTimer' \in 0..MaxWait \cup {Off}
         /\ unserved' \in 0..ticks \cup {Off}
         /\ RefreshIsDue'
  BY CellsBounds DEF CellsInv, CellsTypeOK, RefreshIsDue, scheduleRefresh, MaxTimerAfter

LEMMA RowInv ==
  ASSUME CellsInv, NEW to \in {"active", "waiting", "idle"}, NEW age \in Nat, RowArrives(to, age)
  PROVE  CellsInv'
<1>1. ticks \in Nat /\ lastEventAt \in 0..ticks /\ lastUserTs \in 0..ticks
  BY CellsBounds DEF CellsInv, CellsTypeOK
<1>2. ticks - age \in 0..ticks /\ lastEventAt' = ticks - age
  BY <1>1 DEF RowArrives
<1>3. status' = to /\ FlashEffect(to) /\ StaleEffect(to, ticks - age, lastUserTs)
      /\ scheduleRefresh /\ ticks' = ticks /\ lastUserTs' = lastUserTs
  BY DEF RowArrives
<1>4. /\ flashing' \in BOOLEAN
      /\ armTimer' \in 0..ArmFor \cup {Off} /\ flashTimer' \in 0..FlashFor \cup {Off}
      /\ flashing' => status' = "waiting"
      /\ armTimer' # Off => status' = "waiting"
  BY <1>3, FlashEffectIsTrue
<1>5. /\ staleWaiting' \in BOOLEAN /\ staleTimer' \in 0..StaleAfter \cup {Off}
      /\ staleWaiting' => to = "waiting" /\ lastUserTs <= ticks - age /\ ticks - (ticks - age) >= StaleAfter
      /\ staleTimer' # Off => /\ to = "waiting" /\ lastUserTs <= ticks - age
                              /\ (ticks - (ticks - age)) + staleTimer' = StaleAfter
  BY <1>1, <1>2, <1>3, StaleEffectIsTrue
<1>6. /\ refreshTimer' \in 0..Debounce \cup {Off} /\ refreshMaxTimer' \in 0..MaxWait \cup {Off}
      /\ unserved' \in 0..ticks \cup {Off}
      /\ RefreshIsDue'
  BY <1>3, ScheduleIsDue
<1>7. CellsTypeOK'
  BY <1>1, <1>2, <1>3, <1>4, <1>5, <1>6 DEF CellsInv, CellsTypeOK
<1>8. CellTellsTruth' /\ TimersMeanIt'
  BY <1>2, <1>3, <1>4, <1>5 DEF CellTellsTruth, TimersMeanIt
<1> QED BY <1>6, <1>7, <1>8 DEF CellsInv

LEMMA CellsNextInv == CellsInv /\ [CellsNext]_cellVars => CellsInv'
<1> SUFFICES ASSUME CellsInv, [CellsNext]_cellVars PROVE CellsInv'
  OBVIOUS
<1> USE DEF CellsInv
<1>1. ASSUME NEW to \in {"active", "waiting", "idle"}, NEW age \in {0, StaleAfter}, RowArrives(to, age)
      PROVE  CellsInv'
  BY <1>1, RowInv, CellsBounds
<1>2. CASE UserTurnSeen
  <2>1. /\ ticks' = ticks /\ status' = status /\ lastEventAt' = lastEventAt /\ lastUserTs' = ticks
        /\ flashing' = flashing /\ armTimer' = armTimer /\ flashTimer' = flashTimer
        /\ refreshTimer' = refreshTimer /\ refreshMaxTimer' = refreshMaxTimer /\ unserved' = unserved
        /\ StaleEffect(status, lastEventAt, ticks)
    BY <1>2 DEF UserTurnSeen, refresh
  <2>2. ticks \in Nat /\ lastEventAt \in 0..ticks /\ status \in {"active", "waiting", "idle"}
    BY CellsBounds DEF CellsTypeOK
  <2>3. /\ staleWaiting' \in BOOLEAN /\ staleTimer' \in 0..StaleAfter \cup {Off}
        /\ staleWaiting' => status = "waiting" /\ ticks <= lastEventAt /\ ticks - lastEventAt >= StaleAfter
        /\ staleTimer' # Off => /\ status = "waiting" /\ ticks <= lastEventAt
                                /\ (ticks - lastEventAt) + staleTimer' = StaleAfter
    BY <2>1, <2>2, StaleEffectIsTrue
  <2>4. CellsTypeOK'
    BY <2>1, <2>2, <2>3 DEF CellsTypeOK
  <2>5. CellTellsTruth' /\ TimersMeanIt' /\ RefreshIsDue'
    BY <2>1, <2>3 DEF CellTellsTruth, TimersMeanIt, RefreshIsDue
  <2> QED BY <2>4, <2>5
<1>3. CASE ArmFires
  <2>1. status = "waiting"
    BY <1>3, CellsBounds DEF ArmFires, TimersMeanIt
  <2>2. CellsTypeOK'
    BY <1>3, CellsBounds DEF ArmFires, CellsTypeOK, refresh
  <2>3. CellTellsTruth' /\ TimersMeanIt' /\ RefreshIsDue'
    BY <1>3, <2>1 DEF ArmFires, CellTellsTruth, TimersMeanIt, RefreshIsDue, refresh
  <2> QED BY <2>2, <2>3
<1>4. CASE FlashFires
  <2>1. CellsTypeOK'
    BY <1>4 DEF FlashFires, CellsTypeOK, refresh
  <2>2. CellTellsTruth' /\ TimersMeanIt' /\ RefreshIsDue'
    BY <1>4 DEF FlashFires, CellTellsTruth, TimersMeanIt, RefreshIsDue, refresh
  <2> QED BY <2>1, <2>2
<1>5. CASE StaleFires
  <2>1. staleTimer # Off /\ staleTimer = 0
    BY <1>5, CellsBounds DEF StaleFires
  <2>2. CellsTypeOK'
    BY <1>5 DEF StaleFires, CellsTypeOK, refresh
  <2>3. /\ status = "waiting" /\ lastUserTs <= lastEventAt
        /\ ticks - lastEventAt >= StaleAfter
    BY <2>1, CellsBounds DEF TimersMeanIt, CellsTypeOK
  <2>4. CellTellsTruth' /\ TimersMeanIt' /\ RefreshIsDue'
    BY <1>5, <2>3 DEF StaleFires, CellTellsTruth, TimersMeanIt, RefreshIsDue, refresh
  <2> QED BY <2>2, <2>4
<1>6. CASE RefreshFires
  <2>1. CellsTypeOK'
    BY <1>6 DEF RefreshFires, CellsTypeOK, cell
  <2>2. CellTellsTruth' /\ TimersMeanIt' /\ RefreshIsDue'
    BY <1>6 DEF RefreshFires, CellTellsTruth, TimersMeanIt, RefreshIsDue, cell
  <2> QED BY <2>1, <2>2
<1>7. CASE TimePasses
  <2>1. /\ ticks \in Nat /\ ticks < MaxTicks /\ ticks' = ticks + 1
        /\ status' = status /\ lastEventAt' = lastEventAt /\ lastUserTs' = lastUserTs
        /\ flashing' = flashing /\ staleWaiting' = staleWaiting /\ unserved' = unserved
    BY <1>7, CellsBounds DEF TimePasses, CellsTypeOK
  <2>2. ASSUME NEW atMost \in Nat, NEW timer \in 0..atMost \cup {Off}, timer # 0
        PROVE  /\ Run(timer) \in 0..atMost \cup {Off}
               /\ timer = Off <=> Run(timer) = Off
               /\ timer # Off => Run(timer) = timer - 1
    BY <2>2, CellsBounds DEF Run
  <2>3. /\ armTimer' \in 0..ArmFor \cup {Off} /\ (armTimer = Off <=> armTimer' = Off)
        /\ flashTimer' \in 0..FlashFor \cup {Off}
        /\ refreshTimer' \in 0..Debounce \cup {Off}
    BY <1>7, <2>2, CellsBounds DEF TimePasses, Timers, CellsTypeOK
  <2>4. /\ staleTimer' \in 0..StaleAfter \cup {Off} /\ (staleTimer = Off <=> staleTimer' = Off)
        /\ staleTimer # Off => staleTimer' = staleTimer - 1
    BY <1>7, <2>2, CellsBounds DEF TimePasses, Timers, CellsTypeOK
  <2>5. /\ refreshMaxTimer' \in 0..MaxWait \cup {Off}
        /\ (refreshMaxTimer = Off <=> refreshMaxTimer' = Off)
        /\ refreshMaxTimer # Off => refreshMaxTimer' = refreshMaxTimer - 1
    BY <1>7, <2>2, CellsBounds DEF TimePasses, Timers, CellsTypeOK
  <2>6. CellsTypeOK'
    BY <2>1, <2>3, <2>4, <2>5, CellsBounds DEF CellsTypeOK
  <2>7. CellTellsTruth'
    BY <2>1, CellsBounds DEF CellTellsTruth, CellsTypeOK
  <2>8. TimersMeanIt'
    <3>1. armTimer' # Off => status' = "waiting"
      BY <2>1, <2>3 DEF TimersMeanIt
    <3>2. ASSUME staleTimer' # Off
          PROVE  /\ status' = "waiting" /\ lastUserTs' <= lastEventAt'
                 /\ (ticks' - lastEventAt') + staleTimer' = StaleAfter
      <4>1. /\ status = "waiting" /\ lastUserTs <= lastEventAt
            /\ (ticks - lastEventAt) + staleTimer = StaleAfter
            /\ staleTimer' = staleTimer - 1 /\ staleTimer \in Nat /\ lastEventAt \in Nat
        BY <2>4, <3>2, CellsBounds DEF TimersMeanIt, CellsTypeOK
      <4>2. ((ticks + 1) - lastEventAt) + (staleTimer - 1) = StaleAfter
        BY <2>1, <4>1
      <4> QED BY <2>1, <4>1, <4>2
    <3> QED BY <3>1, <3>2 DEF TimersMeanIt
  <2>9. RefreshIsDue'
    <3>1. unserved' = Off <=> refreshMaxTimer' = Off
      BY <2>1, <2>5 DEF RefreshIsDue
    <3>2. ASSUME unserved' # Off
          PROVE  (ticks' - unserved') + refreshMaxTimer' = MaxWait
      <4>1. /\ (ticks - unserved) + refreshMaxTimer = MaxWait
            /\ refreshMaxTimer' = refreshMaxTimer - 1
            /\ refreshMaxTimer \in Nat /\ unserved \in Nat
        BY <2>1, <2>5, <3>2, CellsBounds DEF RefreshIsDue, CellsTypeOK
      <4>2. ((ticks + 1) - unserved) + (refreshMaxTimer - 1) = MaxWait
        BY <2>1, <4>1
      <4> QED BY <2>1, <4>1, <4>2
    <3> QED BY <3>1, <3>2 DEF RefreshIsDue
  <2> QED BY <2>6, <2>7, <2>8, <2>9
<1>8. CASE UNCHANGED cellVars
  BY <1>8 DEF cellVars, cell, refresh, CellsTypeOK, CellTellsTruth, TimersMeanIt, RefreshIsDue
<1> QED BY <1>1, <1>2, <1>3, <1>4, <1>5, <1>6, <1>7, <1>8 DEF CellsNext

\* Whatever rows and user turns arrive between the timers, a cell flashes only while
\* its session waits and is painted as left waiting only when it has been left
\* (the effects of the small card in src/web/app.tsx), for any lengths of time.
THEOREM CellsTellTruth == CellsSpec => []CellTellsTruth
<1>1. CellsInv => CellTellsTruth
  BY DEF CellsInv
<1> QED BY <1>1, CellsInitInv, CellsNextInv, PTL DEF CellsSpec

\* Events may come as fast as they like and push the trailing timer before them:
\* a refresh follows each within MAX_REFRESH_INTERVAL_MS (scheduleRefresh of
\* src/web/app.tsx).
THEOREM RefreshComes == CellsSpec => []RefreshIsPrompt
<1>1. CellsInv => RefreshIsPrompt
  BY CellsBounds DEF CellsInv, CellsTypeOK, RefreshIsDue, RefreshIsPrompt
<1> QED BY <1>1, CellsInitInv, CellsNextInv, PTL DEF CellsSpec
----------------------------------------------------------------------------
(* The chips of a wrapped session.                                         *)

SetMsg == [kind : Kind, value : Value]
UpFrame == [type : {"register"}, values : [Kind -> Value]]
           \cup [type : {"changed"}, set : SetMsg]
           \cup [type : {"session_uuid"}]
HubValues == [Kind -> Value \cup {Unset}]

ModesTypeOK ==
    /\ ready \in BOOLEAN /\ link \in BOOLEAN /\ renamed \in BOOLEAN
    /\ runs \in [Kind -> Value] /\ current \in [Kind -> Value]
    /\ calls \in Seq(SetMsg) /\ replies \in Seq(SetMsg) /\ down \in Seq(SetMsg)
    /\ up \in Seq(UpFrame)
    /\ conn \in {"none", "old", "live"}
    /\ registered \in HubValues /\ hub \in HubValues /\ chip \in HubValues
    /\ out \in Seq(HubValues)
    /\ pending \in HubValues

\* A frame says something about kind k; the daemon believes the last that does.
Affects(f, k) == f.type = "changed" => f.set.kind = k
Says(f, k, v) ==
    /\ f.type = "register" => f.values[k] = v
    /\ f.type = "changed" => f.set.value = v

\* The last answer of the SDK about k is what it runs with; without one the
\* wrapper has it.
WrapperKnows(k) ==
    /\ \A i \in 1..Len(replies) :
          /\ replies[i].kind = k
          /\ \A j \in (i + 1)..Len(replies) : replies[j].kind # k
          => replies[i].value = runs[k]
    /\ (\A i \in 1..Len(replies) : replies[i].kind # k) => current[k] = runs[k]

\* The last frame about k says what the wrapper has; without one the daemon
\* has it, or, after /clear, what was registered.
DaemonLearns(k) ==
    /\ \A i \in 1..Len(up) :
          /\ Affects(up[i], k)
          /\ \A j \in (i + 1)..Len(up) : ~Affects(up[j], k)
          => Says(up[i], k, current[k])
    /\ conn = "live" /\ (\A i \in 1..Len(up) : ~Affects(up[i], k)) =>
          hub[k] = current[k] \/ (renamed /\ hub[k] = registered[k])

\* The last broadcast is what the daemon has.
ChipsLearn == hub = IF out = <<>> THEN chip ELSE out[Len(out)]

\* An open link that the daemon has not heard of yet starts with a register.
LinkInv ==
    /\ conn = "live" => link
    /\ ~link => up = <<>>
    /\ link /\ conn # "live" => up # <<>> /\ up[1].type = "register"

ModesInv ==
    /\ ModesTypeOK /\ ChipsLearn /\ LinkInv
    /\ \A k \in Kind : WrapperKnows(k) /\ DaemonLearns(k)

LEMMA RebroadcastType ==
  ASSUME ModesTypeOK, NEW values \in HubValues, Rebroadcast(values)
  PROVE  hub' \in HubValues /\ out' \in Seq(HubValues)
BY DEF ModesTypeOK, Rebroadcast

LEMMA HeardType ==
  ASSUME NEW S, NEW s \in Seq(S), s # <<>>
  PROVE  Head(s) \in S /\ Tail(s) \in Seq(S) /\ Head(s) = s[1]
OBVIOUS

LEMMA LastOfTail ==
  ASSUME NEW S, NEW s \in Seq(S), s # <<>>
  PROVE  /\ Tail(s) = <<>> => Head(s) = s[Len(s)]
         /\ Tail(s) # <<>> => Tail(s)[Len(Tail(s))] = s[Len(s)]
<1>1. Len(s) \in Nat /\ Len(s) >= 1
  OBVIOUS
<1>2. Tail(s) \in Seq(S) /\ Len(Tail(s)) = Len(s) - 1
  OBVIOUS
<1>3. Tail(s) = <<>> <=> Len(Tail(s)) = 0
  BY <1>2, EmptySeq
<1>4. ASSUME Tail(s) = <<>> PROVE Head(s) = s[Len(s)]
  <2>1. Len(s) = 1
    BY ONLY <1>1, <1>2, <1>3, <1>4
  <2> QED BY <2>1
<1>5. ASSUME Tail(s) # <<>> PROVE Tail(s)[Len(Tail(s))] = s[Len(s)]
  <2>1. Len(Tail(s)) >= 1
    BY ONLY <1>1, <1>2, <1>3, <1>5
  <2>2. Len(Tail(s)) + 1 = Len(s) /\ Len(Tail(s)) \in 1 .. Len(Tail(s))
    BY ONLY <2>1, <1>1, <1>2
  <2>3. \A i \in 1 .. Len(Tail(s)) : Tail(s)[i] = s[i + 1]
    OBVIOUS
  <2> QED BY ONLY <2>2, <2>3
<1> QED BY <1>4, <1>5

LEMMA ModesTypeStep == ModesTypeOK /\ [ModesNext]_modesVars => ModesTypeOK'
<1> SUFFICES ASSUME ModesTypeOK, [ModesNext]_modesVars PROVE ModesTypeOK'
  OBVIOUS
<1> USE WrapModesAssumption
<1>1. ASSUME NEW v \in Value, PickMode(v) \/ PickModel(v) \/ PickEffort(v) PROVE ModesTypeOK'
  <2>1. PICK k \in Kind : Pick(k, v)
    BY <1>1 DEF PickMode, PickModel, PickEffort, Kind
  <2>2. pending' \in HubValues
    BY <2>1 DEF Pick, ModesTypeOK, HubValues
  <2> QED BY <2>1, <2>2 DEF Pick, ModesTypeOK, sdk, hubside
<1>2. CASE PostMode \/ PostModel \/ PostEffort
  <2>1. PICK k \in Kind : Push(k)
    BY <1>2 DEF PostMode, PostModel, PostEffort, Kind
  <2>2. pending' \in HubValues
    BY <2>1 DEF Push, ModesTypeOK, HubValues
  <2>3. Set(k, pending[k]) \in SetMsg
    BY <2>1 DEF Push, ModesTypeOK, HubValues, Set, SetMsg
  <2>4. down' \in Seq(SetMsg)
    BY <2>1, <2>3 DEF Push, ModesTypeOK
  <2> QED BY <2>1, <2>2, <2>4 DEF Push, ModesTypeOK, sdk, hubside
<1>3. CASE QueryMade
  BY <1>3 DEF QueryMade, ModesTypeOK, hubside, chips
<1>4. CASE WrapHears
  <2>1. Head(down) \in SetMsg /\ Tail(down) \in Seq(SetMsg)
    BY <1>4, HeardType DEF WrapHears, ModesTypeOK
  <2> QED BY <1>4, <2>1 DEF WrapHears, ModesTypeOK, hubside, chips
<1>5. CASE SdkApplies
  <2>1. Head(calls) \in SetMsg /\ Tail(calls) \in Seq(SetMsg)
    BY <1>5, HeardType DEF SdkApplies, ModesTypeOK
  <2>2. runs' \in [Kind -> Value]
    BY <1>5, <2>1 DEF SdkApplies, ModesTypeOK, SetMsg
  <2> QED BY <1>5, <2>1, <2>2 DEF SdkApplies, ModesTypeOK, hubside, chips
<1>6. CASE SdkRefuses
  <2>1. Tail(calls) \in Seq(SetMsg)
    BY <1>6, HeardType DEF SdkRefuses, ModesTypeOK
  <2> QED BY <1>6, <2>1 DEF SdkRefuses, ModesTypeOK, hubside, chips
<1>7. CASE Resolved
  <2>1. Head(replies) \in SetMsg /\ Tail(replies) \in Seq(SetMsg)
    BY <1>7, HeardType DEF Resolved, ModesTypeOK
  <2>2. current' \in [Kind -> Value]
    BY <1>7, <2>1 DEF Resolved, ModesTypeOK, SetMsg
  <2>3. up' \in Seq(UpFrame)
    <3>1. [type |-> "changed", set |-> Head(replies)] \in UpFrame
      BY <2>1 DEF UpFrame
    <3> QED BY <1>7, <3>1 DEF Resolved, ModesTypeOK
  <2> QED BY <1>7, <2>1, <2>2, <2>3 DEF Resolved, ModesTypeOK, hubside, chips
<1>8. CASE Reconnects
  <2>1. [type |-> "register", values |-> Registers] \in UpFrame
    BY DEF UpFrame, Registers, ModesTypeOK
  <2>2. up' \in Seq(UpFrame)
    BY <1>8, <2>1 DEF Reconnects
  <2> QED BY <1>8, <2>2 DEF Reconnects, ModesTypeOK, sdk, hubside, chips
<1>9. CASE LinkLost
  <2>1. up' \in Seq(UpFrame) /\ down' \in Seq(SetMsg)
    BY <1>9 DEF LinkLost
  <2>2. conn' \in {"none", "old", "live"} /\ link' \in BOOLEAN
    BY <1>9 DEF LinkLost, ModesTypeOK
  <2>3. UNCHANGED <<ready, runs, calls, replies, current, registered, hub, out, chip, pending, renamed>>
    BY <1>9 DEF LinkLost, sdk, chips
  <2> QED BY <2>1, <2>2, <2>3 DEF ModesTypeOK
<1>10. CASE Cleared
  <2>1. [type |-> "session_uuid"] \in UpFrame
    BY DEF UpFrame
  <2>2. up' \in Seq(UpFrame)
    BY <1>10, <2>1 DEF Cleared, ModesTypeOK
  <2> QED BY <1>10, <2>2 DEF Cleared, ModesTypeOK, sdk, hubside, chips
<1>11. CASE Registered
  <2>1. Head(up) \in UpFrame /\ Tail(up) \in Seq(UpFrame)
    BY <1>11, HeardType DEF Registered, ModesTypeOK
  <2>2. Head(up).values \in HubValues
    BY <1>11, <2>1 DEF Registered, UpFrame, HubValues
  <2>3. hub' \in HubValues /\ out' \in Seq(HubValues)
    BY <1>11, <2>2, RebroadcastType DEF Registered
  <2> QED BY <1>11, <2>1, <2>2, <2>3 DEF Registered, ModesTypeOK, sdk, chips
<1>12. CASE Renamed
  <2>1. Tail(up) \in Seq(UpFrame)
    BY <1>12, HeardType DEF Renamed, ModesTypeOK
  <2>2. hub' \in HubValues /\ out' \in Seq(HubValues)
    BY <1>12, RebroadcastType DEF Renamed, ModesTypeOK
  <2> QED BY <1>12, <2>1, <2>2 DEF Renamed, ModesTypeOK, sdk, chips
<1>13. CASE SetTold
  <2>1. Head(up) \in UpFrame /\ Tail(up) \in Seq(UpFrame)
    BY <1>13, HeardType DEF SetTold, ModesTypeOK
  <2>2. Head(up).set \in SetMsg
    BY <1>13, <2>1 DEF SetTold, UpFrame
  <2>3. [hub EXCEPT ![Head(up).set.kind] = Head(up).set.value] \in HubValues
    BY <2>2 DEF ModesTypeOK, HubValues, SetMsg
  <2>4. hub' \in HubValues /\ out' \in Seq(HubValues)
    BY <1>13, <2>3, RebroadcastType DEF SetTold
  <2> QED BY <1>13, <2>1, <2>4 DEF SetTold, ModesTypeOK, sdk, chips
<1>14. CASE HubSeesClose
  <2>1. All(Unset) \in HubValues
    BY DEF All, HubValues
  <2>2. hub' \in HubValues /\ out' \in Seq(HubValues)
    BY <1>14, <2>1, RebroadcastType DEF HubSeesClose
  <2> QED BY <1>14, <2>2 DEF HubSeesClose, ModesTypeOK, sdk, chips
<1>15. CASE ChipsHear
  <2>1. Head(out) \in HubValues /\ Tail(out) \in Seq(HubValues)
    BY <1>15, HeardType DEF ChipsHear, ModesTypeOK
  <2> QED BY <1>15, <2>1 DEF ChipsHear, ModesTypeOK, sdk
<1>16. CASE UNCHANGED modesVars
  BY <1>16 DEF modesVars, sdk, hubside, chips, ModesTypeOK
<1> QED BY <1>1, <1>2, <1>3, <1>4, <1>5, <1>6, <1>7, <1>8, <1>9, <1>10, <1>11, <1>12, <1>13, <1>14,
           <1>15, <1>16 DEF ModesNext
LEMMA ChipsStep == ModesTypeOK /\ ChipsLearn /\ [ModesNext]_modesVars => ChipsLearn'
<1> SUFFICES ASSUME ModesTypeOK, ChipsLearn, [ModesNext]_modesVars PROVE ChipsLearn'
  OBVIOUS
<1>a. ASSUME UNCHANGED <<hub, out, chip>> PROVE ChipsLearn'
  BY <1>a DEF ChipsLearn
<1>b. ASSUME NEW values, Rebroadcast(values) PROVE ChipsLearn'
  <2>1. hub' = values /\ out' = Append(out, values) /\ out \in Seq(HubValues)
    BY <1>b DEF Rebroadcast, ModesTypeOK
  <2>2. Len(out') = Len(out) + 1 /\ out'[Len(out) + 1] = values /\ out' # <<>>
    BY <2>1
  <2> QED BY <2>1, <2>2 DEF ChipsLearn
<1>1. CASE Registered \/ Renamed \/ SetTold \/ HubSeesClose
  BY <1>1, <1>b DEF Registered, Renamed, SetTold, HubSeesClose
<1>2. CASE ChipsHear
  <2>1. out \in Seq(HubValues) /\ out # <<>> /\ out' = Tail(out) /\ chip' = Head(out) /\ hub' = hub
    BY <1>2 DEF ChipsHear, ModesTypeOK
  <2>2. /\ out' = <<>> => chip' = out[Len(out)]
        /\ out' # <<>> => out'[Len(out')] = out[Len(out)]
    BY ONLY <2>1, LastOfTail
  <2> QED BY <2>1, <2>2 DEF ChipsLearn
<1>3. CASE ~(Registered \/ Renamed \/ SetTold \/ HubSeesClose \/ ChipsHear)
  BY <1>3, <1>a DEF ModesNext, PickMode, PickModel, PickEffort, Pick, PostMode, PostModel, PostEffort,
     Push, QueryMade, WrapHears, SdkApplies, SdkRefuses, Resolved, Reconnects, LinkLost, Cleared,
     modesVars, hubside, chips
<1> QED BY <1>1, <1>2, <1>3

LEMMA LinkStep == ModesTypeOK /\ LinkInv /\ [ModesNext]_modesVars => LinkInv'
<1> SUFFICES ASSUME ModesTypeOK, LinkInv, [ModesNext]_modesVars PROVE LinkInv'
  OBVIOUS
<1>a. ASSUME UNCHANGED <<conn, link, up>> PROVE LinkInv'
  BY <1>a DEF LinkInv
<1>b. ASSUME NEW f, UNCHANGED <<conn, link>>, link, up' = Append(up, f) PROVE LinkInv'
  <2>1. up \in Seq(UpFrame)
    BY DEF ModesTypeOK
  <2>2. up' # <<>> /\ (up # <<>> => up'[1] = up[1])
    BY <1>b, <2>1
  <2> QED BY <1>b, <2>2 DEF LinkInv
<1>1. CASE Resolved
  BY <1>1, <1>a, <1>b DEF Resolved, hubside
<1>2. CASE Cleared
  BY <1>2, <1>b DEF Cleared, hubside
<1>3. CASE Reconnects
  <2>1. up' # <<>> /\ up'[1] = [type |-> "register", values |-> Registers]
    BY <1>3 DEF Reconnects
  <2>2. link' /\ conn' = conn
    BY <1>3 DEF Reconnects, hubside
  <2> QED BY <2>1, <2>2 DEF LinkInv
<1>4. CASE LinkLost
  BY <1>4 DEF LinkLost, LinkInv
<1>5. CASE Registered \/ Renamed \/ SetTold
  <2>1. link /\ link' = link /\ conn' = "live"
    <3>1. up # <<>> /\ Head(up) = up[1]
      BY <1>5, HeardType DEF Registered, Renamed, SetTold, ModesTypeOK
    <3> QED BY <1>5, <3>1 DEF Registered, Renamed, SetTold, LinkInv
  <2> QED BY <2>1 DEF LinkInv
<1>6. CASE HubSeesClose
  BY <1>6 DEF HubSeesClose, LinkInv
<1>7. CASE ~(Resolved \/ Cleared \/ Reconnects \/ LinkLost \/ Registered \/ Renamed \/ SetTold
             \/ HubSeesClose)
  BY <1>7, <1>a DEF ModesNext, PickMode, PickModel, PickEffort, Pick, PostMode, PostModel, PostEffort,
     Push, QueryMade, WrapHears, SdkApplies, SdkRefuses, ChipsHear, modesVars, hubside
<1> QED BY <1>1, <1>2, <1>3, <1>4, <1>5, <1>6, <1>7

LEMMA WrapperStep ==
  ASSUME ModesTypeOK, NEW k \in Kind, WrapperKnows(k), [ModesNext]_modesVars
  PROVE  WrapperKnows(k)'
<1>a. ASSUME UNCHANGED <<runs, replies, current>> PROVE WrapperKnows(k)'
  BY <1>a DEF WrapperKnows
<1>0. replies \in Seq(SetMsg) /\ calls \in Seq(SetMsg)
  BY DEF ModesTypeOK
<1>1. CASE SdkApplies
  <2> DEFINE m == Head(calls)
  <2>1. /\ runs' = [runs EXCEPT ![m.kind] = m.value] /\ replies' = Append(replies, m)
        /\ current' = current /\ m \in SetMsg
    BY <1>0, <1>1, HeardType DEF SdkApplies
  <2> HIDE DEF m
  <2>2. /\ Len(replies') = Len(replies) + 1 /\ replies'[Len(replies) + 1] = m
        /\ \A i \in 1..Len(replies) : replies'[i] = replies[i]
        /\ Len(replies) \in Nat
    BY <1>0, <2>1
  <2>3. CASE m.kind = k
    <3>1. runs'[k] = m.value
      BY <2>1, <2>3 DEF ModesTypeOK
    <3>2. ASSUME NEW i \in 1..Len(replies'), \A j \in (i + 1)..Len(replies') : replies'[j].kind # k
          PROVE  replies'[i].value = runs'[k]
      <4>1. i = Len(replies) + 1
        BY <2>2, <2>3, <3>2
      <4> QED BY <2>2, <3>1, <4>1
    <3>3. \E i \in 1..Len(replies') : replies'[i].kind = k
      BY <2>2, <2>3
    <3> QED BY <3>2, <3>3 DEF WrapperKnows
  <2>4. CASE m.kind # k
    <3>1. runs'[k] = runs[k]
      BY <2>1, <2>4 DEF ModesTypeOK, SetMsg
    <3>2. ASSUME NEW i \in 1..Len(replies'), replies'[i].kind = k,
                 \A j \in (i + 1)..Len(replies') : replies'[j].kind # k
          PROVE  replies'[i].value = runs'[k]
      <4>1. i \in 1..Len(replies) /\ replies[i].kind = k
        BY <2>2, <2>4, <3>2
      <4>2. \A j \in (i + 1)..Len(replies) : replies[j].kind # k
        BY <2>2, <3>2, <4>1
      <4> QED BY <2>2, <3>1, <4>1, <4>2 DEF WrapperKnows
    <3>3. (\A i \in 1..Len(replies') : replies'[i].kind # k) => current'[k] = runs'[k]
      BY <2>1, <2>2, <3>1 DEF WrapperKnows
    <3> QED BY <3>2, <3>3 DEF WrapperKnows
  <2> QED BY <2>3, <2>4
<1>2. CASE Resolved
  <2> DEFINE m == Head(replies)
  <2>1. /\ current' = [current EXCEPT ![m.kind] = m.value] /\ replies' = Tail(replies)
        /\ runs' = runs /\ m \in SetMsg /\ m = replies[1] /\ replies # <<>>
    BY <1>0, <1>2, HeardType DEF Resolved
  <2> HIDE DEF m
  <2>2. /\ Len(replies') = Len(replies) - 1 /\ Len(replies) \in Nat /\ Len(replies) >= 1
        /\ \A i \in 1..Len(replies') : replies'[i] = replies[i + 1]
    BY <1>0, <2>1
  <2>3. ASSUME NEW i \in 1..Len(replies'), replies'[i].kind = k,
               \A j \in (i + 1)..Len(replies') : replies'[j].kind # k
        PROVE  replies'[i].value = runs'[k]
    <3>1. \A j \in (i + 2)..Len(replies) : replies[j].kind # k
      <4> SUFFICES ASSUME NEW j \in (i + 2)..Len(replies) PROVE replies[j].kind # k
        OBVIOUS
      <4>1. j - 1 \in (i + 1)..Len(replies') /\ (j - 1) + 1 = j
        BY <2>2
      <4> QED BY <2>2, <2>3, <4>1
    <3>2. i + 1 \in 1..Len(replies) /\ (i + 1) + 1 = i + 2
      BY <2>2
    <3> QED BY <2>1, <2>2, <2>3, <3>1, <3>2 DEF WrapperKnows
  <2>4. ASSUME \A i \in 1..Len(replies') : replies'[i].kind # k PROVE current'[k] = runs'[k]
    <3>1. \A j \in 2..Len(replies) : replies[j].kind # k
      <4> SUFFICES ASSUME NEW j \in 2..Len(replies) PROVE replies[j].kind # k
        OBVIOUS
      <4>1. j - 1 \in 1..Len(replies') /\ (j - 1) + 1 = j
        BY <2>2
      <4> QED BY <2>2, <2>4, <4>1
    <3>2. CASE m.kind = k
      <4>1. 1 \in 1..Len(replies) /\ replies[1].kind = k
        BY <2>1, <2>2, <3>2
      <4>2. m.value = runs[k]
        BY <2>1, <3>1, <4>1 DEF WrapperKnows
      <4> QED BY <2>1, <3>2, <4>2 DEF ModesTypeOK
    <3>3. CASE m.kind # k
      <4>1. \A i \in 1..Len(replies) : replies[i].kind # k
        BY <2>1, <2>2, <3>1, <3>3
      <4>2. current'[k] = current[k]
        BY <2>1, <3>3 DEF ModesTypeOK, SetMsg
      <4> QED BY <2>1, <4>1, <4>2 DEF WrapperKnows
    <3> QED BY <3>2, <3>3
  <2> QED BY <2>3, <2>4 DEF WrapperKnows
<1>3. CASE ~SdkApplies /\ ~Resolved
  BY <1>3, <1>a DEF ModesNext, PickMode, PickModel, PickEffort, Pick, PostMode, PostModel, PostEffort,
     Push, QueryMade, WrapHears, SdkRefuses, Reconnects, LinkLost, Cleared, Registered, Renamed,
     SetTold, HubSeesClose, ChipsHear, modesVars, sdk
<1> QED BY <1>1, <1>2, <1>3
\* What follows from the register onwards is not changed by a frame at the end.
LEMMA FrameAdded ==
  ASSUME ModesTypeOK, NEW k \in Kind, DaemonLearns(k), NEW f \in UpFrame,
         up' = Append(up, f), UNCHANGED <<conn, hub, registered, renamed>>,
         Affects(f, k) => Says(f, k, current'[k]),
         ~Affects(f, k) => current'[k] = current[k]
  PROVE  DaemonLearns(k)'
<1>1. /\ Len(up') = Len(up) + 1 /\ up'[Len(up) + 1] = f /\ Len(up) \in Nat
      /\ \A i \in 1..Len(up) : up'[i] = up[i]
  BY DEF ModesTypeOK
<1>2. CASE Affects(f, k)
  <2>1. ASSUME NEW i \in 1..Len(up'), \A j \in (i + 1)..Len(up') : ~Affects(up'[j], k)
        PROVE  Says(up'[i], k, current'[k])
    <3>1. i = Len(up) + 1
      BY <1>1, <1>2, <2>1
    <3> QED BY <1>1, <1>2, <3>1
  <2>2. \E i \in 1..Len(up') : Affects(up'[i], k)
    BY <1>1, <1>2
  <2>3. (\A i \in 1..Len(up) : /\ Affects(up[i], k)
                               /\ \A j \in (i + 1)..Len(up) : ~Affects(up[j], k)
                               => Says(up[i], k, current[k]))'
    BY <2>1 DEF Affects, Says
  <2>4. (\E i \in 1..Len(up) : Affects(up[i], k))'
    BY <2>2 DEF Affects
  <2> QED BY <2>3, <2>4 DEF DaemonLearns
<1>3. CASE ~Affects(f, k)
  <2>1. ASSUME NEW i \in 1..Len(up'), Affects(up'[i], k),
               \A j \in (i + 1)..Len(up') : ~Affects(up'[j], k)
        PROVE  Says(up'[i], k, current'[k])
    <3>1. i \in 1..Len(up) /\ up'[i] = up[i]
      BY <1>1, <1>3, <2>1
    <3>2. \A j \in (i + 1)..Len(up) : ~Affects(up[j], k)
      BY <1>1, <2>1, <3>1
    <3> QED BY <1>3, <2>1, <3>1, <3>2 DEF DaemonLearns
  <2>2. ASSUME conn = "live", \A i \in 1..Len(up') : ~Affects(up'[i], k)
        PROVE  hub[k] = current'[k] \/ (renamed /\ hub[k] = registered[k])
    <3>1. \A i \in 1..Len(up) : ~Affects(up[i], k)
      BY <1>1, <2>2
    <3> QED BY <1>3, <2>2, <3>1 DEF DaemonLearns
  <2> QED BY <2>1, <2>2 DEF DaemonLearns, Affects, Says
<1> QED BY <1>2, <1>3

\* The daemon takes the first frame.
LEMMA FrameTaken ==
  ASSUME ModesTypeOK, NEW k \in Kind, DaemonLearns(k), up # <<>>, up' = Tail(up),
         UNCHANGED current,
         Affects(up[1], k) /\ Says(up[1], k, current[k]) =>
            hub'[k] = current[k] \/ (renamed' /\ hub'[k] = registered'[k]),
         ~Affects(up[1], k) =>
            conn = "live" /\ UNCHANGED <<registered, renamed>> /\ hub'[k] = hub[k]
  PROVE  DaemonLearns(k)'
<1>1. /\ Len(up') = Len(up) - 1 /\ Len(up) \in Nat /\ Len(up) >= 1
      /\ \A i \in 1..Len(up') : up'[i] = up[i + 1]
  BY DEF ModesTypeOK
<1>2. ASSUME NEW i \in 1..Len(up'), Affects(up'[i], k),
             \A j \in (i + 1)..Len(up') : ~Affects(up'[j], k)
      PROVE  Says(up'[i], k, current'[k])
  <2>1. \A j \in (i + 2)..Len(up) : ~Affects(up[j], k)
    <3> SUFFICES ASSUME NEW j \in (i + 2)..Len(up) PROVE ~Affects(up[j], k)
      OBVIOUS
    <3>1. j - 1 \in (i + 1)..Len(up') /\ (j - 1) + 1 = j
      BY <1>1
    <3> QED BY <1>1, <1>2, <3>1
  <2>2. i + 1 \in 1..Len(up) /\ (i + 1) + 1 = i + 2 /\ up'[i] = up[i + 1]
    BY <1>1
  <2> QED BY <1>2, <2>1, <2>2 DEF DaemonLearns
<1>3. ASSUME \A i \in 1..Len(up') : ~Affects(up'[i], k)
      PROVE  hub'[k] = current[k] \/ (renamed' /\ hub'[k] = registered'[k])
  <2>1. \A j \in 2..Len(up) : ~Affects(up[j], k)
    <3> SUFFICES ASSUME NEW j \in 2..Len(up) PROVE ~Affects(up[j], k)
      OBVIOUS
    <3>1. j - 1 \in 1..Len(up') /\ (j - 1) + 1 = j
      BY <1>1
    <3> QED BY <1>1, <1>3, <3>1
  <2>2. CASE Affects(up[1], k)
    <3>1. 1 \in 1..Len(up) /\ 1 + 1 = 2
      BY <1>1
    <3>2. Says(up[1], k, current[k])
      BY <2>1, <2>2, <3>1 DEF DaemonLearns
    <3> QED BY <2>2, <3>2
  <2>3. CASE ~Affects(up[1], k)
    <3>1. \A i \in 1..Len(up) : ~Affects(up[i], k)
      BY <1>1, <2>1, <2>3
    <3> QED BY <2>3, <3>1 DEF DaemonLearns
  <2> QED BY <2>2, <2>3
<1> QED BY <1>2, <1>3 DEF DaemonLearns, Affects, Says

LEMMA DaemonStep ==
  ASSUME ModesTypeOK, LinkInv, NEW k \in Kind, DaemonLearns(k), [ModesNext]_modesVars
  PROVE  DaemonLearns(k)'
<1>a. ASSUME UNCHANGED <<up, conn, hub, current, registered, renamed>> PROVE DaemonLearns(k)'
  BY <1>a DEF DaemonLearns, Affects, Says
<1>b. ASSUME up' = <<>>, conn' # "live" PROVE DaemonLearns(k)'
  BY <1>b DEF DaemonLearns
<1>1. CASE Resolved
  <2> DEFINE m == Head(replies)
             f == [type |-> "changed", set |-> m]
  <2>1. /\ m \in SetMsg /\ current' = [current EXCEPT ![m.kind] = m.value]
        /\ UNCHANGED <<conn, hub, registered, renamed, link>>
        /\ up' = IF link THEN Append(up, f) ELSE up
    BY <1>1, HeardType DEF Resolved, ModesTypeOK, hubside
  <2>2. CASE link
    <3>1. f \in UpFrame
      BY <2>1 DEF UpFrame
    <3>2. Affects(f, k) <=> m.kind = k
      BY DEF Affects
    <3>3. current'[k] = IF m.kind = k THEN m.value ELSE current[k]
      BY <2>1 DEF ModesTypeOK
    <3>4. m.kind = k => Says(f, k, current'[k])
      BY <3>3 DEF Says
    <3> HIDE DEF m, f
    <3> QED BY <2>1, <2>2, <3>1, <3>2, <3>3, <3>4, FrameAdded
  <2>3. CASE ~link
    BY <2>1, <2>3, <1>b DEF LinkInv
  <2> QED BY <2>2, <2>3
<1>2. CASE Cleared
  <2> DEFINE f == [type |-> "session_uuid"]
  <2>1. f \in UpFrame /\ Affects(f, k) /\ Says(f, k, current'[k])
    BY DEF UpFrame, Affects, Says
  <2>2. up' = Append(up, f) /\ UNCHANGED <<conn, hub, registered, renamed, current>>
    BY <1>2 DEF Cleared, hubside
  <2> HIDE DEF f
  <2> QED BY <2>1, <2>2, FrameAdded
<1>3. CASE Reconnects
  <2> DEFINE f == [type |-> "register", values |-> current]
  <2>1. /\ up' = <<f>> /\ UNCHANGED <<conn, current>> /\ conn # "live"
    BY <1>3 DEF Reconnects, Registers, hubside, LinkInv
  <2>2. Says(f, k, current[k])
    BY DEF Says
  <2>3. Len(up') = 1 /\ up'[1] = f
    BY <2>1
  <2> HIDE DEF f
  <2> QED BY <2>1, <2>2, <2>3 DEF DaemonLearns, Affects, Says
<1>4. CASE LinkLost
  BY <1>4, <1>b DEF LinkLost
<1>5. CASE Registered
  <2>1. /\ up # <<>> /\ up' = Tail(up) /\ up[1].type = "register" /\ hub' = up[1].values
        /\ UNCHANGED current
    BY <1>5, HeardType DEF Registered, Rebroadcast, sdk, ModesTypeOK
  <2>2. Affects(up[1], k) /\ (Says(up[1], k, current[k]) => hub'[k] = current[k])
    BY <2>1 DEF Affects, Says
  <2> QED BY <2>1, <2>2, FrameTaken
<1>6. CASE Renamed
  <2>1. /\ up # <<>> /\ up' = Tail(up) /\ up[1].type = "session_uuid" /\ hub' = registered
        /\ renamed' = TRUE /\ UNCHANGED <<current, registered>>
    BY <1>6, HeardType DEF Renamed, Rebroadcast, sdk, ModesTypeOK
  <2>2. Affects(up[1], k)
    BY <2>1 DEF Affects
  <2> QED BY <2>1, <2>2, FrameTaken
<1>7. CASE SetTold
  <2>1. /\ up # <<>> /\ up' = Tail(up) /\ up[1].type = "changed" /\ up[1] \in UpFrame
        /\ hub' = [hub EXCEPT ![up[1].set.kind] = up[1].set.value]
        /\ UNCHANGED <<current, registered, renamed>>
    BY <1>7, HeardType DEF SetTold, Rebroadcast, sdk, ModesTypeOK
  <2>2. conn = "live"
    BY <2>1 DEF LinkInv, ModesTypeOK
  <2>3. Affects(up[1], k) /\ Says(up[1], k, current[k]) => hub'[k] = current[k]
    BY <2>1 DEF Affects, Says, ModesTypeOK, HubValues
  <2>4. ~Affects(up[1], k) => hub'[k] = hub[k]
    BY <2>1 DEF Affects, ModesTypeOK, HubValues
  <2> QED BY <2>1, <2>2, <2>3, <2>4, FrameTaken
<1>8. CASE HubSeesClose
  <2>1. conn' # "live" /\ UNCHANGED <<up, current>>
    BY <1>8 DEF HubSeesClose, sdk
  <2> QED BY <2>1 DEF DaemonLearns, Affects, Says
<1>9. CASE ~(Resolved \/ Cleared \/ Reconnects \/ LinkLost \/ Registered \/ Renamed \/ SetTold
             \/ HubSeesClose)
  BY <1>9, <1>a DEF ModesNext, PickMode, PickModel, PickEffort, Pick, PostMode, PostModel, PostEffort,
     Push, QueryMade, WrapHears, SdkApplies, SdkRefuses, ChipsHear, modesVars, hubside
<1> QED BY <1>1, <1>2, <1>3, <1>4, <1>5, <1>6, <1>7, <1>8, <1>9

\* Once nothing is under way the chips show what the SDK runs with, whatever
\* picks, refusals, lost links and late closes came before; after /clear a chip
\* may show the value of the last register instead.
THEOREM ModesDoSettle == ModesInit /\ [][ModesNext]_modesVars => []ModesSettle
<1>1. ModesInit => ModesInv
  <2> SUFFICES ASSUME ModesInit PROVE ModesInv
    OBVIOUS
  <2>1. ModesTypeOK
    <3>1. All(Unset) \in HubValues /\ All(Launched) \in [Kind -> Value]
      BY WrapModesAssumption DEF All, HubValues
    <3>2. /\ calls \in Seq(SetMsg) /\ replies \in Seq(SetMsg) /\ down \in Seq(SetMsg)
          /\ up \in Seq(UpFrame) /\ out \in Seq(HubValues)
      BY DEF ModesInit
    <3> QED BY <3>1, <3>2 DEF ModesInit, ModesTypeOK
  <2>2. \A k \in Kind : WrapperKnows(k) /\ DaemonLearns(k)
    BY DEF ModesInit, WrapperKnows, DaemonLearns
  <2> QED BY <2>1, <2>2 DEF ModesInit, ModesInv, ChipsLearn, LinkInv
<1>2. ModesInv /\ [ModesNext]_modesVars => ModesInv'
  <2> SUFFICES ASSUME ModesInv, [ModesNext]_modesVars PROVE ModesInv'
    OBVIOUS
  <2>1. ModesTypeOK' /\ ChipsLearn' /\ LinkInv'
    BY ModesTypeStep, ChipsStep, LinkStep DEF ModesInv
  <2>2. ASSUME NEW k \in Kind PROVE WrapperKnows(k)' /\ DaemonLearns(k)'
    BY WrapperStep, DaemonStep DEF ModesInv
  <2> QED BY <2>1, <2>2 DEF ModesInv
<1>3. ModesInv => ModesSettle
  <2> SUFFICES ASSUME ModesInv, Quiet, NEW k \in Kind
               PROVE  chip[k] = runs[k] \/ (renamed /\ chip[k] = registered[k])
    BY DEF ModesSettle
  <2>1. chip = hub
    BY DEF ModesInv, Quiet, ChipsLearn
  <2>2. current[k] = runs[k]
    BY DEF ModesInv, Quiet, WrapperKnows
  <2>3. hub[k] = current[k] \/ (renamed /\ hub[k] = registered[k])
    BY DEF ModesInv, Quiet, DaemonLearns
  <2> QED BY <2>1, <2>2, <2>3
<1> QED BY <1>1, <1>2, <1>3, PTL

----------------------------------------------------------------------------
(* Claude's questions.                                                     *)

Question == [uuid : Uuid, qid : Qid]
Post == [type : {"ask_question"}, uuid : Uuid, qid : Qid]
        \cup [type : {"ask_question_done"}, uuid : Uuid]
Holds(s, e) == \E i \in DOMAIN s : s[i] = e

AsksShape ==
    /\ AsksTypeOK
    /\ posts \in Seq(Post)
    /\ answered \subseteq [type : {"init", "again"}, seed : Seq(Question)]
    /\ submitting \in Question \cup {None}
    /\ away \subseteq Question

\* Where a question of a session may still be met.
Mentioned(e) ==
    \/ Holds(asks, e)
    \/ e \in away
    \/ e = submitting /\ e # None
    \/ wrapAsks[e.uuid] = e.qid
    \/ Holds(posts, [type |-> "ask_question", uuid |-> e.uuid, qid |-> e.qid])
    \/ \E a \in answered : Holds(a.seed, e)

\* Its id was given once, so it belongs to one session.
OneOwner ==
    /\ \A e \in Question : Mentioned(e) => e.qid \in asked
    /\ \A e, f \in Question : Mentioned(e) /\ Mentioned(f) /\ e.qid = f.qid => e = f

\* What was clicked away stays flagged, by its session and by its id.
AwayKept == \A e \in away : e.uuid \in dismissedAsks /\ e.qid \in dismissedAskQids

AsksInv == AsksShape /\ OneOwner /\ AwayKept

Below == {ss \in Nat \X Nat : ss[1] < ss[2]}

LEMMA BelowWF == IsWellFoundedOn(Below, Nat)
BY NatLessThanWellFounded, Zenon DEF OpToRel, Below

LEMMA LeastIsIn ==
  ASSUME NEW I \in SUBSET Nat, I # {}
  PROVE  Min(I) \in I
<1>1. PICK x \in I : \A y \in I : <<y, x>> \notin Below
  BY BelowWF, WFMin, Zenon
<1>2. ASSUME NEW y \in I PROVE x <= y
  <2>1. ~(y < x)
    BY <1>1, Zenon DEF Below
  <2> QED BY <2>1
<1> QED BY <1>2 DEF Min

\* The place of a key is the place of one of its entries.
LEMMA PlaceRight ==
  ASSUME NEW map \in Seq(Question), NEW u, Place(map, u) # 0
  PROVE  /\ Place(map, u) \in 1 .. Len(map)
         /\ map[Place(map, u)].uuid = u
         /\ map[Place(map, u)] \in Question
<1> DEFINE I == {i \in 1 .. Len(map) : map[i].uuid = u}
<1>1. Place(map, u) = IF I # {} THEN Min(I) ELSE 0
  BY DEF Place, SelectInSeq
<1>2. Place(map, u) \in I
  <2>1. I \in SUBSET Nat
    OBVIOUS
  <2> HIDE DEF I
  <2> QED BY <1>1, <2>1, LeastIsIn
<1>3. map[Place(map, u)] \in Question
  BY <1>2
<1> QED BY <1>2, <1>3

LEMMA QidRight ==
  ASSUME NEW map \in Seq(Question), NEW u, QidOf(map, u) # None
  PROVE  /\ QidOf(map, u) \in Qid
         /\ Holds(map, [uuid |-> u, qid |-> QidOf(map, u)])
<1>1. Place(map, u) # 0 /\ QidOf(map, u) = map[Place(map, u)].qid
  BY DEF QidOf
<1>2. /\ Place(map, u) \in DOMAIN map
      /\ map[Place(map, u)].uuid = u
      /\ map[Place(map, u)] \in Question
  BY <1>1, PlaceRight
<1>3. map[Place(map, u)] = [uuid |-> u, qid |-> QidOf(map, u)]
  BY <1>1, <1>2 DEF Question
<1> QED BY <1>1, <1>2, <1>3 DEF Holds, Question

LEMMA ShownRight ==
  ASSUME asks \in Seq(Question), Shown # None
  PROVE  Shown \in Question /\ Holds(asks, Shown) /\ Shown.uuid \notin dismissedAsks
<1> DEFINE I == {i \in 1 .. Len(asks) : asks[i].uuid \notin dismissedAsks}
           first == IF I # {} THEN Min(I) ELSE 0
<1>1. Shown = IF first = 0 THEN None ELSE asks[first]
  BY DEF Shown, SelectInSeq
<1>2. first # 0 /\ Shown = asks[first]
  BY <1>1
<1>3. first \in I
  <2>1. I \in SUBSET Nat
    OBVIOUS
  <2> HIDE DEF I
  <2> QED BY <1>2, <2>1, LeastIsIn
<1>4. first \in 1 .. Len(asks) /\ asks[first].uuid \notin dismissedAsks
  BY <1>3
<1> HIDE DEF first
<1> QED BY <1>2, <1>4 DEF Holds

LEMMA DropKeeps ==
  ASSUME NEW map \in Seq(Question), NEW u
  PROVE  /\ Drop(map, u) \in Seq(Question)
         /\ \A e : Holds(Drop(map, u), e) => Holds(map, e)
<1>1. CASE Place(map, u) = 0
  BY <1>1 DEF Drop
<1>2. CASE Place(map, u) # 0
  <2> DEFINE p == Place(map, u)
  <2>1. p \in 1 .. Len(map)
    BY <1>2, PlaceRight
  <2>2. Drop(map, u) = SubSeq(map, 1, p - 1) \o SubSeq(map, p + 1, Len(map))
    BY <1>2 DEF Drop, RemoveAt
  <2> HIDE DEF p
  <2>3. /\ SubSeq(map, 1, p - 1) \in Seq(Question) /\ Len(SubSeq(map, 1, p - 1)) = p - 1
        /\ \A i \in 1 .. (p - 1) : SubSeq(map, 1, p - 1)[i] = map[i]
    BY <2>1
  <2>4. /\ SubSeq(map, p + 1, Len(map)) \in Seq(Question)
        /\ Len(SubSeq(map, p + 1, Len(map))) = Len(map) - p
        /\ \A i \in 1 .. (Len(map) - p) : SubSeq(map, p + 1, Len(map))[i] = map[p + i]
    BY <2>1
  <2> DEFINE before == SubSeq(map, 1, p - 1)
             after == SubSeq(map, p + 1, Len(map))
  <2> HIDE DEF before, after
  <2>a. /\ before \o after \in Seq(Question)
        /\ Len(before \o after) = Len(before) + Len(after)
        /\ \A i \in 1 .. (Len(before) + Len(after)) :
              (before \o after)[i] = IF i <= Len(before) THEN before[i] ELSE after[i - Len(before)]
    BY <2>3, <2>4, ConcatProperties DEF before, after
  <2>b. Drop(map, u) = before \o after /\ Len(before) = p - 1 /\ Len(after) = Len(map) - p
    BY <2>2, <2>3, <2>4 DEF before, after
  <2>c. Len(map) \in Nat /\ p \in Nat
    BY <2>1
  <2>5. Drop(map, u) \in Seq(Question) /\ Len(Drop(map, u)) = Len(map) - 1
    <3>1. Len(Drop(map, u)) = (p - 1) + (Len(map) - p)
      BY <2>a, <2>b, Zenon
    <3> QED BY ONLY <3>1, <2>a, <2>b, <2>c
  <2>6. ASSUME NEW i \in 1 .. (Len(map) - 1) PROVE \E j \in 1 .. Len(map) : Drop(map, u)[i] = map[j]
    <3>1. CASE i <= p - 1
      <4>0. i \in 1 .. (p - 1) /\ i \in 1 .. (Len(before) + Len(after)) /\ i <= Len(before)
        BY <3>1, <2>1, <2>b, <2>c
      <4>1. Drop(map, u)[i] = before[i] /\ i \in 1 .. (p - 1)
        BY ONLY <4>0, <2>a, <2>b
      <4> QED BY <4>1, <2>1, <2>3 DEF before
    <3>2. CASE i > p - 1
      <4>1. i - (p - 1) \in 1 .. (Len(map) - p) /\ p + (i - (p - 1)) \in 1 .. Len(map)
        BY <3>2, <2>1
      <4>2. Drop(map, u)[i] = after[i - (p - 1)]
        BY <3>2, <4>1, <2>1, <2>a, <2>b
      <4> QED BY <4>1, <4>2, <2>4 DEF after
    <3> QED BY <3>1, <3>2, <2>1
  <2> QED BY <2>5, <2>6 DEF Holds
<1> QED BY <1>1, <1>2

LEMMA PutKeeps ==
  ASSUME NEW map \in Seq(Question), NEW u \in Uuid, NEW q \in Qid
  PROVE  /\ Put(map, u, q) \in Seq(Question)
         /\ \A e : Holds(Put(map, u, q), e) => Holds(map, e) \/ e = [uuid |-> u, qid |-> q]
<1> DEFINE new == [uuid |-> u, qid |-> q]
<1>0. new \in Question
  BY DEF Question
<1> HIDE DEF new
<1>1. CASE Place(map, u) = 0
  <2>1. Put(map, u, q) = Append(map, new)
    BY <1>1 DEF Put, new
  <2> QED BY <1>0, <2>1 DEF Holds, new
<1>2. CASE Place(map, u) # 0
  <2>1. Put(map, u, q) = [map EXCEPT ![Place(map, u)] = new]
    BY <1>2 DEF Put, new
  <2>2. Place(map, u) \in 1 .. Len(map)
    BY <1>2, PlaceRight
  <2> QED BY <1>0, <2>1, <2>2 DEF Holds, new
<1> QED BY <1>1, <1>2

LEMMA TailHolds ==
  ASSUME NEW S, NEW s \in Seq(S), s # <<>>
  PROVE  \A e : Holds(Tail(s), e) => Holds(s, e)
<1>1. \A i \in DOMAIN Tail(s) : i + 1 \in DOMAIN s /\ Tail(s)[i] = s[i + 1]
  OBVIOUS
<1> QED BY <1>1 DEF Holds

\* An answer of GET /sessions lists what waits, and nothing else.
LEMMA SeedRight ==
  ASSUME AsksTypeOK
  PROVE  /\ Seed \in Seq(Question)
         /\ \A e : Holds(Seed, e) => e \in Question /\ wrapAsks[e.uuid] = e.qid
<1> DEFINE S == {u \in Uuid : wrapAsks[u] # None}
           with == SetToSeq(S)
<1>1. IsFiniteSet(S)
  BY AsksBounds, FS_Subset
<1> HIDE DEF S
<1>2. Cardinality(S) \in Nat /\ ExistsBijection(1 .. Cardinality(S), S)
  BY <1>1, FS_CardinalityType
<1>3. PICK f \in [1 .. Cardinality(S) -> S] : IsInjective(f)
  <2>1. PICK f \in Bijection(1 .. Cardinality(S), S) : TRUE
    BY <1>2 DEF ExistsBijection
  <2> QED BY <2>1 DEF Bijection, Injection, IsInjective
<1>4. with \in [1 .. Cardinality(S) -> S]
  BY <1>3 DEF SetToSeq
<1> HIDE DEF with
<1>5. /\ DOMAIN with = 1 .. Cardinality(S)
      /\ \A i \in DOMAIN with : with[i] \in Uuid /\ wrapAsks[with[i]] \in Qid
  BY <1>4 DEF S, AsksTypeOK
<1>6. Seed = [i \in DOMAIN with |-> [uuid |-> with[i], qid |-> wrapAsks[with[i]]]]
  BY DEF Seed, with, S
<1>7. Seed \in [1 .. Cardinality(S) -> Question]
  BY <1>5, <1>6 DEF Question
<1>8. Seed \in Seq(Question)
  BY <1>2, <1>7
<1>9. ASSUME NEW i \in DOMAIN Seed PROVE Seed[i] \in Question /\ wrapAsks[Seed[i].uuid] = Seed[i].qid
  BY <1>5, <1>6 DEF Question
<1> QED BY <1>8, <1>9 DEF Holds

LEMMA PostAdded ==
  ASSUME NEW event \in Post, posts \in Seq(Post), Posted(event)
  PROVE  /\ posts' \in Seq(Post)
         /\ \A e : Holds(posts', e) => Holds(posts, e) \/ e = event
<1>1. CASE posts' = posts
  BY <1>1
<1>2. CASE posts' = Append(posts, event)
  BY <1>2 DEF Holds
<1> QED BY <1>1, <1>2 DEF Posted

LEMMA HeadPost ==
  ASSUME posts \in Seq(Post), posts # <<>>
  PROVE  /\ Head(posts) \in Post /\ Holds(posts, Head(posts))
         /\ Tail(posts) \in Seq(Post)
         /\ \A e : Holds(Tail(posts), e) => Holds(posts, e)
<1>1. Head(posts) \in Post /\ Head(posts) = posts[1] /\ 1 \in DOMAIN posts /\ Tail(posts) \in Seq(Post)
  OBVIOUS
<1> QED BY <1>1, TailHolds DEF Holds

LEMMA AsksShapeStep == AsksShape /\ [AsksNext]_asksVars => AsksShape'
<1> SUFFICES ASSUME AsksShape, [AsksNext]_asksVars PROVE AsksShape'
  OBVIOUS
<1> USE DEF asking, wired, fetches, flags, users, asksVars
<1>0. asks \in Seq(Question)
  BY DEF AsksShape, AsksTypeOK, Question
<1>a. ASSUME NEW u, NEW but, Undecided(u, but)
      PROVE  away' \subseteq away /\ away' \subseteq awayEver'
  BY <1>a DEF Undecided, AsksShape, AsksTypeOK
<1>1. ASSUME NEW u \in Uuid, NEW q \in Qid, Asks(u, q) PROVE AsksShape'
  <2>1. [type |-> "ask_question", uuid |-> u, qid |-> q] \in Post
    BY DEF Post
  <2>2. posts' \in Seq(Post)
    BY <1>1, <2>1, PostAdded DEF Asks, AsksShape
  <2> QED BY <1>1, <2>2 DEF Asks, AsksShape, AsksTypeOK
<1>2. ASSUME NEW u \in Uuid, Done(u) PROVE AsksShape'
  <2>1. [type |-> "ask_question_done", uuid |-> u] \in Post
    BY DEF Post
  <2>2. posts' \in Seq(Post)
    BY <1>2, <2>1, PostAdded DEF Done, AsksShape
  <2> QED BY <1>2, <2>2 DEF Done, AsksShape, AsksTypeOK
<1>3. ASSUME NEW u \in Uuid, WrapGone(u) PROVE AsksShape'
  BY <1>3 DEF WrapGone, AsksShape, AsksTypeOK
<1>4. ASSUME NEW u \in Uuid, reopenAskForSession(u) PROVE AsksShape'
  <2>1. away' \subseteq away /\ away' \subseteq awayEver'
    BY <1>4, <1>a DEF reopenAskForSession
  <2> QED BY <1>4, <2>1 DEF reopenAskForSession, AsksShape, AsksTypeOK
<1>5. CASE AskLinkOpens
  BY <1>5 DEF AskLinkOpens, AsksShape, AsksTypeOK
<1>6. CASE AskLinkCloses
  BY <1>6 DEF AskLinkCloses, AsksShape, AsksTypeOK
<1>7. CASE AskReload
  BY <1>7 DEF AskReload, AsksShape, AsksTypeOK
<1>8. ASSUME NEW f \in {"init", "again"}, SessionsAnswered(f) PROVE AsksShape'
  <2>1. [type |-> f, seed |-> Seed] \in [type : {"init", "again"}, seed : Seq(Question)]
    BY SeedRight DEF AsksShape
  <2> QED BY <1>8, <2>1 DEF SessionsAnswered, AsksShape, AsksTypeOK
<1>9. ASSUME NEW a \in answered, SessionsApplied(a) PROVE AsksShape'
  <2>1. a.seed \in Seq(Question)
    BY DEF AsksShape
  <2>2. asks' \in Seq(Question)
    BY <1>0, <1>9, <2>1 DEF SessionsApplied
  <2> QED BY <1>9, <2>2 DEF SessionsApplied, AsksShape, AsksTypeOK, Question
<1>10. CASE QuestionArrives
  <2>1. /\ Head(posts) \in Post /\ Tail(posts) \in Seq(Post)
        /\ Head(posts).type = "ask_question"
    BY <1>10, HeadPost DEF QuestionArrives, AsksShape
  <2>2. Head(posts).uuid \in Uuid /\ Head(posts).qid \in Qid
    BY <2>1 DEF Post
  <2>3. asks' \in Seq(Question)
    BY <1>0, <1>10, <2>2, PutKeeps DEF QuestionArrives
  <2>4. away' \subseteq away /\ away' \subseteq awayEver'
    BY <1>10, <1>a DEF QuestionArrives
  <2>5. dismissedAsks' \subseteq Uuid
    BY <1>10, <2>2 DEF QuestionArrives, AfterQuestion, AsksShape, AsksTypeOK
  <2> QED BY <1>10, <2>1, <2>3, <2>4, <2>5 DEF QuestionArrives, AsksShape, AsksTypeOK, Question
<1>11. CASE DoneArrives
  <2>1. Tail(posts) \in Seq(Post)
    BY <1>11, HeadPost DEF DoneArrives, AsksShape
  <2>2. asks' \in Seq(Question)
    BY <1>0, <1>11, DropKeeps DEF DoneArrives, Forget
  <2>3. away' \subseteq away /\ away' \subseteq awayEver'
    BY <1>11, <1>a DEF DoneArrives
  <2> QED BY <1>11, <2>1, <2>2, <2>3 DEF DoneArrives, Forget, AsksShape, AsksTypeOK, Question
<1>12. CASE dismissAskForSession
  <2>1. Shown \in Question
    BY <1>0, <1>12, ShownRight DEF dismissAskForSession
  <2>2. Shown.uuid \in Uuid /\ Shown.qid \in Qid
    BY <2>1 DEF Question
  <2> QED BY <1>12, <2>1, <2>2 DEF dismissAskForSession, AsksShape, AsksTypeOK
<1>13. CASE Submit
  <2>1. Shown \in Question
    BY <1>0, <1>13, ShownRight DEF Submit
  <2> QED BY <1>13, <2>1 DEF Submit, AsksShape, AsksTypeOK
<1>14. CASE onSubmitted
  <2>1. asks' \in Seq(Question)
    BY <1>0, <1>14, DropKeeps DEF onSubmitted
  <2>2. away' \subseteq away /\ away' \subseteq awayEver'
    BY <1>14, <1>a DEF onSubmitted
  <2> QED BY <1>14, <2>1, <2>2 DEF onSubmitted, AsksShape, AsksTypeOK, Question
<1>15. CASE SubmitFails
  BY <1>15 DEF SubmitFails, AsksShape, AsksTypeOK
<1>16. CASE UNCHANGED asksVars
  BY <1>16 DEF AsksShape, AsksTypeOK
<1> QED BY <1>1, <1>2, <1>3, <1>4, <1>5, <1>6, <1>7, <1>8, <1>9, <1>10, <1>11, <1>12, <1>13,
           <1>14, <1>15, <1>16 DEF AsksNext

LEMMA NothingNewMentioned ==
  ASSUME OneOwner, asked' = asked, \A e \in Question : Mentioned(e)' => Mentioned(e)
  PROVE  OneOwner'
BY DEF OneOwner

LEMMA OneOwnerStep == AsksShape /\ OneOwner /\ [AsksNext]_asksVars => OneOwner'
<1> SUFFICES ASSUME AsksShape, OneOwner, [AsksNext]_asksVars PROVE OneOwner'
  OBVIOUS
<1> USE DEF asking, wired, fetches, flags, users, asksVars
<1>0. asks \in Seq(Question)
  BY DEF AsksShape, AsksTypeOK, Question
<1>a. ASSUME NEW u, NEW but, Undecided(u, but) PROVE away' \subseteq away
  BY <1>a DEF Undecided
<1>1. ASSUME NEW u \in Uuid, NEW q \in Qid, Asks(u, q) PROVE OneOwner'
  <2> DEFINE new == [uuid |-> u, qid |-> q]
             event == [type |-> "ask_question", uuid |-> u, qid |-> q]
  <2>1. event \in Post
    BY DEF Post
  <2>2. \A e : Holds(posts', e) => Holds(posts, e) \/ e = event
    BY <1>1, <2>1, PostAdded DEF Asks, AsksShape
  <2>3. ASSUME NEW e \in Question, Mentioned(e)' PROVE Mentioned(e) \/ e = new
    <3>1. CASE Holds(posts, [type |-> "ask_question", uuid |-> e.uuid, qid |-> e.qid])'
      <4>1. \/ Mentioned(e)
            \/ [type |-> "ask_question", uuid |-> e.uuid, qid |-> e.qid] = event
        BY <2>2, <3>1 DEF Mentioned
      <4> QED BY <4>1 DEF Question
    <3>2. CASE wrapAsks'[e.uuid] = e.qid
      BY <1>1, <3>2 DEF Asks, AsksShape, AsksTypeOK, Mentioned, Question
    <3>3. CASE Holds(asks, e)' \/ e \in away' \/ (e = submitting' /\ e # None)
               \/ \E a \in answered' : Holds(a.seed, e)
      BY <1>1, <3>3 DEF Asks, Mentioned
    <3> QED BY <2>3, <3>1, <3>2, <3>3 DEF Mentioned
  <2>4. new \in Question /\ new.qid = q
    BY DEF Question
  <2>5. q \notin asked /\ asked' = asked \cup {q}
    BY <1>1 DEF Asks
  <2> HIDE DEF new
  <2> QED BY <2>3, <2>4, <2>5 DEF OneOwner
<1>2. ASSUME NEW u \in Uuid, Done(u) PROVE OneOwner'
  <2>1. [type |-> "ask_question_done", uuid |-> u] \in Post
    BY DEF Post
  <2>2. \A e : Holds(posts', e) => Holds(posts, e) \/ e = [type |-> "ask_question_done", uuid |-> u]
    BY <1>2, <2>1, PostAdded DEF Done, AsksShape
  <2>3. ASSUME NEW e \in Question, Mentioned(e)' PROVE Mentioned(e)
    <3>1. CASE Holds(posts, [type |-> "ask_question", uuid |-> e.uuid, qid |-> e.qid])'
      BY <2>2, <3>1 DEF Mentioned
    <3>2. CASE wrapAsks'[e.uuid] = e.qid
      BY <1>2, <3>2, AsksBounds DEF Done, AsksShape, AsksTypeOK, Mentioned, Question
    <3>3. CASE Holds(asks, e)' \/ e \in away' \/ (e = submitting' /\ e # None)
               \/ \E a \in answered' : Holds(a.seed, e)
      BY <1>2, <3>3 DEF Done, Mentioned
    <3> QED BY <2>3, <3>1, <3>2, <3>3 DEF Mentioned
  <2> QED BY <1>2, <2>3, NothingNewMentioned DEF Done
<1>3. ASSUME NEW u \in Uuid, WrapGone(u) PROVE OneOwner'
  <2>1. ASSUME NEW e \in Question, wrapAsks'[e.uuid] = e.qid PROVE wrapAsks[e.uuid] = e.qid
    BY <1>3, <2>1, AsksBounds DEF WrapGone, AsksShape, AsksTypeOK, Question
  <2>2. \A e \in Question : Mentioned(e)' => Mentioned(e)
    BY <1>3, <2>1 DEF WrapGone, Mentioned
  <2> QED BY <1>3, <2>2, NothingNewMentioned DEF WrapGone
<1>4. ASSUME NEW u \in Uuid, reopenAskForSession(u) PROVE OneOwner'
  <2>1. away' \subseteq away
    BY <1>4, <1>a DEF reopenAskForSession
  <2>2. \A e \in Question : Mentioned(e)' => Mentioned(e)
    BY <1>4, <2>1 DEF reopenAskForSession, Mentioned
  <2> QED BY <1>4, <2>2, NothingNewMentioned DEF reopenAskForSession
<1>5. CASE AskLinkOpens
  <2>2. \A e \in Question : Mentioned(e)' => Mentioned(e)
    BY <1>5 DEF AskLinkOpens, Mentioned
  <2> QED BY <1>5, <2>2, NothingNewMentioned DEF AskLinkOpens
<1>6. CASE AskLinkCloses
  <2>1. \A e : ~Holds(posts, e)'
    BY <1>6 DEF AskLinkCloses, Holds
  <2>2. \A e \in Question : Mentioned(e)' => Mentioned(e)
    BY <1>6, <2>1 DEF AskLinkCloses, Mentioned
  <2> QED BY <1>6, <2>2, NothingNewMentioned DEF AskLinkCloses
<1>7. CASE AskReload
  <2>1. \A e : ~Holds(posts, e)' /\ ~Holds(asks, e)'
    BY <1>7 DEF AskReload, Holds
  <2>2. \A e \in Question : Mentioned(e)' => Mentioned(e)
    BY <1>7, <2>1 DEF AskReload, Mentioned
  <2> QED BY <1>7, <2>2, NothingNewMentioned DEF AskReload
<1>8. ASSUME NEW f \in {"init", "again"}, SessionsAnswered(f) PROVE OneOwner'
  <2>1. ASSUME NEW e \in Question, NEW a \in answered', Holds(a.seed, e)
        PROVE  wrapAsks[e.uuid] = e.qid \/ \E b \in answered : Holds(b.seed, e)
    <3>1. a \in answered \/ a = [type |-> f, seed |-> Seed]
      BY <1>8 DEF SessionsAnswered
    <3>2. CASE a = [type |-> f, seed |-> Seed]
      <4>1. a.seed = Seed
        BY <3>2
      <4>2. Holds(Seed, e)
        BY <2>1, <4>1
      <4> QED BY <4>2, SeedRight DEF AsksShape
    <3> QED BY <2>1, <3>1, <3>2
  <2>2. \A e \in Question : Mentioned(e)' => Mentioned(e)
    BY <1>8, <2>1 DEF SessionsAnswered, Mentioned
  <2> QED BY <1>8, <2>2, NothingNewMentioned DEF SessionsAnswered
<1>9. ASSUME NEW a \in answered, SessionsApplied(a) PROVE OneOwner'
  <2>1. /\ asks' = asks \/ asks' = a.seed
        /\ answered' \subseteq answered
    BY <1>9 DEF SessionsApplied
  <2>2. \A e \in Question : Mentioned(e)' => Mentioned(e)
    BY <1>9, <2>1 DEF SessionsApplied, Mentioned
  <2> QED BY <1>9, <2>2, NothingNewMentioned DEF SessionsApplied
<1>10. CASE QuestionArrives
  <2> DEFINE head == Head(posts)
  <2>1. /\ head \in Post /\ Holds(posts, head) /\ head.type = "ask_question"
        /\ \A e : Holds(posts', e) => Holds(posts, e)
    BY <1>10, HeadPost DEF QuestionArrives, AsksShape
  <2>2. /\ head.uuid \in Uuid /\ head.qid \in Qid
        /\ head = [type |-> "ask_question", uuid |-> head.uuid, qid |-> head.qid]
    BY <2>1 DEF Post
  <2>3. \A e : Holds(asks', e) => Holds(asks, e) \/ e = [uuid |-> head.uuid, qid |-> head.qid]
    BY <1>0, <1>10, <2>2, PutKeeps DEF QuestionArrives
  <2>4. away' \subseteq away
    BY <1>10, <1>a DEF QuestionArrives
  <2> HIDE DEF head
  <2>5. ASSUME NEW e \in Question, e = [uuid |-> head.uuid, qid |-> head.qid] PROVE Mentioned(e)
    <3>1. [type |-> "ask_question", uuid |-> e.uuid, qid |-> e.qid] = head
      BY <2>2, <2>5
    <3> QED BY <2>1, <3>1 DEF Mentioned
  <2>6. \A e \in Question : Mentioned(e)' => Mentioned(e)
    BY <1>10, <2>1, <2>3, <2>4, <2>5 DEF QuestionArrives, Mentioned
  <2> QED BY <1>10, <2>6, NothingNewMentioned DEF QuestionArrives
<1>11. CASE DoneArrives
  <2>1. \A e : Holds(posts', e) => Holds(posts, e)
    BY <1>11, HeadPost DEF DoneArrives, AsksShape
  <2>2. \A e : Holds(asks', e) => Holds(asks, e)
    BY <1>0, <1>11, DropKeeps DEF DoneArrives, Forget
  <2>3. away' \subseteq away
    BY <1>11, <1>a DEF DoneArrives
  <2>4. \A e \in Question : Mentioned(e)' => Mentioned(e)
    BY <1>11, <2>1, <2>2, <2>3 DEF DoneArrives, Mentioned
  <2> QED BY <1>11, <2>4, NothingNewMentioned DEF DoneArrives
<1>12. CASE dismissAskForSession
  <2>1. Holds(asks, Shown)
    BY <1>0, <1>12, ShownRight DEF dismissAskForSession
  <2>2. \A e \in Question : Mentioned(e)' => Mentioned(e)
    BY <1>12, <2>1 DEF dismissAskForSession, Mentioned
  <2> QED BY <1>12, <2>2, NothingNewMentioned DEF dismissAskForSession
<1>13. CASE Submit
  <2>1. Holds(asks, Shown)
    BY <1>0, <1>13, ShownRight DEF Submit
  <2>2. \A e \in Question : Mentioned(e)' => Mentioned(e)
    BY <1>13, <2>1 DEF Submit, Mentioned
  <2> QED BY <1>13, <2>2, NothingNewMentioned DEF Submit
<1>14. CASE onSubmitted
  <2>1. \A e : Holds(asks', e) => Holds(asks, e)
    BY <1>0, <1>14, DropKeeps DEF onSubmitted
  <2>2. away' \subseteq away
    BY <1>14, <1>a DEF onSubmitted
  <2>3. \A e \in Question : Mentioned(e)' => Mentioned(e)
    BY <1>14, <2>1, <2>2 DEF onSubmitted, Mentioned
  <2> QED BY <1>14, <2>3, NothingNewMentioned DEF onSubmitted
<1>15. CASE SubmitFails
  <2>1. \A e \in Question : Mentioned(e)' => Mentioned(e)
    BY <1>15 DEF SubmitFails, Mentioned
  <2> QED BY <1>15, <2>1, NothingNewMentioned DEF SubmitFails
<1>16. CASE UNCHANGED asksVars
  BY <1>16 DEF OneOwner, Mentioned
<1> QED BY <1>1, <1>2, <1>3, <1>4, <1>5, <1>6, <1>7, <1>8, <1>9, <1>10, <1>11, <1>12, <1>13,
           <1>14, <1>15, <1>16 DEF AsksNext

LEMMA AwayKeptStep == AsksInv /\ [AsksNext]_asksVars => AwayKept'
<1> SUFFICES ASSUME AsksInv, [AsksNext]_asksVars, NEW e \in away'
             PROVE  e.uuid \in dismissedAsks' /\ e.qid \in dismissedAskQids'
  BY DEF AwayKept
<1> USE DEF asking, wired, fetches, flags, users, asksVars
<1>0. asks \in Seq(Question)
  BY DEF AsksInv, AsksShape, AsksTypeOK, Question
<1>k. ASSUME e \in away PROVE e \in Question /\ e.uuid \in dismissedAsks /\ e.qid \in dismissedAskQids
  BY <1>k DEF AsksInv, AsksShape, AwayKept
<1>a. ASSUME NEW u, NEW but, Undecided(u, but)
      PROVE  e \in away /\ (e.uuid = u => e.qid \in but)
  BY <1>a DEF Undecided
\* The id of another session's question is another id.
<1>b. ASSUME NEW f \in Question, Mentioned(f), e \in away, e.uuid # f.uuid PROVE e.qid # f.qid
  <2>1. Mentioned(e)
    BY <1>b DEF Mentioned
  <2> QED BY <1>b, <1>k, <2>1 DEF AsksInv, OneOwner
<1>c. ASSUME NEW u, e \in away, e.uuid # u PROVE e.qid # QidOf(asks, u)
  <2>1. CASE QidOf(asks, u) = None
    BY <1>c, <1>k, <2>1, AsksBounds DEF Question
  <2>2. CASE QidOf(asks, u) # None
    <3> DEFINE f == [uuid |-> u, qid |-> QidOf(asks, u)]
    <3>1. QidOf(asks, u) \in Qid /\ Holds(asks, f)
      BY <1>0, <2>2, QidRight
    <3>2. f \in Question
      BY <1>0, <3>1 DEF Holds
    <3> QED BY <1>b, <1>c, <3>1, <3>2 DEF Mentioned
  <2> QED BY <2>1, <2>2
<1>1. CASE UNCHANGED <<away, flags>>
  BY <1>1, <1>k
<1>2. ASSUME NEW u \in Uuid, reopenAskForSession(u)
      PROVE  e.uuid \in dismissedAsks' /\ e.qid \in dismissedAskQids'
  <2>1. e \in away /\ e.uuid # u
    BY <1>2, <1>a DEF reopenAskForSession
  <2>2. e.qid # QidOf(asks, u)
    BY <1>c, <2>1
  <2> QED BY <1>2, <1>k, <2>1, <2>2 DEF reopenAskForSession
<1>3. CASE AskReload
  BY <1>3 DEF AskReload
<1>4. CASE QuestionArrives
  <2>1. e \in away /\ (e.uuid = Head(posts).uuid => e.qid = Head(posts).qid)
    BY <1>4, <1>a DEF QuestionArrives
  <2>2. dismissedAsks' = AfterQuestion(Head(posts).uuid, Head(posts).qid)
        /\ dismissedAskQids' = dismissedAskQids
    BY <1>4 DEF QuestionArrives
  <2> QED BY <1>k, <2>1, <2>2 DEF AfterQuestion
<1>5. CASE DoneArrives
  <2>1. e \in away /\ e.uuid # Head(posts).uuid
    BY <1>5, <1>a DEF DoneArrives
  <2>2. e.qid # QidOf(asks, Head(posts).uuid)
    BY <1>c, <2>1
  <2> QED BY <1>5, <1>k, <2>1, <2>2 DEF DoneArrives, Forget
<1>6. CASE dismissAskForSession
  BY <1>6, <1>k DEF dismissAskForSession
<1>7. CASE onSubmitted
  <2>1. e \in away /\ e.uuid # submitting.uuid
    BY <1>7, <1>a DEF onSubmitted
  <2>2. submitting \in Question /\ Mentioned(submitting)
    BY <1>7 DEF onSubmitted, AsksInv, AsksShape, Mentioned
  <2>3. e.qid # submitting.qid
    BY <1>b, <2>1, <2>2
  <2> QED BY <1>7, <1>k, <2>1, <2>3 DEF onSubmitted
<1>8. CASE \/ \E u \in Uuid : Done(u) \/ WrapGone(u) \/ \E q \in Qid : Asks(u, q)
           \/ AskLinkOpens \/ AskLinkCloses \/ Submit \/ SubmitFails
           \/ \E f \in {"init", "again"} : SessionsAnswered(f)
           \/ \E a \in answered : SessionsApplied(a)
  BY <1>8, <1>1 DEF Done, WrapGone, Asks, AskLinkOpens, AskLinkCloses, Submit, SubmitFails,
     SessionsAnswered, SessionsApplied
<1> QED BY <1>1, <1>2, <1>3, <1>4, <1>5, <1>6, <1>7, <1>8 DEF AsksNext

\* Whatever arrives late, twice or from before a lost link, a question that
\* this page's user clicked away is not the one on show.
THEOREM DismissedDoesStayAway == AsksSpec => []DismissedStaysAway
<1>1. AsksInit => AsksInv
  <2> SUFFICES ASSUME AsksInit PROVE AsksInv
    OBVIOUS
  <2>1. AsksShape
    BY DEF AsksInit, AsksShape, AsksTypeOK
  <2>2. \A e \in Question : ~Mentioned(e)
    BY AsksBounds DEF AsksInit, Mentioned, Holds, Question
  <2>3. AwayKept
    BY DEF AsksInit, AwayKept
  <2> QED BY <2>1, <2>2, <2>3 DEF AsksInv, OneOwner
<1>2. AsksInv /\ [AsksNext]_asksVars => AsksInv'
  BY AsksShapeStep, OneOwnerStep, AwayKeptStep DEF AsksInv
<1>3. AsksInv => DismissedStaysAway
  <2> SUFFICES ASSUME AsksInv, Shown # None PROVE Shown \notin away
    BY DEF DismissedStaysAway, Pending
  <2>1. Shown.uuid \notin dismissedAsks
    BY ShownRight DEF AsksInv, AsksShape, AsksTypeOK, Question
  <2> QED BY <2>1 DEF AsksInv, AwayKept
<1> QED BY <1>1, <1>2, <1>3, PTL DEF AsksSpec

----------------------------------------------------------------------------
(* A phone's calls and sockets through the tunnel.                         *)

LEMMA FramesTyped ==
  /\ \A r \in Req : /\ Message("http_proxy", r, 0) \in UpMessage
                    /\ Message("ok", r, 0) \in DownMessage /\ Message("failed", r, 0) \in DownMessage
  /\ \A w \in Wsid :
        /\ Message("ws_proxy_open", w, 0) \in UpMessage /\ Message("ws_proxy_close", w, 0) \in UpMessage
        /\ Message("ws_proxy_opened", w, 0) \in DownMessage
        /\ Message("ws_proxy_close", w, 0) \in DownMessage
        /\ \A n \in Nat : /\ Message("ws_proxy_send", w, n) \in UpMessage
                          /\ Message("ws_proxy_msg", w, n) \in DownMessage
  /\ \A m \in UpMessage \cup DownMessage : m.of \in Req \cup Wsid
<1>1. \A m \in UpMessage \cup DownMessage : m.of \in Req \cup Wsid
  BY DEF UpMessage, DownMessage
<1> QED BY <1>1 DEF UpMessage, DownMessage, Message

\* The page sends: it goes out, or its id is lost.
LEMMA SendRight ==
  ASSUME TypeOK, NEW m \in UpMessage, Send(m)
  PROVE  /\ toDaemon' \in Seq(UpMessage) /\ toPhone' = toPhone
         /\ lossy \subseteq lossy' /\ lossy' \subseteq Req \cup Wsid
         /\ toDaemon' = toDaemon \/ toDaemon' = Append(toDaemon, m)
<1>1. m.of \in Req \cup Wsid
  BY FramesTyped
<1>2. toDaemon \in Seq(UpMessage) /\ lossy \subseteq Req \cup Wsid
  BY DEF TypeOK
<1>3. Append(toDaemon, m) \in Seq(UpMessage)
  BY <1>2
<1> QED BY <1>1, <1>2, <1>3 DEF Send

\* So does the daemon.
LEMMA PeerSendRight ==
  ASSUME TypeOK, NEW m \in DownMessage, SendToPeer(m)
  PROVE  /\ toPhone' \in Seq(DownMessage) /\ dlink' \in {"away", "open", "authing", "ready"}
         /\ lossy' \subseteq Req \cup Wsid
         /\ \/ toPhone' = toPhone /\ lossy' = lossy \cup {m.of}
            \/ toPhone' = Append(toPhone, m) /\ lossy' = lossy
<1>1. m.of \in Req \cup Wsid
  BY FramesTyped
<1>2. toPhone \in Seq(DownMessage) /\ lossy \subseteq Req \cup Wsid /\ dlink \in {"away", "open", "authing", "ready"}
  BY DEF TypeOK
<1>3. Append(toPhone, m) \in Seq(DownMessage)
  BY <1>2
<1>4. CASE dlink \in {"authing", "ready"}
  BY <1>2, <1>3, <1>4 DEF SendToPeer
<1>5. CASE dlink \notin {"authing", "ready"}
  BY <1>1, <1>2, <1>5 DEF SendToPeer
<1> QED BY <1>4, <1>5

LEMMA EndCut ==
  ASSUME NEW S, NEW q \in Seq(S), NEW j \in 0 .. Len(q)
  PROVE  /\ SubSeq(q, 1, j) \in Seq(S) /\ DOMAIN SubSeq(q, 1, j) = 1 .. j
         /\ \A i \in 1 .. j : i \in DOMAIN q /\ SubSeq(q, 1, j)[i] = q[i]
<1>1. \A i \in 1 .. j : q[i] \in S /\ i \in DOMAIN q
  BY LenProperties
<1>2. /\ SubSeq(q, 1, j) \in Seq(S) /\ Len(SubSeq(q, 1, j)) = j
      /\ \A i \in 1 .. j : SubSeq(q, 1, j)[i] = q[i]
  BY <1>1, SubSeqProperties, LenProperties
<1> QED BY <1>1, <1>2, LenProperties

LEMMA StartCut ==
  ASSUME NEW S, NEW q \in Seq(S), NEW j \in 0 .. Len(q)
  PROVE  /\ SubSeq(q, j + 1, Len(q)) \in Seq(S) /\ DOMAIN SubSeq(q, j + 1, Len(q)) = 1 .. (Len(q) - j)
         /\ \A i \in 1 .. (Len(q) - j) :
               i + j \in DOMAIN q /\ SubSeq(q, j + 1, Len(q))[i] = q[i + j]
<1>0. Len(q) \in Nat /\ DOMAIN q = 1 .. Len(q) /\ j \in Nat
  BY LenProperties
<1>1. \A i \in (j + 1) .. Len(q) : q[i] \in S
  BY <1>0
<1>2. /\ SubSeq(q, j + 1, Len(q)) \in Seq(S)
      /\ Len(SubSeq(q, j + 1, Len(q))) = IF j + 1 <= Len(q) THEN Len(q) - (j + 1) + 1 ELSE 0
      /\ \A i \in 1 .. (Len(q) - (j + 1) + 1) : SubSeq(q, j + 1, Len(q))[i] = q[(j + 1) + i - 1]
  BY <1>0, <1>1, SubSeqProperties
<1>3. Len(SubSeq(q, j + 1, Len(q))) = Len(q) - j
  <2> DEFINE n == Len(q)
             l == Len(SubSeq(q, j + 1, Len(q)))
  <2>1. n \in Nat /\ j \in 0 .. n /\ l = IF j + 1 <= n THEN n - (j + 1) + 1 ELSE 0
    BY <1>0, <1>2
  <2> HIDE DEF n, l
  <2>2. l = n - j
    BY <2>1
  <2> QED BY <2>2 DEF n, l
<1>4. \A i \in 1 .. (Len(q) - j) : /\ i + j \in DOMAIN q /\ (j + 1) + i - 1 = i + j
                                   /\ i \in 1 .. (Len(q) - (j + 1) + 1)
  BY <1>0
<1> QED BY <1>2, <1>3, <1>4, LenProperties

LEMMA Lost ==
  ASSUME NEW S, NEW q \in Seq(S), \A m \in S : m.of \in Req \cup Wsid
  PROVE  Ids(q) \subseteq Req \cup Wsid /\ \A i \in DOMAIN q : q[i].of \in Ids(q)
  BY LenProperties DEF Ids

\* What either side of the relay keeps when a link goes.
LEMMA SideLost ==
  ASSUME TypeOK, LoseDaemonSide \/ LosePhoneSide
  PROVE  /\ toDaemon' \in Seq(UpMessage) /\ toPhone' \in Seq(DownMessage)
         /\ lossy \subseteq lossy' /\ lossy' \subseteq Req \cup Wsid
         /\ \E i \in 0 .. Len(toDaemon) :
               \/ toDaemon' = SubSeq(toDaemon, 1, i) \/ toDaemon' = SubSeq(toDaemon, i + 1, Len(toDaemon))
         /\ \E j \in 0 .. Len(toPhone) :
               \/ /\ toPhone' = SubSeq(toPhone, 1, j)
                  /\ \A k \in DOMAIN toPhone : k > j => toPhone[k].of \in lossy'
               \/ /\ toPhone' = SubSeq(toPhone, j + 1, Len(toPhone))
                  /\ \A k \in DOMAIN toPhone : k <= j => toPhone[k].of \in lossy'
<1>0. /\ toDaemon \in Seq(UpMessage) /\ toPhone \in Seq(DownMessage) /\ lossy \subseteq Req \cup Wsid
      /\ \A m \in UpMessage : m.of \in Req \cup Wsid
      /\ \A m \in DownMessage : m.of \in Req \cup Wsid
  BY FramesTyped DEF TypeOK
<1>1. PICK i \in 0 .. Len(toDaemon), j \in 0 .. Len(toPhone) :
         \/ /\ toDaemon' = SubSeq(toDaemon, i + 1, Len(toDaemon))
            /\ toPhone' = SubSeq(toPhone, 1, j)
            /\ lossy' = lossy \cup Ids(SubSeq(toDaemon, 1, i))
                              \cup Ids(SubSeq(toPhone, j + 1, Len(toPhone)))
         \/ /\ toDaemon' = SubSeq(toDaemon, 1, i)
            /\ toPhone' = SubSeq(toPhone, j + 1, Len(toPhone))
            /\ lossy' = lossy \cup Ids(SubSeq(toDaemon, i + 1, Len(toDaemon)))
                              \cup Ids(SubSeq(toPhone, 1, j))
  BY DEF LoseDaemonSide, LosePhoneSide
<1>2. /\ SubSeq(toDaemon, 1, i) \in Seq(UpMessage)
      /\ SubSeq(toDaemon, i + 1, Len(toDaemon)) \in Seq(UpMessage)
  BY <1>0, EndCut, StartCut
<1>3. /\ SubSeq(toPhone, 1, j) \in Seq(DownMessage) /\ DOMAIN SubSeq(toPhone, 1, j) = 1 .. j
      /\ \A k \in 1 .. j : SubSeq(toPhone, 1, j)[k] = toPhone[k]
  BY <1>0, EndCut
<1>4. /\ SubSeq(toPhone, j + 1, Len(toPhone)) \in Seq(DownMessage)
      /\ DOMAIN SubSeq(toPhone, j + 1, Len(toPhone)) = 1 .. (Len(toPhone) - j)
      /\ \A k \in 1 .. (Len(toPhone) - j) : SubSeq(toPhone, j + 1, Len(toPhone))[k] = toPhone[k + j]
  BY <1>0, StartCut
<1>5. /\ Ids(SubSeq(toDaemon, 1, i)) \subseteq Req \cup Wsid
      /\ Ids(SubSeq(toDaemon, i + 1, Len(toDaemon))) \subseteq Req \cup Wsid
  BY <1>0, <1>2, Lost
<1>6. /\ Ids(SubSeq(toPhone, 1, j)) \subseteq Req \cup Wsid
      /\ \A k \in 1 .. j : toPhone[k].of \in Ids(SubSeq(toPhone, 1, j))
  BY <1>0, <1>3, Lost
<1>7. /\ Ids(SubSeq(toPhone, j + 1, Len(toPhone))) \subseteq Req \cup Wsid
      /\ \A k \in 1 .. (Len(toPhone) - j) :
            toPhone[k + j].of \in Ids(SubSeq(toPhone, j + 1, Len(toPhone)))
  BY <1>0, <1>4, Lost
<1>8. DOMAIN toPhone = 1 .. Len(toPhone) /\ Len(toPhone) \in Nat /\ j \in Nat /\ j <= Len(toPhone)
  BY <1>0, LenProperties
<1>9. \A k \in DOMAIN toPhone : k <= j => toPhone[k].of \in Ids(SubSeq(toPhone, 1, j))
  BY <1>6, <1>8
<1>10. ASSUME NEW k \in DOMAIN toPhone, k > j
       PROVE  toPhone[k].of \in Ids(SubSeq(toPhone, j + 1, Len(toPhone)))
  <2>1. k - j \in 1 .. (Len(toPhone) - j) /\ (k - j) + j = k
    BY <1>8, <1>10
  <2>2. toPhone[(k - j) + j].of \in Ids(SubSeq(toPhone, j + 1, Len(toPhone)))
    BY <1>7, <2>1
  <2> QED BY <2>1, <2>2
<1>11. lossy \subseteq lossy' /\ lossy' \subseteq Req \cup Wsid
  BY <1>0, <1>1, <1>5, <1>6, <1>7
<1>12. /\ toDaemon' \in Seq(UpMessage) /\ toPhone' \in Seq(DownMessage)
       /\ toDaemon' = SubSeq(toDaemon, 1, i) \/ toDaemon' = SubSeq(toDaemon, i + 1, Len(toDaemon))
  BY <1>1, <1>2, <1>3, <1>4
<1>13. \/ /\ toPhone' = SubSeq(toPhone, 1, j)
          /\ \A k \in DOMAIN toPhone : k > j => toPhone[k].of \in lossy'
       \/ /\ toPhone' = SubSeq(toPhone, j + 1, Len(toPhone))
          /\ \A k \in DOMAIN toPhone : k <= j => toPhone[k].of \in lossy'
  BY <1>1, <1>9, <1>10
<1> QED BY <1>11, <1>12, <1>13

\* Messages are of the kinds that the two ends tell apart.
LEMMA FrameKinds ==
  /\ \A m \in UpMessage :
        /\ m.kind = "http_proxy" => m.of \in Req
        /\ m.kind # "http_proxy" => m.of \in Wsid
        /\ m.kind \in {"http_proxy", "ws_proxy_open", "ws_proxy_send", "ws_proxy_close"}
        /\ m.n \in Nat
  /\ \A m \in DownMessage :
        /\ m.kind \in {"ok", "failed"} => m.of \in Req
        /\ m.kind \notin {"ok", "failed"} => m.of \in Wsid
        /\ m.kind \in {"ok", "failed", "ws_proxy_opened", "ws_proxy_msg", "ws_proxy_close"}
        /\ m.n \in Nat
  BY DEF UpMessage, DownMessage

LEMMA TunnelTypeStep == TypeOK /\ [Next]_vars => TypeOK'
<1> SUFFICES ASSUME TypeOK, [Next]_vars PROVE TypeOK'
  OBVIOUS
<1> USE DEF phone, daemon, server, net
<1>0. toDaemon \in Seq(UpMessage) /\ toPhone \in Seq(DownMessage)
  BY DEF TypeOK
<1>1. CASE Activate
  BY <1>1 DEF Activate, TypeOK
<1>2. CASE DispatchToPage
  <2> DEFINE m == Head(toPhone)
  <2>1. m \in DownMessage /\ Tail(toPhone) \in Seq(DownMessage) /\ toPhone' = Tail(toPhone)
    BY <1>0, <1>2, HeadTailProperties DEF DispatchToPage
  <2>2. UNCHANGED <<page, quit, said, daemon, server, toDaemon, lossy, dlink, cuts>>
    BY <1>2 DEF DispatchToPage
  <2>3. /\ m.kind \in {"ok", "failed"} => m.of \in Req
        /\ m.kind \in {"ws_proxy_opened", "ws_proxy_msg", "ws_proxy_close"} => m.of \in Wsid
        /\ m.n \in Nat
    <3> HIDE DEF m
    <3> QED BY <2>1, FrameKinds
  <2>4. \/ /\ m.kind \in {"ok", "failed"}
           /\ call' = [q \in Req |-> IF Settles(m.of, q) THEN m.kind ELSE call[q]]
           /\ UNCHANGED <<shim, shims, got>>
        \/ /\ m.kind = "ws_proxy_opened"
           /\ shim' = IF m.of \in shims THEN [shim EXCEPT ![m.of] = "open"] ELSE shim
           /\ UNCHANGED <<call, shims, got>>
        \/ /\ m.kind = "ws_proxy_msg"
           /\ got' = IF m.of \in shims THEN [got EXCEPT ![m.of] = Append(@, Data(m))] ELSE got
           /\ UNCHANGED <<call, shim, shims>>
        \/ /\ m.kind = "ws_proxy_close"
           /\ shim' = [shim EXCEPT ![m.of] = "closed"] \/ shim' = shim
           /\ shims' \subseteq shims
           /\ UNCHANGED <<call, got>>
    BY <1>2 DEF DispatchToPage
  <2> HIDE DEF m
  <2>5. call' \in [Req -> {"new", "pending", "ok", "failed", "timedout", "dropped"}]
    BY <2>4 DEF TypeOK
  <2>6. /\ shim' \in [Wsid -> {"new", "connecting", "open", "closed", "dropped"}]
        /\ shims' \subseteq Wsid
    BY <2>4 DEF TypeOK
  <2>7. got' \in [Wsid -> Seq(Nat)]
    <3>1. m.of \in Wsid => Append(got[m.of], m.n) \in Seq(Nat)
      BY <2>3 DEF TypeOK
    <3> QED BY <2>3, <2>4, <3>1 DEF TypeOK, Data
  <2> QED BY <2>1, <2>2, <2>5, <2>6, <2>7 DEF TypeOK
<1>3. CASE Reload
  BY <1>3 DEF Reload, TypeOK
<1>4. CASE DropDaemonLink
  <2>1. LoseDaemonSide /\ dlink' = "away" /\ cuts' = cuts + 1 /\ UNCHANGED <<phone, daemon, server>>
    BY <1>4 DEF DropDaemonLink
  <2> QED BY <2>1, SideLost DEF TypeOK
<1>5. CASE CutPhone
  <2>1. /\ LosePhoneSide /\ page' = "cut" /\ cuts' = cuts + 1
        /\ UNCHANGED <<call, shim, shims, quit, got, said, daemon, server, dlink>>
    BY <1>5 DEF CutPhone
  <2> QED BY <2>1, SideLost DEF TypeOK
<1>6. CASE Reconnect
  BY <1>6 DEF Reconnect, TypeOK
<1>7. CASE DiscardUp
  <2>1. Head(toDaemon) \in UpMessage /\ Tail(toDaemon) \in Seq(UpMessage)
    BY <1>0, <1>7, HeadTailProperties DEF DiscardUp
  <2>2. Head(toDaemon).of \in Req \cup Wsid
    BY <2>1, FramesTyped
  <2> QED BY <1>7, <2>1, <2>2 DEF DiscardUp, TypeOK
<1>8. CASE DiscardDown
  <2>1. Head(toPhone) \in DownMessage /\ Tail(toPhone) \in Seq(DownMessage)
    BY <1>0, <1>8, HeadTailProperties DEF DiscardDown
  <2>2. Head(toPhone).of \in Req \cup Wsid
    BY <2>1, FramesTyped
  <2> QED BY <1>8, <2>1, <2>2 DEF DiscardDown, TypeOK
<1>9. CASE DispatchToServer
  <2> DEFINE m == Head(toDaemon)
  <2>1. m \in UpMessage /\ Tail(toDaemon) \in Seq(UpMessage) /\ toDaemon' = Tail(toDaemon)
    BY <1>0, <1>9, HeadTailProperties DEF DispatchToServer
  <2>2. UNCHANGED <<phone, served, sent, toPhone, lossy, dlink, cuts>>
    BY <1>9 DEF DispatchToServer
  <2>3. /\ m.kind = "http_proxy" => m.of \in Req
        /\ m.kind # "http_proxy" => m.of \in Wsid
        /\ m.n \in Nat
    <3> HIDE DEF m
    <3> QED BY <2>1, FrameKinds
  <2>4. \/ /\ m.kind = "http_proxy" /\ fetching' = [fetching EXCEPT ![m.of] = "asked"]
           /\ UNCHANGED <<local, tunnels, heard>>
        \/ /\ m.kind = "ws_proxy_open" /\ local' = [local EXCEPT ![m.of] = "connecting"]
           /\ tunnels' = tunnels \cup {m.of} /\ UNCHANGED <<fetching, heard>>
        \/ /\ heard' = [heard EXCEPT ![m.of] = Append(@, m.n)] \/ heard' = heard
           /\ m.kind = "ws_proxy_send" /\ UNCHANGED <<fetching, local, tunnels>>
        \/ m.kind = "ws_proxy_close" /\ ProxyClose(m.of) /\ UNCHANGED <<fetching, heard>>
    BY <1>9 DEF DispatchToServer
  <2> HIDE DEF m
  <2>5. CASE m.kind = "ws_proxy_close" /\ ProxyClose(m.of) /\ UNCHANGED <<fetching, heard>>
    <3>1. m.of \in Wsid
      BY <2>3, <2>5
    <3>2. ClosedLocal(local[m.of]) \in {"none", "connecting", "open", "closing", "failed", "ended", "closed"}
      BY <3>1 DEF ClosedLocal, TypeOK
    <3>3. /\ local' = [local EXCEPT ![m.of] = ClosedLocal(local[m.of])] \/ local' = local
          /\ tunnels' \subseteq tunnels
      BY <2>5 DEF ProxyClose
    <3>4. local' \in [Wsid -> {"none", "connecting", "open", "closing", "failed", "ended", "closed"}]
      BY <3>1, <3>2, <3>3 DEF TypeOK
    <3> QED BY <2>1, <2>2, <2>5, <3>3, <3>4 DEF TypeOK
  <2>6. CASE \/ /\ m.kind = "http_proxy" /\ fetching' = [fetching EXCEPT ![m.of] = "asked"]
                /\ UNCHANGED <<local, tunnels, heard>>
             \/ /\ m.kind = "ws_proxy_open" /\ local' = [local EXCEPT ![m.of] = "connecting"]
                /\ tunnels' = tunnels \cup {m.of} /\ UNCHANGED <<fetching, heard>>
    BY <2>1, <2>2, <2>3, <2>6 DEF TypeOK
  <2>7. CASE /\ heard' = [heard EXCEPT ![m.of] = Append(@, m.n)] \/ heard' = heard
             /\ m.kind = "ws_proxy_send" /\ UNCHANGED <<fetching, local, tunnels>>
    <3>1. m.of \in Wsid
      BY <2>3, <2>7
    <3>2. Append(heard[m.of], m.n) \in Seq(Nat)
      BY <2>3, <3>1 DEF TypeOK
    <3>3. heard' \in [Wsid -> Seq(Nat)]
      BY <2>7, <3>1, <3>2 DEF TypeOK
    <3> QED BY <2>1, <2>2, <2>7, <3>3 DEF TypeOK
  <2> QED BY <2>4, <2>5, <2>6, <2>7
<1>10. ASSUME NEW r \in Req, Fetch(r) PROVE TypeOK'
  <2>1. Message("http_proxy", r, 0) \in UpMessage /\ Send(Message("http_proxy", r, 0))
    BY <1>10, FramesTyped DEF Fetch
  <2>2. /\ call' = [call EXCEPT ![r] = "pending"]
        /\ UNCHANGED <<page, shim, shims, quit, got, said, daemon, server, dlink, cuts>>
    BY <1>10 DEF Fetch
  <2> QED BY <2>1, <2>2, SendRight DEF TypeOK
<1>11. ASSUME NEW r \in Req, GiveUp(r) PROVE TypeOK'
  BY <1>11 DEF GiveUp, TypeOK
<1>12. ASSUME NEW r \in Req, ServerHandles(r) PROVE TypeOK'
  BY <1>12 DEF ServerHandles, TypeOK
<1>13. ASSUME NEW r \in Req, ProxyAnswer(r) PROVE TypeOK'
  <2>1. PICK how \in {"ok", "failed"} : SendToPeer(Message(how, r, 0))
    BY <1>13 DEF ProxyAnswer
  <2>2. Message(how, r, 0) \in DownMessage
    BY FramesTyped
  <2>3. /\ fetching' = [fetching EXCEPT ![r] = "over"] \/ fetching' = [fetching EXCEPT ![r] = Aborted(r)]
        /\ UNCHANGED <<phone, local, tunnels, server, toDaemon, cuts>>
    BY <1>13 DEF ProxyAnswer
  <2>4. fetching' \in [Req -> {"none", "asked", "served", "aborted", "over"}]
    BY <2>3 DEF TypeOK, Aborted
  <2> QED BY <2>1, <2>2, <2>3, <2>4, PeerSendRight DEF TypeOK
<1>14. ASSUME NEW w \in Wsid, OpenWebSocket(w) PROVE TypeOK'
  <2>1. Message("ws_proxy_open", w, 0) \in UpMessage /\ Send(Message("ws_proxy_open", w, 0))
    BY <1>14, FramesTyped DEF OpenWebSocket
  <2>2. /\ shim' = [shim EXCEPT ![w] = "connecting"] /\ shims' = shims \cup {w}
        /\ UNCHANGED <<page, call, quit, got, said, daemon, server, dlink, cuts>>
    BY <1>14 DEF OpenWebSocket
  <2> QED BY <2>1, <2>2, SendRight DEF TypeOK
<1>15. ASSUME NEW w \in Wsid, WsSend(w) PROVE TypeOK'
  <2>1. said[w] + 1 \in Nat
    BY DEF TypeOK
  <2>2. /\ Message("ws_proxy_send", w, said[w] + 1) \in UpMessage
        /\ Send(Message("ws_proxy_send", w, said[w] + 1))
    BY <1>15, <2>1, FramesTyped DEF WsSend
  <2>3. /\ said' = [said EXCEPT ![w] = @ + 1]
        /\ UNCHANGED <<page, call, shim, shims, quit, got, daemon, server, dlink, cuts>>
    BY <1>15 DEF WsSend
  <2> QED BY <2>1, <2>2, <2>3, SendRight DEF TypeOK
<1>16. ASSUME NEW w \in Wsid, WsClose(w) PROVE TypeOK'
  <2>1. Message("ws_proxy_close", w, 0) \in UpMessage /\ Send(Message("ws_proxy_close", w, 0))
    BY <1>16, FramesTyped DEF WsClose
  <2>2. /\ shim' = [shim EXCEPT ![w] = "closed"] /\ quit' = quit \cup {w}
        /\ UNCHANGED <<page, call, shims, got, said, daemon, server, dlink, cuts>>
    BY <1>16 DEF WsClose
  <2> QED BY <2>1, <2>2, SendRight DEF TypeOK
<1>17. ASSUME NEW w \in Wsid, LocalOpen(w) \/ LocalError(w) \/ LocalClose(w) PROVE TypeOK'
  <2>1. PICK kind \in {"ws_proxy_opened", "ws_proxy_close"} : SendToPeer(Message(kind, w, 0))
    BY <1>17 DEF LocalOpen, LocalError, LocalClose
  <2>2. Message(kind, w, 0) \in DownMessage
    BY FramesTyped
  <2>3. /\ \E to \in {"open", "ended", "closed"} : local' = [local EXCEPT ![w] = to]
        /\ tunnels' \subseteq tunnels
        /\ UNCHANGED <<phone, fetching, server, toDaemon, cuts>>
    BY <1>17 DEF LocalOpen, LocalError, LocalClose
  <2>4. local' \in [Wsid -> {"none", "connecting", "open", "closing", "failed", "ended", "closed"}]
    BY <2>3 DEF TypeOK
  <2> QED BY <2>1, <2>2, <2>3, <2>4, PeerSendRight DEF TypeOK
<1>18. ASSUME NEW w \in Wsid, LocalMessage(w) PROVE TypeOK'
  <2>1. sent[w] + 1 \in Nat
    BY DEF TypeOK
  <2>2. Message("ws_proxy_msg", w, sent[w] + 1) \in DownMessage
    BY <2>1, FramesTyped
  <2>3. /\ sent' = [sent EXCEPT ![w] = @ + 1] /\ SendToPeer(Message("ws_proxy_msg", w, sent[w] + 1))
        /\ UNCHANGED <<phone, fetching, local, tunnels, served, heard, toDaemon, cuts>>
    BY <1>18 DEF LocalMessage, Forwards
  <2> QED BY <2>1, <2>2, <2>3, PeerSendRight DEF TypeOK
<1>19. ASSUME NEW w \in Wsid, LocalFails(w) \/ LocalEnds(w) PROVE TypeOK'
  BY <1>19 DEF LocalFails, LocalEnds, TypeOK
<1>20. CASE UNCHANGED vars
  BY <1>20 DEF vars, TypeOK
<1> QED BY <1>1, <1>2, <1>3, <1>4, <1>5, <1>6, <1>7, <1>8, <1>9, <1>10, <1>11, <1>12, <1>13, <1>14,
           <1>15, <1>16, <1>17, <1>18, <1>19, <1>20 DEF Next

\* What is under way was before, from some place on.
LeftOf(before, after) ==
    \E k \in 0 .. Len(before) :
       \A i \in DOMAIN after : i + k \in DOMAIN before /\ after[i] = before[i + k]

LEMMA SameLeft ==
  ASSUME NEW S, NEW q \in Seq(S)
  PROVE  LeftOf(q, q)
<1>1. 0 \in 0 .. Len(q) /\ \A i \in DOMAIN q : i + 0 = i
  BY LenProperties
<1> QED BY <1>1 DEF LeftOf

LEMMA TailLeft ==
  ASSUME NEW S, NEW q \in Seq(S), q # <<>>
  PROVE  LeftOf(q, Tail(q))
<1>1. 1 \in 0 .. Len(q)
  BY LenProperties, EmptySeq
<1>2. /\ DOMAIN Tail(q) = 1 .. (Len(q) - 1)
      /\ \A i \in 1 .. (Len(q) - 1) : Tail(q)[i] = q[i + 1] /\ i + 1 \in DOMAIN q
  BY HeadTailProperties, LenProperties
<1> QED BY <1>1, <1>2 DEF LeftOf

LEMMA CutLeft ==
  ASSUME NEW S, NEW q \in Seq(S), NEW j \in 0 .. Len(q)
  PROVE  LeftOf(q, SubSeq(q, 1, j)) /\ LeftOf(q, SubSeq(q, j + 1, Len(q)))
<1>1. /\ DOMAIN SubSeq(q, 1, j) = 1 .. j
      /\ \A i \in 1 .. j : i \in DOMAIN q /\ SubSeq(q, 1, j)[i] = q[i]
  BY EndCut
<1>2. 0 \in 0 .. Len(q) /\ j \in 0 .. Len(q) /\ \A i \in 1 .. j : i + 0 = i
  BY LenProperties
<1>3. LeftOf(q, SubSeq(q, 1, j))
  BY <1>1, <1>2 DEF LeftOf
<1>4. /\ DOMAIN SubSeq(q, j + 1, Len(q)) = 1 .. (Len(q) - j)
      /\ \A i \in 1 .. (Len(q) - j) :
            i + j \in DOMAIN q /\ SubSeq(q, j + 1, Len(q))[i] = q[i + j]
  BY StartCut
<1>5. LeftOf(q, SubSeq(q, j + 1, Len(q)))
  BY <1>2, <1>4 DEF LeftOf
<1> QED BY <1>3, <1>5

\* Who puts what under way to the page.
LEMMA PhoneNews ==
  ASSUME TypeOK, [Next]_vars
  PROVE  \/ LeftOf(toPhone, toPhone')
         \/ /\ lossy' = lossy
            /\ \/ \E r \in Req : /\ ProxyAnswer(r)
                                 /\ \/ /\ fetching[r] = "served"
                                       /\ toPhone' = Append(toPhone, Message("ok", r, 0))
                                    \/ toPhone' = Append(toPhone, Message("failed", r, 0))
               \/ \E w \in Wsid, kind \in {"ws_proxy_opened", "ws_proxy_close"} :
                     /\ local[w] # "none" /\ UNCHANGED <<got, sent, shims>>
                     /\ toPhone' = Append(toPhone, Message(kind, w, 0))
               \/ \E w \in Wsid : /\ LocalMessage(w)
                                  /\ toPhone' = Append(toPhone, Message("ws_proxy_msg", w, sent[w] + 1))
<1> DEFINE NoneAdded == LeftOf(toPhone, toPhone')
           Replying == \E r \in Req : /\ ProxyAnswer(r)
                                      /\ \/ /\ fetching[r] = "served"
                                            /\ toPhone' = Append(toPhone, Message("ok", r, 0))
                                         \/ toPhone' = Append(toPhone, Message("failed", r, 0))
           Turned == \E w \in Wsid, kind \in {"ws_proxy_opened", "ws_proxy_close"} :
                        /\ local[w] # "none" /\ UNCHANGED <<got, sent, shims>>
                        /\ toPhone' = Append(toPhone, Message(kind, w, 0))
           Forwarded == \E w \in Wsid :
                           /\ LocalMessage(w)
                           /\ toPhone' = Append(toPhone, Message("ws_proxy_msg", w, sent[w] + 1))
           Goal == NoneAdded \/ (lossy' = lossy /\ (Replying \/ Turned \/ Forwarded))
<1> SUFFICES Goal
  OBVIOUS
<1> USE DEF phone, daemon, server, net
<1>0. toPhone \in Seq(DownMessage)
  BY DEF TypeOK
<1>u. ASSUME toPhone' = toPhone PROVE NoneAdded
  BY <1>0, <1>u, SameLeft
<1>1. CASE DispatchToPage \/ DiscardDown
  <2>1. toPhone # <<>> /\ toPhone' = Tail(toPhone)
    BY <1>1 DEF DispatchToPage, DiscardDown
  <2>2. NoneAdded
    BY <1>0, <2>1, TailLeft
  <2> QED BY <2>2
<1>2. CASE DropDaemonLink \/ CutPhone
  <2>1. LoseDaemonSide \/ LosePhoneSide
    BY <1>2 DEF DropDaemonLink, CutPhone
  <2>2. PICK j \in 0 .. Len(toPhone) :
           toPhone' = SubSeq(toPhone, 1, j) \/ toPhone' = SubSeq(toPhone, j + 1, Len(toPhone))
    BY <2>1, SideLost
  <2>3. NoneAdded
    BY <1>0, <2>2, CutLeft
  <2> QED BY <2>3
<1>3. ASSUME NEW r \in Req, ProxyAnswer(r) PROVE Goal
  <2>1. Message("ok", r, 0) \in DownMessage /\ Message("failed", r, 0) \in DownMessage
    BY FramesTyped
  <2>2. CASE fetching[r] = "served" /\ SendToPeer(Message("ok", r, 0))
    <3>1. toPhone' = toPhone \/ (toPhone' = Append(toPhone, Message("ok", r, 0)) /\ lossy' = lossy)
      BY <2>1, <2>2, PeerSendRight
    <3> QED BY <1>3, <1>u, <2>2, <3>1
  <2>3. CASE SendToPeer(Message("failed", r, 0))
    <3>1. toPhone' = toPhone \/ (toPhone' = Append(toPhone, Message("failed", r, 0)) /\ lossy' = lossy)
      BY <2>1, <2>3, PeerSendRight
    <3> QED BY <1>3, <1>u, <3>1
  <2> QED BY <1>3, <2>2, <2>3 DEF ProxyAnswer
<1>4. ASSUME NEW w \in Wsid, LocalOpen(w) \/ LocalError(w) \/ LocalClose(w) PROVE Goal
  <2>1. PICK kind \in {"ws_proxy_opened", "ws_proxy_close"} : SendToPeer(Message(kind, w, 0))
    BY <1>4 DEF LocalOpen, LocalError, LocalClose
  <2>2. Message(kind, w, 0) \in DownMessage
    BY FramesTyped
  <2>3. local[w] # "none" /\ UNCHANGED <<got, sent, shims>>
    BY <1>4 DEF LocalOpen, LocalError, LocalClose
  <2>4. toPhone' = toPhone \/ (toPhone' = Append(toPhone, Message(kind, w, 0)) /\ lossy' = lossy)
    BY <2>1, <2>2, PeerSendRight
  <2>5. CASE toPhone' = toPhone
    BY <1>u, <2>5
  <2>6. CASE toPhone' = Append(toPhone, Message(kind, w, 0)) /\ lossy' = lossy
    <3>1. Turned
      BY <2>3, <2>6
    <3> QED BY <2>6, <3>1
  <2> QED BY <2>4, <2>5, <2>6
<1>5. ASSUME NEW w \in Wsid, LocalMessage(w) PROVE Goal
  <2> DEFINE m == Message("ws_proxy_msg", w, sent[w] + 1)
  <2>1. m \in DownMessage
    <3>1. sent[w] + 1 \in Nat
      BY DEF TypeOK
    <3> QED BY <3>1, FramesTyped
  <2>2. SendToPeer(m)
    BY <1>5 DEF LocalMessage, Forwards
  <2>3. toPhone' = toPhone \/ (toPhone' = Append(toPhone, m) /\ lossy' = lossy)
    <3> HIDE DEF m
    <3> QED BY <2>1, <2>2, PeerSendRight
  <2> QED BY <1>5, <1>u, <2>3
<1>6. ASSUME NEW m \in UpMessage, Send(m) PROVE Goal
  BY <1>6, <1>u, SendRight
<1>7. ASSUME NEW r \in Req, Fetch(r) PROVE Goal
  BY <1>6, <1>7, FramesTyped DEF Fetch
<1>8. ASSUME NEW w \in Wsid, OpenWebSocket(w) \/ WsSend(w) \/ WsClose(w) PROVE Goal
  <2>1. said[w] + 1 \in Nat
    BY DEF TypeOK
  <2>2. PICK m \in UpMessage : Send(m)
    BY <1>8, <2>1, FramesTyped DEF OpenWebSocket, WsSend, WsClose
  <2> QED BY <1>6, <2>2
<1>9. CASE \/ Activate \/ Reload \/ Reconnect \/ DiscardUp \/ DispatchToServer
           \/ \E r \in Req : GiveUp(r) \/ ServerHandles(r)
           \/ \E w \in Wsid : LocalFails(w) \/ LocalEnds(w)
           \/ UNCHANGED vars
  <2>1. toPhone' = toPhone
    BY <1>9 DEF Activate, Reload, Reconnect, DiscardUp, DispatchToServer, GiveUp, ServerHandles,
       LocalFails, LocalEnds, vars
  <2> QED BY <1>u, <2>1
<1> HIDE DEF Goal
<1> QED BY <1>1, <1>2, <1>3, <1>4, <1>5, <1>7, <1>8, <1>9 DEF Next

\* Who puts what under way to the daemon.
LEMMA DaemonNews ==
  ASSUME TypeOK, [Next]_vars
  PROVE  \/ LeftOf(toDaemon, toDaemon')
         \/ \E r \in Req : Fetch(r) /\ toDaemon' = Append(toDaemon, Message("http_proxy", r, 0))
         \/ \E w \in Wsid, kind \in {"ws_proxy_open", "ws_proxy_send", "ws_proxy_close"}, n \in Nat :
               /\ shim'[w] # "new" /\ UNCHANGED <<call, fetching, served>>
               /\ Message(kind, w, n) \in UpMessage
               /\ toDaemon' = Append(toDaemon, Message(kind, w, n))
<1> DEFINE NoneAdded == LeftOf(toDaemon, toDaemon')
           Asked == \E r \in Req : Fetch(r) /\ toDaemon' = Append(toDaemon, Message("http_proxy", r, 0))
           PageSends == \E w \in Wsid, kind \in {"ws_proxy_open", "ws_proxy_send", "ws_proxy_close"}, n \in Nat :
                      /\ shim'[w] # "new" /\ UNCHANGED <<call, fetching, served>>
                      /\ Message(kind, w, n) \in UpMessage
                      /\ toDaemon' = Append(toDaemon, Message(kind, w, n))
           Goal == NoneAdded \/ Asked \/ PageSends
<1> SUFFICES Goal
  OBVIOUS
<1> USE DEF phone, daemon, server, net
<1>0. toDaemon \in Seq(UpMessage)
  BY DEF TypeOK
<1>u. ASSUME toDaemon' = toDaemon PROVE NoneAdded
  BY <1>0, <1>u, SameLeft
<1>1. CASE DispatchToServer \/ DiscardUp
  <2>1. toDaemon # <<>> /\ toDaemon' = Tail(toDaemon)
    BY <1>1 DEF DispatchToServer, DiscardUp
  <2>2. NoneAdded
    BY <1>0, <2>1, TailLeft
  <2> QED BY <2>2
<1>2. CASE DropDaemonLink \/ CutPhone
  <2>1. LoseDaemonSide \/ LosePhoneSide
    BY <1>2 DEF DropDaemonLink, CutPhone
  <2>2. PICK j \in 0 .. Len(toDaemon) :
           toDaemon' = SubSeq(toDaemon, 1, j) \/ toDaemon' = SubSeq(toDaemon, j + 1, Len(toDaemon))
    BY <2>1, SideLost
  <2>3. NoneAdded
    BY <1>0, <2>2, CutLeft
  <2> QED BY <2>3
<1>3. ASSUME NEW r \in Req, Fetch(r) PROVE Goal
  <2>1. toDaemon' = toDaemon \/ toDaemon' = Append(toDaemon, Message("http_proxy", r, 0))
    BY <1>3, FramesTyped, SendRight DEF Fetch
  <2> QED BY <1>3, <1>u, <2>1
<1>4. ASSUME NEW w \in Wsid, OpenWebSocket(w) \/ WsSend(w) \/ WsClose(w) PROVE Goal
  <2>1. said[w] + 1 \in Nat
    BY DEF TypeOK
  <2>2. PICK kind \in {"ws_proxy_open", "ws_proxy_send", "ws_proxy_close"}, n \in Nat :
           Send(Message(kind, w, n)) /\ Message(kind, w, n) \in UpMessage
    BY <1>4, <2>1, FramesTyped DEF OpenWebSocket, WsSend, WsClose
  <2>3. shim'[w] # "new" /\ UNCHANGED <<call, fetching, served>>
    BY <1>4 DEF OpenWebSocket, WsSend, WsClose, TypeOK
  <2>4. toDaemon' = toDaemon \/ toDaemon' = Append(toDaemon, Message(kind, w, n))
    BY <2>2, SendRight
  <2>5. CASE toDaemon' = Append(toDaemon, Message(kind, w, n))
    <3>1. PageSends
      BY <2>2, <2>3, <2>5
    <3> QED BY <3>1
  <2> QED BY <1>u, <2>4, <2>5
<1>5. CASE \/ Activate \/ Reload \/ Reconnect \/ DiscardDown \/ DispatchToPage
           \/ \E r \in Req : GiveUp(r) \/ ServerHandles(r) \/ ProxyAnswer(r)
           \/ \E w \in Wsid : \/ LocalFails(w) \/ LocalEnds(w) \/ LocalOpen(w) \/ LocalMessage(w)
                              \/ LocalError(w) \/ LocalClose(w)
           \/ UNCHANGED vars
  <2>1. toDaemon' = toDaemon
    BY <1>5 DEF Activate, Reload, Reconnect, DiscardDown, DispatchToPage, GiveUp, ServerHandles,
       ProxyAnswer, LocalFails, LocalEnds, LocalOpen, LocalMessage, LocalError, LocalClose, vars
  <2> QED BY <1>u, <2>1
<1> HIDE DEF Goal
<1> QED BY <1>1, <1>2, <1>3, <1>4, <1>5 DEF Next

LEMMA AppendedAt ==
  ASSUME NEW S, NEW q \in Seq(S), NEW m \in S
  PROVE  /\ DOMAIN q = 1 .. Len(q) /\ Len(q) \in Nat
         /\ DOMAIN Append(q, m) = 1 .. (Len(q) + 1) /\ Append(q, m)[Len(q) + 1] = m
         /\ \A i \in DOMAIN q : Append(q, m)[i] = q[i]
  BY AppendProperties, LenProperties

\* The requests of a call on their way, and the answers that it was served.
Asking(r) == {i \in DOMAIN toDaemon : toDaemon[i].kind = "http_proxy" /\ toDaemon[i].of = r}
Okays(r) == {i \in DOMAIN toPhone : toPhone[i].kind = "ok" /\ toPhone[i].of = r}

\* A call is asked for once: its one request is on its way or the daemon has
\* taken it up, and nobody says "ok" before the server has served it.
CallRight(r) ==
    /\ served[r] = IF fetching[r] \in {"served", "over"} THEN 1 ELSE 0
    /\ fetching[r] # "none" => call[r] # "new" /\ Asking(r) = {}
    /\ Asking(r) # {} => call[r] # "new"
    /\ \A i, j \in Asking(r) : i = j
    /\ Okays(r) # {} => served[r] = 1

\* No call is new again, and only its fetch makes it more than new.
LEMMA CallMoves ==
  ASSUME TypeOK, [Next]_vars, NEW r \in Req
  PROVE  /\ call[r] # "new" => call'[r] # "new"
         /\ call[r] = "new" => call'[r] = "new" \/ Fetch(r)
<1> DEFINE Goal == /\ call[r] # "new" => call'[r] # "new"
                   /\ call[r] = "new" => call'[r] = "new" \/ Fetch(r)
<1> SUFFICES Goal
  OBVIOUS
<1> USE DEF phone
<1>1. CASE DispatchToPage
  <2>1. \/ call' = call
        \/ \E how \in {"ok", "failed"}, of \in Req :
              call' = [q \in Req |-> IF Settles(of, q) THEN how ELSE call[q]]
    <3>1. toPhone \in Seq(DownMessage) /\ toPhone # <<>>
      BY <1>1 DEF DispatchToPage, TypeOK
    <3>2. Head(toPhone) \in DownMessage
      BY <3>1, HeadTailProperties
    <3>3. Head(toPhone).kind \in {"ok", "failed"} => Head(toPhone).of \in Req
      BY <3>2, FrameKinds
    <3> QED BY <1>1, <3>3 DEF DispatchToPage
  <2> QED BY <2>1 DEF Settles
<1>2. CASE Reload
  BY <1>2 DEF Reload
<1>3. ASSUME NEW q \in Req, Fetch(q) PROVE Goal
  BY <1>3 DEF Fetch, TypeOK
<1>4. ASSUME NEW q \in Req, GiveUp(q) PROVE Goal
  BY <1>4 DEF GiveUp, TimerRuns, TypeOK
<1>5. CASE \/ Activate \/ DropDaemonLink \/ CutPhone \/ Reconnect \/ DiscardUp \/ DiscardDown
           \/ DispatchToServer
           \/ \E q \in Req : ServerHandles(q) \/ ProxyAnswer(q)
           \/ \E w \in Wsid : \/ OpenWebSocket(w) \/ WsSend(w) \/ WsClose(w)
                              \/ LocalOpen(w) \/ LocalMessage(w) \/ LocalFails(w)
                              \/ LocalEnds(w) \/ LocalError(w) \/ LocalClose(w)
           \/ UNCHANGED vars
  <2>1. call' = call
    BY <1>5 DEF Activate, DropDaemonLink, CutPhone, Reconnect, DiscardUp, DiscardDown, DispatchToServer,
       ServerHandles, ProxyAnswer, OpenWebSocket, WsSend, WsClose, LocalOpen, LocalMessage, LocalFails,
       LocalEnds, LocalError, LocalClose, vars
  <2> QED BY <2>1
<1> HIDE DEF Goal
<1> QED BY <1>1, <1>2, <1>3, <1>4, <1>5 DEF Next

\* What the daemon and its server do with a call.
LEMMA CallServed ==
  ASSUME TypeOK, [Next]_vars, NEW r \in Req
  PROVE  \/ fetching'[r] = fetching[r] /\ served'[r] = served[r]
         \/ /\ fetching'[r] = "asked" /\ served'[r] = served[r] /\ call' = call
            /\ toDaemon # <<>> /\ toDaemon' = Tail(toDaemon)
            /\ Head(toDaemon).kind = "http_proxy" /\ Head(toDaemon).of = r
         \/ /\ \/ fetching[r] = "asked" /\ fetching'[r] = "served"
               \/ fetching[r] = "aborted" /\ fetching'[r] = "over"
            /\ served'[r] = served[r] + 1
         \/ /\ \/ fetching[r] = "asked" /\ fetching'[r] = "aborted"
               \/ fetching[r] = "served" /\ fetching'[r] = "over"
            /\ served'[r] = served[r]
<1> DEFINE Goal == \/ fetching'[r] = fetching[r] /\ served'[r] = served[r]
                   \/ /\ fetching'[r] = "asked" /\ served'[r] = served[r] /\ call' = call
                      /\ toDaemon # <<>> /\ toDaemon' = Tail(toDaemon)
                      /\ Head(toDaemon).kind = "http_proxy" /\ Head(toDaemon).of = r
                   \/ /\ \/ fetching[r] = "asked" /\ fetching'[r] = "served"
                         \/ fetching[r] = "aborted" /\ fetching'[r] = "over"
                      /\ served'[r] = served[r] + 1
                   \/ /\ \/ fetching[r] = "asked" /\ fetching'[r] = "aborted"
                         \/ fetching[r] = "served" /\ fetching'[r] = "over"
                      /\ served'[r] = served[r]
<1> SUFFICES Goal
  OBVIOUS
<1> USE DEF phone, daemon, server
<1>1. CASE DispatchToServer
  <2>1. toDaemon # <<>> /\ toDaemon' = Tail(toDaemon) /\ served' = served /\ call' = call
    BY <1>1 DEF DispatchToServer
  <2>2. \/ fetching' = fetching
        \/ /\ Head(toDaemon).kind = "http_proxy"
           /\ fetching' = [fetching EXCEPT ![Head(toDaemon).of] = "asked"]
    BY <1>1 DEF DispatchToServer
  <2> QED BY <2>1, <2>2 DEF TypeOK
<1>2. ASSUME NEW q \in Req, ServerHandles(q) PROVE Goal
  BY <1>2 DEF ServerHandles, TypeOK
<1>3. ASSUME NEW q \in Req, ProxyAnswer(q) PROVE Goal
  <2>1. /\ \/ fetching[q] = "served" /\ fetching' = [fetching EXCEPT ![q] = "over"]
           \/ fetching[q] = "asked" /\ fetching' = [fetching EXCEPT ![q] = "aborted"]
        /\ served' = served
    BY <1>3 DEF ProxyAnswer, Aborted
  <2> QED BY <2>1 DEF TypeOK
<1>4. CASE \/ Activate \/ DispatchToPage \/ Reload \/ DropDaemonLink \/ CutPhone \/ Reconnect
           \/ DiscardUp \/ DiscardDown
           \/ \E q \in Req : Fetch(q) \/ GiveUp(q)
           \/ \E w \in Wsid : \/ OpenWebSocket(w) \/ WsSend(w) \/ WsClose(w)
                              \/ LocalOpen(w) \/ LocalMessage(w) \/ LocalFails(w)
                              \/ LocalEnds(w) \/ LocalError(w) \/ LocalClose(w)
           \/ UNCHANGED vars
  <2>1. fetching' = fetching /\ served' = served
    BY <1>4 DEF Activate, DispatchToPage, Reload, DropDaemonLink, CutPhone, Reconnect, DiscardUp, DiscardDown,
       Fetch, GiveUp, OpenWebSocket, WsSend, WsClose, LocalOpen, LocalMessage, LocalFails,
       LocalEnds, LocalError, LocalClose, vars
  <2> QED BY <2>1
<1> HIDE DEF Goal
<1> QED BY <1>1, <1>2, <1>3, <1>4 DEF Next

LEMMA AskingStep ==
  ASSUME TypeOK, [Next]_vars, NEW r \in Req, CallRight(r)
  PROVE  /\ \A i, j \in Asking(r)' : i = j
         /\ Asking(r)' # {} => Asking(r) # {} \/ Fetch(r)
         /\ toDaemon # <<>> /\ toDaemon' = Tail(toDaemon) /\ Head(toDaemon).kind = "http_proxy"
            /\ Head(toDaemon).of = r => Asking(r)' = {} /\ Asking(r) # {}
<1>0. toDaemon \in Seq(UpMessage) /\ TypeOK' /\ DOMAIN toDaemon = 1 .. Len(toDaemon)
  BY TunnelTypeStep, LenProperties DEF TypeOK
<1>1. DOMAIN toDaemon' = 1 .. Len(toDaemon') /\ Len(toDaemon') \in Nat
  <2>1. toDaemon' \in Seq(UpMessage)
    BY <1>0 DEF TypeOK
  <2> QED BY <2>1, LenProperties
<1>2. ASSUME LeftOf(toDaemon, toDaemon')
      PROVE  /\ \A i, j \in Asking(r)' : i = j
             /\ Asking(r)' # {} => Asking(r) # {}
  <2>1. PICK k \in 0 .. Len(toDaemon) :
           \A i \in DOMAIN toDaemon' : i + k \in DOMAIN toDaemon /\ toDaemon'[i] = toDaemon[i + k]
    BY <1>2 DEF LeftOf
  <2>2. \A i \in Asking(r)' : i \in Nat /\ i + k \in Asking(r)
    BY <1>1, <2>1 DEF Asking
  <2>3. \A i, j \in Asking(r)' : i + k = j + k
    BY <2>2 DEF CallRight
  <2>4. k \in Nat
    BY <1>0, LenProperties
  <2>5. \A i, j \in Asking(r)' : i = j
    BY <2>2, <2>3, <2>4
  <2> QED BY <2>2, <2>5
<1>3. ASSUME NEW m \in UpMessage, toDaemon' = Append(toDaemon, m), m.kind # "http_proxy" \/ m.of # r
      PROVE  Asking(r)' = Asking(r)
  <2>1. /\ DOMAIN toDaemon = 1 .. Len(toDaemon) /\ Len(toDaemon) \in Nat
        /\ DOMAIN toDaemon' = 1 .. (Len(toDaemon) + 1) /\ toDaemon'[Len(toDaemon) + 1] = m
        /\ \A i \in DOMAIN toDaemon : toDaemon'[i] = toDaemon[i]
    BY <1>0, <1>3, AppendedAt
  <2>2. DOMAIN toDaemon' = DOMAIN toDaemon \cup {Len(toDaemon) + 1}
    BY <2>1
  <2>3. \A i \in DOMAIN toDaemon' : i \in DOMAIN toDaemon \/ toDaemon'[i] = m
    BY <2>1, <2>2
  <2> QED BY <1>3, <2>1, <2>2, <2>3 DEF Asking
<1>4. ASSUME Fetch(r), toDaemon' = Append(toDaemon, Message("http_proxy", r, 0))
      PROVE  \A i, j \in Asking(r)' : i = j
  <2>1. Asking(r) = {}
    BY <1>4 DEF Fetch, CallRight
  <2>2. /\ DOMAIN toDaemon = 1 .. Len(toDaemon) /\ Len(toDaemon) \in Nat
        /\ DOMAIN toDaemon' = 1 .. (Len(toDaemon) + 1)
        /\ \A i \in DOMAIN toDaemon : toDaemon'[i] = toDaemon[i]
    BY <1>0, <1>4, AppendedAt, FramesTyped
  <2>3. \A i \in DOMAIN toDaemon' : i \in DOMAIN toDaemon \/ i = Len(toDaemon) + 1
    BY <2>2
  <2>4. \A i \in Asking(r)' : i = Len(toDaemon) + 1
    BY <2>1, <2>2, <2>3 DEF Asking
  <2> QED BY <2>4
<1>5. \/ LeftOf(toDaemon, toDaemon')
      \/ Fetch(r) /\ toDaemon' = Append(toDaemon, Message("http_proxy", r, 0))
      \/ \E m \in UpMessage : toDaemon' = Append(toDaemon, m) /\ (m.kind # "http_proxy" \/ m.of # r)
  <2>1. \A kind, of, n : Message(kind, of, n).kind = kind /\ Message(kind, of, n).of = of
    BY DEF Message
  <2>2. ASSUME NEW q \in Req, Fetch(q), toDaemon' = Append(toDaemon, Message("http_proxy", q, 0)), q # r
        PROVE  \E m \in UpMessage : toDaemon' = Append(toDaemon, m) /\ (m.kind # "http_proxy" \/ m.of # r)
    <3>1. Message("http_proxy", q, 0) \in UpMessage
      BY FramesTyped
    <3> QED BY <2>1, <2>2, <3>1
  <2>3. ASSUME NEW w \in Wsid, NEW kind \in {"ws_proxy_open", "ws_proxy_send", "ws_proxy_close"}, NEW n \in Nat,
               Message(kind, w, n) \in UpMessage, toDaemon' = Append(toDaemon, Message(kind, w, n))
        PROVE  \E m \in UpMessage : toDaemon' = Append(toDaemon, m) /\ (m.kind # "http_proxy" \/ m.of # r)
    BY <2>1, <2>3
  <2> QED BY <2>2, <2>3, DaemonNews
<1>6. /\ \A i, j \in Asking(r)' : i = j
      /\ Asking(r)' # {} => Asking(r) # {} \/ Fetch(r)
  BY <1>2, <1>3, <1>4, <1>5 DEF CallRight
<1>7. ASSUME toDaemon # <<>>, toDaemon' = Tail(toDaemon), Head(toDaemon).kind = "http_proxy", Head(toDaemon).of = r
      PROVE  Asking(r)' = {} /\ Asking(r) # {}
  <2>1. /\ Len(toDaemon) \in Nat \ {0} /\ toDaemon[1] = Head(toDaemon)
        /\ DOMAIN toDaemon' = 1 .. (Len(toDaemon) - 1)
        /\ \A i \in 1 .. (Len(toDaemon) - 1) : toDaemon'[i] = toDaemon[i + 1]
    BY <1>0, <1>7, HeadTailProperties, LenProperties, EmptySeq
  <2>2. 1 \in Asking(r)
    BY <1>0, <1>7, <2>1 DEF Asking
  <2>3. \A i \in Asking(r)' : i + 1 \in Asking(r) /\ i \in Nat /\ i + 1 # 1
    BY <1>0, <2>1 DEF Asking
  <2> QED BY <2>2, <2>3 DEF CallRight
<1> QED BY <1>6, <1>7

LEMMA OkayStep ==
  ASSUME TypeOK, [Next]_vars, NEW r \in Req, Okays(r)' # {}
  PROVE  Okays(r) # {} \/ fetching[r] = "served"
<1>0. toPhone \in Seq(DownMessage)
  BY DEF TypeOK
<1>1. PICK i \in DOMAIN toPhone' : toPhone'[i].kind = "ok" /\ toPhone'[i].of = r
  BY DEF Okays
<1>2. CASE LeftOf(toPhone, toPhone')
  BY <1>1, <1>2 DEF LeftOf, Okays
<1>3. ASSUME NEW m \in DownMessage, toPhone' = Append(toPhone, m)
      PROVE  Okays(r) # {} \/ (m.kind = "ok" /\ m.of = r)
  <2>1. /\ DOMAIN toPhone = 1 .. Len(toPhone) /\ Len(toPhone) \in Nat
        /\ DOMAIN toPhone' = 1 .. (Len(toPhone) + 1) /\ toPhone'[Len(toPhone) + 1] = m
        /\ \A k \in DOMAIN toPhone : toPhone'[k] = toPhone[k]
    BY <1>0, <1>3, AppendedAt
  <2>2. i \in DOMAIN toPhone \/ i = Len(toPhone) + 1
    BY <1>1, <2>1
  <2> QED BY <1>1, <2>1, <2>2 DEF Okays
<1>4. \A kind, of, n : Message(kind, of, n).kind = kind /\ Message(kind, of, n).of = of
  BY DEF Message
<1>5. ASSUME NEW q \in Req, fetching[q] = "served", toPhone' = Append(toPhone, Message("ok", q, 0))
      PROVE  Okays(r) # {} \/ fetching[r] = "served"
  BY <1>3, <1>4, <1>5, FramesTyped
<1>6. ASSUME NEW q \in Req, toPhone' = Append(toPhone, Message("failed", q, 0))
      PROVE  Okays(r) # {}
  BY <1>3, <1>4, <1>6, FramesTyped
<1>7. ASSUME NEW w \in Wsid, NEW kind \in {"ws_proxy_opened", "ws_proxy_close"},
             toPhone' = Append(toPhone, Message(kind, w, 0))
      PROVE  Okays(r) # {}
  BY <1>3, <1>4, <1>7, FramesTyped
<1>8. ASSUME NEW w \in Wsid, toPhone' = Append(toPhone, Message("ws_proxy_msg", w, sent[w] + 1))
      PROVE  Okays(r) # {}
  <2>1. sent[w] + 1 \in Nat
    BY DEF TypeOK
  <2> QED BY <1>3, <1>4, <1>8, <2>1, FramesTyped
<1> QED BY <1>2, <1>5, <1>6, <1>7, <1>8, PhoneNews

LEMMA CallStep ==
  ASSUME TypeOK, [Next]_vars, NEW r \in Req, CallRight(r)
  PROVE  CallRight(r)'
<1>0. served[r] \in Nat /\ fetching[r] \in {"none", "asked", "served", "aborted", "over"}
  BY DEF TypeOK
<1>1. served'[r] = IF fetching'[r] \in {"served", "over"} THEN 1 ELSE 0
  BY <1>0, AskingStep, CallServed DEF CallRight
<1>2. fetching'[r] # "none" => call'[r] # "new" /\ Asking(r)' = {}
  <2>1. Fetch(r) => fetching[r] = "none" /\ fetching'[r] = "none"
    BY DEF Fetch, CallRight, daemon
  <2>2. fetching[r] # "none" => call'[r] # "new" /\ Asking(r)' = {}
    BY <2>1, AskingStep, CallMoves DEF CallRight
  <2>3. ASSUME fetching[r] = "none", fetching'[r] # "none"
        PROVE  call'[r] # "new" /\ Asking(r)' = {}
    <3>1. /\ call' = call /\ toDaemon # <<>> /\ toDaemon' = Tail(toDaemon)
          /\ Head(toDaemon).kind = "http_proxy" /\ Head(toDaemon).of = r
      BY <2>3, CallServed
    <3> QED BY <3>1, AskingStep DEF CallRight
  <2> QED BY <2>2, <2>3
<1>3. Asking(r)' # {} => call'[r] # "new"
  <2>1. Fetch(r) => call'[r] # "new"
    BY DEF Fetch, TypeOK
  <2> QED BY <2>1, AskingStep, CallMoves DEF CallRight
<1>4. Okays(r)' # {} => served'[r] = 1
  <2>1. served[r] = 1 => served'[r] = 1
    BY <1>0, AskingStep, CallServed DEF CallRight
  <2> QED BY <2>1, OkayStep DEF CallRight
<1>5. \A i, j \in Asking(r)' : i = j
  BY AskingStep
<1> QED BY <1>1, <1>2, <1>3, <1>4, <1>5 DEF CallRight

\* Each step of the tunnel is a step of RemoteCalls or leaves the calls alone.
LEMMA CallsStep ==
  ASSUME TypeOK, [Next]_vars, \A r \in Req : CallRight(r)
  PROVE  [Calls!Next]_<<call, served>>
<1> DEFINE Goal == Calls!Next \/ UNCHANGED <<call, served>>
<1> SUFFICES Goal
  OBVIOUS
<1> USE DEF phone, daemon, server
<1>0. /\ call \in [Req -> {"new", "pending", "ok", "failed", "timedout", "dropped"}]
      /\ served \in [Req -> Nat] /\ toPhone \in Seq(DownMessage)
  BY DEF TypeOK
<1>1. CASE DispatchToPage
  <2> DEFINE m == Head(toPhone)
  <2>1. toPhone # <<>> /\ m \in DownMessage /\ 1 \in DOMAIN toPhone /\ toPhone[1] = m
    BY <1>0, <1>1, HeadTailProperties, LenProperties, EmptySeq DEF DispatchToPage
  <2>2. /\ served' = served
        /\ \/ call' = call
           \/ /\ m.kind \in {"ok", "failed"}
              /\ call' = [q \in Req |-> IF Settles(m.of, q) THEN m.kind ELSE call[q]]
    BY <1>1 DEF DispatchToPage
  <2> HIDE DEF m
  <2>3. CASE /\ m.kind \in {"ok", "failed"}
             /\ call' = [q \in Req |-> IF Settles(m.of, q) THEN m.kind ELSE call[q]]
    <3>1. PICK r \in Req : r = m.of
      BY <2>1, <2>3, FrameKinds
    <3>2. CASE call[r] = "pending"
      <4>1. call' = [call EXCEPT ![r] = m.kind]
        BY <1>0, <2>3, <3>1, <3>2 DEF Settles
      <4>2. m.kind = "ok" => served[r] = 1
        BY <2>1, <3>1 DEF CallRight, Okays
      <4>3. Calls!Settle(r, m.kind)
        BY <2>2, <3>2, <4>1, <4>2 DEF Calls!Settle
      <4> QED BY <2>3, <4>3 DEF Calls!Next
    <3>3. CASE call[r] # "pending"
      <4>1. call' = call
        BY <1>0, <2>3, <3>1, <3>3 DEF Settles
      <4> QED BY <2>2, <4>1
    <3> QED BY <3>2, <3>3
  <2> QED BY <2>2, <2>3
<1>2. CASE Reload
  <2>1. Calls!Leave
    BY <1>2 DEF Reload, Calls!Leave
  <2> QED BY <2>1 DEF Calls!Next
<1>3. ASSUME NEW r \in Req, Fetch(r) PROVE Goal
  <2>1. Calls!Call(r)
    BY <1>3 DEF Fetch, Calls!Call
  <2> QED BY <2>1 DEF Calls!Next
<1>4. ASSUME NEW r \in Req, GiveUp(r) PROVE Goal
  <2>1. Calls!Settle(r, "timedout")
    BY <1>4 DEF GiveUp, TimerRuns, Calls!Settle
  <2> QED BY <2>1 DEF Calls!Next
<1>5. ASSUME NEW r \in Req, ServerHandles(r) PROVE Goal
  <2>1. /\ fetching[r] \in {"asked", "aborted"} /\ call' = call
        /\ served' = [served EXCEPT ![r] = @ + 1]
    BY <1>5 DEF ServerHandles
  <2>2. served[r] = 0 /\ call[r] # "new"
    BY <2>1 DEF CallRight
  <2>3. Calls!Serve(r)
    BY <2>1, <2>2 DEF Calls!Serve
  <2> QED BY <2>3 DEF Calls!Next
<1>6. CASE \/ Activate \/ DropDaemonLink \/ CutPhone \/ Reconnect \/ DiscardUp \/ DiscardDown
           \/ DispatchToServer
           \/ \E r \in Req : ProxyAnswer(r)
           \/ \E w \in Wsid : \/ OpenWebSocket(w) \/ WsSend(w) \/ WsClose(w)
                              \/ LocalOpen(w) \/ LocalMessage(w) \/ LocalFails(w)
                              \/ LocalEnds(w) \/ LocalError(w) \/ LocalClose(w)
           \/ UNCHANGED vars
  BY <1>6 DEF Activate, DropDaemonLink, CutPhone, Reconnect, DiscardUp, DiscardDown, DispatchToServer,
     ProxyAnswer, OpenWebSocket, WsSend, WsClose, LocalOpen, LocalMessage, LocalFails,
     LocalEnds, LocalError, LocalClose, vars
<1> HIDE DEF Goal
<1> QED BY <1>1, <1>2, <1>3, <1>4, <1>5, <1>6 DEF Next

CallsInv == TypeOK /\ \A r \in Req : CallRight(r)

LEMMA CallsInvInit == Init => CallsInv
<1> SUFFICES ASSUME Init PROVE CallsInv
  OBVIOUS
<1>1. toDaemon \in Seq(UpMessage) /\ toPhone \in Seq(DownMessage)
  BY EmptySeq DEF Init
<1>2. TypeOK
  BY <1>1, EmptySeq DEF Init, TypeOK
<1>3. \A r \in Req : Asking(r) = {} /\ Okays(r) = {}
  BY EmptySeq DEF Init, Asking, Okays
<1>4. \A r \in Req : CallRight(r)
  BY <1>3 DEF Init, CallRight
<1> QED BY <1>2, <1>4 DEF CallsInv

LEMMA CallsInvStep == CallsInv /\ [Next]_vars => CallsInv'
<1> SUFFICES ASSUME CallsInv, [Next]_vars PROVE CallsInv'
  OBVIOUS
<1>1. TypeOK'
  BY TunnelTypeStep DEF CallsInv
<1>2. ASSUME NEW r \in Req PROVE CallRight(r)'
  BY CallStep DEF CallsInv
<1> QED BY <1>1, <1>2 DEF CallsInv

\* The tunnel keeps its types: what a page, the relay and the daemon hold of
\* each call and socket is always one of the states their code knows.
THEOREM TunnelTypeCorrect == Spec => []TypeOK
<1>1. Init => TypeOK
  BY CallsInvInit DEF CallsInv
<1>2. TypeOK /\ [Next]_vars => TypeOK'
  BY TunnelTypeStep
<1> QED BY <1>1, <1>2, PTL DEF Spec

\* A page's calls through the tunnel are remote calls: whatever links are cut
\* and whatever is lost, the server handles each at most once, each settles at
\* most once, and "ok" is only said of one that was served.
THEOREM TunnelMakesCalls == Spec => CallsAreCalls
<1>1. Init => CallsInv /\ Calls!Init
  BY CallsInvInit DEF Init, Calls!Init
<1>2. CallsInv /\ [Next]_vars => CallsInv'
  BY CallsInvStep
<1>3. CallsInv /\ [Next]_vars => [Calls!Next]_<<call, served>>
  BY CallsStep DEF CallsInv
<1> QED BY <1>1, <1>2, <1>3, PTL DEF Spec, CallsAreCalls, Calls!Spec

\* The places of a socket's messages in what is under way to the page.
Words(q, w) == {i \in DOMAIN q : q[i].kind = "ws_proxy_msg" /\ q[i].of = w}

\* StreamIntact of one socket: g is what its owner has had, s how much the
\* server has sent.
FlowOf(q, w, g, s) ==
    /\ Len(g) <= s /\ g = [i \in 1 .. Len(g) |-> i]
    /\ {q[i].n : i \in Words(q, w)} = (Len(g) + 1) .. s
    /\ \A i, j \in Words(q, w) : i < j => q[i].n < q[j].n

LEMMA FlowShift ==
  ASSUME NEW w, NEW q \in Seq(DownMessage), NEW p \in Seq(DownMessage), NEW g, NEW s, NEW k \in Nat,
         FlowOf(q, w, g, s),
         \A i \in Words(p, w) : i + k \in Words(q, w) /\ p[i].n = q[i + k].n,
         \A j \in Words(q, w) : j - k \in Words(p, w)
  PROVE  FlowOf(p, w, g, s)
<1>1. DOMAIN q \subseteq Int /\ DOMAIN p \subseteq Int
  BY LenProperties
<1>2. \A j \in Words(q, w) : j \in Int /\ (j - k) + k = j
  BY <1>1 DEF Words
<1>3. {p[i].n : i \in Words(p, w)} = {q[i].n : i \in Words(q, w)}
  <2>1. \A i \in Words(p, w) : p[i].n \in {q[j].n : j \in Words(q, w)}
    OBVIOUS
  <2>2. \A j \in Words(q, w) : q[j].n = p[j - k].n
    BY <1>2
  <2>3. \A j \in Words(q, w) : q[j].n \in {p[i].n : i \in Words(p, w)}
    BY <2>2
  <2> QED BY <2>1, <2>3
<1>4. ASSUME NEW i \in Words(p, w), NEW j \in Words(p, w), i < j
      PROVE  p[i].n < p[j].n
  <2>1. i \in Int /\ j \in Int
    BY <1>1 DEF Words
  <2>2. i + k < j + k
    BY <1>4, <2>1
  <2>3. q[i + k].n < q[j + k].n
    BY <2>2 DEF FlowOf
  <2> QED BY <2>3
<1> QED BY <1>3, <1>4 DEF FlowOf

\* A message of something else goes, or comes.
LEMMA FlowTail ==
  ASSUME NEW w, NEW q \in Seq(DownMessage), NEW g, NEW s, FlowOf(q, w, g, s), q # <<>>,
         Head(q).kind # "ws_proxy_msg" \/ Head(q).of # w
  PROVE  FlowOf(Tail(q), w, g, s)
<1>1. /\ Tail(q) \in Seq(DownMessage) /\ Head(q) = q[1] /\ Len(q) \in Nat \ {0}
      /\ DOMAIN q = 1 .. Len(q) /\ DOMAIN Tail(q) = 1 .. (Len(q) - 1)
      /\ \A i \in 1 .. (Len(q) - 1) : Tail(q)[i] = q[i + 1]
  BY HeadTailProperties, LenProperties, EmptySeq
<1>2. 1 \notin Words(q, w)
  BY <1>1 DEF Words
<1>3. ASSUME NEW i \in Words(Tail(q), w)
      PROVE  i + 1 \in Words(q, w) /\ Tail(q)[i].n = q[i + 1].n
  <2>1. i \in 1 .. (Len(q) - 1) /\ i + 1 \in DOMAIN q
    BY <1>1 DEF Words
  <2> QED BY <1>1, <2>1 DEF Words
<1>4. ASSUME NEW j \in Words(q, w)
      PROVE  j - 1 \in Words(Tail(q), w)
  <2>1. j \in 1 .. Len(q) /\ j # 1
    BY <1>1, <1>2 DEF Words
  <2>2. j - 1 \in 1 .. (Len(q) - 1) /\ (j - 1) + 1 = j
    BY <1>1, <2>1
  <2>3. Tail(q)[j - 1] = q[j] /\ j - 1 \in DOMAIN Tail(q)
    BY <1>1, <2>2
  <2> QED BY <2>3 DEF Words
<1>5. 1 \in Nat
  OBVIOUS
<1> QED BY <1>1, <1>3, <1>4, <1>5, FlowShift

LEMMA FlowAppend ==
  ASSUME NEW w, NEW q \in Seq(DownMessage), NEW g, NEW s, FlowOf(q, w, g, s), NEW m \in DownMessage,
         m.kind # "ws_proxy_msg" \/ m.of # w
  PROVE  FlowOf(Append(q, m), w, g, s)
<1>1. /\ DOMAIN q = 1 .. Len(q) /\ Len(q) \in Nat
      /\ DOMAIN Append(q, m) = 1 .. (Len(q) + 1) /\ Append(q, m)[Len(q) + 1] = m
      /\ \A i \in DOMAIN q : Append(q, m)[i] = q[i]
  BY AppendedAt
<1>2. \A i \in DOMAIN Append(q, m) : i \in DOMAIN q \/ i = Len(q) + 1
  BY <1>1
<1>3. \A i \in DOMAIN q : i \in DOMAIN Append(q, m)
  BY <1>1
<1>4. Words(Append(q, m), w) = Words(q, w)
  BY <1>1, <1>2, <1>3 DEF Words
<1>5. \A i \in Words(q, w) : Append(q, m)[i] = q[i]
  BY <1>1 DEF Words
<1>6. {Append(q, m)[i].n : i \in Words(q, w)} = {q[i].n : i \in Words(q, w)}
  BY <1>5
<1> QED BY <1>4, <1>5, <1>6 DEF FlowOf

\* The server sends one more.
LEMMA FlowSpoken ==
  ASSUME NEW w, NEW q \in Seq(DownMessage), NEW g \in Seq(Nat), NEW s \in Nat, FlowOf(q, w, g, s),
         NEW m \in DownMessage, m.kind = "ws_proxy_msg", m.of = w, m.n = s + 1
  PROVE  FlowOf(Append(q, m), w, g, s + 1)
<1> DEFINE l == Len(g)
           a == Append(q, m)
           e == Len(q) + 1
<1>1. /\ DOMAIN q = 1 .. Len(q) /\ Len(q) \in Nat
      /\ DOMAIN a = 1 .. e /\ a[e] = m
      /\ \A i \in DOMAIN q : a[i] = q[i]
  BY AppendedAt
<1>2. e \in Nat /\ e \notin DOMAIN q /\ DOMAIN a = DOMAIN q \cup {e} /\ \A i \in DOMAIN q : i < e /\ i \in Nat
  <2> DEFINE n == Len(q)
  <2>1. n \in Nat /\ DOMAIN q = 1 .. n /\ DOMAIN a = 1 .. (n + 1) /\ e = n + 1
    BY <1>1
  <2> HIDE DEF n, a, e
  <2> QED BY <2>1
<1>3. /\ l \in Nat /\ l <= s /\ g = [i \in 1 .. l |-> i]
      /\ {q[i].n : i \in Words(q, w)} = (l + 1) .. s
      /\ \A i, j \in Words(q, w) : i < j => q[i].n < q[j].n
  BY LenProperties DEF FlowOf
<1>4. a[e] = m /\ \A i \in DOMAIN q : a[i] = q[i]
  BY <1>1
<1> HIDE DEF l, a, e
<1>5. Words(a, w) = Words(q, w) \cup {e} /\ \A i \in Words(q, w) : i < e /\ i \in Nat /\ a[i] = q[i]
  BY <1>2, <1>4 DEF Words
<1>6. {a[i].n : i \in Words(a, w)} = {q[i].n : i \in Words(q, w)} \cup {s + 1}
  BY <1>4, <1>5
<1>7. (l + 1) .. s \cup {s + 1} = (l + 1) .. (s + 1)
  BY <1>3
<1>8. ASSUME NEW i \in Words(a, w), NEW j \in Words(a, w), i < j
      PROVE  a[i].n < a[j].n
  <2>1. i # e
    BY <1>2, <1>5, <1>8
  <2>2. i \in Words(q, w) /\ a[i] = q[i]
    BY <1>5, <2>1
  <2>3. CASE j = e
    <3>1. q[i].n \in (l + 1) .. s
      BY <1>3, <2>2
    <3>2. a[j].n = s + 1
      BY <1>4, <2>3
    <3> QED BY <1>3, <2>2, <3>1, <3>2
  <2>4. CASE j # e
    BY <1>3, <1>5, <1>8, <2>2, <2>4
  <2> QED BY <2>3, <2>4
<1>9. l <= s + 1
  BY <1>3
<1>10. /\ Len(g) <= s + 1 /\ g = [i \in 1 .. Len(g) |-> i]
       /\ {a[i].n : i \in Words(a, w)} = (Len(g) + 1) .. (s + 1)
  BY <1>3, <1>6, <1>7, <1>9 DEF l
<1> QED BY <1>8, <1>10 DEF FlowOf, a

\* The owner is given the next: the first of its messages under way.
LEMMA FlowHeard ==
  ASSUME NEW w, NEW q \in Seq(DownMessage), NEW g \in Seq(Nat), NEW s \in Nat, FlowOf(q, w, g, s),
         q # <<>>, Head(q).kind = "ws_proxy_msg", Head(q).of = w
  PROVE  FlowOf(Tail(q), w, Append(g, Head(q).n), s)
<1> DEFINE l == Len(g)
           n == Head(q).n
           b == Append(g, n)
<1>1. /\ Tail(q) \in Seq(DownMessage) /\ Head(q) = q[1] /\ Len(q) \in Nat \ {0} /\ Head(q) \in DownMessage
      /\ DOMAIN q = 1 .. Len(q) /\ DOMAIN Tail(q) = 1 .. (Len(q) - 1)
      /\ \A i \in 1 .. (Len(q) - 1) : Tail(q)[i] = q[i + 1]
  BY HeadTailProperties, LenProperties, EmptySeq
<1>2. 1 \in Words(q, w) /\ \A i \in Words(q, w) : i \in 1 .. Len(q)
  BY <1>1 DEF Words
<1>3. /\ l \in Nat /\ l <= s /\ g = [i \in 1 .. l |-> i]
      /\ {q[i].n : i \in Words(q, w)} = (l + 1) .. s
      /\ \A i, j \in Words(q, w) : i < j => q[i].n < q[j].n
  BY LenProperties DEF FlowOf
<1>4. \A i \in Words(q, w) : q[i].n \in (l + 1) .. s
  BY <1>3
<1>5. q[1].n = n /\ n \in Nat
  BY <1>1, FrameKinds
<1>6. /\ DOMAIN g = 1 .. Len(g) /\ Len(g) \in Nat
      /\ DOMAIN b = 1 .. (Len(g) + 1) /\ b[Len(g) + 1] = n /\ \A i \in DOMAIN g : b[i] = g[i]
  BY <1>5, AppendedAt
<1>7. b \in Seq(Nat)
  BY <1>5
<1>8. DOMAIN b = 1 .. (l + 1) /\ b[l + 1] = n /\ \A i \in 1 .. l : b[i] = g[i]
  BY <1>6
<1> HIDE DEF l, n, b
<1>9. n = l + 1 /\ l + 1 <= s
  <2>1. n \in (l + 1) .. s
    BY <1>2, <1>4, <1>5
  <2>2. l + 1 \in (l + 1) .. s
    BY <1>3, <2>1
  <2>3. PICK i \in Words(q, w) : q[i].n = l + 1
    BY <1>3, <2>2
  <2>4. CASE i = 1
    BY <1>3, <1>5, <2>1, <2>3, <2>4
  <2>5. CASE i # 1
    <3>1. 1 < i
      BY <1>1, <1>2, <2>5
    <3>2. q[1].n < q[i].n
      BY <1>2, <1>3, <3>1
    <3> QED BY <1>3, <1>5, <2>1, <2>3, <3>2
  <2> QED BY <2>4, <2>5
<1>10. Len(b) = l + 1
  <2>1. DOMAIN b = 1 .. Len(b) /\ Len(b) \in Nat
    BY <1>7, LenProperties
  <2> QED BY <1>3, <1>8, <2>1
<1>11. b = [i \in 1 .. (l + 1) |-> i]
  <2>1. \A i \in 1 .. (l + 1) : b[i] = i
    <3>1. \A i \in 1 .. l : b[i] = i
      BY <1>3, <1>8
    <3>2. \A i \in 1 .. (l + 1) : i \in 1 .. l \/ i = l + 1
      BY <1>3
    <3> QED BY <1>8, <1>9, <3>1, <3>2
  <2>2. b = [i \in DOMAIN b |-> b[i]]
    BY <1>7
  <2> QED BY <1>8, <2>1, <2>2
<1> DEFINE t == Tail(q)
<1>12. ASSUME NEW i \in Words(t, w)
       PROVE  i + 1 \in Words(q, w) /\ t[i] = q[i + 1] /\ i \in Nat /\ 1 < i + 1
  <2>1. i \in 1 .. (Len(q) - 1) /\ i + 1 \in DOMAIN q
    BY <1>1 DEF Words
  <2> QED BY <1>1, <2>1 DEF Words
<1>13. ASSUME NEW j \in Words(q, w), j # 1
       PROVE  j - 1 \in Words(t, w) /\ t[j - 1] = q[j]
  <2>1. j \in 1 .. Len(q)
    BY <1>2
  <2>2. j - 1 \in 1 .. (Len(q) - 1) /\ (j - 1) + 1 = j
    BY <1>1, <1>13, <2>1
  <2>3. t[j - 1] = q[j] /\ j - 1 \in DOMAIN t
    BY <1>1, <2>2
  <2> QED BY <2>3 DEF Words
<1> HIDE DEF t
<1>14. {t[i].n : i \in Words(t, w)} = ((l + 1) + 1) .. s
  <2>1. ASSUME NEW i \in Words(t, w) PROVE t[i].n \in ((l + 1) + 1) .. s
    <3>1. q[1].n < q[i + 1].n /\ q[i + 1].n \in (l + 1) .. s
      BY <1>2, <1>3, <1>4, <1>12
    <3> QED BY <1>3, <1>5, <1>9, <1>12, <3>1
  <2>2. ASSUME NEW v \in ((l + 1) + 1) .. s PROVE v \in {t[i].n : i \in Words(t, w)}
    <3>1. v \in (l + 1) .. s /\ v # l + 1
      BY <1>3
    <3>2. PICK j \in Words(q, w) : q[j].n = v
      BY <1>3, <3>1
    <3>3. j # 1
      BY <1>5, <1>9, <3>1, <3>2
    <3> QED BY <1>13, <3>2, <3>3
  <2> QED BY <2>1, <2>2
<1>15. ASSUME NEW i \in Words(t, w), NEW j \in Words(t, w), i < j
       PROVE  t[i].n < t[j].n
  <2>1. i + 1 < j + 1
    BY <1>12, <1>15
  <2>2. q[i + 1].n < q[j + 1].n
    BY <1>3, <1>12, <2>1
  <2> QED BY <1>12, <2>2
<1>16. FlowOf(t, w, b, s)
  BY <1>9, <1>10, <1>11, <1>14, <1>15 DEF FlowOf
<1> QED BY <1>16 DEF t, b, n

\* A link takes what is on its side, and none of it is this socket's.
LEMMA FlowCut ==
  ASSUME NEW w, NEW q \in Seq(DownMessage), NEW g, NEW s, FlowOf(q, w, g, s), NEW j \in 0 .. Len(q)
  PROVE  /\ (\A k \in DOMAIN q : k > j => q[k].of # w) => FlowOf(SubSeq(q, 1, j), w, g, s)
         /\ (\A k \in DOMAIN q : k <= j => q[k].of # w) => FlowOf(SubSeq(q, j + 1, Len(q)), w, g, s)
<1>0. DOMAIN q = 1 .. Len(q) /\ Len(q) \in Nat /\ j \in Nat /\ j <= Len(q)
  BY LenProperties
<1>1. ASSUME \A k \in DOMAIN q : k > j => q[k].of # w
      PROVE  FlowOf(SubSeq(q, 1, j), w, g, s)
  <2> DEFINE p == SubSeq(q, 1, j)
  <2>1. p \in Seq(DownMessage) /\ DOMAIN p = 1 .. j /\ \A i \in 1 .. j : i \in DOMAIN q /\ p[i] = q[i]
    BY EndCut
  <2> HIDE DEF p
  <2>2. \A i \in Words(p, w) : i + 0 = i /\ i \in 1 .. j
    BY <1>0, <2>1 DEF Words
  <2>3. \A i \in Words(p, w) : i + 0 \in Words(q, w) /\ p[i].n = q[i + 0].n
    BY <2>1, <2>2 DEF Words
  <2>4. ASSUME NEW i \in Words(q, w) PROVE i - 0 \in Words(p, w)
    <3>1. i \in 1 .. Len(q) /\ ~(i > j)
      BY <1>0, <1>1 DEF Words
    <3>2. i \in 1 .. j /\ i - 0 = i
      BY <1>0, <3>1
    <3> QED BY <2>1, <3>2 DEF Words
  <2>5. FlowOf(p, w, g, s)
    BY <2>1, <2>3, <2>4, FlowShift
  <2> QED BY <2>5 DEF p
<1>2. ASSUME \A k \in DOMAIN q : k <= j => q[k].of # w
      PROVE  FlowOf(SubSeq(q, j + 1, Len(q)), w, g, s)
  <2> DEFINE p == SubSeq(q, j + 1, Len(q))
  <2>1. /\ p \in Seq(DownMessage) /\ DOMAIN p = 1 .. (Len(q) - j)
        /\ \A i \in 1 .. (Len(q) - j) : i + j \in DOMAIN q /\ p[i] = q[i + j]
    BY StartCut
  <2> HIDE DEF p
  <2>2. \A i \in Words(p, w) : i + j \in Words(q, w) /\ p[i].n = q[i + j].n
    BY <2>1 DEF Words
  <2>3. ASSUME NEW i \in Words(q, w) PROVE i - j \in Words(p, w)
    <3>1. i \in 1 .. Len(q) /\ ~(i <= j)
      BY <1>0, <1>2 DEF Words
    <3>2. i - j \in 1 .. (Len(q) - j) /\ (i - j) + j = i
      BY <1>0, <3>1
    <3>3. p[i - j] = q[i]
      BY <2>1, <3>2
    <3> QED BY <2>1, <3>2, <3>3 DEF Words
  <2>4. FlowOf(p, w, g, s)
    BY <1>0, <2>1, <2>2, <2>3, FlowShift
  <2> QED BY <2>4 DEF p
<1> QED BY <1>1, <1>2

\* What the page, its owner and the daemon have of a socket not opened yet.
NewSocket(w) ==
    /\ w \notin shims /\ got[w] = <<>> /\ sent[w] = 0 /\ local[w] = "none"
    /\ \A i \in DOMAIN toDaemon : toDaemon[i].of # w
    /\ \A i \in DOMAIN toPhone : toPhone[i].of # w

SocketRight(w) ==
    /\ shim[w] = "new" => NewSocket(w)
    /\ w \in shims \ lossy => FlowOf(toPhone, w, got[w], sent[w])

\* Nothing comes of a socket the page has not opened.
LEMMA NewSocketStep ==
  ASSUME TypeOK, [Next]_vars, NEW w \in Wsid, SocketRight(w), shim'[w] = "new"
  PROVE  NewSocket(w)'
<1> USE DEF phone, daemon, server
<1>0. toDaemon \in Seq(UpMessage) /\ toPhone \in Seq(DownMessage) /\ w \notin Req
  BY IdAssumption DEF TypeOK
<1> DEFINE Same == /\ shim[w] = "new" /\ got'[w] = got[w] /\ sent'[w] = sent[w] /\ local'[w] = local[w]
                   /\ w \in shims' => w \in shims
<1>n. shim[w] = "new" => NewSocket(w)
  BY DEF SocketRight
<1>1. Same
  <2>1. CASE DispatchToPage
    <3> DEFINE m == Head(toPhone)
    <3>1. toPhone # <<>> /\ m \in DownMessage /\ 1 \in DOMAIN toPhone /\ toPhone[1] = m
      BY <1>0, <2>1, HeadTailProperties, LenProperties, EmptySeq DEF DispatchToPage
    <3>2. UNCHANGED <<daemon, server>>
      BY <2>1 DEF DispatchToPage
    <3>3. \/ UNCHANGED <<shim, shims, got>>
          \/ shim' \in {shim, [shim EXCEPT ![m.of] = "open"]} /\ UNCHANGED <<shims, got>>
          \/ got' \in {got, [got EXCEPT ![m.of] = Append(got[m.of], Data(m))]} /\ UNCHANGED <<shim, shims>>
          \/ shim' \in {shim, [shim EXCEPT ![m.of] = "closed"]} /\ shims' \subseteq shims /\ got' = got
      BY <2>1 DEF DispatchToPage
    <3> HIDE DEF m
    <3>4. shim[w] = "new"
      BY <3>3 DEF TypeOK
    <3>5. m.of # w
      BY <1>n, <3>1, <3>4 DEF NewSocket
    <3> QED BY <3>2, <3>3, <3>4, <3>5 DEF TypeOK
  <2>2. CASE DispatchToServer
    <3> DEFINE m == Head(toDaemon)
    <3>1. toDaemon # <<>> /\ m \in UpMessage /\ 1 \in DOMAIN toDaemon /\ toDaemon[1] = m
      BY <1>0, <2>2, HeadTailProperties, LenProperties, EmptySeq DEF DispatchToServer
    <3>2. /\ UNCHANGED <<phone, sent>>
          /\ \E to : local' \in {local, [local EXCEPT ![m.of] = to]}
      BY <2>2 DEF DispatchToServer, ProxyClose
    <3> HIDE DEF m
    <3>3. m.of # w
      BY <1>n, <3>1, <3>2 DEF NewSocket
    <3> QED BY <3>2, <3>3 DEF TypeOK
  <2>3. CASE Reload
    BY <2>3 DEF Reload
  <2>4. ASSUME NEW q \in Wsid, OpenWebSocket(q) \/ WsSend(q) \/ WsClose(q) PROVE Same
    BY <2>4 DEF OpenWebSocket, WsSend, WsClose, TypeOK
  <2>5. ASSUME NEW q \in Wsid, LocalMessage(q) PROVE Same
    BY <1>n, <2>5 DEF LocalMessage, NewSocket, TypeOK
  <2>6. ASSUME NEW q \in Wsid, \/ LocalOpen(q) \/ LocalFails(q) \/ LocalEnds(q) \/ LocalError(q) \/ LocalClose(q)
        PROVE  Same
    <3>1. /\ UNCHANGED <<phone, server>> /\ local[q] # "none"
          /\ \E to : local' = [local EXCEPT ![q] = to]
      BY <2>6 DEF LocalOpen, LocalFails, LocalEnds, LocalError, LocalClose
    <3> QED BY <1>n, <3>1 DEF NewSocket, TypeOK
  <2>7. CASE \/ Activate \/ DropDaemonLink \/ CutPhone \/ Reconnect \/ DiscardUp \/ DiscardDown
             \/ \E r \in Req : Fetch(r) \/ GiveUp(r) \/ ServerHandles(r) \/ ProxyAnswer(r)
             \/ UNCHANGED vars
    <3>1. UNCHANGED <<shim, shims, got, sent, local>>
      BY <2>7 DEF Activate, DropDaemonLink, CutPhone, Reconnect, DiscardUp, DiscardDown, Fetch, GiveUp,
         ServerHandles, ProxyAnswer, vars
    <3> QED BY <3>1
  <2> HIDE DEF Same
  <2> QED BY <2>1, <2>2, <2>3, <2>4, <2>5, <2>6, <2>7 DEF Next
<1>2. NewSocket(w)
  BY <1>n, <1>1
<1>3. \A kind, of, n : Message(kind, of, n).of = of
  BY DEF Message
<1>4. ASSUME NEW m \in UpMessage, toDaemon' = Append(toDaemon, m), m.of # w
      PROVE  \A i \in DOMAIN toDaemon' : toDaemon'[i].of # w
  <2>1. /\ DOMAIN toDaemon = 1 .. Len(toDaemon) /\ Len(toDaemon) \in Nat
        /\ DOMAIN toDaemon' = 1 .. (Len(toDaemon) + 1) /\ toDaemon'[Len(toDaemon) + 1] = m
        /\ \A i \in DOMAIN toDaemon : toDaemon'[i] = toDaemon[i]
    BY <1>0, <1>4, AppendedAt
  <2>2. \A i \in DOMAIN toDaemon' : i \in DOMAIN toDaemon \/ i = Len(toDaemon) + 1
    BY <2>1
  <2> QED BY <1>2, <1>4, <2>1, <2>2 DEF NewSocket
<1>5. ASSUME NEW m \in DownMessage, toPhone' = Append(toPhone, m), m.of # w
      PROVE  \A i \in DOMAIN toPhone' : toPhone'[i].of # w
  <2>1. /\ DOMAIN toPhone = 1 .. Len(toPhone) /\ Len(toPhone) \in Nat
        /\ DOMAIN toPhone' = 1 .. (Len(toPhone) + 1) /\ toPhone'[Len(toPhone) + 1] = m
        /\ \A i \in DOMAIN toPhone : toPhone'[i] = toPhone[i]
    BY <1>0, <1>5, AppendedAt
  <2>2. \A i \in DOMAIN toPhone' : i \in DOMAIN toPhone \/ i = Len(toPhone) + 1
    BY <2>1
  <2> QED BY <1>2, <1>5, <2>1, <2>2 DEF NewSocket
<1>6. \A i \in DOMAIN toDaemon' : toDaemon'[i].of # w
  <2>1. CASE LeftOf(toDaemon, toDaemon')
    BY <1>2, <2>1 DEF LeftOf, NewSocket
  <2>2. ASSUME NEW r \in Req, toDaemon' = Append(toDaemon, Message("http_proxy", r, 0))
        PROVE  \A i \in DOMAIN toDaemon' : toDaemon'[i].of # w
    BY <1>0, <1>3, <1>4, <2>2, FramesTyped
  <2>3. ASSUME NEW q \in Wsid, NEW kind, NEW n, shim'[q] # "new", Message(kind, q, n) \in UpMessage,
               toDaemon' = Append(toDaemon, Message(kind, q, n))
        PROVE  \A i \in DOMAIN toDaemon' : toDaemon'[i].of # w
    BY <1>3, <1>4, <2>3
  <2> QED BY <2>1, <2>2, <2>3, DaemonNews
<1>7. \A i \in DOMAIN toPhone' : toPhone'[i].of # w
  <2>1. CASE LeftOf(toPhone, toPhone')
    BY <1>2, <2>1 DEF LeftOf, NewSocket
  <2>2. ASSUME NEW r \in Req, NEW how \in {"ok", "failed"}, toPhone' = Append(toPhone, Message(how, r, 0))
        PROVE  \A i \in DOMAIN toPhone' : toPhone'[i].of # w
    BY <1>0, <1>3, <1>5, <2>2, FramesTyped
  <2>3. ASSUME NEW q \in Wsid, NEW kind \in {"ws_proxy_opened", "ws_proxy_close"}, local[q] # "none",
               toPhone' = Append(toPhone, Message(kind, q, 0))
        PROVE  \A i \in DOMAIN toPhone' : toPhone'[i].of # w
    BY <1>2, <1>3, <1>5, <2>3, FramesTyped DEF NewSocket
  <2>4. ASSUME NEW q \in Wsid, LocalMessage(q),
               toPhone' = Append(toPhone, Message("ws_proxy_msg", q, sent[q] + 1))
        PROVE  \A i \in DOMAIN toPhone' : toPhone'[i].of # w
    <3>1. sent[q] + 1 \in Nat
      BY DEF TypeOK
    <3>2. q # w
      BY <1>2, <2>4 DEF LocalMessage, NewSocket
    <3> QED BY <1>3, <1>5, <2>4, <3>1, <3>2, FramesTyped
  <2> QED BY <2>1, <2>2, <2>3, <2>4, PhoneNews
<1> QED BY <1>1, <1>2, <1>6, <1>7 DEF NewSocket

\* What a socket that lost nothing has under way stays right.
LEMMA FlowStep ==
  ASSUME TypeOK, [Next]_vars, NEW w \in Wsid, SocketRight(w), w \in shims', w \notin lossy'
  PROVE  FlowOf(toPhone', w, got'[w], sent'[w])
<1> DEFINE Goal == FlowOf(toPhone', w, got'[w], sent'[w])
<1> SUFFICES Goal
  OBVIOUS
<1> USE DEF phone, daemon, server
<1>0. /\ toPhone \in Seq(DownMessage) /\ got[w] \in Seq(Nat) /\ sent[w] \in Nat
      /\ \A kind, of, n : /\ Message(kind, of, n).kind = kind /\ Message(kind, of, n).of = of
                          /\ Message(kind, of, n).n = n
  BY DEF TypeOK, Message
<1>f. w \in shims /\ w \notin lossy => FlowOf(toPhone, w, got[w], sent[w])
  BY DEF SocketRight
<1>s. ASSUME w \in shims, lossy \subseteq lossy', UNCHANGED <<toPhone, got, sent>>
      PROVE  Goal
  BY <1>f, <1>s
<1>1. ASSUME NEW q \in Wsid, OpenWebSocket(q) PROVE Goal
  <2>1. /\ Message("ws_proxy_open", q, 0) \in UpMessage /\ Send(Message("ws_proxy_open", q, 0))
        /\ shim[q] = "new" /\ shims' = shims \cup {q} /\ UNCHANGED <<got, sent>>
    BY <1>1, FramesTyped DEF OpenWebSocket
  <2>2. toPhone' = toPhone /\ lossy \subseteq lossy'
    BY <2>1, SendRight
  <2>3. CASE w \in shims
    BY <1>s, <2>1, <2>2, <2>3
  <2>4. CASE q = w
    <3>1. NewSocket(w)
      BY <2>1, <2>4 DEF SocketRight
    <3>2. Words(toPhone, w) = {} /\ got[w] = <<>> /\ sent[w] = 0
      BY <3>1 DEF NewSocket, Words
    <3>3. Len(got[w]) = 0 /\ got[w] = [i \in 1 .. 0 |-> i]
      BY <3>2, EmptySeq
    <3>4. {toPhone[i].n : i \in Words(toPhone, w)} = (0 + 1) .. 0
      BY <3>2
    <3>5. FlowOf(toPhone, w, got[w], sent[w])
      BY <3>2, <3>3, <3>4 DEF FlowOf
    <3> QED BY <2>1, <2>2, <3>5
  <2> QED BY <2>1, <2>3, <2>4
<1>2. CASE \/ \E q \in Wsid : WsSend(q) \/ WsClose(q)
           \/ \E r \in Req : Fetch(r)
  <2>1. \A q \in Wsid : said[q] + 1 \in Nat
    BY DEF TypeOK
  <2>2. PICK m \in UpMessage : Send(m)
    BY <1>2, <2>1, FramesTyped DEF WsSend, WsClose, Fetch
  <2>3. toPhone' = toPhone /\ lossy \subseteq lossy'
    BY <2>2, SendRight
  <2>4. UNCHANGED <<shims, got, sent>>
    BY <1>2 DEF WsSend, WsClose, Fetch
  <2> QED BY <1>s, <2>3, <2>4
<1>3. CASE DispatchToPage
  <2> DEFINE m == Head(toPhone)
  <2>1. toPhone # <<>> /\ m \in DownMessage /\ toPhone' = Tail(toPhone)
    BY <1>0, <1>3, HeadTailProperties DEF DispatchToPage
  <2>2. UNCHANGED <<lossy, sent>> /\ shims' \subseteq shims
    BY <1>3 DEF DispatchToPage
  <2>3. FlowOf(toPhone, w, got[w], sent[w])
    BY <1>f, <2>2
  <2>4. CASE m.kind = "ws_proxy_msg" /\ m.of = w
    <3>1. got'[w] = Append(got[w], m.n)
      BY <1>3, <2>2, <2>4 DEF DispatchToPage, Data, TypeOK
    <3>2. FlowOf(Tail(toPhone), w, Append(got[w], Head(toPhone).n), sent[w])
      BY <1>0, <2>1, <2>3, <2>4, FlowHeard
    <3> QED BY <2>1, <2>2, <3>1, <3>2
  <2>5. CASE m.kind # "ws_proxy_msg" \/ m.of # w
    <3>1. \/ got' = got
          \/ m.of # w /\ got' = [got EXCEPT ![m.of] = Append(@, Data(m))]
      BY <1>3, <2>5 DEF DispatchToPage
    <3>2. got'[w] = got[w]
      <4> HIDE DEF m
      <4> QED BY <3>1 DEF TypeOK
    <3>3. FlowOf(Tail(toPhone), w, got[w], sent[w])
      BY <1>0, <2>1, <2>3, <2>5, FlowTail
    <3> QED BY <2>1, <2>2, <3>2, <3>3
  <2> QED BY <2>4, <2>5
<1>4. CASE DiscardDown
  <2>1. /\ toPhone # <<>> /\ toPhone' = Tail(toPhone) /\ lossy' = lossy \cup {Head(toPhone).of}
        /\ UNCHANGED <<shims, got, sent>>
    BY <1>4 DEF DiscardDown
  <2>2. FlowOf(Tail(toPhone), w, got[w], sent[w])
    BY <1>0, <1>f, <2>1, FlowTail
  <2> QED BY <2>1, <2>2
<1>5. CASE DropDaemonLink \/ CutPhone
  <2>1. (LoseDaemonSide \/ LosePhoneSide) /\ UNCHANGED <<shims, got, sent>>
    BY <1>5 DEF DropDaemonLink, CutPhone
  <2>2. lossy \subseteq lossy'
    BY <2>1, SideLost
  <2>3. PICK j \in 0 .. Len(toPhone) :
           \/ /\ toPhone' = SubSeq(toPhone, 1, j)
              /\ \A k \in DOMAIN toPhone : k > j => toPhone[k].of \in lossy'
           \/ /\ toPhone' = SubSeq(toPhone, j + 1, Len(toPhone))
              /\ \A k \in DOMAIN toPhone : k <= j => toPhone[k].of \in lossy'
    BY <2>1, SideLost
  <2>4. FlowOf(toPhone, w, got[w], sent[w])
    BY <1>f, <2>1, <2>2
  <2>5. /\ (\A k \in DOMAIN toPhone : k > j => toPhone[k].of # w)
               => FlowOf(SubSeq(toPhone, 1, j), w, got[w], sent[w])
        /\ (\A k \in DOMAIN toPhone : k <= j => toPhone[k].of # w)
               => FlowOf(SubSeq(toPhone, j + 1, Len(toPhone)), w, got[w], sent[w])
    BY <1>0, <2>4, FlowCut
  <2> QED BY <2>1, <2>3, <2>5
<1>6. ASSUME NEW m \in DownMessage, SendToPeer(m), m.kind # "ws_proxy_msg" \/ m.of # w, w \in shims,
             UNCHANGED <<got, sent>>
      PROVE  Goal
  <2>1. \/ toPhone' = toPhone /\ lossy' = lossy \cup {m.of}
        \/ toPhone' = Append(toPhone, m) /\ lossy' = lossy
    BY <1>6, PeerSendRight
  <2>2. CASE toPhone' = toPhone /\ lossy' = lossy \cup {m.of}
    BY <1>6, <1>s, <2>2
  <2>3. CASE toPhone' = Append(toPhone, m) /\ lossy' = lossy
    <3>1. FlowOf(Append(toPhone, m), w, got[w], sent[w])
      BY <1>0, <1>6, <1>f, <2>3, FlowAppend
    <3> QED BY <1>6, <2>3, <3>1
  <2> QED BY <2>1, <2>2, <2>3
<1>7. ASSUME NEW r \in Req, ProxyAnswer(r) PROVE Goal
  <2>1. PICK how \in {"ok", "failed"} : SendToPeer(Message(how, r, 0))
    BY <1>7 DEF ProxyAnswer
  <2>2. Message(how, r, 0) \in DownMessage /\ Message(how, r, 0).kind # "ws_proxy_msg"
    BY <1>0, FramesTyped
  <2>3. UNCHANGED <<shims, got, sent>>
    BY <1>7 DEF ProxyAnswer
  <2> QED BY <1>6, <2>1, <2>2, <2>3
<1>8. ASSUME NEW q \in Wsid, LocalOpen(q) \/ LocalError(q) \/ LocalClose(q) PROVE Goal
  <2>1. PICK kind \in {"ws_proxy_opened", "ws_proxy_close"} : SendToPeer(Message(kind, q, 0))
    BY <1>8 DEF LocalOpen, LocalError, LocalClose
  <2>2. Message(kind, q, 0) \in DownMessage /\ Message(kind, q, 0).kind # "ws_proxy_msg"
    BY <1>0, FramesTyped
  <2>3. UNCHANGED <<shims, got, sent>>
    BY <1>8 DEF LocalOpen, LocalError, LocalClose
  <2> QED BY <1>6, <2>1, <2>2, <2>3
<1>9. ASSUME NEW q \in Wsid, LocalMessage(q) PROVE Goal
  <2> DEFINE m == Message("ws_proxy_msg", q, sent[q] + 1)
  <2>1. sent' = [sent EXCEPT ![q] = @ + 1] /\ SendToPeer(m) /\ UNCHANGED <<shims, got>>
    BY <1>9 DEF LocalMessage, Forwards
  <2>2. m \in DownMessage /\ m.kind = "ws_proxy_msg" /\ m.of = q /\ m.n = sent[q] + 1
    <3>1. sent[q] + 1 \in Nat
      BY DEF TypeOK
    <3> QED BY <1>0, <3>1, FramesTyped
  <2> HIDE DEF m
  <2>3. \/ toPhone' = toPhone /\ lossy' = lossy \cup {m.of}
        \/ toPhone' = Append(toPhone, m) /\ lossy' = lossy
    BY <2>1, <2>2, PeerSendRight
  <2>4. FlowOf(toPhone, w, got[w], sent[w])
    BY <1>f, <2>1, <2>3
  <2>5. CASE q = w
    <3>1. toPhone' = Append(toPhone, m)
      BY <2>2, <2>3, <2>5
    <3>2. sent'[w] = sent[w] + 1 /\ got'[w] = got[w]
      BY <2>1, <2>5 DEF TypeOK
    <3>3. FlowOf(Append(toPhone, m), w, got[w], sent[w] + 1)
      BY <1>0, <2>2, <2>4, <2>5, FlowSpoken
    <3> QED BY <3>1, <3>2, <3>3
  <2>6. CASE q # w
    <3>1. sent'[w] = sent[w] /\ got'[w] = got[w]
      BY <2>1, <2>6 DEF TypeOK
    <3>2. FlowOf(Append(toPhone, m), w, got[w], sent[w])
      BY <1>0, <2>2, <2>4, <2>6, FlowAppend
    <3> QED BY <2>3, <2>4, <3>1, <3>2
  <2> QED BY <2>5, <2>6
<1>10. CASE \/ Activate \/ Reload \/ Reconnect \/ DiscardUp \/ DispatchToServer
            \/ \E r \in Req : GiveUp(r) \/ ServerHandles(r)
            \/ \E q \in Wsid : LocalFails(q) \/ LocalEnds(q)
            \/ UNCHANGED vars
  <2>1. shims' \subseteq shims /\ lossy \subseteq lossy' /\ UNCHANGED <<toPhone, got, sent>>
    BY <1>10 DEF Activate, Reload, Reconnect, DiscardUp, DispatchToServer, GiveUp, ServerHandles,
       LocalFails, LocalEnds, net, vars
  <2> QED BY <1>s, <2>1
<1> HIDE DEF Goal
<1> QED BY <1>1, <1>2, <1>3, <1>4, <1>5, <1>7, <1>8, <1>9, <1>10 DEF Next

StreamInv == TypeOK /\ \A w \in Wsid : SocketRight(w)

LEMMA StreamInvInit == Init => StreamInv
<1> SUFFICES ASSUME Init PROVE StreamInv
  OBVIOUS
<1>1. TypeOK
  BY CallsInvInit DEF CallsInv
<1>2. DOMAIN toPhone = {} /\ DOMAIN toDaemon = {}
  BY EmptySeq DEF Init
<1>3. ASSUME NEW w \in Wsid PROVE SocketRight(w)
  BY <1>2 DEF Init, SocketRight, NewSocket
<1> QED BY <1>1, <1>3 DEF StreamInv

LEMMA StreamInvStep == StreamInv /\ [Next]_vars => StreamInv'
<1> SUFFICES ASSUME StreamInv, [Next]_vars PROVE StreamInv'
  OBVIOUS
<1>1. TypeOK'
  BY TunnelTypeStep DEF StreamInv
<1>2. ASSUME NEW w \in Wsid PROVE SocketRight(w)'
  <2>1. shim'[w] = "new" => NewSocket(w)'
    BY NewSocketStep DEF StreamInv
  <2>2. w \in shims' /\ w \notin lossy' => FlowOf(toPhone', w, got'[w], sent'[w])
    BY FlowStep DEF StreamInv
  <2> QED BY <2>1, <2>2 DEF SocketRight
<1> QED BY <1>1, <1>2 DEF StreamInv

\* While nothing of a socket was lost, its owner has had the first of what the
\* server sent, in order and without a gap, and the rest is under way, however
\* the page, the relay, the daemon and the server take turns.
THEOREM StreamsStayIntact == Spec => []StreamIntact
<1>1. StreamInv => StreamIntact
  <2> SUFFICES ASSUME StreamInv, NEW w \in Wsid, w \in shims \ lossy
               PROVE  /\ Len(got[w]) <= sent[w] /\ got[w] = [i \in 1 .. Len(got[w]) |-> i]
                      /\ {toPhone[i].n : i \in Coming(w)} = (Len(got[w]) + 1) .. sent[w]
                      /\ \A i, j \in Coming(w) : i < j => toPhone[i].n < toPhone[j].n
    BY DEF StreamInv, StreamIntact, TypeOK
  <2>1. FlowOf(toPhone, w, got[w], sent[w])
    BY DEF StreamInv, SocketRight
  <2>2. Coming(w) = Words(toPhone, w)
    BY DEF Coming, Words
  <2> QED BY <2>1, <2>2 DEF FlowOf
<1> QED BY <1>1, StreamInvInit, StreamInvStep, PTL DEF Spec

----------------------------------------------------------------------------
(* The big card.                                                           *)

\* The open card, the card a send is out for and the session a meta is of.
CardsRight ==
    /\ versions \in [Uuid -> Nat]
    /\ modalFor \in Uuid \cup {None} /\ modalRef \in Uuid \cup {None}
    /\ sending \in Codex \cup {None} /\ limit \in {"few", "many"}
    /\ metaOut # None => metaOut.of \in Uuid

\* An answer of GET /transcript bears the meta of the file it was read from, and
\* the ref's meta is the shown transcript's.
MetaOf(a) == [of |-> a.of, version |-> a.version]
MetasRight ==
    /\ \A a \in fetched : a \in TranscriptOf /\ a.meta = MetaOf(a)
    /\ metaRef = None \/ (transcript # None /\ metaRef = MetaOf(transcript))

LEMMA LoadAddsOne ==
  ASSUME NEW u \in Uuid, NEW l \in {"few", "many"}, LoadWith(u, l), CardsRight
  PROVE  \E b \in TranscriptOf : fetched' = fetched \cup {b} /\ b.meta = MetaOf(b)
<1> DEFINE b == [of |-> u, version |-> versions[u], meta |-> Meta(u), limit |-> l]
<1>1. fetched' = fetched \cup {b}
  BY DEF LoadWith, Answer
<1>2. b \in TranscriptOf /\ b.meta = MetaOf(b)
  BY DEF Meta, MetaOf, TranscriptOf, CardsRight
<1> QED BY <1>1, <1>2

LEMMA LoadKeepsMetas ==
  ASSUME NEW u \in Uuid, NEW l \in {"few", "many"}, LoadWith(u, l), CardsRight, MetasRight
  PROVE  \A a \in fetched' : a \in TranscriptOf /\ a.meta = MetaOf(a)
<1>1. PICK b \in TranscriptOf : fetched' = fetched \cup {b} /\ b.meta = MetaOf(b)
  BY LoadAddsOne
<1> QED BY <1>1 DEF MetasRight

LEMMA CardsRightStep == CardsRight /\ [ModalNext]_modalVars => CardsRight'
<1> SUFFICES ASSUME CardsRight, [ModalNext]_modalVars PROVE CardsRight'
  OBVIOUS
<1>1. CASE \E u \in Uuid : openCellModal(u)
  BY <1>1 DEF CardsRight, openCellModal
<1>2. CASE \E u \in Uuid : FileGrows(u)
  BY <1>2 DEF CardsRight, FileGrows, shown
<1>3. CASE onSendAnswered
  BY <1>3, ModalIds DEF CardsRight, onSendAnswered, RefAfterSend
<1>4. CASE onSendStarts
  BY <1>4 DEF CardsRight, onSendStarts, shown
<1>5. CASE \E known \in BOOLEAN : MetaAnswered(known)
  BY <1>5 DEF CardsRight, MetaAnswered, Meta, shown
<1>6. CASE closeCellModal \/ \E l \in {"few", "many"} : SetLimit(l)
  BY <1>6 DEF CardsRight, closeCellModal, SetLimit
<1>7. CASE \/ onSendFails \/ Refresh \/ SuspensionEnds \/ maybeRefreshTranscript
           \/ \E u \in Uuid : loadTranscript(u) \/ TranscriptFails(u)
           \/ UNCHANGED modalVars
  BY <1>7 DEF CardsRight, onSendFails, Refresh, SuspensionEnds, maybeRefreshTranscript,
     loadTranscript, TranscriptFails, shown, modalVars
<1> QED BY <1>1, <1>2, <1>3, <1>4, <1>5, <1>6, <1>7 DEF ModalNext

LEMMA MetasRightStep ==
  ASSUME ~GrowsWhileRead, CardsRight, MetasRight, [ModalNext]_modalVars
  PROVE  MetasRight'
<1> DEFINE Goal == MetasRight'
<1> SUFFICES Goal OBVIOUS
\* A load: one answer more is on its way.
<1>l. ASSUME NEW u \in Uuid, NEW l \in {"few", "many"}, LoadWith(u, l), UNCHANGED <<transcript, metaRef>>
      PROVE  Goal
  BY <1>l, LoadKeepsMetas DEF MetasRight
<1>1. ASSUME NEW u \in Uuid, openCellModal(u) PROVE Goal
  BY <1>l, <1>1 DEF openCellModal, Load, CardsRight
<1>2. ASSUME NEW l \in {"few", "many"}, SetLimit(l) PROVE Goal
  <2>1. CASE modalFor # None
    BY <1>l, <1>2, <2>1 DEF SetLimit, CardsRight
  <2>2. CASE modalFor = None
    BY <1>2, <2>2 DEF SetLimit, MetasRight
  <2> QED BY <2>1, <2>2
<1>3. CASE onSendAnswered
  BY <1>l, <1>3, ModalIds DEF onSendAnswered, Load, CardsRight
<1>4. CASE Refresh
  BY <1>l, <1>4 DEF Refresh, Load, shown, CardsRight
<1>5. CASE maybeRefreshTranscript
  <2>1. CASE Changed(metaOut)
    BY <1>l, <1>5, <2>1 DEF maybeRefreshTranscript, Load, shown, CardsRight
  <2>2. CASE ~Changed(metaOut)
    BY <1>5, <2>2 DEF maybeRefreshTranscript, shown, MetasRight
  <2> QED BY <2>1, <2>2
<1>6. ASSUME NEW u \in Uuid, FileGrows(u) PROVE Goal
  BY <1>6 DEF FileGrows, shown, MetasRight
<1>7. ASSUME NEW u \in Uuid, loadTranscript(u) PROVE Goal
  <2>1. PICK a \in fetched : transcript' = a /\ metaRef' = a.meta /\ fetched' = fetched \ {a}
    BY <1>7 DEF loadTranscript
  <2>2. a # None
    BY <2>1, ModalNone DEF MetasRight
  <2> QED BY <2>1, <2>2 DEF MetasRight
<1>8. ASSUME NEW u \in Uuid, TranscriptFails(u) PROVE Goal
  BY <1>8 DEF TranscriptFails, shown, MetasRight
<1>9. CASE closeCellModal
  BY <1>9 DEF closeCellModal, MetasRight
<1>10. CASE \/ onSendStarts \/ onSendFails \/ SuspensionEnds
            \/ \E known \in BOOLEAN : MetaAnswered(known)
            \/ UNCHANGED modalVars
  BY <1>10 DEF onSendStarts, onSendFails, SuspensionEnds, MetaAnswered, shown, modalVars, MetasRight
<1> HIDE DEF Goal
<1> QED BY <1>1, <1>2, <1>3, <1>4, <1>5, <1>6, <1>7, <1>8, <1>9, <1>10 DEF ModalNext

\* Whatever answers came late, failed or were of the card opened before, a card
\* that shows anything but its own session's file as it is now holds a meta that
\* the next answer of /transcript-meta differs from, so the poll reads the file
\* again: an old transcript is never taken for the file (src/web/app.tsx).  Except
\* for a file that grows between being read and being looked up.
THEOREM PollDoesNotice ==
  ASSUME ~GrowsWhileRead
  PROVE  ModalInit /\ [][ModalNext]_modalVars => []PollNotices
<1>1. ModalInit => CardsRight /\ MetasRight
  BY DEF ModalInit, CardsRight, MetasRight
<1>2. CardsRight /\ MetasRight /\ [ModalNext]_modalVars => (CardsRight /\ MetasRight)'
  BY CardsRightStep, MetasRightStep
<1>3. CardsRight /\ MetasRight => PollNotices
  BY DEF CardsRight, MetasRight, PollNotices, Changed, Meta, MetaOf
<1> QED BY <1>1, <1>2, <1>3, PTL

\* The ref names the open card's session, and a send is out for no other.
RefsRight == modalRef = modalFor /\ (sending # None => modalFor = sending)

\* As long as the user opens no other card while a send is out, the ref names the
\* session of the open card, through every send that gives a session a new id
\* (src/web/app.tsx:4417).
THEOREM RefDoesMirrorModal ==
  ASSUME ~SwitchWhileSending
  PROVE  ModalInit /\ [][ModalNext]_modalVars => []RefMirrorsModal
<1>1. ModalInit => RefsRight
  BY DEF ModalInit, RefsRight
<1>2. RefsRight /\ [ModalNext]_modalVars => RefsRight'
  <2> SUFFICES ASSUME RefsRight, [ModalNext]_modalVars PROVE RefsRight'
    OBVIOUS
  <2>1. CASE \E u \in Uuid : openCellModal(u)
    BY <2>1 DEF RefsRight, openCellModal, MayMove
  <2>2. CASE closeCellModal
    BY <2>2 DEF RefsRight, closeCellModal, MayMove
  <2>3. CASE onSendStarts \/ onSendAnswered \/ onSendFails
    BY <2>3 DEF RefsRight, onSendStarts, onSendAnswered, RefAfterSend, onSendFails, shown
  <2>4. CASE \/ \E u \in Uuid : FileGrows(u) \/ loadTranscript(u) \/ TranscriptFails(u)
             \/ \E l \in {"few", "many"} : SetLimit(l)
             \/ Refresh \/ SuspensionEnds \/ maybeRefreshTranscript
             \/ \E known \in BOOLEAN : MetaAnswered(known)
             \/ UNCHANGED modalVars
    BY <2>4 DEF RefsRight, FileGrows, loadTranscript, TranscriptFails, SetLimit, Refresh,
       SuspensionEnds, maybeRefreshTranscript, MetaAnswered, shown, modalVars
  <2> QED BY <2>1, <2>2, <2>3, <2>4 DEF ModalNext
<1>3. RefsRight => RefMirrorsModal
  BY DEF RefsRight, RefMirrorsModal
<1> QED BY <1>1, <1>2, <1>3, PTL

----------------------------------------------------------------------------
(* The two ends of a socket.                                               *)

Untouched(q, w) == \A i \in DOMAIN q : q[i].of # w

\* What a page asks of a socket begins with its one request to open it.
OpensFirst(q, w) ==
    \A i, j \in DOMAIN q :
       q[i].of = w /\ q[i].kind = "ws_proxy_open" /\ q[j].of = w /\ i # j => i < j

\* Whoever is told that a socket is open is told later that it is closed.
ClosesLast(q, w) ==
    \A i \in DOMAIN q : q[i].of = w /\ q[i].kind = "ws_proxy_opened" =>
       \E j \in DOMAIN q : i < j /\ q[j].of = w /\ q[j].kind = "ws_proxy_close"

\* p has this socket's messages of q and no others, in the same order.
SameFrames(q, p, w) ==
    \E k \in Nat :
       /\ \A i \in DOMAIN p : p[i].of = w => i + k \in DOMAIN q /\ q[i + k] = p[i]
       /\ \A i \in DOMAIN q : q[i].of = w => i - k \in DOMAIN p /\ p[i - k] = q[i]

LEMMA SameFramesKeep ==
  ASSUME NEW S, NEW q \in Seq(S), NEW p \in Seq(S), NEW w, SameFrames(q, p, w)
  PROVE  /\ \A kind : UnderWay(q, w, kind) <=> UnderWay(p, w, kind)
         /\ Untouched(q, w) => Untouched(p, w)
         /\ OpensFirst(q, w) => OpensFirst(p, w)
         /\ ClosesLast(q, w) => ClosesLast(p, w)
<1>1. PICK k \in Nat :
         /\ \A i \in DOMAIN p : p[i].of = w => i + k \in DOMAIN q /\ q[i + k] = p[i]
         /\ \A i \in DOMAIN q : q[i].of = w => i - k \in DOMAIN p /\ p[i - k] = q[i]
  BY DEF SameFrames
<1>2. DOMAIN p \subseteq Int /\ DOMAIN q \subseteq Int
  BY LenProperties
<1>3. \A kind : UnderWay(q, w, kind) <=> UnderWay(p, w, kind)
  BY <1>1 DEF UnderWay
<1>4. Untouched(q, w) => Untouched(p, w)
  BY <1>1 DEF Untouched
<1>5. ASSUME OpensFirst(q, w), NEW i \in DOMAIN p, NEW j \in DOMAIN p,
             p[i].of = w, p[i].kind = "ws_proxy_open", p[j].of = w, i # j
      PROVE  i < j
  <2>1. /\ i + k \in DOMAIN q /\ q[i + k] = p[i] /\ j + k \in DOMAIN q /\ q[j + k] = p[j]
        /\ i + k # j + k
    BY <1>1, <1>2, <1>5
  <2>2. i + k < j + k
    BY <1>5, <2>1 DEF OpensFirst
  <2> QED BY <1>2, <2>2
<1>6. ASSUME ClosesLast(q, w), NEW i \in DOMAIN p, p[i].of = w, p[i].kind = "ws_proxy_opened"
      PROVE  \E j \in DOMAIN p : i < j /\ p[j].of = w /\ p[j].kind = "ws_proxy_close"
  <2>1. i + k \in DOMAIN q /\ q[i + k] = p[i]
    BY <1>1, <1>6
  <2>2. PICK j \in DOMAIN q : i + k < j /\ q[j].of = w /\ q[j].kind = "ws_proxy_close"
    BY <1>6, <2>1 DEF ClosesLast
  <2>3. j - k \in DOMAIN p /\ p[j - k] = q[j] /\ i < j - k
    BY <1>1, <1>2, <2>2
  <2> QED BY <2>2, <2>3
<1> QED BY <1>3, <1>4, <1>5, <1>6 DEF OpensFirst, ClosesLast

LEMMA UnchangedFrames ==
  ASSUME NEW S, NEW q \in Seq(S), NEW w
  PROVE  SameFrames(q, q, w)
<1>1. 0 \in Nat /\ \A i \in DOMAIN q : i + 0 = i /\ i - 0 = i
  BY LenProperties
<1> QED BY <1>1 DEF SameFrames

LEMMA OthersFrame ==
  ASSUME NEW S, NEW q \in Seq(S), NEW m \in S, NEW w, m.of # w
  PROVE  SameFrames(q, Append(q, m), w)
<1>1. /\ DOMAIN q = 1 .. Len(q) /\ Len(q) \in Nat
      /\ DOMAIN Append(q, m) = 1 .. (Len(q) + 1) /\ Append(q, m)[Len(q) + 1] = m
      /\ \A i \in DOMAIN q : Append(q, m)[i] = q[i]
  BY AppendedAt
<1>2. \A i \in DOMAIN Append(q, m) : i + 0 = i /\ i - 0 = i /\ (i \in DOMAIN q \/ i = Len(q) + 1)
  BY <1>1
<1>3. \A i \in DOMAIN q : i - 0 = i /\ i \in DOMAIN Append(q, m)
  BY <1>1
<1>4. /\ \A i \in DOMAIN Append(q, m) :
            Append(q, m)[i].of = w => i + 0 \in DOMAIN q /\ q[i + 0] = Append(q, m)[i]
      /\ \A i \in DOMAIN q :
            q[i].of = w => i - 0 \in DOMAIN Append(q, m) /\ Append(q, m)[i - 0] = q[i]
  BY <1>1, <1>2, <1>3
<1> QED BY <1>4 DEF SameFrames

LEMMA OthersHead ==
  ASSUME NEW S, NEW q \in Seq(S), q # <<>>, NEW w, Head(q).of # w
  PROVE  SameFrames(q, Tail(q), w)
<1>1. /\ DOMAIN q = 1 .. Len(q) /\ Len(q) \in Nat /\ Head(q) = q[1]
      /\ DOMAIN Tail(q) = 1 .. (Len(q) - 1)
      /\ \A i \in 1 .. (Len(q) - 1) : Tail(q)[i] = q[i + 1]
  BY HeadTailProperties, LenProperties
<1>2. \A i \in DOMAIN Tail(q) : i + 1 \in DOMAIN q /\ q[i + 1] = Tail(q)[i]
  BY <1>1
<1>3. ASSUME NEW i \in DOMAIN q, q[i].of = w
      PROVE  i - 1 \in DOMAIN Tail(q) /\ Tail(q)[i - 1] = q[i]
  <2>1. i # 1
    BY <1>1, <1>3
  <2>2. i - 1 \in 1 .. (Len(q) - 1) /\ (i - 1) + 1 = i
    BY <1>1, <2>1
  <2> QED BY <1>1, <2>2
<1> QED BY <1>2, <1>3 DEF SameFrames

LEMMA OthersCut ==
  ASSUME NEW S, NEW q \in Seq(S), NEW j \in 0 .. Len(q), NEW w
  PROVE  /\ w \notin Ids(SubSeq(q, j + 1, Len(q))) => SameFrames(q, SubSeq(q, 1, j), w)
         /\ w \notin Ids(SubSeq(q, 1, j)) => SameFrames(q, SubSeq(q, j + 1, Len(q)), w)
<1> DEFINE front == SubSeq(q, 1, j)
           back == SubSeq(q, j + 1, Len(q))
<1>0. DOMAIN q = 1 .. Len(q) /\ Len(q) \in Nat /\ j \in Nat /\ j <= Len(q)
  BY LenProperties
<1>1. /\ front \in Seq(S) /\ DOMAIN front = 1 .. j
      /\ \A i \in 1 .. j : i \in DOMAIN q /\ front[i] = q[i]
  BY EndCut
<1>2. /\ back \in Seq(S) /\ DOMAIN back = 1 .. (Len(q) - j)
      /\ \A i \in 1 .. (Len(q) - j) : i + j \in DOMAIN q /\ back[i] = q[i + j]
  BY StartCut
<1>3. /\ \A i \in DOMAIN front : front[i].of \in Ids(front)
      /\ \A i \in DOMAIN back : back[i].of \in Ids(back)
  BY <1>1, <1>2, LenProperties DEF Ids
<1> HIDE DEF front, back
<1>4. ASSUME w \notin Ids(back) PROVE SameFrames(q, front, w)
  <2>1. \A i \in DOMAIN front : i + 0 \in DOMAIN q /\ q[i + 0] = front[i]
    BY <1>0, <1>1
  <2>2. ASSUME NEW i \in DOMAIN q, q[i].of = w PROVE i - 0 \in DOMAIN front /\ front[i - 0] = q[i]
    <3>1. CASE i > j
      <4>1. i - j \in 1 .. (Len(q) - j) /\ (i - j) + j = i
        BY <1>0, <3>1
      <4>2. back[i - j].of = w /\ i - j \in DOMAIN back
        BY <1>2, <2>2, <4>1
      <4> QED BY <1>3, <1>4, <4>2
    <3>2. CASE ~(i > j)
      <4>1. i \in 1 .. j /\ i - 0 = i
        BY <1>0, <3>2
      <4> QED BY <1>1, <4>1
    <3> QED BY <3>1, <3>2
  <2> QED BY <2>1, <2>2 DEF SameFrames
<1>5. ASSUME w \notin Ids(front) PROVE SameFrames(q, back, w)
  <2>1. \A i \in DOMAIN back : i + j \in DOMAIN q /\ q[i + j] = back[i]
    BY <1>2
  <2>2. ASSUME NEW i \in DOMAIN q, q[i].of = w PROVE i - j \in DOMAIN back /\ back[i - j] = q[i]
    <3>1. ~(i <= j)
      <4>1. SUFFICES ASSUME i <= j PROVE FALSE
        OBVIOUS
      <4>2. i \in 1 .. j
        BY <1>0, <4>1
      <4> QED BY <1>1, <1>3, <1>5, <2>2, <4>2
    <3>2. i - j \in 1 .. (Len(q) - j) /\ (i - j) + j = i
      BY <1>0, <3>1
    <3> QED BY <1>2, <3>2
  <2> QED BY <1>0, <2>1, <2>2 DEF SameFrames
<1> QED BY <1>4, <1>5 DEF front, back

\* The first message is one of this socket's, and goes.
LEMMA OwnHead ==
  ASSUME NEW S, NEW q \in Seq(S), q # <<>>, NEW w, Head(q).of = w
  PROVE  /\ \A kind : UnderWay(Tail(q), w, kind) => UnderWay(q, w, kind)
         /\ \A kind : UnderWay(q, w, kind) /\ Head(q).kind # kind => UnderWay(Tail(q), w, kind)
         /\ UnderWay(q, w, Head(q).kind)
         /\ ~Untouched(q, w)
         /\ OpensFirst(q, w) => /\ OpensFirst(Tail(q), w)
                                /\ ~UnderWay(Tail(q), w, "ws_proxy_open")
                                /\ Head(q).kind # "ws_proxy_open" => ~UnderWay(q, w, "ws_proxy_open")
         /\ ClosesLast(q, w) => /\ ClosesLast(Tail(q), w)
                                /\ Head(q).kind = "ws_proxy_opened" => UnderWay(Tail(q), w, "ws_proxy_close")
<1> DEFINE t == Tail(q)
<1>1. /\ DOMAIN q = 1 .. Len(q) /\ Len(q) \in Nat /\ Head(q) = q[1] /\ 1 \in DOMAIN q
      /\ DOMAIN t = 1 .. (Len(q) - 1)
      /\ \A i \in 1 .. (Len(q) - 1) : t[i] = q[i + 1]
  BY HeadTailProperties, LenProperties, EmptySeq
<1> HIDE DEF t
<1>2. \A i \in DOMAIN t : i \in Nat /\ i + 1 \in DOMAIN q /\ q[i + 1] = t[i] /\ 1 < i + 1
  BY <1>1
<1>3. \A i \in DOMAIN q : i # 1 => i - 1 \in DOMAIN t /\ t[i - 1] = q[i]
  <2> SUFFICES ASSUME NEW i \in DOMAIN q, i # 1 PROVE i - 1 \in DOMAIN t /\ t[i - 1] = q[i]
    OBVIOUS
  <2>1. i - 1 \in 1 .. (Len(q) - 1) /\ (i - 1) + 1 = i
    BY <1>1
  <2> QED BY <1>1, <2>1
<1>4. \A kind : UnderWay(t, w, kind) => UnderWay(q, w, kind)
  BY <1>2 DEF UnderWay
<1>5. \A kind : UnderWay(q, w, kind) /\ Head(q).kind # kind => UnderWay(t, w, kind)
  BY <1>1, <1>3 DEF UnderWay
<1>6. UnderWay(q, w, Head(q).kind) /\ ~Untouched(q, w)
  BY <1>1 DEF UnderWay, Untouched
<1>7. ASSUME OpensFirst(q, w), NEW i \in DOMAIN t, NEW j \in DOMAIN t,
             t[i].of = w, t[i].kind = "ws_proxy_open", t[j].of = w, i # j
      PROVE  i < j
  <2>1. i + 1 # j + 1
    BY <1>2, <1>7
  <2>2. i + 1 < j + 1
    BY <1>2, <1>7, <2>1 DEF OpensFirst
  <2> QED BY <1>2, <2>2
<1>8. ASSUME OpensFirst(q, w), NEW i \in DOMAIN q, i # 1, q[i].of = w, q[i].kind = "ws_proxy_open"
      PROVE  FALSE
  <2>1. i < 1
    BY <1>1, <1>8 DEF OpensFirst
  <2> QED BY <1>1, <2>1
<1>9. ASSUME OpensFirst(q, w)
      PROVE  /\ ~UnderWay(t, w, "ws_proxy_open")
             /\ Head(q).kind # "ws_proxy_open" => ~UnderWay(q, w, "ws_proxy_open")
  <2>1. ~UnderWay(t, w, "ws_proxy_open")
    <3> SUFFICES ASSUME NEW i \in DOMAIN t, t[i].of = w, t[i].kind = "ws_proxy_open" PROVE FALSE
      BY DEF UnderWay
    <3>1. i + 1 # 1
      BY <1>2
    <3> QED BY <1>2, <1>8, <1>9, <3>1
  <2> QED BY <1>5, <2>1
<1>10. ASSUME ClosesLast(q, w), NEW i \in DOMAIN t, t[i].of = w, t[i].kind = "ws_proxy_opened"
       PROVE  \E j \in DOMAIN t : i < j /\ t[j].of = w /\ t[j].kind = "ws_proxy_close"
  <2>1. PICK j \in DOMAIN q : i + 1 < j /\ q[j].of = w /\ q[j].kind = "ws_proxy_close"
    BY <1>2, <1>10 DEF ClosesLast
  <2>2. j # 1 /\ i < j - 1
    BY <1>1, <1>2, <2>1
  <2> QED BY <1>3, <2>1, <2>2
<1>11. ASSUME ClosesLast(q, w), Head(q).kind = "ws_proxy_opened"
       PROVE  UnderWay(t, w, "ws_proxy_close")
  <2>1. PICK j \in DOMAIN q : 1 < j /\ q[j].of = w /\ q[j].kind = "ws_proxy_close"
    BY <1>1, <1>11 DEF ClosesLast
  <2> QED BY <1>3, <2>1 DEF UnderWay
<1>12. OpensFirst(q, w) => OpensFirst(t, w)
  BY <1>7 DEF OpensFirst
<1>13. ClosesLast(q, w) => ClosesLast(t, w)
  BY <1>10 DEF ClosesLast
<1> QED BY <1>4, <1>5, <1>6, <1>9, <1>11, <1>12, <1>13 DEF t

\* A message of this socket is added.
LEMMA OwnFrame ==
  ASSUME NEW S, NEW q \in Seq(S), NEW m \in S, NEW w, m.of = w
  PROVE  /\ \A kind : UnderWay(Append(q, m), w, kind) <=> UnderWay(q, w, kind) \/ m.kind = kind
         /\ OpensFirst(q, w) /\ (m.kind # "ws_proxy_open" \/ Untouched(q, w)) => OpensFirst(Append(q, m), w)
         /\ ClosesLast(q, w) /\ m.kind # "ws_proxy_opened" => ClosesLast(Append(q, m), w)
         /\ m.kind = "ws_proxy_close" => ClosesLast(Append(q, m), w)
<1> DEFINE a == Append(q, m)
           n == Len(q) + 1
<1>1. /\ DOMAIN q = 1 .. Len(q) /\ Len(q) \in Nat
      /\ DOMAIN a = 1 .. n /\ a[n] = m /\ \A i \in DOMAIN q : a[i] = q[i]
  BY AppendedAt
<1>2. n \in DOMAIN a /\ \A i \in DOMAIN a : i = n \/ (i \in DOMAIN q /\ a[i] = q[i])
  BY <1>1
<1>3. \A i \in DOMAIN q : i < n /\ i \in DOMAIN a
  BY <1>1
<1> HIDE DEF a, n
<1>4. \A kind : UnderWay(a, w, kind) <=> UnderWay(q, w, kind) \/ m.kind = kind
  BY <1>1, <1>2, <1>3 DEF UnderWay
<1>5. ASSUME OpensFirst(q, w), m.kind # "ws_proxy_open" \/ Untouched(q, w),
             NEW i \in DOMAIN a, NEW j \in DOMAIN a,
             a[i].of = w, a[i].kind = "ws_proxy_open", a[j].of = w, i # j
      PROVE  i < j
  <2>1. CASE i = n
    <3>1. j \in DOMAIN q /\ q[j].of = w /\ m.kind = "ws_proxy_open"
      BY <1>1, <1>2, <1>5, <2>1
    <3> QED BY <1>5, <3>1 DEF Untouched
  <2>2. CASE i \in DOMAIN q /\ j = n
    BY <1>3, <2>2
  <2>3. CASE i \in DOMAIN q /\ j \in DOMAIN q
    BY <1>1, <1>5, <2>3 DEF OpensFirst
  <2> QED BY <1>2, <2>1, <2>2, <2>3
<1>6. ASSUME ClosesLast(q, w), m.kind # "ws_proxy_opened",
             NEW i \in DOMAIN a, a[i].of = w, a[i].kind = "ws_proxy_opened"
      PROVE  \E j \in DOMAIN a : i < j /\ a[j].of = w /\ a[j].kind = "ws_proxy_close"
  <2>1. i \in DOMAIN q /\ q[i] = a[i]
    BY <1>1, <1>2, <1>6
  <2>2. PICK j \in DOMAIN q : i < j /\ q[j].of = w /\ q[j].kind = "ws_proxy_close"
    BY <1>6, <2>1 DEF ClosesLast
  <2> QED BY <1>1, <1>3, <2>2
<1>7. ASSUME m.kind = "ws_proxy_close",
             NEW i \in DOMAIN a, a[i].of = w, a[i].kind = "ws_proxy_opened"
      PROVE  \E j \in DOMAIN a : i < j /\ a[j].of = w /\ a[j].kind = "ws_proxy_close"
  <2>1. i \in DOMAIN q
    BY <1>1, <1>2, <1>7
  <2> QED BY <1>1, <1>2, <1>3, <1>7, <2>1
<1>8. /\ OpensFirst(q, w) /\ (m.kind # "ws_proxy_open" \/ Untouched(q, w)) => OpensFirst(a, w)
      /\ ClosesLast(q, w) /\ m.kind # "ws_proxy_opened" => ClosesLast(a, w)
      /\ m.kind = "ws_proxy_close" => ClosesLast(a, w)
  BY <1>5, <1>6, <1>7 DEF OpensFirst, ClosesLast
<1> QED BY <1>4, <1>8 DEF a

\* An id of a socket the page waits for or uses is in wsShims, one of a socket the
\* daemon does in tunnelWsByPeer.
Rooted(w) ==
    /\ shim[w] \in {"connecting", "open"} => w \in shims
    /\ local[w] \in {"connecting", "open"} => w \in tunnels

LEMMA RootedStep ==
  ASSUME TypeOK, [Next]_vars, NEW w \in Wsid, Rooted(w)
  PROVE  Rooted(w)'
<1> DEFINE Goal == Rooted(w)'
<1> SUFFICES Goal
  OBVIOUS
<1> USE DEF phone, daemon, server
<1>0. shim \in [Wsid -> {"new", "connecting", "open", "closed", "dropped"}] /\ shims \subseteq Wsid
      /\ local \in [Wsid -> {"none", "connecting", "open", "closing", "failed", "ended", "closed"}]
  BY DEF TypeOK
<1>1. ASSUME NEW q \in Wsid, OpenWebSocket(q) \/ WsSend(q) \/ WsClose(q) PROVE Goal
  BY <1>0, <1>1 DEF OpenWebSocket, WsSend, WsClose, Rooted
<1>2. CASE DispatchToPage
  <2>1. PICK of :
           \/ UNCHANGED <<shim, shims>>
           \/ of \in shims /\ shim' = [shim EXCEPT ![of] = "open"] /\ UNCHANGED shims
           \/ shim' = [shim EXCEPT ![of] = "closed"] /\ shims' = shims \ {of} /\ of \in shims
    BY <1>2 DEF DispatchToPage
  <2>2. UNCHANGED <<local, tunnels>>
    BY <1>2 DEF DispatchToPage
  <2> QED BY <1>0, <2>1, <2>2 DEF Rooted
<1>3. CASE Reload
  BY <1>0, <1>3 DEF Reload, Rooted
<1>4. CASE DispatchToServer
  <2>1. PICK of :
           \/ UNCHANGED <<local, tunnels>>
           \/ local' = [local EXCEPT ![of] = "connecting"] /\ tunnels' = tunnels \cup {of}
           \/ local' = [local EXCEPT ![of] = ClosedLocal(local[of])] /\ tunnels' = tunnels \ {of}
    BY <1>4 DEF DispatchToServer, ProxyClose
  <2>2. UNCHANGED <<shim, shims>>
    BY <1>4 DEF DispatchToServer
  <2>3. \A state : ClosedLocal(state) \notin {"connecting", "open"}
    BY DEF ClosedLocal
  <2> QED BY <1>0, <2>1, <2>2, <2>3 DEF Rooted
<1>5. ASSUME NEW q \in Wsid, LocalOpen(q) \/ LocalMessage(q) \/ LocalFails(q) \/ LocalEnds(q) PROVE Goal
  BY <1>0, <1>5 DEF LocalOpen, LocalMessage, LocalFails, LocalEnds, Rooted
<1>6. ASSUME NEW q \in Wsid, LocalError(q) \/ LocalClose(q) PROVE Goal
  BY <1>0, <1>6 DEF LocalError, LocalClose, Rooted
<1>7. CASE \/ Activate \/ DropDaemonLink \/ CutPhone \/ Reconnect \/ DiscardUp \/ DiscardDown
           \/ \E r \in Req : Fetch(r) \/ GiveUp(r) \/ ServerHandles(r) \/ ProxyAnswer(r)
           \/ UNCHANGED vars
  BY <1>7 DEF Activate, DropDaemonLink, CutPhone, Reconnect, DiscardUp, DiscardDown, Fetch, GiveUp,
     ServerHandles, ProxyAnswer, vars, Rooted
<1> HIDE DEF Goal
<1> QED BY <1>1, <1>2, <1>3, <1>4, <1>5, <1>6, <1>7 DEF Next

\* What the ends of a socket that lost nothing know of each other.
EndsKnow(w) ==
    /\ OpensFirst(toDaemon, w)
    /\ UnderWay(toDaemon, w, "ws_proxy_open") => local[w] = "none"
    /\ local[w] = "none" => Untouched(toPhone, w)
    /\ local[w] = "none" /\ shim[w] # "new" => UnderWay(toDaemon, w, "ws_proxy_open")
    /\ shim[w] = "connecting" =>
          \/ UnderWay(toDaemon, w, "ws_proxy_open") \/ local[w] \in {"connecting", "failed"}
          \/ UnderWay(toPhone, w, "ws_proxy_opened") \/ UnderWay(toPhone, w, "ws_proxy_close")
    /\ shim[w] = "closed" =>
          UnderWay(toDaemon, w, "ws_proxy_close") \/ local[w] \in {"closing", "failed", "ended", "closed"}
    /\ UnderWay(toPhone, w, "ws_proxy_close") => local[w] \in {"ended", "closed"}
    /\ local[w] = "closed" => shim[w] \in {"closed", "dropped"} \/ UnderWay(toPhone, w, "ws_proxy_close")
    /\ local[w] = "closed" /\ w \in shims => ClosesLast(toPhone, w)

\* Other sockets' messages and steps change nothing of it.
LEMMA EndsQuiet ==
  ASSUME TypeOK, TypeOK', NEW w \in Wsid, EndsKnow(w),
         shim'[w] = shim[w], local'[w] = local[w], w \in shims' => w \in shims,
         SameFrames(toDaemon, toDaemon', w), SameFrames(toPhone, toPhone', w)
  PROVE  EndsKnow(w)'
<1>1. /\ toDaemon \in Seq(UpMessage) /\ toDaemon' \in Seq(UpMessage)
      /\ toPhone \in Seq(DownMessage) /\ toPhone' \in Seq(DownMessage)
  BY DEF TypeOK
<1>2. /\ \A kind : UnderWay(toDaemon, w, kind) <=> UnderWay(toDaemon', w, kind)
      /\ OpensFirst(toDaemon, w) => OpensFirst(toDaemon', w)
  BY <1>1, SameFramesKeep
<1>3. /\ \A kind : UnderWay(toPhone, w, kind) <=> UnderWay(toPhone', w, kind)
      /\ Untouched(toPhone, w) => Untouched(toPhone', w)
      /\ ClosesLast(toPhone, w) => ClosesLast(toPhone', w)
  BY <1>1, SameFramesKeep
<1> QED BY <1>2, <1>3 DEF EndsKnow

\* What the page, or the daemon, puts under way, of another socket or of this one.
LEMMA SentKept ==
  ASSUME TypeOK, NEW m \in UpMessage, Send(m), NEW w, w \notin lossy'
  PROVE  /\ w \notin lossy /\ toPhone' = toPhone
         /\ m.of # w => SameFrames(toDaemon, toDaemon', w)
         /\ m.of = w => toDaemon' = Append(toDaemon, m)
<1>1. toDaemon \in Seq(UpMessage) /\ toPhone' = toPhone /\ lossy \subseteq lossy'
  BY SendRight DEF TypeOK
<1>2. m.of # w => SameFrames(toDaemon, toDaemon', w)
  BY <1>1, UnchangedFrames, OthersFrame, SendRight
<1>3. m.of = w => toDaemon' = Append(toDaemon, m)
  BY DEF Send
<1> QED BY <1>1, <1>2, <1>3

LEMMA ToldKept ==
  ASSUME TypeOK, NEW m \in DownMessage, SendToPeer(m), NEW w, w \notin lossy'
  PROVE  /\ w \notin lossy
         /\ m.of # w => SameFrames(toPhone, toPhone', w)
         /\ m.of = w => toPhone' = Append(toPhone, m)
<1>1. /\ toPhone \in Seq(DownMessage)
      /\ \/ toPhone' = toPhone /\ lossy' = lossy \cup {m.of}
         \/ toPhone' = Append(toPhone, m) /\ lossy' = lossy
  BY PeerSendRight DEF TypeOK
<1>2. m.of # w => SameFrames(toPhone, toPhone', w)
  BY <1>1, UnchangedFrames, OthersFrame
<1> QED BY <1>1, <1>2

\* A link that goes takes none of this socket's messages.
LEMMA SidesKept ==
  ASSUME TypeOK, LoseDaemonSide \/ LosePhoneSide, NEW w, w \notin lossy'
  PROVE  /\ w \notin lossy
         /\ SameFrames(toDaemon, toDaemon', w) /\ SameFrames(toPhone, toPhone', w)
<1>1. toDaemon \in Seq(UpMessage) /\ toPhone \in Seq(DownMessage)
  BY DEF TypeOK
<1>2. CASE LoseDaemonSide
  <2>1. PICK i \in 0 .. Len(toDaemon), j \in 0 .. Len(toPhone) :
           /\ toDaemon' = SubSeq(toDaemon, i + 1, Len(toDaemon))
           /\ toPhone' = SubSeq(toPhone, 1, j)
           /\ lossy' = lossy \cup Ids(SubSeq(toDaemon, 1, i))
                             \cup Ids(SubSeq(toPhone, j + 1, Len(toPhone)))
    BY <1>2 DEF LoseDaemonSide
  <2>2. SameFrames(toDaemon, toDaemon', w)
    BY <1>1, <2>1, OthersCut
  <2>3. SameFrames(toPhone, toPhone', w)
    BY <1>1, <2>1, OthersCut
  <2> QED BY <2>1, <2>2, <2>3
<1>3. CASE LosePhoneSide
  <2>1. PICK i \in 0 .. Len(toDaemon), j \in 0 .. Len(toPhone) :
           /\ toDaemon' = SubSeq(toDaemon, 1, i)
           /\ toPhone' = SubSeq(toPhone, j + 1, Len(toPhone))
           /\ lossy' = lossy \cup Ids(SubSeq(toDaemon, i + 1, Len(toDaemon)))
                             \cup Ids(SubSeq(toPhone, 1, j))
    BY <1>3 DEF LosePhoneSide
  <2>2. SameFrames(toDaemon, toDaemon', w)
    BY <1>1, <2>1, OthersCut
  <2>3. SameFrames(toPhone, toPhone', w)
    BY <1>1, <2>1, OthersCut
  <2> QED BY <2>1, <2>2, <2>3
<1> QED BY <1>2, <1>3

\* The page's own steps on the socket.
LEMMA EndsPageAsks ==
  ASSUME TypeOK, TypeOK', NEW w \in Wsid, w \notin lossy', w \notin lossy => EndsKnow(w),
         Rooted(w), shim[w] = "new" => NewSocket(w),
         OpenWebSocket(w) \/ WsSend(w) \/ WsClose(w)
  PROVE  EndsKnow(w)'
<1> USE DEF daemon, server
<1>0. /\ toDaemon \in Seq(UpMessage) /\ said[w] + 1 \in Nat
      /\ shim \in [Wsid -> {"new", "connecting", "open", "closed", "dropped"}]
      /\ \A kind, of, n : Message(kind, of, n).kind = kind /\ Message(kind, of, n).of = of
  BY DEF TypeOK, Message
\* What an appended message changes.
<1>a. ASSUME NEW m \in UpMessage, Send(m), m.of = w
      PROVE  /\ EndsKnow(w) /\ toPhone' = toPhone
             /\ \A kind : UnderWay(toDaemon', w, kind) <=> UnderWay(toDaemon, w, kind) \/ m.kind = kind
             /\ m.kind # "ws_proxy_open" \/ Untouched(toDaemon, w) => OpensFirst(toDaemon', w)
  <2>1. w \notin lossy /\ toPhone' = toPhone /\ toDaemon' = Append(toDaemon, m)
    BY <1>a, SentKept
  <2>2. EndsKnow(w)
    BY <2>1
  <2>3. OpensFirst(toDaemon, w)
    BY <2>2 DEF EndsKnow
  <2>4. /\ \A kind : UnderWay(toDaemon', w, kind) <=> UnderWay(toDaemon, w, kind) \/ m.kind = kind
        /\ OpensFirst(toDaemon, w) /\ (m.kind # "ws_proxy_open" \/ Untouched(toDaemon, w))
              => OpensFirst(toDaemon', w)
    <3>1. toDaemon \in Seq(UpMessage)
      BY <1>0
    <3> QED BY <1>a, <2>1, <3>1, OwnFrame
  <2> QED BY <2>1, <2>2, <2>3, <2>4
<1>1. CASE OpenWebSocket(w)
  <2> DEFINE m == Message("ws_proxy_open", w, 0)
  <2>1. m \in UpMessage /\ Send(m) /\ m.of = w /\ m.kind = "ws_proxy_open"
    BY <1>0, <1>1, FramesTyped DEF OpenWebSocket
  <2>2. /\ shim'[w] = "connecting" /\ local'[w] = "none" /\ NewSocket(w)
    BY <1>0, <1>1 DEF OpenWebSocket, NewSocket
  <2> HIDE DEF m
  <2>3. Untouched(toDaemon, w) /\ Untouched(toPhone, w)
    BY <2>2 DEF NewSocket, Untouched
  <2>4. ~UnderWay(toPhone, w, "ws_proxy_close")
    BY <2>3 DEF Untouched, UnderWay
  <2>5. /\ toPhone' = toPhone /\ OpensFirst(toDaemon', w) /\ UnderWay(toDaemon', w, "ws_proxy_open")
    BY <1>a, <2>1, <2>3
  <2> QED BY <2>2, <2>3, <2>4, <2>5 DEF EndsKnow
<1>2. CASE WsSend(w)
  <2> DEFINE m == Message("ws_proxy_send", w, said[w] + 1)
  <2>1. m \in UpMessage /\ Send(m) /\ m.of = w /\ m.kind = "ws_proxy_send"
    BY <1>0, <1>2, FramesTyped DEF WsSend
  <2>2. UNCHANGED <<shim, shims, local>>
    BY <1>2 DEF WsSend
  <2> HIDE DEF m
  <2>3. /\ EndsKnow(w) /\ toPhone' = toPhone /\ OpensFirst(toDaemon', w)
        /\ \A kind : UnderWay(toDaemon', w, kind) <=> UnderWay(toDaemon, w, kind) \/ kind = "ws_proxy_send"
    BY <1>a, <2>1
  <2> QED BY <2>2, <2>3 DEF EndsKnow
<1>3. CASE WsClose(w)
  <2> DEFINE m == Message("ws_proxy_close", w, 0)
  <2>1. m \in UpMessage /\ Send(m) /\ m.of = w /\ m.kind = "ws_proxy_close"
    BY <1>0, <1>3, FramesTyped DEF WsClose
  <2>2. /\ shim[w] \in {"connecting", "open"} /\ shim'[w] = "closed" /\ UNCHANGED <<shims, local>>
    BY <1>0, <1>3 DEF WsClose
  <2> HIDE DEF m
  <2>3. /\ EndsKnow(w) /\ toPhone' = toPhone /\ OpensFirst(toDaemon', w)
        /\ \A kind : UnderWay(toDaemon', w, kind) <=> UnderWay(toDaemon, w, kind) \/ kind = "ws_proxy_close"
    BY <1>a, <2>1
  <2> QED BY <2>2, <2>3 DEF EndsKnow
<1> QED BY <1>1, <1>2, <1>3

\* A message reaches the page.
LEMMA EndsPageHears ==
  ASSUME TypeOK, TypeOK', NEW w \in Wsid, EndsKnow(w), Rooted(w), shim[w] = "new" => NewSocket(w),
         DispatchToPage
  PROVE  EndsKnow(w)'
<1> USE DEF daemon, server
<1> DEFINE m == Head(toPhone)
<1>0. /\ toPhone \in Seq(DownMessage) /\ toDaemon \in Seq(UpMessage) /\ toPhone # <<>> /\ m \in DownMessage
      /\ toPhone' = Tail(toPhone) /\ toDaemon' = toDaemon /\ local' = local
      /\ shim \in [Wsid -> {"new", "connecting", "open", "closed", "dropped"}] /\ w \notin Req
  <2>1. /\ toPhone # <<>> /\ toPhone' = Tail(toPhone) /\ toDaemon' = toDaemon /\ local' = local
    BY DEF DispatchToPage
  <2> QED BY <2>1, IdAssumption, HeadTailProperties DEF TypeOK
<1>1. \/ m.kind \in {"ok", "failed", "ws_proxy_msg"} /\ UNCHANGED <<shim, shims>>
      \/ /\ m.kind = "ws_proxy_opened" /\ UNCHANGED shims
         /\ shim' = IF m.of \in shims THEN [shim EXCEPT ![m.of] = "open"] ELSE shim
      \/ /\ m.kind = "ws_proxy_close"
         /\ shim' = IF m.of \in shims THEN [shim EXCEPT ![m.of] = "closed"] ELSE shim
         /\ shims' = IF m.of \in shims THEN shims \ {m.of} ELSE shims
  BY DEF DispatchToPage
<1>2. m.kind \in {"ok", "failed"} => m.of \in Req
  BY <1>0, FrameKinds
<1> HIDE DEF m
<1>3. CASE m.of # w
  <2>1. SameFrames(toPhone, toPhone', w) /\ SameFrames(toDaemon, toDaemon', w)
    BY <1>0, <1>3, OthersHead, UnchangedFrames DEF m
  <2>2. shim'[w] = shim[w] /\ (w \in shims' => w \in shims)
    BY <1>0, <1>1, <1>3
  <2> QED BY <1>0, <2>1, <2>2, EndsQuiet
<1>4. CASE m.of = w
  <2>1. /\ \A kind : UnderWay(toPhone', w, kind) => UnderWay(toPhone, w, kind)
        /\ \A kind : UnderWay(toPhone, w, kind) /\ m.kind # kind => UnderWay(toPhone', w, kind)
        /\ UnderWay(toPhone, w, m.kind) /\ ~Untouched(toPhone, w)
        /\ ClosesLast(toPhone, w) => /\ ClosesLast(toPhone', w)
                                     /\ m.kind = "ws_proxy_opened" => UnderWay(toPhone', w, "ws_proxy_close")
    BY <1>0, <1>4, OwnHead DEF m
  <2>2. local[w] # "none" /\ local'[w] = local[w] /\ shim[w] # "new"
    BY <1>0, <2>1 DEF EndsKnow, NewSocket
  <2>3. CASE m.kind = "ws_proxy_msg"
    <3>1. UNCHANGED <<shim, shims>>
      BY <1>1, <2>3
    <3> QED BY <1>0, <2>1, <2>2, <2>3, <3>1 DEF EndsKnow
  <2>4. CASE m.kind = "ws_proxy_opened"
    <3>1. shims' = shims /\ shim'[w] = IF w \in shims THEN "open" ELSE shim[w]
      BY <1>0, <1>1, <1>4, <2>4
    <3>2. CASE w \in shims
      BY <1>0, <2>1, <2>2, <2>4, <3>1, <3>2 DEF EndsKnow
    <3>3. CASE w \notin shims
      BY <1>0, <2>1, <2>2, <2>4, <3>1, <3>3 DEF EndsKnow, Rooted
    <3> QED BY <3>2, <3>3
  <2>5. CASE m.kind = "ws_proxy_close"
    <3>1. shim'[w] = IF w \in shims THEN "closed" ELSE shim[w]
      BY <1>0, <1>1, <1>4, <2>5
    <3>2. w \notin shims'
      BY <1>1, <1>4, <2>5
    <3>3. local[w] \in {"ended", "closed"}
      BY <2>1, <2>5 DEF EndsKnow
    <3>4. shim'[w] \in {"closed", "dropped"}
      BY <1>0, <2>2, <3>1 DEF Rooted
    <3> QED BY <1>0, <2>1, <2>2, <3>2, <3>3, <3>4 DEF EndsKnow
  <2> QED BY <1>0, <1>1, <1>2, <1>4, <2>3, <2>4, <2>5
<1> QED BY <1>3, <1>4

\* A message reaches the daemon.
LEMMA EndsDaemonHears ==
  ASSUME TypeOK, TypeOK', NEW w \in Wsid, EndsKnow(w), Rooted(w), shim[w] = "new" => NewSocket(w),
         DispatchToServer
  PROVE  EndsKnow(w)'
<1> USE DEF phone
<1> DEFINE m == Head(toDaemon)
<1>0. /\ toPhone \in Seq(DownMessage) /\ toDaemon \in Seq(UpMessage) /\ toDaemon # <<>> /\ m \in UpMessage
      /\ toDaemon' = Tail(toDaemon) /\ toPhone' = toPhone /\ shim' = shim /\ shims' = shims
      /\ local \in [Wsid -> {"none", "connecting", "open", "closing", "failed", "ended", "closed"}]
      /\ w \notin Req
  <2>1. /\ toDaemon # <<>> /\ toDaemon' = Tail(toDaemon) /\ toPhone' = toPhone /\ UNCHANGED <<shim, shims>>
    BY DEF DispatchToServer
  <2> QED BY <2>1, IdAssumption, HeadTailProperties DEF TypeOK
<1>1. \/ m.kind \in {"http_proxy", "ws_proxy_send"} /\ UNCHANGED local
      \/ m.kind = "ws_proxy_open" /\ local' = [local EXCEPT ![m.of] = "connecting"]
      \/ /\ m.kind = "ws_proxy_close"
         /\ local' = IF m.of \in tunnels THEN [local EXCEPT ![m.of] = ClosedLocal(@)] ELSE local
  BY DEF DispatchToServer, ProxyClose
<1>2. m.kind = "http_proxy" => m.of \in Req
  BY <1>0, FrameKinds
<1> HIDE DEF m
<1>3. CASE m.of # w
  <2>1. SameFrames(toDaemon, toDaemon', w) /\ SameFrames(toPhone, toPhone', w)
    BY <1>0, <1>3, OthersHead, UnchangedFrames DEF m
  <2>2. local'[w] = local[w]
    BY <1>0, <1>1, <1>3
  <2> QED BY <1>0, <2>1, <2>2, EndsQuiet
<1>4. CASE m.of = w
  <2>1. /\ \A kind : UnderWay(toDaemon', w, kind) => UnderWay(toDaemon, w, kind)
        /\ \A kind : UnderWay(toDaemon, w, kind) /\ m.kind # kind => UnderWay(toDaemon', w, kind)
        /\ UnderWay(toDaemon, w, m.kind) /\ ~Untouched(toDaemon, w)
        /\ OpensFirst(toDaemon', w) /\ ~UnderWay(toDaemon', w, "ws_proxy_open")
        /\ m.kind # "ws_proxy_open" => ~UnderWay(toDaemon, w, "ws_proxy_open")
    BY <1>0, <1>4, OwnHead DEF m, EndsKnow
  <2>2. shim[w] # "new"
    BY <2>1 DEF NewSocket, Untouched
  <2>3. CASE m.kind = "ws_proxy_send"
    <3>1. local' = local
      BY <1>1, <2>3
    <3> QED BY <1>0, <2>1, <2>2, <2>3, <3>1 DEF EndsKnow
  <2>4. CASE m.kind = "ws_proxy_open"
    <3>1. local[w] = "none" /\ local'[w] = "connecting"
      BY <1>0, <1>1, <1>4, <2>1, <2>4 DEF EndsKnow
    <3>2. ~UnderWay(toPhone, w, "ws_proxy_close")
      BY <3>1 DEF EndsKnow, Untouched, UnderWay
    <3> QED BY <1>0, <2>1, <2>2, <2>4, <3>1, <3>2 DEF EndsKnow
  <2>5. CASE m.kind = "ws_proxy_close"
    <3>1. local[w] # "none"
      BY <2>1, <2>2, <2>5 DEF EndsKnow
    <3>2. local'[w] = IF w \in tunnels THEN ClosedLocal(local[w]) ELSE local[w]
      BY <1>0, <1>1, <1>4, <2>5
    <3>3. /\ local'[w] \in {"closing", "failed", "ended", "closed"}
          /\ local[w] = "connecting" => local'[w] = "failed"
          /\ local[w] \notin {"connecting", "open"} => local'[w] = local[w]
          /\ local[w] = "open" => local'[w] = "closing"
      BY <1>0, <3>1, <3>2 DEF Rooted, ClosedLocal
    <3> QED BY <1>0, <2>1, <2>2, <2>5, <3>1, <3>3 DEF EndsKnow
  <2> QED BY <1>0, <1>1, <1>2, <1>4, <2>3, <2>4, <2>5
<1> QED BY <1>3, <1>4

\* The daemon's own socket has an event.
LEMMA EndsLocalEvents ==
  ASSUME TypeOK, TypeOK', NEW w \in Wsid, w \notin lossy', w \notin lossy => EndsKnow(w),
         shim[w] = "new" => NewSocket(w),
         LocalOpen(w) \/ LocalMessage(w) \/ LocalFails(w) \/ LocalEnds(w) \/ LocalError(w) \/ LocalClose(w)
  PROVE  EndsKnow(w)'
<1> USE DEF phone, server
<1>0. /\ toPhone \in Seq(DownMessage) /\ sent[w] + 1 \in Nat
      /\ local \in [Wsid -> {"none", "connecting", "open", "closing", "failed", "ended", "closed"}]
      /\ \A kind, of, n : Message(kind, of, n).kind = kind /\ Message(kind, of, n).of = of
      /\ UNCHANGED <<shim, shims, toDaemon>> /\ shim[w] # "new"
  <2>1. UNCHANGED <<shim, shims, toDaemon>> /\ local[w] # "none"
    BY DEF LocalOpen, LocalMessage, LocalFails, LocalEnds, LocalError, LocalClose, net
  <2> QED BY <2>1 DEF TypeOK, Message, NewSocket
\* What an appended message changes.
<1>a. ASSUME NEW m \in DownMessage, SendToPeer(m), m.of = w
      PROVE  /\ EndsKnow(w)
             /\ \A kind : UnderWay(toPhone', w, kind) <=> UnderWay(toPhone, w, kind) \/ m.kind = kind
             /\ ClosesLast(toPhone, w) /\ m.kind # "ws_proxy_opened" => ClosesLast(toPhone', w)
             /\ m.kind = "ws_proxy_close" => ClosesLast(toPhone', w)
  <2>1. w \notin lossy /\ toPhone' = Append(toPhone, m)
    BY <1>a, ToldKept
  <2>2. toPhone \in Seq(DownMessage)
    BY <1>0
  <2>3. /\ \A kind : UnderWay(toPhone', w, kind) <=> UnderWay(toPhone, w, kind) \/ m.kind = kind
        /\ ClosesLast(toPhone, w) /\ m.kind # "ws_proxy_opened" => ClosesLast(toPhone', w)
        /\ m.kind = "ws_proxy_close" => ClosesLast(toPhone', w)
    BY <1>a, <2>1, <2>2, OwnFrame
  <2> QED BY <2>1, <2>3
<1>1. CASE LocalOpen(w)
  <2> DEFINE m == Message("ws_proxy_opened", w, 0)
  <2>1. m \in DownMessage /\ SendToPeer(m) /\ m.of = w /\ m.kind = "ws_proxy_opened"
    BY <1>0, <1>1, FramesTyped DEF LocalOpen
  <2>2. local[w] = "connecting" /\ local'[w] = "open"
    BY <1>0, <1>1 DEF LocalOpen
  <2> HIDE DEF m
  <2>3. /\ EndsKnow(w)
        /\ \A kind : UnderWay(toPhone', w, kind) <=> UnderWay(toPhone, w, kind) \/ kind = "ws_proxy_opened"
    BY <1>a, <2>1
  <2> QED BY <1>0, <2>2, <2>3 DEF EndsKnow
<1>2. CASE LocalMessage(w)
  <2> DEFINE m == Message("ws_proxy_msg", w, sent[w] + 1)
  <2>1. m \in DownMessage /\ SendToPeer(m) /\ m.of = w /\ m.kind = "ws_proxy_msg"
    BY <1>0, <1>2, FramesTyped DEF LocalMessage, Forwards
  <2>2. local[w] \in {"open", "closing"} /\ local' = local
    BY <1>2 DEF LocalMessage
  <2> HIDE DEF m
  <2>3. /\ EndsKnow(w)
        /\ \A kind : UnderWay(toPhone', w, kind) <=> UnderWay(toPhone, w, kind) \/ kind = "ws_proxy_msg"
    BY <1>a, <2>1
  <2> QED BY <1>0, <2>2, <2>3 DEF EndsKnow
<1>3. CASE LocalFails(w) \/ LocalEnds(w)
  <2>1. UNCHANGED <<toPhone, lossy>>
    BY <1>3 DEF LocalFails, LocalEnds, net
  <2>2. \/ local[w] \in {"connecting", "open"} /\ local'[w] = "failed"
        \/ local[w] \in {"open", "closing"} /\ local'[w] = "ended"
    BY <1>0, <1>3 DEF LocalFails, LocalEnds
  <2>3. EndsKnow(w)
    BY <2>1
  <2> QED BY <1>0, <2>1, <2>2, <2>3 DEF EndsKnow
<1>4. CASE LocalError(w) \/ LocalClose(w)
  <2> DEFINE m == Message("ws_proxy_close", w, 0)
  <2>1. m \in DownMessage /\ SendToPeer(m) /\ m.of = w /\ m.kind = "ws_proxy_close"
    BY <1>0, <1>4, FramesTyped DEF LocalError, LocalClose
  <2>2. \/ local[w] = "failed" /\ local'[w] = "ended"
        \/ local[w] = "ended" /\ local'[w] = "closed"
    BY <1>0, <1>4 DEF LocalError, LocalClose
  <2> HIDE DEF m
  <2>3. /\ EndsKnow(w) /\ ClosesLast(toPhone', w)
        /\ \A kind : UnderWay(toPhone', w, kind) <=> UnderWay(toPhone, w, kind) \/ kind = "ws_proxy_close"
    BY <1>a, <2>1
  <2> QED BY <1>0, <2>2, <2>3 DEF EndsKnow
<1> QED BY <1>1, <1>2, <1>3, <1>4

EndsRight(w) ==
    /\ shim[w] = "new" => NewSocket(w)
    /\ Rooted(w)
    /\ w \notin lossy => EndsKnow(w)

LEMMA EndsStep ==
  ASSUME TypeOK, [Next]_vars, NEW w \in Wsid, EndsRight(w), w \notin lossy'
  PROVE  EndsKnow(w)'
<1> DEFINE Goal == EndsKnow(w)'
<1> SUFFICES Goal
  OBVIOUS
<1> USE DEF phone, daemon, server
<1>0. /\ TypeOK' /\ toDaemon \in Seq(UpMessage) /\ toPhone \in Seq(DownMessage)
      /\ w \notin Req
      /\ \A kind, of, n : Message(kind, of, n).of = of
  BY TunnelTypeStep, IdAssumption DEF TypeOK, Message
<1>u. SameFrames(toDaemon, toDaemon, w) /\ SameFrames(toPhone, toPhone, w)
  BY <1>0, UnchangedFrames
<1>q. ASSUME w \notin lossy, shim'[w] = shim[w], local'[w] = local[w], w \in shims' => w \in shims,
             SameFrames(toDaemon, toDaemon', w), SameFrames(toPhone, toPhone', w)
      PROVE  Goal
  BY <1>0, <1>q, EndsQuiet DEF EndsRight
<1>1. ASSUME NEW q \in Wsid, OpenWebSocket(q) \/ WsSend(q) \/ WsClose(q) PROVE Goal
  <2>1. CASE q = w
    BY <1>0, <1>1, <2>1, EndsPageAsks DEF EndsRight
  <2>2. CASE q # w
    <3>1. PICK m \in UpMessage : Send(m) /\ m.of = q
      <4>1. said[q] + 1 \in Nat
        BY DEF TypeOK
      <4> QED BY <1>0, <1>1, <4>1, FramesTyped DEF OpenWebSocket, WsSend, WsClose
    <3>2. w \notin lossy /\ toPhone' = toPhone /\ SameFrames(toDaemon, toDaemon', w)
      BY <2>2, <3>1, SentKept
    <3>3. shim'[w] = shim[w] /\ local'[w] = local[w] /\ (w \in shims' => w \in shims)
      BY <1>1, <2>2 DEF OpenWebSocket, WsSend, WsClose, TypeOK
    <3> QED BY <1>q, <1>u, <3>2, <3>3
  <2> QED BY <2>1, <2>2
<1>2. CASE DispatchToPage
  <2>1. lossy' = lossy
    BY <1>2 DEF DispatchToPage
  <2> QED BY <1>0, <1>2, <2>1, EndsPageHears DEF EndsRight
<1>3. CASE DispatchToServer
  <2>1. lossy' = lossy
    BY <1>3 DEF DispatchToServer
  <2> QED BY <1>0, <1>3, <2>1, EndsDaemonHears DEF EndsRight
<1>4. CASE Reload
  <2>1. /\ UNCHANGED <<toDaemon, toPhone, lossy, local>> /\ shims' = {}
        /\ shim'[w] = IF shim[w] = "new" THEN "new" ELSE "dropped"
    BY <1>4 DEF Reload, net
  <2>2. EndsKnow(w)
    BY <2>1 DEF EndsRight
  <2> QED BY <2>1, <2>2 DEF EndsKnow
<1>5. CASE DropDaemonLink \/ CutPhone
  <2>1. (LoseDaemonSide \/ LosePhoneSide) /\ UNCHANGED <<shim, shims, local>>
    BY <1>5 DEF DropDaemonLink, CutPhone
  <2>2. w \notin lossy /\ SameFrames(toDaemon, toDaemon', w) /\ SameFrames(toPhone, toPhone', w)
    BY <2>1, SidesKept
  <2> QED BY <1>q, <2>1, <2>2
<1>6. CASE DiscardUp \/ DiscardDown
  <2>1. UNCHANGED <<shim, shims, local>> /\ w \notin lossy
    BY <1>6 DEF DiscardUp, DiscardDown
  <2>2. CASE DiscardUp
    <3>1. toDaemon # <<>> /\ toDaemon' = Tail(toDaemon) /\ Head(toDaemon).of # w /\ toPhone' = toPhone
      BY <2>2 DEF DiscardUp
    <3>2. SameFrames(toDaemon, toDaemon', w)
      BY <1>0, <3>1, OthersHead
    <3> QED BY <1>q, <1>u, <2>1, <3>1, <3>2
  <2>3. CASE DiscardDown
    <3>1. toPhone # <<>> /\ toPhone' = Tail(toPhone) /\ Head(toPhone).of # w /\ toDaemon' = toDaemon
      BY <2>3 DEF DiscardDown
    <3>2. SameFrames(toPhone, toPhone', w)
      BY <1>0, <3>1, OthersHead
    <3> QED BY <1>q, <1>u, <2>1, <3>1, <3>2
  <2> QED BY <1>6, <2>2, <2>3
<1>7. ASSUME NEW q \in Wsid, \/ LocalOpen(q) \/ LocalMessage(q) \/ LocalFails(q) \/ LocalEnds(q)
                             \/ LocalError(q) \/ LocalClose(q)
      PROVE  Goal
  <2>1. CASE q = w
    BY <1>0, <1>7, <2>1, EndsLocalEvents DEF EndsRight
  <2>2. CASE q # w
    <3>1. shim'[w] = shim[w] /\ local'[w] = local[w] /\ shims' = shims /\ toDaemon' = toDaemon
      BY <1>7, <2>2 DEF LocalOpen, LocalMessage, LocalFails, LocalEnds, LocalError, LocalClose, TypeOK, net
    <3>2. CASE LocalFails(q) \/ LocalEnds(q)
      <4>1. UNCHANGED <<toPhone, lossy>>
        BY <3>2 DEF LocalFails, LocalEnds, net
      <4> QED BY <1>q, <1>u, <3>1, <4>1
    <3>3. CASE LocalOpen(q) \/ LocalMessage(q) \/ LocalError(q) \/ LocalClose(q)
      <4>1. PICK m \in DownMessage : SendToPeer(m) /\ m.of = q
        <5>1. sent[q] + 1 \in Nat
          BY DEF TypeOK
        <5> QED BY <1>0, <3>3, <5>1, FramesTyped DEF LocalOpen, LocalMessage, Forwards, LocalError, LocalClose
      <4>2. w \notin lossy /\ SameFrames(toPhone, toPhone', w)
        BY <2>2, <4>1, ToldKept
      <4> QED BY <1>q, <1>u, <3>1, <4>2
    <3> QED BY <1>7, <3>2, <3>3
  <2> QED BY <2>1, <2>2
<1>8. ASSUME NEW r \in Req, Fetch(r) PROVE Goal
  <2>1. Message("http_proxy", r, 0) \in UpMessage /\ Send(Message("http_proxy", r, 0)) /\ r # w
    BY <1>0, <1>8, FramesTyped DEF Fetch
  <2>2. w \notin lossy /\ toPhone' = toPhone /\ SameFrames(toDaemon, toDaemon', w)
    BY <1>0, <2>1, SentKept
  <2>3. UNCHANGED <<shim, shims, local>>
    BY <1>8 DEF Fetch
  <2> QED BY <1>q, <1>u, <2>2, <2>3
<1>9. ASSUME NEW r \in Req, ProxyAnswer(r) PROVE Goal
  <2>1. PICK how \in {"ok", "failed"} : SendToPeer(Message(how, r, 0))
    BY <1>9 DEF ProxyAnswer
  <2>2. Message(how, r, 0) \in DownMessage /\ r # w
    BY <1>0, FramesTyped
  <2>3. w \notin lossy /\ SameFrames(toPhone, toPhone', w)
    BY <1>0, <2>1, <2>2, ToldKept
  <2>4. UNCHANGED <<shim, shims, local, toDaemon>>
    BY <1>9 DEF ProxyAnswer
  <2> QED BY <1>q, <1>u, <2>3, <2>4
<1>10. CASE \/ Activate \/ Reconnect \/ \E r \in Req : GiveUp(r) \/ ServerHandles(r)
            \/ UNCHANGED vars
  <2>1. UNCHANGED <<shim, shims, local, toDaemon, toPhone, lossy>>
    BY <1>10 DEF Activate, Reconnect, GiveUp, ServerHandles, net, vars
  <2> QED BY <1>q, <1>u, <2>1
<1> HIDE DEF Goal
<1> QED BY <1>1, <1>2, <1>3, <1>4, <1>5, <1>6, <1>7, <1>8, <1>9, <1>10 DEF Next

\* However the page, the relay, the daemon and its server take turns, while nothing
\* of a socket is lost and the page is not reloaded, no end waits for an answer or
\* a close that is not under way (src/web/transport-tunnel.ts, handleWsProxyOpen and
\* handleWsProxyClose of src/src/relay-client.ts).  That what is under way comes is
\* a matter of fairness, and of the run.
THEOREM NobodyDoesWaitInVain == Spec => []NobodyWaitsInVain
<1> DEFINE EndsInv == StreamInv /\ \A w \in Wsid : EndsRight(w)
<1>1. Init => EndsInv
  <2> SUFFICES ASSUME Init PROVE EndsInv
    OBVIOUS
  <2>1. StreamInv /\ DOMAIN toPhone = {} /\ DOMAIN toDaemon = {}
    BY StreamInvInit, EmptySeq DEF Init
  <2>2. ASSUME NEW w \in Wsid PROVE EndsRight(w)
    <3>1. shim[w] = "new" /\ local[w] = "none" /\ NewSocket(w)
      BY <2>1 DEF Init, NewSocket
    <3>2. Untouched(toPhone, w) /\ OpensFirst(toDaemon, w)
      BY <2>1 DEF Untouched, OpensFirst
    <3>3. /\ ~UnderWay(toDaemon, w, "ws_proxy_open") /\ ~UnderWay(toPhone, w, "ws_proxy_close")
      BY <2>1 DEF UnderWay
    <3> QED BY <3>1, <3>2, <3>3 DEF EndsRight, Rooted, EndsKnow
  <2> QED BY <2>1, <2>2
<1>2. EndsInv /\ [Next]_vars => EndsInv'
  <2> SUFFICES ASSUME EndsInv, [Next]_vars PROVE EndsInv'
    OBVIOUS
  <2>1. StreamInv' /\ TypeOK
    BY StreamInvStep DEF StreamInv
  <2>2. ASSUME NEW w \in Wsid PROVE EndsRight(w)'
    <3>1. shim'[w] = "new" => NewSocket(w)'
      BY <2>1 DEF StreamInv, SocketRight
    <3>2. Rooted(w)'
      BY <2>1, RootedStep DEF EndsRight
    <3>3. w \notin lossy' => EndsKnow(w)'
      BY <2>1, EndsStep
    <3> QED BY <3>1, <3>2, <3>3 DEF EndsRight
  <2> QED BY <2>1, <2>2
<1>3. EndsInv => NobodyWaitsInVain
  BY DEF EndsRight, EndsKnow, NobodyWaitsInVain, Settled
<1> QED BY <1>1, <1>2, <1>3, PTL DEF Spec

----------------------------------------------------------------------------
(* Recursive functions over the lines or blocks read so far: induction,    *)
(* for a set of numbers, and that a function so defined exists.            *)

LEMMA CountUp ==
  ASSUME NEW N \in Nat, NEW P, 0 \in P,
         \A n \in 0 .. N - 1 : n \in P => n + 1 \in P
  PROVE  \A n \in 0 .. N : n \in P
<1> DEFINE Bad == {n \in 0 .. N : n \notin P}
<1>1. SUFFICES ASSUME Bad # {} PROVE FALSE
  OBVIOUS
<1>2. Bad \subseteq Nat
  OBVIOUS
<1>3. PICK x \in Bad : \A y \in Bad : <<y, x>> \notin Below
  <2> HIDE DEF Bad
  <2> QED BY <1>1, <1>2, BelowWF, WFMin, Zenon
<1>4. x # 0 /\ x \in 1 .. N /\ x \notin P
  BY <1>3
<1>5. x - 1 \in 0 .. N - 1 /\ (x - 1) + 1 = x
  BY <1>4
<1>6. x - 1 \notin P
  BY <1>4, <1>5
<1>7. x - 1 \in Bad /\ <<x - 1, x>> \in Below
  BY <1>5, <1>6 DEF Below
<1> QED BY <1>3, <1>7

IsTable(step, N, S) == step \in [1 .. N -> [S -> S]]
IsRun(f, step, N, S, base) ==
    /\ f \in [0 .. N -> S]
    /\ f[0] = base
    /\ \A n \in 1 .. N : f[n] = step[n][f[n - 1]]

LEMMA RunExists ==
  ASSUME NEW S, NEW N \in Nat, NEW base \in S, NEW step, IsTable(step, N, S)
  PROVE  \E f : IsRun(f, step, N, S, base)
<1> USE DEF IsTable
<1> DEFINE Good(f, k) == f[0] = base /\ \A n \in 1 .. k : f[n] = step[n][f[n - 1]]
           P == {k \in 0 .. N : \E f \in [0 .. k -> S] : Good(f, k)}
<1>1. 0 \in P
  <2> DEFINE f == [n \in 0 .. 0 |-> base]
  <2>1. f \in [0 .. 0 -> S] /\ Good(f, 0)
    OBVIOUS
  <2>2. 0 \in 0 .. N
    OBVIOUS
  <2>3. \E h \in [0 .. 0 -> S] : Good(h, 0)
    <3> HIDE DEF f
    <3> QED BY <2>1
  <2> QED BY <2>2, <2>3
<1>2. ASSUME NEW k \in 0 .. N - 1, k \in P PROVE k + 1 \in P
  <2>1. PICK f \in [0 .. k -> S] : Good(f, k)
    BY <1>2
  <2> DEFINE g == [n \in 0 .. k + 1 |-> IF n = k + 1 THEN step[k + 1][f[k]] ELSE f[n]]
  <2>2. f[k] \in S /\ k + 1 \in 1 .. N /\ k + 1 \in 0 .. N
    BY <2>1
  <2>3. step[k + 1][f[k]] \in S
    BY <2>2
  <2>4. g \in [0 .. k + 1 -> S]
    BY <2>1, <2>3
  <2>5. g[0] = base
    BY <2>1
  <2>6. ASSUME NEW n \in 1 .. k + 1 PROVE g[n] = step[n][g[n - 1]]
    <3>1. CASE n = k + 1
      <4>1. n - 1 = k /\ g[k] = f[k]
        BY <3>1
      <4> QED BY <3>1, <4>1
    <3>2. CASE n # k + 1
      <4>1. n \in 1 .. k /\ n - 1 # k + 1 /\ n - 1 \in 0 .. k
        BY <3>2
      <4>2. g[n] = f[n] /\ g[n - 1] = f[n - 1]
        BY <4>1
      <4> QED BY <4>1, <4>2, <2>1
    <3> QED BY <3>1, <3>2
  <2>7. Good(g, k + 1)
    BY <2>5, <2>6
  <2>8. \E h \in [0 .. k + 1 -> S] : Good(h, k + 1)
    <3> HIDE DEF g, Good
    <3> QED BY <2>4, <2>7
  <2> QED BY <2>2, <2>8
<1>3. N \in P
  <2> HIDE DEF P
  <2>1. \A k \in 0 .. N - 1 : k \in P => k + 1 \in P
    BY <1>2
  <2>2. \A n \in 0 .. N : n \in P
    BY <1>1, <2>1, CountUp, Zenon
  <2> QED BY <2>2
<1>4. PICK f \in [0 .. N -> S] : Good(f, N)
  BY <1>3
<1> QED BY <1>4 DEF IsRun

Follows(f, step, N, S, base) ==
    /\ \E g : f = [n \in 0 .. N |-> g[n]]
    /\ f[0] = base
    /\ \A n \in 1 .. N : f[n - 1] \in S => f[n] = step[n][f[n - 1]]

\* A function that does what the table says keeps to its set.
LEMMA RunTyped ==
  ASSUME NEW S, NEW N \in Nat, NEW base \in S, NEW step, IsTable(step, N, S),
         NEW f, Follows(f, step, N, S, base)
  PROVE  IsRun(f, step, N, S, base)
<1> DEFINE P == {n \in 0 .. N : f[n] \in S}
<1>1. 0 \in P
  BY DEF Follows
<1>2. ASSUME NEW n \in 0 .. N - 1, n \in P PROVE n + 1 \in P
  <2>1. n + 1 \in 1 .. N /\ n + 1 \in 0 .. N /\ (n + 1) - 1 = n /\ f[n] \in S
    BY <1>2
  <2>2. f[n + 1] = step[n + 1][f[n]]
    BY <2>1 DEF Follows
  <2>3. step[n + 1][f[n]] \in S
    BY <2>1 DEF IsTable
  <2> QED BY <2>1, <2>2, <2>3
<1>3. \A n \in 0 .. N : n \in P
  <2> HIDE DEF P
  <2>1. \A n \in 0 .. N - 1 : n \in P => n + 1 \in P
    BY <1>2
  <2> QED BY <1>1, <2>1, CountUp, Zenon
<1>4. \A n \in 0 .. N : f[n] \in S
  BY <1>3
<1>5. PICK g : f = [n \in 0 .. N |-> g[n]]
  BY DEF Follows
<1>6. f \in [0 .. N -> S]
  BY <1>4, <1>5
<1> QED BY <1>4, <1>6 DEF IsRun, Follows

----------------------------------------------------------------------------
(* Sequences turned round.                                                 *)

LEMMA Turned ==
  ASSUME NEW T, NEW s \in Seq(T)
  PROVE  /\ Reverse(s) \in Seq(T)
         /\ Len(Reverse(s)) = Len(s)
         /\ \A i \in 1 .. Len(s) : Reverse(s)[i] = s[Len(s) - i + 1]
<1>1. Len(s) \in Nat
  OBVIOUS
<1>2. \A i \in 1 .. Len(s) : Len(s) - i + 1 \in 1 .. Len(s)
  BY <1>1
<1>3. \A i \in 1 .. Len(s) : s[Len(s) - i + 1] \in T
  BY <1>2, ElementOfSeq
<1>4. Reverse(s) = [i \in 1 .. Len(s) |-> s[Len(s) - i + 1]]
  BY DEF Reverse
<1> QED BY <1>1, <1>3, <1>4

LEMMA TurnedConcat ==
  ASSUME NEW T, NEW s \in Seq(T), NEW t \in Seq(T)
  PROVE  Reverse(s \o t) = Reverse(t) \o Reverse(s)
<1>1. PICK r \in Seq(T) : r = s \o t
  BY ConcatProperties
<1>2. PICK ss \in Seq(T) : ss = Reverse(s)
  BY Turned
<1>3. PICK tt \in Seq(T) : tt = Reverse(t)
  BY Turned
<1>4. PICK a \in Seq(T) : a = Reverse(r)
  BY Turned
<1>5. PICK b \in Seq(T) : b = tt \o ss
  BY ConcatProperties
<1>6. PICK m \in Nat : m = Len(s)
  OBVIOUS
<1>7. PICK n \in Nat : n = Len(t)
  OBVIOUS
<1>8. Len(r) = m + n /\ \A i \in 1 .. m + n : r[i] = IF i <= m THEN s[i] ELSE t[i - m]
  BY <1>1, <1>6, <1>7, ConcatProperties
<1>9. Len(ss) = m /\ \A i \in 1 .. m : ss[i] = s[m - i + 1]
  BY <1>2, <1>6, Turned
<1>10. Len(tt) = n /\ \A i \in 1 .. n : tt[i] = t[n - i + 1]
  BY <1>3, <1>7, Turned
<1>11. Len(a) = m + n /\ \A i \in 1 .. m + n : a[i] = r[m + n - i + 1]
  <2>1. Len(a) = Len(r) /\ \A i \in 1 .. Len(r) : a[i] = r[Len(r) - i + 1]
    BY <1>4, Turned
  <2> QED BY <1>8, <2>1
<1>12. Len(b) = n + m /\ \A i \in 1 .. n + m : b[i] = IF i <= n THEN tt[i] ELSE ss[i - n]
  <2>1. /\ Len(b) = Len(tt) + Len(ss)
        /\ \A i \in 1 .. Len(tt) + Len(ss) :
                b[i] = IF i <= Len(tt) THEN tt[i] ELSE ss[i - Len(tt)]
    BY <1>5, ConcatProperties
  <2> QED BY <1>9, <1>10, <2>1
<1>13. ASSUME NEW i \in 1 .. m + n PROVE a[i] = b[i]
  <2>1. m + n - i + 1 \in 1 .. m + n /\ n + m = m + n
    OBVIOUS
  <2>2. CASE i <= n
    <3>1. /\ ~(m + n - i + 1 <= m) /\ (m + n - i + 1) - m = n - i + 1 /\ i \in 1 .. n
      BY <2>2
    <3>2. a[i] = t[(m + n - i + 1) - m]
      BY <1>8, <1>11, <2>1, <3>1
    <3>3. b[i] = tt[i] /\ tt[i] = t[n - i + 1]
      BY <1>10, <1>12, <2>1, <2>2, <3>1
    <3> QED BY <3>1, <3>2, <3>3
  <2>3. CASE ~(i <= n)
    <3>1. m + n - i + 1 <= m /\ m + n - i + 1 = m - (i - n) + 1 /\ i - n \in 1 .. m
      BY <2>3
    <3>2. a[i] = s[m + n - i + 1]
      BY <1>8, <1>11, <2>1, <3>1
    <3>3. b[i] = ss[i - n] /\ ss[i - n] = s[m - (i - n) + 1]
      BY <1>9, <1>12, <2>1, <2>3, <3>1
    <3> QED BY <3>1, <3>2, <3>3
  <2> QED BY <2>2, <2>3
<1>14. a = b
  <2>1. Len(a) = Len(b)
    BY <1>11, <1>12
  <2>2. \A i \in 1 .. Len(a) : a[i] = b[i]
    BY <1>11, <1>13
  <2> QED BY <2>1, <2>2, SeqEqual
<1> QED BY <1>1, <1>2, <1>3, <1>4, <1>5, <1>14

\* The first k of a sequence, turned round, are the last k of it turned round.
LEMMA TurnedEnd ==
  ASSUME NEW T, NEW s \in Seq(T), NEW k \in 0 .. Len(s)
  PROVE  Reverse(SubSeq(s, 1, k)) = SubSeq(Reverse(s), Len(s) - k + 1, Len(s))
<1> DEFINE n == Len(s)
           c == SubSeq(s, 1, k)
           a == Reverse(c)
           b == SubSeq(Reverse(s), n - k + 1, n)
<1>1. n \in Nat /\ k \in Nat /\ k <= n
  OBVIOUS
<1>2. c \in Seq(T) /\ Len(c) = k /\ \A i \in 1 .. k : c[i] = s[i]
  BY <1>1, SubSeqProperties, ElementOfSeq
<1>3. a \in Seq(T) /\ Len(a) = k /\ \A i \in 1 .. k : a[i] = c[k - i + 1]
  <2> HIDE DEF c
  <2>1. /\ a \in Seq(T) /\ Len(a) = Len(c)
        /\ \A i \in 1 .. Len(c) : a[i] = c[Len(c) - i + 1]
    BY <1>2, Turned
  <2> QED BY <1>2, <2>1
<1>4. /\ Reverse(s) \in Seq(T) /\ Len(Reverse(s)) = n
      /\ \A i \in 1 .. n : Reverse(s)[i] = s[n - i + 1]
  BY Turned
<1>5. /\ b \in Seq(T) /\ Len(b) = k
      /\ \A i \in 1 .. k : b[i] = Reverse(s)[n - k + i]
  <2>1. n - k + 1 \in Int /\ n \in Int
    BY <1>1
  <2>2. \A i \in n - k + 1 .. n : i \in 1 .. n
    BY <1>1
  <2>3. \A i \in n - k + 1 .. n : Reverse(s)[i] \in T
    <3> HIDE DEF n
    <3> QED BY <1>4, <2>2, ElementOfSeq
  <2>4. /\ b \in Seq(T)
        /\ Len(b) = IF n - k + 1 <= n THEN n - (n - k + 1) + 1 ELSE 0
        /\ \A i \in 1 .. n - (n - k + 1) + 1 : b[i] = Reverse(s)[(n - k + 1) + i - 1]
    <3> HIDE DEF n
    <3> QED BY <2>1, <2>3, SubSeqProperties
  <2>5. n - (n - k + 1) + 1 = k /\ \A i \in 1 .. k : (n - k + 1) + i - 1 = n - k + i
    BY <1>1
  <2>6. Len(b) = k
    <3> HIDE DEF n, b
    <3> QED BY <1>1, <2>4
  <2> HIDE DEF n, b
  <2> QED BY <2>4, <2>5, <2>6
<1>6. \A i \in 1 .. k : a[i] = b[i]
  <2> SUFFICES ASSUME NEW i \in 1 .. k PROVE a[i] = b[i]
    OBVIOUS
  <2>1. k - i + 1 \in 1 .. k /\ n - k + i \in 1 .. n /\ n - (n - k + i) + 1 = k - i + 1
    BY <1>1
  <2> HIDE DEF a, b, c, n
  <2>2. a[i] = c[k - i + 1] /\ c[k - i + 1] = s[k - i + 1]
    BY <1>2, <1>3, <2>1
  <2>3. b[i] = Reverse(s)[n - k + i]
    BY <1>5
  <2>4. Reverse(s)[n - k + i] = s[n - (n - k + i) + 1]
    BY <1>4, <2>1
  <2> QED BY <2>1, <2>2, <2>3, <2>4
<1>7. a = b
  <2> HIDE DEF a, b, c, n
  <2> QED BY <1>3, <1>5, <1>6, SeqEqual
<1> QED BY <1>7

\* The last k of a sequence are the last k of its end.
LEMMA EndOfEnd ==
  ASSUME NEW T, NEW p \in Seq(T), NEW q \in Seq(T), NEW k \in 0 .. Len(q)
  PROVE  SubSeq(p \o q, Len(p \o q) - k + 1, Len(p \o q))
            = SubSeq(q, Len(q) - k + 1, Len(q))
<1> DEFINE m == Len(p)
           n == Len(q)
<1>1. m \in Nat /\ n \in Nat /\ k \in Nat /\ k <= n /\ Len(p \o q) = m + n
  BY ConcatProperties
<1>2. CASE k = 0
  <2>1. /\ m + n - k + 1 \in Int /\ m + n \in Int /\ m + n < m + n - k + 1
        /\ n - k + 1 \in Int /\ n \in Int /\ n < n - k + 1
    BY <1>1, <1>2
  <2>2. SubSeq(p \o q, m + n - k + 1, m + n) = <<>>
    <3> HIDE DEF m, n
    <3> QED BY <2>1, SubSeqEmpty
  <2>3. SubSeq(q, n - k + 1, n) = <<>>
    <3> HIDE DEF m, n
    <3> QED BY <2>1, SubSeqEmpty
  <2> QED BY <1>1, <2>2, <2>3
<1>3. CASE k # 0
  <2>1. /\ m + n - k + 1 \in m + 1 .. m + n /\ m + n \in m + 1 .. m + n
        /\ (m + n - k + 1) - m = n - k + 1 /\ (m + n) - m = n
    BY <1>1, <1>3
  <2>2. SubSeq(p \o q, m + n - k + 1, m + n) = SubSeq(q, (m + n - k + 1) - m, (m + n) - m)
    BY <2>1, SubSeqOfConcat2
  <2> QED BY <1>1, <2>1, <2>2
<1> QED BY <1>2, <1>3

----------------------------------------------------------------------------
(* A message of Claude's, block by block.                                  *)

TurnSet ==
    [line : Nat, block : Nat, role : {"user", "assistant", "system"},
     what : {"text", "use", "result", "image", "command", "stdout"}, images : BOOLEAN]

Acc == [turns : Seq(TurnSet), attached : BOOLEAN]

IsMessage(l) == IsClaudeLine(l) /\ l.kind = "message"

LEMMA TurnTyped ==
  ASSUME NEW i \in Nat, NEW b \in Nat, NEW x \in BOOLEAN,
         NEW role \in {"user", "assistant", "system"},
         NEW what \in {"text", "use", "result", "image", "command", "stdout"}
  PROVE  /\ Turn(i, b, role, what) \in TurnSet
         /\ [Turn(i, b, role, what) EXCEPT !.images = x]
                = [line |-> i, block |-> b, role |-> role, what |-> what, images |-> x]
         /\ [Turn(i, b, role, what) EXCEPT !.images = x] \in TurnSet
BY DEF Turn, TurnSet

LEMMA MessageTyped ==
  ASSUME NEW l, IsMessage(l)
  PROVE  /\ l.role \in {"user", "assistant"}
         /\ RoleOf(l) \in {"user", "assistant", "system"}
         /\ Len(l.blocks) \in Nat
         /\ DOMAIN l.blocks = 1 .. Len(l.blocks)
         /\ \A b \in 1 .. Len(l.blocks) :
                l.blocks[b] \in {"text", "blank", "holder", "use", "result", "image"}
         /\ ImageIn(l) \in BOOLEAN
<1>1. l.blocks \in Seq({"text", "blank", "holder", "use", "result", "image"})
  BY DEF IsMessage, IsClaudeLine
<1>2. l.role \in {"user", "assistant"}
  BY DEF IsMessage, IsClaudeLine
<1>3. RoleOf(l) \in {"user", "assistant", "system"}
  BY <1>2 DEF RoleOf
<1>4. ImageIn(l) \in BOOLEAN
  BY DEF ImageIn, Contains
<1> QED BY <1>1, <1>2, <1>3, <1>4

LEMMA PushTyped ==
  ASSUME NEW l, IsMessage(l), NEW i \in Nat, NEW b \in 1 .. Len(l.blocks), NEW acc \in Acc
  PROVE  PushBlock(i, l, b, acc) \in Acc
<1>1. b \in Nat /\ l.blocks[b] \in {"text", "blank", "holder", "use", "result", "image"}
  BY MessageTyped
<1>2. acc.turns \in Seq(TurnSet) /\ acc.attached \in BOOLEAN
  BY DEF Acc
<1>3. CASE l.blocks[b] \in {"text", "holder"}
  <2> DEFINE x == ImageIn(l) /\ ~acc.attached
             t == [Turn(i, b, RoleOf(l), "text") EXCEPT !.images = x]
  <2>1. x \in BOOLEAN
    OBVIOUS
  <2>2. t \in TurnSet
    <3> HIDE DEF x
    <3>1. RoleOf(l) \in {"user", "assistant", "system"}
      BY MessageTyped
    <3> QED BY <1>1, <2>1, <3>1, TurnTyped
  <2>3. PushBlock(i, l, b, acc)
          = [turns |-> Append(acc.turns, t), attached |-> acc.attached \/ ImageIn(l)]
    BY <1>3 DEF PushBlock
  <2> HIDE DEF t, x
  <2>4. Append(acc.turns, t) \in Seq(TurnSet)
    BY <1>2, <2>2, AppendProperties
  <2>5. (acc.attached \/ ImageIn(l)) \in BOOLEAN
    OBVIOUS
  <2> QED BY <2>3, <2>4, <2>5 DEF Acc
<1>4. CASE l.blocks[b] \in {"use", "result"}
  <2> DEFINE t == Turn(i, b, l.role, l.blocks[b])
  <2>1. t \in TurnSet
    <3>1. l.blocks[b] \in {"text", "use", "result", "image", "command", "stdout"}
      BY <1>4
    <3>2. l.role \in {"user", "assistant", "system"}
      BY MessageTyped
    <3> QED BY <1>1, <3>1, <3>2, TurnTyped
  <2>2. PushBlock(i, l, b, acc) = [acc EXCEPT !.turns = Append(acc.turns, t)]
    BY <1>4 DEF PushBlock
  <2> HIDE DEF t
  <2>3. Append(acc.turns, t) \in Seq(TurnSet)
    BY <1>2, <2>1, AppendProperties
  <2> QED BY <2>2, <2>3 DEF Acc
<1>5. CASE l.blocks[b] \in {"blank", "image"}
  BY <1>5 DEF PushBlock
<1> QED BY <1>1, <1>3, <1>4, <1>5

\* What reading the blocks from the last leaves, block after block.
LEMMA PushedSteps ==
  ASSUME NEW l, IsMessage(l), NEW i \in Nat
  PROVE  \E f \in [0 .. Len(l.blocks) -> Acc] :
            /\ f[0] = NoneYet
            /\ \A n \in 1 .. Len(l.blocks) :
                    f[n] = PushBlock(i, l, Len(l.blocks) - n + 1, f[n - 1])
            /\ PushedBlocks(i, l) = f[Len(l.blocks)]
<1> DEFINE size == Len(l.blocks)
           pushed[n \in 0 .. size] ==
               IF n = 0 THEN NoneYet ELSE PushBlock(i, l, size - n + 1, pushed[n - 1])
           step == [n \in 1 .. size |-> [acc \in Acc |-> PushBlock(i, l, size - n + 1, acc)]]
<1>1. size \in Nat
  BY MessageTyped
<1>2. \A n \in 1 .. size : size - n + 1 \in 1 .. size
  BY <1>1
<1>3. step \in [1 .. size -> [Acc -> Acc]]
  BY <1>2, PushTyped
<1>4. NoneYet \in Acc
  BY EmptySeq DEF NoneYet, Acc
<1>5. PICK f : IsRun(f, step, size, Acc, NoneYet)
  <2>1. IsTable(step, size, Acc)
    BY <1>3 DEF IsTable
  <2> HIDE DEF size, step
  <2> QED BY <1>1, <1>4, <2>1, RunExists, Zenon
<1>6. ASSUME NEW n \in 0 .. size, n # 0
      PROVE  f[n] = PushBlock(i, l, size - n + 1, f[n - 1])
  <2> HIDE DEF size
  <2>1. n \in 1 .. size /\ n - 1 \in 0 .. size
    BY <1>1, <1>6
  <2>2. f[n - 1] \in Acc
    BY <1>5, <2>1 DEF IsRun
  <2> QED BY <1>5, <2>1, <2>2 DEF IsRun
<1>7. f = [n \in 0 .. size |->
              IF n = 0 THEN NoneYet ELSE PushBlock(i, l, size - n + 1, f[n - 1])]
  <2>1. f[0] = NoneYet /\ f \in [0 .. size -> Acc]
    BY <1>5 DEF IsRun
  <2> HIDE DEF size, step
  <2> QED BY <1>6, <2>1
<1>8. pushed = [n \in 0 .. size |->
              IF n = 0 THEN NoneYet ELSE PushBlock(i, l, size - n + 1, pushed[n - 1])]
  <2> HIDE DEF size
  <2> QED BY <1>7
<1>9. PushedBlocks(i, l) = pushed[size]
  BY DEF PushedBlocks
<1> HIDE DEF pushed
<1>10. pushed[0] = NoneYet /\ DOMAIN pushed = 0 .. size
  BY <1>1, <1>8
<1>11. \A n \in 1 .. size : pushed[n] = PushBlock(i, l, size - n + 1, pushed[n - 1])
  <2> HIDE DEF size
  <2> QED BY <1>1, <1>8
<1>12. ASSUME NEW n \in 1 .. size, pushed[n - 1] \in Acc
       PROVE  pushed[n] = step[n][pushed[n - 1]]
  <2> HIDE DEF size
  <2> QED BY <1>11, <1>12
<1>13. pushed \in [0 .. size -> Acc]
  <2>1. IsTable(step, size, Acc)
    BY <1>3 DEF IsTable
  <2> HIDE DEF size, step
  <2>2. \E g : pushed = [n \in 0 .. size |-> g[n]]
    BY <1>8
  <2>3. Follows(pushed, step, size, Acc, NoneYet)
    BY <1>10, <1>12, <2>2 DEF Follows
  <2>4. IsRun(pushed, step, size, Acc, NoneYet)
    BY <1>1, <1>4, <2>1, <2>3, RunTyped, Zenon
  <2> QED BY <2>4 DEF IsRun
<1> HIDE DEF step, size
<1> QED BY <1>9, <1>10, <1>11, <1>13 DEF size

LEMMA SaidIs ==
  ASSUME NEW l, IsMessage(l), NEW b \in 1 .. Len(l.blocks)
  PROVE  b \in Said(l) <=> l.blocks[b] \in {"text", "holder"}
BY MessageTyped DEF Said

LEMMA ShownTyped ==
  ASSUME NEW l, IsMessage(l), NEW i \in Nat, NEW b \in 1 .. Len(l.blocks),
         l.blocks[b] \in {"text", "holder", "use", "result"}
  PROVE  BlockShown(i, l, b) \in TurnSet
<1>1. b \in Nat
  BY MessageTyped
<1>2. CASE b \in Said(l)
  <2> DEFINE x == ImageIn(l) /\ \A c \in Said(l) : c <= b
  <2>1. x \in BOOLEAN
    OBVIOUS
  <2>2. RoleOf(l) \in {"user", "assistant", "system"}
    BY MessageTyped
  <2>3. [Turn(i, b, RoleOf(l), "text") EXCEPT !.images = x] \in TurnSet
    <3> HIDE DEF x
    <3> QED BY <1>1, <2>1, <2>2, TurnTyped
  <2> QED BY <1>2, <2>3 DEF BlockShown
<1>3. CASE b \notin Said(l)
  <2>1. l.blocks[b] \in {"text", "use", "result", "image", "command", "stdout"}
    BY <1>3, SaidIs
  <2>2. l.role \in {"user", "assistant", "system"}
    BY MessageTyped
  <2>3. Turn(i, b, l.role, l.blocks[b]) \in TurnSet
    BY <1>1, <2>1, <2>2, TurnTyped
  <2> QED BY <1>3, <2>3 DEF BlockShown
<1> QED BY <1>2, <1>3

LEMMA WithTyped ==
  ASSUME NEW l, IsMessage(l), NEW i \in Nat, NEW b \in 1 .. Len(l.blocks),
         NEW turns \in Seq(TurnSet)
  PROVE  WithBlock(i, l, b, turns) \in Seq(TurnSet)
<1>1. CASE l.blocks[b] \in {"text", "holder", "use", "result"}
  <2>1. BlockShown(i, l, b) \in TurnSet
    BY <1>1, ShownTyped
  <2> QED BY <1>1, <2>1, AppendProperties DEF WithBlock
<1>2. CASE l.blocks[b] \notin {"text", "holder", "use", "result"}
  BY <1>2 DEF WithBlock
<1> QED BY <1>1, <1>2

\* The turn of images that stand alone.
Alone(i, l) == [Turn(i, 0, RoleOf(l), "image") EXCEPT !.images = TRUE]

LEMMA AloneTyped ==
  ASSUME NEW l, IsMessage(l), NEW i \in Nat
  PROVE  /\ Alone(i, l) \in TurnSet
         /\ ImagesAlone(i, l) \in Seq(TurnSet)
         /\ ImagesAlone(i, l) = IF ImageIn(l) /\ Said(l) = {} THEN <<Alone(i, l)>> ELSE <<>>
<1>1. RoleOf(l) \in {"user", "assistant", "system"}
  BY MessageTyped
<1>2. Alone(i, l) \in TurnSet
  BY <1>1, TurnTyped DEF Alone
<1>3. <<Alone(i, l)>> \in Seq(TurnSet) /\ <<>> \in Seq(TurnSet)
  BY <1>2
<1> QED BY <1>2, <1>3 DEF ImagesAlone, Alone

\* What telling the blocks from the first leaves, block after block.
LEMMA ToldSteps ==
  ASSUME NEW l, IsMessage(l), NEW i \in Nat, l.form = "blocks", ~l.synthetic
  PROVE  \E f \in [0 .. Len(l.blocks) -> Seq(TurnSet)] :
            /\ f[0] = ImagesAlone(i, l)
            /\ \A n \in 1 .. Len(l.blocks) : f[n] = WithBlock(i, l, n, f[n - 1])
            /\ InOrderOf(i, l) = f[Len(l.blocks)]
<1> DEFINE size == Len(l.blocks)
           base == ImagesAlone(i, l)
           S == Seq(TurnSet)
           tells[b \in 0 .. size] ==
               IF b = 0 THEN ImagesAlone(i, l) ELSE WithBlock(i, l, b, tells[b - 1])
           step == [n \in 1 .. size |-> [turns \in S |-> WithBlock(i, l, n, turns)]]
<1>1. size \in Nat
  BY MessageTyped
<1>2. IsTable(step, size, S)
  BY WithTyped DEF IsTable
<1>3. base \in S
  BY AloneTyped
<1>4. PICK f : IsRun(f, step, size, S, base)
  <2> HIDE DEF size, step, S, base
  <2> QED BY <1>1, <1>2, <1>3, RunExists, Zenon
<1>5. ASSUME NEW n \in 0 .. size, n # 0
      PROVE  f[n] = WithBlock(i, l, n, f[n - 1])
  <2> HIDE DEF size, S
  <2>1. n \in 1 .. size /\ n - 1 \in 0 .. size
    BY <1>1, <1>5
  <2>2. f[n - 1] \in S
    BY <1>4, <2>1 DEF IsRun
  <2> QED BY <1>4, <2>1, <2>2 DEF IsRun
<1>6. f = [b \in 0 .. size |->
              IF b = 0 THEN ImagesAlone(i, l) ELSE WithBlock(i, l, b, f[b - 1])]
  <2>1. f[0] = ImagesAlone(i, l) /\ f \in [0 .. size -> S]
    BY <1>4 DEF IsRun
  <2> HIDE DEF size, step, S
  <2> QED BY <1>5, <2>1
<1>7. tells = [b \in 0 .. size |->
              IF b = 0 THEN ImagesAlone(i, l) ELSE WithBlock(i, l, b, tells[b - 1])]
  <2> HIDE DEF size
  <2> QED BY <1>6
<1>8. InOrderOf(i, l) = tells[size]
  BY DEF InOrderOf, IsMessage
<1> HIDE DEF tells
<1>9. tells[0] = base
  BY <1>1, <1>7
<1>10. \A n \in 1 .. size : tells[n] = WithBlock(i, l, n, tells[n - 1])
  <2> HIDE DEF size
  <2> QED BY <1>1, <1>7
<1>11. ASSUME NEW n \in 1 .. size, tells[n - 1] \in S
       PROVE  tells[n] = step[n][tells[n - 1]]
  <2> HIDE DEF size, S
  <2> QED BY <1>10, <1>11
<1>12. tells \in [0 .. size -> S]
  <2> HIDE DEF size, step, S, base
  <2>1. \E g : tells = [n \in 0 .. size |-> g[n]]
    BY <1>7
  <2>2. Follows(tells, step, size, S, base)
    BY <1>9, <1>11, <2>1 DEF Follows
  <2>3. IsRun(tells, step, size, S, base)
    BY <1>1, <1>2, <1>3, <2>2, RunTyped, Zenon
  <2> QED BY <2>3 DEF IsRun
<1> HIDE DEF step, size
<1> QED BY <1>8, <1>9, <1>10, <1>12 DEF size

LEMMA MoveOne ==
  ASSUME NEW T, NEW u \in Seq(T), NEW r \in Seq(T), NEW x \in T
  PROVE  Append(u, x) \o Reverse(r) = u \o Reverse(Append(r, x))
<1>1. <<x>> \in Seq(T) /\ Append(u, x) = u \o <<x>> /\ Append(r, x) = r \o <<x>>
  BY AppendIsConcat
<1>2. Reverse(<<x>>) = <<x>>
  <2>1. Len(<<x>>) = 1 /\ <<x>>[1] = x
    OBVIOUS
  <2>2. Reverse(<<x>>) \in Seq(T) /\ Len(Reverse(<<x>>)) = 1 /\ Reverse(<<x>>)[1] = x
    BY <1>1, <2>1 DEF Reverse
  <2> QED BY <1>1, <2>1, <2>2, SeqEqual
<1>3. Reverse(r) \in Seq(T)
  BY Turned
<1>4. Reverse(r \o <<x>>) = <<x>> \o Reverse(r)
  BY <1>1, <1>2, TurnedConcat
<1>5. (u \o <<x>>) \o Reverse(r) = u \o (<<x>> \o Reverse(r))
  BY <1>1, <1>3, ConcatAssociative
<1> QED BY <1>1, <1>4, <1>5

\* One block: tells from the first or pushed from the last, it adds the same
\* turn at the same place.
LEMMA BlockAgrees ==
  ASSUME NEW l, IsMessage(l), NEW i \in Nat, NEW b \in 1 .. Len(l.blocks),
         NEW acc \in Acc, NEW turns \in Seq(TurnSet),
         acc.attached <=> ImageIn(l) /\ \E c \in Said(l) : c > b
  PROVE  /\ WithBlock(i, l, b, turns) \o Reverse(acc.turns)
                = turns \o Reverse(PushBlock(i, l, b, acc).turns)
         /\ PushBlock(i, l, b, acc).attached <=> ImageIn(l) /\ \E c \in Said(l) : c > b - 1
<1>0. /\ b \in Nat /\ \A c \in Said(l) : c \in Nat
      /\ acc.turns \in Seq(TurnSet) /\ acc.attached \in BOOLEAN
      /\ l.blocks[b] \in {"text", "blank", "holder", "use", "result", "image"}
  BY MessageTyped DEF Said, Acc
<1>1. CASE l.blocks[b] \in {"text", "holder"}
  <2> DEFINE x == ImageIn(l) /\ ~acc.attached
             y == ImageIn(l) /\ \A c \in Said(l) : c <= b
             t == [Turn(i, b, RoleOf(l), "text") EXCEPT !.images = x]
  <2>1. b \in Said(l)
    BY <1>1, SaidIs
  <2>2. x = y
    BY <1>0
  <2>3. BlockShown(i, l, b) = t
    <3>1. BlockShown(i, l, b) = [Turn(i, b, RoleOf(l), "text") EXCEPT !.images = y]
      BY <2>1 DEF BlockShown
    <3> HIDE DEF x, y
    <3> QED BY <2>2, <3>1
  <2>4. PushBlock(i, l, b, acc)
          = [turns |-> Append(acc.turns, t), attached |-> acc.attached \/ ImageIn(l)]
    BY <1>1 DEF PushBlock
  <2> HIDE DEF t, x, y
  <2>5. t \in TurnSet
    BY <1>1, <2>3, ShownTyped
  <2>6. WithBlock(i, l, b, turns) = Append(turns, t)
    BY <1>1, <2>3 DEF WithBlock
  <2>7. Append(turns, t) \o Reverse(acc.turns) = turns \o Reverse(Append(acc.turns, t))
    BY <1>0, <2>5, MoveOne
  <2>8. b > b - 1
    BY <1>0
  <2>9. \E c \in Said(l) : c > b - 1
    BY <2>1, <2>8
  <2>10. PushBlock(i, l, b, acc).turns = Append(acc.turns, t)
         /\ PushBlock(i, l, b, acc).attached = (acc.attached \/ ImageIn(l))
    BY <2>4
  <2>11. (acc.attached \/ ImageIn(l)) <=> ImageIn(l)
    OBVIOUS
  <2>12. PushBlock(i, l, b, acc).attached <=> ImageIn(l)
    BY <2>10, <2>11, Zenon
  <2> QED BY <2>6, <2>7, <2>9, <2>10, <2>12
<1>2. CASE l.blocks[b] \notin {"text", "holder"}
  <2>1. b \notin Said(l)
    BY <1>2, SaidIs
  <2>2. (\E c \in Said(l) : c > b - 1) <=> (\E c \in Said(l) : c > b)
    <3>1. \A c \in Said(l) : c > b - 1 <=> c > b
      BY <1>0, <2>1
    <3> QED BY <3>1
  <2>3. CASE l.blocks[b] \in {"use", "result"}
    <3> DEFINE t == Turn(i, b, l.role, l.blocks[b])
    <3>1. BlockShown(i, l, b) = t
      BY <2>1 DEF BlockShown
    <3>2. PushBlock(i, l, b, acc) = [acc EXCEPT !.turns = Append(acc.turns, t)]
      BY <2>3 DEF PushBlock
    <3> HIDE DEF t
    <3>3. t \in TurnSet
      BY <2>3, <3>1, ShownTyped
    <3>4. WithBlock(i, l, b, turns) = Append(turns, t)
      BY <2>3, <3>1 DEF WithBlock
    <3>5. Append(turns, t) \o Reverse(acc.turns) = turns \o Reverse(Append(acc.turns, t))
      BY <1>0, <3>3, MoveOne
    <3>6. PushBlock(i, l, b, acc).turns = Append(acc.turns, t)
          /\ PushBlock(i, l, b, acc).attached = acc.attached
      BY <3>2 DEF Acc
    <3> QED BY <2>2, <3>4, <3>5, <3>6
  <2>4. CASE l.blocks[b] \in {"blank", "image"}
    <3>1. PushBlock(i, l, b, acc) = acc
      BY <2>4 DEF PushBlock
    <3>2. WithBlock(i, l, b, turns) = turns
      BY <2>4 DEF WithBlock
    <3> QED BY <2>2, <3>1, <3>2
  <2> QED BY <1>0, <1>2, <2>3, <2>4
<1> QED BY <1>1, <1>2

\* A message of blocks, read backwards and turned round, is the message tells
\* forwards.
LEMMA BlocksAgree ==
  ASSUME NEW l, IsMessage(l), NEW i \in Nat, l.form = "blocks", ~l.synthetic
  PROVE  /\ BlockTurns(i, l) \in Seq(TurnSet)
         /\ InOrderOf(i, l) \in Seq(TurnSet)
         /\ Reverse(BlockTurns(i, l)) = InOrderOf(i, l)
<1> DEFINE size == Len(l.blocks)
<1>1. size \in Nat
  BY MessageTyped
<1>2. PICK p \in [0 .. size -> Acc] :
            /\ p[0] = NoneYet
            /\ \A n \in 1 .. size : p[n] = PushBlock(i, l, size - n + 1, p[n - 1])
            /\ PushedBlocks(i, l) = p[size]
  BY PushedSteps
<1>3. PICK t \in [0 .. size -> Seq(TurnSet)] :
            /\ t[0] = ImagesAlone(i, l)
            /\ \A n \in 1 .. size : t[n] = WithBlock(i, l, n, t[n - 1])
            /\ InOrderOf(i, l) = t[size]
  BY ToldSteps
<1> DEFINE Agree(n) == /\ t[size] = t[size - n] \o Reverse(p[n].turns)
                       /\ p[n].attached <=> ImageIn(l) /\ \E c \in Said(l) : c > size - n
           P == {n \in 0 .. size : Agree(n)}
<1>4. 0 \in P
  <2>1. p[0].turns = <<>> /\ p[0].attached = FALSE
    BY <1>2 DEF NoneYet
  <2>2. Reverse(<<>>) = <<>>
    <3>1. <<>> \in Seq(TurnSet) /\ Len(<<>>) = 0
      OBVIOUS
    <3> QED BY <3>1, Turned
  <2>3. t[size] \in Seq(TurnSet) /\ size - 0 = size
    BY <1>1, <1>3
  <2>4. t[size] \o <<>> = t[size]
    BY <2>3, ConcatEmptySeq
  <2>5. ~\E c \in Said(l) : c > size
    BY <1>1, MessageTyped DEF Said
  <2>6. 0 \in 0 .. size
    BY <1>1
  <2> HIDE DEF size
  <2>7. Agree(0)
    BY <2>1, <2>2, <2>3, <2>4, <2>5
  <2> QED BY <2>6, <2>7
<1>5. ASSUME NEW n \in 0 .. size - 1, n \in P PROVE n + 1 \in P
  <2> DEFINE b == size - n
  <2>1. /\ n \in 0 .. size /\ n + 1 \in 1 .. size /\ n + 1 \in 0 .. size /\ (n + 1) - 1 = n
        /\ b \in 1 .. size /\ b - 1 \in 0 .. size
        /\ size - (n + 1) = b - 1 /\ size - (n + 1) + 1 = b
    BY <1>1
  <2>2. p[n + 1] = PushBlock(i, l, b, p[n])
    BY <1>2, <2>1
  <2>3. t[b] = WithBlock(i, l, b, t[b - 1])
    BY <1>3, <2>1
  <2>4. Agree(n)
    BY <1>5
  <2>5. p[n] \in Acc /\ t[b - 1] \in Seq(TurnSet)
    BY <1>2, <1>3, <2>1
  <2>6. /\ WithBlock(i, l, b, t[b - 1]) \o Reverse(p[n].turns)
                = t[b - 1] \o Reverse(PushBlock(i, l, b, p[n]).turns)
        /\ PushBlock(i, l, b, p[n]).attached <=> ImageIn(l) /\ \E c \in Said(l) : c > b - 1
    <3>1. p[n].attached <=> ImageIn(l) /\ \E c \in Said(l) : c > b
      BY <2>4
    <3>2. PICK acc \in Acc : acc = p[n]
      BY <2>5
    <3>3. PICK turns \in Seq(TurnSet) : turns = t[b - 1]
      BY <2>5
    <3>4. b \in 1 .. Len(l.blocks)
      BY <2>1
    <3> HIDE DEF b, Agree, P, size
    <3>5. acc.attached <=> ImageIn(l) /\ \E c \in Said(l) : c > b
      BY <3>1, <3>2
    <3> QED BY <3>2, <3>3, <3>4, <3>5, BlockAgrees
  <2>7. t[size] = t[b] \o Reverse(p[n].turns)
    BY <2>4
  <2> HIDE DEF b, size
  <2>8. Agree(n + 1)
    BY <2>1, <2>2, <2>3, <2>6, <2>7
  <2> QED BY <2>1, <2>8
<1>6. Agree(size)
  <2> HIDE DEF P, size
  <2>1. \A n \in 0 .. size - 1 : n \in P => n + 1 \in P
    BY <1>5
  <2>2. \A n \in 0 .. size : n \in P
    BY <1>1, <1>4, <2>1, CountUp, Zenon
  <2>3. size \in 0 .. size
    BY <1>1
  <2>4. size \in P
    BY <2>2, <2>3
  <2> QED BY <2>4, Zenon DEF P
<1>7. t[size] = ImagesAlone(i, l) \o Reverse(p[size].turns)
  <2>1. size - size = 0
    BY <1>1
  <2> HIDE DEF size
  <2> QED BY <1>3, <1>6, <2>1
<1>8. p[size].attached <=> ImageIn(l) /\ Said(l) # {}
  <2>1. \A c \in Said(l) : c > size - size
    BY <1>1, MessageTyped DEF Said
  <2> QED BY <1>6, <2>1
<1>9. p[size].turns \in Seq(TurnSet) /\ t[size] \in Seq(TurnSet)
  <2> HIDE DEF size
  <2>1. size \in 0 .. size
    BY <1>1
  <2>2. p[size] \in Acc /\ t[size] \in Seq(TurnSet)
    BY <2>1
  <2> QED BY <2>2 DEF Acc
<1> HIDE DEF size
<1>10. BlockTurns(i, l) \in Seq(TurnSet) /\ Reverse(BlockTurns(i, l)) = t[size]
  <2>1. CASE ImageIn(l) /\ Said(l) = {}
    <3>1. BlockTurns(i, l) = Append(p[size].turns, Alone(i, l))
      BY <1>2, <1>8, <2>1 DEF BlockTurns, Alone
    <3>2. ImagesAlone(i, l) = <<Alone(i, l)>> /\ Alone(i, l) \in TurnSet
      BY <2>1, AloneTyped
    <3>3. /\ <<>> \in Seq(TurnSet)
          /\ Append(<<>>, Alone(i, l)) = <<Alone(i, l)>>
      BY <3>2
    <3>4. Append(<<>>, Alone(i, l)) \o Reverse(p[size].turns)
            = <<>> \o Reverse(Append(p[size].turns, Alone(i, l)))
      <4>1. PICK u \in Seq(TurnSet) : u = <<>>
        BY <3>3
      <4>2. PICK r \in Seq(TurnSet) : r = p[size].turns
        BY <1>9
      <4>3. PICK x \in TurnSet : x = Alone(i, l)
        BY <3>2
      <4>4. Append(u, x) \o Reverse(r) = u \o Reverse(Append(r, x))
        BY MoveOne
      <4> QED BY <4>1, <4>2, <4>3, <4>4
    <3>5. Append(p[size].turns, Alone(i, l)) \in Seq(TurnSet)
      BY <1>9, <3>2, AppendProperties
    <3>6. Reverse(BlockTurns(i, l)) \in Seq(TurnSet)
      BY <3>1, <3>5, Turned
    <3>7. <<>> \o Reverse(BlockTurns(i, l)) = Reverse(BlockTurns(i, l))
      BY <3>6, ConcatEmptySeq
    <3> QED BY <1>7, <3>1, <3>2, <3>3, <3>4, <3>5, <3>7
  <2>2. CASE ~(ImageIn(l) /\ Said(l) = {})
    <3>1. BlockTurns(i, l) = p[size].turns
      BY <1>2, <1>8, <2>2 DEF BlockTurns
    <3>2. ImagesAlone(i, l) = <<>>
      BY <2>2, AloneTyped
    <3>3. Reverse(p[size].turns) \in Seq(TurnSet)
      BY <1>9, Turned
    <3>4. <<>> \o Reverse(p[size].turns) = Reverse(p[size].turns)
      BY <3>3, ConcatEmptySeq
    <3> QED BY <1>7, <1>9, <3>1, <3>2, <3>4
  <2> QED BY <2>1, <2>2
<1> QED BY <1>3, <1>9, <1>10

----------------------------------------------------------------------------
(* What a line shows, as a set of turns.                                   *)

LEMMA RangeOfConcat ==
  ASSUME NEW T, NEW s \in Seq(T), NEW t \in Seq(T)
  PROVE  Range(s \o t) = Range(s) \cup Range(t)
<1>1. PICK m \in Nat : m = Len(s) /\ DOMAIN s = 1 .. m
  OBVIOUS
<1>2. PICK n \in Nat : n = Len(t) /\ DOMAIN t = 1 .. n
  OBVIOUS
<1>3. PICK r \in Seq(T) : r = s \o t
  BY ConcatProperties
<1>4. /\ Len(r) = m + n /\ DOMAIN r = 1 .. m + n
      /\ \A i \in 1 .. m + n : r[i] = IF i <= m THEN s[i] ELSE t[i - m]
  <2>1. /\ Len(r) = Len(s) + Len(t)
        /\ \A i \in 1 .. Len(s) + Len(t) : r[i] = IF i <= Len(s) THEN s[i] ELSE t[i - Len(s)]
    BY <1>3, ConcatProperties
  <2>2. DOMAIN r = 1 .. Len(r)
    OBVIOUS
  <2> QED BY <1>1, <1>2, <2>1, <2>2
<1>5. ASSUME NEW i \in 1 .. m + n PROVE r[i] \in Range(s) \cup Range(t)
  <2>1. CASE i <= m
    <3>1. i \in 1 .. m /\ r[i] = s[i]
      BY <1>4, <2>1
    <3> QED BY <1>1, <3>1 DEF Range
  <2>2. CASE ~(i <= m)
    <3>1. i - m \in 1 .. n /\ r[i] = t[i - m]
      BY <1>4, <2>2
    <3> QED BY <1>2, <3>1 DEF Range
  <2> QED BY <2>1, <2>2
<1>6. ASSUME NEW i \in 1 .. m PROVE s[i] \in Range(r)
  <2>1. i \in 1 .. m + n /\ i <= m
    OBVIOUS
  <2>2. r[i] = s[i]
    BY <1>4, <2>1
  <2> QED BY <1>4, <2>1, <2>2 DEF Range
<1>7. ASSUME NEW i \in 1 .. n PROVE t[i] \in Range(r)
  <2>1. m + i \in 1 .. m + n /\ ~(m + i <= m) /\ (m + i) - m = i
    OBVIOUS
  <2>2. r[m + i] = t[i]
    BY <1>4, <2>1
  <2> QED BY <1>4, <2>1, <2>2 DEF Range
<1>8. Range(r) = {r[i] : i \in 1 .. m + n}
  BY <1>4 DEF Range
<1>9. Range(s) = {s[i] : i \in 1 .. m} /\ Range(t) = {t[i] : i \in 1 .. n}
  BY <1>1, <1>2 DEF Range
<1> QED BY <1>3, <1>5, <1>6, <1>7, <1>8, <1>9

LEMMA RangeOfAppend ==
  ASSUME NEW T, NEW s \in Seq(T), NEW x \in T
  PROVE  Range(Append(s, x)) = Range(s) \cup {x}
<1>1. <<x>> \in Seq(T) /\ Append(s, x) = s \o <<x>>
  BY AppendIsConcat
<1>2. Range(<<x>>) = {x}
  BY DEF Range
<1>3. PICK o \in Seq(T) : o = <<x>>
  BY <1>1
<1>4. Range(s \o o) = Range(s) \cup Range(o)
  BY RangeOfConcat
<1> QED BY <1>1, <1>2, <1>3, <1>4

\* The turns of a message of blocks.
Shows(l) == {b \in 1 .. Len(l.blocks) : l.blocks[b] \in {"text", "holder", "use", "result"}}

LEMMA MessageShows ==
  ASSUME NEW l, IsMessage(l), NEW i \in Nat, l.form = "blocks", ~l.synthetic
  PROVE  Range(InOrderOf(i, l))
            = Range(ImagesAlone(i, l)) \cup {BlockShown(i, l, b) : b \in Shows(l)}
<1>1. PICK size \in Nat : size = Len(l.blocks)
  BY MessageTyped
<1>2. PICK t \in [0 .. size -> Seq(TurnSet)] :
            /\ t[0] = ImagesAlone(i, l)
            /\ \A n \in 1 .. size : t[n] = WithBlock(i, l, n, t[n - 1])
            /\ InOrderOf(i, l) = t[size]
  BY <1>1, ToldSteps
<1> DEFINE Some(n) == {b \in Shows(l) : b <= n}
           P == {n \in 0 .. size : Range(t[n]) = Range(t[0]) \cup {BlockShown(i, l, b) : b \in Some(n)}}
<1>3. 0 \in P
  <2>1. Some(0) = {}
    BY <1>1 DEF Shows
  <2> QED BY <2>1
<1>4. ASSUME NEW n \in 0 .. size - 1, n \in P PROVE n + 1 \in P
  <2>1. n + 1 \in 1 .. size /\ n + 1 \in 0 .. size /\ n \in 0 .. size /\ (n + 1) - 1 = n
    OBVIOUS
  <2>2. t[n + 1] = WithBlock(i, l, n + 1, t[n]) /\ t[n] \in Seq(TurnSet)
    BY <1>2, <2>1
  <2>3. Range(t[n]) = Range(t[0]) \cup {BlockShown(i, l, b) : b \in Some(n)}
    BY <1>4
  <2>4. CASE n + 1 \in Shows(l)
    <3>1. l.blocks[n + 1] \in {"text", "holder", "use", "result"}
      BY <2>4 DEF Shows
    <3>2. BlockShown(i, l, n + 1) \in TurnSet
      BY <1>1, <2>1, <3>1, ShownTyped
    <3>3. t[n + 1] = Append(t[n], BlockShown(i, l, n + 1))
      BY <2>2, <3>1 DEF WithBlock
    <3>4. Range(t[n + 1]) = Range(t[n]) \cup {BlockShown(i, l, n + 1)}
      <4>1. PICK s \in Seq(TurnSet) : s = t[n]
        BY <2>2
      <4>2. PICK x \in TurnSet : x = BlockShown(i, l, n + 1)
        BY <3>2
      <4>3. Range(Append(s, x)) = Range(s) \cup {x}
        BY RangeOfAppend
      <4> QED BY <3>3, <4>1, <4>2, <4>3
    <3>5. Some(n + 1) = Some(n) \cup {n + 1}
      BY <1>1, <2>1, <2>4 DEF Shows
    <3> HIDE DEF Some
    <3>6. Range(t[n + 1]) = Range(t[0]) \cup {BlockShown(i, l, b) : b \in Some(n + 1)}
      BY <2>3, <3>4, <3>5
    <3> QED BY <2>1, <3>6 DEF Some
  <2>5. CASE n + 1 \notin Shows(l)
    <3>1. l.blocks[n + 1] \notin {"text", "holder", "use", "result"}
      BY <1>1, <2>1, <2>5 DEF Shows
    <3>2. t[n + 1] = t[n]
      BY <2>2, <3>1 DEF WithBlock
    <3>3. Some(n + 1) = Some(n)
      BY <1>1, <2>1, <2>5 DEF Shows
    <3> HIDE DEF Some
    <3>4. Range(t[n + 1]) = Range(t[0]) \cup {BlockShown(i, l, b) : b \in Some(n + 1)}
      BY <2>3, <3>2, <3>3
    <3> QED BY <2>1, <3>4 DEF Some
  <2> QED BY <2>4, <2>5
<1>5. size \in P
  <2> HIDE DEF P
  <2>1. \A n \in 0 .. size - 1 : n \in P => n + 1 \in P
    BY <1>4
  <2>2. \A n \in 0 .. size : n \in P
    BY <1>3, <2>1, CountUp, Zenon
  <2> QED BY <2>2
<1>6. Some(size) = Shows(l)
  BY <1>1 DEF Shows
<1>7. Range(t[size]) = Range(t[0]) \cup {BlockShown(i, l, b) : b \in Some(size)}
  BY <1>5
<1> HIDE DEF Some
<1> QED BY <1>2, <1>6, <1>7

LEMMA ShownFields ==
  ASSUME NEW l, IsMessage(l), NEW i \in Nat, NEW b \in Shows(l)
  PROVE  /\ BlockShown(i, l, b).line = i
         /\ b \in Said(l) => /\ BlockShown(i, l, b).role = RoleOf(l)
                             /\ BlockShown(i, l, b).what = "text"
         /\ b \notin Said(l) => /\ BlockShown(i, l, b).role = l.role
                                /\ BlockShown(i, l, b).what = l.blocks[b]
                                /\ l.blocks[b] \in {"use", "result"}
<1>1. b \in 1 .. Len(l.blocks) /\ l.blocks[b] \in {"text", "holder", "use", "result"}
  BY DEF Shows
<1>2. CASE b \in Said(l)
  <2> DEFINE x == ImageIn(l) /\ \A c \in Said(l) : c <= b
  <2>1. BlockShown(i, l, b) = [Turn(i, b, RoleOf(l), "text") EXCEPT !.images = x]
    BY <1>2 DEF BlockShown
  <2> HIDE DEF x
  <2> QED BY <1>2, <2>1 DEF Turn
<1>3. CASE b \notin Said(l)
  <2>1. BlockShown(i, l, b) = Turn(i, b, l.role, l.blocks[b])
    BY <1>3 DEF BlockShown
  <2>2. l.blocks[b] \in {"use", "result"}
    BY <1>1, <1>3, SaidIs
  <2> QED BY <1>3, <2>1, <2>2 DEF Turn
<1> QED BY <1>2, <1>3

LEMMA AloneFields ==
  ASSUME NEW l, IsMessage(l), NEW i \in Nat, NEW t \in Range(ImagesAlone(i, l))
  PROVE  t.line = i /\ t.what = "image"
<1>1. Alone(i, l).line = i /\ Alone(i, l).what = "image"
  BY DEF Alone, Turn
<1>2. CASE ImageIn(l) /\ Said(l) = {}
  <2>1. ImagesAlone(i, l) = <<Alone(i, l)>>
    BY <1>2, AloneTyped
  <2>2. Range(<<Alone(i, l)>>) = {Alone(i, l)}
    BY DEF Range
  <2> QED BY <1>1, <2>1, <2>2
<1>3. CASE ~(ImageIn(l) /\ Said(l) = {})
  <2>1. ImagesAlone(i, l) = <<>>
    BY <1>3, AloneTyped
  <2>2. Range(<<>>) = {}
    BY DEF Range
  <2> QED BY <2>1, <2>2
<1> QED BY <1>2, <1>3

SaidKinds == {"text", "command", "stdout"}
IsBlocks(l) == IsMessage(l) /\ l.form = "blocks" /\ ~l.synthetic

\* A message of blocks: each reader's rule, and the turns it shows.
LEMMA BlocksShow ==
  ASSUME NEW l, IsBlocks(l), NEW i \in Nat
  PROVE  /\ \A t \in Range(InOrderOf(i, l)) : t.line = i
         /\ \A role \in {"user", "assistant"} :
                (\E t \in Range(InOrderOf(i, l)) : t.role = role /\ t.what \in SaidKinds)
                    <=> Said(l) # {} /\ RoleOf(l) = role
         /\ (\E t \in Range(InOrderOf(i, l)) : t.what = "use") <=> Contains(l.blocks, "use")
         /\ (\E t \in Range(InOrderOf(i, l)) : t.what = "text") <=> Said(l) # {}
<1> DEFINE R == Range(InOrderOf(i, l))
           A == Range(ImagesAlone(i, l))
           B == {BlockShown(i, l, b) : b \in Shows(l)}
<1>1. R = A \cup B
  BY MessageShows DEF IsBlocks
<1>2. IsMessage(l)
  BY DEF IsBlocks
<1>3. \A t \in A : t.line = i /\ t.what = "image"
  BY <1>2, AloneFields
<1>4. \A b \in Shows(l) :
         /\ BlockShown(i, l, b).line = i
         /\ b \in Said(l) => /\ BlockShown(i, l, b).role = RoleOf(l)
                             /\ BlockShown(i, l, b).what = "text"
         /\ b \notin Said(l) => /\ BlockShown(i, l, b).role = l.role
                                /\ BlockShown(i, l, b).what = l.blocks[b]
                                /\ l.blocks[b] \in {"use", "result"}
  BY <1>2, ShownFields
<1>5. Said(l) \subseteq Shows(l)
  BY <1>2, MessageTyped DEF Said, Shows
<1>6. \A t \in R : t.line = i
  BY <1>1, <1>3, <1>4
<1>7. ASSUME NEW role \in {"user", "assistant"}
      PROVE  (\E t \in R : t.role = role /\ t.what \in SaidKinds)
                    <=> Said(l) # {} /\ RoleOf(l) = role
  <2>1. ASSUME NEW t \in R, t.role = role, t.what \in SaidKinds
        PROVE  Said(l) # {} /\ RoleOf(l) = role
    <3>1. t \in B
      BY <1>1, <1>3, <2>1 DEF SaidKinds
    <3>2. PICK b \in Shows(l) : t = BlockShown(i, l, b)
      BY <3>1
    <3>3. b \in Said(l)
      BY <1>4, <2>1, <3>2 DEF SaidKinds
    <3> QED BY <1>4, <2>1, <3>2, <3>3
  <2>2. ASSUME Said(l) # {}, RoleOf(l) = role
        PROVE  \E t \in R : t.role = role /\ t.what \in SaidKinds
    <3>1. PICK b \in Said(l) : TRUE
      BY <2>2
    <3>2. BlockShown(i, l, b) \in B
      BY <1>5, <3>1
    <3> QED BY <1>1, <1>4, <1>5, <2>2, <3>1, <3>2 DEF SaidKinds
  <2> QED BY <2>1, <2>2
<1>8. (\E t \in R : t.what = "use") <=> Contains(l.blocks, "use")
  <2>1. ASSUME NEW t \in R, t.what = "use"
        PROVE  Contains(l.blocks, "use")
    <3>1. t \in B
      BY <1>1, <1>3, <2>1
    <3>2. PICK b \in Shows(l) : t = BlockShown(i, l, b)
      BY <3>1
    <3>3. l.blocks[b] = "use"
      BY <1>4, <2>1, <3>2
    <3> QED BY <3>3 DEF Contains, Shows
  <2>2. ASSUME Contains(l.blocks, "use")
        PROVE  \E t \in R : t.what = "use"
    <3>1. PICK b \in 1 .. Len(l.blocks) : l.blocks[b] = "use"
      BY <2>2 DEF Contains
    <3>2. b \in Shows(l) /\ b \notin Said(l)
      BY <3>1 DEF Shows, Said
    <3> QED BY <1>1, <1>4, <3>1, <3>2
  <2> QED BY <2>1, <2>2
<1>9. (\E t \in R : t.what = "text") <=> Said(l) # {}
  <2>1. ASSUME NEW t \in R, t.what = "text"
        PROVE  Said(l) # {}
    <3>1. t \in B
      BY <1>1, <1>3, <2>1
    <3>2. PICK b \in Shows(l) : t = BlockShown(i, l, b)
      BY <3>1
    <3> QED BY <1>4, <2>1, <3>2
  <2>2. ASSUME Said(l) # {}
        PROVE  \E t \in R : t.what = "text"
    <3>1. PICK b \in Said(l) : TRUE
      BY <2>2
    <3> QED BY <1>1, <1>4, <1>5, <3>1
  <2> QED BY <2>1, <2>2
<1> HIDE DEF A, B
<1> QED BY <1>6, <1>7, <1>8, <1>9

LEMMA OneTurn ==
  ASSUME NEW t \in TurnSet
  PROVE  /\ <<t>> \in Seq(TurnSet) /\ <<>> \in Seq(TurnSet)
         /\ Reverse(<<t>>) = <<t>> /\ Reverse(<<>>) = <<>>
         /\ Range(<<t>>) = {t} /\ Range(<<>>) = {}
<1>1. PICK s \in Seq(TurnSet) : s = <<t>> /\ Len(s) = 1 /\ s[1] = t
  <2>1. <<t>> \in Seq(TurnSet) /\ Len(<<t>>) = 1 /\ <<t>>[1] = t
    OBVIOUS
  <2> QED BY <2>1, Zenon
<1>2. PICK e \in Seq(TurnSet) : e = <<>> /\ Len(e) = 0
  BY EmptySeq, Zenon
<1>3. Reverse(s) = s
  <2>1. /\ Reverse(s) \in Seq(TurnSet) /\ Len(Reverse(s)) = Len(s)
        /\ \A i \in 1 .. Len(s) : Reverse(s)[i] = s[Len(s) - i + 1]
    BY Turned
  <2>2. \A i \in 1 .. Len(s) : Reverse(s)[i] = s[i]
    BY <1>1, <2>1
  <2> QED BY <2>1, <2>2, SeqEqual
<1>4. Reverse(e) = e
  <2>1. Reverse(e) \in Seq(TurnSet) /\ Len(Reverse(e)) = Len(e)
    BY Turned
  <2> QED BY <1>2, <2>1
<1>5. Range(<<t>>) = {t} /\ Range(<<>>) = {}
  BY DEF Range
<1> QED BY <1>1, <1>2, <1>3, <1>4, <1>5

\* The lines of Claude that are not messages of blocks show one turn or none.
Plain(i, l) ==
    CASE l.kind = "command" -> {Turn(i, 0, "user", "command")}
      [] l.kind = "stdout" -> {Turn(i, 0, "assistant", "stdout")}
      [] l.kind = "message" /\ ~l.synthetic /\ l.form = "string" /\ l.blocks = <<"text">> ->
            {Turn(i, 1, RoleOf(l), "text")}
      [] OTHER -> {}

LEMMA PlainTurns ==
  ASSUME NEW l, IsClaudeLine(l), ~IsBlocks(l), NEW i \in Nat
  PROVE  /\ ClaudeTurns(i, l) \in Seq(TurnSet)
         /\ Reverse(ClaudeTurns(i, l)) = ClaudeTurns(i, l)
         /\ InOrderOf(i, l) = ClaudeTurns(i, l)
         /\ Range(ClaudeTurns(i, l)) = Plain(i, l)
<1>1. InOrderOf(i, l) = ClaudeTurns(i, l)
  BY DEF InOrderOf, IsBlocks, IsMessage
<1>2. <<>> \in Seq(TurnSet) /\ Reverse(<<>>) = <<>> /\ Range(<<>>) = {}
  <2>1. Turn(i, 0, "user", "command") \in TurnSet
    BY TurnTyped
  <2> QED BY <2>1, OneTurn
<1>3. CASE l.kind = "command"
  <2>1. ClaudeTurns(i, l) = <<Turn(i, 0, "user", "command")>>
        /\ Plain(i, l) = {Turn(i, 0, "user", "command")}
    BY <1>3 DEF ClaudeTurns, Plain
  <2>2. Turn(i, 0, "user", "command") \in TurnSet
    BY TurnTyped
  <2> QED BY <1>1, <2>1, <2>2, OneTurn
<1>4. CASE l.kind = "stdout"
  <2>1. ClaudeTurns(i, l) = <<Turn(i, 0, "assistant", "stdout")>>
        /\ Plain(i, l) = {Turn(i, 0, "assistant", "stdout")}
    BY <1>4 DEF ClaudeTurns, Plain
  <2>2. Turn(i, 0, "assistant", "stdout") \in TurnSet
    BY TurnTyped
  <2> QED BY <1>1, <2>1, <2>2, OneTurn
<1>5. CASE l.kind = "message" /\ ~l.synthetic /\ l.form = "string" /\ l.blocks = <<"text">>
  <2>1. ClaudeTurns(i, l) = <<Turn(i, 1, RoleOf(l), "text")>>
        /\ Plain(i, l) = {Turn(i, 1, RoleOf(l), "text")}
    BY <1>5 DEF ClaudeTurns, Plain
  <2>2. RoleOf(l) \in {"user", "assistant", "system"}
    BY <1>5, MessageTyped DEF IsMessage
  <2>3. Turn(i, 1, RoleOf(l), "text") \in TurnSet
    BY <2>2, TurnTyped
  <2> QED BY <1>1, <2>1, <2>3, OneTurn
<1>6. CASE /\ l.kind # "command" /\ l.kind # "stdout"
           /\ ~(l.kind = "message" /\ ~l.synthetic /\ l.form = "string" /\ l.blocks = <<"text">>)
  <2>1. ~(l.kind = "message" /\ ~l.synthetic /\ l.form = "blocks")
    BY DEF IsBlocks, IsMessage
  <2>2. ClaudeTurns(i, l) = <<>> /\ Plain(i, l) = {}
    BY <1>6, <2>1 DEF ClaudeTurns, Plain
  <2> QED BY <1>1, <1>2, <2>2
<1> QED BY <1>3, <1>4, <1>5, <1>6

LEMMA ClaudeTurnsRight ==
  ASSUME NEW l, IsClaudeLine(l), NEW i \in Nat
  PROVE  /\ ClaudeTurns(i, l) \in Seq(TurnSet)
         /\ Reverse(ClaudeTurns(i, l)) = InOrderOf(i, l)
<1>1. CASE IsBlocks(l)
  <2>1. ClaudeTurns(i, l) = BlockTurns(i, l)
    BY <1>1 DEF IsBlocks, IsMessage, ClaudeTurns
  <2> QED BY <1>1, <2>1, BlocksAgree DEF IsBlocks
<1>2. CASE ~IsBlocks(l)
  BY <1>2, PlainTurns
<1> QED BY <1>1, <1>2

\* What each reader's rule says of a line of Claude is what the turns of that
\* line say.
LEMMA ClaudeShows ==
  ASSUME NEW l, IsClaudeLine(l), NEW i \in Nat
  PROVE  /\ \A t \in Range(InOrderOf(i, l)) : t.line = i
         /\ \A role \in {"user", "assistant"} :
                ClaudeCard(role, l) <=>
                    /\ \E t \in Range(InOrderOf(i, l)) : t.role = role /\ t.what \in SaidKinds
                    /\ ~(l.kind = "message" /\ OnlyHolder(l))
         /\ ClaudeCard("tool", l) <=> \E t \in Range(InOrderOf(i, l)) : t.what = "use"
         /\ SaysOrActs(l) <=> \E t \in Range(InOrderOf(i, l)) : t.what \in {"text", "use"}
<1> DEFINE R == Range(InOrderOf(i, l))
<1>1. CASE IsBlocks(l)
  <2>1. /\ \A t \in R : t.line = i
        /\ \A role \in {"user", "assistant"} :
                (\E t \in R : t.role = role /\ t.what \in SaidKinds)
                    <=> Said(l) # {} /\ RoleOf(l) = role
        /\ (\E t \in R : t.what = "use") <=> Contains(l.blocks, "use")
        /\ (\E t \in R : t.what = "text") <=> Said(l) # {}
    BY <1>1, BlocksShow
  <2>2. /\ l.kind = "message" /\ l.form = "blocks" /\ ~l.synthetic
        /\ l.role \in {"user", "assistant"}
        /\ Contains(l.blocks, "use") => l.role = "assistant"
    BY <1>1 DEF IsBlocks, IsMessage, IsClaudeLine
  <2> HIDE DEF R
  <2>3. ClaudeCard("user", l) <=> l.role = "user" /\ ~NamesNothing(l) /\ ~IsInjected(l)
    BY <2>2 DEF ClaudeCard, ByUser
  <2>4. ClaudeCard("assistant", l) <=> l.role = "assistant" /\ ~NamesNothing(l)
    BY <2>2 DEF ClaudeCard
  <2>5. ClaudeCard("tool", l) <=> Contains(l.blocks, "use")
    BY <2>2 DEF ClaudeCard
  <2>6. SaysOrActs(l) <=> Said(l) # {} \/ Contains(l.blocks, "use")
    BY <2>2 DEF SaysOrActs
  <2>7. /\ RoleOf(l) = "user" <=> l.role = "user" /\ ~IsInjected(l)
        /\ RoleOf(l) = "assistant" <=> l.role = "assistant"
    BY <2>2 DEF RoleOf
  <2>8. NamesNothing(l) <=> Said(l) = {} \/ OnlyHolder(l)
    BY DEF NamesNothing
  <2>9. (\E t \in R : t.what \in {"text", "use"})
            <=> (\E t \in R : t.what = "text") \/ (\E t \in R : t.what = "use")
    OBVIOUS
  <2>10. ASSUME NEW role \in {"user", "assistant"}
         PROVE  ClaudeCard(role, l) <=>
                    /\ \E t \in R : t.role = role /\ t.what \in SaidKinds
                    /\ ~(l.kind = "message" /\ OnlyHolder(l))
    <3>1. CASE role = "user"
      BY <2>1, <2>2, <2>3, <2>7, <2>8, <3>1
    <3>2. CASE role = "assistant"
      BY <2>1, <2>2, <2>4, <2>7, <2>8, <3>2
    <3> QED BY <3>1, <3>2
  <2>11. SaysOrActs(l) <=> \E t \in R : t.what \in {"text", "use"}
    BY <2>1, <2>6, <2>9
  <2> QED BY <2>1, <2>5, <2>10, <2>11 DEF R
<1>2. CASE ~IsBlocks(l)
  <2>1. R = Plain(i, l)
    BY <1>2, PlainTurns
  <2> HIDE DEF R
  <2>2. CASE l.kind = "command"
    <3>1. R = {Turn(i, 0, "user", "command")}
      BY <2>1, <2>2 DEF Plain
    <3>2. /\ ClaudeCard("user", l) /\ ~ClaudeCard("assistant", l)
          /\ ~ClaudeCard("tool", l) /\ ~SaysOrActs(l)
      BY <2>2 DEF ClaudeCard, SaysOrActs
    <3>3. \A t \in R : t.line = i /\ t.role = "user" /\ t.what = "command"
      BY <3>1 DEF Turn
    <3>4. R # {}
      BY <3>1
    <3> QED BY <2>2, <3>2, <3>3, <3>4 DEF R, SaidKinds
  <2>3. CASE l.kind = "stdout"
    <3>1. R = {Turn(i, 0, "assistant", "stdout")}
      BY <2>1, <2>3 DEF Plain
    <3>2. /\ ~ClaudeCard("user", l) /\ ClaudeCard("assistant", l)
          /\ ~ClaudeCard("tool", l) /\ ~SaysOrActs(l)
      BY <2>3 DEF ClaudeCard, ByUser, SaysOrActs
    <3>3. \A t \in R : t.line = i /\ t.role = "assistant" /\ t.what = "stdout"
      BY <3>1 DEF Turn
    <3>4. R # {}
      BY <3>1
    <3> QED BY <2>3, <3>2, <3>3, <3>4 DEF R, SaidKinds
  <2>4. CASE l.kind = "message" /\ ~l.synthetic
    <3>1. /\ IsMessage(l) /\ l.form = "string" /\ l.role \in {"user", "assistant"}
          /\ \E b \in {"text", "blank", "holder"} : l.blocks = <<b>>
      BY <1>2, <2>4 DEF IsBlocks, IsMessage, IsClaudeLine
    <3>2. PICK b \in {"text", "blank", "holder"} : l.blocks = <<b>>
      BY <3>1
    <3>3. Len(l.blocks) = 1 /\ l.blocks[1] = b /\ DOMAIN l.blocks = {1}
      BY <3>2
    <3>4. ~Contains(l.blocks, "use")
      BY <3>2, <3>3 DEF Contains
    <3>5. /\ b = "blank" => Said(l) = {}
          /\ b # "blank" => Said(l) = {1}
      BY <3>2, <3>3 DEF Said
    <3>6. /\ b = "blank" => NamesNothing(l)
          /\ b = "holder" => NamesNothing(l) /\ OnlyHolder(l)
          /\ b = "text" => ~NamesNothing(l) /\ ~OnlyHolder(l)
      BY <3>3, <3>5 DEF NamesNothing, OnlyHolder
    <3>7. ~ClaudeCard("tool", l)
      BY <2>4, <3>4 DEF ClaudeCard
    <3>8. /\ ClaudeCard("user", l) <=> l.role = "user" /\ ~NamesNothing(l) /\ ~IsInjected(l)
          /\ ClaudeCard("assistant", l) <=> l.role = "assistant" /\ ~NamesNothing(l)
          /\ SaysOrActs(l) <=> ~NamesNothing(l)
      BY <2>4, <3>1 DEF ClaudeCard, ByUser, SaysOrActs
    <3>9. CASE b = "text"
      <4>1. R = {Turn(i, 1, RoleOf(l), "text")}
        BY <2>1, <2>4, <3>1, <3>2, <3>9 DEF Plain
      <4>2. \A t \in R : t.line = i /\ t.role = RoleOf(l) /\ t.what = "text"
        BY <4>1 DEF Turn
      <4>3. R # {}
        BY <4>1
      <4>4. /\ RoleOf(l) = "user" <=> l.role = "user" /\ ~IsInjected(l)
            /\ RoleOf(l) = "assistant" <=> l.role = "assistant"
        BY <3>1 DEF RoleOf
      <4>5. ASSUME NEW role \in {"user", "assistant"}
            PROVE  ClaudeCard(role, l) <=> RoleOf(l) = role
        BY <3>6, <3>8, <3>9, <4>4
      <4> QED BY <3>6, <3>7, <3>8, <3>9, <4>2, <4>3, <4>5 DEF R, SaidKinds
    <3>10. CASE b # "text"
      <4>1. l.blocks # <<"text">>
        BY <3>2, <3>10
      <4>2. R = {}
        BY <2>1, <2>4, <4>1 DEF Plain
      <4>3. NamesNothing(l)
        BY <3>2, <3>6, <3>10
      <4> QED BY <3>7, <3>8, <4>2, <4>3 DEF R
    <3> QED BY <3>9, <3>10
  <2>5. CASE l.kind = "other" \/ (l.kind = "message" /\ l.synthetic)
    <3>1. R = {}
      BY <2>1, <2>5 DEF Plain
    <3>2. /\ ~ClaudeCard("user", l) /\ ~ClaudeCard("assistant", l)
          /\ ~ClaudeCard("tool", l) /\ ~SaysOrActs(l)
      BY <2>5 DEF ClaudeCard, ByUser, SaysOrActs
    <3> QED BY <3>1, <3>2 DEF R
  <2>6. l.kind \in {"command", "stdout", "message", "other"}
    BY DEF IsClaudeLine
  <2> QED BY <2>2, <2>3, <2>4, <2>5, <2>6
<1> QED BY <1>1, <1>2

LEMMA CodexShows ==
  ASSUME NEW l, IsCodexLine(l), NEW i \in Nat
  PROVE  /\ CodexTurns(i, l) \in Seq(TurnSet)
         /\ Reverse(CodexTurns(i, l)) = CodexTurns(i, l)
         /\ \A t \in Range(CodexTurns(i, l)) : t.line = i
         /\ \A role \in {"user", "assistant"} :
                CodexCard(role, l) <=>
                    \E t \in Range(CodexTurns(i, l)) : t.role = role /\ t.what \in SaidKinds
         /\ CodexCard("tool", l) <=> \E t \in Range(CodexTurns(i, l)) : t.what = "use"
<1> DEFINE R == Range(CodexTurns(i, l))
           words == /\ l.kind = "message" /\ l.role \in {"user", "assistant"}
                    /\ l.text # "blank" /\ ~IsCodexInjected(l)
<1>1. l.kind \in {"message", "call", "output", "other"}
  BY DEF IsCodexLine
<1>2. /\ CodexCard("user", l) <=> words /\ l.role = "user"
      /\ CodexCard("assistant", l) <=> words /\ l.role = "assistant"
      /\ CodexCard("tool", l) <=> l.kind = "call"
  BY DEF CodexCard, IsCodexInjected
<1>3. <<>> \in Seq(TurnSet) /\ Reverse(<<>>) = <<>> /\ Range(<<>>) = {}
  <2>1. Turn(i, 0, "user", "command") \in TurnSet
    BY TurnTyped
  <2> QED BY <2>1, OneTurn
<1>4. CASE words
  <2> DEFINE u == Turn(i, 1, l.role, "text")
  <2>1. l.role \in {"user", "assistant"} /\ l.kind = "message"
    BY <1>4
  <2>2. CodexTurns(i, l) = <<u>>
    BY <1>4 DEF CodexTurns
  <2>3. u.line = i /\ u.role = l.role /\ u.what = "text"
    BY DEF Turn
  <2>4. u \in TurnSet
    BY <2>1, TurnTyped
  <2> HIDE DEF u
  <2>5. /\ CodexTurns(i, l) \in Seq(TurnSet) /\ Reverse(CodexTurns(i, l)) = CodexTurns(i, l)
        /\ R = {u}
    BY <2>2, <2>4, OneTurn
  <2>6. ASSUME NEW role \in {"user", "assistant"}
        PROVE  CodexCard(role, l) <=> u.role = role
    BY <1>2, <1>4, <2>1, <2>3
  <2> HIDE DEF R, words
  <2>7. ~CodexCard("tool", l)
    BY <1>2, <2>1
  <2> QED BY <2>3, <2>5, <2>6, <2>7 DEF R, SaidKinds
<1>5. CASE ~words /\ l.kind = "call"
  <2> DEFINE u == Turn(i, 1, "assistant", "use")
  <2>1. CodexTurns(i, l) = <<u>>
    BY <1>5 DEF CodexTurns
  <2>2. u.line = i /\ u.what = "use"
    BY DEF Turn
  <2>3. u \in TurnSet
    BY TurnTyped
  <2> HIDE DEF u
  <2>4. /\ CodexTurns(i, l) \in Seq(TurnSet) /\ Reverse(CodexTurns(i, l)) = CodexTurns(i, l)
        /\ R = {u}
    BY <2>1, <2>3, OneTurn
  <2>5. \A role \in {"user", "assistant"} : ~CodexCard(role, l)
    BY <1>2, <1>5
  <2> HIDE DEF R, words
  <2> QED BY <1>2, <1>5, <2>2, <2>4, <2>5 DEF R, SaidKinds
<1>6. CASE ~words /\ l.kind = "output"
  <2> DEFINE u == Turn(i, 1, "user", "result")
  <2>1. CodexTurns(i, l) = <<u>>
    BY <1>6 DEF CodexTurns
  <2>2. u.line = i /\ u.what = "result"
    BY DEF Turn
  <2>3. u \in TurnSet
    BY TurnTyped
  <2> HIDE DEF u
  <2>4. /\ CodexTurns(i, l) \in Seq(TurnSet) /\ Reverse(CodexTurns(i, l)) = CodexTurns(i, l)
        /\ R = {u}
    BY <2>1, <2>3, OneTurn
  <2>5. \A role \in {"user", "assistant"} : ~CodexCard(role, l)
    BY <1>2, <1>6
  <2> HIDE DEF R, words
  <2> QED BY <1>2, <1>6, <2>2, <2>4, <2>5 DEF R, SaidKinds
<1>7. CASE ~words /\ l.kind \notin {"call", "output"}
  <2>1. CodexTurns(i, l) = <<>>
    BY <1>7 DEF CodexTurns
  <2>2. \A role \in {"user", "assistant"} : ~CodexCard(role, l)
    BY <1>2, <1>7
  <2>3. ~CodexCard("tool", l)
    BY <1>2, <1>7
  <2> QED BY <1>3, <2>1, <2>2, <2>3
<1> QED BY <1>4, <1>5, <1>6, <1>7

----------------------------------------------------------------------------
(* The file.                                                               *)

TranscriptsTypeOK ==
    /\ source \in {"claude", "codex"}
    /\ log \in Seq(Lines) /\ Len(log) <= MaxLines

Carded(which, l) == IF source = "claude" THEN ClaudeCard(which, l) ELSE CodexCard(which, l)

\* A line of the file: read backwards and turned round it is the line as it was
\* written, and the rules of the readers say of it what its turns say.
LEMMA LineRight ==
  ASSUME TranscriptsTypeOK, NEW i \in 1 .. Len(log)
  PROVE  /\ TurnsOf(i) \in Seq(TurnSet) /\ WrittenBy(i) \in Seq(TurnSet)
         /\ Reverse(TurnsOf(i)) = WrittenBy(i)
         /\ \A t \in Range(WrittenBy(i)) : t.line = i
         /\ \A role \in {"user", "assistant"} :
                Carded(role, log[i]) <=>
                    /\ \E t \in Range(WrittenBy(i)) : t.role = role /\ t.what \in SaidKinds
                    /\ ~Placeholder(log[i])
         /\ Carded("tool", log[i]) <=> \E t \in Range(WrittenBy(i)) : t.what = "use"
         /\ source = "claude" =>
                (SaysOrActs(log[i]) <=> \E t \in Range(WrittenBy(i)) : t.what \in {"text", "use"})
<1>1. i \in Nat /\ log[i] \in Lines
  BY DEF TranscriptsTypeOK
<1>2. PICK l : l = log[i]
  OBVIOUS
<1>3. CASE source = "claude"
  <2>1. IsClaudeLine(l)
    BY <1>1, <1>2, <1>3, LinesAssumption DEF Lines
  <2>2. TurnsOf(i) = ClaudeTurns(i, l) /\ WrittenBy(i) = InOrderOf(i, l)
    BY <1>2, <1>3 DEF TurnsOf, WrittenBy
  <2>3. ClaudeTurns(i, l) \in Seq(TurnSet) /\ Reverse(ClaudeTurns(i, l)) = InOrderOf(i, l)
    BY <1>1, <2>1, ClaudeTurnsRight
  <2>4. InOrderOf(i, l) \in Seq(TurnSet)
    BY <2>3, Turned
  <2>5. \A w : Carded(w, log[i]) = ClaudeCard(w, l)
    BY <1>2, <1>3 DEF Carded
  <2>6. Placeholder(log[i]) <=> l.kind = "message" /\ OnlyHolder(l)
    BY <1>2, <1>3 DEF Placeholder
  <2> QED BY <1>1, <1>2, <2>1, <2>2, <2>3, <2>4, <2>5, <2>6, ClaudeShows
<1>4. CASE source = "codex"
  <2>1. IsCodexLine(l)
    BY <1>1, <1>2, <1>4, LinesAssumption DEF Lines
  <2>2. TurnsOf(i) = CodexTurns(i, l) /\ WrittenBy(i) = CodexTurns(i, l)
    BY <1>2, <1>4 DEF TurnsOf, WrittenBy
  <2>3. \A w : Carded(w, log[i]) = CodexCard(w, l)
    BY <1>2, <1>4 DEF Carded
  <2>4. ~Placeholder(log[i]) /\ source # "claude"
    BY <1>4 DEF Placeholder
  <2> QED BY <1>1, <2>1, <2>2, <2>3, <2>4, CodexShows
<1> QED BY <1>3, <1>4 DEF TranscriptsTypeOK

TellOne(n, turns) == turns \o WrittenBy(n)

\* The conversation, tells line after line.
LEMMA ConversationSteps ==
  ASSUME TranscriptsTypeOK
  PROVE  \E f \in [0 .. Len(log) -> Seq(TurnSet)] :
            /\ f[0] = <<>>
            /\ \A n \in 1 .. Len(log) : f[n] = f[n - 1] \o WrittenBy(n)
            /\ Conversation = f[Len(log)]
<1> DEFINE size == Len(log)
           base == <<>>
           S == Seq(TurnSet)
           tells[n \in 0 .. size] == IF n = 0 THEN <<>> ELSE tells[n - 1] \o WrittenBy(n)
           step == [n \in 1 .. size |-> [turns \in S |-> turns \o WrittenBy(n)]]
<1>1. size \in Nat
  BY DEF TranscriptsTypeOK
<1>2. IsTable(step, size, S)
  <2>1. ASSUME NEW n \in 1 .. size, NEW turns \in S PROVE turns \o WrittenBy(n) \in S
    BY LineRight, ConcatProperties
  <2> HIDE DEF size, S
  <2> QED BY <2>1 DEF IsTable
<1>3. base \in S
  BY EmptySeq
<1>4. PICK f : IsRun(f, step, size, S, base)
  <2> HIDE DEF size, step, S, base
  <2> QED BY <1>1, <1>2, <1>3, RunExists, Zenon
<1>5. ASSUME NEW n \in 0 .. size, n # 0
      PROVE  f[n] = f[n - 1] \o WrittenBy(n)
  <2> HIDE DEF size, S
  <2>1. n \in 1 .. size /\ n - 1 \in 0 .. size
    BY <1>1, <1>5
  <2>2. f[n - 1] \in S
    BY <1>4, <2>1 DEF IsRun
  <2> QED BY <1>4, <2>1, <2>2 DEF IsRun
<1>6. f = [n \in 0 .. size |-> IF n = 0 THEN <<>> ELSE f[n - 1] \o WrittenBy(n)]
  <2>1. f[0] = <<>> /\ f \in [0 .. size -> S]
    BY <1>4 DEF IsRun
  <2> HIDE DEF size, step, S
  <2> QED BY <1>5, <2>1
<1>7. tells = [n \in 0 .. size |-> IF n = 0 THEN <<>> ELSE tells[n - 1] \o WrittenBy(n)]
  <2> HIDE DEF size
  <2> QED BY <1>6
<1>8. Conversation = tells[size]
  BY DEF Conversation
<1> HIDE DEF tells
<1>9. tells[0] = base
  BY <1>1, <1>7
<1>10. \A n \in 1 .. size : tells[n] = tells[n - 1] \o WrittenBy(n)
  <2>1. tells = [n \in 0 .. size |-> IF n = 0 THEN <<>> ELSE TellOne(n, tells[n - 1])]
    BY <1>7, Zenon DEF TellOne
  <2> HIDE DEF size
  <2>2. \A n \in 1 .. size : tells[n] = TellOne(n, tells[n - 1])
    BY <1>1, <2>1
  <2> QED BY <2>2, Zenon DEF TellOne
<1>11. ASSUME NEW n \in 1 .. size, tells[n - 1] \in S
       PROVE  tells[n] = step[n][tells[n - 1]]
  <2> HIDE DEF size, S
  <2> QED BY <1>10, <1>11
<1>12. tells \in [0 .. size -> S]
  <2> HIDE DEF size, step, S, base
  <2>1. \E g : tells = [n \in 0 .. size |-> g[n]]
    BY <1>7
  <2>2. Follows(tells, step, size, S, base)
    BY <1>9, <1>11, <2>1 DEF Follows
  <2>3. IsRun(tells, step, size, S, base)
    BY <1>1, <1>2, <1>3, <2>2, RunTyped, Zenon
  <2> QED BY <2>3 DEF IsRun
<1> HIDE DEF step, size
<1> QED BY <1>8, <1>9, <1>10, <1>12 DEF size

\* The turns of a line, if there are not enough yet.
ReadOne(most, n, turns) ==
    IF Len(turns) < most THEN turns \o TurnsOf(Len(log) - n + 1) ELSE turns

\* The tail, read line after line from the last.
LEMMA ReadSteps ==
  ASSUME TranscriptsTypeOK, NEW most \in Nat
  PROVE  \E f \in [0 .. Len(log) -> Seq(TurnSet)] :
            /\ f[0] = <<>>
            /\ \A n \in 1 .. Len(log) : f[n] = ReadOne(most, n, f[n - 1])
            /\ readTail(most) = Reverse(SubSeq(f[Len(log)], 1,
                    IF Len(f[Len(log)]) < most THEN Len(f[Len(log)]) ELSE most))
<1> DEFINE size == Len(log)
           base == <<>>
           S == Seq(TurnSet)
           read[n \in 0 .. Len(log)] ==
               IF n = 0 THEN <<>>
               ELSE IF Len(read[n - 1]) < most
                    THEN read[n - 1] \o TurnsOf(Len(log) - n + 1)
                    ELSE read[n - 1]
           step == [n \in 1 .. size |-> [turns \in S |-> ReadOne(most, n, turns)]]
<1>1. size \in Nat
  BY DEF TranscriptsTypeOK
<1>2. IsTable(step, size, S)
  <2>1. ASSUME NEW n \in 1 .. size, NEW turns \in S PROVE ReadOne(most, n, turns) \in S
    <3>1. Len(log) - n + 1 \in 1 .. Len(log)
      BY <1>1
    <3>2. TurnsOf(Len(log) - n + 1) \in Seq(TurnSet)
      BY <3>1, LineRight
    <3>3. turns \o TurnsOf(Len(log) - n + 1) \in Seq(TurnSet)
      BY <3>2, ConcatProperties
    <3> QED BY <3>3 DEF ReadOne
  <2> HIDE DEF size, S
  <2> QED BY <2>1 DEF IsTable
<1>3. base \in S
  BY EmptySeq
<1>4. PICK f : IsRun(f, step, size, S, base)
  <2> HIDE DEF size, step, S, base
  <2> QED BY <1>1, <1>2, <1>3, RunExists, Zenon
<1>5. ASSUME NEW n \in 0 .. size, n # 0
      PROVE  f[n] = ReadOne(most, n, f[n - 1])
  <2> HIDE DEF size, S
  <2>1. n \in 1 .. size /\ n - 1 \in 0 .. size
    BY <1>1, <1>5
  <2>2. f[n - 1] \in S
    BY <1>4, <2>1 DEF IsRun
  <2> QED BY <1>4, <2>1, <2>2 DEF IsRun
<1>6. f = [n \in 0 .. Len(log) |->
               IF n = 0 THEN <<>>
               ELSE IF Len(f[n - 1]) < most
                    THEN f[n - 1] \o TurnsOf(Len(log) - n + 1)
                    ELSE f[n - 1]]
  <2>1. f[0] = <<>> /\ f \in [0 .. size -> S]
    BY <1>4 DEF IsRun
  <2> HIDE DEF step, S
  <2> QED BY <1>5, <2>1 DEF ReadOne
<1>7. read = [n \in 0 .. Len(log) |->
               IF n = 0 THEN <<>>
               ELSE IF Len(read[n - 1]) < most
                    THEN read[n - 1] \o TurnsOf(Len(log) - n + 1)
                    ELSE read[n - 1]]
  BY <1>6
<1>8. readTail(most) = Reverse(SubSeq(read[size], 1,
         IF Len(read[size]) < most THEN Len(read[size]) ELSE most))
  BY DEF readTail
<1> HIDE DEF read
<1>9. read[0] = base
  BY <1>1, <1>7
<1>10. \A n \in 1 .. size : read[n] = ReadOne(most, n, read[n - 1])
  <2>1. read = [n \in 0 .. size |-> IF n = 0 THEN <<>> ELSE ReadOne(most, n, read[n - 1])]
    BY <1>7, Zenon DEF ReadOne
  <2> HIDE DEF size
  <2> QED BY <1>1, <2>1
<1>11. ASSUME NEW n \in 1 .. size, read[n - 1] \in S
       PROVE  read[n] = step[n][read[n - 1]]
  <2> HIDE DEF size, S
  <2> QED BY <1>10, <1>11
<1>12. read \in [0 .. size -> S]
  <2>1. \E g : read = [n \in 0 .. size |-> g[n]]
    BY <1>7
  <2> HIDE DEF size, step, S, base
  <2>2. Follows(read, step, size, S, base)
    BY <1>9, <1>11, <2>1 DEF Follows
  <2>3. IsRun(read, step, size, S, base)
    BY <1>1, <1>2, <1>3, <2>2, RunTyped, Zenon
  <2> QED BY <2>3 DEF IsRun
<1> HIDE DEF step, size
<1> QED BY <1>8, <1>9, <1>10, <1>12 DEF size

\* The conversation shows what its lines show.
LEMMA ConversationShows ==
  ASSUME TranscriptsTypeOK
  PROVE  /\ Conversation \in Seq(TurnSet)
         /\ \A t : t \in Range(Conversation) <=> \E i \in 1 .. Len(log) : t \in Range(WrittenBy(i))
<1>1. PICK size \in Nat : size = Len(log)
  BY DEF TranscriptsTypeOK
<1>2. PICK f \in [0 .. size -> Seq(TurnSet)] :
            /\ f[0] = <<>>
            /\ \A n \in 1 .. size : f[n] = f[n - 1] \o WrittenBy(n)
            /\ Conversation = f[size]
  BY <1>1, ConversationSteps
<1> DEFINE Right(n) == \A t : t \in Range(f[n]) <=> \E i \in 1 .. n : t \in Range(WrittenBy(i))
           P == {n \in 0 .. size : Right(n)}
<1>3. 0 \in P
  <2>1. Range(f[0]) = {}
    BY <1>2 DEF Range
  <2>2. Right(0)
    BY <2>1
  <2> QED BY <2>2
<1>4. ASSUME NEW n \in 0 .. size - 1, n \in P PROVE n + 1 \in P
  <2>1. n \in 0 .. size /\ n + 1 \in 1 .. size /\ n + 1 \in 0 .. size /\ (n + 1) - 1 = n
    OBVIOUS
  <2>2. PICK s \in Seq(TurnSet) : s = f[n]
    BY <2>1
  <2>3. PICK w \in Seq(TurnSet) : w = WrittenBy(n + 1)
    BY <1>1, <2>1, LineRight
  <2>4. f[n + 1] = s \o w
    BY <1>2, <2>1, <2>2, <2>3
  <2>5. Range(s \o w) = Range(s) \cup Range(w)
    BY RangeOfConcat
  <2>6. Right(n)
    BY <1>4
  <2>7. \A i : i \in 1 .. n + 1 <=> i \in 1 .. n \/ i = n + 1
    OBVIOUS
  <2>8. Right(n + 1)
    BY <2>2, <2>3, <2>4, <2>5, <2>6, <2>7
  <2> HIDE DEF Right
  <2> QED BY <2>1, <2>8
<1>5. size \in P
  <2> HIDE DEF P
  <2>1. \A n \in 0 .. size - 1 : n \in P => n + 1 \in P
    BY <1>4
  <2>2. \A n \in 0 .. size : n \in P
    BY <1>3, <2>1, CountUp, Zenon
  <2> QED BY <2>2
<1>6. Right(size) /\ f[size] \in Seq(TurnSet)
  BY <1>5
<1> QED BY <1>1, <1>2, <1>6

Joined(s, t) == s \o t

LEMMA Regrouped ==
  \A a, b, c \in Seq(TurnSet) : Joined(Joined(a, b), c) = Joined(a, Joined(b, c))
BY ConcatAssociative DEF Joined

\* What was read so far, turned round, is the end of the conversation; what is
\* in front of it is what the lines not read wrote, unless there was enough.
ReadSoFar(whole, f, r, most, n) ==
    \E p \in Seq(TurnSet) :
        /\ whole = p \o Reverse(r[n])
        /\ Len(r[n]) < most => p = f[Len(log) - n]

ToldBy(f) == \A n \in 1 .. Len(log) : f[n] = f[n - 1] \o WrittenBy(n)
ReadBy(r, most) == \A n \in 1 .. Len(log) : r[n] = ReadOne(most, n, r[n - 1])

LEMMA ReadOneMore ==
  ASSUME TranscriptsTypeOK, NEW most \in Nat, NEW whole,
         NEW f \in [0 .. Len(log) -> Seq(TurnSet)], NEW r \in [0 .. Len(log) -> Seq(TurnSet)],
         ToldBy(f), ReadBy(r, most),
         NEW n \in 0 .. Len(log) - 1, ReadSoFar(whole, f, r, most, n)
  PROVE  ReadSoFar(whole, f, r, most, n + 1)
<1>1. PICK size \in Nat : size = Len(log)
  BY DEF TranscriptsTypeOK
<1>2. PICK i \in 1 .. size : i = size - n /\ i - 1 = size - (n + 1) /\ size - (n + 1) + 1 = i
  <2>1. n \in 0 .. size - 1
    BY <1>1, Zenon
  <2>2. size - n \in 1 .. size /\ (size - n) - 1 = size - (n + 1) /\ size - (n + 1) + 1 = size - n
    BY <2>1
  <2> QED BY <2>2, Zenon
<1>3. n \in 0 .. size /\ n + 1 \in 1 .. size /\ n + 1 \in 0 .. size /\ (n + 1) - 1 = n
  BY <1>1
<1>4. PICK p \in Seq(TurnSet) : whole = p \o Reverse(r[n]) /\ (Len(r[n]) < most => p = f[i])
  BY <1>1, <1>2 DEF ReadSoFar
<1>5. PICK s \in Seq(TurnSet) : s = r[n]
  BY <1>1, <1>3
<1>6. PICK m \in Seq(TurnSet) : m = r[n + 1]
  BY <1>1, <1>3
<1>7. m = ReadOne(most, n + 1, s)
  BY <1>1, <1>3, <1>5, <1>6 DEF ReadBy
<1>8. CASE Len(s) < most
  <2>1. PICK u \in Seq(TurnSet) : u = TurnsOf(i)
    BY <1>1, LineRight
  <2>2. PICK w \in Seq(TurnSet) : w = WrittenBy(i) /\ Reverse(u) = w
    BY <1>1, <2>1, LineRight
  <2>3. PICK q \in Seq(TurnSet) : q = f[i - 1]
    <3>1. i - 1 \in 0 .. size
      OBVIOUS
    <3> QED BY <1>1, <3>1
  <2>4. m = s \o u
    BY <1>1, <1>2, <1>7, <1>8, <2>1 DEF ReadOne
  <2>5. p = q \o w
    BY <1>1, <1>4, <1>5, <1>8, <2>2, <2>3 DEF ToldBy
  <2>6. PICK b \in Seq(TurnSet) : b = Reverse(s)
    BY Turned
  <2>7. Reverse(m) = w \o b
    BY <2>2, <2>4, <2>6, TurnedConcat
  <2>8. whole = q \o Reverse(m)
    <3>1. whole = p \o b
      BY <1>4, <1>5, <2>6, Zenon
    <3>2. p = Joined(q, w) /\ whole = Joined(p, b) /\ Reverse(m) = Joined(w, b)
      BY <2>5, <2>7, <3>1, Zenon DEF Joined
    <3>3. Joined(Joined(q, w), b) = Joined(q, Joined(w, b))
      BY Regrouped, Zenon
    <3>4. whole = Joined(q, Reverse(m))
      BY <3>2, <3>3
    <3> QED BY <3>4, Zenon DEF Joined
  <2>9. whole = q \o Reverse(r[n + 1]) /\ q = f[Len(log) - (n + 1)]
    BY <1>1, <1>2, <1>6, <2>3, <2>7, <2>8
  <2> QED BY <2>9, Zenon DEF ReadSoFar
<1>9. CASE ~(Len(s) < most)
  <2>1. m = s
    BY <1>7, <1>9 DEF ReadOne
  <2> QED BY <1>4, <1>5, <1>6, <1>9, <2>1, Zenon DEF ReadSoFar
<1> QED BY <1>8, <1>9

\* The tail is the end of the conversation, so long as asked for or all of it.
LEMMA TailRight ==
  ASSUME TranscriptsTypeOK, NEW most \in Nat
  PROVE  readTail(most) = SubSeq(Conversation,
            IF Len(Conversation) > most THEN Len(Conversation) - most + 1 ELSE 1,
            Len(Conversation))
<1>1. PICK size \in Nat : size = Len(log)
  BY DEF TranscriptsTypeOK
<1>2. PICK f \in [0 .. size -> Seq(TurnSet)] :
            /\ f[0] = <<>>
            /\ \A n \in 1 .. size : f[n] = f[n - 1] \o WrittenBy(n)
            /\ Conversation = f[size]
  BY <1>1, ConversationSteps
<1>3. PICK r \in [0 .. size -> Seq(TurnSet)] :
            /\ r[0] = <<>>
            /\ \A n \in 1 .. size : r[n] = ReadOne(most, n, r[n - 1])
            /\ readTail(most) = Reverse(SubSeq(r[size], 1,
                    IF Len(r[size]) < most THEN Len(r[size]) ELSE most))
  BY <1>1, ReadSteps
<1>4. PICK whole \in Seq(TurnSet) : whole = Conversation
  BY <1>2
<1> DEFINE P == {n \in 0 .. size : ReadSoFar(whole, f, r, most, n)}
<1>5. 0 \in P
  <2>1. <<>> \in Seq(TurnSet) /\ Reverse(<<>>) = <<>>
    <3>1. Turn(0, 0, "user", "command") \in TurnSet
      BY TurnTyped
    <3> QED BY <3>1, OneTurn
  <2>2. whole = whole \o Reverse(r[0])
    BY <1>3, <2>1, ConcatEmptySeq
  <2>3. size - 0 = size /\ 0 \in 0 .. size
    OBVIOUS
  <2> QED BY <1>1, <1>2, <1>4, <2>2, <2>3 DEF ReadSoFar
<1>6. \A n \in 0 .. size - 1 : n \in P => n + 1 \in P
  <2>1. SUFFICES ASSUME NEW n \in 0 .. size - 1, n \in P PROVE n + 1 \in P
    OBVIOUS
  <2>2. ReadSoFar(whole, f, r, most, n + 1)
    BY <1>1, <1>2, <1>3, <2>1, ReadOneMore DEF ToldBy, ReadBy
  <2> QED BY <2>2
<1>7. size \in P
  <2> HIDE DEF P
  <2>1. \A n \in 0 .. size : n \in P
    BY <1>5, <1>6, CountUp, Zenon
  <2> QED BY <2>1
<1>8. PICK t \in Seq(TurnSet) : t = r[size]
  BY <1>3
<1>9. PICK p \in Seq(TurnSet) : whole = p \o Reverse(t) /\ (Len(t) < most => p = <<>>)
  <2>1. size - size = 0
    OBVIOUS
  <2>2. ReadSoFar(whole, f, r, most, size)
    BY <1>7
  <2> QED BY <1>1, <1>2, <1>8, <2>1, <2>2 DEF ReadSoFar
<1> HIDE DEF P
<1>10. PICK q \in Seq(TurnSet) : q = Reverse(t) /\ Len(q) = Len(t)
  BY Turned
<1>11. PICK long \in Nat : long = Len(t)
  OBVIOUS
<1>12. PICK k \in 0 .. long : k = IF long < most THEN long ELSE most
  OBVIOUS
<1>13. readTail(most) = Reverse(SubSeq(t, 1, k))
  BY <1>3, <1>8, <1>11, <1>12, Zenon
<1>14. Reverse(SubSeq(t, 1, k)) = SubSeq(q, long - k + 1, long)
  BY <1>10, <1>11, TurnedEnd
<1>15. PICK front \in Nat : front = Len(p)
  OBVIOUS
<1>16. PICK all \in Nat : all = Len(whole)
  OBVIOUS
<1>17. whole = p \o q
  BY <1>9, <1>10, Zenon
<1>18. all = front + long
  <2>1. Len(p \o q) = Len(p) + Len(q)
    BY ConcatProperties
  <2> QED BY <1>10, <1>11, <1>15, <1>16, <1>17, <2>1, Zenon
<1>19. SubSeq(q, long - k + 1, long) = SubSeq(whole, all - k + 1, all)
  <2>1. PICK n \in Nat : n = Len(q)
    OBVIOUS
  <2>2. n = long
    BY <1>10, <1>11, <2>1, Zenon
  <2>3. k \in 0 .. Len(q)
    BY <2>1, <2>2
  <2>4. SubSeq(p \o q, Len(p \o q) - k + 1, Len(p \o q)) = SubSeq(q, Len(q) - k + 1, Len(q))
    BY <2>3, EndOfEnd, Zenon
  <2> QED BY <1>16, <1>17, <2>1, <2>2, <2>4, Zenon
<1>20. long < most => front = 0
  <2>1. SUFFICES ASSUME long < most PROVE front = 0
    OBVIOUS
  <2>2. p = <<>>
    BY <1>9, <1>11, <2>1, Zenon
  <2> QED BY <1>15, <2>2
<1>21. all - k + 1 = IF all > most THEN all - most + 1 ELSE 1
  BY <1>12, <1>18, <1>20
<1>22. readTail(most) = SubSeq(whole, all - k + 1, all)
  BY <1>13, <1>14, <1>19, Zenon
<1> QED BY <1>4, <1>16, <1>21, <1>22, Zenon

\* With no end set to it the tail is the whole conversation.
LEMMA AllShown ==
  ASSUME TranscriptsTypeOK
  PROVE  ShownTurns = Range(Conversation)
<1>1. PICK whole \in Seq(TurnSet) : whole = Conversation
  BY ConversationShows
<1>2. PICK all \in Nat : all = Len(whole)
  OBVIOUS
<1>3. PICK most \in Nat : most = all + 1 /\ ~(all > most)
  OBVIOUS
<1>4. readTail(most) = SubSeq(whole, IF all > most THEN all - most + 1 ELSE 1, all)
  BY <1>1, <1>2, TailRight, Zenon
<1>5. readTail(most) = SubSeq(whole, 1, all)
  BY <1>3, <1>4, Zenon
<1>6. SubSeq(whole, 1, all) = whole
  BY <1>2, SubSeqFull
<1> QED BY <1>1, <1>2, <1>3, <1>5, <1>6 DEF ShownTurns

LEMMA TypedAgree ==
  ASSUME TranscriptsTypeOK
  PROVE  ReadersAgree
<1>1. DOMAIN log = 1 .. Len(log)
  BY DEF TranscriptsTypeOK
<1>2. \A t : t \in ShownTurns <=> \E i \in DOMAIN log : t \in Range(WrittenBy(i))
  BY <1>1, AllShown, ConversationShows
<1>3. \A i \in DOMAIN log : \A t \in Range(WrittenBy(i)) : t.line = i
  BY <1>1, LineRight
<1>4. TailIsEnd
  <2>1. Limits \subseteq Nat
    BY TranscriptsAssumption
  <2> QED BY <2>1, TailRight DEF TailIsEnd
<1>5. \A which : CardLine(which) = Newest({i \in DOMAIN log : InWindow(i) /\ Carded(which, log[i])})
  BY DEF CardLine, Carded
<1>6. ASSUME NEW role \in {"user", "assistant"} PROVE CardLine(role) = LastWords(role)
  <2> DEFINE A == {i \in DOMAIN log : InWindow(i) /\ Carded(role, log[i])}
             U == {u \in ShownTurns : /\ u.role = role /\ u.what \in {"text", "command", "stdout"}
                                      /\ InWindow(u.line) /\ ~Placeholder(log[u.line])}
             B == {t.line : t \in U}
  <2>1. \A i \in DOMAIN log : Carded(role, log[i]) <=>
                    /\ \E t \in Range(WrittenBy(i)) : t.role = role /\ t.what \in SaidKinds
                    /\ ~Placeholder(log[i])
    BY <1>1, LineRight
  <2>2. ASSUME NEW i \in A PROVE i \in B
    <3>1. PICK t \in Range(WrittenBy(i)) : t.role = role /\ t.what \in SaidKinds
      BY <2>1
    <3>2. t \in ShownTurns /\ t.line = i
      BY <1>2, <1>3
    <3>3. t \in U
      BY <2>1, <3>1, <3>2 DEF SaidKinds
    <3> HIDE DEF U
    <3> QED BY <3>2, <3>3
  <2>3. ASSUME NEW i \in B PROVE i \in A
    <3>1. PICK t \in U : t.line = i
      BY Zenon
    <3>2. PICK j \in DOMAIN log : t \in Range(WrittenBy(j))
      BY <1>2
    <3>3. j = i
      BY <1>3, <3>1, <3>2
    <3>4. t.role = role /\ t.what \in SaidKinds /\ InWindow(i) /\ ~Placeholder(log[i])
      BY <3>1 DEF SaidKinds
    <3> QED BY <2>1, <3>2, <3>3, <3>4
  <2>4. A = B
    <3> HIDE DEF A, B
    <3> QED BY <2>2, <2>3
  <2>5. CardLine(role) = Newest(A)
    BY <1>5
  <2>6. LastWords(role) = Newest(B)
    BY DEF LastWords
  <2> HIDE DEF A, B
  <2> QED BY <2>4, <2>5, <2>6
<1>7. CardLine("tool") = Newest({t.line : t \in {u \in ShownTurns : u.what = "use" /\ InWindow(u.line)}})
  <2> DEFINE A == {i \in DOMAIN log : InWindow(i) /\ Carded("tool", log[i])}
             U == {u \in ShownTurns : u.what = "use" /\ InWindow(u.line)}
             B == {t.line : t \in U}
  <2>1. \A i \in DOMAIN log :
            Carded("tool", log[i]) <=> \E t \in Range(WrittenBy(i)) : t.what = "use"
    BY <1>1, LineRight
  <2>2. ASSUME NEW i \in A PROVE i \in B
    <3>1. PICK t \in Range(WrittenBy(i)) : t.what = "use"
      BY <2>1
    <3>2. t \in ShownTurns /\ t.line = i
      BY <1>2, <1>3
    <3>3. t \in U
      BY <3>1, <3>2
    <3> HIDE DEF U
    <3> QED BY <3>2, <3>3
  <2>3. ASSUME NEW i \in B PROVE i \in A
    <3>1. PICK t \in U : t.line = i
      BY Zenon
    <3>2. PICK j \in DOMAIN log : t \in Range(WrittenBy(j))
      BY <1>2
    <3>3. j = i
      BY <1>3, <3>1, <3>2
    <3>4. t.what = "use" /\ InWindow(i)
      BY <3>1
    <3> QED BY <2>1, <3>2, <3>3, <3>4
  <2>4. A = B
    <3> HIDE DEF A, B
    <3> QED BY <2>2, <2>3
  <2>5. CardLine("tool") = Newest(A)
    BY <1>5
  <2> HIDE DEF A
  <2> QED BY <2>4, <2>5
<1>8. ASSUME source = "claude"
      PROVE  HasAnyTurns <=> \E t \in ShownTurns : t.what \in {"text", "use"}
  <2>1. \A i \in DOMAIN log :
            SaysOrActs(log[i]) <=> \E t \in Range(WrittenBy(i)) : t.what \in {"text", "use"}
    BY <1>1, <1>8, LineRight
  <2>2. (\E t \in ShownTurns : t.what \in {"text", "use"})
            <=> \E i \in DOMAIN log : \E t \in Range(WrittenBy(i)) : t.what \in {"text", "use"}
    BY <1>2
  <2> QED BY <2>1, <2>2 DEF HasAnyTurns
<1> QED BY <1>4, <1>6, <1>7, <1>8 DEF ReadersAgree

LEMMA TranscriptsTyped == TranscriptsInit => TranscriptsTypeOK
<1>1. <<>> \in Seq(Lines) /\ Len(<<>>) = 0
  OBVIOUS
<1>2. MaxLines \in Nat
  BY TranscriptsAssumption
<1> QED BY <1>1, <1>2 DEF TranscriptsInit, TranscriptsTypeOK

LEMMA TranscriptsStayTyped ==
  ASSUME TranscriptsTypeOK, [TranscriptsNext]_transcriptVars
  PROVE  TranscriptsTypeOK'
<1>1. CASE TranscriptsNext
  <2>1. PICK l \in Lines : LineWritten(l)
    BY <1>1 DEF TranscriptsNext
  <2>2. source' = source /\ Lines' = Lines /\ log' = Append(log, l) /\ Len(log) < MaxLines
    BY <2>1 DEF LineWritten, Lines
  <2>3. log \in Seq(Lines) /\ MaxLines \in Nat
    BY TranscriptsAssumption DEF TranscriptsTypeOK
  <2>4. Append(log, l) \in Seq(Lines) /\ Len(Append(log, l)) = Len(log) + 1 /\ Len(log) \in Nat
    BY <2>3
  <2>5. Len(log') <= MaxLines
    BY <2>2, <2>3, <2>4
  <2> QED BY <2>2, <2>4, <2>5 DEF TranscriptsTypeOK
<1>2. CASE UNCHANGED transcriptVars
  BY <1>2 DEF TranscriptsTypeOK, transcriptVars, Lines
<1> QED BY <1>1, <1>2

\* Of every file, however long and whatever the agents' lines hold: what the
\* conversation shows for a number of turns is the end of what was written; the
\* card's last words and last tool are those the conversation shows; and a file
\* of Claude is empty of turns for the daemon, which then deletes the session,
\* exactly when the conversation would show no words and no tool
\* (readTranscriptTail, readSessionPreview and sessionHasAnyTurns of
\* src/src/session-resolver.ts).
THEOREM ReadersDoAgree == TranscriptsSpec => []ReadersAgree
<1>1. TranscriptsInit => TranscriptsTypeOK
  BY TranscriptsTyped
<1>2. TranscriptsTypeOK /\ [TranscriptsNext]_transcriptVars => TranscriptsTypeOK'
  BY TranscriptsStayTyped
<1>3. TranscriptsTypeOK => ReadersAgree
  BY TypedAgree
<1> QED BY <1>1, <1>2, <1>3, PTL DEF TranscriptsSpec

----------------------------------------------------------------------------
(* The feed of rows and badges: what a page shows of a session.            *)

FeedEvent ==
    [type : {"session_changed"}, uuid : RowUuid, row : Nat]
    \cup [type : {"session_removed"}, uuid : RowUuid]
    \cup [type : {"activity"}, uuid : RowUuid, on : BOOLEAN]
Told == [rows : [RowUuid -> Nat], labels : SUBSET RowUuid]

\* What PageCatchesUp needs to know: the types, and that only sessions with a
\* row have a label.
WireTyped == wire \in Seq(FeedEvent) /\ Len(wire) <= MaxWire
DaemonTyped ==
    /\ rows \in [RowUuid -> Nat] /\ labels \subseteq RowUuid /\ changes \in Nat
    /\ \A u \in labels : rows[u] # 0
AnswersTyped == answers \in [FetchKind -> {None} \cup Told]
PageTyped == sessions \in [RowUuid -> Nat] /\ activities \subseteq RowUuid
FeedTyped == WireTyped /\ DaemonTyped /\ AnswersTyped /\ PageTyped

LEMMA FeedEventTyped ==
    ASSUME NEW u \in RowUuid, NEW n \in Nat, NEW on \in BOOLEAN
    PROVE  /\ [type |-> "session_changed", uuid |-> u, row |-> n] \in FeedEvent
           /\ [type |-> "session_removed", uuid |-> u] \in FeedEvent
           /\ [type |-> "activity", uuid |-> u, on |-> on] \in FeedEvent
  BY DEF FeedEvent

\* What an event's type says about it.
LEMMA EventFields ==
    ASSUME NEW e \in FeedEvent
    PROVE  /\ e.uuid \in RowUuid
           /\ e.type \in {"session_changed", "session_removed", "activity"}
           /\ e.type = "session_changed" => e.row \in Nat
           /\ e.type = "activity" => e.on \in BOOLEAN
  BY DEF FeedEvent

LEMMA PushedIsLast ==
    ASSUME WireTyped, NEW e \in FeedEvent, Pushed(e)
    PROVE  /\ wire' \in Seq(FeedEvent) /\ Len(wire') <= MaxWire
           /\ \A i \in 1..Len(wire) : wire'[i] = wire[i]
           /\ \A i \in 1..Len(wire') : i \in 1..Len(wire) \/ wire'[i] = e
  BY FeedBounds, AppendProperties DEF WireTyped, Pushed

LEMMA WireTail ==
    ASSUME WireTyped, wire # <<>>
    PROVE  /\ Tail(wire) \in Seq(FeedEvent) /\ Len(Tail(wire)) = Len(wire) - 1
           /\ \A i \in 1..Len(Tail(wire)) : Tail(wire)[i] = wire[i + 1]
           /\ Head(wire) = wire[1] /\ 1 \in 1..Len(wire)
           /\ Head(wire) \in FeedEvent
  BY HeadTailProperties, EmptySeq DEF WireTyped

\* The steps of the daemon: what is announced is what it holds then, and all else
\* is as it was.
RowStep(u) ==
    \/ RowChanges(u) \/ RowRemoved(u) \/ WrapCloses(u)
    \/ \E on \in BOOLEAN : Activity(u, on)

LEMMA DaemonAnnounces ==
    ASSUME DaemonTyped, NEW u \in RowUuid, RowStep(u)
    PROVE  /\ DaemonTyped'
           /\ \E e \in FeedEvent : Pushed(e) /\ e.uuid = u /\ EventTells(e, u)'
           /\ UNCHANGED <<answers, sessions, activities>>
           /\ \A v \in RowUuid \ {u} : RowStays(v)
<1>1. ASSUME RowChanges(u)
      PROVE  /\ DaemonTyped'
             /\ \E e \in FeedEvent : Pushed(e) /\ e.uuid = u /\ EventTells(e, u)'
             /\ \A v \in RowUuid \ {u} : RowStays(v)
  <2>1. changes' \in Nat /\ rows' = [rows EXCEPT ![u] = changes'] /\ labels' = labels
        /\ changes' # 0
    BY <1>1 DEF RowChanges, DaemonTyped
  <2>2. PICK e : e = [type |-> "session_changed", uuid |-> u, row |-> changes']
    OBVIOUS
  <2>3. e \in FeedEvent /\ e.uuid = u /\ e.type = "session_changed" /\ e.row = changes'
    BY <2>1, <2>2, FeedEventTyped
  <2>4. Pushed(e)
    BY <1>1, <2>2 DEF RowChanges
  <2>5. rows'[u] = changes'
    BY <2>1 DEF DaemonTyped
  <2>6. EventTells(e, u)'
    BY <2>3, <2>5 DEF EventTells
  <2>7. DaemonTyped' /\ \A v \in RowUuid \ {u} : RowStays(v)
    BY <2>1 DEF DaemonTyped, RowStays
  <2> QED BY <2>3, <2>4, <2>6, <2>7
<1>2. ASSUME RowRemoved(u)
      PROVE  /\ DaemonTyped'
             /\ \E e \in FeedEvent : Pushed(e) /\ e.uuid = u /\ EventTells(e, u)'
             /\ \A v \in RowUuid \ {u} : RowStays(v)
  <2>1. changes' \in Nat /\ rows' = [rows EXCEPT ![u] = 0] /\ labels' = labels \ {u}
    BY <1>2 DEF RowRemoved, DaemonTyped, Without
  <2>2. PICK e : e = [type |-> "session_removed", uuid |-> u]
    OBVIOUS
  <2>3. e \in FeedEvent /\ e.uuid = u /\ e.type = "session_removed"
    BY <2>2, FeedEventTyped
  <2>4. Pushed(e)
    BY <1>2, <2>2 DEF RowRemoved
  <2>5. EventTells(e, u)'
    BY <2>1, <2>3 DEF EventTells, DaemonTyped
  <2>6. DaemonTyped' /\ \A v \in RowUuid \ {u} : RowStays(v)
    BY <2>1 DEF DaemonTyped, RowStays
  <2> QED BY <2>3, <2>4, <2>5, <2>6
<1>3. ASSUME WrapCloses(u)
      PROVE  /\ DaemonTyped'
             /\ \E e \in FeedEvent : Pushed(e) /\ e.uuid = u /\ EventTells(e, u)'
             /\ \A v \in RowUuid \ {u} : RowStays(v)
  <2>1. changes' \in Nat /\ rows' = [rows EXCEPT ![u] = changes'] /\ labels' = labels \ {u}
    BY <1>3 DEF WrapCloses, DaemonTyped, Without
  <2>2. PICK e : e = [type |-> "session_changed", uuid |-> u, row |-> changes']
    OBVIOUS
  <2>3. e \in FeedEvent /\ e.uuid = u /\ e.type = "session_changed" /\ e.row = changes'
    BY <2>1, <2>2, FeedEventTyped
  <2>4. Pushed(e)
    BY <1>3, <2>2 DEF WrapCloses
  <2>5. rows'[u] = changes'
    BY <2>1 DEF DaemonTyped
  <2>6. EventTells(e, u)'
    BY <2>3, <2>5 DEF EventTells
  <2>7. DaemonTyped' /\ \A v \in RowUuid \ {u} : RowStays(v)
    BY <2>1 DEF DaemonTyped, RowStays
  <2> QED BY <2>3, <2>4, <2>6, <2>7
<1>4. ASSUME NEW on \in BOOLEAN, Activity(u, on)
      PROVE  /\ DaemonTyped'
             /\ \E e \in FeedEvent : Pushed(e) /\ e.uuid = u /\ EventTells(e, u)'
             /\ \A v \in RowUuid \ {u} : RowStays(v)
  <2>1. /\ rows' = rows /\ changes' = changes /\ rows[u] # 0
        /\ labels' = IF on THEN labels \cup {u} ELSE labels \ {u}
    BY <1>4 DEF Activity, Without
  <2>2. PICK e : e = [type |-> "activity", uuid |-> u, on |-> on]
    OBVIOUS
  <2>3. e \in FeedEvent /\ e.uuid = u /\ e.type = "activity" /\ e.on = on
    BY <2>2, FeedEventTyped
  <2>4. Pushed(e)
    BY <1>4, <2>2 DEF Activity
  <2>5. EventTells(e, u)'
    BY <2>1, <2>3 DEF EventTells
  <2>6. DaemonTyped' /\ \A v \in RowUuid \ {u} : RowStays(v)
    BY <2>1 DEF DaemonTyped, RowStays
  <2> QED BY <2>3, <2>4, <2>5, <2>6
<1>5. UNCHANGED <<answers, sessions, activities>>
  BY DEF RowStep, RowChanges, RowRemoved, WrapCloses, Activity, pageVars
<1> QED BY <1>1, <1>2, <1>3, <1>4, <1>5 DEF RowStep

\* What an answer and a message find.
LEMMA SnapshotTells ==
    ASSUME DaemonTyped
    PROVE  /\ Snapshot \in Told
           /\ \A u \in RowUuid : Snapshot.rows[u] = rows[u] /\ (u \in Snapshot.labels <=> u \in labels)
  BY DEF DaemonTyped, Told, Snapshot

LEMMA AnswerFields ==
    ASSUME NEW a \in Told
    PROVE  a.rows \in [RowUuid -> Nat] /\ a.labels \subseteq RowUuid
  BY DEF Told

LEMMA FeedStaysTyped == FeedSpec => []FeedTyped
<1>1. FeedInit => FeedTyped
  BY EmptySeq, FeedBounds
  DEF FeedInit, FeedTyped, WireTyped, DaemonTyped, AnswersTyped, PageTyped, NoRows
<1>2. FeedTyped /\ [FeedNext]_feedVars => FeedTyped'
  <2> SUFFICES ASSUME FeedTyped, [FeedNext]_feedVars PROVE FeedTyped'
    OBVIOUS
  <2> USE DEF FeedTyped
  <2>1. CASE UNCHANGED feedVars
    BY <2>1 DEF feedVars, daemonVars, pageVars, WireTyped, DaemonTyped, AnswersTyped, PageTyped
  <2>2. ASSUME NEW u \in RowUuid, RowStep(u) PROVE FeedTyped'
    <3>1. PICK e \in FeedEvent : Pushed(e)
      BY <2>2, DaemonAnnounces
    <3>2. WireTyped'
      BY <3>1, PushedIsLast DEF WireTyped
    <3> QED
      BY <2>2, <3>2, DaemonAnnounces DEF AnswersTyped, PageTyped
  <2>3. ASSUME NEW again \in BOOLEAN, WsOpens(again) PROVE FeedTyped'
    BY <2>3 DEF WsOpens, daemonVars, pageVars, WireTyped, DaemonTyped, AnswersTyped, PageTyped
  <2>4. CASE WsCloses \/ PageReload
    <3>1. WireTyped'
      <4>1. wire' = <<>>
        BY <2>4 DEF WsCloses, PageReload
      <4> QED BY <4>1, EmptySeq, FeedBounds DEF WireTyped
    <3>2. DaemonTyped'
      BY <2>4 DEF WsCloses, PageReload, DaemonTyped, daemonVars
    <3>3. AnswersTyped' /\ PageTyped'
      BY <2>4 DEF WsCloses, PageReload, AnswersTyped, PageTyped, pageVars, NoRows
    <3> QED BY <3>1, <3>2, <3>3
  <2>5. ASSUME NEW f \in FetchKind, Answered(f) PROVE FeedTyped'
    <3>1. AnswersTyped'
      BY <2>5, SnapshotTells DEF Answered, AnswersTyped
    <3> QED
      BY <2>5, <3>1 DEF Answered, daemonVars, pageVars, WireTyped, DaemonTyped, PageTyped
  <2>6. ASSUME NEW f \in FetchKind, FetchFails(f) PROVE FeedTyped'
    BY <2>6 DEF FetchFails, daemonVars, pageVars, WireTyped, DaemonTyped, AnswersTyped, PageTyped
  <2>7. ASSUME NEW f \in FetchKind, Apply(f) PROVE FeedTyped'
    <3>1. answers[f] \in Told
      BY <2>7 DEF Apply, AnswersTyped
    <3>2. answers[f].rows \in [RowUuid -> Nat] /\ answers[f].labels \subseteq RowUuid
      BY <3>1, AnswerFields
    <3>3. PageTyped'
      BY <2>7, <3>2 DEF Apply, PageTyped, Merged, Seeded
    <3> QED
      BY <2>7, <3>3 DEF Apply, daemonVars, WireTyped, DaemonTyped, AnswersTyped
  <2>8. CASE handleWsMessage
    <3>1. WireTyped'
      <4>1. wire' \in Seq(FeedEvent) /\ Len(wire') = Len(wire) - 1
        BY <2>8, WireTail DEF handleWsMessage
      <4>2. Len(wire) \in Nat /\ Len(wire) <= MaxWire
        BY DEF WireTyped
      <4> QED BY <4>1, <4>2, FeedBounds DEF WireTyped
    <3>2. Head(wire) \in FeedEvent
      BY <2>8, WireTail DEF handleWsMessage
    <3>3. PageTyped'
      BY <2>8, <3>2, EventFields DEF handleWsMessage, PageTyped, Without
    <3> QED
      BY <2>8, <3>1, <3>3 DEF handleWsMessage, daemonVars, DaemonTyped, AnswersTyped
  <2> QED
    BY <2>1, <2>2, <2>3, <2>4, <2>5, <2>6, <2>7, <2>8 DEF FeedNext, RowStep
<1> QED BY <1>1, <1>2, PTL DEF FeedSpec

----------------------------------------------------------------------------

\* Events under way are as they were or gone, or the first has been handled, or
\* one that tells what is so has come last.
LEMMA OnlyTrueEventsAdded ==
    ASSUME FeedTyped, FeedNext, NEW u \in RowUuid, RowStays(u)
    PROVE  \/ wire' = wire
           \/ wire' = <<>>
           \/ handleWsMessage
           \/ \E e \in FeedEvent : Pushed(e) /\ EventTells(e, u)'
<1>1. ASSUME NEW v \in RowUuid, RowStep(v)
      PROVE  \E e \in FeedEvent : Pushed(e) /\ EventTells(e, u)'
  <2>1. PICK e \in FeedEvent : Pushed(e) /\ e.uuid = v /\ EventTells(e, v)'
    BY <1>1, DaemonAnnounces DEF FeedTyped
  <2> QED BY <2>1 DEF EventTells
<1>2. CASE handleWsMessage \/ WsCloses \/ PageReload
  BY <1>2 DEF WsCloses, PageReload
<1>3. ASSUME NEW f \in FetchKind, Answered(f) \/ FetchFails(f) \/ Apply(f) PROVE wire' = wire
  BY <1>3 DEF Answered, FetchFails, Apply
<1>4. ASSUME NEW again \in BOOLEAN, WsOpens(again) PROVE wire' = wire
  BY <1>4 DEF WsOpens
<1> QED
  BY <1>1, <1>2, <1>3, <1>4 DEF FeedNext, RowStep

LEMMA EventStaysTrue ==
    ASSUME NEW e, NEW u \in RowUuid, RowStays(u), EventTells(e, u)
    PROVE  EventTells(e, u)'
  BY DEF EventTells, RowStays

LEMMA OldEventsGetFewer ==
    ASSUME FeedTyped, FeedNext, NEW u \in RowUuid, RowStays(u), NEW n \in Nat, n >= 1, TellsFrom(n, u)
    PROVE  /\ TellsFrom(n, u)'
           /\ handleWsMessage /\ n > 1 => TellsFrom(n - 1, u)'
<1>0. Len(wire) \in Nat
  BY DEF FeedTyped, WireTyped
<1>1. ASSUME handleWsMessage PROVE TellsFrom(n, u)' /\ (n > 1 => TellsFrom(n - 1, u)')
  <2>1. /\ Len(wire') = Len(wire) - 1
        /\ \A i \in 1..Len(wire') : wire'[i] = wire[i + 1]
    BY <1>1, WireTail DEF handleWsMessage, FeedTyped
  <2>2. \A i \in 1..Len(wire') : i + 1 >= n => EventTells(wire[i], u)'
    <3> SUFFICES ASSUME NEW i \in 1..Len(wire'), i + 1 >= n PROVE EventTells(wire[i], u)'
      OBVIOUS
    <3>1. PICK e : e = wire[i + 1]
      OBVIOUS
    <3>2. EventTells(e, u) /\ wire'[i] = e
      BY <1>0, <2>1, <3>1 DEF TellsFrom
    <3>3. EventTells(e, u)'
      BY <3>2, EventStaysTrue
    <3> QED BY <3>2, <3>3
  <2>3. Len(wire') \in Nat
    BY <1>0, <1>1, WireTail DEF handleWsMessage, FeedTyped
  <2>4. \A i \in n..Len(wire') : i \in 1..Len(wire') /\ i + 1 >= n
    BY <2>3
  <2>5. n > 1 => \A i \in (n - 1)..Len(wire') : i \in 1..Len(wire') /\ i + 1 >= n
    BY <2>3
  <2> QED BY <2>2, <2>4, <2>5 DEF TellsFrom
<1>2. ASSUME NEW e \in FeedEvent, Pushed(e), EventTells(e, u)' PROVE TellsFrom(n, u)'
  <2>1. /\ Len(wire') \in Nat
        /\ \A i \in 1..Len(wire) : wire'[i] = wire[i]
        /\ \A i \in 1..Len(wire') : i \in 1..Len(wire) \/ wire'[i] = e
    BY <1>2, PushedIsLast DEF FeedTyped
  <2>2. ASSUME NEW i \in n..Len(wire') PROVE EventTells(wire[i], u)'
    <3>1. CASE i \in 1..Len(wire)
      <4>1. PICK d : d = wire[i]
        OBVIOUS
      <4>2. EventTells(d, u) /\ wire'[i] = d
        BY <1>0, <2>1, <3>1, <4>1 DEF TellsFrom
      <4> QED BY <4>2, EventStaysTrue
    <3>2. CASE i \notin 1..Len(wire)
      <4>1. wire'[i] = e
        BY <2>1, <3>2
      <4> QED BY <1>2, <4>1
    <3> QED BY <3>1, <3>2
  <2> QED BY <2>2 DEF TellsFrom
<1>3. ASSUME wire' = wire PROVE TellsFrom(n, u)'
  <2>1. ASSUME NEW i \in n..Len(wire) PROVE EventTells(wire[i], u)'
    <3>1. PICK e : e = wire[i]
      OBVIOUS
    <3>2. EventTells(e, u)
      BY <2>1, <3>1 DEF TellsFrom
    <3> QED BY <1>3, <3>1, <3>2, EventStaysTrue
  <2> QED BY <1>3, <2>1 DEF TellsFrom
<1>4. ASSUME wire' = <<>> PROVE TellsFrom(n, u)'
  BY <1>4 DEF TellsFrom
<1>5. handleWsMessage \/ TellsFrom(n, u)'
  BY <1>2, <1>3, <1>4, OnlyTrueEventsAdded
<1> QED BY <1>1, <1>5

LEMMA OldAnswersGetFewer ==
    ASSUME FeedTyped, FeedNext, NEW u \in RowUuid, RowStays(u), NEW f \in FetchKind,
           AnswerTells(f, u) \/ Apply(f)
    PROVE  AnswerTells(f, u)'
<1>1. answers'[f] = answers[f] \/ answers'[f] = None \/ Answered(f)
  <2>1. ASSUME NEW v \in RowUuid, RowStep(v) PROVE answers'[f] = answers[f]
    BY <2>1, DaemonAnnounces DEF FeedTyped
  <2>2. CASE handleWsMessage \/ WsCloses \/ \E again \in BOOLEAN : WsOpens(again)
    BY <2>2 DEF handleWsMessage, WsCloses, WsOpens
  <2>3. CASE PageReload
    BY <2>3 DEF PageReload
  <2>4. ASSUME NEW g \in FetchKind, Answered(g) \/ FetchFails(g) \/ Apply(g)
        PROVE  answers'[f] = answers[f] \/ answers'[f] = None \/ Answered(f)
    BY <2>4 DEF Answered, FetchFails, Apply, FeedTyped, AnswersTyped
  <2> QED
    BY <2>1, <2>2, <2>3, <2>4 DEF FeedNext, RowStep
<1>2. CASE Answered(f)
  <2>1. answers'[f] = Snapshot /\ rows' = rows /\ labels' = labels
    BY <1>2 DEF Answered, daemonVars, FeedTyped, AnswersTyped
  <2> QED BY <2>1, SnapshotTells DEF AnswerTells, FeedTyped
<1>3. CASE answers'[f] = None
  BY <1>3 DEF AnswerTells
<1>4. CASE answers'[f] = answers[f]
  <2>1. Apply(f) => answers'[f] = None
    BY DEF Apply, FeedTyped, AnswersTyped
  <2> QED BY <1>3, <1>4, <2>1 DEF AnswerTells, RowStays
<1> QED BY <1>1, <1>2, <1>3, <1>4

\* With nothing old under way every answer and event shows a session right.
LEMMA TrueNewsShowRight ==
    ASSUME FeedTyped, FeedNext, NEW u \in RowUuid, RowStays(u), NothingOld(u),
           RowShown(u) \/ \E f \in FetchKind : Apply(f)
    PROVE  RowShown(u)' \/ PageReload
<1>1. ASSUME NEW f \in FetchKind, Apply(f) PROVE RowShown(u)'
  <2>1. answers[f] # None /\ answers[f] \in Told
    BY <1>1 DEF Apply, FeedTyped, AnswersTyped
  <2>2. PICK a : a = answers[f]
    OBVIOUS
  <2>3. a.rows \in [RowUuid -> Nat] /\ a.labels \subseteq RowUuid
    BY <2>1, <2>2, AnswerFields
  <2>4. a.rows[u] = rows[u] /\ (u \in a.labels <=> u \in labels)
    BY <2>1, <2>2 DEF NothingOld, AnswerTells
  <2>5. /\ sessions' = a.rows
        /\ activities' \in {Seeded(activities, a.labels), a.labels, activities \cup a.labels}
        /\ rows' = rows /\ labels' = labels
    BY <1>1, <2>2 DEF Apply, Merged, daemonVars
  <2>6. u \in a.labels => u \in activities'
    BY <2>5 DEF Seeded
  <2> QED BY <2>4, <2>5, <2>6 DEF RowShown
<1>2. ASSUME handleWsMessage, RowShown(u) PROVE RowShown(u)'
  <2>1. PICK e : e = Head(wire)
    OBVIOUS
  <2>2. e \in FeedEvent /\ EventTells(e, u)
    <3>1. wire # <<>>
      BY <1>2 DEF handleWsMessage
    <3>2. Head(wire) = wire[1] /\ 1 \in 1..Len(wire) /\ Head(wire) \in FeedEvent
      BY <3>1, WireTail DEF FeedTyped
    <3> QED BY <2>1, <3>2 DEF NothingOld, TellsFrom
  <2>3. /\ e.uuid \in RowUuid
        /\ e.type = "session_changed" => e.row \in Nat
        /\ e.type = "activity" => e.on \in BOOLEAN
    BY <2>2, EventFields
  <2>4. /\ UNCHANGED <<rows, labels>>
        /\ \/ /\ e.type = "session_changed"
              /\ sessions' = [sessions EXCEPT ![e.uuid] = e.row]
              /\ activities' = activities
           \/ /\ e.type = "session_removed"
              /\ sessions' = [sessions EXCEPT ![e.uuid] = 0]
              /\ activities' = activities \ {e.uuid}
           \/ /\ e.type = "activity"
              /\ activities' = IF e.on THEN activities \cup {e.uuid}
                               ELSE activities \ {e.uuid}
              /\ sessions' = sessions
    BY <1>2, <2>1 DEF handleWsMessage, daemonVars, Without
  <2>5. /\ rows[u] = 0 => u \notin labels
        /\ sessions \in [RowUuid -> Nat]
    BY DEF FeedTyped, DaemonTyped, PageTyped
  <2>6. CASE e.uuid = u
    BY <1>2, <2>2, <2>3, <2>4, <2>5, <2>6 DEF RowShown, EventTells
  <2>7. CASE e.uuid # u
    BY <1>2, <2>3, <2>4, <2>5, <2>7 DEF RowShown
  <2> QED BY <2>6, <2>7
<1>3. ASSUME UNCHANGED <<sessions, activities>>, RowShown(u) PROVE RowShown(u)'
  BY <1>3 DEF RowShown, RowStays
<1>4. ASSUME NEW v \in RowUuid, RowStep(v) PROVE UNCHANGED <<sessions, activities>>
  BY <1>4, DaemonAnnounces DEF FeedTyped
<1>5. CASE WsCloses \/ (\E again \in BOOLEAN : WsOpens(again))
             \/ \E f \in FetchKind : Answered(f) \/ FetchFails(f)
  BY <1>3, <1>5, <1>1 DEF WsCloses, WsOpens, Answered, FetchFails, pageVars
<1> QED
  BY <1>1, <1>2, <1>3, <1>4, <1>5 DEF FeedNext, RowStep

\* While the daemon's row and badge of a session stay as they are, what is old
\* under way gets less, and then the next answer shows the session right for good:
\* the safety half of FeedConverges (poll and handleWsMessage of src/web/app.tsx).
THEOREM PageDoesCatchUp == FeedSpec => PageCatchesUp
<1> DEFINE Catches(u) ==
      /\ \A f \in FetchKind : AnswerTells(f, u) \/ Apply(f) => AnswerTells(f, u)'
      /\ \A n \in 1..MaxWire + 1 :
           TellsFrom(n, u) => /\ TellsFrom(n, u)'
                              /\ handleWsMessage /\ n > 1 => TellsFrom(n - 1, u)'
      /\ NothingOld(u) /\ (RowShown(u) \/ \E f \in FetchKind : Apply(f)) =>
           RowShown(u)' \/ PageReload
<1>1. ASSUME FeedTyped, FeedNext, NEW u \in RowUuid, RowStays(u) PROVE Catches(u)
  <2>1. \A n \in 1..MaxWire + 1 :
           TellsFrom(n, u) => /\ TellsFrom(n, u)'
                              /\ handleWsMessage /\ n > 1 => TellsFrom(n - 1, u)'
    <3> SUFFICES ASSUME NEW n \in 1..MaxWire + 1, TellsFrom(n, u)
                 PROVE  /\ TellsFrom(n, u)'
                        /\ handleWsMessage /\ n > 1 => TellsFrom(n - 1, u)'
      OBVIOUS
    <3>1. n \in Nat /\ n >= 1
      BY FeedBounds
    <3> QED BY <1>1, <3>1, OldEventsGetFewer
  <2> QED BY <1>1, <2>1, OldAnswersGetFewer, TrueNewsShowRight
<1>2. FeedTyped /\ [FeedNext]_feedVars => [\A u \in RowUuid : RowStays(u) => Catches(u)]_feedVars
  BY <1>1
<1> QED BY <1>2, FeedStaysTyped, PTL DEF FeedSpec, PageCatchesUp

----------------------------------------------------------------------------
(* The overlays of the running turn.                                       *)

TurnEvent ==
    [type : {"user_message"}, ts : Nat]
    \cup [type : {"assistant_delta_start", "assistant_delta", "assistant_delta_end"}]

\* What OverlayStaysAway needs to know: the types, that instants lie behind, and
\* that an event under way is about a prompt that has been taken.
InstantsTyped ==
    /\ instant \in Nat /\ taken \in 0..instant /\ userOverlay \in 0..instant
    /\ file \in [user : 0..instant, asst : Nat]
    /\ previews \in [Lane -> {None} \cup [user : Nat, asst : Nat]]

EventsTyped ==
    /\ events \in Seq(TurnEvent) /\ Len(events) <= MaxEvents
    /\ \A i \in 1..Len(events) : events[i].type = "user_message" => events[i].ts <= taken

TurnsTyped == InstantsTyped /\ EventsTyped

\* An event that is sent is the last of those under way.
LEMMA SentIsLast ==
    ASSUME TurnsTyped, NEW e \in TurnEvent, Sent(e)
    PROVE  /\ events' \in Seq(TurnEvent) /\ Len(events') <= MaxEvents
           /\ Len(events') >= Len(events)
           /\ \A i \in 1..Len(events) : events'[i] = events[i]
           /\ \A i \in 1..Len(events') : i \in 1..Len(events) \/ events'[i] = e
  BY TurnsBounds, AppendProperties DEF TurnsTyped, InstantsTyped, EventsTyped, Sent

\* What is under way once it is sent was said of prompts taken by then.
LEMMA SentStaysTyped ==
    ASSUME TurnsTyped, NEW e \in TurnEvent, Sent(e), taken' \in Nat, taken' >= taken,
           e.type = "user_message" => e.ts <= taken'
    PROVE  EventsTyped'
<1>1. /\ events' \in Seq(TurnEvent) /\ Len(events') <= MaxEvents
      /\ \A i \in 1..Len(events) : events'[i] = events[i]
      /\ \A i \in 1..Len(events') : i \in 1..Len(events) \/ events'[i] = e
  BY SentIsLast
<1>2. ASSUME NEW i \in 1..Len(events'), events'[i].type = "user_message"
      PROVE  events'[i].ts <= taken'
  <2>1. CASE i \in 1..Len(events)
    <3>1. events[i] \in TurnEvent /\ events[i].ts <= taken
      BY <1>1, <1>2, <2>1 DEF TurnsTyped, InstantsTyped, EventsTyped
    <3>2. events[i].ts \in Nat
      BY <1>1, <1>2, <2>1, <3>1 DEF TurnEvent
    <3> QED BY <1>1, <2>1, <3>1, <3>2 DEF TurnsTyped, InstantsTyped, EventsTyped
  <2>2. CASE events'[i] = e
    BY <1>2, <2>2
  <2> QED BY <1>1, <1>2, <2>1, <2>2
<1> QED BY <1>1, <1>2 DEF EventsTyped

LEMMA UserMessageTyped ==
    ASSUME NEW n \in Nat
    PROVE  /\ [type |-> "user_message", ts |-> n] \in TurnEvent
           /\ [type |-> "user_message", ts |-> n].ts = n
           /\ [type |-> "assistant_delta_start"] \in TurnEvent
           /\ [type |-> "assistant_delta"] \in TurnEvent
           /\ [type |-> "assistant_delta_end"] \in TurnEvent
  BY DEF TurnEvent

\* The events that are left when one is handled.
LEMMA TailIsLater ==
    ASSUME TurnsTyped, events # <<>>
    PROVE  /\ Tail(events) \in Seq(TurnEvent) /\ Len(Tail(events)) = Len(events) - 1
           /\ \A i \in 1..Len(Tail(events)) : Tail(events)[i] = events[i + 1]
           /\ Head(events) = events[1] /\ 1 \in 1..Len(events)
           /\ Head(events) \in TurnEvent
  BY HeadTailProperties, EmptySeq DEF TurnsTyped, InstantsTyped, EventsTyped

LEMMA TurnsStayTyped == TurnsSpec => []TurnsTyped
<1> USE TurnsBounds
<1>1. TurnsInit => TurnsTyped
  BY EmptySeq DEF TurnsInit, TurnsTyped, InstantsTyped, EventsTyped, Blank
<1>2. TurnsTyped /\ [TurnsNext]_turnVars => TurnsTyped'
  <2> SUFFICES ASSUME TurnsTyped, [TurnsNext]_turnVars PROVE TurnsTyped'
    OBVIOUS
  <2>1. CASE UNCHANGED turnVars
    BY <2>1 DEF TurnsTyped, InstantsTyped, EventsTyped, turnVars, wrapper, overlays
  <2>2. CASE Prompted
    <3>1. instant' \in Nat /\ instant' = instant + 1 /\ taken' = instant'
          /\ Sent([type |-> "user_message", ts |-> instant'])
      BY <2>2 DEF Prompted, Later, TurnsTyped, InstantsTyped
    <3>2. EventsTyped'
      <4>1. PICK e : e = [type |-> "user_message", ts |-> instant']
        OBVIOUS
      <4>2. e \in TurnEvent /\ e.ts = instant' /\ Sent(e)
        BY <3>1, <4>1, UserMessageTyped
      <4>3. taken' \in Nat /\ taken' >= taken /\ e.ts <= taken'
        BY <3>1, <4>2 DEF TurnsTyped, InstantsTyped
      <4> QED BY <4>2, <4>3, SentStaysTyped
    <3> QED
      BY <2>2, <3>1, <3>2 DEF Prompted, TurnsTyped, InstantsTyped, overlays
  <2>3. CASE UserTurnWritten
    BY <2>3 DEF UserTurnWritten, TurnsTyped, InstantsTyped, EventsTyped, overlays
  <2>4. CASE ReplyStarts \/ ReplyGrows \/ ReplyEnds
    <3>1. /\ \E k \in {"assistant_delta_start", "assistant_delta", "assistant_delta_end"} :
                Sent([type |-> k])
          /\ UNCHANGED <<instant, file, taken, previews, overlays>>
      BY <2>4 DEF ReplyStarts, ReplyGrows, ReplyEnds, wrapper
    <3>2. EventsTyped'
      <4>1. PICK k \in {"assistant_delta_start", "assistant_delta", "assistant_delta_end"} :
              Sent([type |-> k])
        BY <3>1
      <4>2. PICK e : e = [type |-> k]
        OBVIOUS
      <4>3. e \in TurnEvent /\ e.type # "user_message" /\ Sent(e)
        BY <4>1, <4>2 DEF TurnEvent
      <4>4. taken' \in Nat /\ taken' >= taken
        BY <3>1 DEF TurnsTyped, InstantsTyped
      <4> QED BY <4>3, <4>4, SentStaysTyped
    <3> QED
      BY <3>1, <3>2 DEF TurnsTyped, InstantsTyped, overlays
  <2>5. CASE ReplyWritten
    BY <2>5 DEF ReplyWritten, Later, TurnsTyped, InstantsTyped, EventsTyped, overlays
  <2>6. CASE handleTurnEvent
    <3>1. /\ events' \in Seq(TurnEvent) /\ Len(events') = Len(events) - 1
          /\ \A i \in 1..Len(events') : events'[i] = events[i + 1]
          /\ Head(events) = events[1] /\ 1 \in 1..Len(events) /\ Head(events) \in TurnEvent
          /\ events' = Tail(events)
      BY <2>6, TailIsLater DEF handleTurnEvent
    <3>2. UNCHANGED <<instant, file, taken, previews>>
      BY <2>6 DEF handleTurnEvent, wrapper
    <3>3. EventsTyped'
      BY <3>1, <3>2 DEF EventsTyped, TurnsTyped, InstantsTyped
    <3>4. \/ userOverlay' = userOverlay
          \/ Head(events).type = "user_message" /\ userOverlay' = Head(events).ts
      BY <2>6 DEF handleTurnEvent
    <3>5. userOverlay' \in 0..instant
      <4>1. CASE userOverlay' = userOverlay
        BY <4>1 DEF TurnsTyped, InstantsTyped
      <4>2. CASE Head(events).type = "user_message" /\ userOverlay' = Head(events).ts
        <5>1. Head(events).ts <= taken /\ Head(events).ts \in Nat
          BY <3>1, <4>2 DEF TurnsTyped, EventsTyped, TurnEvent
        <5> QED BY <4>2, <5>1 DEF TurnsTyped, InstantsTyped
      <4> QED BY <3>4, <4>1, <4>2
    <3> QED
      BY <3>2, <3>3, <3>5 DEF TurnsTyped, InstantsTyped
  <2>7. ASSUME NEW ok \in BOOLEAN, onSend(ok) PROVE TurnsTyped'
    <3>1. instant' \in Nat /\ instant' = instant + 1 /\ userOverlay' = instant'
          /\ UNCHANGED <<file, previews>>
      BY <2>7 DEF onSend, Later, TurnsTyped, InstantsTyped
    <3>2. EventsTyped' /\ taken' \in 0..instant'
      <4>1. CASE ok
        <5>1. taken' = instant' /\ Sent([type |-> "user_message", ts |-> instant'])
          BY <2>7, <4>1 DEF onSend
        <5> QED BY <3>1, <5>1, UserMessageTyped, SentStaysTyped DEF TurnsTyped, InstantsTyped
      <4>2. CASE ~ok
        BY <2>7, <3>1, <4>2 DEF onSend, TurnsTyped, InstantsTyped, EventsTyped
      <4> QED BY <4>1, <4>2
    <3> QED
      BY <3>1, <3>2 DEF TurnsTyped, InstantsTyped
  <2>8. ASSUME NEW l \in Lane, PreviewsAnswered(l) \/ PreviewsFail(l) \/ loadPreviews(l)
        PROVE  TurnsTyped'
    <3>1. UNCHANGED <<wrapper, events>> /\ userOverlay' \in {0, userOverlay}
      BY <2>8 DEF PreviewsAnswered, PreviewsFail, loadPreviews, overlays
    <3>2. previews' \in [Lane -> {None} \cup [user : Nat, asst : Nat]]
      <4>1. file \in [user : Nat, asst : Nat]
        BY DEF TurnsTyped, InstantsTyped
      <4> QED BY <2>8, <4>1 DEF PreviewsAnswered, PreviewsFail, loadPreviews, TurnsTyped, InstantsTyped
    <3> QED
      BY <3>1, <3>2 DEF TurnsTyped, InstantsTyped, EventsTyped, wrapper
  <2>9. CASE SocketCloses \/ SocketOpens \/ PageReloads
    <3>1. UNCHANGED wrapper /\ events' \in {events, <<>>}
      BY <2>9 DEF SocketCloses, SocketOpens, PageReloads
    <3>2. EventsTyped'
      <4>1. CASE events' = events
        BY <3>1, <4>1 DEF TurnsTyped, EventsTyped, wrapper
      <4>2. CASE events' = <<>>
        BY <4>2, EmptySeq DEF TurnsTyped, EventsTyped
      <4> QED BY <3>1, <4>1, <4>2
    <3>3. InstantsTyped'
      BY <2>9, <3>1 DEF SocketCloses, SocketOpens, PageReloads, TurnsTyped, InstantsTyped,
                        wrapper, overlays
    <3> QED BY <3>2, <3>3 DEF TurnsTyped
  <2> QED
    BY <2>1, <2>2, <2>3, <2>4, <2>5, <2>6, <2>7, <2>8, <2>9 DEF TurnsNext
<1> QED BY <1>1, <1>2, PTL DEF TurnsSpec

\* As long as no prompt is taken, events under way are as they were or gone, or
\* the first has been handled, or one that is no prompt has come last.
LEMMA OnlyRepliesAdded ==
    ASSUME TurnsTyped, TurnsNext, taken' = taken
    PROVE  \/ events' = events
           \/ events' = <<>>
           \/ handleTurnEvent
           \/ \E e \in TurnEvent : e.type # "user_message" /\ Sent(e)
<1>1. CASE Prompted
  BY <1>1 DEF Prompted, Later, TurnsTyped, InstantsTyped
<1>2. CASE UserTurnWritten \/ ReplyWritten
  BY <1>2 DEF UserTurnWritten, ReplyWritten
<1>3. CASE ReplyStarts \/ ReplyGrows \/ ReplyEnds
  <2>1. PICK k \in {"assistant_delta_start", "assistant_delta", "assistant_delta_end"} :
          Sent([type |-> k])
    BY <1>3 DEF ReplyStarts, ReplyGrows, ReplyEnds
  <2>2. PICK e : e = [type |-> k]
    OBVIOUS
  <2>3. e \in TurnEvent /\ e.type # "user_message" /\ Sent(e)
    BY <2>1, <2>2 DEF TurnEvent
  <2> QED BY <2>3
<1>4. ASSUME NEW ok \in BOOLEAN, onSend(ok) PROVE events' = events
  BY <1>4 DEF onSend, Later, TurnsTyped, InstantsTyped
<1>5. ASSUME NEW l \in Lane, PreviewsAnswered(l) \/ PreviewsFail(l) \/ loadPreviews(l)
      PROVE  events' = events
  BY <1>5 DEF PreviewsAnswered, PreviewsFail, loadPreviews
<1>6. CASE SocketCloses \/ SocketOpens \/ PageReloads
  BY <1>6 DEF SocketCloses, SocketOpens, PageReloads
<1> QED
  BY <1>1, <1>2, <1>3, <1>4, <1>5, <1>6 DEF TurnsNext

LEMMA PromptsGetFewer ==
    ASSUME TurnsTyped, TurnsNext, taken' = taken, NEW n \in Nat, n >= 1, NoPromptFrom(n)
    PROVE  /\ NoPromptFrom(n)'
           /\ handleTurnEvent /\ n > 1 => NoPromptFrom(n - 1)'
<1>0. Len(events) \in Nat
  BY DEF TurnsTyped, EventsTyped
<1>1. ASSUME handleTurnEvent PROVE NoPromptFrom(n)' /\ (n > 1 => NoPromptFrom(n - 1)')
  <2>1. /\ Len(events') = Len(events) - 1
        /\ \A i \in 1..Len(events') : events'[i] = events[i + 1]
    BY <1>1, TailIsLater DEF handleTurnEvent
  <2>2. \A i \in n..Len(events') : events'[i].type # "user_message"
    BY <1>0, <2>1 DEF NoPromptFrom
  <2>3. n > 1 => \A i \in (n - 1)..Len(events') : events'[i].type # "user_message"
    BY <1>0, <2>1 DEF NoPromptFrom
  <2> QED BY <2>2, <2>3 DEF NoPromptFrom
<1>2. ASSUME NEW e \in TurnEvent, e.type # "user_message", Sent(e) PROVE NoPromptFrom(n)'
  <2>1. /\ Len(events') \in Nat
        /\ \A i \in 1..Len(events) : events'[i] = events[i]
        /\ \A i \in 1..Len(events') : i \in 1..Len(events) \/ events'[i] = e
    BY <1>2, SentIsLast
  <2>2. \A i \in n..Len(events') : events'[i].type # "user_message"
    BY <1>0, <1>2, <2>1 DEF NoPromptFrom
  <2> QED BY <2>2 DEF NoPromptFrom
<1>3. ASSUME events' = events \/ events' = <<>> PROVE NoPromptFrom(n)'
  BY <1>3 DEF NoPromptFrom
<1>4. handleTurnEvent \/ NoPromptFrom(n)'
  BY <1>2, <1>3, OnlyRepliesAdded
<1> QED BY <1>1, <1>4

LEMMA FileKeepsPrompt ==
    ASSUME TurnsTyped, TurnsNext, taken' = taken, file.user >= taken
    PROVE  /\ file'.user >= taken
           /\ \A l \in Lane : HasPrompt(l) \/ loadPreviews(l) => HasPrompt(l)'
<1>1. UNCHANGED <<file, previews>> \/ ReplyWritten \/ PageReloads
        \/ \E l \in Lane : PreviewsAnswered(l) \/ PreviewsFail(l) \/ loadPreviews(l)
  BY DEF TurnsNext, Prompted, UserTurnWritten, ReplyStarts, ReplyGrows, ReplyEnds,
         handleTurnEvent, onSend, SocketCloses, SocketOpens, wrapper, TurnsTyped, InstantsTyped
<1>2. file'.user = file.user
  BY <1>1 DEF ReplyWritten, PageReloads, PreviewsAnswered, PreviewsFail, loadPreviews, wrapper,
              TurnsTyped, InstantsTyped
<1>3. ASSUME NEW l \in Lane, HasPrompt(l) \/ loadPreviews(l) PROVE HasPrompt(l)'
  <2>1. previews'[l] \in {None, file, previews[l]} /\ (loadPreviews(l) => previews'[l] = None)
    BY <1>1 DEF ReplyWritten, PageReloads, PreviewsAnswered, PreviewsFail, loadPreviews,
                TurnsTyped, InstantsTyped
  <2> QED BY <1>3, <2>1 DEF HasPrompt
<1> QED BY <1>2, <1>3

\* With no prompt among the events nothing is laid over again, and an answer that
\* has the prompt ends the overlay.
LEMMA OverlayGoes ==
    ASSUME TurnsTyped, TurnsNext, taken' = taken, NoPromptFrom(1)
    PROVE  /\ Yielded => Yielded'
           /\ \A l \in Lane : loadPreviews(l) /\ HasPrompt(l) => Yielded'
<1>1. ASSUME NEW l \in Lane, loadPreviews(l), HasPrompt(l) \/ Yielded PROVE Yielded'
  <2>1. previews[l] \in [user : Nat, asst : Nat]
    BY <1>1 DEF loadPreviews, TurnsTyped, InstantsTyped
  <2>2. userOverlay' = IF CaughtUp(previews[l].user, userOverlay) THEN 0 ELSE userOverlay
    BY <1>1 DEF loadPreviews
  <2>3. previews[l].user \in Nat /\ userOverlay \in Nat /\ taken \in Nat
    BY <2>1 DEF TurnsTyped, InstantsTyped
  <2>4. previews[l].user >= taken \/ Yielded
    BY <1>1 DEF loadPreviews, HasPrompt
  <2> QED BY <2>2, <2>3, <2>4 DEF CaughtUp, Yielded
<1>2. ASSUME Yielded PROVE Yielded'
  <2>1. CASE userOverlay' \in {0, userOverlay}
    BY <1>2, <2>1 DEF Yielded
  <2>2. ASSUME NEW ok \in BOOLEAN, onSend(ok) PROVE Yielded'
    BY <2>2 DEF onSend, Later, Yielded, TurnsTyped, InstantsTyped
  <2>3. CASE handleTurnEvent
    <3>1. Head(events).type # "user_message"
      <4>1. events # <<>>
        BY <2>3 DEF handleTurnEvent
      <4>2. Head(events) = events[1] /\ 1 \in 1..Len(events)
        BY <4>1, TailIsLater
      <4> QED BY <4>2 DEF NoPromptFrom
    <3>2. userOverlay' = userOverlay
      BY <2>3, <3>1 DEF handleTurnEvent
    <3> QED BY <2>1, <3>2
  <2>4. ASSUME NEW l \in Lane, loadPreviews(l) PROVE Yielded'
    BY <1>1, <1>2, <2>4
  <2> QED
    BY <2>1, <2>2, <2>3, <2>4
    DEF TurnsNext, Prompted, UserTurnWritten, ReplyStarts, ReplyGrows, ReplyEnds, ReplyWritten,
        PreviewsAnswered, PreviewsFail, SocketCloses, SocketOpens, PageReloads, overlays
<1> QED BY <1>1, <1>2

\* While no other prompt is taken, what could lay the last over the preview again
\* gets less, and the answers that end the overlay stay: the safety half of
\* OverlayYields (user_message and loadPreviews of src/web/app.tsx).
THEOREM OverlayDoesStayAway == TurnsSpec => OverlayStaysAway
<1> DEFINE Goes ==
      taken' = taken =>
        /\ file.user >= taken =>
             /\ file'.user >= taken
             /\ \A l \in Lane : HasPrompt(l) \/ loadPreviews(l) => HasPrompt(l)'
        /\ \A n \in 1..MaxEvents + 1 :
             NoPromptFrom(n) => /\ NoPromptFrom(n)'
                                /\ handleTurnEvent /\ n > 1 => NoPromptFrom(n - 1)'
        /\ NoPromptFrom(1) =>
             /\ Yielded => Yielded' /\ NoPromptFrom(1)'
             /\ \A l \in Lane : loadPreviews(l) /\ HasPrompt(l) => Yielded'
<1>1. ASSUME TurnsTyped, TurnsNext, taken' = taken PROVE Goes
  <2>1. \A n \in 1..MaxEvents + 1 :
             NoPromptFrom(n) => /\ NoPromptFrom(n)'
                                /\ handleTurnEvent /\ n > 1 => NoPromptFrom(n - 1)'
    <3> SUFFICES ASSUME NEW n \in 1..MaxEvents + 1, NoPromptFrom(n)
                 PROVE  /\ NoPromptFrom(n)'
                        /\ handleTurnEvent /\ n > 1 => NoPromptFrom(n - 1)'
      OBVIOUS
    <3>1. n \in Nat /\ n >= 1
      BY TurnsBounds
    <3> QED BY <1>1, <3>1, PromptsGetFewer
  <2>2. NoPromptFrom(1) => NoPromptFrom(1)'
    <3> SUFFICES ASSUME NoPromptFrom(1) PROVE NoPromptFrom(1)'
      OBVIOUS
    <3>1. 1 \in Nat /\ 1 >= 1
      OBVIOUS
    <3> QED BY <1>1, <3>1, PromptsGetFewer
  <2> QED BY <1>1, <2>1, <2>2, FileKeepsPrompt, OverlayGoes
<1>2. TurnsTyped /\ [TurnsNext]_turnVars => [Goes]_turnVars
  BY <1>1
<1> QED BY <1>2, TurnsStayTyped, PTL DEF TurnsSpec, OverlayStaysAway

----------------------------------------------------------------------------
(* The banner of launches.                                                 *)

Entry == [launch : Launch, rowOf : Nat, startedAt : Nat, timedOut : BOOLEAN]

EntriesTyped ==
    /\ pendings \subseteq Entry
    /\ moment \in Nat /\ made \in [Launch -> Nat] /\ listed \in [Launch -> Nat]
    /\ posting \in Launch \cup {None} /\ started \subseteq Launch

LEMMA EntriesStayTyped == SpawnSpec => []EntriesTyped
<1> USE DEF EntriesTyped
<1>1. SpawnInit => EntriesTyped
  BY DEF SpawnInit
<1>2. EntriesTyped /\ [SpawnNext]_spawnVars => EntriesTyped'
  <2> SUFFICES ASSUME EntriesTyped, [SpawnNext]_spawnVars PROVE EntriesTyped'
    OBVIOUS
  <2>1. CASE UNCHANGED spawnVars
    BY <2>1 DEF spawnVars
  <2>2. ASSUME NEW l \in Launch, submit(l) \/ RowEvent(l) PROVE EntriesTyped'
    BY <2>2 DEF submit, RowEvent
  <2>3. ASSUME NEW l \in Launch, SessionsSet(l) PROVE EntriesTyped'
    BY <2>3 DEF SessionsSet
  <2>4. CASE Start \/ StartRefused \/ MomentPasses
    BY <2>4 DEF Start, StartRefused, MomentPasses
  <2>5. CASE StartAnswered
    <3>1. [launch |-> posting, rowOf |-> made[posting], startedAt |-> moment,
           timedOut |-> FALSE] \in Entry
      BY <2>5 DEF StartAnswered, Entry
    <3> QED
      BY <2>5, <3>1 DEF StartAnswered, Kept
  <2>6. CASE TimedOut
    <3>1. \A p \in Entry : [p EXCEPT !.timedOut = p.timedOut \/ moment - p.startedAt > Patience]
                             \in Entry
      BY DEF Entry
    <3> QED
      BY <2>6, <3>1 DEF TimedOut
  <2>7. ASSUME NEW p \in pendings, dismiss(p) PROVE EntriesTyped'
    BY <2>7 DEF dismiss
  <2> QED
    BY <2>1, <2>2, <2>3, <2>4, <2>5, <2>6, <2>7 DEF SpawnNext
<1> QED BY <1>1, <1>2, PTL DEF SpawnSpec

\* A step that takes nothing but entries away.
LEMMA FewerEntries ==
    ASSUME NEW l \in Launch, pendings' \subseteq pendings, made'[l] = made[l],
           NoneFulfilled(l)
    PROVE  NoneFulfilled(l)'
  BY DEF NoneFulfilled, Fulfilled

\* What the interval makes of the entries.
LEMMA TimedOutTells ==
    ASSUME EntriesTyped, TimedOut
    PROVE  /\ \A q \in pendings' : \E p \in pendings :
                /\ q.launch = p.launch /\ q.rowOf = p.rowOf /\ q.startedAt = p.startedAt
                /\ q.timedOut <=> p.timedOut \/ moment - p.startedAt > Patience
           /\ moment' = moment /\ made' = made
  <1>1. ASSUME NEW q \in pendings'
        PROVE  \E p \in pendings :
                /\ q.launch = p.launch /\ q.rowOf = p.rowOf /\ q.startedAt = p.startedAt
                /\ q.timedOut <=> p.timedOut \/ moment - p.startedAt > Patience
    <2>1. PICK p \in pendings : q = [p EXCEPT !.timedOut = p.timedOut \/ moment - p.startedAt > Patience]
      BY <1>1 DEF TimedOut
    <2> QED
      BY <2>1 DEF EntriesTyped, Entry
  <1> QED BY <1>1 DEF TimedOut

\* Whenever the page gets the sessions, the banner keeps no entry whose row has
\* come, and none comes back by itself: the safety half of BannerSettles
\* (the auto-dismiss effect of SpawnPendingBanner in src/web/app.tsx).
THEOREM BannerDoesStayClear == SpawnSpec => BannerStaysClear
<1> DEFINE Clears(l) ==
             /\ SessionsSet(l) => NoneFulfilled(l)'
             /\ NoneFulfilled(l) => \/ NoneFulfilled(l)'
                                    \/ made'[l] # made[l]
                                    \/ posting = l /\ StartAnswered
           Tells == /\ AllSaid => AllSaid' \/ moment' # moment
                    /\ TimedOut => AllSaid'
<1>1. ASSUME EntriesTyped, SpawnNext, NEW l \in Launch PROVE Clears(l)
  <2>1. ASSUME SessionsSet(l) PROVE NoneFulfilled(l)'
    <3> SUFFICES ASSUME NEW p \in pendings', p.launch = l, Fulfilled(p)' PROVE FALSE
      BY DEF NoneFulfilled
    <3>1. p \in pendings /\ p \in Entry /\ ~(made[l] # 0 /\ Matches(p)')
      BY <1>1, <2>1 DEF SessionsSet, EntriesTyped
    <3>2. made' = made /\ listed'[l] = made[l]
      BY <1>1, <2>1 DEF SessionsSet, EntriesTyped
    <3>3. made[l] # 0 /\ made[l] >= IF l \in Named THEN p.rowOf ELSE p.startedAt
      BY <3>2 DEF Fulfilled
    <3>4. Matches(p)'
      BY <1>1, <3>1, <3>2, <3>3, SpawnBounds DEF Matches, Entry, EntriesTyped
    <3> QED BY <3>1, <3>3, <3>4
  <2>2. ASSUME NoneFulfilled(l)
        PROVE  NoneFulfilled(l)' \/ made'[l] # made[l] \/ (posting = l /\ StartAnswered)
    <3>1. ASSUME NEW m \in Launch, submit(m) \/ RowEvent(m) \/ SessionsSet(m)
          PROVE  NoneFulfilled(l)' \/ made'[l] # made[l]
      <4>1. pendings' \subseteq pendings
        BY <3>1 DEF submit, RowEvent, SessionsSet
      <4> QED BY <2>2, <4>1, FewerEntries
    <3>2. CASE Start \/ StartRefused \/ MomentPasses
      <4>1. pendings' \subseteq pendings
        BY <3>2 DEF Start, StartRefused, MomentPasses
      <4> QED BY <2>2, <4>1, FewerEntries
    <3>3. CASE StartAnswered /\ posting # l
      <4>1. \A p \in pendings' : p.launch = l => p \in pendings
        BY <3>3 DEF StartAnswered, Kept
      <4> QED BY <2>2, <3>3, <4>1 DEF StartAnswered, NoneFulfilled, Fulfilled
    <3>4. CASE TimedOut
      BY <2>2, <3>4, <1>1, TimedOutTells DEF NoneFulfilled, Fulfilled
    <3>5. ASSUME NEW p \in pendings, dismiss(p) PROVE NoneFulfilled(l)'
      BY <2>2, <3>5 DEF dismiss, NoneFulfilled, Fulfilled
    <3> QED
      BY <1>1, <3>1, <3>2, <3>3, <3>4, <3>5 DEF SpawnNext
  <2> QED BY <2>1, <2>2
<1>2. ASSUME EntriesTyped, SpawnNext PROVE Tells
  <2>1. ASSUME TimedOut PROVE AllSaid'
    BY <2>1, <1>2, TimedOutTells DEF AllSaid
  <2>2. ASSUME AllSaid PROVE AllSaid' \/ moment' # moment
    <3>1. ASSUME NEW m \in Launch, submit(m) \/ RowEvent(m) \/ SessionsSet(m) PROVE AllSaid'
      BY <2>2, <3>1 DEF submit, RowEvent, SessionsSet, AllSaid
    <3>2. CASE Start \/ StartRefused
      BY <2>2, <3>2 DEF Start, StartRefused, AllSaid
    <3>3. CASE MomentPasses
      BY <3>3, <1>2 DEF MomentPasses, EntriesTyped
    <3>4. CASE StartAnswered
      <4>1. \A p \in pendings' : p \in pendings \/ p.startedAt = moment
        BY <3>4 DEF StartAnswered, Kept
      <4>2. moment' = moment /\ moment \in Nat /\ ~(moment - moment > Patience)
        BY <3>4, <1>2, SpawnBounds DEF StartAnswered, EntriesTyped
      <4> QED BY <2>2, <4>1, <4>2 DEF AllSaid
    <3>5. ASSUME NEW p \in pendings, dismiss(p) PROVE AllSaid'
      BY <2>2, <3>5 DEF dismiss, AllSaid
    <3> QED
      BY <1>2, <2>1, <3>1, <3>2, <3>3, <3>4, <3>5 DEF SpawnNext
  <2> QED BY <2>1, <2>2
<1>3. EntriesTyped /\ [SpawnNext]_spawnVars => [(\A l \in Launch : Clears(l)) /\ Tells]_spawnVars
  BY <1>1, <1>2
<1> QED
  BY <1>3, EntriesStayTyped, PTL DEF SpawnSpec, BannerStaysClear
==============================================================================
