--------------------------- MODULE SessionsProofs ----------------------------
(***************************************************************************)
(* The daemon's session rows, for any number of sessions, launches,        *)
(* directories, hook processes and codex runs; the session files the cards *)
(* of launches show, for any number of cards, files and folders; and the   *)
(* starts of daemons, for any number of processes, wrappers and ports.     *)
(***************************************************************************)
EXTENDS Sessions, Rollouts, DaemonStart, FiniteSetTheorems,
        WellFoundedInduction, TLAPS

USE SessionsAssumption, NoneAssumption DEF Real, Id, Time

Status == {"active", "waiting", "stale"}

----------------------------------------------------------------------------
(* Types.                                                                  *)

LEMMA TypeInit == Init => TypeOK
<1> SUFFICES ASSUME Init PROVE TypeOK
  OBVIOUS
<1>1. NoTurn \in Turn
  BY DEF NoTurn, Turn
<1> QED BY <1>1 DEF Init, TypeOK

LEMMA ReportedType ==
  ASSUME TypeOK, NEW u, NEW status \in Status, NEW t \in Nat
  PROVE  Reported(u, status, t) \in [Claude -> [at : Nat, says : SUBSET Status]]
<1> SUFFICES ASSUME NEW c \in Claude, c = u
             PROVE  Believe(u, status, t) \in [at : Nat, says : SUBSET Status]
  BY DEF TypeOK, Reported, Status
<1>1. newest[u] \in [at : Nat, says : SUBSET Status]
  BY DEF TypeOK, Status
<1>2. [newest[u] EXCEPT !.says = @ \cup {status}] \in [at : Nat, says : SUBSET Status]
  BY <1>1
<1>3. [at |-> t, says |-> {status}] \in [at : Nat, says : SUBSET Status]
  OBVIOUS
<1> QED BY <1>1, <1>2, <1>3 DEF Believe

LEMMA CwdKeptType ==
  ASSUME TypeOK, NEW u \in Id, NEW cwd \in Dir PROVE CwdKept(u, cwd) \in Dir
  BY DEF TypeOK, CwdKept, Row

LEMMA StatusByType == ASSUME NEW event \in Event PROVE StatusBy(event) \in {"active", "waiting"}
  BY DEF StatusBy

LEMMA HandleType ==
  ASSUME TypeOK, NEW u \in Real, NEW cwd \in Dir, NEW event \in Event, NEW t \in Time,
         Handle(u, cwd, event, t)
  PROVE  /\ store' \in [Id -> Row \cup {None}]
         /\ newest' \in [Claude -> [at : Nat, says : SUBSET Status]]
         /\ turns' \in [Claude -> Turn]
<1>1. newest' \in [Claude -> [at : Nat, says : SUBSET Status]]
  <2>1. StatusBy(event) \in Status /\ t \in Nat
    BY StatusByType DEF Status
  <2>2. newest' = Reported(u, StatusBy(event), t)
    BY DEF Handle
  <2> QED BY <2>1, <2>2, ReportedType
<1>2. [cwd |-> CwdKept(u, cwd), status |-> StatusBy(event), at |-> t] \in Row
  BY CwdKeptType, StatusByType DEF Row
<1>3. CASE TooLate(u, t)
  BY <1>1, <1>3 DEF Handle, TypeOK
<1>4. CASE ~TooLate(u, t)
  <2>1. store' \in [Id -> Row \cup {None}]
    BY <1>2, <1>4 DEF Handle, Upsert, TypeOK, NewestLaunch, Launches
  <2>2. [NoTurn EXCEPT !.prompt = t] \in Turn
    BY DEF NoTurn, Turn
  <2>3. turns' \in [Claude -> Turn]
    <3>1. CASE event = "user_prompt" /\ u \in Claude
      <4>1. turns' = [turns EXCEPT ![u] = [NoTurn EXCEPT !.prompt = t]]
        BY <1>4, <3>1 DEF Handle, OnUserPrompt
      <4> QED BY <2>2, <4>1 DEF TypeOK
    <3>2. CASE ~(event = "user_prompt" /\ u \in Claude)
      BY <1>4, <3>2 DEF Handle, TypeOK
    <3> QED BY <3>1, <3>2
  <2> QED BY <1>1, <2>1, <2>3
<1> QED BY <1>3, <1>4

LEMMA TypeNext == TypeOK /\ [Next]_vars => TypeOK'
<1> SUFFICES ASSUME TypeOK, [Next]_vars PROVE TypeOK'
  OBVIOUS
<1> DEFINE NewestType == newest' \in [Claude -> [at : Nat, says : SUBSET Status]]
<1>1. ASSUME NEW u \in Claude, NEW cwd \in Dir, NEW event \in Event, HookFires(u, cwd, event)
      PROVE  TypeOK'
  <2>1. [of |-> u, cwd |-> cwd, event |-> event, at |-> now] \in HookPost
    BY DEF HookPost, TypeOK
  <2> QED BY <1>1, <2>1 DEF HookFires, TypeOK, HookPost, Notifier, table, codex, perf
<1>2. ASSUME NEW h \in hooks, HookArrives(h) PROVE TypeOK'
  <2>1. h \in HookPost /\ h.of \in Real /\ h.cwd \in Dir /\ h.event \in Event /\ h.at \in Time
    BY DEF TypeOK, HookPost
  <2>2. Handle(h.of, h.cwd, h.event, h.at)
    BY <1>2 DEF HookArrives
  <2>3. store' \in [Id -> Row \cup {None}] /\ NewestType /\ turns' \in [Claude -> Turn]
    BY <2>1, <2>2, HandleType
  <2> QED BY <1>2, <2>3 DEF HookArrives, TypeOK, HookPost, Notifier, codex, Status
<1>3. ASSUME NEW h \in hooks, HookLost(h) PROVE TypeOK'
  BY <1>3 DEF HookLost, TypeOK, HookPost, Notifier, table, codex, perf
<1>4. ASSUME NEW u \in Codex, NEW cwd \in Dir, NotifyStarts(u, cwd) PROVE TypeOK'
  <2>1. [cwd |-> cwd, at |-> now, ids |-> seen,
         next |-> IF u \in seen THEN "user_prompt" ELSE "session_start"] \in Notifier
    BY DEF Notifier, TypeOK, Event
  <2>2. notify' \in [Codex -> Notifier \cup {None}]
    BY <1>4, <2>1 DEF NotifyStarts, TypeOK
  <2> QED BY <1>4, <2>2 DEF NotifyStarts, TypeOK, HookPost, Notifier, table, codex, perf
<1>5. ASSUME NEW u \in Codex, NotifyPosts(u) PROVE TypeOK'
  <2> DEFINE n == notify[u]
  <2>1. n \in Notifier /\ n.cwd \in Dir /\ n.next \in Event /\ n.at \in 0..now /\ n.ids \subseteq Codex
    BY <1>5 DEF NotifyPosts, TypeOK, Notifier
  <2>2. Stamp(n) \in Time
    BY <2>1 DEF Stamp, Event, TypeOK
  <2>3. store' \in [Id -> Row \cup {None}] /\ NewestType /\ turns' \in [Claude -> Turn]
    BY <1>5, <2>1, <2>2, HandleType DEF NotifyPosts
  <2>4. [n EXCEPT !.next = "user_prompt"] \in Notifier /\ [n EXCEPT !.next = "stop"] \in Notifier
    BY <2>1 DEF Notifier, Event
  <2>5. notify' \in [Codex -> Notifier \cup {None}]
    BY <1>5, <2>1, <2>4 DEF NotifyPosts, TypeOK, Event
  <2>6. seen' \subseteq Codex
    BY <1>5, <2>1 DEF NotifyPosts, TypeOK
  <2> QED BY <1>5, <2>3, <2>5, <2>6 DEF NotifyPosts, TypeOK, HookPost, Notifier, codex, Status
<1>6. ASSUME NEW u \in Codex, NotifyFails(u) PROVE TypeOK'
  BY <1>6 DEF NotifyFails, TypeOK, HookPost, Notifier, table, codex, perf
<1>7. ASSUME NEW p \in Pending, NEW cwd \in Dir, StartCodex(p, cwd) PROVE TypeOK'
  <2>1. [cwd |-> cwd, status |-> "active", at |-> now] \in Row
    BY DEF Row, TypeOK
  <2> QED BY <1>7, <2>1 DEF StartCodex, Upsert, TypeOK, HookPost, Notifier, hookside, perf
<1>8. ASSUME NEW u \in Codex, NEW cwd \in Dir, TerminalTurn(u, cwd) PROVE TypeOK'
  BY <1>8 DEF TerminalTurn, TypeOK, HookPost, Notifier, table, codex, perf
<1>9. ASSUME NEW u \in Codex \cup Pending, SendCodex(u) PROVE TypeOK'
  <2>1. Resolve(u) \in Id /\ store[Resolve(u)] # None
    BY <1>9 DEF SendCodex, Resolve, TypeOK
  <2>2. [cwd |-> store[Resolve(u)].cwd, state |-> "running"] \in Run
    BY <2>1 DEF TypeOK, Row, Run
  <2>3. runs' \in [Id -> Run \cup {None}] /\ execs' \subseteq Id
    BY <1>9, <2>1, <2>2 DEF SendCodex, TypeOK
  <2> QED BY <1>9, <2>3 DEF SendCodex, TypeOK, HookPost, Notifier, table, hookside, perf
<1>10. ASSUME NEW u \in Pending, NEW r \in Codex, RunWritesFile(u, r) PROVE TypeOK'
  <2>1. runs[u].cwd \in Dir
    BY <1>10 DEF RunWritesFile, Running, TypeOK, Run
  <2> QED BY <1>10, <2>1 DEF RunWritesFile, TypeOK, HookPost, Notifier, table, codex, perf
<1>11. ASSUME NEW u \in Codex \cup Pending, RunExits(u) PROVE TypeOK'
  <2>0. runs[u] \in Run
    BY <1>11 DEF RunExits, Running, TypeOK
  <2>1. [runs[u] EXCEPT !.state = "looking"] \in Run
    BY <2>0 DEF Run
  <2>2. runs' \in [Id -> Run \cup {None}]
    BY <1>11, <2>1 DEF RunExits, TypeOK
  <2> QED BY <1>11, <2>2 DEF RunExits, TypeOK, HookPost, Notifier, table, hookside, perf
<1>12. ASSUME NEW u \in Codex \cup Pending, Interrupt(u) \/ RunFails(u) PROVE TypeOK'
  BY <1>12 DEF Interrupt, RunFails, RunEnds, ExecFreed, TypeOK, HookPost, Notifier, table, hookside,
               perf
<1>13. ASSUME NEW u \in Codex \cup Pending, NEW found \in Codex \cup {None}, RunAnswers(u, found)
       PROVE  TypeOK'
  <2> DEFINE actual == IF u \in Pending /\ found # None THEN found ELSE u
             row == [cwd |-> runs[u].cwd, status |-> "active", at |-> now]
  <2>1. actual \in Id /\ (actual = u \/ actual \in Codex)
    OBVIOUS
  <2>2. row \in Row
    BY <1>13 DEF RunAnswers, TypeOK, Run, Row
  <2>3. /\ store' = [x \in Id |-> CASE x = actual -> row
                                   [] x = u /\ x # actual -> None
                                   [] OTHER -> store[x]]
        /\ alias' = Aliased(u, actual) /\ execs' = ExecFreed(u, actual)
        /\ runs' = [runs EXCEPT ![u] = None]
    BY <1>13 DEF RunAnswers
  <2> HIDE DEF actual, row
  <2>4. store' \in [Id -> Row \cup {None}]
    BY <2>2, <2>3 DEF TypeOK
  <2>5. alias' \in [Id -> Codex \cup {None}]
    BY <2>1, <2>3 DEF TypeOK, Aliased
  <2>6. execs' \subseteq Id /\ runs' \in [Id -> Run \cup {None}]
    BY <2>3 DEF TypeOK, ExecFreed
  <2> QED BY <1>13, <2>4, <2>5, <2>6 DEF RunAnswers, TypeOK, HookPost, Notifier, hookside, perf
<1>14. ASSUME NEW u \in Claude, NEW status \in Status, store[u] # None, Stamped(u, status)
       PROVE  TypeOK'
  <2>1. [cwd |-> store[u].cwd, status |-> status, at |-> now] \in Row
    BY <1>14 DEF TypeOK, Row, Status
  <2>2. NewestType
    <3>1. newest' = Reported(u, status, now) /\ now \in Nat
      BY <1>14 DEF Stamped, TypeOK
    <3> QED BY <3>1, ReportedType
  <2> QED BY <1>14, <2>1, <2>2 DEF Stamped, Upsert, TypeOK, HookPost, Notifier, hookside, codex, perf,
                                Status
<1>15. ASSUME NEW u \in Claude, NEW cwd \in Dir, WrapBinds(u, cwd) PROVE TypeOK'
  <2>1. [cwd |-> CwdKept(u, cwd), status |-> "active", at |-> now] \in Row
    BY CwdKeptType DEF TypeOK, Row
  <2>2. NewestType
    <3>1. newest' = Reported(u, "active", now) /\ now \in Nat /\ "active" \in Status
      BY <1>15 DEF WrapBinds, TypeOK, Status
    <3> QED BY <3>1, ReportedType
  <2> QED BY <1>15, <2>1, <2>2 DEF WrapBinds, Upsert, TypeOK, HookPost, Notifier, hookside, codex,
                                perf, Status
<1>16. ASSUME NEW u \in Claude, RowEvicted(u) PROVE TypeOK'
  BY <1>16 DEF RowEvicted, Upsert, TypeOK, HookPost, Notifier, hookside, codex, perf
<1>17. ASSUME NEW u \in Claude, OnDeltaStart(u) \/ OnDelta(u) PROVE TypeOK'
  <2>0. turns[u] \in Turn /\ now \in Nat
    BY DEF TypeOK
  <2>1. /\ [turns[u] EXCEPT !.start = now] \in Turn
        /\ [turns[u] EXCEPT !.chars = @ + 1] \in Turn
    BY <2>0 DEF Turn
  <2>2. turns' \in [Claude -> Turn]
    <3>1. CASE OnDeltaStart(u)
      <4>1. turns' = [turns EXCEPT ![u] = [turns[u] EXCEPT !.start = now]]
        BY <3>1 DEF OnDeltaStart
      <4> QED BY <2>1, <4>1 DEF TypeOK
    <3>2. CASE OnDelta(u)
      <4>1. turns' = [turns EXCEPT ![u] = [turns[u] EXCEPT !.chars = @ + 1]]
        BY <3>2 DEF OnDelta
      <4> QED BY <2>1, <4>1 DEF TypeOK
    <3> QED BY <1>17, <3>1, <3>2
  <2> QED BY <1>17, <2>2 DEF OnDeltaStart, OnDelta, TypeOK, HookPost, Notifier, table, hookside, codex
<1>18. ASSUME NEW u \in Claude, OnDeltaEnd(u) PROVE TypeOK'
  <2>1. NoTurn \in Turn
    BY DEF NoTurn, Turn
  <2>2. turns' \in [Claude -> Turn]
    BY <1>18, <2>1 DEF OnDeltaEnd, TypeOK
  <2>3. ttft' = <<>> \/ ttft' \in Nat \X Nat
    BY <1>18 DEF OnDeltaEnd, TypeOK, Turn
  <2> QED BY <1>18, <2>2, <2>3 DEF OnDeltaEnd, TypeOK, HookPost, Notifier, table, hookside, codex
<1>19. CASE Tick
  <2>1. hooks' \subseteq HookPost' /\ notify' \in [Codex -> Notifier' \cup {None}] /\ now' \in 0..MaxTime
    <3>1. now' \in 0..MaxTime /\ 0..now \subseteq 0..now'
      BY <1>19 DEF Tick, TypeOK
    <3>2. HookPost \subseteq HookPost' /\ Notifier \subseteq Notifier'
      BY <3>1 DEF HookPost, Notifier
    <3> QED BY <1>19, <3>1, <3>2 DEF Tick, TypeOK, hookside
  <2> QED BY <1>19, <2>1 DEF Tick, TypeOK, table, hookside, codex, perf
<1>20. CASE Restart
  <2>1. store' \in [Id -> Row \cup {None}]
    <3>1. \A x \in Row : [x EXCEPT !.status = "stale"] \in Row
      BY DEF Row
    <3>2. \A u \in Id : store[u] # None => [store[u] EXCEPT !.status = "stale"] \in Row
      BY <3>1 DEF TypeOK
    <3> QED BY <1>20, <3>2 DEF Restart
  <2>2. NewestType
    BY <1>20 DEF Restart, TypeOK, Row, Status
  <2>3. turns' \in [Claude -> Turn]
    BY <1>20 DEF Restart, NoTurn, Turn
  <2> QED BY <1>20, <2>1, <2>2, <2>3 DEF Restart, TypeOK, HookPost, Notifier, hookside, Status
<1>21. CASE UNCHANGED vars
  BY <1>21 DEF vars, table, hookside, codex, perf, TypeOK, HookPost, Notifier
<1>22. ASSUME NEW u \in Claude, WrapGoesStale(u) PROVE TypeOK'
  BY <1>14, <1>22 DEF WrapGoesStale, Status
<1> QED BY <1>1, <1>2, <1>3, <1>4, <1>5, <1>6, <1>7, <1>8, <1>9, <1>10, <1>11, <1>12, <1>13, <1>15,
           <1>16, <1>17, <1>18, <1>19, <1>20, <1>21, <1>22 DEF Next, HookNext, CodexNext, ClaudeNext

\* The rows, the processes and the daemon's tables hold what they are meant to hold.
THEOREM TypeCorrect == Spec => []TypeOK
  BY TypeInit, TypeNext, PTL DEF Spec

----------------------------------------------------------------------------
(* Codex runs.                                                             *)

LEMMA ExecsNext == TypeOK /\ ExecsAreRuns /\ [Next]_vars => ExecsAreRuns'
<1> SUFFICES ASSUME TypeOK, ExecsAreRuns, [Next]_vars PROVE ExecsAreRuns'
  OBVIOUS
<1>1. ASSUME NEW u \in Codex \cup Pending, SendCodex(u) PROVE ExecsAreRuns'
  <2> DEFINE s == Resolve(u)
  <2>1. s \in Id /\ [cwd |-> store[s].cwd, state |-> "running"] \in Run
    BY <1>1 DEF SendCodex, Resolve, TypeOK, Row, Run
  <2>2. /\ execs' = execs \cup {s}
        /\ runs' = [runs EXCEPT ![s] = [cwd |-> store[s].cwd, state |-> "running"]]
    BY <1>1 DEF SendCodex
  <2> HIDE DEF s
  <2> QED BY <2>1, <2>2 DEF ExecsAreRuns, TypeOK
<1>2. ASSUME NEW u \in Codex \cup Pending, RunExits(u) PROVE ExecsAreRuns'
  <2>1. runs[u] \in Run
    BY <1>2 DEF RunExits, Running, TypeOK
  <2>2. [runs[u] EXCEPT !.state = "looking"] \in Run
    BY <2>1 DEF Run
  <2>3. runs' = [runs EXCEPT ![u] = [runs[u] EXCEPT !.state = "looking"]] /\ execs' = execs
    BY <1>2 DEF RunExits
  <2> QED BY <2>1, <2>2, <2>3 DEF ExecsAreRuns, TypeOK
<1>3. ASSUME NEW u \in Codex \cup Pending, RunEnds(u) PROVE ExecsAreRuns'
  BY <1>3 DEF RunEnds, ExecFreed, ExecsAreRuns, TypeOK
<1>4. ASSUME NEW u \in Codex \cup Pending, NEW found \in Codex \cup {None}, RunAnswers(u, found)
      PROVE  ExecsAreRuns'
  BY <1>4 DEF RunAnswers, ExecFreed, ExecsAreRuns, TypeOK
<1>5. CASE Restart
  BY <1>5 DEF Restart, ExecsAreRuns
<1>6. CASE HookNext \/ ClaudeNext \/ Tick \/ UNCHANGED vars
  <2>1. runs' = runs /\ execs' = execs
    BY <1>6 DEF HookNext, HookFires, HookArrives, HookLost, NotifyStarts, NotifyPosts, NotifyFails,
                ClaudeNext, WrapBinds, WrapGoesStale, Stamped, RowEvicted, OnDeltaStart, OnDelta,
                OnDeltaEnd, Tick, vars, codex
  <2> QED BY <2>1 DEF ExecsAreRuns
<1>7. ASSUME NEW p \in Pending, \/ \E cwd \in Dir : StartCodex(p, cwd)
                               \/ \E r \in Codex : RunWritesFile(p, r)
      PROVE  ExecsAreRuns'
  BY <1>7 DEF StartCodex, RunWritesFile, codex, ExecsAreRuns
<1>8. ASSUME NEW u \in Codex, NEW cwd \in Dir, TerminalTurn(u, cwd) PROVE ExecsAreRuns'
  BY <1>8 DEF TerminalTurn, codex, ExecsAreRuns
<1> QED BY <1>1, <1>2, <1>3, <1>4, <1>5, <1>6, <1>7, <1>8 DEF Next, CodexNext, Interrupt, RunFails

\* However codex runs overlap, end, fail, are interrupted or are renamed by their
\* answer, a session refuses prompts exactly while a run for it is under way
\* (activeCodexExecs of src/src/server.ts).
THEOREM ExecsStayRuns == Spec => []ExecsAreRuns
<1>1. Init => ExecsAreRuns
  BY DEF Init, ExecsAreRuns
<1> QED BY <1>1, TypeInit, TypeNext, ExecsNext, PTL DEF Spec

----------------------------------------------------------------------------
(* Cards opened before codex had an id.                                    *)

\* A launch that was renamed is over: it has neither a row nor a run, and never
\* will have; rows of codex sessions do not go.
AliasInv ==
    /\ \A p \in Pending : alias[p] # None => store[p] = None /\ store[alias[p]] # None
    /\ \A p \in Pending : alias[p] # None => runs[p] = None
    /\ \A p \in Pending : alias[p] # None \/ store[p] # None \/ runs[p] # None => p \in launched

\* Any step but a restart and the four below leaves this to the rows.
LEMMA RowsKeepAliases ==
  ASSUME TypeOK, AliasInv, runs' = runs, alias' = alias, launched' = launched,
         \A p \in Pending : store[p] = None => store'[p] = None,
         \A r \in Codex : store[r] # None => store'[r] # None
  PROVE  AliasInv'
  BY DEF AliasInv, TypeOK

LEMMA AliasNext == TypeOK /\ AliasInv /\ [Next]_vars => AliasInv'
<1> SUFFICES ASSUME TypeOK, AliasInv, [Next]_vars PROVE AliasInv'
  OBVIOUS
<1>1. ASSUME NEW u \in Real, NEW cwd \in Dir, NEW event \in Event, NEW t \in Time,
             Handle(u, cwd, event, t)
      PROVE  /\ \A p \in Pending : store[p] = None => store'[p] = None
             /\ \A r \in Codex : store[r] # None => store'[r] # None
  <2> DEFINE row == [cwd |-> CwdKept(u, cwd), status |-> StatusBy(event), at |-> t]
  <2>1. row \in Row
    BY CwdKeptType, StatusByType DEF Row
  <2>2. \/ store' = store
        \/ store' = [store EXCEPT ![u] = row]
        \/ \E p \in Pending : store' = [store EXCEPT ![p] = None, ![u] = row]
    BY <1>1 DEF Handle, Upsert, NewestLaunch, Launches
  <2>3. row # None /\ u \in Id /\ u \notin Pending
    BY <2>1
  <2> HIDE DEF row
  <2>4. CASE \E p \in Pending : store' = [store EXCEPT ![p] = None, ![u] = row]
    <3>1. PICK p \in Pending : store' = [store EXCEPT ![p] = None, ![u] = row]
      BY <2>4
    <3>2. /\ \A x \in Id \ {p, u} : store'[x] = store[x]
          /\ store'[p] = None /\ store'[u] = row
      BY <2>3, <3>1 DEF TypeOK
    <3> QED BY <2>3, <3>2
  <2>5. CASE store' = [store EXCEPT ![u] = row]
    <3>1. /\ \A x \in Id \ {u} : store'[x] = store[x]
          /\ store'[u] = row
      BY <2>3, <2>5 DEF TypeOK
    <3> QED BY <2>3, <3>1
  <2> QED BY <2>2, <2>4, <2>5
<1>2. ASSUME NEW h \in hooks, HookArrives(h) PROVE AliasInv'
  <2>1. h.of \in Real /\ h.cwd \in Dir /\ h.event \in Event /\ h.at \in Time
    BY DEF TypeOK, HookPost
  <2>2. Handle(h.of, h.cwd, h.event, h.at)
    BY <1>2 DEF HookArrives
  <2>3. /\ \A p \in Pending : store[p] = None => store'[p] = None
        /\ \A r \in Codex : store[r] # None => store'[r] # None
    BY <1>1, <2>1, <2>2
  <2> QED BY <1>2, <2>3, RowsKeepAliases DEF HookArrives, codex
<1>3. ASSUME NEW u \in Codex, NotifyPosts(u) PROVE AliasInv'
  <2>1. notify[u].cwd \in Dir /\ notify[u].next \in Event /\ Stamp(notify[u]) \in Time
    BY <1>3 DEF NotifyPosts, TypeOK, Notifier, Stamp, Event
  <2>2. Handle(u, notify[u].cwd, notify[u].next, Stamp(notify[u]))
    BY <1>3 DEF NotifyPosts
  <2>3. /\ \A p \in Pending : store[p] = None => store'[p] = None
        /\ \A r \in Codex : store[r] # None => store'[r] # None
    BY <1>1, <2>1, <2>2
  <2> QED BY <1>3, <2>3, RowsKeepAliases DEF NotifyPosts, codex
<1>4. ASSUME NEW p \in Pending, NEW cwd \in Dir, StartCodex(p, cwd) PROVE AliasInv'
  <2>1. alias[p] = None /\ launched' = launched \cup {p} /\ runs' = runs /\ alias' = alias
    BY <1>4 DEF StartCodex, AliasInv
  <2>2. \A x \in Id \ {p} : store'[x] = store[x]
    BY <1>4 DEF StartCodex, Upsert, TypeOK
  <2> QED BY <2>1, <2>2 DEF AliasInv, TypeOK
<1>5. ASSUME NEW u \in Codex \cup Pending, SendCodex(u) PROVE AliasInv'
  <2> DEFINE s == Resolve(u)
  <2>1. s \in Id /\ store[s] # None
    BY <1>5 DEF SendCodex, Resolve, TypeOK
  <2>2. \A x \in Id \ {s} : runs'[x] = runs[x]
    BY <1>5, <2>1 DEF SendCodex, TypeOK
  <2>3. store' = store /\ alias' = alias /\ launched' = launched
    BY <1>5 DEF SendCodex, table
  <2> HIDE DEF s
  <2> QED BY <2>1, <2>2, <2>3 DEF AliasInv, TypeOK
<1>6. ASSUME NEW u \in Codex \cup Pending, RunExits(u) \/ RunEnds(u) PROVE AliasInv'
  <2>1. /\ runs[u] # None
        /\ \A x \in Id \ {u} : runs'[x] = runs[x]
    BY <1>6 DEF RunExits, RunEnds, Running, TypeOK
  <2>2. store' = store /\ alias' = alias /\ launched' = launched
    BY <1>6 DEF RunExits, RunEnds, table
  <2> QED BY <2>1, <2>2 DEF AliasInv, TypeOK
<1>7. ASSUME NEW u \in Codex \cup Pending, NEW found \in Codex \cup {None}, RunAnswers(u, found)
      PROVE  AliasInv'
  <2> DEFINE actual == IF u \in Pending /\ found # None THEN found ELSE u
             row == [cwd |-> runs[u].cwd, status |-> "active", at |-> now]
  <2>1. /\ runs[u] # None /\ row \in Row /\ launched' = launched
        /\ store' = [x \in Id |-> CASE x = actual -> row
                                   [] x = u /\ x # actual -> None
                                   [] OTHER -> store[x]]
        /\ alias' = Aliased(u, actual) /\ runs' = [runs EXCEPT ![u] = None]
    BY <1>7 DEF RunAnswers, TypeOK, Run, Row
  <2>2. actual = u \/ (u \in Pending /\ actual \in Codex)
    OBVIOUS
  <2> HIDE DEF actual, row
  <2>3. CASE actual = u
    <3>1. alias' = alias /\ (alias[u] = None \/ u \in Codex)
      BY <2>1, <2>3 DEF Aliased, AliasInv
    <3>2. \A x \in Id \ {u} : store'[x] = store[x] /\ runs'[x] = runs[x]
      BY <2>1, <2>3 DEF TypeOK
    <3>3. store'[u] = row /\ row # None /\ runs'[u] = None /\ (u \in Pending => u \in launched)
      BY <2>1, <2>3 DEF TypeOK, AliasInv
    <3> QED BY <2>1, <3>1, <3>2, <3>3 DEF AliasInv, TypeOK
  <2>4. CASE u \in Pending /\ actual \in Codex
    <3>1. /\ alias' = [alias EXCEPT ![u] = actual] /\ u \in launched /\ actual # u /\ actual \notin Pending
          /\ u \notin Codex
      BY <2>1, <2>4 DEF Aliased, AliasInv
    <3>2. \A x \in Id \ {u, actual} : store'[x] = store[x]
      BY <2>1
    <3>3. store'[u] = None /\ store'[actual] # None /\ runs'[u] = None
      BY <2>1, <2>4, <3>1 DEF TypeOK
    <3>4. \A x \in Id \ {u} : runs'[x] = runs[x] /\ alias'[x] = alias[x]
      BY <2>1, <3>1 DEF TypeOK
    <3>5. alias'[u] = actual
      BY <2>4, <3>1 DEF TypeOK
    <3> QED BY <2>1, <2>4, <3>1, <3>2, <3>3, <3>4, <3>5 DEF AliasInv, TypeOK
  <2> QED BY <2>2, <2>3, <2>4
<1>8. CASE Restart
  <2>1. \A x \in Id : alias'[x] = None /\ runs'[x] = None /\ (store[x] = None => store'[x] = None)
    BY <1>8 DEF Restart
  <2> QED BY <1>8, <2>1 DEF Restart, AliasInv
<1>9. ASSUME NEW u \in Claude, \/ \E cwd \in Dir : WrapBinds(u, cwd)
                              \/ WrapGoesStale(u) \/ RowEvicted(u)
      PROVE  AliasInv'
  <2>1. /\ \A x \in Id \ {u} : store'[x] = store[x]
        /\ runs' = runs /\ alias' = alias /\ launched' = launched
    BY <1>9 DEF WrapBinds, WrapGoesStale, Stamped, RowEvicted, Upsert, TypeOK, codex
  <2> QED BY <2>1, RowsKeepAliases
<1>10. ASSUME store' = store, runs' = runs, alias' = alias, launched' = launched PROVE AliasInv'
  BY <1>10, RowsKeepAliases
<1>11. ASSUME NEW u \in Claude, OnDeltaStart(u) \/ OnDelta(u) \/ OnDeltaEnd(u) PROVE AliasInv'
  BY <1>10, <1>11 DEF OnDeltaStart, OnDelta, OnDeltaEnd, table, codex
<1>12. ASSUME NEW u \in Claude, NEW cwd \in Dir, NEW event \in Event, HookFires(u, cwd, event)
       PROVE  AliasInv'
  BY <1>10, <1>12 DEF HookFires, table, codex
<1>13. ASSUME NEW h \in hooks, HookLost(h) PROVE AliasInv'
  BY <1>10, <1>13 DEF HookLost, table, codex
<1>14. ASSUME NEW u \in Codex, NotifyFails(u) \/ \E cwd \in Dir : NotifyStarts(u, cwd) PROVE AliasInv'
  BY <1>10, <1>14 DEF NotifyStarts, NotifyFails, table, codex
<1>15. ASSUME NEW u \in Codex, NEW cwd \in Dir, TerminalTurn(u, cwd) PROVE AliasInv'
  BY <1>10, <1>15 DEF TerminalTurn, table, codex
<1>16. ASSUME NEW p \in Pending, NEW r \in Codex, RunWritesFile(p, r) PROVE AliasInv'
  BY <1>10, <1>16 DEF RunWritesFile, table, codex
<1>17. CASE Tick \/ UNCHANGED vars
  BY <1>10, <1>17 DEF Tick, vars, table, codex
<1> QED BY <1>2, <1>3, <1>4, <1>5, <1>6, <1>7, <1>8, <1>9, <1>11, <1>12, <1>13, <1>14, <1>15, <1>16,
           <1>17 DEF Next, HookNext, CodexNext, ClaudeNext, Interrupt, RunFails

\* A card that was opened before codex had an id reaches its session until the daemon
\* restarts, whatever hooks, runs and other launches do to the rows in between
\* (codexSessionAliases and resolveSession of src/src/server.ts).
THEOREM AliasesReach == Spec => []AliasReaches
<1>1. Init => AliasInv
  BY DEF Init, AliasInv
<1>2. TypeOK /\ AliasInv => AliasReaches
  BY DEF TypeOK, AliasInv, AliasReaches, Resolve
<1> QED BY <1>1, <1>2, TypeInit, TypeNext, AliasNext, PTL DEF Spec

----------------------------------------------------------------------------
(* The tempo of replies.                                                   *)

\* The prompt of a turn is not from the future, and its reply began after it.
TurnInv ==
    /\ \A u \in Claude : turns[u].prompt # None =>
           /\ turns[u].prompt <= now
           /\ turns[u].start # None => turns[u].prompt <= turns[u].start
    /\ ReplyAfterPrompt

LEMMA TurnNext == TypeOK /\ TurnInv /\ [Next]_vars => TurnInv'
<1> SUFFICES ASSUME TypeOK, TurnInv, [Next]_vars PROVE TurnInv'
  OBVIOUS
<1>0. now \in Nat /\ turns \in [Claude -> Turn]
  BY DEF TypeOK
<1>1. ASSUME NEW u \in Real, NEW cwd, NEW event, NEW t \in Nat, Handle(u, cwd, event, t),
             u \in Claude => t <= now, now' = now, ttft' = ttft
      PROVE  TurnInv'
  <2>1. CASE turns' = turns
    BY <1>1, <2>1 DEF TurnInv, ReplyAfterPrompt
  <2>2. CASE u \in Claude /\ turns' = [turns EXCEPT ![u] = [NoTurn EXCEPT !.prompt = t]]
    <3>1. /\ turns'[u].prompt = t /\ turns'[u].start = None
          /\ \A v \in Claude \ {u} : turns'[v] = turns[v]
      BY <1>0, <2>2 DEF NoTurn
    <3> QED BY <1>1, <2>2, <3>1 DEF TurnInv, ReplyAfterPrompt
  <2> QED BY <1>1, <2>1, <2>2 DEF Handle, OnUserPrompt
<1>2. ASSUME NEW h \in hooks, HookArrives(h) PROVE TurnInv'
  <2>1. h.of \in Claude /\ h.at \in Nat /\ h.at <= now
    BY <1>0 DEF TypeOK, HookPost
  <2> QED BY <1>1, <1>2, <2>1 DEF HookArrives
<1>3. ASSUME NEW u \in Codex, NotifyPosts(u) PROVE TurnInv'
  <2>1. Stamp(notify[u]) \in Nat /\ u \notin Claude
    BY <1>3 DEF NotifyPosts, TypeOK, Notifier, Stamp, Event
  <2> QED BY <1>1, <1>3, <2>1 DEF NotifyPosts
<1>4. ASSUME NEW u \in Claude, OnDeltaStart(u) PROVE TurnInv'
  <2>1. turns[u] \in Turn /\ turns' = [turns EXCEPT ![u] = [turns[u] EXCEPT !.start = now]]
    BY <1>0, <1>4 DEF OnDeltaStart
  <2>2. /\ turns'[u].prompt = turns[u].prompt /\ turns'[u].start = now
        /\ \A v \in Claude \ {u} : turns'[v] = turns[v]
    BY <1>0, <2>1 DEF Turn
  <2>3. now' = now /\ ttft' = ttft
    BY <1>4 DEF OnDeltaStart
  <2> QED BY <2>2, <2>3 DEF TurnInv, ReplyAfterPrompt
<1>5. ASSUME NEW u \in Claude, OnDelta(u) PROVE TurnInv'
  <2>1. turns[u] \in Turn /\ turns' = [turns EXCEPT ![u] = [turns[u] EXCEPT !.chars = @ + 1]]
    BY <1>0, <1>5 DEF OnDelta
  <2>2. /\ turns'[u].prompt = turns[u].prompt /\ turns'[u].start = turns[u].start
        /\ \A v \in Claude \ {u} : turns'[v] = turns[v]
    BY <1>0, <2>1 DEF Turn
  <2>3. now' = now /\ ttft' = ttft
    BY <1>5 DEF OnDelta
  <2> QED BY <2>2, <2>3 DEF TurnInv, ReplyAfterPrompt
<1>6. ASSUME NEW u \in Claude, OnDeltaEnd(u) PROVE TurnInv'
  <2>1. ttft' = ttft \/ (turns[u].prompt # None /\ ttft' = <<turns[u].prompt, turns[u].start>>)
    BY <1>6 DEF OnDeltaEnd
  <2>2. ReplyAfterPrompt'
    BY <1>6, <2>1 DEF OnDeltaEnd, TurnInv, ReplyAfterPrompt
  <2>3. /\ turns'[u].prompt = None /\ now' = now
        /\ \A v \in Claude \ {u} : turns'[v] = turns[v]
    BY <1>0, <1>6 DEF OnDeltaEnd, NoTurn
  <2> QED BY <2>2, <2>3 DEF TurnInv
<1>7. CASE Restart
  <2>1. \A u \in Claude : turns'[u].prompt = None
    BY <1>7 DEF Restart, NoTurn
  <2> QED BY <1>7, <2>1 DEF Restart, TurnInv, ReplyAfterPrompt
<1>8. CASE Tick
  <2>1. now' = now + 1 /\ turns' = turns /\ ttft' = ttft
    BY <1>8 DEF Tick, perf
  <2>2. \A u \in Claude : turns[u].prompt # None => turns[u].prompt \in Nat
    BY <1>0 DEF Turn
  <2> QED BY <1>0, <2>1, <2>2 DEF TurnInv, ReplyAfterPrompt
<1>9. ASSUME now' = now, turns' = turns, ttft' = ttft PROVE TurnInv'
  BY <1>9 DEF TurnInv, ReplyAfterPrompt
<1>10. CASE CodexNext \/ UNCHANGED vars
  BY <1>9, <1>10 DEF CodexNext, StartCodex, TerminalTurn, SendCodex, RunExits, Interrupt, RunFails,
                  RunEnds, RunWritesFile, RunAnswers, vars, perf
<1>11. ASSUME NEW u \in Claude, \/ \E cwd \in Dir : WrapBinds(u, cwd)
                               \/ WrapGoesStale(u) \/ RowEvicted(u)
                               \/ \E cwd \in Dir, event \in Event : HookFires(u, cwd, event)
       PROVE  TurnInv'
  BY <1>9, <1>11 DEF WrapBinds, WrapGoesStale, Stamped, RowEvicted, HookFires, perf
<1>12. ASSUME NEW h \in hooks, HookLost(h) PROVE TurnInv'
  BY <1>9, <1>12 DEF HookLost, perf
<1>13. ASSUME NEW u \in Codex, NotifyFails(u) \/ \E cwd \in Dir : NotifyStarts(u, cwd) PROVE TurnInv'
  BY <1>9, <1>13 DEF NotifyFails, NotifyStarts, perf
<1> QED BY <1>2, <1>3, <1>4, <1>5, <1>6, <1>7, <1>8, <1>10, <1>11, <1>12, <1>13
        DEF Next, HookNext, ClaudeNext

\* Hooks that arrive late, in any order or never leave no record of a reply that began
\* before its prompt (PerfTracker of src/src/perf-tracker.ts).
THEOREM RepliesFollowPrompts == Spec => []ReplyAfterPrompt
<1>1. Init => TurnInv
  BY DEF Init, TurnInv, ReplyAfterPrompt, NoTurn
<1>2. TurnInv => ReplyAfterPrompt
  BY DEF TurnInv
<1> QED BY <1>1, <1>2, TypeInit, TypeNext, TurnNext, PTL DEF Spec

----------------------------------------------------------------------------
(* The rows of Claude sessions.                                            *)

\* The row is as new as the newest report, says what it said, and no report of a
\* Claude session is from the future.
RowInv ==
    \A u \in Claude : store[u] # None =>
        /\ store[u].at = newest[u].at /\ store[u].status \in newest[u].says
        /\ store[u].at <= now

\* A report that is taken: the row says what it says.
LEMMA ReportTaken ==
  ASSUME TypeOK, RowInv, NEW u \in Claude, NEW status \in Status, NEW t \in Nat, t <= now,
         NEW cwd \in Dir, store[u] = None \/ store[u].at <= t,
         store' = [store EXCEPT ![u] = [cwd |-> cwd, status |-> status, at |-> t]],
         newest' = Reported(u, status, t), now' = now
  PROVE  RowInv'
<1> SUFFICES ASSUME NEW v \in Claude, store'[v] # None
             PROVE  /\ store'[v].at = newest'[v].at /\ store'[v].status \in newest'[v].says
                    /\ store'[v].at <= now
  BY DEF RowInv
<1>1. CASE v # u
  BY <1>1 DEF TypeOK, RowInv, Reported
<1>2. CASE v = u
  <2>1. store'[u].at = t /\ store'[u].status = status /\ newest'[u] = Believe(u, status, t)
    BY DEF TypeOK, Reported
  <2>2. newest[u] \in [at : Nat, says : SUBSET Status]
    BY DEF TypeOK, Status
  <2>3. store[u] # None => newest[u].at <= t
    BY DEF RowInv
  <2>4. CASE store[u] = None \/ t > newest[u].at
    <3>1. Believe(u, status, t) = [at |-> t, says |-> {status}]
      BY <2>4 DEF Believe
    <3> QED BY <1>2, <2>1, <3>1
  <2>5. CASE store[u] # None /\ t = newest[u].at
    <3>1. Believe(u, status, t) = [newest[u] EXCEPT !.says = @ \cup {status}]
      BY <2>2, <2>5 DEF Believe
    <3> QED BY <1>2, <2>1, <2>2, <2>5, <3>1
  <2> QED BY <2>2, <2>3, <2>4, <2>5
<1> QED BY <1>1, <1>2

\* A report that comes too late is older than what the row was told.
LEMMA ReportLate ==
  ASSUME TypeOK, RowInv, NEW u \in Claude, NEW status, NEW t \in Nat, TooLate(u, t),
         store' = store, newest' = Reported(u, status, t), now' = now
  PROVE  RowInv'
<1>1. store[u] # None /\ newest[u].at > t /\ newest[u].at \in Nat
  BY DEF TooLate, RowInv, TypeOK
<1>2. Believe(u, status, t) = newest[u]
  BY <1>1 DEF Believe
<1>3. \A v \in Claude : newest'[v] = newest[v]
  BY <1>2 DEF Reported
<1> QED BY <1>3 DEF RowInv

\* Nobody but a Claude session's own writers touches its row.
LEMMA RowLeft ==
  ASSUME RowInv, \A u \in Claude : store'[u] = store[u] /\ newest'[u] = newest[u],
         now \in Nat, now' \in Nat, now <= now', TypeOK
  PROVE  RowInv'
  BY DEF RowInv, TypeOK, Row

LEMMA RowNext == TypeOK /\ RowInv /\ [Next]_vars => RowInv'
<1> SUFFICES ASSUME TypeOK, RowInv, [Next]_vars PROVE RowInv'
  OBVIOUS
<1>0. now \in Nat
  BY DEF TypeOK
<1>1. ASSUME NEW h \in hooks, HookArrives(h) PROVE RowInv'
  <2> DEFINE u == h.of
             cwd == CwdKept(u, h.cwd)
  <2>1. u \in Claude /\ h.cwd \in Dir /\ h.event \in Event /\ h.at \in Nat /\ h.at <= now
    BY <1>0 DEF TypeOK, HookPost
  <2>2. cwd \in Dir /\ StatusBy(h.event) \in Status
    BY <2>1, CwdKeptType, StatusByType DEF Status
  <2>3. newest' = Reported(u, StatusBy(h.event), h.at) /\ now' = now
    BY <1>1 DEF HookArrives, Handle
  <2>4. CASE TooLate(u, h.at)
    <3>1. store' = store
      BY <1>1, <2>4 DEF HookArrives, Handle
    <3> QED BY <2>1, <2>3, <2>4, <3>1, ReportLate
  <2>5. CASE ~TooLate(u, h.at)
    <3>1. store' = [store EXCEPT ![u] = [cwd |-> cwd, status |-> StatusBy(h.event), at |-> h.at]]
      BY <1>1, <2>1, <2>5 DEF HookArrives, Handle, Upsert
    <3>2. store[u] = None \/ store[u].at <= h.at
      BY <2>1, <2>5 DEF TooLate, TypeOK, Row
    <3> HIDE DEF cwd
    <3> QED BY <2>1, <2>2, <2>3, <3>1, <3>2, ReportTaken
  <2> QED BY <2>4, <2>5
<1>2. ASSUME NEW u \in Codex, NotifyPosts(u) PROVE RowInv'
  <2>1. Handle(u, notify[u].cwd, notify[u].next, Stamp(notify[u])) /\ now' = now
    BY <1>2 DEF NotifyPosts
  <2>2. \A v \in Claude : store'[v] = store[v]
    BY <2>1 DEF Handle, Upsert, NewestLaunch, Launches, TypeOK
  <2>3. \A v \in Claude : newest'[v] = newest[v]
    BY <2>1 DEF Handle, Reported, TypeOK
  <2> QED BY <1>0, <2>1, <2>2, <2>3, RowLeft
<1>3. ASSUME NEW p \in Pending, NEW cwd \in Dir, StartCodex(p, cwd) PROVE RowInv'
  BY <1>0, <1>3, RowLeft DEF StartCodex, Upsert, TypeOK
<1>4. ASSUME NEW u \in Codex \cup Pending, NEW found \in Codex \cup {None}, RunAnswers(u, found)
      PROVE  RowInv'
  <2>1. /\ \A v \in Claude : store'[v] = store[v]
        /\ newest' = newest /\ now' = now
    BY <1>4 DEF RunAnswers
  <2> QED BY <1>0, <2>1, RowLeft
<1>5. ASSUME NEW u \in Claude, NEW status \in Status, store[u] # None, Stamped(u, status) PROVE RowInv'
  <2> DEFINE cwd == store[u].cwd
  <2>1. store[u].at <= now /\ cwd \in Dir /\ now <= now
    BY <1>0, <1>5 DEF RowInv, TypeOK, Row
  <2>2. /\ store' = [store EXCEPT ![u] = [cwd |-> cwd, status |-> status, at |-> now]]
        /\ newest' = Reported(u, status, now) /\ now' = now
    BY <1>5 DEF Stamped, Upsert
  <2> HIDE DEF cwd
  <2> QED BY <1>0, <2>1, <2>2, ReportTaken
<1>6. ASSUME NEW u \in Claude, NEW cwd \in Dir, WrapBinds(u, cwd) PROVE RowInv'
  <2> DEFINE kept == CwdKept(u, cwd)
  <2>1. (store[u] = None \/ store[u].at <= now) /\ now <= now
    BY <1>0 DEF RowInv
  <2>2. /\ store' = [store EXCEPT ![u] = [cwd |-> kept, status |-> "active", at |-> now]]
        /\ newest' = Reported(u, "active", now) /\ now' = now
    BY <1>6 DEF WrapBinds, Upsert
  <2>3. kept \in Dir /\ "active" \in Status
    BY CwdKeptType DEF Status
  <2> HIDE DEF kept
  <2> QED BY <1>0, <2>1, <2>2, <2>3, ReportTaken
<1>7. ASSUME NEW u \in Claude, WrapGoesStale(u) PROVE RowInv'
  BY <1>5, <1>7 DEF WrapGoesStale, Status
<1>8. ASSUME NEW u \in Claude, RowEvicted(u) PROVE RowInv'
  <2>1. /\ store'[u] = None /\ \A v \in Claude \ {u} : store'[v] = store[v]
        /\ newest' = newest /\ now' = now
    BY <1>8 DEF RowEvicted, Upsert, TypeOK
  <2> QED BY <2>1 DEF RowInv
<1>9. CASE Restart
  <2>1. \A u \in Claude : store[u] # None =>
            store'[u].at = store[u].at /\ store'[u].status = "stale"
    BY <1>9 DEF Restart, TypeOK, Row
  <2>2. \A u \in Claude : store'[u] # None =>
            store[u] # None /\ newest'[u].at = store[u].at /\ newest'[u].says = {"stale"}
    BY <1>9 DEF Restart
  <2> QED BY <1>9, <2>1, <2>2 DEF Restart, RowInv
<1>10. CASE Tick
  BY <1>0, <1>10, RowLeft DEF Tick, table
<1>11. ASSUME store' = store, newest' = newest, now' = now PROVE RowInv'
  BY <1>11 DEF RowInv
<1>12. ASSUME NEW u \in Codex \cup Pending, SendCodex(u) \/ RunExits(u) \/ RunEnds(u) PROVE RowInv'
  BY <1>11, <1>12 DEF SendCodex, RunExits, RunEnds, table
<1>13. ASSUME NEW r \in Codex, \/ \E p \in Pending : RunWritesFile(p, r)
                               \/ \E cwd \in Dir : TerminalTurn(r, cwd) \/ NotifyStarts(r, cwd)
                               \/ NotifyFails(r)
       PROVE  RowInv'
  BY <1>11, <1>13 DEF RunWritesFile, TerminalTurn, NotifyStarts, NotifyFails, table
<1>14. ASSUME NEW u \in Claude, \/ OnDeltaStart(u) \/ OnDelta(u) \/ OnDeltaEnd(u)
                               \/ \E cwd \in Dir, event \in Event : HookFires(u, cwd, event)
       PROVE  RowInv'
  BY <1>11, <1>14 DEF OnDeltaStart, OnDelta, OnDeltaEnd, HookFires, table
<1>15. ASSUME NEW h \in hooks, HookLost(h) PROVE RowInv'
  BY <1>11, <1>15 DEF HookLost, table
<1>16. CASE UNCHANGED vars
  BY <1>11, <1>16 DEF vars, table
<1> QED BY <1>1, <1>2, <1>3, <1>4, <1>6, <1>7, <1>8, <1>9, <1>10, <1>12, <1>13, <1>14, <1>15, <1>16
        DEF Next, HookNext, CodexNext, ClaudeNext, Interrupt, RunFails

\* However many hook processes race each other and the daemon's own writes, a Claude
\* session's row says what the newest report said (src/src/hook-handler.ts).
THEOREM RowsAreNewest == Spec => []NewestWins
<1>1. Init => RowInv
  BY DEF Init, RowInv
<1>2. RowInv => NewestWins
  BY DEF RowInv, NewestWins
<1> QED BY <1>1, <1>2, TypeInit, TypeNext, RowNext, PTL DEF Spec

\* No step of anybody, hook, wrapper, codex run or restart, moves the row of a Claude
\* session to another directory (the ON CONFLICT of src/src/session-store.ts is fed
\* with the directory the row has).
LEMMA CwdNext == TypeOK /\ [Next]_vars =>
    \A u \in Claude : store[u] # None /\ store'[u] # None => store'[u].cwd = store[u].cwd
<1> SUFFICES ASSUME TypeOK, [Next]_vars, NEW v \in Claude, store[v] # None, store'[v] # None
             PROVE  store'[v].cwd = store[v].cwd
  OBVIOUS
<1>1. ASSUME NEW u \in Real, NEW cwd, NEW event, NEW t, Handle(u, cwd, event, t)
      PROVE  store'[v].cwd = store[v].cwd
  <2>1. CASE v = u
    BY <1>1, <2>1 DEF Handle, Upsert, CwdKept, TypeOK
  <2>2. CASE v # u
    BY <1>1, <2>2 DEF Handle, Upsert, NewestLaunch, Launches, TypeOK
  <2> QED BY <2>1, <2>2
<1>2. ASSUME NEW h \in hooks, HookArrives(h) PROVE store'[v].cwd = store[v].cwd
  BY <1>1, <1>2 DEF HookArrives, TypeOK, HookPost
<1>3. ASSUME NEW u \in Codex, NotifyPosts(u) PROVE store'[v].cwd = store[v].cwd
  BY <1>1, <1>3 DEF NotifyPosts
<1>4. ASSUME NEW p \in Pending, NEW cwd \in Dir, StartCodex(p, cwd) PROVE store'[v].cwd = store[v].cwd
  BY <1>4 DEF StartCodex, Upsert, TypeOK
<1>5. ASSUME NEW u \in Codex \cup Pending, NEW found \in Codex \cup {None}, RunAnswers(u, found)
      PROVE  store'[v].cwd = store[v].cwd
  BY <1>5 DEF RunAnswers
<1>6. ASSUME NEW u \in Claude, NEW cwd \in Dir, WrapBinds(u, cwd) PROVE store'[v].cwd = store[v].cwd
  BY <1>6 DEF WrapBinds, Upsert, CwdKept, TypeOK
<1>7. ASSUME NEW u \in Claude, WrapGoesStale(u) \/ RowEvicted(u) PROVE store'[v].cwd = store[v].cwd
  BY <1>7 DEF WrapGoesStale, Stamped, RowEvicted, Upsert, TypeOK
<1>8. CASE Restart
  BY <1>8 DEF Restart, TypeOK, Row
<1>9. CASE store' = store
  BY <1>9
<1>10. ASSUME NEW u \in Codex \cup Pending, SendCodex(u) \/ RunExits(u) \/ RunEnds(u)
       PROVE  store'[v].cwd = store[v].cwd
  BY <1>9, <1>10 DEF SendCodex, RunExits, RunEnds, table
<1>11. ASSUME NEW r \in Codex, \/ \E p \in Pending : RunWritesFile(p, r)
                               \/ \E cwd \in Dir : TerminalTurn(r, cwd) \/ NotifyStarts(r, cwd)
                               \/ NotifyFails(r)
       PROVE  store'[v].cwd = store[v].cwd
  BY <1>9, <1>11 DEF RunWritesFile, TerminalTurn, NotifyStarts, NotifyFails, table
<1>12. ASSUME NEW u \in Claude, \/ OnDeltaStart(u) \/ OnDelta(u) \/ OnDeltaEnd(u)
                               \/ \E cwd \in Dir, event \in Event : HookFires(u, cwd, event)
       PROVE  store'[v].cwd = store[v].cwd
  BY <1>9, <1>12 DEF OnDeltaStart, OnDelta, OnDeltaEnd, HookFires, table
<1>13. ASSUME NEW h \in hooks, HookLost(h) PROVE store'[v].cwd = store[v].cwd
  BY <1>9, <1>13 DEF HookLost, table
<1>14. CASE Tick \/ UNCHANGED vars
  BY <1>9, <1>14 DEF Tick, vars, table
<1> QED BY <1>2, <1>3, <1>4, <1>5, <1>6, <1>7, <1>8, <1>10, <1>11, <1>12, <1>13, <1>14
        DEF Next, HookNext, CodexNext, ClaudeNext, Interrupt, RunFails

\* The directory a Claude session is resumed in stays that of its first report
\* (HookHandler.handle, bind and the rows of src/src/session-store.ts).
THEOREM CwdStays == Spec => CwdSticks
<1>1. TypeOK /\ [Next]_vars =>
          [\A u \in Claude : store[u] # None /\ store'[u] # None => store'[u].cwd = store[u].cwd]_vars
  BY CwdNext
<1> QED BY <1>1, TypeInit, TypeNext, PTL DEF Spec, CwdSticks

----------------------------------------------------------------------------
(* The session file a card shows.                                          *)

\* The first part of a card's row is the instant in its id.
CardRowInv == \A p \in Card : rows[p] # Nil =>
              /\ launches[p] # Nil /\ launches[p].at <= rows[p].at /\ rows[p].at <= clock
              /\ rows[p].fresh => rows[p].at = launches[p].at
LaunchInv == \A p, q \in Card : p # q /\ launches[p] # Nil /\ launches[q] # Nil
                 => launches[p].at # launches[q].at
PastInv == /\ \A u \in File : files[u] # Nil => files[u].at <= clock
           /\ \A p \in Card : launches[p] # Nil => launches[p].at <= clock
SendInv == \A p \in Card : sends[p] # Nil =>
               launches[p] # Nil /\ launches[p].at <= sends[p] /\ sends[p] <= clock
OwnInv == \A u \in File : files[u] # Nil /\ files[u].of # Nil =>
              /\ launches[files[u].of] # Nil
              /\ files[u].folder = launches[files[u].of].folder
              /\ files[u].source = "cli"
              /\ launches[files[u].of].at <= files[u].at
KnownInv == \A p \in Card : known[p] # Nil =>
                /\ launches[p] # Nil /\ files[known[p]] # Nil
                /\ files[known[p]].folder = launches[p].folder
                /\ files[known[p]].source = "cli"
                /\ launches[p].at <= files[known[p]].at + Slack

CardInv == /\ RolloutsOK /\ CardRowInv /\ LaunchInv /\ PastInv /\ SendInv /\ OwnInv /\ KnownInv

USE RolloutsAssumption, NilAssumption

LEMMA CardInit == RolloutsInit => CardInv
BY DEF RolloutsInit, CardInv, RolloutsOK, CardRowInv, LaunchInv, PastInv, SendInv, OwnInv, KnownInv

LEMMA RunsFileGives ==
  ASSUME CardInv, NEW p \in Card, sends[p] # Nil, NEW u \in RunsFile(p)
  PROVE  /\ u \in File /\ files[u] # Nil /\ files[u].folder = launches[p].folder
         /\ files[u].source = "cli" /\ launches[p].at <= files[u].at + Slack
<1>1. u \in File /\ files[u] # Nil /\ files[u].folder = launches[p].folder
      /\ files[u].source # "vscode" /\ files[u].at \in Minus(sends[p], Slack)..clock
  BY DEF RunsFile, LatestByCwd, Newest, Existing
<1>2. files[u] \in SessionFile /\ launches[p] \in Launch /\ sends[p] \in Nat
      /\ launches[p].at <= sends[p]
  BY <1>1 DEF CardInv, RolloutsOK, SendInv
<1>3. sends[p] <= files[u].at + Slack
  BY <1>1, <1>2 DEF Minus, SessionFile
<1> QED BY <1>1, <1>2, <1>3 DEF SessionFile, Launch

LEMMA CardNext == CardInv /\ [RolloutsNext]_rolloutVars => CardInv'
<1> SUFFICES ASSUME CardInv, [RolloutsNext]_rolloutVars PROVE CardInv'
  OBVIOUS
<1> USE DEF CardInv
<1>1. ASSUME NEW p \in Card, NEW folder \in Folder, StartFresh(p, folder) PROVE CardInv'
  <2> USE <1>1 DEF StartFresh
  <2>1. RolloutsOK'
    BY DEF RolloutsOK, Launch, CardRow
  <2>2. CardRowInv' /\ PastInv'
    BY DEF CardRowInv, PastInv, RolloutsOK, Launch, CardRow
  <2>3. LaunchInv'
    BY DEF LaunchInv, RolloutsOK, Launch
  <2>4. SendInv' /\ OwnInv' /\ KnownInv'
    BY DEF SendInv, OwnInv, KnownInv, RolloutsOK, Launch, SessionFile
  <2> QED BY <2>1, <2>2, <2>3, <2>4
<1>2. ASSUME NEW u \in File, NEW folder \in Folder, NEW source \in {"cli", "vscode"},
             NEW p \in Card \cup {Nil}, FileMade(u, folder, source, p),
             p # Nil => launches[p] # Nil /\ folder = launches[p].folder /\ source = "cli"
      PROVE  CardInv'
  <2> USE <1>2 DEF FileMade
  <2>1. RolloutsOK'
    BY DEF RolloutsOK, SessionFile
  <2>2. CardRowInv' /\ LaunchInv' /\ SendInv'
    BY DEF CardRowInv, LaunchInv, SendInv
  <2>3. PastInv' /\ OwnInv' /\ KnownInv'
    BY DEF PastInv, OwnInv, KnownInv, RolloutsOK, SessionFile, Launch
  <2> QED BY <2>1, <2>2, <2>3
<1>3. ASSUME NEW u \in File, FileGrowsLater(u) PROVE CardInv'
  <2> USE <1>3 DEF FileGrowsLater
  <2>1. RolloutsOK'
    BY DEF RolloutsOK, SessionFile
  <2>2. CardRowInv' /\ LaunchInv' /\ SendInv'
    BY DEF CardRowInv, LaunchInv, SendInv
  <2>3. PastInv' /\ OwnInv' /\ KnownInv'
    BY DEF PastInv, OwnInv, KnownInv, RolloutsOK, SessionFile, Launch
  <2> QED BY <2>1, <2>2, <2>3
<1>4. ASSUME NEW u \in File, NotifierPosts(u) PROVE CardInv'
  BY <1>4 DEF NotifierPosts, RowsOf, RolloutsOK, CardRowInv, LaunchInv, PastInv, SendInv, OwnInv, KnownInv
<1>5. ASSUME NEW p \in Card, SendRuns(p) PROVE CardInv'
  BY <1>5 DEF SendRuns, RolloutsOK, CardRowInv, LaunchInv, PastInv, SendInv, OwnInv, KnownInv,
              CardRow, Launch
<1>6. ASSUME NEW p \in Card, FileFound(p) PROVE CardInv'
  <2> USE <1>6 DEF FileFound
  <2>1. PICK u \in RunsFile(p) : known' = [known EXCEPT ![p] = u]
    OBVIOUS
  <2>2. /\ u \in File /\ files[u] # Nil /\ files[u].folder = launches[p].folder
        /\ files[u].source = "cli" /\ launches[p].at <= files[u].at + Slack
    BY RunsFileGives
  <2>3. RolloutsOK'
    BY <2>1, <2>2 DEF RolloutsOK
  <2>4. CardRowInv' /\ LaunchInv' /\ SendInv' /\ PastInv' /\ OwnInv'
    BY DEF CardRowInv, LaunchInv, SendInv, PastInv, OwnInv, RolloutsOK
  <2>5. KnownInv'
    BY <2>1, <2>2 DEF KnownInv, RolloutsOK, SendInv
  <2> QED BY <2>3, <2>4, <2>5
<1>7. ASSUME NEW p \in Card, FileMissed(p) PROVE CardInv'
  <2> USE <1>7 DEF FileMissed
  <2>1. RolloutsOK'
    BY DEF RolloutsOK, CardRow
  <2>2. CardRowInv'
    BY DEF CardRowInv, SendInv, PastInv, RolloutsOK, CardRow, Launch
  <2>3. LaunchInv' /\ SendInv' /\ PastInv' /\ OwnInv' /\ KnownInv'
    BY DEF LaunchInv, SendInv, PastInv, OwnInv, KnownInv, RolloutsOK
  <2> QED BY <2>1, <2>2, <2>3
<1>8. ASSUME NEW p \in Card, SendFails(p) PROVE CardInv'
  BY <1>8 DEF SendFails, RolloutsOK, CardRowInv, LaunchInv, PastInv, SendInv, OwnInv, KnownInv
<1>9. CASE DaemonRestarts
  BY <1>9 DEF DaemonRestarts, RolloutsOK, CardRowInv, LaunchInv, PastInv, SendInv, OwnInv, KnownInv
<1>10. CASE ClockTicks
  BY <1>10 DEF ClockTicks, RolloutsOK, CardRowInv, LaunchInv, PastInv, SendInv, OwnInv, KnownInv,
               CardRow, Launch, SessionFile
<1>11. CASE UNCHANGED rolloutVars
  BY <1>11 DEF rolloutVars, RolloutsOK, CardRowInv, LaunchInv, PastInv, SendInv, OwnInv, KnownInv
<1>12. ASSUME NEW p \in Card, NEW u \in File, FirstTurn(p, u) PROVE CardInv'
  <2>1. launches[p] # Nil /\ launches[p].folder \in Folder /\ p # Nil
    BY <1>12 DEF FirstTurn, RolloutsOK, Launch
  <2> QED BY <1>12, <2>1, <1>2 DEF FirstTurn
<1>13. ASSUME NEW u \in File, NEW folder \in Folder, NEW source \in {"cli", "vscode"},
              Elsewhere(u, folder, source)
       PROVE  CardInv'
  BY <1>13, <1>2 DEF Elsewhere
<1> QED BY <1>1, <1>3, <1>4, <1>5, <1>6, <1>7, <1>8, <1>9, <1>10, <1>11, <1>12, <1>13
        DEF RolloutsNext

Smaller == {ss \in Nat \X Nat : ss[1] < ss[2]}

LEMMA SmallerWF == IsWellFoundedOn(Smaller, Nat)
BY NatLessThanWellFounded, Zenon DEF OpToRel, Smaller

\* Of some files one was written last.
LEMMA HasNewest ==
  ASSUME NEW S \in SUBSET File, S # {}, NEW top \in Nat,
         \A u \in S : files[u].at \in 0..top
  PROVE  Newest(S) # {}
<1> DEFINE Age == {top - files[u].at : u \in S}
<1>1. Age \subseteq Nat /\ Age # {}
  OBVIOUS
<1>2. PICK a \in Age : \A b \in Age : <<b, a>> \notin Smaller
  <2> HIDE DEF Age
  <2> QED BY <1>1, SmallerWF, WFMin, Zenon
<1>3. PICK u \in S : a = top - files[u].at
  OBVIOUS
<1>4. ASSUME NEW v \in S PROVE files[v].at <= files[u].at
  <2> DEFINE b == top - files[v].at
  <2>1. b \in Age /\ a \in Nat /\ b \in Nat
    BY <1>1
  <2>2. ~(b < a)
    <3> HIDE DEF b
    <3> QED BY <2>1, <1>2 DEF Smaller
  <2> QED BY <2>1, <2>2, <1>3
<1> QED BY <1>4 DEF Newest

\* A waiting card shows by the window that opens at its launch.
LEMMA WaitingShows ==
  ASSUME NEW p \in Card, Waits(p), NEW u \in Shown(p)
  PROVE  ~Superseded(p) /\ u \in LatestByCwd(launches[p].folder, launches[p].at..clock)
BY DEF Waits, Shown, Window, LatestByCwd, Newest

\* Two waiting cards of one folder are not launched at one instant, so one of
\* them is superseded.
LEMMA WaitingApart ==
  ASSUME CardInv, NEW p \in Card, NEW q \in Card, p # q, Waits(p), Waits(q)
  PROVE  Shown(p) \cap Shown(q) = {}
<1> SUFFICES ASSUME NEW u \in Shown(p), u \in Shown(q) PROVE FALSE
  OBVIOUS
<1>1. ~Superseded(p) /\ ~Superseded(q) /\ launches[p].folder = launches[q].folder
  BY WaitingShows DEF LatestByCwd, Newest
<1>2. rows[p].at = launches[p].at /\ rows[q].at = launches[q].at /\ rows[p].at # rows[q].at
  BY DEF CardInv, CardRowInv, LaunchInv, Waits
<1>3. rows[p].at \in Nat /\ rows[q].at \in Nat
  BY DEF CardInv, RolloutsOK, CardRow, Waits
<1>4. p \in RowsOf(launches[q].folder) /\ q \in RowsOf(launches[p].folder)
  BY <1>1 DEF RowsOf, Waits
<1> QED BY <1>1, <1>2, <1>3, <1>4 DEF Superseded

LEMMA AloneShowsOwn ==
  ASSUME CardInv, NEW p \in Card, launches[p] # Nil, Alone(p), NEW u \in Shown(p)
  PROVE  u \in Own(p)
<1> SUFFICES ASSUME u \notin Own(p) PROVE FALSE
  OBVIOUS
<1>1. /\ u \in Existing /\ files[u].folder = launches[p].folder /\ files[u].source # "vscode"
      /\ files[u].at + Near >= launches[p].at
  <2> USE DEF CardInv
  <2>1. CASE known[p] # Nil
    <3>1. u = known[p] /\ known[p] \in File
      BY <2>1 DEF Shown, NamedBy, RolloutsOK
    <3>2. files[u] \in SessionFile /\ launches[p] \in Launch
          /\ launches[p].at <= files[u].at + Slack
      BY <3>1, <2>1 DEF KnownInv, RolloutsOK
    <3>3. launches[p].at <= files[u].at + Near
      BY <3>2 DEF SessionFile, Launch
    <3> QED BY <3>1, <3>3, <2>1 DEF KnownInv, Existing
  <2>2. CASE known[p] = Nil /\ u \in LatestByCwd(launches[p].folder, launches[p].at..clock)
    <3>1. /\ u \in Existing /\ files[u].folder = launches[p].folder
          /\ files[u].source # "vscode" /\ files[u].at \in launches[p].at..clock
      BY <2>2 DEF LatestByCwd, Newest
    <3>2. files[u] \in SessionFile /\ launches[p] \in Launch
      BY <3>1 DEF RolloutsOK, Existing
    <3> QED BY <3>1, <3>2 DEF SessionFile, Launch
  <2>3. CASE /\ known[p] = Nil /\ rows[p] # Nil
             /\ u \in LatestByCwd(launches[p].folder, Minus(rows[p].at, Near)..(rows[p].at + Near))
    <3>1. /\ u \in Existing /\ files[u].folder = launches[p].folder
          /\ files[u].source # "vscode" /\ files[u].at \in Minus(rows[p].at, Near)..(rows[p].at + Near)
      BY <2>3 DEF LatestByCwd, Newest
    <3>2. /\ files[u] \in SessionFile /\ launches[p] \in Launch /\ rows[p] \in CardRow
          /\ launches[p].at <= rows[p].at
      BY <3>1, <2>3 DEF RolloutsOK, Existing, CardRowInv
    <3>3. launches[p].at <= files[u].at + Near
      BY <3>1, <3>2 DEF SessionFile, Launch, CardRow, Minus
    <3> QED BY <3>1, <3>2, <3>3 DEF SessionFile, Launch
  <2> QED BY <2>1, <2>2, <2>3 DEF Shown, Window, LatestByCwd, Newest
<1>2. files[u] \in SessionFile /\ launches[p] \in Launch
  BY <1>1 DEF CardInv, RolloutsOK, Existing
<1>3. files[u].at + Near < launches[p].at
  BY <1>1 DEF Alone
<1> QED BY <1>1, <1>2, <1>3 DEF SessionFile, Launch

LEMMA OwnIsShown ==
  ASSUME CardInv, NEW p \in Card, Waits(p), NewestRow(p), Own(p) # {}
  PROVE  Shown(p) # {}
<1> DEFINE S == {u \in Existing : /\ files[u].folder = launches[p].folder
                                  /\ files[u].source # "vscode"
                                  /\ files[u].at \in launches[p].at..clock}
<1> USE DEF CardInv
<1>1. launches[p] \in Launch /\ clock \in Nat /\ launches[p].at <= clock
  BY DEF RolloutsOK, Waits, CardRowInv, PastInv
<1>2. PICK u \in Existing : files[u].of = p
  BY DEF Own
<1>3. files[u] \in SessionFile /\ p # Nil
  BY <1>2 DEF Existing, RolloutsOK
<1>4. u \in S
  BY <1>1, <1>2, <1>3 DEF OwnInv, PastInv, Existing, SessionFile, Launch
<1>5. S \in SUBSET File /\ \A v \in S : files[v].at \in 0..clock
  BY <1>1 DEF Existing, Launch
<1>6. Newest(S) # {}
  <2> HIDE DEF S
  <2>1. S # {}
    BY <1>4
  <2> QED BY <2>1, <1>1, <1>5, HasNewest
<1>7. ASSUME NEW q \in RowsOf(launches[p].folder) PROVE ~(rows[q].at > rows[p].at)
  <2>1. rows[q] \in CardRow /\ rows[p] \in CardRow
    BY DEF RowsOf, RolloutsOK, Waits
  <2> QED BY <2>1 DEF NewestRow, CardRow
<1>8. Shown(p) = Newest(S)
  BY <1>7 DEF Shown, Window, Superseded, LatestByCwd, Waits
<1> QED BY <1>6, <1>8

\* Two waiting cards never show one session, none shows a session last written
\* before its launch, and a card whose folder nobody else works in shows its
\* own (pendingCodexMtimeWindow in src/src/server.ts and findTranscript in
\* src/src/session-resolver.ts).
THEOREM CardsKeepToTheirOwn == RolloutsSpec => []CardsShowTheirOwn
<1>1. CardInv => CardsShowTheirOwn
  <2> SUFFICES ASSUME CardInv PROVE CardsShowTheirOwn
    OBVIOUS
  <2>1. ASSUME NEW p \in Card, Waits(p), NEW u \in Shown(p) PROVE files[u].at >= launches[p].at
    <3>1. u \in Existing /\ files[u].at \in launches[p].at..clock
      BY <2>1, WaitingShows DEF LatestByCwd, Newest
    <3>2. launches[p] # Nil
      BY <2>1 DEF CardInv, CardRowInv, Waits
    <3>3. files[u] \in SessionFile /\ launches[p] \in Launch
      BY <3>1, <3>2 DEF CardInv, RolloutsOK, Existing
    <3> QED BY <3>1, <3>3 DEF SessionFile, Launch
  <2>2. \A p, q \in Card : p # q /\ Waits(p) /\ Waits(q) => Shown(p) \cap Shown(q) = {}
    BY WaitingApart
  <2>3. \A p \in Card : launches[p] # Nil /\ Alone(p) => Shown(p) \subseteq Own(p)
    BY AloneShowsOwn
  <2>4. \A p \in Card : Waits(p) /\ NewestRow(p) /\ Own(p) # {} => Shown(p) # {}
    BY OwnIsShown
  <2> QED BY <2>1, <2>2, <2>3, <2>4, Zenon DEF CardsShowTheirOwn
<1> QED BY <1>1, CardInit, CardNext, PTL DEF RolloutsSpec
----------------------------------------------------------------------------
(* The starts of daemons.                                                  *)

\* Of some ports one is the least.
LEMMA LeastOfPorts == ASSUME NEW S \in SUBSET Nat, S # {} PROVE Least(S) \in S
<1>1. PICK p \in S : \A q \in S : <<q, p>> \notin Smaller
  BY SmallerWF, WFMin, Zenon
<1>2. \A q \in S : p <= q
  <2> SUFFICES ASSUME NEW q \in S PROVE p <= q
    OBVIOUS
  <2>1. p \in Nat /\ q \in Nat /\ ~(q < p)
    BY <1>1 DEF Smaller
  <2> QED BY <2>1
<1>3. \E r \in S : \A q \in S : r <= q
  BY <1>2
<1> QED BY <1>3, Zenon DEF Least

Stage == Starting \cup {"off", "serving", "gone"}

LEMMA ReachesType ==
  ASSUME StartTypeOK, NEW d \in Daemon, NEW s \in Stage, Reaches(d, s)
  PROVE  /\ stage' \in [Daemon -> Stage]
         /\ stage'[d] = s
         /\ \A e \in Daemon \ {d} : stage'[e] = stage[e]
BY DEF StartTypeOK, Reaches, Stage

LEMMA AlivePort == ASSUME StartTypeOK, NEW p \in Port \cup {NoPort}, Alive(p) PROVE p \in Port
BY DEF Alive

LEMMA SeekType ==
  ASSUME StartTypeOK, NEW w \in Wrapper, NEW s \in {"ask", "default", "poll", "found"},
         NEW p \in Port \cup {NoPort}, Seek(w, s, p)
  PROVE  /\ seeks' \in [Wrapper -> {"off", "ask", "default", "poll", "found"}]
         /\ dials' \in [Wrapper -> Port \cup {NoPort}]
         /\ attached' \in [Wrapper -> Daemon \cup {NoPort}]
BY DEF StartTypeOK, Seek

\* The port findFreePort takes is one nobody listens on.
LEMMA FreePort ==
  ASSUME NEW held \in SUBSET Port,
         {p \in Port \ held : Listens(p) = {}} # {}
  PROVE  LET p == Least({q \in Port \ held : Listens(q) = {}})
         IN  p \in Port /\ Listens(p) = {}
<1> DEFINE S == {q \in Port \ held : Listens(q) = {}}
<1>1. S \in SUBSET Nat
  BY StartAssumption DEF Port
<1>2. Least(S) \in S
  <2> HIDE DEF S
  <2>1. S # {}
    BY DEF S
  <2> QED BY <1>1, <2>1, LeastOfPorts
<1> QED BY <1>2

LEMMA StartTypeStep == StartTypeOK /\ [StartNext]_startVars => StartTypeOK'
<1> SUFFICES ASSUME StartTypeOK, [StartNext]_startVars PROVE StartTypeOK'
  OBVIOUS
<1>0. 0 \in Port
  BY StartAssumption DEF Port
<1>a. ASSUME NEW d \in Daemon, NEW s \in Stage, Reaches(d, s), d \notin leaving
      PROVE  leaving \subseteq Serving' /\ stage' \in [Daemon -> Stage]
  BY <1>a, ReachesType DEF StartTypeOK, Serving
<1>b. ASSUME Mishap PROVE mishaps' \in 0..MaxMishaps /\ orderly' \in BOOLEAN
  <2>1. mishaps \in 0..MaxMishaps /\ mishaps < MaxMishaps /\ mishaps' = mishaps + 1
    BY <1>b DEF Mishap, StartTypeOK
  <2>2. mishaps' \in 0..MaxMishaps
    BY <2>1, StartAssumption
  <2>3. orderly' \in BOOLEAN
    BY <1>b, Zenon DEF Mishap
  <2> QED BY <2>2, <2>3
<1>c. ASSUME NEW d \in Daemon, NEW but, Begun(d, but)
      PROVE  mishaps' \in 0..MaxMishaps /\ orderly' \in BOOLEAN
  BY <1>c, Zenon DEF Begun, StartTypeOK
<1>d. ASSUME NEW d \in Daemon, stage[d] \in Starting, NEW p \in Port \cup {NoPort}, Bails(d, p)
      PROVE  StartTypeOK'
  <2>1. portFile' \in Port \cup {NoPort}
    BY <1>d DEF Bails, Reconciled
  <2>2. leaving \subseteq Serving' /\ stage' \in [Daemon -> Stage]
    BY <1>a, <1>d DEF Bails, Stage, Starting, StartTypeOK, Serving
  <2> QED BY <1>d, <2>1, <2>2 DEF Bails, Ended, StartTypeOK, wrappers, Stage
<1>e. ASSUME NEW d \in Daemon, stage[d] \in Starting, NEW s \in Starting, GoesOn(d, s),
             Mishap \/ UNCHANGED witness
      PROVE  StartTypeOK'
  <2>1. leaving \subseteq Serving' /\ stage' \in [Daemon -> Stage]
    BY <1>a, <1>e DEF GoesOn, Stage, Starting, StartTypeOK, Serving
  <2>2. mishaps' \in 0..MaxMishaps /\ orderly' \in BOOLEAN
    BY <1>b, <1>e DEF witness, StartTypeOK
  <2> QED BY <1>e, <2>1, <2>2 DEF GoesOn, StartTypeOK, wrappers, Stage
<1>f. ASSUME NEW d \in Daemon, Dies(d), Mishap \/ UNCHANGED witness
      PROVE  StartTypeOK'
  <2>1. stage' \in [Daemon -> Stage] /\ \A e \in Daemon \ {d} : stage'[e] = stage[e]
    BY <1>f, ReachesType DEF Dies, Stage
  <2>2. leaving' \subseteq Serving'
    BY <1>f, <2>1 DEF Dies, Serving, StartTypeOK
  <2>3. mishaps' \in 0..MaxMishaps /\ orderly' \in BOOLEAN
    BY <1>b, <1>f DEF witness, StartTypeOK
  <2> QED BY <1>f, <2>1, <2>2, <2>3 DEF Dies, StartTypeOK, Stage
<1>1. ASSUME NEW d \in Daemon, start(d) PROVE StartTypeOK'
  <2>1. leaving \subseteq Serving' /\ stage' \in [Daemon -> Stage]
    BY <1>a, <1>1 DEF start, Stage, Starting, StartTypeOK, Serving
  <2>2. mishaps' \in 0..MaxMishaps /\ orderly' \in BOOLEAN
    BY <1>c, <1>1 DEF start
  <2> QED BY <1>1, <2>1, <2>2 DEF start, StartTypeOK, wrappers, Stage
<1>2. ASSUME NEW d \in Daemon, Probe(d) PROVE StartTypeOK'
  <2>1. stage[d] \in Starting /\ port[d] \in Port \cup {NoPort} /\ "default" \in Starting
    BY <1>2 DEF Probe, Starting, StartTypeOK
  <2> QED BY <1>2, <1>d, <1>e, <2>1 DEF Probe
<1>3. ASSUME NEW d \in Daemon, ProbeDefault(d) PROVE StartTypeOK'
  <2>1. stage[d] \in Starting /\ "pick" \in Starting
    BY <1>3 DEF ProbeDefault, Starting
  <2> QED BY <1>0, <1>3, <1>d, <1>e, <2>1 DEF ProbeDefault
<1>4. ASSUME NEW d \in Daemon, findFreePort(d) PROVE StartTypeOK'
  <2>1. PICK held \in SUBSET Port :
          LET free == {p \in Port \ held : Listens(p) = {}} IN
          IF free = {} THEN /\ Reaches(d, "gone") /\ UNCHANGED <<port, mishaps, orderly>>
                            /\ alone' = NoPort
          ELSE /\ port' = [port EXCEPT ![d] = Least(free)]
               /\ Reaches(d, "write") /\ UNCHANGED witness
    BY <1>4 DEF findFreePort, Tried
  <2>2. leaving \subseteq Serving' /\ stage' \in [Daemon -> Stage]
    BY <1>a, <1>4, <2>1 DEF findFreePort, Stage, Starting, StartTypeOK, Serving
  <2>3. port' \in [Daemon -> Port \cup {NoPort}] /\ UNCHANGED <<mishaps, orderly>>
    BY <2>1, FreePort DEF StartTypeOK, witness
  <2> QED BY <1>4, <2>2, <2>3 DEF findFreePort, StartTypeOK, wrappers, Stage
<1>5. ASSUME NEW d \in Daemon, Write(d) PROVE StartTypeOK'
  <2>1. leaving \subseteq Serving' /\ stage' \in [Daemon -> Stage]
    BY <1>a, <1>5 DEF Write, Stage, Starting, StartTypeOK, Serving
  <2> QED BY <1>5, <2>1 DEF Write, StartTypeOK, wrappers, witness, Stage
<1>6. ASSUME NEW d \in Daemon, Listen(d) PROVE StartTypeOK'
  <2>1. leaving \subseteq Serving' /\ stage' \in [Daemon -> Stage]
    BY <1>a, <1>6 DEF Listen, Stage, Starting, StartTypeOK, Serving
  <2> QED BY <1>6, <2>1 DEF Listen, Ended, StartTypeOK, wrappers, Stage
<1>7. ASSUME NEW d \in Daemon, Quit(d) PROVE StartTypeOK'
  BY <1>7 DEF Quit, StartTypeOK, wrappers, Serving
<1>8. ASSUME NEW d \in Daemon, Leaves(d) \/ Crashes(d) PROVE StartTypeOK'
  BY <1>8, <1>f DEF Leaves, Crashes
<1>9. ASSUME NEW d \in Daemon, NEW new \in Daemon, scheduleRespawn(d, new) PROVE StartTypeOK'
  <2>1. leaving \subseteq Serving' /\ stage' \in [Daemon -> Stage]
    BY <1>a, <1>9 DEF scheduleRespawn, Stage, Starting, StartTypeOK, Serving
  <2>2. d \in Serving'
    BY <1>9, ReachesType DEF scheduleRespawn, Serving, Stage, Starting
  <2>3. mishaps' \in 0..MaxMishaps /\ orderly' \in BOOLEAN
    BY <1>c, <1>9 DEF scheduleRespawn
  <2> QED BY <1>9, <2>1, <2>2, <2>3 DEF scheduleRespawn, StartTypeOK, wrappers, Stage
<1>10. ASSUME NEW w \in Wrapper, readDaemonPort(w) \/ AskRecorded(w) \/ AskDefault(w) PROVE StartTypeOK'
  <2>1. /\ seeks' \in [Wrapper -> {"off", "ask", "default", "poll", "found"}]
        /\ dials' \in [Wrapper -> Port \cup {NoPort}]
        /\ attached' \in [Wrapper -> Daemon \cup {NoPort}]
    <3>1. portFile \in Port \cup {NoPort} /\ dials[w] \in Port \cup {NoPort}
      BY DEF StartTypeOK
    <3> QED BY <1>0, <1>10, <3>1, SeekType DEF readDaemonPort, AskRecorded, AskDefault
  <2>2. UNCHANGED <<daemons, witness>>
    BY <1>10 DEF readDaemonPort, AskRecorded, AskDefault
  <2> QED BY <2>1, <2>2 DEF StartTypeOK, daemons, witness, Serving
<1>11. ASSUME NEW w \in Wrapper, Poll(w) PROVE StartTypeOK'
  <2>1. /\ seeks' \in [Wrapper -> {"off", "ask", "default", "poll", "found"}]
        /\ dials' \in [Wrapper -> Port \cup {NoPort}]
        /\ attached' \in [Wrapper -> Daemon \cup {NoPort}]
    <3>1. portFile \in Port \cup {NoPort}
      BY DEF StartTypeOK
    <3> QED BY <1>11, <3>1, SeekType DEF Poll
  <2>2. UNCHANGED daemons /\ mishaps' \in 0..MaxMishaps /\ orderly' \in BOOLEAN
    BY <1>11, <1>b DEF Poll, witness, StartTypeOK
  <2> QED BY <2>1, <2>2 DEF StartTypeOK, daemons, Serving
<1>12. ASSUME NEW w \in Wrapper, Dial(w) PROVE StartTypeOK'
  <2>1. (CHOOSE d \in Listens(dials[w]) : TRUE) \in Daemon
    BY <1>12 DEF Dial, Alive, Listens, Serving
  <2> QED BY <1>12, <2>1 DEF Dial, StartTypeOK, witness, Serving
<1>13. ASSUME NEW w \in Wrapper, NEW d \in Daemon, Spawn(w, d) PROVE StartTypeOK'
  <2>1. leaving \subseteq Serving' /\ stage' \in [Daemon -> Stage]
    BY <1>a, <1>13 DEF Spawn, Stage, Starting, StartTypeOK, Serving
  <2>2. mishaps' \in 0..MaxMishaps /\ orderly' \in BOOLEAN
    BY <1>c, <1>13 DEF Spawn
  <2>3. /\ seeks' \in [Wrapper -> {"off", "ask", "default", "poll", "found"}]
        /\ dials' \in [Wrapper -> Port \cup {NoPort}]
        /\ attached' \in [Wrapper -> Daemon \cup {NoPort}]
    BY <1>13, SeekType DEF Spawn
  <2> QED BY <1>13, <2>1, <2>2, <2>3 DEF Spawn, StartTypeOK, Stage
<1>14. CASE UNCHANGED startVars
  BY <1>14 DEF startVars, daemons, wrappers, witness, StartTypeOK, Serving
<1> QED BY <1>1, <1>2, <1>3, <1>4, <1>5, <1>6, <1>7, <1>8, <1>9, <1>10, <1>11, <1>12, <1>13, <1>14
        DEF StartNext

\* Daemons, wrappers, ports and the port file stay of the kinds that starts,
\* restarts and quits leave them in (src/src/index.ts, src/src/cli/wrap.ts).
THEOREM StartTypeCorrect == StartSpec => []StartTypeOK
<1>1. StartInit => StartTypeOK
  <2>1. StartInit => mishaps \in 0..MaxMishaps
    BY StartAssumption DEF StartInit
  <2> QED BY <2>1 DEF StartInit, StartTypeOK, Serving
<1> QED BY <1>1, StartTypeStep, PTL DEF StartSpec

\* While no mishap has happened and starts have not overlapped, the daemon that
\* stays is the one the port file names, and a start under way has read that
\* port, so it will find the daemon and leave.
HomeInv ==
    orderly =>
      /\ \A d, e \in InProgress : d = e
      /\ \A d, e \in Serving \ leaving : d = e
      /\ \A d \in Daemon : stage[d] = "listen" => portFile = port[d]
      /\ \A e \in Serving \ leaving :
           /\ portFile = port[e] /\ port[e] # NoPort
           /\ \A d \in InProgress : stage[d] = "probe" /\ port[d] = port[e]
Ported == \A d \in Daemon : stage[d] \in {"write", "listen", "serving"} => port[d] \in Port

\* A start that begins while none is under way.
LEMMA BeginsHome ==
  ASSUME StartTypeOK, HomeInv, NEW d \in Daemon, NEW but, stage[d] = "off",
         Begun(d, but),
         \/ /\ Reaches(d, "probe") /\ port' = [port EXCEPT ![d] = portFile]
            /\ leaving' = leaving
         \/ /\ Reaches(d, "pick") /\ port' = port
            /\ \E e \in Serving \ leaving : leaving' = leaving \cup {e},
         portFile' = portFile
  PROVE  HomeInv'
<1> SUFFICES ASSUME orderly' PROVE HomeInv'
  BY DEF HomeInv
<1>1. orderly /\ InProgress = {}
  BY DEF Begun
<1>2. /\ \A e \in Daemon \ {d} : stage'[e] = stage[e] /\ port'[e] = port[e]
      /\ stage'[d] \in {"probe", "pick"}
  BY ReachesType DEF StartTypeOK, Stage, Starting
<1>3. InProgress' = {d} /\ Serving' = Serving /\ d \notin Serving
  BY <1>1, <1>2 DEF InProgress, Serving, Starting
<1>4. CASE Reaches(d, "probe") /\ port' = [port EXCEPT ![d] = portFile] /\ leaving' = leaving
  <2>1. stage'[d] = "probe" /\ port'[d] = portFile
    BY <1>4, ReachesType DEF StartTypeOK, Stage, Starting
  <2>2. \A e \in Serving \ leaving : e \in Daemon \ {d} /\ portFile = port[e] /\ port[e] # NoPort
    BY <1>1, <1>3 DEF HomeInv, Serving
  <2>3. \A e \in Daemon : stage'[e] = "listen" => portFile = port'[e]
    BY <1>1, <1>2, <2>1 DEF HomeInv
  <2> QED BY <1>1, <1>2, <1>3, <1>4, <2>1, <2>2, <2>3 DEF HomeInv
<1>5. CASE port' = port /\ \E e \in Serving \ leaving : leaving' = leaving \cup {e}
  <2>1. (Serving \ leaving)' = {}
    BY <1>1, <1>3, <1>5 DEF HomeInv
  <2>2. \A e \in Daemon : stage'[e] = "listen" => portFile' = port'[e]
    BY <1>1, <1>2, <1>5 DEF HomeInv
  <2>3. \A e, f \in InProgress' : e = f
    BY <1>3
  <2> QED BY <2>1, <2>2, <2>3 DEF HomeInv
<1> QED BY <1>4, <1>5

\* A start under way goes on to a stage in which it does not serve.
LEMMA HomeStep == StartTypeOK /\ Ported /\ HomeInv /\ [StartNext]_startVars => HomeInv'
<1> SUFFICES ASSUME StartTypeOK, Ported, HomeInv, [StartNext]_startVars, orderly' PROVE HomeInv'
  BY DEF HomeInv
<1>a. CASE UNCHANGED <<portFile, stage, port, leaving>> /\ orderly' = orderly
  BY <1>a DEF HomeInv, InProgress, Serving
<1>b. ~Mishap
  BY DEF Mishap
<1>c. ASSUME NEW d \in Daemon, stage[d] \in Starting, orderly' = orderly, UNCHANGED leaving,
             \A e \in Daemon \ {d} : stage'[e] = stage[e] /\ port'[e] = port[e],
             portFile' = portFile \/ stage[d] # "probe" \/ portFile' = port[d],
             \/ stage'[d] = "gone"
             \/ /\ stage[d] # "probe" \/ \A e \in Serving \ leaving : port[e] # port[d]
                /\ stage'[d] \in Starting
                /\ stage'[d] = "listen" => portFile' = port'[d]
             \/ stage[d] = "listen" /\ stage'[d] = "serving" /\ port'[d] = port[d]
                /\ portFile' = portFile
      PROVE  HomeInv'
  <2>1. orderly /\ d \in InProgress /\ InProgress = {d}
    BY <1>c DEF HomeInv, InProgress
  <2>2. stage[d] # "serving" /\ d \notin Serving /\ d \notin leaving
    BY <1>c DEF Starting, Serving, StartTypeOK
  <2>3. stage[d] # "probe" => Serving \ leaving = {}
    BY <2>1 DEF HomeInv
  <2>4. \A e \in Daemon \ {d} : stage'[e] # "listen"
    BY <1>c, <2>1 DEF InProgress, Starting
  <2>5. CASE stage'[d] = "gone"
    <3>1. InProgress' = {} /\ Serving' = Serving
      BY <1>c, <2>1, <2>2, <2>5 DEF InProgress, Serving, Starting
    <3>2. \A e \in Serving \ leaving : port'[e] = port[e] /\ port[e] = portFile
                                       /\ port[e] = port[d]
      BY <1>c, <2>1, <2>2 DEF HomeInv, Serving
    <3>3. \A e \in Serving \ leaving : portFile' = port[e] /\ port[e] # NoPort
      BY <1>c, <2>1, <2>3, <3>2 DEF HomeInv
    <3> QED BY <1>c, <2>1, <2>4, <2>5, <3>1, <3>2, <3>3 DEF HomeInv
  <2>6. CASE /\ stage[d] # "probe" \/ \A e \in Serving \ leaving : port[e] # port[d]
             /\ stage'[d] \in Starting
             /\ stage'[d] = "listen" => portFile' = port'[d]
    <3>1. Serving \ leaving = {}
      BY <2>1, <2>3, <2>6 DEF HomeInv
    <3>2. InProgress' = {d} /\ Serving' = Serving
      BY <1>c, <2>1, <2>2, <2>6 DEF InProgress, Serving, Starting
    <3> QED BY <1>c, <2>4, <2>6, <3>1, <3>2 DEF HomeInv
  <2>7. CASE /\ stage[d] = "listen" /\ stage'[d] = "serving" /\ port'[d] = port[d]
             /\ portFile' = portFile
    <3>1. InProgress' = {} /\ Serving' \ leaving = {d}
      BY <1>c, <2>1, <2>2, <2>3, <2>7 DEF InProgress, Serving, Starting
    <3>2. portFile = port[d] /\ port[d] \in Port
      BY <2>1, <2>7 DEF HomeInv, Ported
    <3>3. port[d] # NoPort
      BY <3>2, StartAssumption DEF Port
    <3> QED BY <1>c, <2>4, <2>7, <3>1, <3>2, <3>3 DEF HomeInv
  <2> QED BY <1>c, <2>5, <2>6, <2>7
<1>d. ASSUME NEW d \in Daemon, stage[d] \in {"probe", "default"},
             NEW p, p = port[d] \/ stage[d] # "probe", Bails(d, p)
      PROVE  HomeInv'
  <2>1. /\ portFile' = p /\ Reaches(d, "gone") /\ UNCHANGED <<port, leaving>> /\ orderly' = orderly
    BY <1>d DEF Bails, Reconciled, Ended
  <2>2. stage'[d] = "gone" /\ \A e \in Daemon \ {d} : stage'[e] = stage[e]
    BY <2>1, ReachesType DEF Stage
  <2>3. stage[d] \in Starting
    BY <1>d DEF Starting
  <2> QED BY <1>c, <1>d, <2>1, <2>2, <2>3
<1>e. ASSUME NEW d \in Daemon, stage[d] \in {"probe", "default"}, NEW s \in {"default", "pick"},
             GoesOn(d, s), UNCHANGED witness,
             stage[d] = "probe" => ~Alive(port[d])
      PROVE  HomeInv'
  <2>1. Reaches(d, s) /\ UNCHANGED <<portFile, port, leaving>> /\ orderly' = orderly
    BY <1>e DEF GoesOn, witness
  <2>2. stage'[d] = s /\ \A e \in Daemon \ {d} : stage'[e] = stage[e]
    BY <2>1, ReachesType DEF Stage, Starting
  <2>3. stage[d] = "probe" => \A e \in Serving \ leaving : port[e] # port[d]
    <3>1. \A e \in Serving \ leaving : port[e] \in Port
      BY DEF Ported, Serving
    <3>2. \A e \in Serving \ leaving : port[e] # NoPort
      BY <3>1, StartAssumption DEF Port
    <3> QED BY <1>e, <3>2 DEF Alive, Listens
  <2>4. stage[d] \in Starting /\ s \in Starting /\ s # "listen"
    BY <1>e DEF Starting
  <2> QED BY <1>c, <1>e, <2>1, <2>2, <2>3, <2>4
<1>1. ASSUME NEW d \in Daemon, start(d) PROVE HomeInv'
  BY <1>1, BeginsHome DEF start
<1>2. ASSUME NEW d \in Daemon, Probe(d) PROVE HomeInv'
  BY <1>2, <1>b, <1>d, <1>e DEF Probe
<1>3. ASSUME NEW d \in Daemon, ProbeDefault(d) PROVE HomeInv'
  BY <1>3, <1>b, <1>d, <1>e DEF ProbeDefault
<1>4. ASSUME NEW d \in Daemon, findFreePort(d) PROVE HomeInv'
  <2>1. PICK s \in {"gone", "write"} : Reaches(d, s)
    BY <1>4, Zenon DEF findFreePort
  <2>2. stage'[d] = s /\ \A e \in Daemon \ {d} : stage'[e] = stage[e]
    BY <2>1, ReachesType DEF Stage, Starting
  <2>3. /\ stage[d] = "pick" /\ UNCHANGED <<portFile, leaving>> /\ orderly' = orderly
        /\ \A e \in Daemon \ {d} : port'[e] = port[e]
    BY <1>4 DEF findFreePort, witness, StartTypeOK
  <2>4. stage[d] \in Starting /\ "write" \in Starting
    BY <2>3 DEF Starting
  <2> QED BY <1>c, <2>2, <2>3, <2>4
<1>5. ASSUME NEW d \in Daemon, Write(d) PROVE HomeInv'
  <2>1. /\ stage[d] = "write" /\ portFile' = port[d] /\ Reaches(d, "listen")
        /\ UNCHANGED <<port, leaving>> /\ orderly' = orderly
    BY <1>5 DEF Write, witness
  <2>2. stage'[d] = "listen" /\ \A e \in Daemon \ {d} : stage'[e] = stage[e]
    BY <2>1, ReachesType DEF Stage, Starting
  <2>3. stage[d] \in Starting /\ "listen" \in Starting
    BY <2>1 DEF Starting
  <2> QED BY <1>c, <2>1, <2>2, <2>3
<1>6. ASSUME NEW d \in Daemon, Listen(d) PROVE HomeInv'
  <2>1. PICK s \in {"serving", "gone"} : Reaches(d, s)
    BY <1>6, Zenon DEF Listen
  <2>2. stage'[d] = s /\ \A e \in Daemon \ {d} : stage'[e] = stage[e]
    BY <2>1, ReachesType DEF Stage, Starting
  <2>3. stage[d] = "listen" /\ UNCHANGED <<portFile, port, leaving>> /\ orderly' = orderly
    BY <1>6 DEF Listen, Ended
  <2>4. stage[d] \in Starting
    BY <2>3 DEF Starting
  <2> QED BY <1>c, <2>2, <2>3, <2>4
<1>7. ASSUME NEW d \in Daemon, Quit(d) PROVE HomeInv'
  BY <1>7 DEF Quit, HomeInv, InProgress, Serving
<1>8. ASSUME NEW d \in Daemon, Leaves(d) PROVE HomeInv'
  <2>1. /\ d \in leaving /\ d \in Serving /\ leaving' = leaving \ {d} /\ Reaches(d, "gone")
        /\ UNCHANGED <<portFile, port>> /\ orderly' = orderly
    BY <1>8 DEF Leaves, Dies, witness, StartTypeOK
  <2>2. stage'[d] = "gone" /\ \A e \in Daemon \ {d} : stage'[e] = stage[e]
    BY <2>1, ReachesType DEF Stage
  <2>3. /\ Serving' \ leaving' = Serving \ leaving
        /\ InProgress' = InProgress
        /\ \A e \in Daemon : stage'[e] \in Starting => stage'[e] = stage[e]
    BY <2>1, <2>2 DEF Serving, InProgress, Starting
  <2>4. \A e \in InProgress : stage'[e] = stage[e]
    BY <2>3 DEF InProgress
  <2>5. \A e \in Daemon : stage'[e] = "listen" => stage[e] = "listen"
    BY <2>2
  <2> QED BY <2>1, <2>3, <2>4, <2>5 DEF HomeInv
<1>9. ASSUME NEW d \in Daemon, NEW new \in Daemon, scheduleRespawn(d, new) PROVE HomeInv'
  BY <1>9, BeginsHome DEF scheduleRespawn
<1>10. ASSUME NEW w \in Wrapper, NEW d \in Daemon, Spawn(w, d) PROVE HomeInv'
  BY <1>10, BeginsHome DEF Spawn
<1>11. ASSUME NEW w \in Wrapper, readDaemonPort(w) \/ AskRecorded(w) \/ AskDefault(w) \/ Poll(w) \/ Dial(w)
       PROVE  HomeInv'
  BY <1>11, <1>a, <1>b DEF readDaemonPort, AskRecorded, AskDefault, Poll, Dial, daemons, witness
<1>12. CASE UNCHANGED startVars
  BY <1>12, <1>a DEF startVars, daemons, witness
<1>13. \A d \in Daemon : ~Crashes(d)
  BY <1>b DEF Crashes
<1> QED BY <1>1, <1>2, <1>3, <1>4, <1>5, <1>6, <1>7, <1>8, <1>9, <1>10, <1>11, <1>12, <1>13
        DEF StartNext
LEMMA PortedStep == StartTypeOK /\ Ported /\ [StartNext]_startVars => Ported'
<1> SUFFICES ASSUME StartTypeOK, Ported, [StartNext]_startVars PROVE Ported'
  OBVIOUS
<1>a. ASSUME UNCHANGED <<stage, port>> PROVE Ported'
  BY <1>a DEF Ported
<1>b. ASSUME NEW d \in Daemon, NEW s \in Stage, Reaches(d, s),
             \A e \in Daemon \ {d} : port'[e] = port[e],
             s \in {"write", "listen", "serving"} => port'[d] \in Port
      PROVE  Ported'
  <2>1. stage'[d] = s /\ \A e \in Daemon \ {d} : stage'[e] = stage[e]
    BY <1>b, ReachesType
  <2> QED BY <1>b, <2>1 DEF Ported
<1>1. ASSUME NEW d \in Daemon, start(d) \/ \E w \in Wrapper : Spawn(w, d) PROVE Ported'
  <2>1. Reaches(d, "probe") /\ \A e \in Daemon \ {d} : port'[e] = port[e]
    BY <1>1 DEF start, Spawn, StartTypeOK
  <2> QED BY <1>b, <2>1 DEF Stage, Starting
<1>2. ASSUME NEW d \in Daemon, Probe(d) \/ ProbeDefault(d) \/ Leaves(d) \/ Crashes(d) PROVE Ported'
  <2>1. (Reaches(d, "gone") \/ Reaches(d, "default") \/ Reaches(d, "pick")) /\ port' = port
    BY <1>2 DEF Probe, ProbeDefault, Bails, GoesOn, Leaves, Crashes, Dies
  <2> QED BY <1>b, <2>1 DEF Stage, Starting
<1>3. ASSUME NEW d \in Daemon, findFreePort(d) PROVE Ported'
  <2>1. PICK held \in SUBSET Port :
          LET free == {p \in Port \ held : Listens(p) = {}} IN
          IF free = {} THEN /\ Reaches(d, "gone") /\ UNCHANGED <<port, mishaps, orderly>>
                            /\ alone' = NoPort
          ELSE /\ port' = [port EXCEPT ![d] = Least(free)]
               /\ Reaches(d, "write") /\ UNCHANGED witness
    BY <1>3 DEF findFreePort, Tried
  <2>2. \/ Reaches(d, "gone") /\ port' = port
        \/ Reaches(d, "write") /\ \E p \in Port : port' = [port EXCEPT ![d] = p]
    BY <2>1, FreePort
  <2> QED BY <1>b, <2>2 DEF Stage, Starting, StartTypeOK
<1>4. ASSUME NEW d \in Daemon, Write(d) PROVE Ported'
  <2>1. Reaches(d, "listen") /\ port' = port /\ port[d] \in Port
    BY <1>4 DEF Write, Ported
  <2> QED BY <1>b, <2>1 DEF Stage, Starting
<1>5. ASSUME NEW d \in Daemon, Listen(d) PROVE Ported'
  <2>1. (Reaches(d, "serving") \/ Reaches(d, "gone")) /\ port' = port /\ port[d] \in Port
    BY <1>5 DEF Listen, Ported
  <2> QED BY <1>b, <2>1 DEF Stage
<1>6. ASSUME NEW d \in Daemon, NEW new \in Daemon, scheduleRespawn(d, new) PROVE Ported'
  <2>1. Reaches(new, "pick") /\ port' = port
    BY <1>6 DEF scheduleRespawn
  <2> QED BY <1>b, <2>1 DEF Stage, Starting
<1>7. ASSUME NEW w \in Wrapper, readDaemonPort(w) \/ AskRecorded(w) \/ AskDefault(w) \/ Poll(w) \/ Dial(w)
      PROVE  Ported'
  BY <1>7, <1>a DEF readDaemonPort, AskRecorded, AskDefault, Poll, Dial, daemons
<1>8. (\E d \in Daemon : Quit(d)) \/ UNCHANGED startVars => Ported'
  BY <1>a DEF Quit, startVars, daemons
<1> QED BY <1>1, <1>2, <1>3, <1>4, <1>5, <1>6, <1>7, <1>8 DEF StartNext

LEMMA HomeInvariant == StartSpec => [](StartTypeOK /\ Ported /\ HomeInv)
<1>1. StartInit => Ported /\ HomeInv
  BY DEF StartInit, Ported, HomeInv, InProgress, Serving, Starting
<1> QED BY <1>1, PortedStep, HomeStep, StartTypeCorrect, PTL DEF StartSpec

\* Starts that do not overlap, restarts and quits leave one daemon that stays,
\* whichever ports the port file and the earlier daemons name (the guard of
\* src/src/index.ts and the respawn of /admin/restart in src/src/server.ts).
THEOREM OneDaemonStays == StartSpec => []OneHome
<1>1. HomeInv => OneHome
  <2> SUFFICES ASSUME HomeInv, orderly PROVE Cardinality(Serving \ leaving) <= 1
    BY DEF OneHome
  <2>1. CASE Serving \ leaving = {}
    <3>1. Cardinality(Serving \ leaving) = 0
      BY <2>1, FS_EmptySet, Zenon
    <3> QED BY <3>1
  <2>2. CASE Serving \ leaving # {}
    <3>1. PICK d : Serving \ leaving = {d}
      BY <2>2 DEF HomeInv
    <3>2. Cardinality(Serving \ leaving) = 1
      BY <3>1, FS_Singleton, Zenon
    <3> QED BY <3>2
  <2> QED BY <2>1, <2>2
<1> QED BY <1>1, HomeInvariant, PTL
\* A start that runs with nothing else happening: while it looks for a daemon
\* none is about to exit, the port it takes stays its own until it listens, and
\* at its end the file names a daemon that stays.
AloneInv ==
    /\ alone \in Daemon =>
         /\ InProgress = {alone}
         /\ stage[alone] \in {"probe", "default"} => leaving = {}
         /\ stage[alone] \in {"write", "listen"} => Listens(port[alone]) = {}
         /\ stage[alone] = "listen" => portFile = port[alone]
    /\ alone = "home" =>
         /\ InProgress = {}
         /\ \E d \in Serving \ leaving : port[d] = portFile

LEMMA AloneStep == StartTypeOK /\ AloneInv /\ [StartNext]_startVars => AloneInv'
<1> SUFFICES ASSUME StartTypeOK, AloneInv, [StartNext]_startVars PROVE AloneInv'
  OBVIOUS
<1> USE HomeAssumption, StartAssumption
<1>a. CASE UNCHANGED <<portFile, stage, port, leaving, alone>>
  BY <1>a DEF AloneInv, InProgress, Serving, Listens
<1>b. ASSUME alone' = NoPort PROVE AloneInv'
  BY <1>b DEF AloneInv
<1>c. ASSUME NEW d \in Daemon, stage[d] = "off", NEW s \in {"probe", "pick"}, Reaches(d, s),
             NEW but, Begun(d, but), s = "probe" => but = {} /\ leaving' = leaving
      PROVE  AloneInv'
  <2>1. stage'[d] = s /\ \A e \in Daemon \ {d} : stage'[e] = stage[e]
    BY <1>c, ReachesType DEF Stage, Starting
  <2>2. CASE InProgress = {} /\ leaving \subseteq but
    <3>1. alone' = d
      BY <1>c, <2>2 DEF Begun
    <3>2. InProgress' = {d}
      BY <2>1, <2>2 DEF InProgress, Starting
    <3> QED BY <1>c, <2>1, <2>2, <3>1, <3>2 DEF AloneInv
  <2>3. CASE ~(InProgress = {} /\ leaving \subseteq but)
    BY <1>c, <1>b, <2>3 DEF Begun
  <2> QED BY <2>2, <2>3
<1>d. ASSUME NEW d \in Daemon, stage[d] \in Starting PROVE alone # "home" /\ alone \in Daemon => alone = d
  BY <1>d DEF AloneInv, InProgress
<1>e. ASSUME NEW d \in Daemon, stage[d] \in {"probe", "default"}, NEW p, Bails(d, p)
      PROVE  AloneInv'
  <2>1. /\ stage'[d] = "gone" /\ \A e \in Daemon \ {d} : stage'[e] = stage[e]
        /\ portFile' = p /\ UNCHANGED <<port, leaving>>
        /\ alone' = IF alone = d THEN "home" ELSE NoPort
        /\ Alive(p)
    BY <1>e, ReachesType DEF Bails, Reconciled, Ended, Stage
  <2>2. CASE alone = d
    <3>1. InProgress = {d} /\ leaving = {}
      BY <1>e, <2>2 DEF AloneInv
    <3>2. InProgress' = {} /\ Serving' = Serving
      BY <1>e, <2>1, <3>1 DEF InProgress, Serving, Starting
    <3>3. PICK e \in Serving : port[e] = p
      BY <2>1 DEF Alive, Listens
    <3>4. \E f \in Serving' \ leaving' : port'[f] = portFile'
      BY <2>1, <3>1, <3>2, <3>3
    <3> QED BY <2>1, <2>2, <3>2, <3>4 DEF AloneInv
  <2>3. CASE alone # d
    BY <1>b, <2>1, <2>3
  <2> QED BY <2>2, <2>3
<1>f. ASSUME NEW d \in Daemon, stage[d] \in Starting, NEW s \in Starting, Reaches(d, s),
             UNCHANGED <<leaving, alone>>,
             s = "default" => stage[d] = "probe", s # "probe",
             s \in {"write", "listen"} => Listens(port'[d]) = {},
             s = "listen" => portFile' = port'[d],
             \A e \in Daemon \ {d} : port'[e] = port[e]
      PROVE  AloneInv'
  <2>1. stage'[d] = s /\ \A e \in Daemon \ {d} : stage'[e] = stage[e]
    BY <1>f, ReachesType DEF Stage
  <2>2. CASE alone = d
    <3>1. InProgress = {d}
      BY <2>2 DEF AloneInv
    <3>2. InProgress' = {d} /\ Serving' = Serving /\ d \notin Serving
      BY <1>f, <2>1, <3>1 DEF InProgress, Serving, Starting
    <3>3. s \in {"write", "listen"} => Listens(port[d])' = {}
      BY <1>f, <3>2 DEF Listens, Serving
    <3>4. s = "default" => leaving = {}
      BY <1>f, <2>2 DEF AloneInv
    <3> QED BY <1>f, <2>1, <2>2, <3>2, <3>3, <3>4 DEF AloneInv
  <2>3. CASE alone # d
    BY <1>d, <1>f, <2>3 DEF AloneInv, InProgress
  <2> QED BY <2>2, <2>3
<1>1. ASSUME NEW d \in Daemon, start(d) \/ \E w \in Wrapper : Spawn(w, d) PROVE AloneInv'
  <2>1. stage[d] = "off" /\ Reaches(d, "probe") /\ Begun(d, {}) /\ leaving' = leaving
    BY <1>1 DEF start, Spawn
  <2> QED BY <2>1, <1>c
<1>2. ASSUME NEW d \in Daemon, Probe(d) PROVE AloneInv'
  <2>1. CASE GoesOn(d, "default") /\ UNCHANGED witness
    BY <1>2, <1>f, <2>1 DEF Probe, GoesOn, witness, Starting
  <2>2. CASE Mishap
    BY <1>b, <2>2 DEF Mishap
  <2>3. stage[d] = "probe"
    BY <1>2 DEF Probe
  <2> QED BY <1>2, <1>e, <2>1, <2>2, <2>3 DEF Probe
<1>3. ASSUME NEW d \in Daemon, ProbeDefault(d) PROVE AloneInv'
  <2>1. CASE GoesOn(d, "pick") /\ UNCHANGED witness
    BY <1>3, <1>f, <2>1 DEF ProbeDefault, GoesOn, witness, Starting
  <2>2. CASE Mishap
    BY <1>b, <2>2 DEF Mishap
  <2>3. stage[d] = "default"
    BY <1>3 DEF ProbeDefault
  <2> QED BY <1>3, <1>e, <2>1, <2>2, <2>3 DEF ProbeDefault
<1>4. ASSUME NEW d \in Daemon, findFreePort(d) PROVE AloneInv'
  <2>1. PICK held \in SUBSET Port :
          LET free == {p \in Port \ held : Listens(p) = {}} IN
          IF free = {} THEN /\ Reaches(d, "gone") /\ UNCHANGED <<port, mishaps, orderly>>
                            /\ alone' = NoPort
          ELSE /\ port' = [port EXCEPT ![d] = Least(free)]
               /\ Reaches(d, "write") /\ UNCHANGED witness
    BY <1>4 DEF findFreePort, Tried
  <2>2. CASE alone' = NoPort
    BY <1>b, <2>2
  <2>3. CASE \E p \in Port : Listens(p) = {} /\ port' = [port EXCEPT ![d] = p]
                             /\ Reaches(d, "write") /\ UNCHANGED witness
    <3>1. PICK p \in Port : Listens(p) = {} /\ port' = [port EXCEPT ![d] = p]
                             /\ Reaches(d, "write") /\ UNCHANGED witness
      BY <2>3
    <3>2. port'[d] = p /\ \A e \in Daemon \ {d} : port'[e] = port[e]
      BY <3>1 DEF StartTypeOK
    <3>3. stage[d] = "pick" /\ UNCHANGED <<leaving, alone>> /\ Listens(port'[d]) = {}
      BY <1>4, <3>1, <3>2 DEF findFreePort, witness
    <3> QED BY <1>f, <3>1, <3>2, <3>3 DEF Starting
  <2> QED BY <2>1, <2>2, <2>3, FreePort
<1>5. ASSUME NEW d \in Daemon, Write(d) PROVE AloneInv'
  <2>1. /\ stage[d] = "write" /\ Reaches(d, "listen") /\ UNCHANGED <<port, leaving, alone>>
        /\ portFile' = port[d]
    BY <1>5 DEF Write, witness
  <2>2. CASE alone = d
    <3>1. Listens(port'[d]) = {}
      BY <2>1, <2>2 DEF AloneInv
    <3> QED BY <1>f, <2>1, <3>1 DEF Starting
  <2>3. CASE alone # d
    BY <1>d, <2>1, <2>3 DEF AloneInv, InProgress, Starting
  <2> QED BY <2>2, <2>3
<1>6. ASSUME NEW d \in Daemon, Listen(d) PROVE AloneInv'
  <2>1. /\ stage[d] = "listen" /\ UNCHANGED <<portFile, port, leaving>>
        /\ Reaches(d, IF Listens(port[d]) = {} THEN "serving" ELSE "gone")
        /\ alone' = IF alone = d THEN "home" ELSE NoPort
    BY <1>6 DEF Listen, Ended
  <2>2. CASE alone = d
    <3>1. InProgress = {d} /\ Listens(port[d]) = {} /\ portFile = port[d]
      BY <2>1, <2>2 DEF AloneInv
    <3>2. stage'[d] = "serving" /\ \A e \in Daemon \ {d} : stage'[e] = stage[e]
      BY <2>1, <3>1, ReachesType DEF Stage
    <3>3. InProgress' = {} /\ d \in Serving' /\ d \notin leaving
      BY <2>1, <3>1, <3>2 DEF InProgress, Serving, Starting, StartTypeOK
    <3> QED BY <2>1, <2>2, <3>1, <3>3 DEF AloneInv
  <2>3. CASE alone # d
    BY <1>b, <2>1, <2>3
  <2> QED BY <2>2, <2>3
<1>7. ASSUME NEW d \in Daemon, Quit(d) \/ Crashes(d) PROVE AloneInv'
  BY <1>7, <1>b DEF Quit, Crashes, Mishap
<1>8. ASSUME NEW d \in Daemon, Leaves(d) PROVE AloneInv'
  <2>1. /\ d \in leaving /\ d \in Serving /\ leaving' = leaving \ {d} /\ Reaches(d, "gone")
        /\ UNCHANGED <<portFile, port, alone>>
    BY <1>8 DEF Leaves, Dies, witness, StartTypeOK
  <2>2. stage'[d] = "gone" /\ \A e \in Daemon \ {d} : stage'[e] = stage[e]
    BY <2>1, ReachesType DEF Stage
  <2>3. /\ Serving' \ leaving' = Serving \ leaving /\ Serving' \subseteq Serving
        /\ InProgress' = InProgress
    BY <2>1, <2>2 DEF Serving, InProgress, Starting
  <2>4. CASE alone \in Daemon
    <3>1. InProgress = {alone} /\ alone # d
      BY <2>1, <2>4 DEF AloneInv, InProgress, Serving, Starting
    <3>2. stage'[alone] = stage[alone] /\ Listens(port[alone])' \subseteq Listens(port[alone])
      BY <2>1, <2>2, <2>3, <2>4, <3>1 DEF Listens
    <3> QED BY <2>1, <2>3, <2>4, <3>1, <3>2 DEF AloneInv
  <2>5. CASE alone \notin Daemon
    BY <2>1, <2>3, <2>5 DEF AloneInv
  <2> QED BY <2>4, <2>5
<1>9. ASSUME NEW d \in Daemon, NEW new \in Daemon, scheduleRespawn(d, new) PROVE AloneInv'
  BY <1>9, <1>c DEF scheduleRespawn
<1>10. ASSUME NEW w \in Wrapper, readDaemonPort(w) \/ AskRecorded(w) \/ AskDefault(w) \/ Poll(w) \/ Dial(w)
       PROVE  AloneInv'
  BY <1>10, <1>a, <1>b DEF readDaemonPort, AskRecorded, AskDefault, Poll, Dial, daemons, witness, Mishap
<1>11. CASE UNCHANGED startVars
  BY <1>11, <1>a DEF startVars, daemons, witness
<1> QED BY <1>1, <1>2, <1>3, <1>4, <1>5, <1>6, <1>7, <1>8, <1>9, <1>10, <1>11 DEF StartNext

\* Whatever crashed and crossed starts have left in the port file, a start that
\* ends with nothing else happening leaves the port of a daemon that answers,
\* its own or one it found (the guard of src/src/index.ts, which reconciles it).
THEOREM StartSetsTheFileRight == StartSpec => []FileLeadsHome
<1>1. StartInit => AloneInv
  BY HomeAssumption, StartAssumption DEF StartInit, AloneInv
<1>2. StartTypeOK /\ Ported /\ AloneInv => FileLeadsHome
  <2> SUFFICES ASSUME StartTypeOK, Ported, AloneInv, alone = "home" PROVE Alive(portFile)
    BY DEF FileLeadsHome
  <2>1. PICK d \in Serving \ leaving : port[d] = portFile
    BY DEF AloneInv
  <2>2. port[d] \in Port
    BY <2>1 DEF Ported, Serving
  <2>3. portFile # NoPort
    BY <2>1, <2>2, StartAssumption DEF Port
  <2> QED BY <2>1, <2>3 DEF Alive, Listens
<1> QED BY <1>1, <1>2, AloneStep, HomeInvariant, PTL DEF StartSpec
=============================================================================
