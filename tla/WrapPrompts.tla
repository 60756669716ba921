---------------------------- MODULE WrapPrompts -----------------------------
(***************************************************************************)
(* What flows through one wrapped session once it runs: prompts from the   *)
(* terminal and from the dashboards into the stream the SDK reads, Claude's *)
(* AskUserQuestion calls and their answers, and the activity badge         *)
(* (src/src/cli/wrap.ts; src/src/server.ts keeps the caches dashboards     *)
(* read).  Which process and socket carry the session is WrapLifecycle's   *)
(* subject: here there is one wrapper, one session id and one daemon, and  *)
(* the link between them drops and comes back.                             *)
(*                                                                         *)
(* Frames that leave no trace in the daemon but the row's status           *)
(* (turn_start, turn_end: WrapLifecycle!Turn) or none at all (user_message, *)
(* message, assistant_delta) are left out.                                 *)
(***************************************************************************)
EXTENDS Naturals, Sequences

CONSTANTS
    Question,    \* AskUserQuestion calls, each made once
    Label,       \* activity labels
    Ideating,    \* the label of a wrapper that passed input on
    MaxPrompts,  \* bound on prompts from terminal and dashboards
    MaxDrops,    \* bound on drops of the link
    MaxUp,       \* bound on frames under way to the daemon
    MaxDown,     \* bound on frames under way to the wrapper
    None

ASSUME BoundAssumption ==
    /\ MaxPrompts \in Nat /\ MaxDrops \in Nat
    /\ MaxUp \in Nat /\ MaxDown \in Nat
ASSUME LabelAssumption == Ideating \in Label
ASSUME NoneAssumption == None \notin Question /\ None \notin Label

VARIABLES
    buffer, waiting, closed, given, over,  \* the stream `messages`
    known,            \* resumeUuid is set
    link,             \* the wrapper's WebSocket
    pendingAsk, currentActivity,
    interrupting,     \* an interrupt() call is under way
    asked,            \* the AskUserQuestion calls Claude has made
    prompts,          \* prompts typed or sent so far
    ended,            \* the loop over the SDK's messages has ended
    up, down,         \* frames under way to the daemon, to the wrapper
    bound,            \* wrapConnections has the session
    wrapAsks, wrapActivity,
    drops

\* What the SDK can be given: a prompt, or the tool_result for a question,
\* with the question whoever answered had in mind.
Prompt(n) == [kind |-> "prompt", of |-> n, meant |-> None]
Answer(q, meant) == [kind |-> "answer", of |-> q, meant |-> meant]
Message == {Prompt(n) : n \in 1..MaxPrompts}
              \cup {Answer(q, m) : q \in Question, m \in Question}

Frame(type, arg) == [type |-> type, arg |-> arg]
UpFrame ==
    {Frame("session_uuid", None)}
      \cup {Frame("activity", a) : a \in Label \cup {None}}
      \cup {Frame(t, q) : t \in {"ask_question", "ask_question_done"},
                          q \in Question}
DownFrame ==
    {Frame("push", n) : n \in 1..MaxPrompts}
      \cup {Frame("ask_question_answer", q) : q \in Question}
      \cup {Frame("interrupt", None)}

Stream == INSTANCE PromptStream

messages == <<buffer, waiting, closed, given, over>>
wrapper == <<known, pendingAsk, currentActivity, interrupting, asked, ended>>
daemon == <<bound, wrapAsks, wrapActivity>>
vars == <<messages, wrapper, daemon, link, prompts, up, down, drops>>

----------------------------------------------------------------------------
(* wrap.ts: input.                                                         *)

\* Room for what one step sends (bound).
Room == Len(up) + 2 <= MaxUp

\* liveWs.send: frames leave only on an open socket of a known session.
Send(frames) == up' = IF link = "open" /\ known THEN up \o frames ELSE up

\* setActivity tells the daemon of a change only.
ActivityFrames(label) ==
    IF label = currentActivity THEN <<>> ELSE <<Frame("activity", label)>>

\* sendUser.
SendUser(n) ==
    /\ Stream!Push(Prompt(n))
    /\ currentActivity' = Ideating
    /\ Send(ActivityFrames(Ideating))
    /\ UNCHANGED pendingAsk

\* Mutant: an answered question stays pending.
StillPending == pendingAsk
Answered == None

\* answerAsk.
AnswerAsk(meant) ==
    /\ pendingAsk # None
    /\ pendingAsk' = Answered
    /\ Stream!Push(Answer(pendingAsk, meant))
    /\ currentActivity' = Ideating
    /\ Send(<<Frame("ask_question_done", pendingAsk)>>
              \o ActivityFrames(Ideating))

\* A line is typed, or --fresh sends its first one.  It answers the pending
\* question, the last one printed, unless it parses to nothing ("," does);
\* otherwise it is a prompt.
Line ==
    /\ ~closed /\ Room /\ prompts < MaxPrompts
    /\ prompts' = prompts + 1
    /\ AnswerAsk(pendingAsk) \/ SendUser(prompts')
    /\ UNCHANGED <<known, interrupting, asked, ended, daemon, link, down,
                   drops>>

\* stdin ends: rl's close event.
EndOfInput ==
    /\ Stream!End
    /\ UNCHANGED <<wrapper, daemon, link, prompts, up, down, drops>>

\* Mutant: only an answer that finds no question at all is stale.
NothingToAnswer(q) == pendingAsk = None
Stale(q) == pendingAsk # q

\* The socket's message handler.  An answer that is stale, or parses to
\* nothing, changes nothing.
Receive ==
    /\ link = "open" /\ down # <<>> /\ Room
    /\ down' = Tail(down)
    /\ LET m == Head(down) IN
       \/ /\ m.type = "push"
          /\ SendUser(m.arg)
          /\ UNCHANGED interrupting
       \/ /\ m.type = "ask_question_answer"
          /\ \/ ~Stale(m.arg) /\ AnswerAsk(m.arg)
             \/ UNCHANGED <<messages, pendingAsk, currentActivity, up>>
          /\ UNCHANGED interrupting
       \/ /\ m.type = "interrupt"
          /\ interrupting' = TRUE
          /\ UNCHANGED <<messages, pendingAsk, currentActivity, up>>
    /\ UNCHANGED <<known, asked, ended, daemon, link, prompts, drops>>

\* interrupt() has resolved, or was rejected.
Interrupted ==
    /\ interrupting /\ Room
    /\ interrupting' = FALSE
    /\ \/ /\ currentActivity' = None
          /\ Send(ActivityFrames(None))
       \/ UNCHANGED <<currentActivity, up>>
    /\ UNCHANGED <<messages, known, pendingAsk, asked, ended, daemon, link,
                   prompts, down, drops>>

----------------------------------------------------------------------------
(* wrap.ts: the loop over the SDK's messages.  Claude says nothing before  *)
(* it was given something; what it says when is its own choice.            *)

Speaks == ~ended /\ given # <<>> /\ Room

\* The SDK asks the stream for the next message.
Pull ==
    /\ Stream!Pull
    /\ UNCHANGED <<wrapper, daemon, link, prompts, up, down, drops>>

\* The init message brings the session id; with the link down it is missed.
SdkInit ==
    /\ Speaks /\ ~known /\ link = "open"
    /\ known' = TRUE
    /\ up' = Append(up, Frame("session_uuid", None))
    /\ UNCHANGED <<messages, pendingAsk, currentActivity, interrupting, asked,
                   ended, daemon, link, prompts, down, drops>>

\* Text, a tool call, a tool's result, or the result of the turn (None).
Activity(label) ==
    /\ Speaks
    /\ currentActivity' = label
    /\ Send(ActivityFrames(label))
    /\ UNCHANGED <<messages, known, pendingAsk, interrupting, asked, ended,
                   daemon, link, prompts, down, drops>>

\* An AskUserQuestion call: "Using AskUserQuestion", then emitAskQuestion,
\* which takes the place of a question still pending.
Ask(q, label) ==
    /\ Speaks /\ q \notin asked
    /\ asked' = asked \cup {q}
    /\ pendingAsk' = q
    /\ currentActivity' = label
    /\ Send(ActivityFrames(label) \o <<Frame("ask_question", q)>>)
    /\ UNCHANGED <<messages, known, interrupting, ended, daemon, link, prompts,
                   down, drops>>

\* The stream is over, the loop ends and closes the socket it has.  A pending
\* reconnect is cancelled, but the close of an open socket starts another.
Finish ==
    /\ over /\ ~ended
    /\ ended' = TRUE
    /\ link' = IF link = "open" THEN "closing"
               ELSE IF link = "closing" THEN "gone" ELSE "off"
    /\ down' = <<>>
    /\ UNCHANGED <<messages, known, pendingAsk, currentActivity, interrupting,
                   asked, daemon, prompts, up, drops>>

----------------------------------------------------------------------------
(* The link.  "closing": the wrapper's end is closed and the daemon has yet *)
(* to notice, which it does before the reconnect 3 s later; "gone" and      *)
(* "off": the same two, with no reconnect to come.                          *)

Drop ==
    /\ link = "open" /\ drops < MaxDrops
    /\ drops' = drops + 1
    /\ link' = "closing"
    /\ down' = <<>>
    /\ \E n \in 0..Len(up) : up' = SubSeq(up, 1, n)
    /\ UNCHANGED <<messages, wrapper, daemon, prompts>>

\* connect, and its open event.
Reconnect ==
    /\ link = "down"
    /\ link' = "open"
    /\ up' = IF known THEN <<Frame("session_uuid", None)>> ELSE <<>>
    /\ UNCHANGED <<messages, wrapper, daemon, prompts, down, drops>>

----------------------------------------------------------------------------
(* server.ts.                                                              *)

\* Mutant: the question outlives the connection it was asked on.
KeptAsk == wrapAsks
ClosedAsk == None

\* wrapWss's close event; a connection that was never bound leaves no trace.
Close ==
    /\ link \in {"closing", "gone"} /\ up = <<>>
    /\ link' = IF link = "closing" THEN "down" ELSE "off"
    /\ bound' = FALSE
    /\ wrapAsks' = IF bound THEN ClosedAsk ELSE wrapAsks
    /\ wrapActivity' = IF bound THEN None ELSE wrapActivity
    /\ UNCHANGED <<messages, wrapper, prompts, up, down, drops>>

\* The caches keep what the frame says, not the frame.
LabelOf(m) == m.arg

\* wrapWss's message handler.
Hear ==
    /\ up # <<>>
    /\ up' = Tail(up)
    /\ LET m == Head(up) IN
       \/ /\ m.type = "session_uuid"
          /\ bound' = TRUE
          /\ UNCHANGED <<wrapAsks, wrapActivity>>
       \/ /\ m.type = "activity"
          /\ wrapActivity' = LabelOf(m)
          /\ UNCHANGED <<bound, wrapAsks>>
       \/ /\ m.type = "ask_question"
          /\ wrapAsks' = m.arg
          /\ UNCHANGED <<bound, wrapActivity>>
       \/ /\ m.type = "ask_question_done"
          /\ wrapAsks' = None
          /\ UNCHANGED <<bound, wrapActivity>>
    /\ UNCHANGED <<messages, wrapper, link, prompts, down, drops>>

\* ws.send to the wrapper; nothing arrives once its end is closed.
ToWrapper(frame) ==
    /\ bound /\ Len(down) < MaxDown
    /\ down' = IF link = "open" THEN Append(down, frame) ELSE down

\* POST /send, /wrap/answer and /wrap/interrupt for the session; a dashboard
\* may answer any question it was ever shown.
HubSend ==
    /\ prompts < MaxPrompts
    /\ prompts' = prompts + 1
    /\ ToWrapper(Frame("push", prompts'))
    /\ UNCHANGED <<messages, wrapper, daemon, link, up, drops>>

HubAnswer(q) ==
    /\ q \in asked
    /\ ToWrapper(Frame("ask_question_answer", q))
    /\ UNCHANGED <<messages, wrapper, daemon, link, prompts, up, drops>>

HubInterrupt ==
    /\ ToWrapper(Frame("interrupt", None))
    /\ UNCHANGED <<messages, wrapper, daemon, link, prompts, up, drops>>

----------------------------------------------------------------------------
\* The wrapper has connected; it resumes a session or starts a new one.
Init ==
    /\ Stream!StreamInit
    /\ known \in BOOLEAN
    /\ link = "down"
    /\ pendingAsk = None
    /\ currentActivity = None
    /\ interrupting = FALSE
    /\ asked = {}
    /\ prompts = 0
    /\ ended = FALSE
    /\ up = <<>> /\ down = <<>>
    /\ bound = FALSE
    /\ wrapAsks = None
    /\ wrapActivity = None
    /\ drops = 0

Next ==
    \/ Line \/ EndOfInput \/ Receive \/ Interrupted
    \/ Pull \/ SdkInit \/ Finish
    \/ \E a \in Label \cup {None} : Activity(a)
    \/ \E q \in Question, a \in Label : Ask(q, a)
    \/ Drop \/ Reconnect \/ Close \/ Hear
    \/ HubSend \/ HubInterrupt
    \/ \E q \in Question : HubAnswer(q)

Spec == Init /\ [][Next]_vars

----------------------------------------------------------------------------
(* Properties.                                                             *)

TypeOK ==
    /\ Stream!StreamTypeOK
    /\ known \in BOOLEAN /\ interrupting \in BOOLEAN /\ ended \in BOOLEAN
    /\ bound \in BOOLEAN
    /\ link \in {"open", "closing", "down", "gone", "off"}
    /\ pendingAsk \in Question \cup {None}
    /\ wrapAsks \in Question \cup {None}
    /\ currentActivity \in Label \cup {None}
    /\ wrapActivity \in Label \cup {None}
    /\ asked \subseteq Question
    /\ up \in Seq(UpFrame) /\ down \in Seq(DownFrame)
    /\ prompts \in 0..MaxPrompts /\ drops \in 0..MaxDrops

\* What the SDK has been given and will be given.
Pushed == given \o buffer

\* A question gets one tool_result at most, however terminal and dashboards
\* race to answer it.
AnsweredOnce ==
    \A i, j \in DOMAIN Pushed :
        Pushed[i].kind = "answer" /\ Pushed[j].kind = "answer"
          /\ Pushed[i].of = Pushed[j].of => i = j

\* No answer goes to another question than the one it was given for, though
\* a dashboard may answer a question that was answered or replaced meanwhile.
AnswersAreMeant ==
    \A i \in DOMAIN Pushed :
        Pushed[i].kind = "answer" => Pushed[i].of = Pushed[i].meant

\* What a dashboard reads from the daemon's caches is never a question that
\* was answered or an activity that is over, once the frames have arrived:
\* frames lost with a link do not leave a wrong picker or badge behind.
CachesTellTruth ==
    link = "open" /\ up = <<>> =>
        wrapAsks \in {None, pendingAsk}
          /\ wrapActivity \in {None, currentActivity}

\* The stream under all this keeps its promise.
PromptsInOrder == Stream!PromptsInOrder

----------------------------------------------------------------------------
(* What comments promise and the code does not keep.                       *)

\* server.ts:1199: "Pending AskUserQuestion per wrapped session (so dashboard
\* F5 can re-pick up)".  A question the wrapper waits for can be picked up
\* from the daemon once the wrapper is bound and its frames have arrived.
PendingCanBePickedUp ==
    link = "open" /\ bound /\ up = <<>> => wrapAsks = pendingAsk
=============================================================================
