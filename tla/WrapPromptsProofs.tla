------------------------- MODULE WrapPromptsProofs --------------------------
(***************************************************************************)
(* Theorems about WrapPrompts, for any questions, labels and bounds: types, *)
(* that the wrapper uses its stream only through push, end and next, that a *)
(* question is answered once and with the answer meant for it, and that the *)
(* daemon's caches tell the truth.                                         *)
(***************************************************************************)
EXTENDS WrapPrompts, SequenceTheorems, TLAPS

Proofs == INSTANCE PromptStreamProofs

----------------------------------------------------------------------------
(* Types.                                                                  *)

LEMMA FramesTyped ==
    /\ Frame("session_uuid", None) \in UpFrame
    /\ \A a \in Label \cup {None} : Frame("activity", a) \in UpFrame
    /\ \A q \in Question : /\ Frame("ask_question", q) \in UpFrame
                           /\ Frame("ask_question_done", q) \in UpFrame
                           /\ Frame("ask_question_answer", q) \in DownFrame
    /\ \A n \in 1..MaxPrompts : Frame("push", n) \in DownFrame
    /\ Frame("interrupt", None) \in DownFrame
  BY DEF UpFrame, DownFrame

\* What a frame's type says about its argument.
LEMMA UpArg ==
    ASSUME NEW m \in UpFrame
    PROVE  /\ m.type = "activity" => m.arg \in Label \cup {None}
           /\ m.type = "ask_question" => m.arg \in Question
  BY DEF UpFrame, Frame

LEMMA DownArg ==
    ASSUME NEW m \in DownFrame
    PROVE  /\ m.type = "push" => m.arg \in 1..MaxPrompts
           /\ m.type = "ask_question_answer" => m.arg \in Question
  BY DEF DownFrame, Frame

LEMMA MessagesTyped ==
    /\ \A n \in 1..MaxPrompts : Prompt(n) \in Message
    /\ \A q, m \in Question : Answer(q, m) \in Message
  BY DEF Message

LEMMA ActivityTyped ==
    ASSUME NEW a \in Label \cup {None}
    PROVE  ActivityFrames(a) \in Seq(UpFrame)
  BY FramesTyped, EmptySeq DEF ActivityFrames

LEMMA SendTyped ==
    ASSUME up \in Seq(UpFrame), NEW f \in Seq(UpFrame), Send(f)
    PROVE  up' \in Seq(UpFrame)
  BY ConcatProperties DEF Send

\* The stream's own types, under each of its operations.
LEMMA StreamTyped ==
    ASSUME Stream!StreamTypeOK,
           \/ \E m \in Message : Stream!Push(m)
           \/ Stream!End
           \/ Stream!Pull
           \/ UNCHANGED messages
    PROVE  Stream!StreamTypeOK'
  <1>1. ASSUME NEW m \in Message, Stream!Push(m) PROVE Stream!StreamTypeOK'
    <2>1. /\ Append(given, m) \in Seq(Message)
          /\ Append(buffer, m) \in Seq(Message)
      BY AppendProperties DEF Stream!StreamTypeOK
    <2>2. QED
      BY <1>1, <2>1 DEF Stream!Push, Stream!stream, Stream!StreamTypeOK
  <1>2. CASE Stream!End
    BY <1>2 DEF Stream!End, Stream!StreamTypeOK
  <1>3. CASE Stream!Pull
    <2>1. CASE buffer # <<>>
      <3>1. Head(buffer) \in Message /\ Tail(buffer) \in Seq(Message)
        BY <2>1, HeadTailProperties DEF Stream!StreamTypeOK
      <3>2. Append(given, Head(buffer)) \in Seq(Message)
        BY <3>1, AppendProperties DEF Stream!StreamTypeOK
      <3>3. given' = Append(given, Head(buffer)) /\ buffer' = Tail(buffer)
              /\ waiting' = waiting /\ over' = over /\ closed' = closed
        BY <1>3, <2>1 DEF Stream!Pull
      <3>4. QED
        BY <3>1, <3>2, <3>3 DEF Stream!StreamTypeOK
    <2>2. CASE buffer = <<>>
      BY <1>3, <2>2 DEF Stream!Pull, Stream!StreamTypeOK
    <2>3. QED
      BY <2>1, <2>2
  <1>4. CASE UNCHANGED messages
    BY <1>4 DEF messages, Stream!StreamTypeOK
  <1>5. QED
    BY <1>1, <1>2, <1>3, <1>4

\* What sendUser and answerAsk change.
Typed4 ==
    /\ Stream!StreamTypeOK
    /\ pendingAsk \in Question \cup {None}
    /\ currentActivity \in Label \cup {None}
    /\ up \in Seq(UpFrame)

LEMMA SendUserTyped ==
    ASSUME TypeOK, NEW n \in 1..MaxPrompts, SendUser(n)
    PROVE  Typed4'
  <1>1. Stream!StreamTypeOK'
    BY MessagesTyped, StreamTyped DEF SendUser, TypeOK
  <1>2. up' \in Seq(UpFrame)
    BY SendTyped, ActivityTyped, LabelAssumption DEF SendUser, TypeOK
  <1>3. QED
    BY <1>1, <1>2, LabelAssumption DEF SendUser, TypeOK, Typed4

LEMMA AnswerAskTyped ==
    ASSUME TypeOK, NEW q \in Question \cup {None}, AnswerAsk(q),
           q = pendingAsk
    PROVE  Typed4'
  <1>1. pendingAsk \in Question
    BY DEF AnswerAsk, TypeOK
  <1>2. Stream!StreamTypeOK'
    BY <1>1, MessagesTyped, StreamTyped DEF AnswerAsk, TypeOK
  <1>3. <<Frame("ask_question_done", pendingAsk)>> \in Seq(UpFrame)
    BY <1>1, FramesTyped
  <1>4. ActivityFrames(Ideating) \in Seq(UpFrame)
    BY ActivityTyped, LabelAssumption
  <1>5. <<Frame("ask_question_done", pendingAsk)>> \o ActivityFrames(Ideating)
          \in Seq(UpFrame)
    BY <1>3, <1>4, ConcatProperties
  <1>6. up' \in Seq(UpFrame)
    BY <1>5, SendTyped DEF AnswerAsk, TypeOK
  <1>7. QED
    BY <1>2, <1>6, LabelAssumption DEF AnswerAsk, Answered, TypeOK, Typed4

LEMMA ReceiveTyped == ASSUME TypeOK, Receive PROVE TypeOK'
  <1> DEFINE m == Head(down)
  <1>1. m \in DownFrame /\ Tail(down) \in Seq(DownFrame)
    BY HeadTailProperties DEF Receive, TypeOK
  <1>2. down' = Tail(down)
          /\ UNCHANGED <<known, asked, ended, daemon, link, prompts, drops>>
    BY DEF Receive
  <1>3. Typed4' /\ interrupting' \in BOOLEAN
    <2>1. CASE m.type = "push" /\ SendUser(m.arg) /\ UNCHANGED interrupting
      BY <1>1, <2>1, DownArg, SendUserTyped DEF TypeOK
    <2>2. CASE /\ m.type = "ask_question_answer" /\ UNCHANGED interrupting
               /\ ~Stale(m.arg) /\ AnswerAsk(m.arg)
      <3>1. m.arg = pendingAsk /\ m.arg \in Question
        BY <1>1, <2>2, DownArg DEF Stale
      <3>2. QED
        BY <2>2, <3>1, AnswerAskTyped DEF TypeOK
    <2>3. CASE interrupting' \in BOOLEAN
               /\ UNCHANGED <<messages, pendingAsk, currentActivity, up>>
      BY <2>3, StreamTyped DEF TypeOK, Typed4
    <2>4. QED
      BY <2>1, <2>2, <2>3 DEF Receive, TypeOK
  <1>4. QED
    BY <1>1, <1>2, <1>3 DEF TypeOK, Typed4, daemon

LEMMA HearTyped == ASSUME TypeOK, Hear PROVE TypeOK'
  <1> DEFINE m == Head(up)
  <1>1. m \in UpFrame /\ Tail(up) \in Seq(UpFrame)
    BY HeadTailProperties DEF Hear, TypeOK
  <1>2. up' = Tail(up)
          /\ UNCHANGED <<messages, wrapper, link, prompts, down, drops>>
    BY DEF Hear
  <1>3. /\ bound' \in BOOLEAN
        /\ wrapAsks' \in Question \cup {None}
        /\ wrapActivity' \in Label \cup {None}
    BY <1>1, UpArg DEF Hear, LabelOf, TypeOK
  <1>4. Stream!StreamTypeOK'
    BY <1>2, StreamTyped DEF TypeOK
  <1>5. QED
    BY <1>1, <1>2, <1>3, <1>4 DEF TypeOK, wrapper

LEMMA AskTyped ==
    ASSUME TypeOK, NEW q \in Question, NEW a \in Label, Ask(q, a)
    PROVE  TypeOK'
  <1>1. ActivityFrames(a) \in Seq(UpFrame)
    BY ActivityTyped
  <1>2. <<Frame("ask_question", q)>> \in Seq(UpFrame)
    BY FramesTyped
  <1>3. ActivityFrames(a) \o <<Frame("ask_question", q)>> \in Seq(UpFrame)
    BY <1>1, <1>2, ConcatProperties
  <1>4. up' \in Seq(UpFrame)
    BY <1>3, SendTyped DEF Ask, TypeOK
  <1>5. Stream!StreamTypeOK'
    BY StreamTyped DEF Ask, TypeOK
  <1>6. QED
    BY <1>4, <1>5 DEF Ask, TypeOK, daemon

\* A frame for the wrapper.
LEMMA ToWrapperTyped ==
    ASSUME TypeOK, NEW f \in DownFrame, ToWrapper(f)
    PROVE  down' \in Seq(DownFrame)
  BY AppendProperties DEF ToWrapper, TypeOK

LEMMA StepTyped == TypeOK /\ [Next]_vars => TypeOK'
  <1> SUFFICES ASSUME TypeOK, [Next]_vars PROVE TypeOK'
    OBVIOUS
  <1>s. UNCHANGED messages => Stream!StreamTypeOK'
    BY StreamTyped DEF TypeOK
  <1>1. CASE Line
    <2>1. prompts' \in 1..MaxPrompts
      BY <1>1, BoundAssumption DEF Line, TypeOK
    <2>2. Typed4'
      BY <1>1, <2>1, SendUserTyped, AnswerAskTyped DEF Line, TypeOK
    <2>3. QED
      BY <1>1, <2>1, <2>2 DEF Line, TypeOK, Typed4, daemon
  <1>2. CASE EndOfInput
    BY <1>2, StreamTyped DEF EndOfInput, TypeOK, wrapper, daemon
  <1>3. CASE Receive
    BY <1>3, ReceiveTyped
  <1>4. CASE Interrupted
    <2>1. up' \in Seq(UpFrame) /\ currentActivity' \in Label \cup {None}
      BY <1>4, SendTyped, ActivityTyped DEF Interrupted, TypeOK
    <2>2. QED
      BY <1>4, <1>s, <2>1 DEF Interrupted, TypeOK, daemon
  <1>5. CASE Pull
    BY <1>5, StreamTyped DEF Pull, TypeOK, wrapper, daemon
  <1>6. CASE SdkInit
    <2>1. up' \in Seq(UpFrame)
      BY <1>6, FramesTyped, AppendProperties DEF SdkInit, TypeOK
    <2>2. QED
      BY <1>6, <1>s, <2>1 DEF SdkInit, TypeOK, daemon
  <1>7. CASE Finish
    <2>1. down' \in Seq(DownFrame)
      BY <1>7, EmptySeq DEF Finish
    <2>2. link' \in {"closing", "gone", "off"}
      BY <1>7 DEF Finish
    <2>3. QED
      BY <1>7, <1>s, <2>1, <2>2 DEF Finish, TypeOK, daemon
  <1>8. ASSUME NEW a \in Label \cup {None}, Activity(a) PROVE TypeOK'
    <2>1. up' \in Seq(UpFrame)
      BY <1>8, SendTyped, ActivityTyped DEF Activity, TypeOK
    <2>2. QED
      BY <1>8, <1>s, <2>1 DEF Activity, TypeOK, daemon
  <1>9. ASSUME NEW q \in Question, NEW a \in Label, Ask(q, a) PROVE TypeOK'
    BY <1>9, AskTyped
  <1>10. CASE Drop
    <2>1. PICK n \in 0..Len(up) : up' = SubSeq(up, 1, n)
      BY <1>10 DEF Drop
    <2>2. \A i \in 1..n : up[i] \in UpFrame
      BY ElementOfSeq, LenProperties DEF TypeOK
    <2>3. up' \in Seq(UpFrame) /\ down' \in Seq(DownFrame)
      BY <1>10, <2>1, <2>2, SubSeqProperties, EmptySeq, LenProperties
      DEF Drop, TypeOK
    <2>4. drops' \in 0..MaxDrops
      BY <1>10, BoundAssumption DEF Drop, TypeOK
    <2>5. QED
      BY <1>10, <1>s, <2>3, <2>4 DEF Drop, TypeOK, wrapper, daemon
  <1>11. CASE Reconnect
    <2>1. up' \in Seq(UpFrame)
      BY <1>11, FramesTyped, EmptySeq DEF Reconnect
    <2>2. QED
      BY <1>11, <1>s, <2>1 DEF Reconnect, TypeOK, wrapper, daemon
  <1>12. CASE Close
    BY <1>12, <1>s DEF Close, ClosedAsk, TypeOK, wrapper
  <1>13. CASE Hear
    BY <1>13, HearTyped
  <1>14. CASE HubSend
    <2>1. prompts' \in 1..MaxPrompts
      BY <1>14, BoundAssumption DEF HubSend, TypeOK
    <2>2. down' \in Seq(DownFrame)
      BY <1>14, <2>1, FramesTyped, ToWrapperTyped DEF HubSend
    <2>3. QED
      BY <1>14, <1>s, <2>1, <2>2 DEF HubSend, TypeOK, wrapper, daemon
  <1>15. CASE HubInterrupt
    <2>1. down' \in Seq(DownFrame)
      BY <1>15, FramesTyped, ToWrapperTyped DEF HubInterrupt
    <2>2. QED
      BY <1>15, <1>s, <2>1 DEF HubInterrupt, TypeOK, wrapper, daemon
  <1>16. ASSUME NEW q \in Question, HubAnswer(q) PROVE TypeOK'
    <2>1. down' \in Seq(DownFrame)
      BY <1>16, FramesTyped, ToWrapperTyped DEF HubAnswer
    <2>2. QED
      BY <1>16, <1>s, <2>1 DEF HubAnswer, TypeOK, wrapper, daemon
  <1>17. CASE UNCHANGED vars
    BY <1>17, <1>s DEF vars, TypeOK, wrapper, daemon
  <1>18. QED
    BY <1>1, <1>2, <1>3, <1>4, <1>5, <1>6, <1>7, <1>8, <1>9, <1>10, <1>11,
       <1>12, <1>13, <1>14, <1>15, <1>16, <1>17 DEF Next

\* Every variable keeps its type, whatever is dropped, closed or restarted.
THEOREM TypeCorrect == Spec => []TypeOK
  <1>1. ASSUME Init PROVE TypeOK
    <2>1. Stream!StreamTypeOK /\ up \in Seq(UpFrame) /\ down \in Seq(DownFrame)
      BY <1>1, EmptySeq DEF Init, Stream!StreamInit, Stream!StreamTypeOK
    <2>2. prompts \in 0..MaxPrompts /\ drops \in 0..MaxDrops
      BY <1>1, BoundAssumption DEF Init
    <2>3. QED
      BY <1>1, <2>1, <2>2 DEF Init, TypeOK
  <1>2. Init => TypeOK
    BY <1>1
  <1>3. QED
    BY <1>2, StepTyped, PTL DEF Spec

----------------------------------------------------------------------------
(* The stream.                                                             *)

\* What a step does to the stream: the message it pushes, if any, is the
\* prompt it made or an answer to the question that was pending.
Pushes(m) ==
    /\ Stream!Push(m)
    /\ \/ /\ m \in {Prompt(n) : n \in 1..MaxPrompts}
          /\ pendingAsk' = pendingAsk
       \/ /\ pendingAsk \in Question
          /\ m = Answer(pendingAsk, pendingAsk)
          /\ pendingAsk' = None

StreamStep ==
    \/ (\E m \in Message : Pushes(m)) /\ UNCHANGED asked
    \/ (Stream!End \/ Stream!Pull) /\ UNCHANGED <<pendingAsk, asked>>
    \/ UNCHANGED <<messages, pendingAsk, asked>>
    \/ /\ UNCHANGED messages
       /\ \E q \in Question \ asked :
             pendingAsk' = q /\ asked' = asked \cup {q}

LEMMA InputPushes ==
    ASSUME TypeOK
    PROVE  /\ \A n \in 1..MaxPrompts :
                SendUser(n) => \E m \in Message : Pushes(m)
           /\ \A q \in Question : q = pendingAsk /\ AnswerAsk(q) =>
                \E m \in Message : Pushes(m)
  <1>1. ASSUME NEW n \in 1..MaxPrompts, SendUser(n)
        PROVE  Prompt(n) \in Message /\ Pushes(Prompt(n))
    BY <1>1, MessagesTyped DEF SendUser, Pushes
  <1>2. ASSUME NEW q \in Question, q = pendingAsk, AnswerAsk(q)
        PROVE  Answer(q, q) \in Message /\ Pushes(Answer(q, q))
    BY <1>2, MessagesTyped DEF AnswerAsk, Answered, Pushes
  <1>3. QED
    BY <1>1, <1>2

LEMMA StepOfStream == TypeOK /\ [Next]_vars => StreamStep
  <1> SUFFICES ASSUME TypeOK, [Next]_vars PROVE StreamStep
    OBVIOUS
  <1>1. CASE Line
    <2>1. prompts' \in 1..MaxPrompts
      BY <1>1, BoundAssumption DEF Line, TypeOK
    <2>2. AnswerAsk(pendingAsk) => pendingAsk \in Question
      BY DEF AnswerAsk, TypeOK
    <2>3. QED
      BY <1>1, <2>1, <2>2, InputPushes DEF Line, StreamStep
  <1>2. CASE Receive
    <2> DEFINE m == Head(down)
    <2>1. m \in DownFrame /\ UNCHANGED asked
      BY <1>2, HeadTailProperties DEF Receive, TypeOK
    <2>2. CASE m.type = "push" /\ SendUser(m.arg)
      BY <2>1, <2>2, DownArg, InputPushes DEF StreamStep
    <2>3. CASE m.type = "ask_question_answer" /\ ~Stale(m.arg)
               /\ AnswerAsk(m.arg)
      BY <2>1, <2>3, DownArg, InputPushes DEF StreamStep, Stale
    <2>4. CASE UNCHANGED <<messages, pendingAsk, currentActivity, up>>
      BY <2>1, <2>4 DEF StreamStep
    <2>5. QED
      BY <1>2, <2>2, <2>3, <2>4 DEF Receive
  <1>3. CASE EndOfInput \/ Pull
    BY <1>3 DEF EndOfInput, Pull, StreamStep, wrapper
  <1>4. ASSUME NEW q \in Question, NEW a \in Label, Ask(q, a)
        PROVE  StreamStep
    BY <1>4 DEF Ask, StreamStep
  <1>5. CASE Interrupted \/ SdkInit \/ Finish \/ Drop \/ Reconnect \/ Close
             \/ Hear \/ HubSend \/ HubInterrupt
    BY <1>5 DEF Interrupted, SdkInit, Finish, Drop, Reconnect, Close, Hear,
                HubSend, HubInterrupt, StreamStep, wrapper
  <1>6. ASSUME NEW a \in Label \cup {None}, Activity(a) PROVE StreamStep
    BY <1>6 DEF Activity, StreamStep
  <1>7. ASSUME NEW q \in Question, HubAnswer(q) PROVE StreamStep
    BY <1>7 DEF HubAnswer, StreamStep, wrapper
  <1>8. CASE UNCHANGED vars
    BY <1>8 DEF vars, StreamStep, wrapper
  <1>9. QED
    BY <1>1, <1>2, <1>3, <1>4, <1>5, <1>6, <1>7, <1>8 DEF Next

\* The wrapper uses its stream through push, end and next only, with one next
\* at a time, so what PromptStreamProofs shows of the stream holds here.
THEOREM UsesStream == Spec => Proofs!StreamSpec
  <1>1. Init => Proofs!StreamInit
    BY DEF Init, Stream!StreamInit, Proofs!StreamInit
  <1>2. TypeOK /\ [Next]_vars => [Proofs!StreamNext]_(Proofs!stream)
    <2>1. ASSUME StreamStep PROVE [Proofs!StreamNext]_(Proofs!stream)
      <3>1. ASSUME NEW m \in Message, Pushes(m) PROVE Proofs!StreamNext
        BY <3>1 DEF Pushes, Stream!Push, Stream!stream, Proofs!Push,
                    Proofs!stream, Proofs!StreamNext
      <3>2. CASE Stream!End \/ Stream!Pull
        BY <3>2 DEF Stream!End, Stream!Pull, Proofs!End, Proofs!Pull,
                    Proofs!StreamNext
      <3>3. CASE UNCHANGED messages
        BY <3>3 DEF messages, Proofs!stream
      <3>4. QED
        BY <2>1, <3>1, <3>2, <3>3 DEF StreamStep
    <2>2. QED
      BY <2>1, StepOfStream
  <1>3. QED
    BY <1>1, <1>2, TypeCorrect, PTL DEF Spec, Proofs!StreamSpec

\* What is pushed before stdin ends reaches the SDK: all of it, in order, once.
THEOREM PromptsStayInOrder == Spec => PromptsInOrder
  <1>1. Proofs!Queue!Init => Stream!Queue!Init
    BY DEF Proofs!Queue!Init, Stream!Queue!Init
  <1>2. [Proofs!Queue!Next]_(Proofs!Queue!vars)
          => [Stream!Queue!Next]_(Stream!Queue!vars)
    BY DEF Proofs!Queue!Next, Proofs!Queue!Put, Proofs!Queue!Take,
           Proofs!Queue!Close, Proofs!Queue!Finish, Proofs!Queue!AllTaken,
           Proofs!Queue!vars, Stream!Queue!Next, Stream!Queue!Put,
           Stream!Queue!Take, Stream!Queue!Close, Stream!Queue!Finish,
           Stream!Queue!AllTaken, Stream!Queue!vars
  <1>3. Proofs!PromptsInOrder => PromptsInOrder
    BY <1>1, <1>2, PTL DEF PromptsInOrder, Proofs!PromptsInOrder,
       Proofs!Queue!Spec, Stream!PromptsInOrder, Stream!Queue!Spec
  <1>4. QED
    BY <1>3, UsesStream, Proofs!StreamIsQueue, PTL

----------------------------------------------------------------------------
(* Answers.  That a question is answered once is not inductive: it rests on *)
(* the pending question being one that Claude asked and nobody answered.    *)

Sound(m) ==
    m.kind = "answer" => m.of \in asked /\ m.of = m.meant /\ m.of # pendingAsk

IInv ==
    /\ TypeOK
    /\ Proofs!WaitsOnEmpty
    /\ pendingAsk \in asked \cup {None}
    /\ \A i \in DOMAIN Pushed : Sound(Pushed[i])
    /\ AnsweredOnce

\* A push appends to what was pushed or is dropped; a pull only moves.
LEMMA PushedStep ==
    ASSUME Stream!StreamTypeOK, Proofs!WaitsOnEmpty
    PROVE  /\ \A m \in Message : Stream!Push(m) =>
                Pushed' = Pushed \/ Pushed' = Append(Pushed, m)
           /\ Stream!Pull => Pushed' = Pushed
           /\ Stream!End => Pushed' = Pushed
           /\ UNCHANGED messages => Pushed' = Pushed
  <1> USE DEF Stream!StreamTypeOK, Pushed
  <1>1. ASSUME NEW m \in Message, Stream!Push(m)
        PROVE  Pushed' = Pushed \/ Pushed' = Append(Pushed, m)
    <2>1. CASE closed
      BY <1>1, <2>1 DEF Stream!Push, Stream!stream
    <2>2. CASE ~closed /\ waiting
      <3>1. given' = Append(given, m) /\ buffer' = <<>> /\ buffer = <<>>
        BY <1>1, <2>2 DEF Stream!Push, Proofs!WaitsOnEmpty
      <3>2. Append(given, m) \o <<>> = Append(given \o <<>>, m)
        BY Proofs!LastMoves
      <3>3. QED
        BY <3>1, <3>2
    <2>3. CASE ~closed /\ ~waiting
      <3>1. given' = given /\ buffer' = Append(buffer, m)
        BY <1>1, <2>3 DEF Stream!Push
      <3>2. given \o Append(buffer, m) = Append(given \o buffer, m)
        BY Proofs!LastMoves
      <3>3. QED
        BY <3>1, <3>2
    <2>4. QED
      BY <2>1, <2>2, <2>3
  <1>2. ASSUME Stream!Pull PROVE Pushed' = Pushed
    <2>1. CASE buffer # <<>>
      <3>1. given' = Append(given, Head(buffer)) /\ buffer' = Tail(buffer)
        BY <1>2, <2>1 DEF Stream!Pull
      <3>2. Append(given, Head(buffer)) \o Tail(buffer) = given \o buffer
        BY <2>1, Proofs!HeadMoves
      <3>3. QED
        BY <3>1, <3>2
    <2>2. CASE buffer = <<>>
      BY <1>2, <2>2 DEF Stream!Pull
    <2>3. QED
      BY <2>1, <2>2
  <1>3. Stream!End => Pushed' = Pushed
    BY DEF Stream!End
  <1>4. UNCHANGED messages => Pushed' = Pushed
    BY DEF messages
  <1>5. QED
    BY <1>1, <1>2, <1>3, <1>4

LEMMA WaitsStep ==
    ASSUME Stream!StreamTypeOK, Proofs!WaitsOnEmpty, StreamStep
    PROVE  Proofs!WaitsOnEmpty'
  <1>1. ASSUME NEW m \in Message, Stream!Push(m) PROVE Proofs!WaitsOnEmpty'
    BY <1>1 DEF Stream!Push, Stream!stream, Proofs!WaitsOnEmpty
  <1>2. CASE Stream!End
    BY <1>2 DEF Stream!End, Proofs!WaitsOnEmpty
  <1>3. CASE Stream!Pull
    BY <1>3 DEF Stream!Pull, Stream!StreamTypeOK, Proofs!WaitsOnEmpty
  <1>4. CASE UNCHANGED messages
    BY <1>4 DEF messages, Proofs!WaitsOnEmpty
  <1>5. QED
    BY <1>1, <1>2, <1>3, <1>4 DEF StreamStep, Pushes

\* The invariant under a step of the stream.
LEMMA AnswersStep == IInv /\ StreamStep /\ TypeOK' => IInv'
  <1> SUFFICES ASSUME IInv, StreamStep, TypeOK' PROVE IInv'
    OBVIOUS
  <1>1. Proofs!WaitsOnEmpty'
    BY WaitsStep DEF IInv, TypeOK
  <1>2. Pushed \in Seq(Message) /\ Stream!StreamTypeOK
    BY ConcatProperties DEF IInv, TypeOK, Stream!StreamTypeOK, Pushed
  <1>3. \A i \in DOMAIN Pushed : Pushed[i] \in Message
    BY <1>2, ElementOfSeq, LenProperties
  <1>a. DOMAIN Pushed = 1..Len(Pushed) /\ Len(Pushed) \in Nat
    BY <1>2, LenProperties
  <1>4. CASE Pushed' = Pushed /\ pendingAsk' \in {pendingAsk, None}
             /\ asked' = asked
    <2>1. \A i \in DOMAIN Pushed' : Sound(Pushed[i])'
      <3>1. \A i \in DOMAIN Pushed : Sound(Pushed[i])
        BY DEF IInv
      <3>2. \A i \in DOMAIN Pushed :
              Pushed[i].kind = "answer" => Pushed[i].of # None
        BY <1>3, NoneAssumption DEF Message, Prompt, Answer
      <3>3. QED
        BY <1>4, <3>1, <3>2 DEF Sound
    <2>2. AnsweredOnce' /\ pendingAsk' \in asked' \cup {None}
      BY <1>4 DEF IInv, AnsweredOnce
    <2>3. QED
      BY <1>1, <2>1, <2>2 DEF IInv
  <1>5. ASSUME NEW m \in Message, Pushes(m), UNCHANGED asked,
               Pushed' = Append(Pushed, m)
        PROVE  IInv'
    <2>1. /\ Len(Pushed') = Len(Pushed) + 1
          /\ DOMAIN Pushed' = 1..(Len(Pushed) + 1)
          /\ \A i \in 1..Len(Pushed) : Pushed'[i] = Pushed[i]
          /\ Pushed'[Len(Pushed) + 1] = m
      <3>1. Append(Pushed, m) \in Seq(Message)
              /\ Len(Append(Pushed, m)) = Len(Pushed) + 1
              /\ \A i \in 1..Len(Pushed) : Append(Pushed, m)[i] = Pushed[i]
              /\ Append(Pushed, m)[Len(Pushed) + 1] = m
        BY <1>2, AppendProperties
      <3>2. DOMAIN Append(Pushed, m) = 1..Len(Append(Pushed, m))
        BY <3>1, LenProperties
      <3>3. QED
        BY <1>5, <3>1, <3>2
    <2>2. \/ m.kind = "prompt" /\ pendingAsk' = pendingAsk
          \/ /\ m.kind = "answer" /\ m.of = pendingAsk /\ m.meant = pendingAsk
             /\ pendingAsk \in Question /\ pendingAsk' = None
      BY <1>5 DEF Pushes, Prompt, Answer
    <2>3. \A i \in 1..Len(Pushed) :
            Pushed[i].kind = "answer" => /\ Pushed[i].of \in asked
                                         /\ Pushed[i].of = Pushed[i].meant
                                         /\ Pushed[i].of # pendingAsk
                                         /\ Pushed[i].of # None
      <3>1. \A i \in 1..Len(Pushed) : Sound(Pushed[i])
        BY <1>a DEF IInv
      <3>2. \A i \in 1..Len(Pushed) :
              Pushed[i].kind = "answer" => Pushed[i].of # None
        BY <1>3, <1>a, NoneAssumption DEF Message, Prompt, Answer
      <3>3. QED
        BY <3>1, <3>2 DEF Sound
    <2>4. pendingAsk \in asked \cup {None} /\ asked' = asked
      BY <1>5 DEF IInv
    <2>5. \A i \in 1..(Len(Pushed) + 1) : Sound(Pushed[i])'
      <3>1. \A i \in 1..Len(Pushed) : Sound(Pushed[i])'
        BY <2>1, <2>2, <2>3, <2>4 DEF Sound
      <3>2. m.kind = "answer" => /\ m.of \in asked' /\ m.of = m.meant
                                 /\ m.of # pendingAsk'
        BY <2>2, <2>4, NoneAssumption
      <3>3. QED
        BY <1>a, <2>1, <3>1, <3>2 DEF Sound
    <2>6. AnsweredOnce'
      <3>1. \A i, j \in 1..Len(Pushed) :
              Pushed[i].kind = "answer" /\ Pushed[j].kind = "answer"
                /\ Pushed[i].of = Pushed[j].of => i = j
        BY <1>a DEF IInv, AnsweredOnce
      <3>2. \A i \in 1..Len(Pushed) :
              m.kind = "answer" /\ Pushed[i].kind = "answer" =>
                Pushed[i].of # m.of
        BY <2>2, <2>3
      <3>3. \A i \in 1..(Len(Pushed) + 1) :
              i \in 1..Len(Pushed) \/ i = Len(Pushed) + 1
        BY <1>a
      <3>4. QED
        BY <2>1, <3>1, <3>2, <3>3 DEF AnsweredOnce
    <2>7. QED
      BY <1>1, <2>1, <2>2, <2>4, <2>5, <2>6 DEF IInv
  <1>6. ASSUME NEW q \in Question \ asked, Pushed' = Pushed,
               pendingAsk' = q, asked' = asked \cup {q}
        PROVE  IInv'
    <2>1. \A i \in DOMAIN Pushed : Sound(Pushed[i])
      BY DEF IInv
    <2>2. \A i \in DOMAIN Pushed' : Sound(Pushed[i])'
      BY <1>6, <2>1 DEF Sound
    <2>3. QED
      BY <1>1, <1>6, <2>2 DEF IInv, AnsweredOnce
  <1>7. CASE UNCHANGED messages
    <2>1. Pushed' = Pushed
      BY <1>2, <1>7, PushedStep DEF IInv
    <2>2. CASE UNCHANGED <<pendingAsk, asked>>
      BY <1>4, <2>1, <2>2
    <2>3. CASE \E q \in Question \ asked :
                 pendingAsk' = q /\ asked' = asked \cup {q}
      BY <1>6, <2>1, <2>3
    <2>4. ASSUME NEW m \in Message, Pushes(m), UNCHANGED asked
          PROVE  pendingAsk' \in {pendingAsk, None}
      BY <2>4 DEF Pushes
    <2>5. QED
      BY <1>4, <2>1, <2>2, <2>3, <2>4 DEF StreamStep
  <1>8. CASE (Stream!End \/ Stream!Pull) /\ UNCHANGED <<pendingAsk, asked>>
    <2>1. Pushed' = Pushed
      BY <1>2, <1>8, PushedStep DEF IInv
    <2>2. QED
      BY <1>4, <1>8, <2>1
  <1>9. ASSUME NEW m \in Message, Pushes(m), UNCHANGED asked PROVE IInv'
    <2>1. Pushed' = Pushed \/ Pushed' = Append(Pushed, m)
      BY <1>2, <1>9, PushedStep DEF IInv, Pushes
    <2>2. pendingAsk' \in {pendingAsk, None}
      BY <1>9 DEF Pushes
    <2>3. QED
      BY <1>4, <1>5, <1>9, <2>1, <2>2
  <1>10. QED
    BY <1>7, <1>8, <1>9 DEF StreamStep

LEMMA Inductive == Spec => []IInv
  <1>1. ASSUME Init
        PROVE  Proofs!WaitsOnEmpty /\ Pushed = <<>> /\ pendingAsk = None
    BY <1>1, EmptySeq, ConcatEmptySeq
    DEF Init, Stream!StreamInit, Proofs!WaitsOnEmpty, Pushed
  <1>2. Init /\ TypeOK => IInv
    BY <1>1, EmptySeq DEF IInv, AnsweredOnce
  <1>3. IInv /\ [Next]_vars => IInv'
    BY StepTyped, StepOfStream, AnswersStep DEF IInv
  <1>4. QED
    BY <1>2, <1>3, TypeCorrect, PTL DEF Spec

\* Claude gets at most one tool_result for each of its questions, however
\* answers from the terminal and from dashboards race.
THEOREM OneAnswer == Spec => []AnsweredOnce
  <1>1. IInv => AnsweredOnce
    BY DEF IInv
  <1>2. QED
    BY <1>1, Inductive, PTL

\* No tool_result carries an answer that was given for another question.
THEOREM MeantAnswer == Spec => []AnswersAreMeant
  <1>1. IInv => AnswersAreMeant
    BY DEF IInv, Sound, AnswersAreMeant
  <1>2. QED
    BY <1>1, Inductive, PTL

----------------------------------------------------------------------------
(* The daemon's caches.                                                    *)

\* What a frame says of the question or of the badge.
About(m, topic) ==
    IF topic = "ask" THEN m.type \in {"ask_question", "ask_question_done"}
    ELSE m.type = "activity"
Says(m) == IF m.type = "ask_question_done" THEN None ELSE m.arg

\* The last frame about it tells the truth, and with none the cache does.
Settled(s, topic, cache, truth) ==
    \/ \E i \in DOMAIN s :
          /\ About(s[i], topic) /\ Says(s[i]) = truth
          /\ \A j \in DOMAIN s : j > i => ~About(s[j], topic)
    \/ (\A i \in DOMAIN s : ~About(s[i], topic)) /\ cache \in {None, truth}

\* A connection that no session is bound to has left no trace, and the frame
\* that will bind it is the first.
Unbound ==
    ~bound => /\ wrapAsks = None /\ wrapActivity = None
              /\ up # <<>> => up[1].type = "session_uuid"
              /\ link = "open" /\ known => up # <<>>

Silent == ~known \/ link = "down" => up = <<>> /\ ~bound

BothSettled(s, ask, activity) ==
    /\ Settled(s, "ask", wrapAsks, ask)
    /\ Settled(s, "activity", wrapActivity, activity)

CacheInv ==
    /\ Unbound /\ Silent
    /\ link = "open" => BothSettled(up, pendingAsk, currentActivity)

LEMMA NothingSent == \A topic, truth : Settled(<<>>, topic, None, truth)
  BY DEF Settled

LEMMA FrameAdded ==
    ASSUME NEW s \in Seq(UpFrame), NEW f \in UpFrame, NEW topic, NEW cache, NEW truth,
           About(f, topic) => Says(f) = truth,
           ~About(f, topic) => Settled(s, topic, cache, truth)
    PROVE  Settled(Append(s, f), topic, cache, truth)
  <1> DEFINE t == Append(s, f)
  <1>1. /\ Len(s) \in Nat /\ DOMAIN t = 1 .. (Len(s) + 1) /\ DOMAIN s = 1 .. Len(s)
        /\ t[Len(s) + 1] = f
        /\ \A i \in DOMAIN s : t[i] = s[i]
    OBVIOUS
  <1> HIDE DEF t
  <1>2. CASE About(f, topic)
    <2>1. /\ Len(s) + 1 \in DOMAIN t
          /\ \A j \in DOMAIN t : ~(j > Len(s) + 1)
      BY <1>1
    <2>2. About(t[Len(s) + 1], topic) /\ Says(t[Len(s) + 1]) = truth
      BY <1>1, <1>2
    <2>3. QED
      BY <2>1, <2>2 DEF Settled, t
  <1>3. ASSUME ~About(f, topic), NEW i \in DOMAIN s,
               About(s[i], topic), Says(s[i]) = truth,
               \A j \in DOMAIN s : j > i => ~About(s[j], topic)
        PROVE  Settled(t, topic, cache, truth)
    <2>1. i \in DOMAIN t /\ About(t[i], topic) /\ Says(t[i]) = truth
      BY <1>1, <1>3
    <2>2. \A j \in DOMAIN t : j \in DOMAIN s \/ j = Len(s) + 1
      BY <1>1
    <2>3. \A j \in DOMAIN t : j > i => ~About(t[j], topic)
      BY <1>1, <1>3, <2>2
    <2>4. QED
      BY <2>1, <2>3 DEF Settled
  <1>4. ASSUME ~About(f, topic), \A i \in DOMAIN s : ~About(s[i], topic), cache \in {None, truth}
        PROVE  Settled(t, topic, cache, truth)
    <2>1. \A j \in DOMAIN t : j \in DOMAIN s \/ j = Len(s) + 1
      BY <1>1
    <2>2. \A j \in DOMAIN t : ~About(t[j], topic)
      BY <1>1, <1>4, <2>1
    <2>3. QED
      BY <1>4, <2>2 DEF Settled
  <1>5. QED
    BY <1>2, <1>3, <1>4 DEF Settled, t

LEMMA FrameTaken ==
    ASSUME NEW s \in Seq(UpFrame), s # <<>>, NEW topic, NEW cache, NEW truth,
           Settled(s, topic, cache, truth),
           NEW after, after = IF About(Head(s), topic) THEN Says(Head(s)) ELSE cache
    PROVE  Settled(Tail(s), topic, after, truth)
  <1> DEFINE t == Tail(s)
  <1>1. /\ Len(s) \in Nat /\ Len(s) >= 1 /\ DOMAIN s = 1 .. Len(s)
        /\ DOMAIN t = 1 .. (Len(s) - 1) /\ Head(s) = s[1]
        /\ \A i \in DOMAIN t : t[i] = s[i + 1]
    OBVIOUS
  <1> HIDE DEF t
  <1>2. \A j \in DOMAIN t : j + 1 \in DOMAIN s /\ j \in Nat
    BY <1>1
  <1>3. ASSUME NEW i \in DOMAIN s, About(s[i], topic), Says(s[i]) = truth,
               \A j \in DOMAIN s : j > i => ~About(s[j], topic)
        PROVE  Settled(t, topic, after, truth)
    <2>1. CASE i = 1
      <3>1. after = truth
        BY <1>1, <1>3, <2>1
      <3>2. \A j \in DOMAIN t : j + 1 > i /\ j + 1 \in DOMAIN s
        BY <1>1, <2>1
      <3>3. \A j \in DOMAIN t : ~About(t[j], topic)
        BY <1>1, <1>3, <3>2
      <3>4. QED
        BY <3>1, <3>3 DEF Settled
    <2>2. CASE i # 1
      <3>1. i - 1 \in DOMAIN t /\ (i - 1) + 1 = i
        BY <1>1, <2>2
      <3>2. About(t[i - 1], topic) /\ Says(t[i - 1]) = truth
        BY <1>1, <1>3, <3>1
      <3>3. \A j \in DOMAIN t : j > i - 1 => j + 1 > i /\ j + 1 \in DOMAIN s
        BY <1>1
      <3>4. \A j \in DOMAIN t : j > i - 1 => ~About(t[j], topic)
        BY <1>1, <1>3, <3>3
      <3>5. QED
        BY <3>1, <3>2, <3>4 DEF Settled
    <2>3. QED
      BY <2>1, <2>2
  <1>4. ASSUME \A i \in DOMAIN s : ~About(s[i], topic), cache \in {None, truth}
        PROVE  Settled(t, topic, after, truth)
    <2>1. after = cache
      BY <1>1, <1>4
    <2>2. \A j \in DOMAIN t : ~About(t[j], topic)
      BY <1>1, <1>2, <1>4
    <2>3. QED
      BY <1>4, <2>1, <2>2 DEF Settled
  <1>5. QED
    BY <1>3, <1>4 DEF Settled, t

LEMMA ConcatOne ==
    ASSUME NEW s \in Seq(UpFrame), NEW f \in UpFrame
    PROVE  s \o <<f>> = Append(s, f) /\ <<f>> \in Seq(UpFrame) /\ Append(s, f) \in Seq(UpFrame)
  OBVIOUS

\* What is told of the activity leaves the badge settled on its new label, and
\* the question as it was.
LEMMA ActivitySettles ==
    ASSUME TypeOK, NEW s \in Seq(UpFrame), NEW a \in Label \cup {None}, NEW ask,
           BothSettled(s, ask, currentActivity)
    PROVE  /\ s \o ActivityFrames(a) \in Seq(UpFrame)
           /\ BothSettled(s \o ActivityFrames(a), ask, a)
  <1>1. CASE a = currentActivity
    BY <1>1, ConcatEmptySeq DEF ActivityFrames
  <1>2. CASE a # currentActivity
    <2> DEFINE f == Frame("activity", a)
    <2>1. f \in UpFrame /\ f.type = "activity" /\ f.arg = a
      BY FramesTyped DEF Frame
    <2> HIDE DEF f
    <2>2. ActivityFrames(a) = <<f>>
      BY <1>2 DEF ActivityFrames, f
    <2>3. s \o ActivityFrames(a) = Append(s, f) /\ Append(s, f) \in Seq(UpFrame)
      BY <2>1, <2>2, ConcatOne
    <2>4. ~About(f, "ask") /\ About(f, "activity") /\ Says(f) = a
      BY <2>1 DEF About, Says
    <2>5. Settled(Append(s, f), "ask", wrapAsks, ask)
      BY <2>1, <2>4, FrameAdded DEF BothSettled
    <2>6. Settled(Append(s, f), "activity", wrapActivity, a)
      BY <2>1, <2>4, FrameAdded DEF BothSettled
    <2>7. QED
      BY <2>3, <2>5, <2>6 DEF BothSettled
  <1>3. QED
    BY <1>1, <1>2

\* A frame about the question settles it on what it says.
LEMMA AskSettles ==
    ASSUME NEW s \in Seq(UpFrame), NEW type \in {"ask_question", "ask_question_done"},
           NEW q \in Question, NEW old, NEW a, BothSettled(s, old, a)
    PROVE  /\ Append(s, Frame(type, q)) \in Seq(UpFrame)
           /\ BothSettled(Append(s, Frame(type, q)), IF type = "ask_question" THEN q ELSE None, a)
  <1> DEFINE f == Frame(type, q)
             said == IF type = "ask_question" THEN q ELSE None
  <1>1. f \in UpFrame /\ f.type = type /\ f.arg = q
    BY FramesTyped DEF Frame
  <1> HIDE DEF f
  <1>2. About(f, "ask") /\ ~About(f, "activity") /\ Says(f) = said
    BY <1>1 DEF About, Says
  <1>3. Settled(Append(s, f), "ask", wrapAsks, said)
    BY <1>1, <1>2, FrameAdded
  <1>4. Settled(Append(s, f), "activity", wrapActivity, a)
    BY <1>1, <1>2, FrameAdded DEF BothSettled
  <1>5. QED
    BY <1>1, <1>3, <1>4 DEF BothSettled, f

LEMMA WrapperSends ==
    ASSUME TypeOK, CacheInv, NEW frames \in Seq(UpFrame), Send(frames),
           UNCHANGED <<daemon, link, known>>,
           link = "open" /\ known => BothSettled(up \o frames, pendingAsk', currentActivity')
    PROVE  CacheInv'
  <1> USE DEF daemon
  <1>1. CASE link = "open" /\ known
    <2>1. up' = up \o frames /\ up \in Seq(UpFrame)
      BY <1>1 DEF Send, TypeOK
    <2>2. BothSettled(up, pendingAsk, currentActivity)'
      BY <1>1, <2>1 DEF BothSettled
    <2>3. up # <<>> => up' # <<>> /\ up'[1] = up[1]
      BY <2>1
    <2>4. Unbound'
      BY <1>1, <2>3 DEF CacheInv, Unbound
    <2>5. Silent'
      BY <1>1 DEF Silent
    <2>6. QED
      BY <2>2, <2>4, <2>5 DEF CacheInv
  <1>2. CASE link = "open" /\ ~known
    <2>1. up' = up /\ up = <<>> /\ ~bound /\ wrapAsks = None /\ wrapActivity = None
      BY <1>2 DEF Send, CacheInv, Silent, Unbound
    <2>2. BothSettled(up, pendingAsk, currentActivity)'
      BY <2>1, NothingSent DEF BothSettled
    <2>3. QED
      BY <2>1, <2>2 DEF CacheInv, Silent, Unbound
  <1>3. CASE link # "open"
    <2>1. up' = up
      BY <1>3 DEF Send
    <2>2. QED
      BY <1>3, <2>1 DEF CacheInv, Silent, Unbound
  <1>4. QED
    BY <1>1, <1>2, <1>3

LEMMA IdeatingLabel == Ideating \in Label \cup {None}
  BY LabelAssumption

LEMMA SendUserSettles ==
    ASSUME TypeOK, CacheInv, NEW n, SendUser(n), UNCHANGED <<daemon, link, known>>
    PROVE  CacheInv'
  <1>1. Send(ActivityFrames(Ideating)) /\ pendingAsk' = pendingAsk /\ currentActivity' = Ideating
    BY DEF SendUser
  <1>2. ActivityFrames(Ideating) \in Seq(UpFrame) /\ up \in Seq(UpFrame)
    BY IdeatingLabel, ActivityTyped DEF TypeOK
  <1>3. link = "open" => BothSettled(up \o ActivityFrames(Ideating), pendingAsk, Ideating)
    BY <1>2, IdeatingLabel, ActivitySettles DEF CacheInv
  <1>4. QED
    BY <1>1, <1>2, <1>3, WrapperSends

LEMMA AnswerAskSettles ==
    ASSUME TypeOK, CacheInv, NEW meant, AnswerAsk(meant), UNCHANGED <<daemon, link, known>>
    PROVE  CacheInv'
  <1> DEFINE f == Frame("ask_question_done", pendingAsk)
             told == ActivityFrames(Ideating)
  <1>1. /\ Send(<<f>> \o told) /\ pendingAsk' = None /\ currentActivity' = Ideating
        /\ pendingAsk \in Question
    BY DEF AnswerAsk, Answered, TypeOK
  <1>2. told \in Seq(UpFrame) /\ up \in Seq(UpFrame) /\ f \in UpFrame
    BY <1>1, IdeatingLabel, ActivityTyped, FramesTyped DEF TypeOK
  <1>3. ASSUME link = "open"
        PROVE  BothSettled(Append(up, f) \o told, None, Ideating)
    <2>1. BothSettled(up, pendingAsk, currentActivity)
      BY <1>3 DEF CacheInv
    <2>2. Append(up, f) \in Seq(UpFrame) /\ BothSettled(Append(up, f), None, currentActivity)
      BY <1>1, <1>2, <2>1, AskSettles
    <2>3. QED
      BY <2>2, IdeatingLabel, ActivitySettles
  <1> HIDE DEF f, told
  <1>4. <<f>> \in Seq(UpFrame) /\ up \o <<f>> = Append(up, f)
    BY <1>2, ConcatOne
  <1>5. <<f>> \o told \in Seq(UpFrame) /\ up \o (<<f>> \o told) = Append(up, f) \o told
    BY <1>2, <1>4, ConcatProperties, ConcatAssociative
  <1>6. QED
    BY <1>1, <1>3, <1>5, WrapperSends DEF f, told

LEMMA AskCallSettles ==
    ASSUME TypeOK, CacheInv, NEW q \in Question, NEW a \in Label, Ask(q, a)
    PROVE  CacheInv'
  <1> DEFINE f == Frame("ask_question", q)
             told == ActivityFrames(a)
  <1>1. Send(told \o <<f>>) /\ pendingAsk' = q /\ currentActivity' = a
    BY DEF Ask
  <1>2. /\ told \in Seq(UpFrame) /\ up \in Seq(UpFrame) /\ f \in UpFrame
        /\ a \in Label \cup {None}
    BY ActivityTyped, FramesTyped DEF TypeOK
  <1>3. ASSUME link = "open"
        PROVE  BothSettled(Append(up \o told, f), q, a)
    <2>1. BothSettled(up, pendingAsk, currentActivity)
      BY <1>3 DEF CacheInv
    <2>2. up \o told \in Seq(UpFrame) /\ BothSettled(up \o told, pendingAsk, a)
      BY <1>2, <2>1, ActivitySettles
    <2>3. QED
      BY <2>2, AskSettles
  <1> HIDE DEF f, told
  <1>4. <<f>> \in Seq(UpFrame) /\ up \o told \in Seq(UpFrame)
    BY <1>2, ConcatOne, ConcatProperties
  <1>5. /\ told \o <<f>> \in Seq(UpFrame)
        /\ up \o (told \o <<f>>) = Append(up \o told, f)
    <2>1. up \o (told \o <<f>>) = (up \o told) \o <<f>>
      BY <1>2, <1>4, ConcatAssociative
    <2>2. QED
      BY <1>2, <1>4, <2>1, ConcatOne, ConcatProperties
  <1>6. UNCHANGED <<daemon, link, known>>
    BY DEF Ask
  <1>7. QED
    BY <1>1, <1>3, <1>5, <1>6, WrapperSends

\* The daemon takes a frame.
LEMMA HearSettles == ASSUME TypeOK, CacheInv, Hear PROVE CacheInv'
  <1> DEFINE m == Head(up)
  <1>1. up \in Seq(UpFrame) /\ up # <<>> /\ up' = Tail(up) /\ m \in UpFrame /\ m = up[1]
    BY DEF Hear, TypeOK
  <1>2. /\ known /\ link # "down"
        /\ UNCHANGED <<link, known, pendingAsk, currentActivity>>
    BY <1>1 DEF Hear, CacheInv, Silent, wrapper
  <1>3. /\ wrapAsks' = IF About(m, "ask") THEN Says(m) ELSE wrapAsks
        /\ wrapActivity' = IF About(m, "activity") THEN Says(m) ELSE wrapActivity
    BY DEF Hear, LabelOf, About, Says
  <1>4. bound'
    <2>1. CASE bound
      BY <2>1 DEF Hear
    <2>2. CASE ~bound
      BY <1>1, <2>2 DEF Hear, CacheInv, Unbound
    <2>3. QED
      BY <2>1, <2>2
  <1> HIDE DEF m
  <1>5. ASSUME link = "open" PROVE BothSettled(up, pendingAsk, currentActivity)'
    <2>1. Settled(up, "ask", wrapAsks, pendingAsk) /\ Settled(up, "activity", wrapActivity, currentActivity)
      BY <1>5 DEF CacheInv, BothSettled
    <2>2. Settled(Tail(up), "ask", wrapAsks', pendingAsk)
      BY <1>1, <1>3, <2>1, FrameTaken DEF m
    <2>3. Settled(Tail(up), "activity", wrapActivity', currentActivity)
      BY <1>1, <1>3, <2>1, FrameTaken DEF m
    <2>4. QED
      BY <1>1, <1>2, <2>2, <2>3 DEF BothSettled
  <1>6. QED
    BY <1>1, <1>2, <1>4, <1>5 DEF CacheInv, Unbound, Silent, BothSettled

LEMMA CacheStep == TypeOK /\ CacheInv /\ [Next]_vars => CacheInv'
  <1> SUFFICES ASSUME TypeOK, CacheInv, [Next]_vars PROVE CacheInv'
    OBVIOUS
  <1> USE DEF wrapper, daemon
  <1>0. ASSUME UNCHANGED <<daemon, link, known, up, pendingAsk, currentActivity>> PROVE CacheInv'
    BY <1>0 DEF CacheInv, Unbound, Silent, BothSettled
  <1>1. CASE Line
    <2>1. UNCHANGED <<daemon, link, known>>
      BY <1>1 DEF Line
    <2>2. CASE AnswerAsk(pendingAsk)
      BY <2>1, <2>2, AnswerAskSettles
    <2>3. CASE SendUser(prompts')
      BY <2>1, <2>3, SendUserSettles
    <2>4. QED
      BY <1>1, <2>2, <2>3 DEF Line
  <1>2. CASE Receive
    <2>1. UNCHANGED <<daemon, link, known>>
      BY <1>2 DEF Receive
    <2>2. CASE SendUser(Head(down).arg)
      BY <2>1, <2>2, SendUserSettles
    <2>3. CASE AnswerAsk(Head(down).arg)
      BY <2>1, <2>3, AnswerAskSettles
    <2>4. CASE UNCHANGED <<pendingAsk, currentActivity, up>>
      BY <1>0, <2>1, <2>4
    <2>5. QED
      BY <1>2, <2>2, <2>3, <2>4 DEF Receive
  <1>3. ASSUME NEW a \in Label \cup {None},
               currentActivity' = a, Send(ActivityFrames(a)),
               UNCHANGED <<daemon, link, known, pendingAsk>>
        PROVE  CacheInv'
    <2>1. ActivityFrames(a) \in Seq(UpFrame) /\ up \in Seq(UpFrame)
      BY ActivityTyped DEF TypeOK
    <2>2. link = "open" => BothSettled(up \o ActivityFrames(a), pendingAsk, a)
      BY <2>1, ActivitySettles DEF CacheInv
    <2>3. QED
      BY <1>3, <2>1, <2>2, WrapperSends
  <1>4. CASE Interrupted
    BY <1>0, <1>3, <1>4 DEF Interrupted
  <1>5. ASSUME NEW a \in Label \cup {None}, Activity(a) PROVE CacheInv'
    BY <1>3, <1>5 DEF Activity
  <1>6. ASSUME NEW q \in Question, NEW a \in Label, Ask(q, a) PROVE CacheInv'
    BY <1>6, AskCallSettles
  <1>7. CASE SdkInit
    <2> DEFINE f == Frame("session_uuid", None)
    <2>1. /\ up = <<>> /\ ~bound /\ wrapAsks = None /\ wrapActivity = None
          /\ up' = <<f>> /\ link = "open" /\ known'
          /\ UNCHANGED <<daemon, link, pendingAsk, currentActivity>>
      BY <1>7 DEF SdkInit, CacheInv, Silent, Unbound
    <2>2. f.type = "session_uuid" /\ f \in UpFrame
      BY FramesTyped DEF Frame
    <2> HIDE DEF f
    <2>3. \A topic \in {"ask", "activity"} : \A truth : Settled(Append(<<>>, f), topic, None, truth)
      <3>1. \A topic \in {"ask", "activity"} : ~About(f, topic)
        BY <2>2 DEF About
      <3>2. QED
        BY <2>2, <3>1, EmptySeq, NothingSent, FrameAdded
    <2>a. <<f>> = Append(<<>>, f)
      OBVIOUS
    <2>4. BothSettled(up, pendingAsk, currentActivity)'
      BY <2>1, <2>3, <2>a DEF BothSettled
    <2>5. QED
      BY <2>1, <2>2, <2>4 DEF CacheInv, Unbound, Silent
  <1>8. CASE Finish
    <2>1. link' # "open" /\ link' # "down" /\ UNCHANGED <<daemon, known, up>>
      BY <1>8 DEF Finish
    <2>2. QED
      BY <2>1 DEF CacheInv, Unbound, Silent
  <1>9. CASE Drop
    <2>1. PICK n \in 0 .. Len(up) : up' = SubSeq(up, 1, n)
      BY <1>9 DEF Drop
    <2>2. up \in Seq(UpFrame)
      BY DEF TypeOK
    <2>3. up' # <<>> => up # <<>> /\ up'[1] = up[1]
      BY <2>1, <2>2
    <2>4. link' = "closing" /\ UNCHANGED <<daemon, known>>
      BY <1>9 DEF Drop
    <2>5. QED
      BY <2>3, <2>4 DEF CacheInv, Unbound, Silent
  <1>10. CASE Reconnect
    <2> DEFINE f == Frame("session_uuid", None)
    <2>1. /\ ~bound /\ wrapAsks = None /\ wrapActivity = None
          /\ up' = (IF known THEN <<f>> ELSE <<>>) /\ link' = "open"
          /\ UNCHANGED <<daemon, known, pendingAsk, currentActivity>>
      BY <1>10 DEF Reconnect, CacheInv, Silent, Unbound
    <2>2. f.type = "session_uuid" /\ f \in UpFrame
      BY FramesTyped DEF Frame
    <2> HIDE DEF f
    <2>3. \A topic \in {"ask", "activity"} : \A truth : Settled(Append(<<>>, f), topic, None, truth)
      <3>1. \A topic \in {"ask", "activity"} : ~About(f, topic)
        BY <2>2 DEF About
      <3>2. QED
        BY <2>2, <3>1, EmptySeq, NothingSent, FrameAdded
    <2>a. <<f>> = Append(<<>>, f)
      OBVIOUS
    <2>4. BothSettled(up, pendingAsk, currentActivity)'
      BY <2>1, <2>3, <2>a, NothingSent DEF BothSettled
    <2>5. QED
      BY <2>1, <2>2, <2>4 DEF CacheInv, Unbound, Silent
  <1>11. CASE Close
    <2>1. /\ up = <<>> /\ up' = <<>> /\ ~bound' /\ known' = known
          /\ link' \in {"down", "off"}
          /\ wrapAsks' = None /\ wrapActivity' = None
      BY <1>11 DEF Close, ClosedAsk, CacheInv, Unbound
    <2>2. QED
      BY <2>1 DEF CacheInv, Unbound, Silent
  <1>12. CASE Hear
    BY <1>12, HearSettles
  <1>13. CASE \/ EndOfInput \/ Pull \/ HubSend \/ HubInterrupt
              \/ \E q \in Question : HubAnswer(q)
    BY <1>0, <1>13 DEF EndOfInput, Pull, HubSend, HubInterrupt, HubAnswer
  <1>14. CASE UNCHANGED vars
    BY <1>0, <1>14 DEF vars
  <1>15. QED
    BY <1>1, <1>2, <1>4, <1>5, <1>6, <1>7, <1>8, <1>9, <1>10, <1>11, <1>12, <1>13, <1>14 DEF Next

\* Once the wrapper's frames have arrived the daemon shows no question that was
\* answered and no activity that is over, whatever went with lost links.
THEOREM CachesStayTrue == Spec => []CachesTellTruth
  <1>1. Init => CacheInv
    BY DEF Init, CacheInv, Unbound, Silent
  <1>2. TypeOK /\ CacheInv /\ [Next]_vars => CacheInv'
    BY CacheStep
  <1>3. CacheInv => CachesTellTruth
    BY DEF CacheInv, BothSettled, Settled, CachesTellTruth
  <1>4. QED
    BY <1>1, <1>2, <1>3, TypeCorrect, PTL DEF Spec
=============================================================================
