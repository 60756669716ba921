------------------------- MODULE PromptStreamProofs -------------------------
(***************************************************************************)
(* PromptStream implements PromptQueue, for any messages and any number of *)
(* them.  The stream's own invariant is that a next() waits only while     *)
(* nothing is buffered and the stream is open.                             *)
(***************************************************************************)
EXTENDS PromptStream, SequenceTheorems, TLAPS

WaitsOnEmpty == waiting => buffer = <<>> /\ ~closed

StreamInv == StreamTypeOK /\ WaitsOnEmpty

\* Moving the oldest buffered message to the given ones changes nothing about
\* the whole sequence.
LEMMA HeadMoves ==
    ASSUME NEW S, NEW s \in Seq(S), NEW t \in Seq(S), t # <<>>
    PROVE  /\ Append(s, Head(t)) \o Tail(t) = s \o t
           /\ Len(s) # Len(s \o t)
           /\ Append(s, Head(t)) \in Seq(S)
           /\ Tail(t) \in Seq(S)
           /\ Len(Append(s, Head(t))) = Len(s) + 1
  <1>1. Head(t) \in S /\ Tail(t) \in Seq(S)
    BY HeadTailProperties
  <1>2. t = <<Head(t)>> \o Tail(t)
    BY <1>1
  <1>3. <<Head(t)>> \in Seq(S)
    BY <1>1
  <1>4. Append(s, Head(t)) = s \o <<Head(t)>>
    BY <1>1, AppendIsConcat
  <1>5. (s \o <<Head(t)>>) \o Tail(t) = s \o (<<Head(t)>> \o Tail(t))
    BY <1>1, <1>3, ConcatAssociative
  <1>6. Len(s \o t) = Len(s) + Len(t) /\ Len(t) # 0 /\ Len(s) \in Nat
          /\ Len(t) \in Nat
    BY ConcatProperties, LenProperties, EmptySeq
  <1>7. QED
    BY <1>1, <1>2, <1>4, <1>5, <1>6, AppendProperties

\* Accepting a message appends it to the whole sequence, wherever it goes.
LEMMA LastMoves ==
    ASSUME NEW S, NEW s \in Seq(S), NEW t \in Seq(S), NEW m \in S
    PROVE  /\ s \o Append(t, m) = Append(s \o t, m)
           /\ Append(t, m) \in Seq(S)
           /\ Append(s, m) \o <<>> = Append(s \o <<>>, m)
           /\ Len(Append(s, m)) = Len(s) + 1
           /\ Len(s) = Len(s \o <<>>)
  <1>1. Append(t, m) = t \o <<m>> /\ <<m>> \in Seq(S)
    BY AppendIsConcat
  <1>2. s \o t \in Seq(S) /\ (s \o t) \o <<m>> = s \o (t \o <<m>>)
    BY <1>1, ConcatProperties, ConcatAssociative
  <1>3. Append(s \o t, m) = (s \o t) \o <<m>>
    BY <1>2, AppendIsConcat
  <1>4. Append(s, m) \in Seq(S) /\ Len(Append(s, m)) = Len(s) + 1
    BY AppendProperties
  <1>5. Append(s, m) \o <<>> = Append(s, m) /\ s \o <<>> = s
    BY <1>4, ConcatEmptySeq
  <1>6. QED
    BY <1>1, <1>2, <1>3, <1>4, <1>5, AppendProperties

\* Types, and where a next() can wait.
LEMMA StreamInvariant == StreamSpec => []StreamInv
  <1>1. StreamInit => StreamInv
    BY EmptySeq DEF StreamInit, StreamInv, StreamTypeOK, WaitsOnEmpty
  <1>2. StreamInv /\ [StreamNext]_stream => StreamInv'
    <2> SUFFICES ASSUME StreamInv, [StreamNext]_stream PROVE StreamInv'
      OBVIOUS
    <2> USE DEF StreamInv, StreamTypeOK, WaitsOnEmpty, stream
    <2>1. ASSUME NEW m \in Message, Push(m) PROVE StreamInv'
      <3>1. /\ Append(given, m) \in Seq(Message)
            /\ Append(buffer, m) \in Seq(Message)
        BY AppendProperties
      <3>2. CASE closed
        BY <2>1, <3>2 DEF Push
      <3>3. CASE ~closed /\ waiting
        BY <2>1, <3>1, <3>3 DEF Push
      <3>4. CASE ~closed /\ ~waiting
        BY <2>1, <3>1, <3>4 DEF Push
      <3>5. QED
        BY <3>2, <3>3, <3>4
    <2>2. CASE End
      BY <2>2 DEF End
    <2>3. CASE Pull
      <3>1. CASE buffer # <<>>
        <4>1. Append(given, Head(buffer)) \in Seq(Message)
                /\ Tail(buffer) \in Seq(Message)
          BY <3>1, HeadMoves
        <4>2. given' = Append(given, Head(buffer)) /\ buffer' = Tail(buffer)
                /\ waiting' = FALSE /\ over' = over /\ closed' = closed
          BY <2>3, <3>1 DEF Pull
        <4>3. QED
          BY <4>1, <4>2
      <3>2. CASE buffer = <<>> /\ closed
        BY <2>3, <3>2 DEF Pull
      <3>3. CASE buffer = <<>> /\ ~closed
        BY <2>3, <3>3 DEF Pull
      <3>4. QED
        BY <3>1, <3>2, <3>3
    <2>4. CASE UNCHANGED stream
      BY <2>4
    <2>5. QED
      BY <2>1, <2>2, <2>3, <2>4 DEF StreamNext
  <1>3. QED
    BY <1>1, <1>2, PTL DEF StreamSpec

\* The SDK receives what was pushed before the end: all of it, in order, once.
THEOREM StreamIsQueue == StreamSpec => PromptsInOrder
  <1>1. StreamInit => Queue!Init
    <2>1. <<>> \o <<>> = <<>> /\ Len(<<>>) = 0
      BY EmptySeq, ConcatEmptySeq
    <2>2. QED
      BY <2>1 DEF StreamInit, Queue!Init
  <1>2. StreamInv /\ [StreamNext]_stream => [Queue!Next]_(Queue!vars)
    <2> SUFFICES ASSUME StreamInv, [StreamNext]_stream
                 PROVE  [Queue!Next]_(Queue!vars)
      OBVIOUS
    <2> USE DEF StreamInv, StreamTypeOK, WaitsOnEmpty
    <2>1. ASSUME NEW m \in Message, Push(m)
          PROVE  Queue!Put(m) \/ UNCHANGED Queue!vars
      <3>1. CASE closed
        BY <2>1, <3>1 DEF Push, stream, Queue!vars
      <3>2. CASE ~closed /\ waiting
        <4>1. given' = Append(given, m) /\ buffer' = <<>> /\ buffer = <<>>
                /\ ~closed' /\ over' = over
          BY <2>1, <3>2 DEF Push
        <4>2. /\ given' \o buffer' = Append(given \o buffer, m)
              /\ Len(given') = Len(given) + 1
              /\ Len(given) = Len(given \o buffer)
          BY <4>1, LastMoves
        <4>3. QED
          BY <3>2, <4>1, <4>2 DEF Queue!Put, Queue!AllTaken
      <3>3. CASE ~closed /\ ~waiting
        <4>1. given' = given /\ buffer' = Append(buffer, m)
                /\ closed' = closed /\ over' = over
          BY <2>1, <3>3 DEF Push
        <4>2. given' \o buffer' = Append(given \o buffer, m)
          BY <4>1, LastMoves
        <4>3. QED
          BY <3>3, <4>1, <4>2 DEF Queue!Put, Queue!AllTaken
      <3>4. QED
        BY <3>1, <3>2, <3>3
    <2>2. CASE End
      <3>1. given' = given /\ buffer' = buffer /\ closed'
        BY <2>2 DEF End
      <3>2. CASE waiting
        <4>1. over' = TRUE /\ Len(given) = Len(given \o buffer)
          BY <2>2, <3>2, LastMoves, ConcatEmptySeq DEF End
        <4>2. QED
          BY <3>1, <4>1 DEF Queue!Next, Queue!Close, Queue!AllTaken
      <3>3. CASE ~waiting
        BY <2>2, <3>1, <3>3 DEF End, Queue!Next, Queue!Close, Queue!AllTaken
      <3>4. QED
        BY <3>2, <3>3
    <2>3. CASE Pull
      <3>1. CASE buffer # <<>>
        <4>1. given' = Append(given, Head(buffer)) /\ buffer' = Tail(buffer)
                /\ closed' = closed /\ over' = over
          BY <2>3, <3>1 DEF Pull
        <4>2. Append(given, Head(buffer)) \o Tail(buffer) = given \o buffer
                /\ Len(Append(given, Head(buffer))) = Len(given) + 1
                /\ Len(given) # Len(given \o buffer)
          BY <3>1, HeadMoves
        <4>3. given' \o buffer' = given \o buffer
          BY <4>1, <4>2
        <4>4. QED
          BY <4>1, <4>2, <4>3 DEF Queue!Next, Queue!Take, Queue!AllTaken
      <3>2. CASE buffer = <<>> /\ closed
        <4>1. Len(given) = Len(given \o buffer)
          BY <3>2, ConcatEmptySeq
        <4>2. given' = given /\ buffer' = buffer /\ closed' = closed
                /\ over' = TRUE
          BY <2>3, <3>2 DEF Pull
        <4>3. QED
          BY <3>2, <4>1, <4>2 DEF Queue!Next, Queue!Finish, Queue!AllTaken
      <3>3. CASE buffer = <<>> /\ ~closed
        BY <2>3, <3>3 DEF Pull, Queue!vars
      <3>4. QED
        BY <3>1, <3>2, <3>3
    <2>4. CASE UNCHANGED stream
      BY <2>4 DEF stream, Queue!vars
    <2>5. QED
      BY <2>1, <2>2, <2>3, <2>4 DEF StreamNext, Queue!Next
  <1>3. QED
    BY <1>1, <1>2, StreamInvariant, PTL
    DEF StreamSpec, PromptsInOrder, Queue!Spec
=============================================================================
