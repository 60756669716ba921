---------------------------- MODULE PromptStream ----------------------------
(***************************************************************************)
(* PushableAsyncIterable (src/src/cli/pushable-iter.ts): the stream into   *)
(* which a wrapper pushes the user's messages and from which the Agent SDK *)
(* pulls them, one outstanding next() at a time.                           *)
(***************************************************************************)
EXTENDS Naturals, Sequences

CONSTANT Message

VARIABLES
    buffer,   \* pushed and not pulled
    waiting,  \* pendingResolve is set: a next() has not been answered
    closed,   \* end() was called
    given,    \* history: what the answered next() calls returned
    over      \* a next() returned done

stream == <<buffer, waiting, closed, given, over>>

StreamInit ==
    /\ buffer = <<>>
    /\ waiting = FALSE
    /\ closed = FALSE
    /\ given = <<>>
    /\ over = FALSE

\* push.
Push(m) ==
    \/ closed /\ UNCHANGED stream
    \/ /\ ~closed /\ waiting
       /\ given' = Append(given, m)
       /\ waiting' = FALSE
       /\ UNCHANGED <<buffer, closed, over>>
    \/ /\ ~closed /\ ~waiting
       /\ buffer' = Append(buffer, m)
       /\ UNCHANGED <<waiting, closed, given, over>>

\* end.
End ==
    /\ ~closed
    /\ closed' = TRUE
    /\ waiting' = FALSE
    /\ over' = (over \/ waiting)
    /\ UNCHANGED <<buffer, given>>

\* Mutant: next() looks at closed first and drops what is buffered.
PullClosedFirst ==
    /\ ~waiting /\ ~over
    /\ \/ /\ closed
          /\ over' = TRUE
          /\ UNCHANGED <<buffer, waiting, given>>
       \/ /\ ~closed /\ buffer # <<>>
          /\ given' = Append(given, Head(buffer))
          /\ buffer' = Tail(buffer)
          /\ UNCHANGED <<waiting, over>>
       \/ /\ ~closed /\ buffer = <<>>
          /\ waiting' = TRUE
          /\ UNCHANGED <<buffer, given, over>>
    /\ UNCHANGED closed

\* next.
Pull ==
    /\ ~waiting /\ ~over
    /\ \/ /\ buffer # <<>>
          /\ given' = Append(given, Head(buffer))
          /\ buffer' = Tail(buffer)
          /\ UNCHANGED <<waiting, over>>
       \/ /\ buffer = <<>> /\ closed
          /\ over' = TRUE
          /\ UNCHANGED <<buffer, waiting, given>>
       \/ /\ buffer = <<>> /\ ~closed
          /\ waiting' = TRUE
          /\ UNCHANGED <<buffer, given, over>>
    /\ UNCHANGED closed

StreamNext == (\E m \in Message : Push(m)) \/ End \/ Pull

StreamSpec == StreamInit /\ [][StreamNext]_stream

StreamTypeOK ==
    /\ buffer \in Seq(Message)
    /\ given \in Seq(Message)
    /\ waiting \in BOOLEAN
    /\ closed \in BOOLEAN
    /\ over \in BOOLEAN

\* The queue that the stream implements.
Queue == INSTANCE PromptQueue WITH
            accepted <- given \o buffer,
            taken <- Len(given),
            open <- ~closed,
            finished <- over

\* The SDK receives the messages pushed before the end, each once, in the
\* order of the pushes, and the end only after all of them.
PromptsInOrder == Queue!Spec
=============================================================================
