---------------------------- MODULE PromptQueue -----------------------------
(***************************************************************************)
(* What the prompt stream of a wrapped session promises to the Agent SDK:  *)
(* the prompts that were accepted, each once, in the order in which they   *)
(* were accepted, and the end of the stream after the last of them.        *)
(***************************************************************************)
EXTENDS Naturals, Sequences

CONSTANT Message

VARIABLES
    accepted,  \* every message accepted so far, oldest first
    taken,     \* how many of them the consumer has received
    open,      \* messages are still accepted
    finished   \* the consumer was told that no more will come

vars == <<accepted, taken, open, finished>>

AllTaken == taken = Len(accepted)

\* A message is accepted; a consumer that has taken all others may get it in
\* the same step.
Put(m) ==
    /\ open
    /\ accepted' = Append(accepted, m)
    /\ taken' \in {taken} \cup {n \in {taken + 1} : AllTaken}
    /\ UNCHANGED <<open, finished>>

Take ==
    /\ ~AllTaken
    /\ taken' = taken + 1
    /\ UNCHANGED <<accepted, open, finished>>

\* The stream is closed; a consumer that has taken all may hear it at once.
Close ==
    /\ open' = FALSE
    /\ finished' \in {finished, AllTaken}
    /\ UNCHANGED <<accepted, taken>>

Finish ==
    /\ ~open /\ AllTaken
    /\ finished' = TRUE
    /\ UNCHANGED <<accepted, taken, open>>

Init ==
    /\ accepted = <<>>
    /\ taken = 0
    /\ open = TRUE
    /\ finished = FALSE

Next == (\E m \in Message : Put(m)) \/ Take \/ Close \/ Finish

Spec == Init /\ [][Next]_vars
=============================================================================
