----------------------------- MODULE Transcripts -----------------------------
(***************************************************************************)
(* The readers of a session's transcript file (src/src/session-resolver.ts)*)
(* over a file that the agent goes on appending to: the conversation       *)
(* (readTranscriptTail), the card's preview (readSessionPreview), their    *)
(* counterparts for codex rollouts, and the question whether anything was  *)
(* said at all (sessionHasAnyTurns), on which a closed session is deleted. *)
(* A line half written does not parse: it is a line of kind "other".       *)
(***************************************************************************)
EXTENDS Naturals, Sequences, FiniteSets, SequencesExt

CONSTANTS
    ClaudeLine, \* lines Claude writes
    CodexLine,  \* lines codex writes
    Window,     \* the lines from the end that a preview looks at
    Limits,     \* the numbers of turns asked for
    MaxLines    \* bound on the lines of a file

ASSUME TranscriptsAssumption ==
    Window \in Nat \ {0} /\ Limits \subseteq Nat \ {0} /\ MaxLines \in Nat

(* A message line holds its text as a string or as blocks: "text", "blank" *)
(* (whitespace), "holder" ("No response requested.", "(no content)"),      *)
(* "use" and "result" of a tool, and "image".  Only the assistant uses     *)
(* tools; the other lines are of their kind alone.                         *)
IsClaudeLine(l) ==
    /\ l.kind \in {"command", "stdout", "message", "other"}
    /\ l.kind = "message" =>
        /\ l.role \in {"user", "assistant"}
        /\ l.injected \in BOOLEAN /\ l.synthetic \in BOOLEAN
        /\ l.blocks \in Seq({"text", "blank", "holder", "use", "result", "image"})
        /\ \/ l.form = "blocks" /\ (Contains(l.blocks, "use") => l.role = "assistant")
           \/ l.form = "string" /\ \E b \in {"text", "blank", "holder"} : l.blocks = <<b>>

IsCodexLine(l) ==
    /\ l.kind \in {"message", "call", "output", "other"}
    /\ l.kind = "message" =>
        /\ l.role \in {"user", "assistant", "developer", "system"}
        /\ l.text \in {"text", "blank", "injected"}

ASSUME LinesAssumption ==
    (\A l \in ClaudeLine : IsClaudeLine(l)) /\ (\A l \in CodexLine : IsCodexLine(l))

VARIABLES
    source, \* ResolvedTranscript.source
    log     \* the lines of the file

transcriptVars == <<source, log>>

Lines == IF source = "claude" THEN ClaudeLine ELSE CodexLine

\* TranscriptTurn: the line and block it comes from stand for its content.
Turn(i, b, role, what) ==
    [line |-> i, block |-> b, role |-> role, what |-> what, images |-> FALSE]

----------------------------------------------------------------------------
(* Claude: the conversation.                                               *)

\* isInjectedUserEntry: skill content, notifications, what tools brought in.
IsInjected(l) == l.injected

RoleOf(l) == IF l.role = "user" /\ IsInjected(l) THEN "system" ELSE l.role

ImageIn(l) == Contains(l.blocks, "image")

\* One block, the blocks taken from the last to the first: the images of the
\* message go with the first text met.
PushBlock(i, l, b, acc) ==
    LET what == l.blocks[b] IN
    CASE what \in {"text", "holder"} ->
            LET t == Turn(i, b, RoleOf(l), "text") IN
            [turns |-> Append(acc.turns, [t EXCEPT !.images = ImageIn(l) /\ ~acc.attached]),
             attached |-> acc.attached \/ ImageIn(l)]
      [] what \in {"use", "result"} ->
            [acc EXCEPT !.turns = Append(@, Turn(i, b, l.role, what))]
      [] OTHER -> acc

NoneYet == [turns |-> <<>>, attached |-> FALSE]

\* pushed[n] is what the last n blocks leave.
PushedBlocks(i, l) ==
    LET size == Len(l.blocks)
        pushed[n \in 0 .. size] ==
            IF n = 0 THEN NoneYet ELSE PushBlock(i, l, size - n + 1, pushed[n - 1])
    IN  pushed[size]

\* A message of images alone still gets a turn.
BlockTurns(i, l) ==
    LET pushed == PushedBlocks(i, l) IN
    IF ImageIn(l) /\ ~pushed.attached
    THEN Append(pushed.turns, [Turn(i, 0, RoleOf(l), "image") EXCEPT !.images = TRUE])
    ELSE pushed.turns

\* What a line of Claude adds to the turns, the last first.
ClaudeTurns(i, l) ==
    CASE l.kind = "command" -> <<Turn(i, 0, "user", "command")>>
      [] l.kind = "stdout" -> <<Turn(i, 0, "assistant", "stdout")>>
      [] l.kind = "message" /\ ~l.synthetic /\ l.form = "blocks" -> BlockTurns(i, l)
      [] l.kind = "message" /\ ~l.synthetic /\ l.form = "string" /\ l.blocks = <<"text">> ->
            <<Turn(i, 1, RoleOf(l), "text")>>
      [] OTHER -> <<>>

----------------------------------------------------------------------------
(* Codex: the conversation.                                                *)

\* isCodexInjectedUserMessage: instructions and context codex puts in front.
IsCodexInjected(l) == l.role = "user" /\ l.text \in {"blank", "injected"}

CodexTurns(i, l) ==
    CASE /\ l.kind = "message" /\ l.role \in {"user", "assistant"}
         /\ l.text # "blank" /\ ~IsCodexInjected(l) -> <<Turn(i, 1, l.role, "text")>>
      [] l.kind = "call" -> <<Turn(i, 1, "assistant", "use")>>
      [] l.kind = "output" -> <<Turn(i, 1, "user", "result")>>
      [] OTHER -> <<>>

----------------------------------------------------------------------------
(* readTranscriptTailForSource: the file is read backwards until there are *)
(* turns enough, the oldest are dropped and the order is turned round.     *)

TurnsOf(i) == IF source = "claude" THEN ClaudeTurns(i, log[i]) ELSE CodexTurns(i, log[i])

readTail(limit) ==
    LET read[n \in 0 .. Len(log)] ==
            IF n = 0 THEN <<>>
            ELSE IF Len(read[n - 1]) < limit
                 THEN read[n - 1] \o TurnsOf(Len(log) - n + 1)
                 ELSE read[n - 1]
        turns == read[Len(log)]
    IN  Reverse(SubSeq(turns, 1, IF Len(turns) < limit THEN Len(turns) ELSE limit))

----------------------------------------------------------------------------
(* readTranscriptPreview: for each part of the card the last line of the   *)
(* window that has it; the text of a line is that of its blocks together.  *)

Said(l) == {b \in DOMAIN l.blocks : l.blocks[b] \in {"text", "holder"}}
OnlyHolder(l) == \E b \in Said(l) : l.blocks[b] = "holder" /\ Said(l) = {b}
NamesNothing(l) == Said(l) = {} \/ OnlyHolder(l)

\* Mutant: what the harness put in is taken for the user's words.
TakesInjected(l) == l.kind = "message" /\ ~l.synthetic /\ l.role = "user" /\ ~NamesNothing(l)
ByUser(l) ==
    /\ l.kind = "message" /\ ~l.synthetic /\ l.role = "user"
    /\ ~NamesNothing(l) /\ ~IsInjected(l)

ClaudeCard(part, l) ==
    CASE part = "user" -> l.kind = "command" \/ ByUser(l)
      [] part = "assistant" ->
            \/ l.kind = "stdout"
            \/ l.kind = "message" /\ ~l.synthetic /\ l.role = "assistant" /\ ~NamesNothing(l)
      [] part = "tool" -> l.kind = "message" /\ ~l.synthetic /\ Contains(l.blocks, "use")

CodexCard(part, l) ==
    CASE part = "user" ->
            l.kind = "message" /\ l.role = "user" /\ l.text # "blank" /\ ~IsCodexInjected(l)
      [] part = "assistant" -> l.kind = "message" /\ l.role = "assistant" /\ l.text # "blank"
      [] part = "tool" -> l.kind = "call"

InWindow(i) == i + Window > Len(log)

Newest(lines) == IF lines = {} THEN 0 ELSE CHOOSE i \in lines : \A j \in lines : j <= i

\* SessionPreview: which line the card's text, or tool, is taken from.
CardLine(part) ==
    Newest({i \in DOMAIN log :
        InWindow(i) /\ IF source = "claude" THEN ClaudeCard(part, log[i])
                                            ELSE CodexCard(part, log[i])})

----------------------------------------------------------------------------
(* sessionHasAnyTurns.                                                     *)

SaysOrActs(l) ==
    /\ l.kind = "message" /\ ~l.synthetic
    /\ IF l.form = "string" THEN ~NamesNothing(l)
       ELSE \/ Said(l) # {}
            \/ l.role = "assistant" /\ Contains(l.blocks, "use")

HasAnyTurns == \E i \in DOMAIN log : SaysOrActs(log[i])

----------------------------------------------------------------------------
TranscriptsInit == source \in {"claude", "codex"} /\ log = <<>>

\* The agent appends a line; nothing is ever taken back.
LineWritten(l) ==
    /\ Len(log) < MaxLines
    /\ log' = Append(log, l)
    /\ UNCHANGED source

TranscriptsNext == \E l \in Lines : LineWritten(l)

TranscriptsSpec == TranscriptsInit /\ [][TranscriptsNext]_transcriptVars

----------------------------------------------------------------------------
(* What the readers are meant to return, told forwards.                    *)

\* The turns of one line of Claude in the order they were written: the images
\* of a message go with its last text, or stand in front when it has none.
BlockShown(i, l, b) ==
    IF b \in Said(l)
    THEN [Turn(i, b, RoleOf(l), "text") EXCEPT !.images =
            ImageIn(l) /\ \A c \in Said(l) : c <= b]
    ELSE Turn(i, b, l.role, l.blocks[b])

ImagesAlone(i, l) ==
    IF ImageIn(l) /\ Said(l) = {}
    THEN <<[Turn(i, 0, RoleOf(l), "image") EXCEPT !.images = TRUE]>> ELSE <<>>

WithBlock(i, l, b, turns) ==
    IF l.blocks[b] \in {"text", "holder", "use", "result"}
    THEN Append(turns, BlockShown(i, l, b)) ELSE turns

InOrderOf(i, l) ==
    IF l.kind # "message" \/ l.form # "blocks" \/ l.synthetic THEN ClaudeTurns(i, l)
    ELSE LET told[b \in 0 .. Len(l.blocks)] ==
                IF b = 0 THEN ImagesAlone(i, l) ELSE WithBlock(i, l, b, told[b - 1])
         IN  told[Len(l.blocks)]

WrittenBy(i) == IF source = "claude" THEN InOrderOf(i, log[i]) ELSE CodexTurns(i, log[i])

Conversation ==
    LET told[n \in 0 .. Len(log)] ==
            IF n = 0 THEN <<>> ELSE told[n - 1] \o WrittenBy(n)
    IN  told[Len(log)]

\* The conversation shown for a limit is the end of the whole conversation in
\* the order it was written, that many turns long or all of it: reading
\* backwards and stopping early loses and turns round nothing, and an image is
\* shown once, with the text it came with.
TailIsEnd ==
    \A limit \in Limits :
        LET whole == Conversation
            from == IF Len(whole) > limit THEN Len(whole) - limit + 1 ELSE 1
        IN  readTail(limit) = SubSeq(whole, from, Len(whole))

\* Everything the conversation can show.
ShownTurns == Range(readTail(Len(Conversation) + 1))

Placeholder(l) == source = "claude" /\ l.kind = "message" /\ OnlyHolder(l)

\* The last line, of those a preview looks at, that the conversation shows as
\* words of this role.
LastWords(role) ==
    Newest({t.line : t \in {u \in ShownTurns :
        /\ u.role = role /\ u.what \in {"text", "command", "stdout"}
        /\ InWindow(u.line) /\ ~Placeholder(log[u.line])}})

\* Three readers with rules of their own agree: the conversation shown is the
\* end of the one written (TailIsEnd); the card agrees with it on who said the
\* last thing and on the last tool; and a closed session is taken for empty,
\* and deleted, exactly when no words and no tool of it would be shown.
ReadersAgree ==
    /\ TailIsEnd
    /\ \A role \in {"user", "assistant"} : CardLine(role) = LastWords(role)
    /\ CardLine("tool") = Newest({t.line : t \in {u \in ShownTurns : u.what = "use" /\ InWindow(u.line)}})
    /\ source = "claude" => (HasAnyTurns <=> \E t \in ShownTurns : t.what \in {"text", "use"})
=============================================================================
