----------------------------- MODULE MCSessions ------------------------------
(***************************************************************************)
(* The session rows, the files a card shows before its session has an id,  *)
(* and the starts of daemons, which share no state here and are checked    *)
(* side by side: a behaviour is one of one part, and the others stay as    *)
(* they are.                                                               *)
(***************************************************************************)
EXTENDS Sessions, Rollouts, DaemonStart, TLC

VARIABLE part
partVars == <<part, vars, rolloutVars, startVars>>

MCSymmetry == Permutations(Dir) \cup Permutations(Codex)

MCInit == part \in {"sessions", "files", "start"} /\ Init /\ RolloutsInit /\ StartInit

SessionsPart == part = "sessions" /\ Next /\ UNCHANGED <<part, rolloutVars, startVars>>
FilesPart == part = "files" /\ RolloutsNext /\ UNCHANGED <<part, vars, startVars>>
StartPart == part = "start" /\ StartNext /\ UNCHANGED <<part, vars, rolloutVars>>

MCNext == SessionsPart \/ FilesPart \/ StartPart
MCSpec == MCInit /\ [][MCNext]_partVars
=============================================================================
