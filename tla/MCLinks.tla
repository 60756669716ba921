------------------------------- MODULE MCLinks -------------------------------
(***************************************************************************)
(* The daemon's links to the relay and to the helper extensions share no   *)
(* state and are checked side by side: a behaviour is one of one part, and *)
(* the other stays as it is.                                               *)
(***************************************************************************)
EXTENDS RelayLink, HelperBridge, TLC

VARIABLE part
linksVars == <<part, linkVars, bridgeVars>>

CONSTANTS r1, r2, sA, sB, w1, w2
MCTarget == r1 :> sA @@ r2 :> sB
MCWays == r1 :> {"helper"} @@ r2 :> {"helper", "prefill", "legacy", "submit"}
MCCovers == r1 :> {w1} @@ r2 :> {w1, w2}
MCDepth == w1 :> 1 @@ w2 :> 2
MCTitled == w1 :> {w1} @@ w2 :> {w2}

Init == part \in {"link", "bridge"} /\ LinkInit /\ BridgeInit

LinkPart == part = "link" /\ LinkNext /\ UNCHANGED <<part, bridgeVars>>
BridgePart == part = "bridge" /\ BridgeNext /\ UNCHANGED <<part, linkVars>>

\* LinkFairSpec's fairness; a part that stands still owes none.
Fairness == WF_linkVars(part = "link" /\ Handshake)

Next == LinkPart \/ BridgePart
Spec == Init /\ [][Next]_linksVars /\ Fairness

\* LinkComesBack of RelayLink, in the behaviours of that part: a daemon that is not
\* stopped and loses its relay connection only so often ends up connected
\* (handleClose of src/src/relay-client.ts and its timer).
RelayLinkComesBack == part = "link" => LinkComesBack
=============================================================================
