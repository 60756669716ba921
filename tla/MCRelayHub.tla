----------------------------- MODULE MCRelayHub -----------------------------
(***************************************************************************)
(* Small instances of the relay: pairing through it (RelayHub) and, with   *)
(* their expiry and their limits, the codes of its coordinator             *)
(* (PairingCoordinator).  The two share no variable and are checked side   *)
(* by side: a behaviour is one of one part, and the other stays as it is.  *)
(***************************************************************************)
EXTENDS RelayHub, PairingCoordinator, TLC

CONSTANTS here, there,   \* two daemons
          guess,         \* a code of the second one
          near, far      \* the prefixes of the first one's codes and of guess

VARIABLE part
partVars == <<part, vars, coordVars>>

MCDrawnBy  == [t \in Token |-> IF t = guess THEN there ELSE here]
MCPrefixOf == [t \in Token |-> IF t = guess THEN far ELSE near]

Symmetry == Permutations(Phone)

MCInit == part \in {"hub", "codes"} /\ Init /\ CoordInit

HubPart   == part = "hub" /\ Next /\ UNCHANGED <<part, coordVars>>
CodesPart == part = "codes" /\ CoordNext /\ UNCHANGED <<part, vars>>

MCNext == HubPart \/ CodesPart
MCSpec == MCInit /\ [][MCNext]_partVars
=============================================================================
