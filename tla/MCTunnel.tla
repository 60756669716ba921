------------------------------ MODULE MCTunnel ------------------------------
(* Small instances of Tunnel. *)
EXTENDS Tunnel, TLC

Symmetry == Permutations(Req) \cup Permutations(Wsid)
=============================================================================
