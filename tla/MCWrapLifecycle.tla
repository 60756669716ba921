-------------------------- MODULE MCWrapLifecycle --------------------------
(* Small instances of WrapLifecycle. *)
EXTENDS WrapLifecycle, TLC

Symmetry == Permutations(Uuid) \cup Permutations(Proc)
            \cup Permutations(Sock) \cup Permutations(Mode)
=============================================================================
