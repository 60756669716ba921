---------------------------- MODULE MCRelayPeers ----------------------------
\* Small instances of RelayPeers.  Phones are interchangeable, and so are the
\* slots for handlers.
EXTENDS RelayPeers, TLC

Symmetry == Permutations(Phone) \cup Permutations(Job)
=============================================================================
