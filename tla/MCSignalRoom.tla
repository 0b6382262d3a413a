---------------------------- MODULE MCSignalRoom ----------------------------
(* SignalRoom with few sockets and identities.  The sockets are alike, and *)
(* so are the identities.                                                  *)
EXTENDS SignalRoom, TLC

Symmetry == Permutations(Sockets) \cup Permutations(Identities)

=============================================================================
