SPECIFICATION Spec
CONSTANTS
  Sockets = {s1, s2}
  Identities = {a, b}
  NoSocket = NoSocket
  NoIdentity = NoIdentity
  Grace = 2
  Window = 2
  MaxRelay = 1
  MaxBurst = 2
  MaxTime = 2
  SingleJoin = FALSE
SYMMETRY Symmetry
INVARIANT PeersConnected
CHECK_DEADLOCK FALSE
