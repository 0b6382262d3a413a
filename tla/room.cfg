SPECIFICATION Spec
CONSTANTS
  Sockets = {s1, s2, s3}
  Identities = {a, b}
  NoSocket = NoSocket
  NoIdentity = NoIdentity
  Grace = 1
  Window = 2
  MaxRelay = 1
  MaxBurst = 2
  MaxTime = 2
  SingleJoin = FALSE
SYMMETRY Symmetry
INVARIANTS
  TypeOK
  SenderOwnsRoute
  EndedOwnsNoRoute
  RateBound
CHECK_DEADLOCK FALSE
