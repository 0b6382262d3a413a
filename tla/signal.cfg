SPECIFICATION RelaySpec
CONSTANTS
  Sockets <- MCSockets
  Identities = {a, b}
  NoSocket = 0
  NoIdentity = NoIdentity
  Grace = 2
  Window = 60
  MaxRelay = 60
  MaxBurst = 60
  MaxTime = 30
  SingleJoin = FALSE
  Callers = {a}
  Sleep = 1
  IdleTime = 0
  MaxTrouble = 3
INVARIANTS
  RelayTypeOK
  RouteOpen
  RosterExact
  NoOrphanRelay
PROPERTIES
  Converges
CHECK_DEADLOCK FALSE
