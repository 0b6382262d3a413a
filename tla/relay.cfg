SPECIFICATION Spec
CONSTANTS
  Peers = {1, 2}
  NoKey = NoKey
  MaxSeqno = 3
INVARIANTS
  TypeOK
  AtMostOnceInOrder
  Authentic
  UniqueSeqno
  KeyAgreement
  RxIsLastAccepted
PROPERTIES
  CountersMonotone
  ImplementsChannel
