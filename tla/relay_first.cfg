SPECIFICATION Spec
CONSTANTS
  Peers = {1, 2}
  NoKey = NoKey
  MaxSeqno = 2
INVARIANT RefusesOnlyReplays
