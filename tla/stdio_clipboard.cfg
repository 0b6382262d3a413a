SPECIFICATION Spec
CONSTANTS
  Procs <- MCProcs
  Ids = {i1, i2}
  NoId = NoId
  MaxTries = 2
  Capabilities = {"invoke"}
  MaxShots = 3
  Starts <- MCStarts
INVARIANT ClipboardInEveryMode
CHECK_DEADLOCK FALSE
