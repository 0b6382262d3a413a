SPECIFICATION Spec
CONSTANTS
  Procs = {p1, p2, p3}
  Rooms = {p1, p2, p3, chosen}
  None = None
  Modes = {"full", "sandbox"}
  Full = "full"
  Args <- CommandLines
INVARIANTS
  LastModeSaved
CHECK_DEADLOCK FALSE
SYMMETRY Symmetry
