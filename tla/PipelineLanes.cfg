CONSTANTS
  Ops = {o1, o2}
  NoOp = NoOp
  Procs = {p1, p2}
  MaxAttempts = 3
  MaxReplacements = 0
  MaxReorgs = 0
  Revocable = {o1, o2}
  MaxForeign = 1
SPECIFICATION ReservingSpec
SYMMETRY Symmetry
INVARIANT LaneIsWhole
CHECK_DEADLOCK FALSE
