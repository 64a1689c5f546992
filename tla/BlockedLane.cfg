CONSTANTS
  Ops = {o1}
  NoOp = NoOp
  Procs = {p1}
  MaxAttempts = 2
  MaxReplacements = 0
  MaxReorgs = 0
  Revocable = {}
  MaxForeign = 0
SPECIFICATION LaneSpec
PROPERTY AbandonedIsCleared
CHECK_DEADLOCK FALSE
