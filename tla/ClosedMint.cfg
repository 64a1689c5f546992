CONSTANTS
  Ops = {o1}
  NoOp = NoOp
  Procs = {p1, p2}
  MaxAttempts = 1
  MaxReplacements = 0
  MaxReorgs = 1
  Revocable = {o1}
  MaxForeign = 0
SPECIFICATION Spec
INVARIANT ClosedNeverMints
CHECK_DEADLOCK FALSE
