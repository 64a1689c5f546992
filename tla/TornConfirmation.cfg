CONSTANTS
  Ops = {o1}
  NoOp = NoOp
  Procs = {p1}
  MaxAttempts = 1
  MaxReplacements = 0
  MaxReorgs = 1
  Revocable = {}
  MaxForeign = 0
SPECIFICATION Spec
INVARIANT OnlyFinalSucceeds
CHECK_DEADLOCK FALSE
