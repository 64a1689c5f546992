CONSTANTS
  Ops = {o1}
  NoOp = NoOp
  Procs = {p1}
  MaxAttempts = 1
  MaxReplacements = 0
  MaxReorgs = 0
  Revocable = {o1}
  MaxForeign = 0
SPECIFICATION Spec
INVARIANT LateSignatureNeverSent
CHECK_DEADLOCK FALSE
