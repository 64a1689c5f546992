SPECIFICATION Spec
CONSTANTS
  Ops = {"MINT"}
  Procs = {p1, p2}
  Timer = p1
  Suggested <- MCSuggested
  BumpPercent = 10
  MaxReplacements = 1
  MaxPolls = 2
  MaxAttempts = 3
CHECK_DEADLOCK FALSE
INVARIANTS TypeOK BytesAreCommitted ReplacementsAreAccepted
PROPERTIES FailedIsNotRevived SigningIsResolved
