SPECIFICATION Spec
CONSTANTS
  Sweepers = {w1, w2}
  MaxDecisions = 2
  MaxSyncs = 3
  MaxReorgs = 1
CHECK_DEADLOCK FALSE
INVARIANTS TypeOK OneLiveSync
PROPERTIES RevocationNotUndone OvertakenNeverGranted
