SPECIFICATION Spec
CONSTANTS
  Sweepers = {w1}
  MaxDecisions = 4
  MaxSyncs = 4
  MaxReorgs = 0
CHECK_DEADLOCK FALSE
INVARIANT NoLiveApprovalIsRevoked
