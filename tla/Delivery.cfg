SPECIFICATION Spec
CONSTANTS
  Ops = {o1, o2}
  Dispatchers = {d1, d2}
  BatchSize = 2
  MaxFaults = 2
  Dead = Dead
CHECK_DEADLOCK FALSE
INVARIANTS TypeOK DispatchedMeansPublished NoJobBeforeApproval
PROPERTIES DispatchedIsFinal RowsAreDispatched ReadyIsClaimed
