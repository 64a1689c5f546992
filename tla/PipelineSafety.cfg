CONSTANTS
  Ops = {o1}
  NoOp = NoOp
  Procs = {p1, p2}
  MaxAttempts = 2
  MaxReplacements = 1
  MaxReorgs = 1
  Revocable = {}
  MaxForeign = 0
SPECIFICATION Spec
SYMMETRY ProcSymmetry
INVARIANTS
  TypeOK
  AtMostOneMint
  PersistBeforeBroadcast
  LaneIsWhole
  SucceededIsFinal
  ConfirmedIsFinal
  InFlightIsVisible
  OneReservationPerOperation
PROPERTIES
  ImplementsLedger
  MovesAlongEdges
CHECK_DEADLOCK FALSE
