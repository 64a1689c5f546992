SPECIFICATION Spec
CONSTANTS
  u1 = u1
  u2 = u2
  u3 = u3
  Requests = {r1, r2}
  Users <- MCUsers
  Keys <- MCKeys
  Bodies = {b1, b2}
  Required = 2
  MaxOps = 2
  MaxVersion = 1
  NoKey = NoKey
SYMMETRY Symmetry
CHECK_DEADLOCK FALSE
INVARIANTS TypeOK RetriesAreHarmless ResultIsStored AnswersMatchRequest TwoPersonRule
