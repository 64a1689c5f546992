SPECIFICATION Spec
CONSTANTS
  m1 = m1
  m2 = m2
  Wallets = {w1, w2}
  Mints = {m1, m2}
  Recipient = w1
  Amount <- MCAmount
  SupplyCap = 2
  Deployments = {d1, d2}
  Callers = {c1}
  Nobody = Nobody
  MaxBlocks = 4
  MaxReorgs = 1
  MaxOthers = 2
CHECK_DEADLOCK FALSE
INVARIANTS TypeOK IssuedAsMined SupplyIsBacked ActiveIsConfirmed
PROPERTIES ContractNeverChanges AssetImplementsLedger
