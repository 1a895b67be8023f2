CONSTANTS
  o1 = o1
  o2 = o2
  o3 = o3
  Owners = {o1}
  NoTag = none
  SCALE = 10
  Q = 100
  Amounts = {970}
  Parts = {1000}
  Debts = {395, 456}
  Collaterals = {500}
  Drips = {0}
  Kickbacks = {}
  FundedCap = 0
  MaxHistory = 4
  MaxEpochs = 3
  MaxDeposits = 2
  MaxFronts = 1
  MaxOffsets = 2
  MaxChanges = 2
SPECIFICATION Spec
INVARIANT AlwaysCovered
CHECK_DEADLOCK FALSE
