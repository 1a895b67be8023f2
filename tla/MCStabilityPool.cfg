CONSTANTS
  o1 = o1
  o2 = o2
  o3 = o3
  Owners = {o1, o2, o3}
  NoTag = none
  SCALE = 4
  Q = 16
  Amounts = {9, 40}
  Parts = {7, 100}
  Debts = {13, 39}
  Collaterals = {11}
  Drips = {0, 5}
  Kickbacks = {6}
  FundedCap = 5
  MaxHistory = 4
  MaxEpochs = 3
  MaxDeposits = 2
  MaxFronts = 2
  MaxOffsets = 3
  MaxChanges = 4
SYMMETRY OwnerSymmetry
SPECIFICATION Spec
INVARIANTS
  PrincipalWithinRounding
  NoPrincipalGain
PROPERTIES
  ClaimsUntouched
CHECK_DEADLOCK FALSE
