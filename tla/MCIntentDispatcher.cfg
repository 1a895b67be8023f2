CONSTANTS
  p1 = p1
  p2 = p2
  i1 = i1
  i2 = i2
  None = none
  Principals = {p1, p2}
  Ids = {i1, i2}
  Destination <- MCDestination
  Bytes <- MCBytes
  Policies <- MCPolicies
  GrantLimit = 2
  ByteLimit = 2
  DispatchLimit = 1
  MaxGrant = 2
  RequestLimits = {2}
  MaxOwners = 2
SYMMETRY PrincipalSymmetry
SPECIFICATION Spec
INVARIANTS
  GrantBooks
  HonestChannel
PROPERTIES
  InvokedUnderGrant
CHECK_DEADLOCK FALSE
