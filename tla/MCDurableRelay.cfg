CONSTANTS
  p1 = p1
  p2 = p2
  p3 = p3
  w = w
  x = x
  y = y
  z = z
  None = None
  Relays = {p1, p2, p3}
  Ids = {w, x, y, z}
  Destination <- MCDestination
  Policies <- MCPolicies
SYMMETRY RelaySymmetry
SPECIFICATION Spec
INVARIANTS
  TypeOK
  InvokedOnce
  AlwaysRestorable
  MemoryIsRestored
PROPERTIES
  OnlyReleased
