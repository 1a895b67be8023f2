CONSTANTS
  h1 = h1
  h2 = h2
  k1 = k1
  k2 = k2
  k3 = k3
  None = None
  Handles = {h1, h2}
  Keys = {k1, k2, k3}
  Calls <- MCCalls
  Exclusive = {}
  MaxSequence = 2
SYMMETRY HandleSymmetry
SPECIFICATION Spec
INVARIANTS
  TypeOK
  WriterAtHead
  TablesAgree
  AnswersTrue
PROPERTIES
  WholeCommits
