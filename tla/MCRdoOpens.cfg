CONSTANTS
  Sessions = {s1, s2}
  Requests = {r1, r2}
  Opens = {r1}
  Workers = 1
  LastVersion = 2
  Size <- MCTwoSizes
  Legacy = Legacy
  None = None
SPECIFICATION Spec
INVARIANT RdoOpens
CHECK_DEADLOCK FALSE
SYMMETRY Symmetry
