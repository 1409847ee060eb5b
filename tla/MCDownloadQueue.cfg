CONSTANTS
  Sessions = {s1, s2}
  Requests = {r1, r2}
  Opens = {r1}
  Workers = 1
  LastVersion = 3
  Size <- MCSize
  Legacy = Legacy
  None = None
SPECIFICATION Spec
INVARIANTS
  TypeOK
  SidecarIsTrue
  SuccessMeansFetched
CHECK_DEADLOCK FALSE
SYMMETRY Symmetry
