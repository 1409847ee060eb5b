CONSTANTS
  Threshold = 3
  MaxBackoff = 1
  Beats = 2
SPECIFICATION FairSpec
INVARIANTS
  TypeOK
  NoForwardLeaks
PROPERTIES
  StaysHealthy
  Recovers
  StatusIsCorrected
