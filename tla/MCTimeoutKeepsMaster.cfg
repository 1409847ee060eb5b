CONSTANTS
  Threshold = 3
  MaxBackoff = 1
  Beats = 2
SPECIFICATION Spec
PROPERTY TimeoutKeepsMaster
