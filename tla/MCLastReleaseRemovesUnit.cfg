CONSTANTS
  Users = {u1, u2}
  NoUnit = NoUnit
  NoRecord = NoRecord
  NoCall = NoCall
SPECIFICATION Spec
INVARIANT LastReleaseRemovesUnit
