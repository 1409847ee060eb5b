CONSTANTS
  Sessions = {s1, s2}
  Endpoints = {e1}
  Users <- MCUsers
  Profiles <- MCInteractive
  LeaseTTL = 1
  RetryDelays <- MCDelays
  NoLease = NoLease
  NoRecord = NoRecord
  NoTunnel = NoTunnel
  DeadTunnel = DeadTunnel
  NoStatus = NoStatus
  NoCallback = NoCallback
  Mortal <- Nobody
  ManagedTargets <- NoTargets
  Cleanups = FALSE
  MaxCodex = 1
SPECIFICATION Spec
INVARIANTS
  TypeOK
  SnapshotsHold
  TargetCountMatches
  CallbackIsShown
  QuietTargetFreesCallback

  
SYMMETRY Symmetry
