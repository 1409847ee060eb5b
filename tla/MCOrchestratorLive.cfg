CONSTANTS
  Sessions = {s1, s2}
  Endpoints = {e1}
  Users <- MCUsers
  Profiles <- MCKeyAndNoKey
  LeaseTTL = 1
  RetryDelays <- MCLadder
  NoLease = NoLease
  NoRecord = NoRecord
  NoTunnel = NoTunnel
  DeadTunnel = DeadTunnel
  NoStatus = NoStatus
  NoCallback = NoCallback
  Mortal <- MCMortal
  ManagedTargets <- OneTarget
  Cleanups = TRUE
  MaxCodex = 0
SPECIFICATION FairSpec
PROPERTIES
  DeadLeaseIsReclaimed
  DownEndpointRecovers
