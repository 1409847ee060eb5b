CONSTANTS
  Sessions = {s1, s2, s3}
  Endpoints = {e1}
  Users <- MCUsers
  Profiles <- MCProfiles
  LeaseTTL = 1
  RetryDelays <- MCDelays
  NoLease = NoLease
  NoRecord = NoRecord
  NoTunnel = NoTunnel
  DeadTunnel = DeadTunnel
SPECIFICATION Spec
PROPERTY StartFailureKeepsLeases
