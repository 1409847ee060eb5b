CONSTANTS
  Tssh = {t1}
  Connect = {k1}
  LeaseTTL = 3
  Beat = 1
  ConnectBeat = 4
  RequestTimeout = 4
  ReleaseTimeout = 1
  JoinTimeout = 1
  MaxBlock = 3
  Backlog = 3
  NoLease = NoLease
  NoRequest = NoRequest
SPECIFICATION HistSpec
INVARIANT TypeOK
PROPERTIES
  LostOnlyWhenBlocked
  LiveLeaseRestored
  DeadLeaseGoes
