CONSTANTS
  Users = {u1, u2}
  NoUnit = NoUnit
  NoRecord = NoRecord
  NoCall = NoCall
SPECIFICATION FairSpec
INVARIANTS
  TypeOK
  EventLegIsOurs
  NoEventUnitLeft
PROPERTIES
  StartOutcome
  CallReturns
  ImplementsEndpointStart
