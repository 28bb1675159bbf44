SPECIFICATION FairForeignSpec
CONSTANTS
  f1 = f1
  f2 = f2
  f3 = f3
  Service = Service
  Jobs <- TwoCallers
  ServiceJobs <- TwoCallers
  Holds <- NoHolds
  Slots = 1
  MaxQueue = 2
  MaxFaults = 1
  MaxLeases = 1
  QueuePerLease = 1
INVARIANTS
  NoIdleRoom
PROPERTIES
  LossIsTold
  TurnsCome
CHECK_DEADLOCK FALSE
