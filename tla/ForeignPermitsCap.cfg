SPECIFICATION ForeignSpec
CONSTANTS
  f1 = f1
  f2 = f2
  f3 = f3
  Service = Service
  Jobs <- ThreeCallers
  ServiceJobs <- ThreeCallers
  Holds <- NoHolds
  Slots = 1
  MaxQueue = 2
  MaxFaults = 0
  MaxLeases = 1
  QueuePerLease = 1
INVARIANTS
  ForeignCap
CHECK_DEADLOCK FALSE
