SPECIFICATION FairSpec
CONSTANTS
  serviceRun = serviceRun
  serviceHold = serviceHold
  commandRun = commandRun
  Service = Service
  Jobs <- MCJobs
  ServiceJobs <- MCServiceJobs
  Holds <- MCHolds
  Slots = 1
  MaxQueue = 2
  MaxFaults = 1
INVARIANTS
  WorkKeepsItsPermit
  LiveRequestsStay
PROPERTIES
  WaitersAreServed
  ImplementsLane
CHECK_DEADLOCK FALSE
