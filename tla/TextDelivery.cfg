SPECIFICATION FairSpec
CONSTANTS
  Messages = {a, b}
  RefusalsMax = 2
  MaxFaults = 1
INVARIANTS OneReply NoticeOnlyWithoutAnswer HeardTwiceAtMost OneRunAtATime ClosedIsAccountedFor
PROPERTIES AcknowledgedOnEvidence EveryMessageCloses
CHECK_DEADLOCK FALSE
