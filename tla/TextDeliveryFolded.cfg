SPECIFICATION Spec
CONSTANTS
  Messages = {a, b}
  RefusalsMax = 2
  MaxFaults = 0
INVARIANT FoldedIsAnswered
CHECK_DEADLOCK FALSE
