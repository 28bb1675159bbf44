SPECIFICATION PromptSpec
CONSTANTS
  Conversations = {main}
  Main = main
  Rooms = {r1}
  Stays = {s1, s2}
  Calls = {c1}
  NoClaim = NoClaim
  NoStay = NoStay
  NoRecovery = NoRecovery
  RecoveryPin = RecoveryPin
  MaxTokens = 2
  MaxFaults = 2
PROPERTY RecoveryGetsThrough
CHECK_DEADLOCK FALSE
