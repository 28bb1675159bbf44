SPECIFICATION FairSpec
CONSTANTS
  Conversations = {main, thread}
  Main = main
  Rooms = {r1, r2}
  Stays = {s1, s2}
  Calls = {c1}
  NoClaim = NoClaim
  NoStay = NoStay
  NoRecovery = NoRecovery
  RecoveryPin = RecoveryPin
  MaxTokens = 2
  MaxFaults = 3
INVARIANTS StaysHoldTheVoice EndedStaysHaveLeft OneRoom CallHoldsAlone
CHECK_DEADLOCK FALSE
PROPERTY SweepFreesTheVoice
