\* A bid in MongoDB, then a restart.
CONSTANTS
  Chats = {ann, bob}
  Lots = {lot}
  StartPrice = 1
  BidStep = 2
  Amounts = {3, 5}
  MaxInt = 99
  MaxBids = 2
  Stalls = FALSE
  Faults = FALSE
  NoChat = NoChat
  Admins = {eva}
  Desk = {"restart"}
  MaxClicks = 2
SPECIFICATION DeskSpec
INVARIANTS PriceSurvivesRestart
