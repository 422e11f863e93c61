\* Two admins work on a lot while two chats bid; any call may fail.
CONSTANTS
  Chats = {ann, bob}
  Lots = {lot}
  StartPrice = 3
  BidStep = 1
  Amounts = {2, 4, 5}
  MaxInt = 99
  MaxBids = 2
  Stalls = FALSE
  Faults = TRUE
  NoChat = NoChat
  Admins = {eva, max}
  Desk = {"sell", "cancel", "pull", "restart"}
  MaxClicks = 3
SPECIFICATION DeskSpec
SYMMETRY Bidders
INVARIANTS DeskTypeOK SaleRecordConsistent LeaderIsReal FloorHeldUntilCancel NoticesReal AnnouncedInOrder
PROPERTIES OnlyASaleResurrects
