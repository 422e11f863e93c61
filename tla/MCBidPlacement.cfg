\* Three bidders race for one lot; Redis and MongoDB calls may fail.
CONSTANTS
  Chats = {ann, bob, cyn}
  Lots = {lot}
  StartPrice = 1
  BidStep = 2
  Amounts = {3, 4, 5, 7}
  MaxInt = 99
  MaxBids = 3
  Stalls = FALSE
  Faults = TRUE
  NoChat = NoChat
SPECIFICATION Spec
SYMMETRY Bidders
INVARIANTS TypeOK MutualExclusion OneWinnerPerPrice EventsInOrder
PROPERTIES ImplementsLotAuction
