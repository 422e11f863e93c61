\* Two admins who create, start and end auctions and add lots; any call may
\* fail.
CONSTANTS
  Auctions = {spring, autumn}
  MaxLots = 1
  Admins = {eva, max}
  Chats = {ann}
  Faults = TRUE
  MaxClicks = 2
  MaxRestarts = 1
  MaxLogged = 1
  NoAuction = NoAuction
SPECIFICATION Spec
SYMMETRY Alike
INVARIANTS LifecycleTypeOK AtMostOneActive NoBidInDraft ShownLotsBiddable
PROPERTIES ImplementsAuctionHouse
